----------------------------- MODULE ReadWritProofs -----------------------------
(***************************************************************************)
(* Proofs about the thread-safe string buffer, for any number of readers   *)
(* and writers and any words.                                              *)
(***************************************************************************)
EXTENDS ReadWrit, FiniteSetTheorems, TLAPS

\* Who has getable: at most one reader, and it changes getters alone.
HasGetable == {"count_in", "wait_putable", "entered", "count_out", "post_putable", "left"}

\* Where the readers are that have let the group in, and not yet out.
Inside == {"entered", "test", "strdup", "leave", "count_out", "post_putable"}

GetableInv ==
  /\ getable = 1 <=> \A r \in Readers : pc[r] \notin HasGetable
  /\ \A r, q \in Readers : pc[r] \in HasGetable /\ pc[q] \in HasGetable => r = q

\* The reader that takes putable is the only one counted, and the one that
\* gives it back has counted itself out as the last.
CountInv ==
  /\ getters = Cardinality(Counted)
  /\ \A r \in Readers :
       /\ pc[r] = "wait_putable" => Counted = {r}
       /\ pc[r] = "post_putable" => Counted = {}

\* putable is in the hands of the readers that are inside, or of one writer,
\* or of nobody.
PutableInv ==
  /\ putable = 1 <=> /\ \A r \in Readers : pc[r] \notin Inside
                     /\ \A w \in Writers : pc[w] \notin Writing
  /\ \A w \in Writers : pc[w] \in Writing =>
       /\ \A r \in Readers : pc[r] \notin Inside
       /\ \A v \in Writers : pc[v] \in Writing => v = w

\* The string is torn exactly while a writer is at strcpy.
StringInv ==
  /\ s = Torn <=> \E w \in Writers : pc[w] = "strcpy"
  /\ \A w \in Writers : pc[w] \in {"wr_lock"} \cup Writing => data[w] \in Words

Places ==
  {"idle", "enter", "count_in", "wait_putable", "entered", "test", "strdup", "leave",
   "count_out", "post_putable", "left", "return",
   "wr_lock", "realloc", "strcpy", "wr_unlock"}

ReadWritInv ==
  /\ TypeOK /\ pc \in [Users -> Places]
  /\ GetableInv /\ CountInv /\ PutableInv /\ StringInv

------------------------------------------------------------------------------
(* Counting                                                                *)

LEMMA CountedFinite ==
  ASSUME ReadWritAssumption
  PROVE  /\ IsFiniteSet(Counted) /\ Cardinality(Counted) \in 0..Cardinality(Readers)
         /\ Cardinality(Counted) = 0 <=> Counted = {}
<1>1. Counted \in SUBSET Readers /\ IsFiniteSet(Readers)
  BY DEF Counted, ReadWritAssumption
<1>2. IsFiniteSet(Counted) /\ Cardinality(Counted) <= Cardinality(Readers)
  BY <1>1, FS_Subset
<1>3. Cardinality(Counted) \in Nat /\ Cardinality(Readers) \in Nat
  BY <1>1, <1>2, FS_CardinalityType
<1> QED BY <1>2, <1>3, FS_EmptySet

LEMMA InitReadWritInv == ASSUME ReadWritAssumption, Init PROVE ReadWritInv
<1>1. Counted = {}
  BY DEF Init, Counted, Users
<1>2. Cardinality(Counted) = 0 /\ Cardinality(Readers) \in Nat
  BY <1>1, FS_EmptySet, FS_CardinalityType DEF ReadWritAssumption
<1>3. TypeOK /\ pc \in [Users -> Places]
  BY <1>2 DEF Init, TypeOK, Users, Places
<1>4. GetableInv /\ CountInv
  BY <1>1, <1>2 DEF Init, GetableInv, HasGetable, CountInv, Users
<1>5. PutableInv /\ StringInv
  BY DEF Init, PutableInv, StringInv, Inside, Writing, Users, ReadWritAssumption
<1> QED BY <1>3, <1>4, <1>5 DEF ReadWritInv

------------------------------------------------------------------------------
(* The readers                                                             *)

\* Counted when one reader moves, without its number.
LEMMA MoveCounted ==
  ASSUME ReadWritInv, NEW r \in Readers, NEW p \in Places, pc' = [pc EXCEPT ![r] = p]
  PROVE  Counted' = IF p \in {"wait_putable", "entered", "test", "strdup", "leave",
                              "count_out"}
                    THEN Counted \cup {r} ELSE Counted \ {r}
BY DEF ReadWritInv, Counted, Users

LEMMA StaysCounted ==
  ASSUME ReadWritInv, NEW r \in Readers, NEW p \in Places, pc' = [pc EXCEPT ![r] = p],
         r \in Counted <=> p \in {"wait_putable", "entered", "test", "strdup", "leave",
                               "count_out"}
  PROVE  Counted' = Counted
<1>1. CASE r \in Counted
  BY <1>1, MoveCounted
<1>2. CASE r \notin Counted
  BY <1>2, MoveCounted
<1> QED BY <1>1, <1>2

\* A step of get that touches neither semaphore nor getters, and stays on the
\* same side of all four of its borders.
LEMMA QuietReader ==
  ASSUME ReadWritAssumption, ReadWritInv, NEW r \in Readers, NEW p \in Places,
         pc' = [pc EXCEPT ![r] = p],
         UNCHANGED <<s, getters, getable, putable>>,
         data' \in [Users -> Words \cup {Null}],
         \A w \in Writers : data'[w] = data[w],
         p \in {"idle", "enter", "test", "strdup", "leave", "return"},
         pc[r] \notin HasGetable,
         r \in Counted <=> p \in {"test", "strdup", "leave"}
  PROVE  ReadWritInv'
<1>1. Counted' = Counted
  BY MoveCounted DEF Counted
<1>2. r \notin Writers /\ r \in Users
  BY DEF ReadWritAssumption, Users
<1>3. TypeOK' /\ pc' \in [Users -> Places]
  BY <1>2 DEF ReadWritInv, TypeOK, Users
<1>4. GetableInv'
  BY <1>2 DEF ReadWritInv, GetableInv, HasGetable
<1>5. CountInv'
  BY <1>1, <1>2 DEF ReadWritInv, CountInv
<1>6. PutableInv'
  <2>1. pc'[r] \in Inside <=> pc[r] \in Inside
    BY <1>2 DEF ReadWritInv, Inside, HasGetable, Counted, TypeOK
  <2> QED BY <1>2, <2>1 DEF ReadWritInv, PutableInv
<1>7. StringInv'
  BY <1>2 DEF ReadWritInv, StringInv
<1> QED BY <1>3, <1>4, <1>5, <1>6, <1>7 DEF ReadWritInv

LEMMA WaitGetableStep ==
  ASSUME ReadWritAssumption, ReadWritInv, NEW r \in Readers, WaitGetable(r)
  PROVE  ReadWritInv'
<1>1. /\ r \notin Writers /\ r \in Users
      /\ getable = 1 /\ getable' = 0 /\ UNCHANGED <<s, getters, putable, data>>
      /\ \A q \in Readers : pc[q] \notin HasGetable
  BY DEF ReadWritAssumption, Users, WaitGetable, ReadWritInv, TypeOK, GetableInv
<1>2. PICK p \in {"count_in", "count_out"} :
        /\ pc' = [pc EXCEPT ![r] = p]
        /\ pc[r] = IF p = "count_in" THEN "enter" ELSE "leave"
  BY DEF WaitGetable, Goto
<1>3. Counted' = Counted
  BY <1>2, StaysCounted DEF Counted, Places
<1>4. TypeOK' /\ pc' \in [Users -> Places]
  BY <1>1, <1>2 DEF ReadWritInv, TypeOK, Users, Places
<1>5. GetableInv'
  BY <1>1, <1>2 DEF ReadWritInv, GetableInv, HasGetable
<1>6. CountInv'
  BY <1>1, <1>2, <1>3 DEF ReadWritInv, CountInv
<1>7. PutableInv' /\ StringInv'
  BY <1>1, <1>2 DEF ReadWritInv, PutableInv, StringInv, Inside
<1> QED BY <1>4, <1>5, <1>6, <1>7 DEF ReadWritInv

LEMMA CountInStep ==
  ASSUME ReadWritAssumption, ReadWritInv, NEW r \in Readers, CountIn(r)
  PROVE  ReadWritInv'
<1>1. /\ r \notin Writers /\ r \in Users /\ pc[r] = "count_in" /\ r \notin Counted
      /\ getters' = getters + 1 /\ UNCHANGED <<s, getable, putable, data>>
      /\ \A q \in Readers : pc[q] \in HasGetable => q = r
  BY DEF ReadWritAssumption, Users, CountIn, Goto, ReadWritInv, GetableInv, HasGetable, Counted
<1>2. getters = Cardinality(Counted) /\ getters \in Nat /\ (getters = 0 <=> Counted = {})
  BY CountedFinite DEF ReadWritInv, CountInv
<1>3. PICK p \in {"wait_putable", "entered"} :
        pc' = [pc EXCEPT ![r] = p] /\ (p = "wait_putable" <=> Counted = {})
  <2>1. CASE getters = 0
    BY <1>2, <2>1 DEF CountIn, Goto
  <2>2. CASE getters # 0
    <3>1. getters + 1 # 1
      BY <1>2, <2>2
    <3> QED BY <1>2, <2>2, <3>1 DEF CountIn, Goto
  <2> QED BY <2>1, <2>2
<1>4. Counted' = Counted \cup {r}
  BY <1>3, MoveCounted DEF Places
<1>5. getters' = Cardinality(Counted')
  BY <1>1, <1>2, <1>4, CountedFinite, FS_AddElement
<1>6. Counted' \in SUBSET Readers /\ IsFiniteSet(Readers)
  BY DEF Counted, ReadWritAssumption
<1>7. getters' \in 0..Cardinality(Readers)
  BY <1>1, <1>2, <1>5, <1>6, FS_Subset, FS_CardinalityType
<1>8. TypeOK' /\ pc' \in [Users -> Places]
  BY <1>1, <1>3, <1>7 DEF ReadWritInv, TypeOK, Users, Places
<1>9. GetableInv'
  BY <1>1, <1>3 DEF ReadWritInv, GetableInv, HasGetable
<1>10. CountInv'
  BY <1>1, <1>3, <1>4, <1>5 DEF ReadWritInv, CountInv, HasGetable
<1>11. PutableInv'
  <2>1. CASE p = "wait_putable"
    BY <1>1, <1>3, <2>1 DEF ReadWritInv, PutableInv, Inside
  <2>2. CASE p = "entered"
    <3>1. PICK q \in Counted : q # r
      BY <1>1, <1>3, <2>2
    <3>2. q \in Readers /\ pc[q] \in Inside
      BY <1>1, <3>1 DEF Counted, HasGetable, Inside
    <3> QED BY <1>1, <1>3, <2>2, <3>1, <3>2 DEF ReadWritInv, PutableInv, Inside
  <2> QED BY <2>1, <2>2
<1>12. StringInv'
  BY <1>1, <1>3 DEF ReadWritInv, StringInv
<1> QED BY <1>8, <1>9, <1>10, <1>11, <1>12 DEF ReadWritInv

LEMMA ReaderWaitPutableStep ==
  ASSUME ReadWritAssumption, ReadWritInv, NEW r \in Readers, ReaderWaitPutable(r)
  PROVE  ReadWritInv'
<1>1. /\ r \notin Writers /\ r \in Users
      /\ pc[r] = "wait_putable" /\ pc' = [pc EXCEPT ![r] = "entered"]
      /\ putable = 1 /\ putable' = 0 /\ UNCHANGED <<s, getters, getable, data>>
  BY DEF ReadWritAssumption, Users, ReaderWaitPutable, Goto, ReadWritInv, TypeOK
<1>2. Counted' = Counted
  BY <1>1, StaysCounted DEF Counted, Places
<1>3. TypeOK' /\ pc' \in [Users -> Places]
  BY <1>1 DEF ReadWritInv, TypeOK, Users, Places
<1>4. GetableInv'
  BY <1>1 DEF ReadWritInv, GetableInv, HasGetable
<1>5. CountInv'
  BY <1>1, <1>2 DEF ReadWritInv, CountInv
<1>6. PutableInv' /\ StringInv'
  BY <1>1 DEF ReadWritInv, PutableInv, StringInv, Inside
<1> QED BY <1>3, <1>4, <1>5, <1>6 DEF ReadWritInv

LEMMA CountOutStep ==
  ASSUME ReadWritAssumption, ReadWritInv, NEW r \in Readers, CountOut(r)
  PROVE  ReadWritInv'
<1>1. /\ r \notin Writers /\ r \in Users /\ pc[r] = "count_out" /\ r \in Counted
      /\ getters' = getters - 1 /\ UNCHANGED <<s, getable, putable, data>>
      /\ \A q \in Readers : pc[q] \in HasGetable => q = r
  BY DEF ReadWritAssumption, Users, CountOut, Goto, ReadWritInv, GetableInv, HasGetable, Counted
<1>2. getters = Cardinality(Counted) /\ getters \in 1..Cardinality(Readers)
  BY <1>1, CountedFinite DEF ReadWritInv, CountInv
<1>3. /\ Cardinality(Counted \ {r}) = getters - 1
      /\ Cardinality(Counted \ {r}) = 0 <=> Counted \ {r} = {}
  BY <1>1, <1>2, CountedFinite, FS_RemoveElement, FS_EmptySet
<1>4. PICK p \in {"post_putable", "left"} :
        pc' = [pc EXCEPT ![r] = p] /\ (p = "post_putable" <=> Counted \ {r} = {})
  BY <1>2, <1>3 DEF CountOut, Goto
<1>5. Counted' = Counted \ {r}
  BY <1>4, MoveCounted DEF Places
<1>6. TypeOK' /\ pc' \in [Users -> Places]
  <2>1. getters' \in 0..Cardinality(Readers)
    <3>1. Cardinality(Readers) \in Nat
      BY FS_CardinalityType DEF ReadWritAssumption
    <3> QED BY <1>1, <1>2, <3>1
  <2> QED BY <1>1, <1>4, <2>1 DEF ReadWritInv, TypeOK, Users, Places
<1>7. GetableInv'
  BY <1>1, <1>4 DEF ReadWritInv, GetableInv, HasGetable
<1>8. CountInv'
  BY <1>1, <1>2, <1>3, <1>4, <1>5 DEF ReadWritInv, CountInv, HasGetable
<1>9. PutableInv'
  <2>1. CASE p = "post_putable"
    BY <1>1, <1>4, <2>1 DEF ReadWritInv, PutableInv, Inside
  <2>2. CASE p = "left"
    <3>1. PICK q \in Counted : q # r
      BY <1>4, <2>2
    <3>2. q \in Readers /\ pc[q] \in Inside
      BY <1>1, <3>1 DEF Counted, HasGetable, Inside
    <3> QED BY <1>1, <1>4, <2>2, <3>1, <3>2 DEF ReadWritInv, PutableInv, Inside
  <2> QED BY <2>1, <2>2
<1>10. StringInv'
  BY <1>1, <1>4 DEF ReadWritInv, StringInv
<1> QED BY <1>6, <1>7, <1>8, <1>9, <1>10 DEF ReadWritInv

LEMMA ReaderPostPutableStep ==
  ASSUME ReadWritAssumption, ReadWritInv, NEW r \in Readers, ReaderPostPutable(r)
  PROVE  ReadWritInv'
<1>1. /\ r \notin Writers /\ r \in Users
      /\ pc[r] = "post_putable" /\ pc' = [pc EXCEPT ![r] = "left"]
      /\ UNCHANGED <<s, getters, getable, data>>
      /\ Counted = {} /\ \A q \in Readers : pc[q] \in HasGetable => q = r
  BY DEF ReadWritAssumption, Users, ReaderPostPutable, Goto, ReadWritInv, CountInv,
         GetableInv, HasGetable
<1>2. putable = 0 /\ putable' = 1 /\ \A w \in Writers : pc[w] \notin Writing
  BY <1>1 DEF ReaderPostPutable, ReadWritInv, PutableInv, Inside, TypeOK
<1>3. Counted' = Counted
  BY <1>1, StaysCounted DEF Counted, Places
<1>4. TypeOK' /\ pc' \in [Users -> Places]
  BY <1>1, <1>2 DEF ReadWritInv, TypeOK, Users, Places
<1>5. GetableInv'
  BY <1>1 DEF ReadWritInv, GetableInv, HasGetable
<1>6. CountInv'
  BY <1>1, <1>3 DEF ReadWritInv, CountInv
<1>7. \A q \in Readers : pc'[q] \notin Inside
  BY <1>1 DEF Counted, HasGetable, Inside, ReadWritInv
<1>8. PutableInv' /\ StringInv'
  BY <1>1, <1>2, <1>7 DEF ReadWritInv, PutableInv, StringInv
<1> QED BY <1>4, <1>5, <1>6, <1>8 DEF ReadWritInv

LEMMA PostGetableStep ==
  ASSUME ReadWritAssumption, ReadWritInv, NEW r \in Readers, PostGetable(r)
  PROVE  ReadWritInv'
<1>1. PICK p \in {"test", "return"} :
        /\ pc' = [pc EXCEPT ![r] = p]
        /\ pc[r] = IF p = "test" THEN "entered" ELSE "left"
  BY DEF PostGetable, Goto
<1>2. /\ r \notin Writers /\ r \in Users
      /\ getable = 0 /\ getable' = 1 /\ UNCHANGED <<s, getters, putable, data>>
      /\ \A q \in Readers : pc[q] \in HasGetable => q = r
  BY <1>1 DEF ReadWritAssumption, Users, PostGetable, ReadWritInv, TypeOK, GetableInv, HasGetable
<1>3. Counted' = Counted
  BY <1>1, StaysCounted DEF Counted, Places
<1>4. TypeOK' /\ pc' \in [Users -> Places]
  BY <1>1, <1>2 DEF ReadWritInv, TypeOK, Users, Places
<1>5. GetableInv'
  BY <1>1, <1>2 DEF ReadWritInv, GetableInv, HasGetable
<1>6. CountInv'
  BY <1>1, <1>2, <1>3 DEF ReadWritInv, CountInv
<1>7. PutableInv' /\ StringInv'
  BY <1>1, <1>2 DEF ReadWritInv, PutableInv, StringInv, Inside
<1> QED BY <1>4, <1>5, <1>6, <1>7 DEF ReadWritInv

\* Nobody writes while a reader is at strdup, so that it copies a word.
LEMMA OtherReaderStep ==
  ASSUME ReadWritAssumption, ReadWritInv, NEW r \in Readers,
         CallGet(r) \/ TestString(r) \/ Strdup(r) \/ GetReturn(r)
  PROVE  ReadWritInv'
<1>1. r \notin Writers /\ r \in Users /\ data \in [Users -> Words \cup {Null}]
      /\ \A w \in Writers : w # r
  BY DEF ReadWritAssumption, Users, ReadWritInv, TypeOK
<1>2. CASE CallGet(r)
  <2>1. data' \in [Users -> Words \cup {Null}] /\ \A w \in Writers : data'[w] = data[w]
    BY <1>1, <1>2 DEF CallGet
  <2> QED BY <1>2, <2>1, QuietReader DEF CallGet, Goto, HasGetable, Counted, Places
<1>3. CASE TestString(r)
  BY <1>1, <1>3, QuietReader DEF TestString, Goto, HasGetable, Counted, Places
<1>4. CASE Strdup(r)
  <2>1. s # Torn
    BY <1>4 DEF Strdup, Goto, ReadWritInv, PutableInv, StringInv, Inside, Writing
  <2>2. data' \in [Users -> Words \cup {Null}] /\ \A w \in Writers : data'[w] = data[w]
    BY <1>1, <1>4, <2>1 DEF Strdup, ReadWritInv, TypeOK
  <2> QED BY <1>4, <2>2, QuietReader DEF Strdup, Goto, HasGetable, Counted, Places
<1>5. CASE GetReturn(r)
  BY <1>1, <1>5, QuietReader DEF GetReturn, Goto, HasGetable, Counted, Places
<1> QED BY <1>2, <1>3, <1>4, <1>5

------------------------------------------------------------------------------
(* The writers                                                             *)

\* A writer moves neither the readers nor what they count.
LEMMA WriterStep ==
  ASSUME ReadWritAssumption, ReadWritInv, NEW w \in Writers, Writer(w)
  PROVE  ReadWritInv'
<1>1. PICK p \in {"wr_lock", "realloc", "strcpy", "wr_unlock", "return", "idle"} :
        pc' = [pc EXCEPT ![w] = p]
  BY DEF Writer, CallPut, WriterWaitPutable, Realloc, Strcpy, WriterPostPutable, PutReturn, Goto
<1>2. /\ w \notin Readers /\ w \in Users /\ UNCHANGED <<getters, getable>>
      /\ \A r \in Readers : r # w /\ pc'[r] = pc[r]
  BY <1>1 DEF ReadWritAssumption, Users, ReadWritInv, Writer, CallPut, WriterWaitPutable,
              Realloc, Strcpy, WriterPostPutable, PutReturn
<1>3. Counted' = Counted
  BY <1>2 DEF Counted
<1>4. GetableInv' /\ CountInv'
  BY <1>2, <1>3 DEF ReadWritInv, GetableInv, CountInv
<1>5. pc' \in [Users -> Places]
  BY <1>1 DEF ReadWritInv, Places
<1>6. CASE CallPut(w)
  <2>1. /\ pc[w] = "idle" /\ pc' = [pc EXCEPT ![w] = "wr_lock"] /\ UNCHANGED <<s, putable>>
        /\ \E x \in Words : data' = [data EXCEPT ![w] = x]
    BY <1>6 DEF CallPut, Goto
  <2>2. TypeOK'
    BY <1>2, <2>1 DEF ReadWritInv, TypeOK, Users
  <2>3. PutableInv' /\ StringInv'
    BY <1>2, <2>1 DEF ReadWritInv, TypeOK, PutableInv, StringInv, Writing
  <2> QED BY <1>4, <1>5, <2>2, <2>3 DEF ReadWritInv
<1>7. CASE WriterWaitPutable(w)
  <2>1. /\ pc[w] = "wr_lock" /\ pc' = [pc EXCEPT ![w] = "realloc"] /\ UNCHANGED <<s, data>>
        /\ putable = 1 /\ putable' = 0
    BY <1>7 DEF WriterWaitPutable, Goto, ReadWritInv, TypeOK
  <2>2. TypeOK'
    BY <1>2, <2>1 DEF ReadWritInv, TypeOK, Users
  <2>3. PutableInv' /\ StringInv'
    BY <1>2, <2>1 DEF ReadWritInv, PutableInv, StringInv, Writing
  <2> QED BY <1>4, <1>5, <2>2, <2>3 DEF ReadWritInv
<1>8. CASE Realloc(w)
  <2>1. /\ pc[w] = "realloc" /\ pc' = [pc EXCEPT ![w] = "strcpy"]
        /\ s' = Torn /\ UNCHANGED <<putable, data>>
    BY <1>8 DEF Realloc, Goto
  <2>2. TypeOK'
    BY <1>2, <2>1 DEF ReadWritInv, TypeOK, Users
  <2>3. PutableInv' /\ StringInv'
    BY <1>2, <2>1 DEF ReadWritInv, PutableInv, StringInv, Writing
  <2> QED BY <1>4, <1>5, <2>2, <2>3 DEF ReadWritInv
<1>9. CASE Strcpy(w)
  <2>1. /\ pc[w] = "strcpy" /\ pc' = [pc EXCEPT ![w] = "wr_unlock"]
        /\ s' = data[w] /\ data[w] \in Words /\ UNCHANGED <<putable, data>>
    BY <1>9 DEF Strcpy, Goto, ReadWritInv, StringInv, Writing
  <2>2. TypeOK'
    BY <1>2, <2>1 DEF ReadWritInv, TypeOK, Users
  <2>3. PutableInv'
    BY <1>2, <2>1 DEF ReadWritInv, PutableInv, Writing
  <2>4. StringInv'
    <3>1. \A v \in Writers : pc'[v] # "strcpy"
      BY <1>2, <2>1 DEF ReadWritInv, PutableInv, Writing
    <3> QED BY <2>1, <3>1 DEF ReadWritInv, StringInv, Writing, ReadWritAssumption
  <2> QED BY <1>4, <1>5, <2>2, <2>3, <2>4 DEF ReadWritInv
<1>10. CASE WriterPostPutable(w)
  <2>1. /\ pc[w] = "wr_unlock" /\ pc' = [pc EXCEPT ![w] = "return"]
        /\ putable' = putable + 1 /\ UNCHANGED <<s, data>>
    BY <1>10 DEF WriterPostPutable, Goto
  <2>2. putable = 0 /\ \A v \in Writers \ {w} : pc[v] \notin Writing
    BY <2>1 DEF ReadWritInv, TypeOK, PutableInv, Writing
  <2>3. putable' = 1
    BY <2>1, <2>2
  <2>4. TypeOK'
    BY <1>2, <2>1, <2>3 DEF ReadWritInv, TypeOK, Users
  <2>5. PutableInv' /\ StringInv'
    BY <1>2, <2>1, <2>2, <2>3 DEF ReadWritInv, PutableInv, StringInv, Writing
  <2> QED BY <1>4, <1>5, <2>4, <2>5 DEF ReadWritInv
<1>11. CASE PutReturn(w)
  <2>1. /\ pc[w] = "return" /\ pc' = [pc EXCEPT ![w] = "idle"]
        /\ UNCHANGED <<s, putable, data>>
    BY <1>11 DEF PutReturn, Goto
  <2>2. TypeOK'
    BY <1>2, <2>1 DEF ReadWritInv, TypeOK, Users
  <2>3. PutableInv' /\ StringInv'
    BY <1>2, <2>1 DEF ReadWritInv, PutableInv, StringInv, Writing
  <2> QED BY <1>4, <1>5, <2>2, <2>3 DEF ReadWritInv
<1> QED BY <1>6, <1>7, <1>8, <1>9, <1>10, <1>11 DEF Writer

LEMMA NextReadWritInv ==
  ASSUME ReadWritAssumption, ReadWritInv, [Next]_vars
  PROVE  ReadWritInv'
<1>1. CASE UNCHANGED vars
  BY <1>1 DEF vars, ReadWritInv, TypeOK, GetableInv, CountInv, PutableInv, StringInv, Counted
<1> QED
  BY <1>1, WaitGetableStep, CountInStep, ReaderWaitPutableStep, CountOutStep,
     ReaderPostPutableStep, PostGetableStep, OtherReaderStep, WriterStep DEF Next, Get

THEOREM ReadWritInvariant == ASSUME ReadWritAssumption PROVE Spec => []ReadWritInv
<1>1. Init => ReadWritInv
  BY InitReadWritInv
<1>2. ReadWritInv /\ [Next]_vars => ReadWritInv'
  BY NextReadWritInv
<1> QED BY <1>1, <1>2, PTL DEF Spec

\* Type correctness: both semaphores stay binary, and getters counts readers.
THEOREM ReadWritTypeCorrect == ASSUME ReadWritAssumption PROVE Spec => []TypeOK
<1>1. ReadWritInv => TypeOK
  BY DEF ReadWritInv
<1> QED BY <1>1, ReadWritInvariant, PTL

\* For any number of readers and writers: a writer is alone with the string,
\* and getters counts the readers that are in.
THEOREM WritersAreAlone == ASSUME ReadWritAssumption PROVE Spec => []WritersAlone
<1>1. ReadWritInv => WritersAlone
  <2> SUFFICES ASSUME ReadWritInv, NEW w \in Writers, pc[w] \in Writing, NEW t \in Users \ {w}
               PROVE  pc[t] \notin Reading \cup Writing
    BY DEF WritersAlone, ReadWritInv, CountInv
  <2>1. CASE t \in Readers
    BY <2>1 DEF ReadWritInv, TypeOK, PutableInv, Inside, Reading, Writing
  <2>2. CASE t \in Writers
    BY <2>2 DEF ReadWritInv, TypeOK, PutableInv, Reading, Writing
  <2> QED BY <2>1, <2>2 DEF Users
<1> QED BY <1>1, ReadWritInvariant, PTL

\* Readers and writers never all wait for each other.  Whoever has getable goes
\* on but for a first reader that waits for putable, and then it is the only
\* one counted: putable is with a writer, which goes on.
THEOREM UsersGoOn == ASSUME ReadWritAssumption PROVE Spec => []SomebodyGoesOn
<1>1. ReadWritInv => SomebodyGoesOn
  <2> SUFFICES ASSUME ReadWritInv, getable = 0 \/ putable = 0
               PROVE  \E u \in Users : pc[u] # "idle" /\ ~Waits(u)
    BY DEF SomebodyGoesOn, Waits
  <2>1. ASSUME NEW w \in Writers, pc[w] \in Writing
        PROVE  w \in Users /\ pc[w] # "idle" /\ ~Waits(w)
    BY <2>1 DEF Users, Writing, Waits
  <2>2. ASSUME NEW r \in Readers, pc[r] \in HasGetable, pc[r] # "wait_putable" \/ putable = 1
        PROVE  r \in Users /\ pc[r] # "idle" /\ ~Waits(r)
    BY <2>2 DEF Users, HasGetable, Waits
  <2>3. ASSUME NEW r \in Readers, pc[r] \in Inside, getable = 1
        PROVE  r \in Users /\ pc[r] # "idle" /\ ~Waits(r)
    BY <2>3 DEF Users, Inside, Waits
  <2>4. CASE putable = 0 /\ getable = 1
    BY <2>1, <2>3, <2>4 DEF ReadWritInv, PutableInv
  <2>5. CASE putable = 1 /\ getable = 0
    BY <2>2, <2>5 DEF ReadWritInv, GetableInv
  <2>6. CASE putable = 0 /\ getable = 0
    <3>1. PICK r \in Readers : pc[r] \in HasGetable
      BY <2>6 DEF ReadWritInv, GetableInv
    <3>2. CASE pc[r] # "wait_putable"
      BY <2>2, <3>1, <3>2
    <3>3. CASE pc[r] = "wait_putable"
      <4>1. Counted = {r} /\ \A q \in Readers : pc[q] \in HasGetable => q = r
        BY <3>1, <3>3 DEF ReadWritInv, CountInv, GetableInv
      <4>2. \A q \in Readers : pc[q] \notin Inside
        BY <3>3, <4>1 DEF Counted, Inside, HasGetable
      <4> QED BY <2>1, <2>6, <4>2 DEF ReadWritInv, PutableInv
    <3> QED BY <3>2, <3>3
  <2> QED BY <2>4, <2>5, <2>6 DEF ReadWritInv, TypeOK
<1> QED BY <1>1, ReadWritInvariant, PTL

------------------------------------------------------------------------------
(* The refinement                                                          *)

\* What a get will return is Null until its copy.
DataInv ==
  \A r \in Readers :
    pc[r] \in {"enter", "count_in", "wait_putable", "entered", "test", "strdup"} =>
      data[r] = Null

LEMMA InitData == ASSUME Init PROVE DataInv
BY DEF Init, DataInv, Users

LEMMA NextData ==
  ASSUME ReadWritAssumption, ReadWritInv, DataInv, [Next]_vars
  PROVE  DataInv'
<1>1. \A w \in Writers : w \notin Readers
  BY DEF ReadWritAssumption
<1>2. pc \in [Users -> Places] /\ data \in [Users -> Words \cup {Null}]
  BY DEF ReadWritInv, TypeOK
<1>3. ASSUME NEW r \in Readers, CallGet(r) PROVE DataInv'
  BY <1>2, <1>3 DEF CallGet, Goto, DataInv, Users
<1>4. ASSUME NEW r \in Readers, Get(r) PROVE DataInv'
  BY <1>2, <1>4 DEF Get, WaitGetable, CountIn, ReaderWaitPutable, CountOut,
     ReaderPostPutable, PostGetable, TestString, Strdup, GetReturn, Goto, DataInv, Users
<1>5. ASSUME NEW w \in Writers, Writer(w) PROVE DataInv'
  BY <1>1, <1>2, <1>5 DEF Writer, CallPut, WriterWaitPutable, Realloc, Strcpy,
     WriterPostPutable, PutReturn, Goto, DataInv, Users
<1>6. CASE UNCHANGED vars
  BY <1>6 DEF vars, DataInv
<1> QED BY <1>3, <1>4, <1>5, <1>6 DEF Next

\* How far a call has come at a place.
CallAt(place) ==
  CASE place = "idle" -> "none"
    [] place \in {"enter", "count_in", "wait_putable", "entered", "test", "strdup",
                  "wr_lock", "realloc"} -> "called"
    [] OTHER -> "effective"

LEMMA CallMoves ==
  ASSUME ReadWritInv, NEW t \in Users, NEW p, pc' = [pc EXCEPT ![t] = p]
  PROVE  /\ AbstractCall[t] = CallAt(pc[t])
         /\ AbstractCall' = [AbstractCall EXCEPT ![t] = CallAt(p)]
<1>1. \A u \in Users : AbstractCall[u] = CallAt(pc[u])
  BY DEF AbstractCall, CallAt
<1>2. AbstractCall' = [u \in Users |-> CallAt(pc'[u])]
  BY DEF AbstractCall, CallAt
<1>3. \A u \in Users : pc'[u] = IF u = t THEN p ELSE pc[u]
  BY DEF ReadWritInv
<1>4. AbstractCall = [u \in Users |-> CallAt(pc[u])]
  BY DEF AbstractCall, CallAt
<1> QED BY <1>1, <1>2, <1>3, <1>4

\* A torn string is the word of the one writer that is at strcpy.
LEMMA TheWord ==
  ASSUME ReadWritInv
  PROVE  /\ s # Torn => AbstractWord = s
         /\ \A w \in Writers : pc[w] = "strcpy" => AbstractWord = data[w]
<1>1. ASSUME NEW w \in Writers, pc[w] = "strcpy" PROVE AbstractWord = data[w]
  <2>1. s = Torn /\ \A v \in Writers : pc[v] = "strcpy" => v = w
    BY <1>1 DEF ReadWritInv, StringInv, PutableInv, Writing
  <2>2. (CHOOSE v \in Writers : pc[v] = "strcpy") = w
    BY <1>1, <2>1
  <2> QED BY <2>1, <2>2 DEF AbstractWord
<1> QED BY <1>1 DEF AbstractWord

LEMMA TheWordNext ==
  ASSUME ReadWritInv'
  PROVE  /\ s' # Torn => AbstractWord' = s'
         /\ \A w \in Writers : pc'[w] = "strcpy" => AbstractWord' = data'[w]
<1>1. ASSUME NEW w \in Writers, pc'[w] = "strcpy" PROVE AbstractWord' = data'[w]
  <2>1. s' = Torn /\ \A v \in Writers : pc'[v] = "strcpy" => v = w
    BY <1>1 DEF ReadWritInv, StringInv, PutableInv, Writing
  <2>2. (CHOOSE v \in Writers : pc'[v] = "strcpy") = w
    BY <1>1, <2>1
  <2> QED BY <2>1, <2>2 DEF AbstractWord
<1> QED BY <1>1 DEF AbstractWord

LEMMA InitAbstract == ASSUME ReadWritAssumption, Init PROVE Abstract!Init
<1>1. s = Null /\ s # Torn /\ pc = [t \in Users |-> "idle"]
  BY DEF Init, ReadWritAssumption
<1>2. AbstractWord = Null
  BY <1>1 DEF AbstractWord
<1>3. AbstractCall = [t \in Users |-> "none"]
  BY <1>1 DEF AbstractCall
<1>4. AbstractGot = [r \in Readers |-> Null]
  BY <1>3 DEF AbstractGot, Users
<1> QED BY <1>2, <1>3, <1>4 DEF Abstract!Init, Users

\* What a get returns, when thread t moves.
LEMMA GotMoves ==
  ASSUME ReadWritInv, NEW t \in Users, NEW p, pc' = [pc EXCEPT ![t] = p],
         \A r \in Readers \ {t} : data'[r] = data[r]
  PROVE  AbstractGot' = [r \in Readers |->
                           IF r # t THEN AbstractGot[r]
                           ELSE IF CallAt(p) = "effective" THEN data'[r] ELSE Null]
<1>1. AbstractCall' = [AbstractCall EXCEPT ![t] = CallAt(p)] /\ DOMAIN AbstractCall = Users
  BY CallMoves DEF AbstractCall
<1>2. \A r \in Readers : AbstractCall'[r] = IF r = t THEN CallAt(p) ELSE AbstractCall[r]
  BY <1>1 DEF Users
<1>3. AbstractGot' = [r \in Readers |-> IF AbstractCall'[r] = "effective" THEN data'[r] ELSE Null]
  BY DEF AbstractGot
<1>4. \A r \in Readers :
        AbstractGot[r] = IF AbstractCall[r] = "effective" THEN data[r] ELSE Null
  BY DEF AbstractGot
<1> QED BY <1>2, <1>3, <1>4

\* A step of get.
LEMMA ReaderSimulated ==
  ASSUME ReadWritAssumption, ReadWritInv, ReadWritInv', DataInv, NEW r \in Readers,
         CallGet(r) \/ Get(r)
  PROVE  [Abstract!Next]_(Abstract!vars)
<1>1. r \in Users /\ r \notin Writers /\ s' = s
  BY DEF ReadWritAssumption, Users, CallGet, Get, WaitGetable, CountIn, ReaderWaitPutable,
         CountOut, ReaderPostPutable, PostGetable, TestString, Strdup, GetReturn
<1>2. PICK p \in Places : pc' = [pc EXCEPT ![r] = p]
  BY DEF CallGet, Get, WaitGetable, CountIn, ReaderWaitPutable, Places,
         CountOut, ReaderPostPutable, PostGetable, TestString, Strdup, GetReturn, Goto
<1>3. data' = [data EXCEPT ![r] = data'[r]] /\ \A q \in Users \ {r} : data'[q] = data[q]
  BY <1>1 DEF ReadWritInv, TypeOK, CallGet, Get, WaitGetable, CountIn, ReaderWaitPutable,
         CountOut, ReaderPostPutable, PostGetable, TestString, Strdup, GetReturn
<1>4. AbstractWord' = AbstractWord
  <2>1. CASE s # Torn
    BY <1>1, <2>1 DEF AbstractWord
  <2>2. CASE s = Torn
    <3>1. PICK w \in Writers : pc[w] = "strcpy"
      BY <2>2 DEF ReadWritInv, StringInv
    <3>2. w \in Users \ {r} /\ pc'[w] = "strcpy" /\ data'[w] = data[w]
      BY <1>1, <1>2, <1>3, <3>1 DEF Users
    <3>3. AbstractWord = data[w]
      BY <3>1, TheWord
    <3>4. AbstractWord' = data'[w]
      BY <3>1, <3>2, TheWordNext
    <3> QED BY <3>2, <3>3, <3>4
  <2> QED BY <2>1, <2>2
<1>5. /\ AbstractCall[r] = CallAt(pc[r]) /\ AbstractCall \in [Users -> {"none", "called", "effective"}]
      /\ AbstractCall' = [AbstractCall EXCEPT ![r] = CallAt(p)]
  BY <1>1, <1>2, CallMoves DEF AbstractCall
<1>6. /\ AbstractGot = [q \in Readers |-> AbstractGot[q]]
      /\ AbstractGot[r] = IF CallAt(pc[r]) = "effective" THEN data[r] ELSE Null
      /\ AbstractGot' = [q \in Readers |->
                           IF q # r THEN AbstractGot[q]
                           ELSE IF CallAt(p) = "effective" THEN data'[r] ELSE Null]
  BY <1>1, <1>2, <1>3, <1>5, GotMoves DEF AbstractGot, Users
<1>7. ASSUME CallAt(p) = CallAt(pc[r]), CallAt(p) = "effective" => data'[r] = data[r]
      PROVE  UNCHANGED Abstract!vars
  BY <1>4, <1>5, <1>6, <1>7 DEF Abstract!vars
<1>8. CASE CallGet(r)
  <2>1. CallAt(pc[r]) = "none" /\ CallAt(p) = "called"
    BY <1>1, <1>2, <1>8 DEF CallGet, Goto, CallAt, ReadWritInv
  <2>2. AbstractGot' = AbstractGot
    BY <1>6, <2>1
  <2> QED BY <1>1, <1>4, <1>5, <2>1, <2>2
          DEF Abstract!Next, Abstract!Call, Abstract!Move, Users
<1>9. ASSUME CallAt(pc[r]) = "called", CallAt(p) = "effective", data'[r] = s, s # Torn
      PROVE  Abstract!Next
  <2>1. AbstractWord = s
    BY <1>9, TheWord
  <2>2. AbstractGot' = [AbstractGot EXCEPT ![r] = AbstractWord]
    BY <1>6, <1>9, <2>1
  <2> QED BY <1>4, <1>5, <1>9, <2>2 DEF Abstract!Next, Abstract!Get, Abstract!Move
<1>10. pc[r] \in {"test", "strdup"} => s # Torn
  BY DEF ReadWritInv, PutableInv, StringInv, Inside, Writing
<1>11. CASE TestString(r)
  <2>1. pc[r] = "test" /\ p = (IF s = Null THEN "leave" ELSE "strdup") /\ data' = data
    BY <1>1, <1>2, <1>11 DEF TestString, Goto, ReadWritInv
  <2>2. CASE s = Null
    <3>1. data'[r] = s
      BY <2>1, <2>2 DEF DataInv
    <3> QED BY <1>9, <1>10, <2>1, <2>2, <3>1 DEF CallAt
  <2>3. CASE s # Null
    BY <1>7, <2>1, <2>3 DEF CallAt
  <2> QED BY <2>2, <2>3
<1>12. CASE Strdup(r)
  <2>1. pc[r] = "strdup" /\ p = "leave" /\ data'[r] = s
    BY <1>1, <1>2, <1>12 DEF Strdup, Goto, ReadWritInv, TypeOK
  <2> QED BY <1>9, <1>10, <2>1 DEF CallAt
<1>13. CASE GetReturn(r)
  <2>1. CallAt(pc[r]) = "effective" /\ CallAt(p) = "none"
    BY <1>1, <1>2, <1>13 DEF GetReturn, Goto, CallAt, ReadWritInv
  <2>2. AbstractGot' = [q \in Readers |-> IF q = r THEN Null ELSE AbstractGot[q]]
    BY <1>6, <2>1
  <2> QED BY <1>1, <1>4, <1>5, <2>1, <2>2
          DEF Abstract!Next, Abstract!Return, Abstract!Move, Users
<1>14. CASE WaitGetable(r) \/ CountIn(r) \/ ReaderWaitPutable(r) \/ CountOut(r)
            \/ ReaderPostPutable(r) \/ PostGetable(r)
  <2>1. data' = data
    BY <1>14 DEF WaitGetable, CountIn, ReaderWaitPutable, CountOut, ReaderPostPutable, PostGetable
  <2>2. pc'[r] = p
    BY <1>1, <1>2 DEF ReadWritInv
  <2>3. CallAt(p) = CallAt(pc[r])
    BY <1>14, <2>2, <1>1 DEF WaitGetable, CountIn, ReaderWaitPutable, CountOut,
       ReaderPostPutable, PostGetable, Goto, CallAt, ReadWritInv
  <2> QED BY <1>7, <2>1, <2>3
<1> QED BY <1>8, <1>11, <1>12, <1>13, <1>14 DEF Get

\* A step of put, which takes effect when it begins to write.
LEMMA WriterSimulated ==
  ASSUME ReadWritAssumption, ReadWritInv, ReadWritInv', NEW w \in Writers, Writer(w)
  PROVE  [Abstract!Next]_(Abstract!vars)
<1>1. w \in Users /\ w \notin Readers /\ \A r \in Readers : data'[r] = data[r]
  BY DEF ReadWritAssumption, Users, ReadWritInv, TypeOK, Writer, CallPut, WriterWaitPutable,
         Realloc, Strcpy, WriterPostPutable, PutReturn
<1>2. PICK p \in Places : pc' = [pc EXCEPT ![w] = p]
  BY DEF Writer, CallPut, WriterWaitPutable, Realloc, Strcpy, WriterPostPutable, PutReturn,
         Goto, Places
<1>3. pc'[w] = p /\ \A v \in Users \ {w} : pc'[v] = pc[v]
  BY <1>1, <1>2 DEF ReadWritInv
<1>4. /\ AbstractCall[w] = CallAt(pc[w]) /\ AbstractCall \in [Users -> {"none", "called", "effective"}]
      /\ AbstractCall' = [AbstractCall EXCEPT ![w] = CallAt(p)]
  BY <1>1, <1>2, CallMoves DEF AbstractCall
<1>5. AbstractGot' = AbstractGot
  <2>1. AbstractGot' = [r \in Readers |-> AbstractGot[r]]
    BY <1>1, <1>2, GotMoves
  <2> QED BY <2>1 DEF AbstractGot
<1>6. ASSUME CallAt(p) = CallAt(pc[w]), AbstractWord' = AbstractWord
      PROVE  UNCHANGED Abstract!vars
  BY <1>4, <1>5, <1>6 DEF Abstract!vars
<1>7. ASSUME UNCHANGED s, pc[w] # "strcpy", p # "strcpy",
             \A v \in Writers \ {w} : data'[v] = data[v]
      PROVE  AbstractWord' = AbstractWord
  <2>1. CASE s # Torn
    BY <1>7, <2>1 DEF AbstractWord
  <2>2. CASE s = Torn
    <3>1. PICK v \in Writers : pc[v] = "strcpy"
      BY <2>2 DEF ReadWritInv, StringInv
    <3>2. pc'[v] = "strcpy" /\ data'[v] = data[v]
      BY <1>3, <1>7, <3>1 DEF Users
    <3> QED BY <3>1, <3>2, TheWord, TheWordNext
  <2> QED BY <2>1, <2>2
<1>8. CASE CallPut(w)
  <2>1. /\ pc[w] = "idle" /\ p = "wr_lock" /\ s' = s
        /\ \A v \in Writers \ {w} : data'[v] = data[v]
    BY <1>1, <1>3, <1>8 DEF CallPut, Goto, ReadWritInv, TypeOK, Users
  <2>2. AbstractWord' = AbstractWord
    BY <1>7, <2>1
  <2>3. CallAt(pc[w]) = "none" /\ CallAt(p) = "called"
    BY <2>1 DEF CallAt
  <2> QED BY <1>1, <1>4, <1>5, <2>2, <2>3
          DEF Abstract!Next, Abstract!Call, Abstract!Move, Users
<1>9. CASE WriterWaitPutable(w)
  <2>1. pc[w] = "wr_lock" /\ p = "realloc" /\ s' = s /\ data' = data
    BY <1>1, <1>3, <1>9 DEF WriterWaitPutable, Goto, ReadWritInv
  <2>2. AbstractWord' = AbstractWord
    BY <1>7, <2>1
  <2> QED BY <1>6, <2>1, <2>2 DEF CallAt
<1>10. CASE Realloc(w)
  <2>1. pc[w] = "realloc" /\ p = "strcpy" /\ data' = data /\ data[w] \in Words
    BY <1>1, <1>3, <1>10 DEF Realloc, Goto, ReadWritInv, StringInv, Writing
  <2>2. AbstractWord' = data[w]
    BY <1>3, <2>1, TheWordNext
  <2>3. CallAt(pc[w]) = "called" /\ CallAt(p) = "effective"
    BY <2>1 DEF CallAt
  <2> QED BY <1>4, <1>5, <2>1, <2>2, <2>3 DEF Abstract!Next, Abstract!Put, Abstract!Move
<1>11. CASE Strcpy(w)
  <2>1. pc[w] = "strcpy" /\ p = "wr_unlock" /\ s' = data[w] /\ data[w] \in Words
    BY <1>1, <1>3, <1>11 DEF Strcpy, Goto, ReadWritInv, StringInv, Writing
  <2>2. AbstractWord = data[w]
    BY <2>1, TheWord
  <2>3. AbstractWord' = data[w]
    BY <2>1 DEF AbstractWord, ReadWritAssumption
  <2> QED BY <1>6, <2>1, <2>2, <2>3 DEF CallAt
<1>12. CASE WriterPostPutable(w)
  <2>1. pc[w] = "wr_unlock" /\ p = "return" /\ s' = s /\ data' = data
    BY <1>1, <1>3, <1>12 DEF WriterPostPutable, Goto, ReadWritInv
  <2>2. AbstractWord' = AbstractWord
    BY <1>7, <2>1
  <2> QED BY <1>6, <2>1, <2>2 DEF CallAt
<1>13. CASE PutReturn(w)
  <2>1. pc[w] = "return" /\ p = "idle" /\ s' = s /\ data' = data
    BY <1>1, <1>3, <1>13 DEF PutReturn, Goto, ReadWritInv
  <2>2. AbstractWord' = AbstractWord
    BY <1>7, <2>1
  <2>3. CallAt(pc[w]) = "effective" /\ CallAt(p) = "none"
    BY <2>1 DEF CallAt
  <2>4. AbstractGot' = [r \in Readers |-> IF r = w THEN Null ELSE AbstractGot[r]]
    BY <1>1, <1>5 DEF AbstractGot
  <2> QED BY <1>1, <1>4, <2>2, <2>3, <2>4
          DEF Abstract!Next, Abstract!Return, Abstract!Move, Users
<1> QED BY <1>8, <1>9, <1>10, <1>11, <1>12, <1>13 DEF Writer

LEMMA NextSimulated ==
  ASSUME ReadWritAssumption, ReadWritInv, ReadWritInv', DataInv, [Next]_vars
  PROVE  [Abstract!Next]_(Abstract!vars)
<1>1. CASE UNCHANGED vars
  BY <1>1 DEF vars, Abstract!vars, AbstractWord, AbstractGot, AbstractCall
<1> QED BY <1>1, ReaderSimulated, WriterSimulated DEF Next

\* For any number of readers and writers, get and put are atomic operations on
\* one word: whatever a get returns was the word of the last put at some moment
\* of its call.
THEOREM BufferIsOneWord == ASSUME ReadWritAssumption PROVE Spec => ImplementsSharedWord
<1>1. Init => DataInv /\ Abstract!Init
  BY InitData, InitAbstract
<1>2. ReadWritInv /\ DataInv /\ [Next]_vars => DataInv'
  BY NextData
<1>3. ReadWritInv /\ ReadWritInv' /\ DataInv /\ [Next]_vars => [Abstract!Next]_(Abstract!vars)
  BY NextSimulated
<1> QED BY <1>1, <1>2, <1>3, ReadWritInvariant, PTL
        DEF Spec, ImplementsSharedWord, Abstract!Spec
==============================================================================
