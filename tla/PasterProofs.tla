---------------------------- MODULE PasterProofs ----------------------------
(***************************************************************************)
(* Proofs about Paster: how far the unprotected count can overrun, and     *)
(* what it takes for a strip to be missing when the strips are merged.     *)
(***************************************************************************)
EXTENDS Paster, FiniteSetTheorems, TLAPS

-----------------------------------------------------------------------------
(* Moving one thread.                                                       *)

(* The sets At(S) are finite and have at most all threads. *)
LEMMA AtFinite ==
  ASSUME NEW S
  PROVE  /\ IsFiniteSet(At(S)) /\ Cardinality(At(S)) \in Nat
         /\ Cardinality(At(S)) <= Cardinality(Threads)
  <1>1. At(S) \subseteq Threads
    BY DEF At
  <1>2. QED
    BY <1>1, ThreadAssumption, FS_Subset, FS_CardinalityType

(* A thread that enters S adds one to those at S. *)
LEMMA Enters ==
  ASSUME TypeOK, NEW S, NEW t \in Threads, NEW a, NEW b, Goto(t, a, b),
         a \notin S, b \in S
  PROVE  /\ At(S)' = At(S) \cup {t} /\ t \notin At(S)
         /\ Cardinality(At(S)') = Cardinality(At(S)) + 1
  <1>1. At(S)' = At(S) \cup {t} /\ t \notin At(S)
    BY DEF At, Goto, TypeOK
  <1>2. QED
    BY <1>1, AtFinite, FS_AddElement

(* A thread that leaves S takes one from those at S. *)
LEMMA Leaves ==
  ASSUME TypeOK, NEW S, NEW t \in Threads, NEW a, NEW b, Goto(t, a, b),
         a \in S, b \notin S
  PROVE  /\ At(S)' = At(S) \ {t} /\ t \in At(S)
         /\ Cardinality(At(S)') = Cardinality(At(S)) - 1
  <1>1. At(S)' = At(S) \ {t} /\ t \in At(S)
    BY DEF At, Goto, TypeOK
  <1>2. QED
    BY <1>1, AtFinite, FS_RemoveElement

(* A thread that moves inside S, or outside it, does not change At(S). *)
LEMMA Stays ==
  ASSUME TypeOK, NEW S, NEW t \in Threads, NEW a, NEW b, Goto(t, a, b),
         a \in S <=> b \in S
  PROVE  At(S)' = At(S)
  BY DEF At, Goto, TypeOK

-----------------------------------------------------------------------------
(* Types.                                                                   *)

(* From the header callback on, a thread knows the strip it received.       *)
SeqInv ==
  \A t \in Threads :
     pc[t] \in {"look", "mark", "read", "store", "write"} => seq[t] \in Parts

Typed == TypeOK /\ SeqInv

(* The disjuncts of Next. *)
LEMMA OneStep ==
  ASSUME [Next]_vars
  PROVE  \/ \E t \in Threads :
              \/ Check(t) \/ (\E s \in Parts : Answer(t, s)) \/ PerformFails(t)
              \/ Look(t) \/ Mark(t) \/ ReadCount(t) \/ StoreCount(t)
              \/ WriteFile(t) \/ WriteFails(t)
         \/ Catpng
         \/ UNCHANGED vars
  BY DEF Next, Step

LEMMA TypedStep == Typed /\ [Next]_vars => Typed'
  <1> SUFFICES ASSUME Typed, [Next]_vars
               PROVE  Typed'
    OBVIOUS
  <1> USE BoundAssumption
  <1>1. CASE UNCHANGED vars
    BY <1>1 DEF Typed, TypeOK, SeqInv, vars, shared, history
  <1>2. CASE Catpng
    BY <1>2 DEF Typed, TypeOK, SeqInv, Catpng, shared, history
  <1>3. ASSUME NEW t \in Threads, Check(t)
        PROVE  Typed'
    BY <1>3 DEF Typed, TypeOK, SeqInv, Check, Goto, shared, history
  <1>4. ASSUME NEW t \in Threads, NEW s \in Parts, Answer(t, s)
        PROVE  Typed'
    BY <1>4 DEF Typed, TypeOK, SeqInv, Answer, Goto, shared, history
  <1>5. ASSUME NEW t \in Threads, PerformFails(t)
        PROVE  Typed'
    BY <1>5 DEF Typed, TypeOK, SeqInv, PerformFails, Fault, Goto, shared,
                history
  <1>6. ASSUME NEW t \in Threads, Look(t)
        PROVE  Typed'
    BY <1>6 DEF Typed, TypeOK, SeqInv, Look, Goto, shared, history
  <1>7. ASSUME NEW t \in Threads, Mark(t)
        PROVE  Typed'
    BY <1>7 DEF Typed, TypeOK, SeqInv, Mark, Goto, history
  <1>8. ASSUME NEW t \in Threads, ReadCount(t)
        PROVE  Typed'
    BY <1>8 DEF Typed, TypeOK, SeqInv, ReadCount, Goto, shared, history
  <1>9. ASSUME NEW t \in Threads, StoreCount(t)
        PROVE  Typed'
    BY <1>9 DEF Typed, TypeOK, SeqInv, StoreCount, Goto
  <1>10. ASSUME NEW t \in Threads, WriteFile(t)
         PROVE  Typed'
    BY <1>10 DEF Typed, TypeOK, SeqInv, WriteFile, Goto, shared, history
  <1>11. ASSUME NEW t \in Threads, WriteFails(t)
         PROVE  Typed'
    BY <1>11 DEF Typed, TypeOK, SeqInv, WriteFails, Fault, Goto, shared,
                 history
  <1>12. QED
    BY <1>1, <1>2, <1>3, <1>4, <1>5, <1>6, <1>7, <1>8, <1>9, <1>10, <1>11,
       OneStep

LEMMA TypedAlways == Spec => []Typed
  <1>1. ASSUME Init
        PROVE  TypeOK
    <2>1. /\ seq \in [Threads -> Parts \cup {-1}] /\ n \in [Threads -> Nat]
          /\ num_retrieved \in Nat /\ faults \in 0 .. MaxFaults
      BY <1>1, BoundAssumption DEF Init
    <2>2. QED
      BY <1>1, <2>1 DEF Init, TypeOK
  <1>2. Init => SeqInv
    BY DEF Init, SeqInv
  <1>3. Init => Typed
    BY <1>1, <1>2 DEF Typed
  <1>4. QED
    BY <1>3, TypedStep, PTL DEF Spec

(* Type correctness: among others num_retrieved is a natural number, and    *)
(* the strips that are marked and written are strips of the image.          *)
THEOREM TypeCorrect == Spec => []TypeOK
  <1>1. Typed => TypeOK
    BY DEF Typed
  <1>2. QED
    BY <1>1, TypedAlways, PTL

(* The strips marked are finitely many, at most NumParts, and as many only  *)
(* if they are all.                                                         *)
LEMMA Retrieved ==
  ASSUME TypeOK
  PROVE  /\ IsFiniteSet(retrieved) /\ Cardinality(retrieved) \in 0 .. NumParts
         /\ Cardinality(retrieved) = NumParts => retrieved = Parts
  <1>1. IsFiniteSet(Parts) /\ Cardinality(Parts) = NumParts
    BY BoundAssumption, FS_Interval DEF Parts
  <1>2. retrieved \subseteq Parts
    BY DEF TypeOK
  <1>3. IsFiniteSet(retrieved) /\ Cardinality(retrieved) \in Nat
        /\ Cardinality(retrieved) <= NumParts
    BY <1>1, <1>2, FS_Subset, FS_CardinalityType
  <1>4. Cardinality(retrieved) = NumParts => retrieved = Parts
    BY <1>1, <1>2, FS_Subset
  <1>5. QED
    BY <1>3, <1>4, BoundAssumption

-----------------------------------------------------------------------------
(* The count.                                                               *)

Counting == At({"read", "store"})

Active == At({"perform", "look", "mark", "read", "store"})

Stale == {t \in At({"mark"}) : seq[t] \in retrieved}

(* As long as no increment is lost, each thread between the test of the     *)
(* loop and its store may still add one, and was let in below NumParts.     *)
ExactInv ==
  ~lost => num_retrieved + Cardinality(Active)
             <= NumParts + Cardinality(Threads) - 1

(* What the count may still grow by: once for each thread on each strip     *)
(* that is not marked yet, and once for each thread that is counting or     *)
(* about to mark a strip again.                                             *)
Owed ==
  Cardinality(Threads) * (NumParts - Cardinality(retrieved))
    + Cardinality(Stale) + Cardinality(Counting)

CreditInv ==
  /\ num_retrieved + Owed <= NumParts * Cardinality(Threads)
  /\ \A t \in At({"store"}) : n[t] + Owed <= NumParts * Cardinality(Threads)

(* If no strip is marked twice, the count, and every value of it a thread   *)
(* is about to store, never gets ahead of the marks.                        *)
CountInv ==
  twice = {} =>
    /\ num_retrieved + Cardinality(Counting) <= Cardinality(retrieved)
    /\ \A t \in At({"store"}) :
          n[t] + Cardinality(Counting) <= Cardinality(retrieved)

CountsTyped ==
  /\ Cardinality(Counting) \in Nat /\ Cardinality(Active) \in Nat
  /\ Cardinality(Threads) \in Nat /\ NumParts \in Nat \ {0}
  /\ IsFiniteSet(Stale) /\ Cardinality(Stale) \in Nat
  /\ Cardinality(Active) <= Cardinality(Threads)
  /\ num_retrieved \in Nat /\ \A t \in Threads : n[t] \in Nat

LEMMA CountTypes == TypeOK => CountsTyped
  <1>1. Stale \subseteq Threads
    BY DEF Stale, At
  <1>2. IsFiniteSet(Stale) /\ Cardinality(Stale) \in Nat
    BY <1>1, ThreadAssumption, FS_Subset, FS_CardinalityType
  <1>3. Cardinality(Counting) \in Nat
    BY AtFinite DEF Counting
  <1>4. Cardinality(Active) \in Nat /\ Cardinality(Active) <= Cardinality(Threads)
    BY AtFinite DEF Active
  <1>5. QED
    BY <1>2, <1>3, <1>4, ThreadAssumption, FS_CardinalityType, BoundAssumption
       DEF TypeOK, CountsTyped

LEMMA CountTypesNext == TypeOK' => CountsTyped'
  BY CountTypes, PTL

(* What most steps leave alone. *)
Quiet ==
  UNCHANGED <<Counting, At({"store"}), Stale, retrieved, num_retrieved, n,
              twice>>

LEMMA QuietSteps ==
  ASSUME TypeOK, NEW t \in Threads,
         \/ Check(t) \/ (\E s \in Parts : Answer(t, s)) \/ PerformFails(t)
         \/ Look(t) \/ WriteFile(t) \/ WriteFails(t)
  PROVE  Quiet
  <1>1. UNCHANGED <<retrieved, num_retrieved, n, twice>>
    BY DEF Check, Answer, PerformFails, Look, WriteFile, WriteFails, shared,
           history
  <1>2. Counting' = Counting
    BY Stays DEF Counting, Check, Answer, PerformFails, Look, WriteFile,
                 WriteFails
  <1>3. At({"store"})' = At({"store"})
    BY Stays DEF Check, Answer, PerformFails, Look, WriteFile, WriteFails
  <1>4. Stale' = Stale
    <2>1. CASE Look(t)
      BY <2>1, <1>1 DEF Stale, At, Look, Goto, TypeOK
    <2>2. CASE \E s \in Parts : Answer(t, s)
      BY <2>2, <1>1 DEF Stale, At, Answer, Goto, TypeOK
    <2>3. CASE Check(t) \/ PerformFails(t) \/ WriteFile(t) \/ WriteFails(t)
      <3>1. seq' = seq
        BY <2>3 DEF Check, PerformFails, WriteFile, WriteFails
      <3>2. At({"mark"})' = At({"mark"})
        BY <2>3, Stays DEF Check, PerformFails, WriteFile, WriteFails
      <3>3. QED
        BY <3>1, <3>2, <1>1 DEF Stale
    <2>4. QED
      BY <2>1, <2>2, <2>3
  <1>5. QED
    BY <1>1, <1>2, <1>3, <1>4 DEF Quiet

LEMMA QuietElse ==
  ASSUME Catpng \/ UNCHANGED vars
  PROVE  Quiet /\ UNCHANGED <<pc, lost>>
  <1>1. UNCHANGED <<pc, seq, n, retrieved, num_retrieved, twice, lost>>
    BY DEF Catpng, vars, shared, history
  <1>2. QED
    BY <1>1 DEF Quiet, Counting, Stale, At

(* A quiet step preserves what the marks say about the count. *)
LEMMA QuietKeeps ==
  ASSUME Quiet
  PROVE  /\ CreditInv => CreditInv'
         /\ CountInv => CountInv'
  <1>1. CreditInv => CreditInv'
    BY DEF Quiet, CreditInv, Owed
  <1>2. CountInv => CountInv'
    BY DEF Quiet, CountInv
  <1>3. QED
    BY <1>1, <1>2

-----------------------------------------------------------------------------
(* The invariant when no increment was lost.                                *)

LEMMA ExactStep == TypeOK /\ TypeOK' /\ ExactInv /\ [Next]_vars => ExactInv'
  <1> SUFFICES ASSUME TypeOK, TypeOK', ExactInv, [Next]_vars, ~lost'
               PROVE  num_retrieved' + Cardinality(Active')
                        <= NumParts + Cardinality(Threads) - 1
    BY DEF ExactInv
  <1> DEFINE S == {"perform", "look", "mark", "read", "store"}
  <1>a. /\ num_retrieved \in Nat /\ Cardinality(Active) \in Nat
        /\ Cardinality(Threads) \in Nat /\ NumParts \in Nat
        /\ Cardinality(Active) <= Cardinality(Threads)
    BY CountTypes DEF CountsTyped
  <1>b. Cardinality(Active') \in Nat /\ Cardinality(Active') <= Cardinality(Threads)
    BY CountTypesNext DEF CountsTyped
  <1>c. Active = At(S)
    BY DEF Active
  <1>1. CASE Catpng \/ UNCHANGED vars
    <2>1. Active' = Active /\ num_retrieved' = num_retrieved /\ ~lost
      BY <1>1, QuietElse DEF Quiet, Active, At
    <2>2. QED
      BY <2>1 DEF ExactInv
  <1>2. ASSUME NEW t \in Threads, Check(t)
        PROVE  num_retrieved' + Cardinality(Active')
                 <= NumParts + Cardinality(Threads) - 1
    <2>1. num_retrieved' = num_retrieved /\ ~lost
      BY <1>2 DEF Check, shared, history
    <2>2. CASE num_retrieved < NumParts
      BY <2>1, <2>2, <1>a, <1>b
    <2>3. CASE ~(num_retrieved < NumParts)
      <3>1. Active' = Active
        BY <1>2, <2>3, Stays DEF Check, Active
      <3>2. QED
        BY <2>1, <3>1 DEF ExactInv
    <2>4. QED
      BY <2>2, <2>3
  <1>3. ASSUME NEW t \in Threads, NEW b, b \notin S, Goto(t, "perform", b),
               UNCHANGED <<num_retrieved, lost>>
        PROVE  num_retrieved' + Cardinality(Active')
                 <= NumParts + Cardinality(Threads) - 1
    <2>1. Cardinality(Active') = Cardinality(Active) - 1
      BY <1>3, Leaves DEF Active
    <2>2. QED
      BY <1>3, <2>1, <1>a DEF ExactInv
  <1>4. ASSUME NEW t \in Threads, PerformFails(t)
        PROVE  num_retrieved' + Cardinality(Active')
                 <= NumParts + Cardinality(Threads) - 1
    BY <1>4, <1>3 DEF PerformFails, shared, history
  <1>5. ASSUME Active' = Active, UNCHANGED <<num_retrieved, lost>>
        PROVE  num_retrieved' + Cardinality(Active')
                 <= NumParts + Cardinality(Threads) - 1
    BY <1>5 DEF ExactInv
  <1>6. ASSUME NEW t \in Threads,
               \/ (\E s \in Parts : Answer(t, s)) \/ Mark(t) \/ ReadCount(t)
               \/ WriteFile(t) \/ WriteFails(t)
        PROVE  Active' = Active /\ UNCHANGED <<num_retrieved, lost>>
    <2>1. Active' = Active
      BY <1>6, Stays DEF Active, Answer, Mark, ReadCount, WriteFile, WriteFails
    <2>2. QED
      BY <1>6, <2>1 DEF Answer, Mark, ReadCount, WriteFile, WriteFails, shared,
                        history
  <1>7. ASSUME NEW t \in Threads, Look(t)
        PROVE  num_retrieved' + Cardinality(Active')
                 <= NumParts + Cardinality(Threads) - 1
    <2>1. num_retrieved' = num_retrieved /\ ~lost
      BY <1>7 DEF Look, shared, history
    <2>2. CASE seq[t] \in retrieved
      <3>1. Cardinality(Active') = Cardinality(Active) - 1
        BY <1>7, <2>2, Leaves DEF Look, Active
      <3>2. QED
        BY <2>1, <3>1, <1>a DEF ExactInv
    <2>3. CASE seq[t] \notin retrieved
      <3>1. Active' = Active
        BY <1>7, <2>3, Stays DEF Look, Active
      <3>2. QED
        BY <2>1, <3>1 DEF ExactInv
    <2>4. QED
      BY <2>2, <2>3
  <1>8. ASSUME NEW t \in Threads, StoreCount(t)
        PROVE  num_retrieved' + Cardinality(Active')
                 <= NumParts + Cardinality(Threads) - 1
    <2>1. num_retrieved' = num_retrieved + 1 /\ ~lost
      BY <1>8 DEF StoreCount
    <2>2. Cardinality(Active') = Cardinality(Active) - 1
      BY <1>8, Leaves DEF StoreCount, Active
    <2>3. QED
      BY <2>1, <2>2, <1>a DEF ExactInv
  <1>9. QED
    BY <1>1, <1>2, <1>4, <1>5, <1>6, <1>7, <1>8, OneStep

-----------------------------------------------------------------------------
(* Marks, reads and stores, against the credit and the marks.               *)

(* Marking a strip, again or for the first time. *)
LEMMA Marks ==
  ASSUME Typed, TypeOK', NEW t \in Threads, Mark(t)
  PROVE  /\ Cardinality(Counting') = Cardinality(Counting) + 1
         /\ At({"store"})' = At({"store"}) /\ UNCHANGED <<num_retrieved, n>>
         /\ \/ /\ seq[t] \in retrieved /\ retrieved' = retrieved
               /\ twice' # {}
               /\ Cardinality(Stale') = Cardinality(Stale) - 1
            \/ /\ seq[t] \notin retrieved /\ twice' = twice
               /\ retrieved' = retrieved \cup {seq[t]}
               /\ Cardinality(retrieved') = Cardinality(retrieved) + 1
               /\ Cardinality(Stale') + 1
                    <= Cardinality(Threads) + Cardinality(Stale)
  <1> USE DEF Typed
  <1>1. Cardinality(Counting') = Cardinality(Counting) + 1
    BY Enters DEF Mark, Counting
  <1>2. At({"store"})' = At({"store"})
    BY Stays DEF Mark
  <1>3. UNCHANGED <<num_retrieved, n>>
    BY DEF Mark
  <1>4. CASE seq[t] \in retrieved
    <2>1. retrieved' = retrieved
      BY <1>4 DEF Mark
    <2>2. twice' # {}
      BY <1>4 DEF Mark
    <2>3. Stale' = Stale \ {t} /\ t \in Stale
      BY <1>4, <2>1 DEF Stale, Mark, At, Goto, TypeOK
    <2>4. Cardinality(Stale') = Cardinality(Stale) - 1
      BY <2>3, CountTypes, FS_RemoveElement DEF CountsTyped
    <2>5. QED
      BY <1>1, <1>2, <1>3, <1>4, <2>1, <2>2, <2>4
  <1>5. CASE seq[t] \notin retrieved
    <2>1. twice' = twice /\ retrieved' = retrieved \cup {seq[t]}
      BY <1>5 DEF Mark
    <2>2. Cardinality(retrieved') = Cardinality(retrieved) + 1
      BY <2>1, <1>5, Retrieved, FS_AddElement
    <2>3. Stale' \subseteq Threads \ {t}
      BY DEF Stale, Mark, At, Goto, TypeOK
    <2>4. /\ IsFiniteSet(Threads \ {t})
          /\ Cardinality(Threads \ {t}) = Cardinality(Threads) - 1
      BY ThreadAssumption, FS_RemoveElement
    <2>5. Cardinality(Stale') <= Cardinality(Threads) - 1
      BY <2>3, <2>4, FS_Subset
    <2>6. Cardinality(Stale') + 1 <= Cardinality(Threads) + Cardinality(Stale)
      BY <2>5, CountTypes, CountTypesNext DEF CountsTyped
    <2>7. QED
      BY <1>1, <1>2, <1>3, <1>5, <2>1, <2>2, <2>6
  <1>6. QED
    BY <1>4, <1>5

(* Reading the count to increment it. *)
LEMMA Reads ==
  ASSUME TypeOK, NEW t \in Threads, ReadCount(t)
  PROVE  /\ UNCHANGED <<Counting, Stale, retrieved, num_retrieved, twice>>
         /\ At({"store"})' = At({"store"}) \cup {t}
         /\ n'[t] = num_retrieved /\ \A u \in Threads \ {t} : n'[u] = n[u]
  <1>1. UNCHANGED <<seq, retrieved, num_retrieved, twice>>
    BY DEF ReadCount, shared, history
  <1>2. Counting' = Counting
    BY Stays DEF ReadCount, Counting
  <1>3. At({"mark"})' = At({"mark"})
    BY Stays DEF ReadCount
  <1>4. Stale' = Stale
    BY <1>1, <1>3 DEF Stale
  <1>5. At({"store"})' = At({"store"}) \cup {t}
    BY DEF At, Goto, ReadCount, TypeOK
  <1>6. n'[t] = num_retrieved /\ \A u \in Threads \ {t} : n'[u] = n[u]
    <2>1. n' = [n EXCEPT ![t] = num_retrieved] /\ n \in [Threads -> Nat]
      BY DEF ReadCount, TypeOK
    <2>2. QED
      BY <2>1
  <1>7. QED
    BY <1>1, <1>2, <1>4, <1>5, <1>6

(* Storing it. *)
LEMMA Stores ==
  ASSUME TypeOK, NEW t \in Threads, StoreCount(t)
  PROVE  /\ UNCHANGED <<Stale, retrieved, n, twice>>
         /\ Cardinality(Counting') = Cardinality(Counting) - 1
         /\ At({"store"})' \subseteq At({"store"}) /\ t \in At({"store"})
         /\ num_retrieved' = n[t] + 1
  <1>1. /\ UNCHANGED <<seq, retrieved, n, twice>>
        /\ num_retrieved' = n[t] + 1
    BY DEF StoreCount
  <1>2. Cardinality(Counting') = Cardinality(Counting) - 1
    BY Leaves DEF StoreCount, Counting
  <1>3. At({"mark"})' = At({"mark"})
    BY Stays DEF StoreCount
  <1>4. Stale' = Stale
    BY <1>1, <1>3 DEF Stale
  <1>5. At({"store"})' = At({"store"}) \ {t} /\ t \in At({"store"})
    BY Leaves DEF StoreCount
  <1>6. QED
    BY <1>1, <1>2, <1>4, <1>5

(* One strip less to mark is one increment less for each thread. *)
LEMMA OneLess ==
  ASSUME NEW a \in Nat, NEW b \in Int
  PROVE  a * (b - 1) = a * b - a /\ a * b \in Int
  OBVIOUS

LEMMA OwedType ==
  ASSUME TypeOK
  PROVE  /\ Owed \in Int /\ NumParts * Cardinality(Threads) \in Int
         /\ Cardinality(Threads) * (NumParts - Cardinality(retrieved)) \in Nat
  <1> DEFINE todo == NumParts - Cardinality(retrieved)
             a == Cardinality(Threads)
  <1>1. todo \in Nat /\ a \in Nat /\ NumParts \in Nat
    BY Retrieved, CountTypes DEF CountsTyped
  <1> HIDE DEF todo, a
  <1>2. a * todo \in Nat /\ NumParts * a \in Nat
    BY <1>1
  <1>3. QED
    BY <1>2, CountTypes DEF CountsTyped, Owed, todo, a

LEMMA CreditStep ==
  Typed /\ TypeOK' /\ CreditInv /\ [Next]_vars => CreditInv'
  <1> SUFFICES ASSUME Typed, TypeOK', CreditInv, [Next]_vars
               PROVE  CreditInv'
    OBVIOUS
  <1> DEFINE Room == NumParts * Cardinality(Threads)
  <1>a. TypeOK
    BY DEF Typed
  <1>b. CountsTyped /\ CountsTyped'
    BY <1>a, CountTypes, CountTypesNext
  <1>c. Owed \in Int /\ Room \in Int
    BY <1>a, OwedType
  <1>1. ASSUME Quiet
        PROVE  CreditInv'
    BY <1>1, QuietKeeps
  <1>2. ASSUME NEW t \in Threads, Mark(t)
        PROVE  CreditInv'
    <2>1. Owed' <= Owed /\ Owed' \in Int
      <3> DEFINE a == Cardinality(Threads)
                 b == NumParts - Cardinality(retrieved)
      <3>a. a \in Nat /\ b \in Int
        BY <1>a, Retrieved, CountTypes DEF CountsTyped
      <3>1. Cardinality(Counting') = Cardinality(Counting) + 1
        BY <1>2, Marks
      <3>2. CASE seq[t] \in retrieved
        <4>1. retrieved' = retrieved /\ Cardinality(Stale') = Cardinality(Stale) - 1
          BY <1>2, <3>2, Marks
        <4>2. a * b \in Int
          BY <3>a, OneLess
        <4>3. QED
          BY <3>1, <4>1, <4>2, <1>b DEF Owed, CountsTyped
      <3>3. CASE seq[t] \notin retrieved
        <4>1. /\ Cardinality(retrieved') = Cardinality(retrieved) + 1
              /\ Cardinality(Stale') + 1 <= Cardinality(Threads) + Cardinality(Stale)
          BY <1>2, <3>3, Marks
        <4>2. NumParts - Cardinality(retrieved') = b - 1
          BY <4>1, <1>a, Retrieved, CountTypes DEF CountsTyped
        <4>3. a * (b - 1) = a * b - a /\ a * b \in Int
          BY <3>a, OneLess
        <4>4. Owed = a * b + Cardinality(Stale) + Cardinality(Counting)
          BY DEF Owed
        <4>5. Owed' = a * (b - 1) + Cardinality(Stale') + Cardinality(Counting')
          BY <4>2 DEF Owed
        <4> HIDE DEF a, b
        <4>6. a = Cardinality(Threads)
          BY DEF a
        <4>7. QED
          BY <3>1, <4>1, <4>3, <4>4, <4>5, <4>6, <3>a, <1>b DEF CountsTyped
      <3>4. QED
        BY <3>2, <3>3
    <2>2. At({"store"})' = At({"store"}) /\ UNCHANGED <<num_retrieved, n>>
      BY <1>2, Marks
    <2>3. num_retrieved' + Owed' <= Room
      BY <2>1, <2>2, <1>b, <1>c DEF CreditInv, CountsTyped
    <2>4. ASSUME NEW u \in At({"store"})
          PROVE  n[u] + Owed' <= Room
      <3>1. n[u] \in Nat
        BY <1>b DEF CountsTyped, At
      <3>2. n[u] + Owed <= Room
        BY DEF CreditInv
      <3>3. QED
        BY <3>1, <3>2, <2>1, <1>c
    <2>5. QED
      BY <2>2, <2>3, <2>4 DEF CreditInv
  <1>3. ASSUME NEW t \in Threads, ReadCount(t)
        PROVE  CreditInv'
    <2>1. Owed' = Owed /\ num_retrieved' = num_retrieved
      BY <1>a, <1>3, Reads DEF Owed
    <2>2. ASSUME NEW u \in At({"store"})'
          PROVE  n'[u] + Owed <= Room
      <3>1. CASE u = t
        BY <1>a, <1>3, <3>1, Reads DEF CreditInv
      <3>2. CASE u # t
        <4>1. u \in At({"store"}) /\ u \in Threads
          BY <1>a, <1>3, <3>2, Reads DEF At
        <4>2. n'[u] = n[u]
          BY <1>a, <1>3, <3>2, <4>1, Reads
        <4>3. QED
          BY <4>1, <4>2 DEF CreditInv
      <3>3. QED
        BY <3>1, <3>2
    <2>3. QED
      BY <2>1, <2>2 DEF CreditInv
  <1>4. ASSUME NEW t \in Threads, StoreCount(t)
        PROVE  CreditInv'
    <2>1. /\ UNCHANGED <<Stale, retrieved, n>>
          /\ Cardinality(Counting') = Cardinality(Counting) - 1
          /\ At({"store"})' \subseteq At({"store"}) /\ t \in At({"store"})
          /\ num_retrieved' = n[t] + 1
      BY <1>a, <1>4, Stores
    <2>2. Owed' = Owed - 1
      <3> DEFINE d == Cardinality(Threads) * (NumParts - Cardinality(retrieved))
      <3>1. d \in Int
        BY <1>a, OwedType
      <3>2. Owed = d + Cardinality(Stale) + Cardinality(Counting)
        BY DEF Owed
      <3>3. Owed' = d + Cardinality(Stale) + Cardinality(Counting')
        BY <2>1 DEF Owed
      <3> HIDE DEF d
      <3>4. QED
        BY <3>1, <3>2, <3>3, <2>1, <1>b DEF CountsTyped
    <2>3. n[t] + Owed <= Room /\ n[t] \in Nat
      BY <2>1, <1>b DEF CreditInv, CountsTyped
    <2>4. num_retrieved' + Owed' <= Room
      BY <2>1, <2>2, <2>3, <1>c
    <2>5. ASSUME NEW u \in At({"store"})'
          PROVE  n'[u] + Owed' <= Room
      <3>1. n[u] + Owed <= Room
        BY <2>1 DEF CreditInv
      <3>2. n[u] \in Nat
        BY <1>b DEF CountsTyped, At
      <3>3. QED
        BY <3>1, <3>2, <2>1, <2>2, <1>c
    <2>6. QED
      BY <2>4, <2>5 DEF CreditInv
  <1>5. QED
    BY <1>a, <1>1, <1>2, <1>3, <1>4, QuietSteps, QuietElse, OneStep

LEMMA CountStep == Typed /\ TypeOK' /\ CountInv /\ [Next]_vars => CountInv'
  <1> SUFFICES ASSUME Typed, TypeOK', CountInv, [Next]_vars, twice' = {}
               PROVE  /\ num_retrieved' + Cardinality(Counting')
                           <= Cardinality(retrieved')
                      /\ \A t \in At({"store"})' :
                            n'[t] + Cardinality(Counting')
                              <= Cardinality(retrieved')
    BY DEF CountInv
  <1>a. TypeOK
    BY DEF Typed
  <1>b. CountsTyped /\ CountsTyped'
    BY <1>a, CountTypes, CountTypesNext
  <1>c. Cardinality(retrieved) \in Nat
    BY <1>a, Retrieved
  <1>1. ASSUME Quiet
        PROVE  CountInv'
    BY <1>1, QuietKeeps
  <1>2. ASSUME NEW t \in Threads, Mark(t)
        PROVE  CountInv'
    <2>1. /\ Cardinality(Counting') = Cardinality(Counting) + 1
          /\ Cardinality(retrieved') = Cardinality(retrieved) + 1
          /\ At({"store"})' = At({"store"}) /\ UNCHANGED <<num_retrieved, n, twice>>
      BY <1>2, Marks
    <2>2. num_retrieved' + Cardinality(Counting') <= Cardinality(retrieved')
      BY <2>1, <1>b, <1>c DEF CountInv, CountsTyped
    <2>3. ASSUME NEW u \in At({"store"})
          PROVE  n[u] + Cardinality(Counting') <= Cardinality(retrieved')
      <3>1. n[u] + Cardinality(Counting) <= Cardinality(retrieved)
        BY <2>1 DEF CountInv
      <3>2. n[u] \in Nat
        BY <1>b DEF CountsTyped, At
      <3>3. QED
        BY <3>1, <3>2, <2>1, <1>b, <1>c DEF CountsTyped
    <2>4. QED
      BY <2>1, <2>2, <2>3 DEF CountInv
  <1>3. ASSUME NEW t \in Threads, ReadCount(t)
        PROVE  CountInv'
    <2>1. UNCHANGED <<Counting, retrieved, num_retrieved, twice>>
      BY <1>a, <1>3, Reads
    <2>2. ASSUME NEW u \in At({"store"})'
          PROVE  n'[u] + Cardinality(Counting) <= Cardinality(retrieved)
      <3>1. CASE u = t
        BY <1>a, <1>3, <2>1, <3>1, Reads DEF CountInv
      <3>2. CASE u # t
        <4>1. u \in At({"store"}) /\ u \in Threads
          BY <1>a, <1>3, <3>2, Reads DEF At
        <4>2. n'[u] = n[u]
          BY <1>a, <1>3, <3>2, <4>1, Reads
        <4>3. QED
          BY <2>1, <4>1, <4>2 DEF CountInv
      <3>3. QED
        BY <3>1, <3>2
    <2>3. QED
      BY <2>1, <2>2 DEF CountInv
  <1>4. ASSUME NEW t \in Threads, StoreCount(t)
        PROVE  CountInv'
    <2>1. /\ UNCHANGED <<retrieved, n, twice>>
          /\ Cardinality(Counting') = Cardinality(Counting) - 1
          /\ At({"store"})' \subseteq At({"store"}) /\ t \in At({"store"})
          /\ num_retrieved' = n[t] + 1
      BY <1>a, <1>4, Stores
    <2>2. ASSUME NEW u \in At({"store"})
          PROVE  n[u] + 1 + Cardinality(Counting') <= Cardinality(retrieved)
                 /\ n[u] \in Nat
      <3>1. n[u] + Cardinality(Counting) <= Cardinality(retrieved)
        BY <2>1 DEF CountInv
      <3>2. n[u] \in Nat
        BY <1>b DEF CountsTyped, At
      <3>3. QED
        BY <3>1, <3>2, <2>1, <1>b, <1>c DEF CountsTyped
    <2>3. num_retrieved' + Cardinality(Counting') <= Cardinality(retrieved)
      BY <2>1, <2>2
    <2>4. ASSUME NEW u \in At({"store"})'
          PROVE  n'[u] + Cardinality(Counting') <= Cardinality(retrieved)
      BY <2>1, <2>2, <1>b, <1>c DEF CountsTyped
    <2>5. QED
      BY <2>1, <2>3, <2>4 DEF CountInv
  <1>5. CountInv'
    BY <1>a, <1>1, <1>2, <1>3, <1>4, QuietSteps, QuietElse, OneStep
  <1>6. QED
    BY <1>5 DEF CountInv

(* The three invariants of the count, from the start of every run.          *)
Counted == Typed /\ ExactInv /\ CreditInv /\ CountInv

LEMMA CountedAlways == Spec => []Counted
  <1>1. ASSUME Init
        PROVE  ExactInv /\ CreditInv /\ CountInv
    <2> DEFINE a == Cardinality(Threads)
    <2>1. /\ Counting = {} /\ Active = {} /\ Stale = {} /\ At({"store"}) = {}
          /\ retrieved = {} /\ num_retrieved = 0
      BY <1>1 DEF Init, Counting, Active, Stale, At
    <2>2. a \in Nat /\ a # 0
      BY ThreadAssumption, FS_CardinalityType, FS_EmptySet
    <2>3. Cardinality({}) = 0 /\ NumParts \in Nat \ {0}
      BY FS_EmptySet, BoundAssumption
    <2> HIDE DEF a
    <2>4. a * (NumParts - 0) = NumParts * a /\ NumParts * a \in Nat
      BY <2>2, <2>3
    <2>5. ExactInv
      BY <2>1, <2>2, <2>3 DEF ExactInv, a
    <2>6. Owed = a * (NumParts - 0) + 0 + 0
      BY <2>1, <2>3 DEF Owed, a
    <2>7. CreditInv
      BY <2>1, <2>4, <2>6 DEF CreditInv, a
    <2>8. CountInv
      BY <2>1, <2>3 DEF CountInv
    <2>9. QED
      BY <2>5, <2>7, <2>8
  <1>2. ExactInv /\ CreditInv /\ CountInv /\ Typed /\ Typed' /\ [Next]_vars
          => (ExactInv /\ CreditInv /\ CountInv)'
    <2>1. (Typed => TypeOK) /\ (Typed' => TypeOK')
      BY DEF Typed
    <2>2. QED
      BY <2>1, ExactStep, CreditStep, CountStep
  <1>3. QED
    BY <1>1, <1>2, TypedAlways, PTL DEF Spec, Counted

(* num_retrieved, which the threads use unprotected, overruns NumParts by   *)
(* at most one strip for each thread but one; if an increment was lost, it  *)
(* stays below one increment for each thread on each strip.                 *)
THEOREM OverrunIsBounded == Spec => []OverrunBounded
  <1>1. ASSUME Counted
        PROVE  OverrunBounded
    <2>1. TypeOK /\ CountsTyped
      BY <1>1, CountTypes DEF Counted, Typed
    <2>2. CASE ~lost
      BY <1>1, <2>1, <2>2 DEF Counted, ExactInv, OverrunBounded, CountsTyped
    <2>3. CASE lost
      <3> DEFINE c == NumParts * Cardinality(Threads)
                 d == Cardinality(Threads) * (NumParts - Cardinality(retrieved))
      <3>1. d \in Nat /\ c \in Int
        BY <2>1, OwedType
      <3>2. num_retrieved + (d + Cardinality(Stale) + Cardinality(Counting)) <= c
        BY <1>1 DEF Counted, CreditInv, Owed
      <3> HIDE DEF c, d
      <3>3. num_retrieved <= c
        BY <2>1, <3>1, <3>2 DEF CountsTyped
      <3>4. QED
        BY <2>3, <3>3 DEF OverrunBounded, c
    <2>4. QED
      BY <2>1, <2>2, <2>3 DEF TypeOK
  <1>2. QED
    BY <1>1, CountedAlways, PTL

-----------------------------------------------------------------------------
(* The files.                                                               *)

(* A thread that has marked a strip still holds it. *)
Held(s) == \E t \in At({"read", "store", "write"}) : seq[t] = s

(* If no strip is marked twice and nothing has failed, every strip marked   *)
(* is in its file or still held until the files are merged, and no thread   *)
(* has left the loop before all strips were marked.                         *)
FileInv ==
  twice = {} /\ faults = 0 =>
    /\ main = "joining" => \A s \in retrieved : s \in file \/ Held(s)
    /\ At({"done"}) # {} => retrieved = Parts
    /\ main # "failed"

LEMMA HeldStays ==
  ASSUME TypeOK, NEW t \in Threads, NEW s, Held(s),
         \/ Check(t) \/ (\E r \in Parts : Answer(t, r))
         \/ Look(t) \/ Mark(t) \/ ReadCount(t) \/ StoreCount(t)
         \/ WriteFile(t) /\ seq[t] # s
  PROVE  Held(s)'
  <1> PICK u \in At({"read", "store", "write"}) : seq[u] = s
    BY DEF Held
  <1>1. u \in Threads /\ pc[u] \in {"read", "store", "write"}
    BY DEF At
  <1>2. seq'[u] = s
    <2>1. CASE \E r \in Parts : Answer(t, r)
      BY <1>1, <2>1 DEF Answer, Goto, TypeOK
    <2>2. CASE UNCHANGED seq
      BY <2>2
    <2>3. QED
      BY <2>1, <2>2 DEF Check, Look, Mark, ReadCount, StoreCount, WriteFile
  <1>3. pc'[u] \in {"read", "store", "write"}
    BY <1>1 DEF Check, Answer, Look, Mark, ReadCount, StoreCount, WriteFile,
                Goto, TypeOK
  <1>4. QED
    BY <1>1, <1>2, <1>3 DEF Held, At

LEMMA FileStep == Counted /\ Typed' /\ FileInv /\ [Next]_vars => FileInv'
  <1> SUFFICES ASSUME Counted, Typed', FileInv, [Next]_vars,
                      twice' = {}, faults' = 0
               PROVE  /\ main' = "joining" =>
                           \A s \in retrieved' : s \in file' \/ Held(s)'
                      /\ At({"done"})' # {} => retrieved' = Parts
                      /\ main' # "failed"
    BY DEF FileInv
  <1> DEFINE Files  == main' = "joining" =>
                         \A s \in retrieved' : s \in file' \/ Held(s)'
             Marked == At({"done"})' # {} => retrieved' = Parts
             Whole  == main' # "failed"
  <1>a. Typed /\ TypeOK /\ TypeOK'
    BY DEF Counted, Typed
  <1>1. CASE UNCHANGED vars
    <2>1. UNCHANGED <<pc, seq, retrieved, file, main, twice, faults>>
      BY <1>1 DEF vars, shared, history
    <2>2. \A s : Held(s)' = Held(s)
      BY <2>1 DEF Held, At
    <2>3. QED
      BY <2>1, <2>2 DEF FileInv, At
  <1>2. CASE Catpng
    <2>1. /\ UNCHANGED <<pc, seq, retrieved, twice, faults>>
          /\ main = "joining" /\ At({"done"}) = Threads
          /\ main' = IF Parts \subseteq file THEN "merged" ELSE "failed"
      BY <1>2 DEF Catpng, shared, history
    <2>2. retrieved = Parts /\ \A s \in retrieved : s \in file \/ Held(s)
      BY <2>1, ThreadAssumption DEF FileInv
    <2>3. \A s : ~Held(s)
      BY <2>1 DEF Held, At
    <2>4. main' = "merged"
      BY <2>1, <2>2, <2>3
    <2>5. QED
      BY <2>1, <2>2, <2>4
  <1>3. ASSUME NEW t \in Threads, PerformFails(t) \/ WriteFails(t)
        PROVE  FALSE
    <2>1. faults' = faults + 1 /\ faults \in Nat
      BY <1>3, <1>a, BoundAssumption DEF PerformFails, WriteFails, Fault, TypeOK
    <2>2. QED
      BY <2>1
  <1>4. ASSUME NEW t \in Threads,
               \/ Check(t) \/ (\E r \in Parts : Answer(t, r)) \/ Look(t)
               \/ Mark(t) \/ ReadCount(t) \/ StoreCount(t) \/ WriteFile(t)
        PROVE  Files /\ Marked /\ Whole
    <2>1. UNCHANGED <<main, faults>> /\ twice = {}
      BY <1>4 DEF Check, Answer, Look, Mark, ReadCount, StoreCount, WriteFile,
                  history
    <2>2. /\ main = "joining" => \A s \in retrieved : s \in file \/ Held(s)
          /\ At({"done"}) # {} => retrieved = Parts
          /\ Whole
      BY <2>1 DEF FileInv
    <2>3. file \subseteq file'
      BY <1>4 DEF Check, Answer, Look, Mark, ReadCount, StoreCount, WriteFile
    <2>4. Files
      <3> SUFFICES ASSUME main = "joining", NEW s \in retrieved', s \notin file'
                   PROVE  Held(s)'
        BY <2>1
      <3>1. CASE WriteFile(t)
        <4>1. s \in retrieved /\ s \notin file /\ s # seq[t]
          BY <3>1 DEF WriteFile, shared
        <4>2. QED
          BY <3>1, <4>1, <2>2, <1>a, HeldStays
      <3>2. CASE Mark(t) /\ s = seq[t]
        BY <3>2, <1>a DEF Mark, Goto, Held, At, TypeOK
      <3>3. CASE ~WriteFile(t) /\ ~(Mark(t) /\ s = seq[t])
        <4>1. s \in retrieved
          BY <1>4, <3>3 DEF Check, Answer, Look, Mark, ReadCount, StoreCount,
                            shared
        <4>2. Held(s)
          BY <4>1, <2>2, <2>3
        <4>3. QED
          BY <1>4, <3>3, <4>2, <1>a, HeldStays
      <3>4. QED
        BY <3>1, <3>2, <3>3
    <2>5. Marked
      <3>1. CASE Check(t) /\ ~(num_retrieved < NumParts)
        <4>1. num_retrieved + Cardinality(Counting) <= Cardinality(retrieved)
          BY <2>1 DEF Counted, CountInv
        <4>2. Cardinality(retrieved) = NumParts
          BY <3>1, <4>1, <1>a, Retrieved, CountTypes DEF CountsTyped
        <4>3. retrieved = Parts
          BY <4>2, <1>a, Retrieved
        <4>4. QED
          BY <3>1, <4>3 DEF Check, shared
      <3>2. CASE ~(Check(t) /\ ~(num_retrieved < NumParts))
        <4>1. At({"done"})' = At({"done"})
          BY <1>4, <3>2, <1>a, Stays
             DEF Check, Answer, Look, Mark, ReadCount, StoreCount, WriteFile
        <4>2. retrieved \subseteq retrieved' /\ retrieved' \subseteq Parts
          BY <1>4, <1>a DEF Check, Answer, Look, Mark, ReadCount, StoreCount,
                            WriteFile, shared, TypeOK
        <4>3. QED
          BY <4>1, <4>2, <2>2
      <3>3. QED
        BY <3>1, <3>2
    <2>6. QED
      BY <2>2, <2>4, <2>5
  <1>5. QED
    BY <1>1, <1>2, <1>3, <1>4, OneStep

(* catpng misses a strip only if two threads marked one strip and counted   *)
(* it twice, or a transfer or a write failed: a lost increment alone never  *)
(* costs a strip.                                                           *)
THEOREM OnlyCountedTwiceMisses == Spec => []MissingOnlyIfCountedTwice
  <1>1. Init => FileInv
    BY DEF Init, FileInv, At
  <1>2. Counted => Typed
    BY DEF Counted
  <1>3. Typed /\ FileInv => MissingOnlyIfCountedTwice
    <2>1. Typed => faults \in Nat
      BY BoundAssumption DEF Typed, TypeOK
    <2>2. QED
      BY <2>1 DEF FileInv, MissingOnlyIfCountedTwice
  <1>4. QED
    BY <1>1, <1>2, <1>3, FileStep, CountedAlways, PTL DEF Spec
=============================================================================
