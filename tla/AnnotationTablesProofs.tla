------------------------ MODULE AnnotationTablesProofs ------------------------
(* What the commits of AnnotationTables preserve, for every value of its constants. *)
EXTENDS AnnotationTables, FiniteSetTheorems, SequenceTheorems, TLAPS

-----------------------------------------------------------------------------
(* Sets and sequences of numbers *)

\* A finite set of numbers that is not empty has a greatest element: a smallest finite
\* set without one would have a smaller one, without one of its elements.
LEMMA Greatest ==
  ASSUME NEW S \in SUBSET Nat, IsFiniteSet(S), S # {}
  PROVE  \E m \in S : \A n \in S : n <= m
<1>. DEFINE Bad == {T \in SUBSET S : T # {} /\ ~\E m \in T : \A n \in T : n <= m}
<1>. SUFFICES ASSUME S \in Bad
              PROVE  FALSE
  OBVIOUS
<1>1. IsWellFoundedOn(StrictSubsetOrdering(S), SUBSET S)
  BY FS_StrictSubsetOrderingWellFounded, FS_FiniteSubsetsOfFinite
<1>2. PICK T \in Bad : \A U \in Bad : <<U, T>> \notin StrictSubsetOrdering(S)
  <2>. Bad \subseteq SUBSET S /\ Bad # {}
    OBVIOUS
  <2>. HIDE DEF Bad
  <2>. QED BY <1>1, WFMin
<1>3. PICK x \in T : TRUE
  OBVIOUS
<1>4. T \ {x} \notin Bad
  <2>1. T \ {x} \in SUBSET S /\ T \in SUBSET S /\ T \ {x} # T
    BY <1>3
  <2>2. <<T \ {x}, T>> \in StrictSubsetOrdering(S)
    BY <2>1 DEF StrictSubsetOrdering
  <2>. QED BY <1>2, <2>2
<1>5. CASE T \ {x} = {}
  <2>1. \A n \in T : n <= x
    BY <1>3, <1>5
  <2>. QED BY <1>3, <2>1
<1>6. CASE T \ {x} # {}
  <2>1. PICK m \in T \ {x} : \A n \in T \ {x} : n <= m
    BY <1>4, <1>6
  <2>2. m \in Nat /\ x \in Nat
    BY <1>3, <2>1
  <2>3. CASE x <= m
    BY <2>1, <2>3
  <2>4. CASE m <= x
    <3>1. \A n \in T : n <= x
      BY <2>1, <2>2, <2>4
    <3>. QED BY <1>3, <3>1
  <2>. QED BY <2>2, <2>3, <2>4
<1>. QED BY <1>5, <1>6

LEMMA Ascending ==
  ASSUME NEW n \in Nat, NEW S \in SUBSET Nat, NEW s \in [1..n -> S],
         \A i, j \in 1..n : i < j => s[i] < s[j]
  PROVE  \A i, j \in 1..n : s[i] = s[j] => i = j
<1>. SUFFICES ASSUME NEW i \in 1..n, NEW j \in 1..n, i # j
              PROVE  s[i] # s[j]
  OBVIOUS
<1>1. s[i] \in Nat /\ s[j] \in Nat
  OBVIOUS
<1>2. i < j \/ j < i
  OBVIOUS
<1>. QED BY <1>1, <1>2

LEMMA InOrderIsSeq ==
  ASSUME NEW S \in SUBSET Nat, IsFiniteSet(S), NEW s \in InOrder(S)
  PROVE  /\ s \in Seq(S) /\ Len(s) = Cardinality(S)
         /\ \A i, j \in 1..Len(s) : s[i] = s[j] => i = j
<1>1. Cardinality(S) \in Nat
  BY FS_CardinalityType
<1>2. s \in [1..Cardinality(S) -> S]
  BY DEF InOrder
<1>3. s \in Seq(S) /\ Len(s) = Cardinality(S)
  BY <1>1, <1>2
<1>4. \A i, j \in 1..Cardinality(S) : i < j => s[i] < s[j]
  BY DEF InOrder
<1>5. \A i, j \in 1..Cardinality(S) : s[i] = s[j] => i = j
  BY <1>1, <1>2, <1>4, Ascending
<1>. QED BY <1>3, <1>5

\* A sequence that repeats nothing is no longer than its set.
LEMMA DistinctFits ==
  ASSUME NEW S, IsFiniteSet(S), NEW s \in Seq(S), \A i, j \in 1..Len(s) : s[i] = s[j] => i = j
  PROVE  Len(s) <= Cardinality(S)
<1>1. s \in Injection(1..Len(s), S)
  BY DEF Injection, IsInjective
<1>2. Cardinality(1..Len(s)) = Len(s)
  BY FS_Interval
<1>. QED BY <1>1, <1>2, FS_Injection

-----------------------------------------------------------------------------
(* The limit of the boxes *)

BoxesFinite == \A i \in Indexes : IsFiniteSet(boxes[i])

LEMMA IndexesFinite == IsFiniteSet(Indexes) /\ Cardinality(Sources) \in Nat
BY TablesAssumption, FS_CardinalityType, FS_Interval DEF Indexes

\* The boxes of some images, each with its image.
BoxesOf(S, b) == UNION {{i} \X b[i] : i \in S}

LEMMA BoxesOfFinite ==
  ASSUME NEW S, IsFiniteSet(S), NEW b, \A i \in S : IsFiniteSet(b[i])
  PROVE  IsFiniteSet(BoxesOf(S, b))
<1>. DEFINE T == {{i} \X b[i] : i \in S}
            f == [i \in S |-> {i} \X b[i]]
<1>1. f \in Surjection(S, T)
  BY DEF Surjection
<1>2. IsFiniteSet(T)
  BY <1>1, FS_Surjection
<1>3. \A t \in T : IsFiniteSet(t)
  <2>. SUFFICES ASSUME NEW i \in S
                PROVE  IsFiniteSet({i} \X b[i])
    OBVIOUS
  <2>1. IsFiniteSet({i}) /\ IsFiniteSet(b[i])
    BY FS_Singleton
  <2>. QED BY <2>1, FS_Product
<1>. HIDE DEF T
<1>4. IsFiniteSet(UNION T)
  BY <1>2, <1>3, FS_UNION
<1>. QED BY <1>4 DEF BoxesOf, T

LEMMA BoxesOfOne ==
  ASSUME NEW S, IsFiniteSet(S), NEW b, \A j \in S : IsFiniteSet(b[j]), NEW i \in S
  PROVE  /\ IsFiniteSet(BoxesOf(S \ {i}, b))
         /\ Cardinality(BoxesOf(S, b)) = Cardinality(BoxesOf(S \ {i}, b)) + Cardinality(b[i])
<1>1. IsFiniteSet(BoxesOf(S \ {i}, b))
  BY FS_RemoveElement, BoxesOfFinite
<1>2. IsFiniteSet({i} \X b[i]) /\ Cardinality({i} \X b[i]) = Cardinality(b[i])
  <2>1. IsFiniteSet({i}) /\ Cardinality({i}) = 1 /\ IsFiniteSet(b[i]) /\ Cardinality(b[i]) \in Nat
    BY FS_Singleton, FS_CardinalityType
  <2>2. /\ IsFiniteSet({i} \X b[i])
        /\ Cardinality({i} \X b[i]) = Cardinality({i}) * Cardinality(b[i])
    BY <2>1, FS_Product
  <2>. QED BY <2>1, <2>2
<1>3. BoxesOf(S, b) = BoxesOf(S \ {i}, b) \cup ({i} \X b[i])
  BY DEF BoxesOf
<1>4. BoxesOf(S \ {i}, b) \cap ({i} \X b[i]) = {}
  BY DEF BoxesOf
<1>5. Cardinality(BoxesOf(S \ {i}, b)) \in Nat /\ Cardinality({i} \X b[i]) \in Nat
  BY <1>1, <1>2, FS_CardinalityType
<1>6. Cardinality(BoxesOf(S, b)) = Cardinality(BoxesOf(S \ {i}, b)) + Cardinality({i} \X b[i])
                                   - Cardinality({})
  <2>. DEFINE A == BoxesOf(S \ {i}, b)
              B == {i} \X b[i]
  <2>1. IsFiniteSet(A) /\ IsFiniteSet(B) /\ A \cap B = {} /\ BoxesOf(S, b) = A \cup B
    BY <1>1, <1>2, <1>3, <1>4
  <2>. HIDE DEF A, B
  <2>2. Cardinality(A \cup B) = Cardinality(A) + Cardinality(B) - Cardinality(A \cap B)
    BY <2>1, FS_Union
  <2>3. Cardinality(BoxesOf(S, b)) = Cardinality(A) + Cardinality(B) - Cardinality({})
    BY <2>1, <2>2
  <2>. QED BY <2>3 DEF A, B
<1>. QED BY <1>1, <1>2, <1>5, <1>6, FS_EmptySet

\* An image that changes alone within the limit keeps the limit.
LEMMA LimitKept ==
  ASSUME BoxesFinite, BoxesFinite', NEW i \in Indexes,
         \A j \in Indexes \ {i} : boxes'[j] = boxes[j],
         Cardinality(AllBoxes) - Cardinality(boxes[i]) + Cardinality(boxes'[i]) <= MaxBoxes
  PROVE  LimitHolds'
<1>. DEFINE rest == BoxesOf(Indexes \ {i}, boxes)
<1>1. AllBoxes = BoxesOf(Indexes, boxes) /\ AllBoxes' = BoxesOf(Indexes, boxes')
  BY DEF AllBoxes, BoxesOf, Indexes
<1>2. BoxesOf(Indexes \ {i}, boxes') = rest
  BY DEF BoxesOf
<1>3. (\A j \in Indexes : IsFiniteSet(boxes[j])) /\ \A j \in Indexes : IsFiniteSet(boxes'[j])
  BY DEF BoxesFinite, Indexes
<1>4. IsFiniteSet(rest) /\ Cardinality(AllBoxes) = Cardinality(rest) + Cardinality(boxes[i])
  BY <1>1, <1>3, IndexesFinite, BoxesOfOne
<1>5. Cardinality(AllBoxes') = Cardinality(rest) + Cardinality(boxes'[i])
  BY <1>1, <1>2, <1>3, IndexesFinite, BoxesOfOne
<1>6. /\ Cardinality(rest) \in Nat /\ Cardinality(boxes[i]) \in Nat
      /\ Cardinality(boxes'[i]) \in Nat
  BY <1>3, <1>4, FS_CardinalityType
<1>. HIDE DEF rest
<1>. QED BY <1>4, <1>5, <1>6, TablesAssumption DEF LimitHolds

\* So does every image that only loses boxes.
LEMMA LimitKeptByLoss ==
  ASSUME BoxesFinite, LimitHolds, \A i \in Indexes : boxes'[i] \subseteq boxes[i]
  PROVE  BoxesFinite' /\ LimitHolds'
<1>1. BoxesFinite'
  BY FS_Subset DEF BoxesFinite, Indexes
<1>2. IsFiniteSet(AllBoxes)
  <2>1. AllBoxes = BoxesOf(Indexes, boxes)
    BY DEF AllBoxes, BoxesOf
  <2>. QED BY <2>1, IndexesFinite, BoxesOfFinite DEF BoxesFinite
<1>3. AllBoxes' \subseteq AllBoxes
  BY DEF AllBoxes, Indexes
<1>4. Cardinality(AllBoxes') <= Cardinality(AllBoxes) /\ Cardinality(AllBoxes') \in Nat
      /\ Cardinality(AllBoxes) \in Nat
  BY <1>2, <1>3, FS_Subset, FS_CardinalityType
<1>. QED BY <1>1, <1>4, TablesAssumption DEF LimitHolds

\* The boxes of one statement are as many as its classes.
LEMMA RowsPerClass ==
  ASSUME NEW cs, IsFiniteSet(cs), NEW v, NEW r
  PROVE  /\ IsFiniteSet(cs \X {v} \X {r})
         /\ Cardinality(cs \X {v} \X {r}) = Cardinality(cs)
<1>. DEFINE T == cs \X {v} \X {r}
            f == [c \in cs |-> <<c, v, r>>]
<1>1. f \in Bijection(cs, T)
  <2>1. f \in [cs -> T]
    OBVIOUS
  <2>2. \A a, b \in cs : f[a] = f[b] => a = b
    OBVIOUS
  <2>3. \A t \in T : \E c \in cs : f[c] = t
    OBVIOUS
  <2>. QED BY <2>1, <2>2, <2>3 DEF Bijection, Injection, Surjection, IsInjective
<1>2. ExistsBijection(cs, T)
  BY <1>1 DEF ExistsBijection
<1>. QED BY <1>2, FS_Bijection

-----------------------------------------------------------------------------
(* The commits *)

TableInv == TableTypeOK /\ BoxesFinite

LEMMA TablesStay ==
  ASSUME TableInv, UNCHANGED tableVars
  PROVE  TableInv'
<1>1. LimitHolds' /\ BoxesFinite'
  BY DEF tableVars, LimitHolds, AllBoxes, BoxesFinite, TableInv, TableTypeOK, Indexes
<1>. QED BY <1>1 DEF tableVars, TableInv, TableTypeOK, Present, Indexes

\* The index of a new class is beyond those of the others.
LEMMA NextYoloIsNew ==
  ASSUME TableTypeOK
  PROVE  NextYolo \in Nat /\ \A c \in Present : yolo[c] \in Nat /\ yolo[c] < NextYolo
<1>. DEFINE used == {yolo[c] : c \in Present}
            f == [c \in Present |-> yolo[c]]
<1>1. \A c \in Present : yolo[c] \in Nat
  BY DEF TableTypeOK, Present, NoIndex
<1>2. IsFiniteSet(used)
  <2>1. IsFiniteSet(Present)
    BY TablesAssumption, FS_Subset DEF Present
  <2>2. f \in Surjection(Present, used)
    BY DEF Surjection
  <2>. QED BY <2>1, <2>2, FS_Surjection
<1>3. \E n \in {0} \cup {yolo[c] + 1 : c \in Present} : \A c \in Present : yolo[c] < n
  <2>1. CASE Present = {}
    BY <2>1
  <2>2. CASE Present # {}
    <3>1. PICK m \in used : \A n \in used : n <= m
      <4>. used # {} /\ used \in SUBSET Nat
        BY <1>1, <2>2
      <4>. HIDE DEF used
      <4>. QED BY <1>2, Greatest
    <3>2. PICK d \in Present : yolo[d] = m
      BY <3>1
    <3>3. \A c \in Present : yolo[c] < yolo[d] + 1
      <4>. SUFFICES ASSUME NEW c \in Present
                    PROVE  yolo[c] < yolo[d] + 1
        OBVIOUS
      <4>1. yolo[c] <= yolo[d]
        BY <3>1, <3>2
      <4>. QED BY <1>1, <4>1
    <3>. QED BY <3>3
  <2>. QED BY <2>1, <2>2
<1>4. /\ NextYolo \in {0} \cup {yolo[c] + 1 : c \in Present}
      /\ \A c \in Present : yolo[c] < NextYolo
  BY <1>3 DEF NextYolo
<1>. QED BY <1>1, <1>4

LEMMA TableInitInv == TableInit => TableInv
<1>. SUFFICES ASSUME TableInit
              PROVE  TableInv
  OBVIOUS
<1>. USE TablesAssumption DEF TableInit
<1>1. IsFiniteSet(FirstImages) /\ FirstImages \in SUBSET Nat
  BY FS_Subset
<1>2. /\ images \in Seq(FirstImages) /\ Len(images) = Cardinality(FirstImages)
      /\ \A i, j \in 1..Len(images) : images[i] = images[j] => i = j
  BY <1>1, InOrderIsSeq
<1>3. Cardinality(FirstImages) \in 1..Cardinality(Sources)
  <2>1. Cardinality(FirstImages) <= Cardinality(Sources)
    BY FS_Subset
  <2>2. Cardinality(FirstImages) # 0
    BY <1>1, FS_EmptySet
  <2>. QED BY <1>1, <2>1, <2>2, FS_CardinalityType
<1>4. images \in Seq(Sources) /\ DOMAIN images = 1..Len(images)
  BY <1>2, SeqMonotonic, LenProperties
<1>5. LimitHolds
  <2>1. AllBoxes = {}
    BY DEF AllBoxes
  <2>. QED BY <2>1, FS_EmptySet DEF LimitHolds
<1>6. BoxesFinite
  BY FS_EmptySet DEF BoxesFinite
<1>. QED BY <1>2, <1>3, <1>4, <1>5, <1>6 DEF TableInv, TableTypeOK, Present, Indexes

LEMMA IndexesOfImages ==
  ASSUME TableTypeOK
  PROVE  DOMAIN images = 1..Len(images) /\ DOMAIN images \subseteq Indexes
<1>1. DOMAIN images = 1..Len(images) /\ Len(images) \in Nat
  BY LenProperties DEF TableTypeOK
<1>2. Len(images) <= Cardinality(Sources)
  BY IndexesFinite DEF TableTypeOK, Indexes
<1>. QED BY <1>1, <1>2, IndexesFinite DEF Indexes

LEMMA SaveInv ==
  ASSUME TableInv, NEW i \in DOMAIN images, NEW cs, NEW done \in BOOLEAN,
         WithinLimit(i, Cardinality(cs)), CommitSave(i, cs, done)
  PROVE  TableInv'
<1>. /\ TableTypeOK /\ BoxesFinite /\ revision \in Nat
     /\ i \in Indexes
  BY IndexesOfImages DEF TableInv, TableTypeOK
<1>1. IsFiniteSet(cs) /\ cs \subseteq Classes /\ cs \subseteq Present
  BY TablesAssumption, FS_Subset DEF CommitSave, Present
<1>2. /\ boxes'[i] = SavedBoxes(i, cs) /\ boxes' \in [Indexes -> SUBSET Boxes]
      /\ \A j \in Indexes \ {i} : boxes'[j] = boxes[j]
  BY <1>1 DEF CommitSave, TableTypeOK, SavedBoxes, Boxes, Drawn
<1>3. /\ IsFiniteSet(SavedBoxes(i, cs))
      /\ Cardinality(SavedBoxes(i, cs)) = Cardinality(cs)
  BY <1>1, RowsPerClass DEF SavedBoxes
<1>4. BoxesFinite'
  BY <1>2, <1>3 DEF BoxesFinite, Indexes
<1>5. LimitHolds'
  BY <1>2, <1>3, <1>4, LimitKept DEF WithinLimit
<1>6. \A j \in Indexes : \A b \in boxes'[j] : b[1] \in Present /\ b[2] <= revision + 1
  BY <1>1, <1>2 DEF TableTypeOK, SavedBoxes, Boxes
<1>7. \A j \in Indexes : boxes'[j] # {} => j \in DOMAIN images
  BY <1>2 DEF TableTypeOK
<1>. QED BY <1>2, <1>4, <1>5, <1>6, <1>7 DEF CommitSave, TableInv, TableTypeOK, Present, Indexes

LEMMA ClassInv ==
  ASSUME TableInv, CommitClass
  PROVE  TableInv'
<1>. TableTypeOK /\ BoxesFinite
  BY DEF TableInv
<1>1. PICK c \in Unborn : yolo' = [yolo EXCEPT ![c] = NextYolo]
  BY DEF CommitClass
<1>2. c \in Classes /\ c \notin Present /\ c \notin retired /\ Present' = Present \cup {c}
  BY <1>1, NextYoloIsNew DEF Unborn, Present, TableTypeOK, NoIndex
<1>3. yolo' \in [Classes -> Nat \cup {NoIndex}]
  BY <1>1, NextYoloIsNew DEF TableTypeOK
<1>4. \A d, e \in Present' : yolo'[d] = yolo'[e] => d = e
  BY <1>1, <1>2, NextYoloIsNew DEF TableTypeOK, Present
<1>5. LimitHolds' /\ BoxesFinite'
  BY DEF CommitClass, LimitHolds, AllBoxes, BoxesFinite, TableTypeOK, Indexes
<1>6. \A j \in Indexes : \A b \in boxes[j] : b[2] <= revision + 1
  BY DEF TableTypeOK, Boxes
<1>. QED BY <1>2, <1>3, <1>4, <1>5, <1>6 DEF CommitClass, TableInv, TableTypeOK, Indexes

LEMMA UpdateInv ==
  ASSUME TableInv, CommitUpdate
  PROVE  TableInv'
<1>1. LimitHolds' /\ BoxesFinite'
  BY DEF CommitUpdate, LimitHolds, AllBoxes, BoxesFinite, TableInv, TableTypeOK, Indexes
<1>2. \A j \in Indexes : \A b \in boxes[j] : b[2] <= revision + 1
  BY DEF TableInv, TableTypeOK, Boxes
<1>. QED BY <1>1, <1>2 DEF CommitUpdate, TableInv, TableTypeOK, Present, Indexes

LEMMA DeleteInv ==
  ASSUME TableInv, NEW c \in Present, CommitDelete(c)
  PROVE  TableInv'
<1>. TableTypeOK /\ BoxesFinite
  BY DEF TableInv
<1>1. c \in Classes /\ Present' = Present \ {c}
  BY DEF CommitDelete, Present, TableTypeOK
<1>2. \A i \in Indexes : boxes'[i] \subseteq boxes[i] /\ \A b \in boxes'[i] : b[1] # c
  BY DEF CommitDelete
<1>3. LimitHolds' /\ BoxesFinite'
  BY <1>2, LimitKeptByLoss DEF TableTypeOK
<1>4. yolo' \in [Classes -> Nat \cup {NoIndex}] /\ \A d \in Present' : yolo'[d] = yolo[d]
  BY <1>1 DEF CommitDelete, TableTypeOK
<1>5. \A j \in Indexes : \A b \in boxes'[j] : b[1] \in Present' /\ b[2] <= revision + 1
  BY <1>1, <1>2 DEF TableTypeOK, Boxes
<1>6. boxes' \in [Indexes -> SUBSET Boxes]
  BY DEF CommitDelete, TableTypeOK
<1>7. retired' \subseteq Classes \ Present'
  BY <1>1 DEF CommitDelete, TableTypeOK
<1>. QED BY <1>1, <1>2, <1>3, <1>4, <1>5, <1>6, <1>7 DEF CommitDelete, TableInv, TableTypeOK, Indexes

\* The images that are added repeat none, and still fit the indexes.
LEMMA AttachImages ==
  ASSUME TableTypeOK, NEW missing \in SUBSET (Sources \ Range(images)),
         NEW order \in InOrder(missing)
  PROVE  LET all == images \o order IN
         /\ all \in Seq(Sources) /\ Len(all) >= Len(images) /\ Len(all) \in Indexes
         /\ DOMAIN all = 1..Len(all)
         /\ \A i, j \in 1..Len(all) : all[i] = all[j] => i = j
         /\ all = images \/ Len(all) > Len(images)
<1>. DEFINE all == images \o order
            n == Len(images)
            k == Len(order)
<1>1. missing \in SUBSET Nat /\ IsFiniteSet(missing)
  BY TablesAssumption, FS_Subset
<1>2. /\ order \in Seq(missing) /\ k \in Nat
      /\ \A i, j \in 1..k : order[i] = order[j] => i = j
  BY <1>1, InOrderIsSeq, LenProperties
<1>3. /\ images \in Seq(Sources) /\ n \in Nat /\ n >= 1
      /\ \A i, j \in 1..n : images[i] = images[j] => i = j
  BY LenProperties, IndexesFinite DEF TableTypeOK, Indexes
<1>4. /\ all \in Seq(Sources) /\ Len(all) = n + k
      /\ \A i \in 1..(n + k) : all[i] = IF i <= n THEN images[i] ELSE order[i - n]
  <2>1. order \in Seq(Sources)
    BY <1>2, SeqMonotonic
  <2>. QED BY <1>3, <2>1, ConcatProperties
<1>5. \A i \in 1..n, j \in 1..k : images[i] # order[j]
  <2>1. \A j \in 1..k : order[j] \in missing
    BY <1>2, ElementOfSeq
  <2>2. \A i \in 1..n : images[i] \in Range(images)
    BY <1>3, LenProperties DEF Range
  <2>. QED BY <2>1, <2>2
<1>6. \A i, j \in 1..(n + k) : all[i] = all[j] => i = j
  <2>. SUFFICES ASSUME NEW i \in 1..(n + k), NEW j \in 1..(n + k), all[i] = all[j]
                PROVE  i = j
    OBVIOUS
  <2>0. n \in Nat /\ k \in Nat /\ i \in Int /\ j \in Int
    BY <1>2, <1>3
  <2>1. CASE i <= n /\ j <= n
    BY <1>3, <1>4, <2>0, <2>1
  <2>2. CASE i <= n /\ j > n
    <3>1. i \in 1..n /\ j - n \in 1..k
      BY <2>0, <2>2
    <3>. QED BY <1>4, <1>5, <2>0, <2>2, <3>1
  <2>3. CASE i > n /\ j <= n
    <3>1. j \in 1..n /\ i - n \in 1..k
      BY <2>0, <2>3
    <3>. QED BY <1>4, <1>5, <2>0, <2>3, <3>1
  <2>4. CASE i > n /\ j > n
    <3>1. i - n \in 1..k /\ j - n \in 1..k
      BY <2>0, <2>4
    <3>2. order[i - n] = order[j - n]
      BY <1>4, <2>0, <2>4
    <3>3. i - n = j - n
      BY <1>2, <3>1, <3>2
    <3>. QED BY <2>0, <3>3
  <2>. QED BY <2>0, <2>1, <2>2, <2>3, <2>4
<1>. HIDE DEF all
<1>7. Len(all) <= Cardinality(Sources)
  BY <1>4, <1>6, TablesAssumption, DistinctFits
<1>8. Len(all) \in Indexes
  BY <1>2, <1>3, <1>4, <1>7, IndexesFinite DEF Indexes
<1>9. DOMAIN all = 1..Len(all)
  BY <1>4, LenProperties
<1>10. k = 0 => all = images
  BY <1>2, <1>3, EmptySeq, ConcatEmptySeq DEF all
<1>. QED BY <1>2, <1>3, <1>4, <1>6, <1>8, <1>9, <1>10 DEF all

LEMMA AttachInv ==
  ASSUME TableInv, NEW missing \in SUBSET (Sources \ Range(images)), NEW index \in Nat,
         CommitAttach(missing, index)
  PROVE  /\ TableInv' /\ Present \subseteq Present' /\ Len(images') >= Len(images)
         /\ DOMAIN images \subseteq DOMAIN images'
         /\ images' = images \/ Len(images') > Len(images)
<1>. TableTypeOK /\ BoxesFinite
  BY DEF TableInv
<1>1. PICK order \in InOrder(missing) : images' = images \o order
  BY DEF CommitAttach
<1>2. /\ images' \in Seq(Sources) /\ Len(images') >= Len(images) /\ Len(images') \in Indexes
      /\ DOMAIN images' = 1..Len(images')
      /\ \A i, j \in 1..Len(images') : images'[i] = images'[j] => i = j
      /\ images' = images \/ Len(images') > Len(images)
  BY <1>1, AttachImages
<1>3. DOMAIN images \subseteq DOMAIN images'
  <2>1. Len(images) \in Nat /\ Len(images') \in Nat
    BY <1>2, IndexesFinite DEF TableTypeOK, Indexes
  <2>. QED BY <1>2, <2>1, IndexesOfImages
<1>4. /\ yolo' \in [Classes -> Nat \cup {NoIndex}] /\ retired \subseteq Classes \ Present'
      /\ \A c, d \in Present' : yolo'[c] = yolo'[d] => c = d
      /\ Present \subseteq Present'
  <2>1. CASE UNCHANGED yolo
    BY <2>1 DEF TableTypeOK, Present
  <2>2. ASSUME NEW c \in Unborn, \A d \in Present : yolo[d] # index,
               yolo' = [yolo EXCEPT ![c] = index]
        PROVE  /\ yolo' \in [Classes -> Nat \cup {NoIndex}] /\ retired \subseteq Classes \ Present'
               /\ \A b, d \in Present' : yolo'[b] = yolo'[d] => b = d
               /\ Present \subseteq Present'
    <3>1. c \in Classes /\ c \notin Present /\ c \notin retired /\ Present' = Present \cup {c}
      BY <2>2 DEF Unborn, Present, TableTypeOK, NoIndex
    <3>. QED BY <2>2, <3>1 DEF TableTypeOK, Present
  <2>. QED BY <2>1, <2>2 DEF CommitAttach
<1>5. LimitHolds' /\ BoxesFinite'
  BY DEF CommitAttach, LimitHolds, AllBoxes, BoxesFinite, TableTypeOK, Indexes
<1>. QED BY <1>2, <1>3, <1>4, <1>5 DEF CommitAttach, TableInv, TableTypeOK, Indexes

\* What a prediction leaves of an image without boxes.
LEMMA PredictionRows ==
  ASSUME TableTypeOK, NEW i \in Indexes, boxes[i] = {}, NEW r \in Nat, CommitPredictions(i, r)
  PROVE  \E cs \in SUBSET Present :
           /\ boxes' = [boxes EXCEPT ![i] = cs \X {revision + 1} \X {r}]
           /\ WithinLimit(i, Cardinality(cs))
           /\ IF cs = {} THEN UNCHANGED <<revision, boxes>> ELSE revision' = revision + 1
           /\ UNCHANGED <<yolo, retired, images, completed>>
<1>1. PICK cs \in SUBSET Present :
        /\ WithinLimit(i, Cardinality(cs))
        /\ boxes' = [boxes EXCEPT ![i] = @ \cup (cs \X {revision + 1} \X {r})]
        /\ revision' = IF cs = {} THEN revision ELSE revision + 1
        /\ UNCHANGED <<yolo, retired, images, completed>>
  BY DEF CommitPredictions
<1>2. boxes' = [boxes EXCEPT ![i] = cs \X {revision + 1} \X {r}]
  BY <1>1 DEF TableTypeOK
<1>3. cs = {} => boxes' = boxes
  BY <1>1 DEF TableTypeOK
<1>. QED BY <1>1, <1>2, <1>3

LEMMA PredictionInv ==
  ASSUME TableInv, NEW i, Unlabelled(i), NEW r \in Nat, CommitPredictions(i, r)
  PROVE  TableInv'
<1>. /\ TableTypeOK /\ BoxesFinite /\ revision \in Nat
     /\ i \in Indexes /\ i \in DOMAIN images /\ boxes[i] = {}
  BY IndexesOfImages DEF TableInv, TableTypeOK, Unlabelled
<1>1. PICK cs \in SUBSET Present :
           /\ boxes' = [boxes EXCEPT ![i] = cs \X {revision + 1} \X {r}]
           /\ WithinLimit(i, Cardinality(cs))
           /\ IF cs = {} THEN UNCHANGED <<revision, boxes>> ELSE revision' = revision + 1
           /\ UNCHANGED <<yolo, retired, images, completed>>
  BY PredictionRows
<1>2. CASE cs = {}
  BY <1>1, <1>2, TablesStay DEF TableInv, tableVars
<1>3. CASE cs # {}
  <2>. DEFINE rows == cs \X {revision + 1} \X {r}
  <2>1. IsFiniteSet(cs) /\ cs \subseteq Classes
    BY TablesAssumption, FS_Subset DEF Present
  <2>2. IsFiniteSet(rows) /\ Cardinality(rows) = Cardinality(cs)
    BY <2>1, RowsPerClass
  <2>3. boxes' \in [Indexes -> SUBSET Boxes]
    BY <1>1, <2>1 DEF TableTypeOK, Boxes
  <2>4. boxes'[i] = rows /\ \A j \in Indexes \ {i} : boxes'[j] = boxes[j]
    BY <1>1 DEF TableTypeOK
  <2>. HIDE DEF rows
  <2>5. BoxesFinite'
    BY <2>2, <2>4 DEF BoxesFinite, Indexes
  <2>6. LimitHolds'
    BY <1>1, <2>2, <2>4, <2>5, LimitKept DEF WithinLimit
  <2>7. \A j \in Indexes : \A b \in boxes'[j] : b[1] \in Present /\ b[2] <= revision + 1
    BY <2>4 DEF TableTypeOK, Boxes, rows
  <2>8. \A j \in Indexes : boxes'[j] # {} => j \in DOMAIN images
    BY <2>4 DEF TableTypeOK
  <2>. QED BY <1>1, <1>3, <2>3, <2>5, <2>6, <2>7, <2>8
       DEF TableInv, TableTypeOK, Present, Indexes
<1>. QED BY <1>2, <1>3

-----------------------------------------------------------------------------
(* Boxes of one writer *)

LEMMA SaveIsOneWriter ==
  ASSUME TableTypeOK, OneWriterPerImage, NEW i \in DOMAIN images, NEW cs, NEW done,
         CommitSave(i, cs, done)
  PROVE  OneWriterPerImage'
<1>1. \A j \in Indexes : boxes'[j] = IF j = i THEN SavedBoxes(i, cs) ELSE boxes[j]
  BY IndexesOfImages DEF CommitSave, TableTypeOK
<1>. QED BY <1>1 DEF OneWriterPerImage, SavedBoxes, Indexes

LEMMA PredictionIsOneWriter ==
  ASSUME TableTypeOK, OneWriterPerImage, NEW i, Unlabelled(i), NEW r \in Nat,
         CommitPredictions(i, r)
  PROVE  OneWriterPerImage'
<1>. i \in Indexes /\ boxes[i] = {}
  BY IndexesOfImages DEF Unlabelled
<1>1. PICK cs \in SUBSET Present : boxes' = [boxes EXCEPT ![i] = cs \X {revision + 1} \X {r}]
  BY PredictionRows
<1>2. \A j \in Indexes :
        boxes'[j] = IF j = i THEN cs \X {revision + 1} \X {r} ELSE boxes[j]
  BY <1>1 DEF TableTypeOK
<1>. QED BY <1>2 DEF OneWriterPerImage, Indexes

LEMMA DeleteKeepsOneWriter ==
  ASSUME OneWriterPerImage, NEW c, CommitDelete(c)
  PROVE  OneWriterPerImage'
BY DEF OneWriterPerImage, CommitDelete, Indexes

=============================================================================
