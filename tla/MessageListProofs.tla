------------------------- MODULE MessageListProofs -------------------------
(***************************************************************************)
(* What the list operations of MessageList.tla return, for every list, and *)
(* how many messages of a kind there are in many lists together.           *)
(***************************************************************************)
EXTENDS MessageList, Integers, SequenceTheorems, FiniteSetTheorems, FunctionTheorems,
        WellFoundedInduction, TLAPS

(* Every set of naturals has a least element: no number is the last of an  *)
(* endless descent.                                                        *)
Less == {ss \in Nat \X Nat : ss[1] < ss[2]}

LEMMA LessIsWellFounded == IsWellFoundedOn(Less, Nat)
BY NatLessThanWellFounded DEF OpToRel, Less

LEMMA LeastNatural ==
    ASSUME NEW T, T \subseteq Nat, T # {}
    PROVE  \E x \in T : \A y \in T : x <= y
<1>1. PICK x \in T : \A y \in T : ~ (<<y, x>> \in Less)
  BY LessIsWellFounded, WFMin
<1>2. ASSUME NEW y \in T PROVE x <= y
  <2>1. x \in Nat /\ y \in Nat
    OBVIOUS
  <2>2. y < x => <<y, x>> \in Less
    BY <2>1 DEF Less
  <2>. QED
    BY <1>1, <2>1, <2>2
<1>. QED
  BY <1>2

(* A message is found where one is acceptable, and none lies before it.    *)
LEMMA FirstAcceptableProperties ==
    ASSUME NEW M, NEW list \in Seq(M), NEW kinds, Acceptable(list, kinds) # {}
    PROVE  /\ FirstAcceptable(list, kinds) \in 1 .. Len(list)
           /\ list[FirstAcceptable(list, kinds)].kind \in kinds
           /\ \A i \in 1 .. FirstAcceptable(list, kinds) - 1 :
                  list[i].kind \notin kinds
<1>1. DOMAIN list = 1 .. Len(list) /\ Len(list) \in Nat
  OBVIOUS
<1>2. Acceptable(list, kinds) \subseteq Nat
  BY <1>1 DEF Acceptable
<1>3. \E i \in Acceptable(list, kinds) : \A j \in Acceptable(list, kinds) : i <= j
  BY <1>2, LeastNatural
<1>4. /\ FirstAcceptable(list, kinds) \in Acceptable(list, kinds)
      /\ \A j \in Acceptable(list, kinds) : FirstAcceptable(list, kinds) <= j
  BY <1>3 DEF FirstAcceptable
<1>. QED
  BY <1>1, <1>4 DEF Acceptable

LEMMA FoundType ==
    ASSUME NEW M, NEW list \in Seq(M), NEW kinds, Acceptable(list, kinds) # {}
    PROVE  Found(list, kinds) \in M /\ Found(list, kinds).kind \in kinds
BY FirstAcceptableProperties DEF Found

(* Unlinking takes out one entry and keeps the others in their order.      *)
LEMMA RemoveAtType ==
    ASSUME NEW M, NEW list \in Seq(M), NEW i \in 1 .. Len(list)
    PROVE  /\ RemoveAt(list, i) \in Seq(M)
           /\ Len(RemoveAt(list, i)) = Len(list) - 1
           /\ \A j \in 1 .. Len(list) - 1 :
                  RemoveAt(list, i)[j] = IF j < i THEN list[j] ELSE list[j + 1]
<1>1. Len(list) \in Nat /\ \A j \in 1 .. Len(list) : list[j] \in M
  OBVIOUS
<1>2. /\ SubSeq(list, 1, i - 1) \in Seq(M)
      /\ Len(SubSeq(list, 1, i - 1)) = i - 1
      /\ \A j \in 1 .. i - 1 : SubSeq(list, 1, i - 1)[j] = list[j]
  <2>1. \A j \in 1 .. i - 1 : list[j] \in M
    BY <1>1
  <2>. QED
    BY <1>1, <2>1, SubSeqProperties
<1>3. /\ SubSeq(list, i + 1, Len(list)) \in Seq(M)
      /\ Len(SubSeq(list, i + 1, Len(list))) = Len(list) - i
      /\ \A j \in 1 .. Len(list) - i :
             SubSeq(list, i + 1, Len(list))[j] = list[i + j]
  <2>1. \A j \in i + 1 .. Len(list) : list[j] \in M
    BY <1>1
  <2>2. /\ SubSeq(list, i + 1, Len(list)) \in Seq(M)
        /\ Len(SubSeq(list, i + 1, Len(list)))
              = IF i + 1 <= Len(list) THEN Len(list) - (i + 1) + 1 ELSE 0
        /\ \A j \in 1 .. Len(list) - (i + 1) + 1 :
              SubSeq(list, i + 1, Len(list))[j] = list[(i + 1) + j - 1]
    <3>1. i + 1 \in Int /\ Len(list) \in Int
      BY <1>1
    <3>. QED
      BY <2>1, <3>1, SubSeqProperties
  <2>. QED
    BY <1>1, <2>2
<1>. DEFINE front == SubSeq(list, 1, i - 1)
             back == SubSeq(list, i + 1, Len(list))
<1>4. RemoveAt(list, i) = front \o back
  BY DEF RemoveAt
<1>5. /\ front \o back \in Seq(M)
      /\ Len(front \o back) = Len(front) + Len(back)
      /\ \A j \in 1 .. Len(front) + Len(back) :
             (front \o back)[j] = IF j <= Len(front) THEN front[j]
                                                     ELSE back[j - Len(front)]
  <2>. HIDE DEF front, back
  <2>. front \in Seq(M) /\ back \in Seq(M)
    BY <1>2, <1>3 DEF front, back
  <2>. QED
    BY ConcatProperties
<1>6. Len(front) = i - 1 /\ Len(back) = Len(list) - i
  BY <1>2, <1>3
<1>7. ASSUME NEW j \in 1 .. Len(list) - 1
      PROVE  (front \o back)[j] = IF j < i THEN list[j] ELSE list[j + 1]
  <2>. HIDE DEF front, back
  <2>1. j \in 1 .. Len(front) + Len(back)
    BY <1>1, <1>6
  <2>2. CASE j < i
    BY <1>1, <1>2, <1>5, <1>6, <2>1, <2>2 DEF front
  <2>3. CASE ~ (j < i)
    <3>1. j - (i - 1) \in 1 .. Len(list) - i /\ i + (j - (i - 1)) = j + 1
      BY <1>1, <2>3
    <3>2. (front \o back)[j] = back[j - (i - 1)]
      BY <1>1, <1>5, <1>6, <2>1, <2>3
    <3>3. back[j - (i - 1)] = list[j + 1]
      BY <1>3, <3>1 DEF back
    <3>. QED
      BY <2>3, <3>2, <3>3
  <2>. QED
    BY <2>2, <2>3
<1>8. Len(front) + Len(back) = Len(list) - 1
  <2>. HIDE DEF front, back
  <2>. QED
    BY <1>1, <1>6
<1>. QED
  BY <1>4, <1>5, <1>7, <1>8

LEMMA UnlinkedType ==
    ASSUME NEW M, NEW list \in Seq(M), NEW kinds, Acceptable(list, kinds) # {}
    PROVE  /\ Unlinked(list, kinds) \in Seq(M)
           /\ Len(Unlinked(list, kinds)) = Len(list) - 1
BY FirstAcceptableProperties, RemoveAtType DEF Unlinked

-----------------------------------------------------------------------------
(* Counting messages.  Some mailboxes, or what some threads have still to  *)
(* send, are a function q to sequences; a set P of pairs says which of     *)
(* these messages count, and where.  The lemmas say how the count changes  *)
(* when a message is appended, unlinked, or sent, and what a count of zero *)
(* or one means.  With them an invariant on messages becomes one on        *)
(* numbers, whatever positions the messages move to.                       *)

PlacesAt(q, P, r) == {<<r, i>> : i \in {j \in DOMAIN q[r] : <<r, q[r][j]>> \in P}}
Lists(q, R, M) == IsFiniteSet(R) /\ q \in [R -> Seq(M)]

Places(q, P) == UNION {PlacesAt(q, P, r) : r \in DOMAIN q}

Count(q, P) == Cardinality(Places(q, P))

(* What one message adds to the count. *)
Unit(message, P) == IF message \in P THEN 1 ELSE 0

LEMMA InPlaces ==
    ASSUME NEW q, NEW P, NEW p
    PROVE  p \in Places(q, P) <=>
              \E r \in DOMAIN q : \E i \in DOMAIN q[r] : p = <<r, i>> /\ <<r, q[r][i]>> \in P
<1>1. p \in Places(q, P) <=> \E r \in DOMAIN q : p \in PlacesAt(q, P, r)
  BY DEF Places
<1>2. ASSUME NEW r
      PROVE  p \in PlacesAt(q, P, r) <=>
                \E i \in DOMAIN q[r] : p = <<r, i>> /\ <<r, q[r][i]>> \in P
  BY DEF PlacesAt
<1>. QED
  BY <1>1, <1>2

(* The same with the parts of the pair.                                    *)
LEMMA PairInPlaces ==
    ASSUME NEW q, NEW P, NEW r, NEW i
    PROVE  <<r, i>> \in Places(q, P) <=>
              r \in DOMAIN q /\ i \in DOMAIN q[r] /\ <<r, q[r][i]>> \in P
<1>1. \A s, j : <<r, i>> = <<s, j>> <=> r = s /\ i = j
  OBVIOUS
<1>2. <<r, i>> \in Places(q, P) <=>
         \E s \in DOMAIN q : \E j \in DOMAIN q[s] : r = s /\ i = j /\ <<s, q[s][j]>> \in P
  <2>1. ASSUME <<r, i>> \in Places(q, P)
        PROVE  \E s \in DOMAIN q : \E j \in DOMAIN q[s] :
                  r = s /\ i = j /\ <<s, q[s][j]>> \in P
    <3>1. PICK s \in DOMAIN q :
             \E j \in DOMAIN q[s] : <<r, i>> = <<s, j>> /\ <<s, q[s][j]>> \in P
      BY <2>1, InPlaces, Zenon
    <3>. QED
      BY <3>1, <1>1
  <2>2. ASSUME \E s \in DOMAIN q : \E j \in DOMAIN q[s] :
                  r = s /\ i = j /\ <<s, q[s][j]>> \in P
        PROVE  <<r, i>> \in Places(q, P)
    BY <2>2, InPlaces, Zenon
  <2>. QED
    BY <2>1, <2>2
<1>. QED
  BY <1>2, Zenon

LEMMA PlacesArePairs ==
    ASSUME NEW q, NEW P, NEW p \in Places(q, P)
    PROVE  p = <<p[1], p[2]>> /\ p[1] \in DOMAIN q /\ p[2] \in DOMAIN q[p[1]]
               /\ <<p[1], q[p[1]][p[2]]>> \in P
<1>1. PICK r \in DOMAIN q : \E i \in DOMAIN q[r] : p = <<r, i>> /\ <<r, q[r][i]>> \in P
  BY InPlaces, Zenon
<1>2. PICK i \in DOMAIN q[r] : p = <<r, i>> /\ <<r, q[r][i]>> \in P
  BY <1>1
<1>3. p[1] = r /\ p[2] = i
  BY <1>2
<1>. QED
  BY <1>2, <1>3

(* The places are finitely many, so that they can be counted.              *)
LEMMA PlacesAreFinite ==
    ASSUME NEW R, NEW M, NEW q, Lists(q, R, M), NEW P
    PROVE  IsFiniteSet(Places(q, P)) /\ Count(q, P) \in Nat
<1>q. IsFiniteSet(R) /\ q \in [R -> Seq(M)] /\ DOMAIN q = R
  BY DEF Lists
<1>. DEFINE row == [r \in R |-> {r} \X (1 .. Len(q[r]))]
            rows == {row[r] : r \in R}
<1>1. row \in Surjection(R, rows)
  <2>1. row \in [R -> rows]
    OBVIOUS
  <2>2. \A t \in rows : \E s \in R : row[s] = t
    OBVIOUS
  <2>. HIDE DEF row, rows
  <2>. QED
    BY <2>1, <2>2, Fun_IsSurj
<1>2. IsFiniteSet(rows)
  <2>. HIDE DEF row, rows
  <2>. QED
    BY <1>q, <1>1, FS_Surjection
<1>3. \A T \in rows : IsFiniteSet(T)
  <2>. SUFFICES ASSUME NEW r \in R PROVE IsFiniteSet({r} \X (1 .. Len(q[r])))
    OBVIOUS
  <2>1. IsFiniteSet({r})
    BY FS_Singleton
  <2>2. IsFiniteSet(1 .. Len(q[r]))
    <3>1. Len(q[r]) \in Int /\ 1 \in Int
      BY <1>q
    <3>. QED
      BY <3>1, FS_Interval
  <2>. QED
    BY <2>1, <2>2, FS_Product
<1>4. IsFiniteSet(UNION rows)
  <2>. HIDE DEF rows
  <2>. QED
    BY <1>2, <1>3, FS_UNION
<1>5. Places(q, P) \subseteq UNION rows
  <2>. SUFFICES ASSUME NEW p \in Places(q, P) PROVE p \in UNION rows
    OBVIOUS
  <2>1. p = <<p[1], p[2]>> /\ p[1] \in R /\ p[2] \in DOMAIN q[p[1]]
    BY <1>q, PlacesArePairs
  <2>2. p \in row[p[1]]
    BY <1>q, <2>1
  <2>. QED
    BY <2>1, <2>2
<1>6. IsFiniteSet(Places(q, P))
  <2>. HIDE DEF rows
  <2>. QED
    BY <1>4, <1>5, FS_Subset
<1>. QED
  BY <1>6, FS_CardinalityType DEF Count

(* A count of zero means that there is no such message.                    *)
LEMMA CountIsZero ==
    ASSUME NEW R, NEW M, NEW q, Lists(q, R, M), NEW P
    PROVE  Count(q, P) = 0 <=> \A r \in R : \A i \in DOMAIN q[r] : <<r, q[r][i]>> \notin P
<1>q. IsFiniteSet(R) /\ q \in [R -> Seq(M)] /\ DOMAIN q = R
  BY DEF Lists
<1>1. Count(q, P) = 0 <=> Places(q, P) = {}
  BY PlacesAreFinite, FS_EmptySet DEF Count
<1>2. Places(q, P) = {} <=> \A r \in R : \A i \in DOMAIN q[r] : <<r, q[r][i]>> \notin P
  <2>1. DOMAIN q = R
    BY <1>q
  <2>2. ASSUME NEW p \in Places(q, P)
        PROVE  \E r \in R : \E i \in DOMAIN q[r] : <<r, q[r][i]>> \in P
    BY <2>1, PlacesArePairs
  <2>3. ASSUME NEW r \in R, NEW i \in DOMAIN q[r], <<r, q[r][i]>> \in P
        PROVE  Places(q, P) # {}
    BY <2>1, <2>3, PairInPlaces
  <2>. QED
    BY <2>2, <2>3
<1>. QED
  BY <1>1, <1>2

(* A message that counts makes the count positive.                         *)
LEMMA CountIsPositive ==
    ASSUME NEW R, NEW M, NEW q, Lists(q, R, M), NEW P,
           NEW r \in R, NEW i \in DOMAIN q[r], <<r, q[r][i]>> \in P
    PROVE  Count(q, P) > 0
BY CountIsZero, PlacesAreFinite

(* With a count of one there is no second such message.                    *)
LEMMA CountIsOne ==
    ASSUME NEW R, NEW M, NEW q, Lists(q, R, M), NEW P, Count(q, P) <= 1,
           NEW r \in R, NEW i \in DOMAIN q[r], <<r, q[r][i]>> \in P,
           NEW s \in R, NEW j \in DOMAIN q[s], <<s, q[s][j]>> \in P
    PROVE  r = s /\ i = j
<1>q. IsFiniteSet(R) /\ q \in [R -> Seq(M)] /\ DOMAIN q = R
  BY DEF Lists
<1>1. <<r, i>> \in Places(q, P) /\ <<s, j>> \in Places(q, P)
  BY <1>q, PairInPlaces
<1>2. IsFiniteSet(Places(q, P)) /\ Cardinality(Places(q, P)) \in Nat
  BY PlacesAreFinite DEF Count
<1>3. Cardinality(Places(q, P)) = 1
  BY <1>1, <1>2, FS_EmptySet DEF Count
<1>4. \E x : Places(q, P) = {x}
  BY <1>2, <1>3, FS_Singleton
<1>5. <<r, i>> = <<s, j>>
  BY <1>1, <1>4
<1>. QED
  BY <1>5

-----------------------------------------------------------------------------
(* Only one of the sequences changes.                                      *)
ChangedAt(p, q, r, list) == p = [q EXCEPT ![r] = list]

(* How the steps of a program change the count.                            *)

(* Two sets of places that correspond to each other are equally many.      *)
LEMMA SameCount ==
    ASSUME NEW S, IsFiniteSet(S), NEW T, NEW f \in [S -> T],
           \A x, y \in S : f[x] = f[y] => x = y,
           \A t \in T : \E x \in S : f[x] = t
    PROVE  IsFiniteSet(T) /\ Cardinality(T) = Cardinality(S)
<1>1. f \in Bijection(S, T)
  BY Fun_IsBij
<1>2. ExistsBijection(S, T)
  BY <1>1 DEF ExistsBijection
<1>. QED
  BY <1>2, FS_Bijection

(* A message is delivered (agent_send).                                    *)
LEMMA CountAppend ==
    ASSUME NEW R, NEW M, NEW q, Lists(q, R, M), NEW P,
           NEW r \in R, NEW m \in M,
           NEW p, ChangedAt(p, q, r, Append(q[r], m))
    PROVE  /\ Lists(p, R, M)
           /\ Count(p, P) = Count(q, P) + Unit(<<r, m>>, P)
<1>q. IsFiniteSet(R) /\ q \in [R -> Seq(M)] /\ DOMAIN q = R
  BY DEF Lists
<1>. DEFINE n == Len(q[r]) + 1
<1>1. /\ p \in [R -> Seq(M)]
      /\ DOMAIN p = R /\ DOMAIN q = R
      /\ DOMAIN q[r] = 1 .. n - 1 /\ DOMAIN p[r] = 1 .. n
      /\ n \in Nat /\ n >= 1
      /\ p[r][n] = m
      /\ \A i \in 1 .. n - 1 : p[r][i] = q[r][i]
      /\ \A s \in R : s # r => p[s] = q[s]
  BY <1>q DEF ChangedAt
<1>2. ASSUME NEW s \in R, NEW i
      PROVE  <<s, i>> \in Places(p, P) <=>
                <<s, i>> \in Places(q, P) \/ (s = r /\ i = n /\ <<r, m>> \in P)
  <2>. HIDE DEF n
  <2>1. <<s, i>> \in Places(p, P) <=> i \in DOMAIN p[s] /\ <<s, p[s][i]>> \in P
    BY <1>1, PairInPlaces
  <2>2. <<s, i>> \in Places(q, P) <=> i \in DOMAIN q[s] /\ <<s, q[s][i]>> \in P
    BY <1>1, PairInPlaces
  <2>3. CASE s # r
    BY <1>1, <2>1, <2>2, <2>3, Zenon
  <2>7. \A j : j \in 1 .. n <=> j \in 1 .. n - 1 \/ j = n
    BY <1>1
  <2>8. n \notin 1 .. n - 1
    BY <1>1
  <2>4. CASE s = r /\ i \in 1 .. n - 1
    <3>1. i \in DOMAIN p[r] /\ i \in DOMAIN q[r] /\ p[r][i] = q[r][i] /\ i # n
      BY <1>1, <2>4, <2>7, <2>8
    <3>. QED
      BY <2>1, <2>2, <2>4, <3>1, Zenon
  <2>5. CASE s = r /\ i = n
    <3>1. i \in DOMAIN p[r] /\ i \notin DOMAIN q[r] /\ p[r][i] = m
      BY <1>1, <2>5, <2>7, <2>8
    <3>. QED
      BY <2>1, <2>2, <2>5, <3>1, Zenon
  <2>6. CASE s = r /\ i \notin 1 .. n
    <3>1. i \notin DOMAIN p[r] /\ i \notin DOMAIN q[r] /\ i # n
      BY <1>1, <2>6, <2>7
    <3>. QED
      BY <2>1, <2>2, <2>6, <3>1, Zenon
  <2>. QED
    BY <2>3, <2>4, <2>5, <2>6, <2>7
<1>3. <<r, n>> \notin Places(q, P)
  <2>1. n \notin 1 .. n - 1
    BY <1>1
  <2>. QED
    BY <1>1, <2>1, PairInPlaces
<1>. HIDE DEF n
<1>4. IsFiniteSet(Places(q, P)) /\ Cardinality(Places(q, P)) \in Nat
  BY PlacesAreFinite DEF Count
<1>5. \A x \in Places(q, P) : x = <<x[1], x[2]>> /\ x[1] \in R
  BY <1>1, PlacesArePairs
<1>6. \A x \in Places(p, P) : x = <<x[1], x[2]>> /\ x[1] \in R
  BY <1>1, PlacesArePairs
<1>7. CASE <<r, m>> \in P
  <2>1. Places(p, P) = Places(q, P) \union {<<r, n>>}
    BY <1>2, <1>5, <1>6, <1>7
  <2>. QED
    BY <1>q, <1>1, <1>3, <1>4, <1>7, <2>1, FS_AddElement DEF Count, Unit, Lists
<1>8. CASE <<r, m>> \notin P
  <2>1. \A s \in R : \A i : <<s, i>> \in Places(p, P) <=> <<s, i>> \in Places(q, P)
    BY <1>2, <1>8, Zenon
  <2>2. Places(p, P) \subseteq Places(q, P)
    BY <2>1, <1>6
  <2>3. Places(q, P) \subseteq Places(p, P)
    BY <2>1, <1>5
  <2>4. Count(p, P) = Count(q, P) /\ Count(q, P) \in Nat
    BY <1>4, <2>2, <2>3 DEF Count
  <2>. QED
    BY <1>q, <1>1, <1>8, <2>4 DEF Unit, Lists
<1>. QED
  BY <1>7, <1>8

(* The list with its k-th entry taken out.                                 *)
Without(list, k, all) ==
    /\ k \in 1 .. Len(all)
    /\ list = [j \in 1 .. Len(all) - 1 |-> IF j < k THEN all[j] ELSE all[j + 1]]

(* A message is unlinked (agent_recv_filter).                              *)
LEMMA CountRemove ==
    ASSUME NEW R, NEW M, NEW q, Lists(q, R, M), NEW P,
           NEW r \in R, NEW k, NEW list, Without(list, k, q[r]),
           NEW p, ChangedAt(p, q, r, list)
    PROVE  /\ Lists(p, R, M)
           /\ Count(p, P) = Count(q, P) - Unit(<<r, q[r][k]>>, P)
<1>q. IsFiniteSet(R) /\ q \in [R -> Seq(M)] /\ DOMAIN q = R
  BY DEF Lists
<1>. DEFINE n == Len(q[r])
            old == Places(q, P) \ {<<r, k>>}
            f == [x \in old |-> IF x[1] = r /\ x[2] > k THEN <<r, x[2] - 1>> ELSE x]
<1>0. /\ Len(list) = Len(q[r]) - 1 /\ list \in Seq(M) /\ k \in 1 .. Len(q[r])
      /\ \A j \in 1 .. Len(q[r]) - 1 : list[j] = IF j < k THEN q[r][j] ELSE q[r][j + 1]
  <2>1. /\ list = [j \in 1 .. Len(q[r]) - 1 |-> IF j < k THEN q[r][j] ELSE q[r][j + 1]]
        /\ k \in 1 .. Len(q[r])
    BY DEF Without
  <2>2. /\ Len(q[r]) \in Nat /\ Len(q[r]) >= 1
        /\ \A j \in 1 .. Len(q[r]) : q[r][j] \in M
    BY <1>q, <2>1
  <2>3. /\ list \in [1 .. Len(q[r]) - 1 -> M] /\ Len(q[r]) - 1 \in Nat
        /\ DOMAIN list = 1 .. Len(q[r]) - 1
    BY <2>1, <2>2
  <2>4. list \in Seq(M) /\ Len(list) = Len(q[r]) - 1
    BY <2>3
  <2>. QED
    BY <2>1, <2>4
<1>1. /\ p \in [R -> Seq(M)]
      /\ DOMAIN p = R /\ DOMAIN q = R
      /\ DOMAIN q[r] = 1 .. n /\ DOMAIN list = 1 .. n - 1
      /\ n \in Nat /\ k \in 1 .. n
      /\ p[r] = list
      /\ \A s \in R : s # r => p[s] = q[s]
  BY <1>q, <1>0 DEF ChangedAt
<1>a. ASSUME NEW s \in R PROVE DOMAIN q[s] \subseteq Nat
  BY <1>q
<1>2. \A x \in old : /\ x = <<x[1], x[2]>> /\ x[1] \in R
                     /\ x[2] \in DOMAIN q[x[1]] /\ x[2] \in Nat
                     /\ <<x[1], q[x[1]][x[2]]>> \in P
                     /\ x[1] = r => x[2] # k
  <2>. SUFFICES ASSUME NEW x \in old
                PROVE  /\ x = <<x[1], x[2]>> /\ x[1] \in R
                       /\ x[2] \in DOMAIN q[x[1]] /\ x[2] \in Nat
                       /\ <<x[1], q[x[1]][x[2]]>> \in P
                       /\ x[1] = r => x[2] # k
    BY Zenon
  <2>1. x \in Places(q, P) /\ x # <<r, k>>
    OBVIOUS
  <2>2. /\ x = <<x[1], x[2]>> /\ x[1] \in R
        /\ x[2] \in DOMAIN q[x[1]]
        /\ <<x[1], q[x[1]][x[2]]>> \in P
    <3>. HIDE DEF old, n
    <3>1. DOMAIN q = R
      BY <1>1
    <3>. QED
      BY <2>1, <3>1, PlacesArePairs
  <2>3. x[2] \in Nat
    BY <1>a, <2>2
  <2>. QED
    BY <2>1, <2>2, <2>3
<1>3. ASSUME NEW x \in old PROVE f[x] \in Places(p, P)
  <2>0. /\ x = <<x[1], x[2]>> /\ x[1] \in R
        /\ x[2] \in DOMAIN q[x[1]] /\ x[2] \in Nat
        /\ <<x[1], q[x[1]][x[2]]>> \in P
        /\ x[1] = r => x[2] # k
    BY <1>2
  <2>. HIDE DEF n, old
  <2>1. CASE x[1] # r
    <3>1. f[x] = <<x[1], x[2]>>
      BY <2>0, <2>1
    <3>2. x[2] \in DOMAIN p[x[1]] /\ <<x[1], p[x[1]][x[2]]>> \in P
      BY <1>1, <2>0, <2>1
    <3>. QED
      BY <1>1, <2>0, <3>1, <3>2, PairInPlaces
  <2>2. CASE x[1] = r /\ x[2] > k
    <3>1. f[x] = <<r, x[2] - 1>>
      BY <2>2
    <3>2. x[2] - 1 \in 1 .. n - 1 /\ ~ (x[2] - 1 < k)
      BY <1>1, <2>0, <2>2
    <3>3. list[x[2] - 1] = q[r][x[2]]
      <4>1. list[x[2] - 1] = q[r][(x[2] - 1) + 1] /\ (x[2] - 1) + 1 = x[2]
        BY <1>0, <3>2, <1>1, <2>0 DEF n
      <4>. QED
        BY <4>1
    <3>4. r \in DOMAIN p /\ x[2] - 1 \in DOMAIN p[r] /\ <<r, p[r][x[2] - 1]>> \in P
      BY <1>1, <2>0, <2>2, <3>2, <3>3
    <3>. QED
      BY <3>1, <3>4, PairInPlaces
  <2>3. CASE x[1] = r /\ x[2] < k
    <3>1. f[x] = <<r, x[2]>>
      BY <1>1, <2>0, <2>3
    <3>2. x[2] \in 1 .. n - 1
      BY <1>1, <2>0, <2>3
    <3>3. list[x[2]] = q[r][x[2]]
      BY <1>0, <3>2, <2>3 DEF n
    <3>4. r \in DOMAIN p /\ x[2] \in DOMAIN p[r] /\ <<r, p[r][x[2]]>> \in P
      BY <1>1, <2>0, <2>3, <3>2, <3>3
    <3>. QED
      BY <3>1, <3>4, PairInPlaces
  <2>. QED
    BY <1>1, <2>0, <2>1, <2>2, <2>3
<1>4. ASSUME NEW x \in old, NEW y \in old, f[x] = f[y] PROVE x = y
  <2>0. /\ x = <<x[1], x[2]>> /\ y = <<y[1], y[2]>> /\ x[2] \in Nat /\ y[2] \in Nat
        /\ x[1] = r => x[2] # k
        /\ y[1] = r => y[2] # k
    BY <1>2
  <2>. HIDE DEF old
  <2>1. f[x] = IF x[1] = r /\ x[2] > k THEN <<r, x[2] - 1>> ELSE <<x[1], x[2]>>
    BY <2>0
  <2>2. f[y] = IF y[1] = r /\ y[2] > k THEN <<r, y[2] - 1>> ELSE <<y[1], y[2]>>
    BY <2>0
  <2>3. x[1] = y[1]
    BY <1>4, <2>1, <2>2
  <2>4. x[2] = y[2]
    BY <1>1, <1>4, <2>0, <2>1, <2>2, <2>3
  <2>. QED
    BY <2>0, <2>3, <2>4
<1>5. ASSUME NEW t \in Places(p, P) PROVE \E x \in old : f[x] = t
  <2>0. t = <<t[1], t[2]>> /\ t[1] \in R /\ t[2] \in DOMAIN p[t[1]]
            /\ <<t[1], p[t[1]][t[2]]>> \in P
    <3>. QED
      BY <1>1, PlacesArePairs
  <2>1. CASE t[1] # r
    <3>1. <<t[1], t[2]>> \in Places(q, P)
      BY <1>1, <2>0, <2>1, PairInPlaces
    <3>. QED
      BY <2>0, <2>1, <3>1
  <2>2. CASE t[1] = r /\ t[2] < k
    <3>1. t[2] \in 1 .. n - 1 /\ list[t[2]] = q[r][t[2]]
      BY <1>0, <1>1, <2>0, <2>2
    <3>a. t[2] \in 1 .. n
      BY <1>1, <3>1
    <3>b. p[t[1]][t[2]] = q[r][t[2]]
      BY <1>1, <2>2, <3>1
    <3>0. t[2] \in 1 .. n /\ <<r, q[r][t[2]]>> \in P
      BY <2>0, <2>2, <3>a, <3>b
    <3>2. <<r, t[2]>> \in Places(q, P)
      BY <1>1, <3>0, PairInPlaces
    <3>3. <<r, t[2]>> # <<r, k>>
      BY <2>2, <3>1, <1>1
    <3>4. ~ (<<r, t[2]>>[2] > k)
      BY <2>2, <3>1, <1>1
    <3>. QED
      BY <2>0, <2>2, <3>2, <3>3, <3>4
  <2>3. CASE t[1] = r /\ ~ (t[2] < k)
    <3>1. t[2] \in 1 .. n - 1 /\ list[t[2]] = q[r][t[2] + 1] /\ t[2] + 1 \in 1 .. n
      BY <1>0, <1>1, <2>0, <2>3
    <3>2. <<r, t[2] + 1>> \in Places(q, P)
      BY <1>1, <2>0, <2>3, <3>1, PairInPlaces
    <3>3. t[2] + 1 # k /\ t[2] + 1 > k /\ (t[2] + 1) - 1 = t[2]
      BY <1>1, <2>3, <3>1
    <3>4. <<r, t[2] + 1>> \in old
      BY <3>2, <3>3
    <3>5. f[<<r, t[2] + 1>>] = <<r, t[2]>>
      BY <3>3, <3>4
    <3>. QED
      BY <2>0, <2>3, <3>4, <3>5
  <2>. QED
    BY <2>1, <2>2, <2>3
<1>6. IsFiniteSet(Places(q, P)) /\ Cardinality(Places(q, P)) \in Nat
  BY PlacesAreFinite DEF Count
<1>7. f \in [old -> Places(p, P)]
  BY <1>3
<1>8. /\ IsFiniteSet(old)
      /\ Cardinality(old) = IF <<r, k>> \in Places(q, P) THEN Cardinality(Places(q, P)) - 1
                                                         ELSE Cardinality(Places(q, P))
  BY <1>6, FS_RemoveElement
<1>9. Cardinality(Places(p, P)) = Cardinality(old)
  <2>. HIDE DEF f, old
  <2>. QED
    BY <1>4, <1>5, <1>7, <1>8, SameCount
<1>10. <<r, k>> \in Places(q, P) <=> <<r, q[r][k]>> \in P
  BY <1>1, PairInPlaces
<1>. QED
  BY <1>q, <1>1, <1>6, <1>8, <1>9, <1>10 DEF Count, Unit, Lists

LEMMA CountUnlinked ==
    ASSUME NEW R, NEW M, NEW q, Lists(q, R, M), NEW P,
           NEW r \in R, NEW kinds, Acceptable(q[r], kinds) # {},
           NEW p, ChangedAt(p, q, r, Unlinked(q[r], kinds))
    PROVE  /\ Lists(p, R, M)
           /\ Count(p, P)
                 = Count(q, P) - Unit(<<r, Found(q[r], kinds)>>, P)
<1>q. IsFiniteSet(R) /\ q \in [R -> Seq(M)] /\ DOMAIN q = R
  BY DEF Lists
<1>. DEFINE list == Unlinked(q[r], kinds)
            k == FirstAcceptable(q[r], kinds)
<1>0. q[r] \in Seq(M)
  BY <1>q
<1>1. k \in 1 .. Len(q[r])
  BY <1>0, FirstAcceptableProperties
<1>2. Without(list, k, q[r])
  <2>1. /\ list \in Seq(M) /\ Len(list) = Len(q[r]) - 1
        /\ \A j \in 1 .. Len(q[r]) - 1 : list[j] = IF j < k THEN q[r][j] ELSE q[r][j + 1]
    BY <1>0, <1>1, RemoveAtType DEF Unlinked
  <2>. HIDE DEF list, k
  <2>2. list = [j \in 1 .. Len(q[r]) - 1 |-> IF j < k THEN q[r][j] ELSE q[r][j + 1]]
    BY <2>1
  <2>. QED
    BY <1>1, <2>2 DEF Without
<1>3. Found(q[r], kinds) = q[r][k]
  BY DEF Found
<1>4. ChangedAt(p, q, r, list)
  OBVIOUS
<1>. HIDE DEF list, k
<1>5. Lists(p, R, M) /\ Count(p, P) = Count(q, P) - Unit(<<r, q[r][k]>>, P)
  BY <1>2, <1>4, CountRemove
<1>. QED
  BY <1>3, <1>4, <1>5

(* The first message is taken.                                             *)
LEMMA CountTail ==
    ASSUME NEW R, NEW M, NEW q, Lists(q, R, M), NEW P,
           NEW r \in R, q[r] # <<>>,
           NEW p, ChangedAt(p, q, r, Tail(q[r]))
    PROVE  /\ Lists(p, R, M)
           /\ Count(p, P) = Count(q, P) - Unit(<<r, Head(q[r])>>, P)
<1>q. IsFiniteSet(R) /\ q \in [R -> Seq(M)] /\ DOMAIN q = R
  BY DEF Lists
<1>. DEFINE list == Tail(q[r])
<1>1. /\ list \in Seq(M)
      /\ Without(list, 1, q[r])
      /\ 1 \in 1 .. Len(q[r])
      /\ Head(q[r]) = q[r][1]
  <2>1. q[r] \in Seq(M) /\ q[r] # <<>>
    BY <1>q
  <2>. QED
    BY <2>1 DEF Without
<1>2. ChangedAt(p, q, r, list)
  OBVIOUS
<1>. HIDE DEF list
<1>3. Lists(p, R, M) /\ Count(p, P) = Count(q, P) - Unit(<<r, q[r][1]>>, P)
  <2>1. Without(list, 1, q[r])
    BY <1>1
  <2>. QED
    BY <1>2, <2>1, CountRemove
<1>. QED
  BY <1>1, <1>2, <1>3

(* A thread has something to send.                                         *)
Filled(p, q, r, list, M) == q[r] = <<>> /\ list \in Seq(M) /\ ChangedAt(p, q, r, list)
HowMany(list, r, P) == Cardinality({i \in DOMAIN list : <<r, list[i]>> \in P})

LEMMA CountFill ==
    ASSUME NEW R, NEW M, NEW q, Lists(q, R, M), NEW P,
           NEW r \in R, NEW list, NEW p, Filled(p, q, r, list, M)
    PROVE  /\ Lists(p, R, M)
           /\ Count(p, P)
                 = Count(q, P) + HowMany(list, r, P)
<1>q. IsFiniteSet(R) /\ q \in [R -> Seq(M)] /\ DOMAIN q = R
  BY DEF Lists
<1>l. q[r] = <<>> /\ list \in Seq(M) /\ ChangedAt(p, q, r, list)
  BY DEF Filled
<1>. DEFINE I == {i \in DOMAIN list : <<r, list[i]>> \in P}
            new == {<<r, i>> : i \in I}
            f == [i \in I |-> <<r, i>>]
<1>1. /\ p \in [R -> Seq(M)]
      /\ DOMAIN p = R /\ DOMAIN q = R
      /\ p[r] = list /\ DOMAIN q[r] = {}
      /\ \A s \in R : s # r => p[s] = q[s]
  BY <1>q, <1>l DEF ChangedAt
<1>2. ASSUME NEW s \in R, NEW i
      PROVE  <<s, i>> \in Places(p, P) <=>
                <<s, i>> \in Places(q, P) \/ (s = r /\ i \in I)
  <2>1. <<s, i>> \in Places(p, P) <=> i \in DOMAIN p[s] /\ <<s, p[s][i]>> \in P
    BY <1>1, PairInPlaces
  <2>2. <<s, i>> \in Places(q, P) <=> i \in DOMAIN q[s] /\ <<s, q[s][i]>> \in P
    BY <1>1, PairInPlaces
  <2>3. CASE s # r
    BY <1>1, <2>1, <2>2, <2>3
  <2>4. CASE s = r
    BY <1>1, <2>1, <2>2, <2>4
  <2>. QED
    BY <2>3, <2>4
<1>3. \A x \in Places(q, P) : x = <<x[1], x[2]>> /\ x[1] \in R /\ x[1] # r
  <2>. SUFFICES ASSUME NEW x \in Places(q, P)
                PROVE  x = <<x[1], x[2]>> /\ x[1] \in R /\ x[1] # r
    OBVIOUS
  <2>0. DOMAIN q = R
    BY <1>1
  <2>. HIDE DEF I, new, f
  <2>1. x = <<x[1], x[2]>> /\ x[1] \in R /\ x[2] \in DOMAIN q[x[1]]
    BY <2>0, PlacesArePairs
  <2>. QED
    BY <1>1, <2>1
<1>4. \A x \in Places(p, P) : x = <<x[1], x[2]>> /\ x[1] \in R
  <2>. HIDE DEF I, new
  <2>1. DOMAIN p = R
    BY <1>1
  <2>. QED
    BY <2>1, PlacesArePairs
<1>5. Places(p, P) = Places(q, P) \union new /\ Places(q, P) \cap new = {}
  <2>. HIDE DEF I
  <2>1. ASSUME NEW x \in new PROVE x \in Places(p, P) /\ x \notin Places(q, P)
    <3>1. PICK i \in I : x = <<r, i>>
      OBVIOUS
    <3>2. x[1] = r
      BY <3>1
    <3>. QED
      BY <1>2, <1>3, <3>1, <3>2
  <2>2. ASSUME NEW x \in Places(p, P) PROVE x \in Places(q, P) \union new
    <3>1. x = <<x[1], x[2]>> /\ x[1] \in R
      BY <1>4
    <3>. QED
      BY <1>2, <3>1
  <2>3. ASSUME NEW x \in Places(q, P) PROVE x \in Places(p, P)
    BY <1>2, <1>3
  <2>. QED
    BY <2>1, <2>2, <2>3
<1>6. IsFiniteSet(I) /\ Cardinality(I) \in Nat
  <2>1. Len(list) \in Int /\ 1 \in Int /\ DOMAIN list = 1 .. Len(list)
    BY <1>l
  <2>2. IsFiniteSet(DOMAIN list)
    BY <2>1, FS_Interval
  <2>3. I \subseteq DOMAIN list
    OBVIOUS
  <2>. HIDE DEF I
  <2>. QED
    BY <2>2, <2>3, FS_Subset, FS_CardinalityType
<1>7. IsFiniteSet(new) /\ Cardinality(new) = Cardinality(I)
  <2>1. f \in [I -> new]
    OBVIOUS
  <2>2. \A x, y \in I : f[x] = f[y] => x = y
    OBVIOUS
  <2>3. \A t \in new : \E x \in I : f[x] = t
    OBVIOUS
  <2>. HIDE DEF f, new, I
  <2>. QED
    BY <1>6, <2>1, <2>2, <2>3, SameCount
<1>8. IsFiniteSet(Places(q, P)) /\ Cardinality(Places(q, P)) \in Nat
  BY PlacesAreFinite DEF Count
<1>9. Cardinality(Places(q, P) \union new) = Cardinality(Places(q, P)) + Cardinality(I)
  <2>. HIDE DEF new, I
  <2>1. Cardinality(Places(q, P) \cap new) = 0
    BY <1>5, FS_EmptySet
  <2>2. Cardinality(Places(q, P) \union new)
           = Cardinality(Places(q, P)) + Cardinality(new) - Cardinality(Places(q, P) \cap new)
    BY <1>7, <1>8, FS_Union
  <2>. QED
    BY <1>6, <1>7, <1>8, <2>1, <2>2
<1>. QED
  BY <1>q, <1>1, <1>5, <1>9 DEF Count, Lists, HowMany

(* A message that does not count goes to some of the mailboxes at once.    *)
Spread(p, q, S, m) == p = [r \in DOMAIN q |-> IF r \in S THEN Append(q[r], m) ELSE q[r]]

LEMMA CountSpread ==
    ASSUME NEW R, NEW M, NEW q, Lists(q, R, M), NEW P,
           NEW S, NEW m \in M, \A r : <<r, m>> \notin P,
           NEW p, Spread(p, q, S, m)
    PROVE  Lists(p, R, M) /\ Count(p, P) = Count(q, P)
<1>q. IsFiniteSet(R) /\ q \in [R -> Seq(M)] /\ DOMAIN q = R
  BY DEF Lists
<1>1. ASSUME NEW r \in R
      PROVE  /\ p[r] \in Seq(M)
             /\ \A i : i \in DOMAIN p[r] /\ <<r, p[r][i]>> \in P
                          <=> i \in DOMAIN q[r] /\ <<r, q[r][i]>> \in P
  <2>1. p[r] = IF r \in S THEN Append(q[r], m) ELSE q[r]
    BY <1>q DEF Spread
  <2>2. q[r] \in Seq(M)
    BY <1>q
  <2>3. CASE r \notin S
    BY <2>1, <2>2, <2>3
  <2>4. CASE r \in S
    <3>1. p[r] = Append(q[r], m)
      BY <2>1, <2>4
    <3>2. p[r] \in Seq(M) /\ Len(p[r]) = Len(q[r]) + 1 /\ p[r][Len(q[r]) + 1] = m
      BY <2>2, <3>1
    <3>3. \A i \in 1 .. Len(q[r]) : p[r][i] = q[r][i]
      BY <2>2, <3>1
    <3>4. DOMAIN p[r] = 1 .. Len(q[r]) + 1 /\ DOMAIN q[r] = 1 .. Len(q[r]) /\ Len(q[r]) \in Nat
      BY <2>2, <3>2
    <3>5. \A i \in DOMAIN p[r] : i \in DOMAIN q[r] \/ i = Len(q[r]) + 1
      BY <3>4
    <3>6. DOMAIN q[r] \subseteq DOMAIN p[r]
      BY <3>4
    <3>7. <<r, m>> \notin P
      OBVIOUS
    <3>. QED
      BY <3>2, <3>3, <3>4, <3>5, <3>6, <3>7
  <2>. QED
    BY <2>3, <2>4
<1>2. DOMAIN p = R /\ p \in [R -> Seq(M)]
  BY <1>q, <1>1 DEF Spread
<1>3. ASSUME NEW r \in R, NEW i PROVE <<r, i>> \in Places(p, P) <=> <<r, i>> \in Places(q, P)
  <2>1. <<r, i>> \in Places(p, P) <=> i \in DOMAIN p[r] /\ <<r, p[r][i]>> \in P
    BY <1>2, PairInPlaces
  <2>2. <<r, i>> \in Places(q, P) <=> i \in DOMAIN q[r] /\ <<r, q[r][i]>> \in P
    BY <1>q, PairInPlaces
  <2>. QED
    BY <1>1, <2>1, <2>2
<1>4. \A x \in Places(p, P) : x = <<x[1], x[2]>> /\ x[1] \in R
  BY <1>2, PlacesArePairs
<1>5. \A x \in Places(q, P) : x = <<x[1], x[2]>> /\ x[1] \in R
  BY <1>q, PlacesArePairs
<1>6. Places(p, P) = Places(q, P)
  BY <1>3, <1>4, <1>5
<1>. QED
  BY <1>q, <1>2, <1>6 DEF Count, Lists
=============================================================================
