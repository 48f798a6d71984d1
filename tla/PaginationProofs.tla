-------------------------- MODULE PaginationProofs --------------------------
(***************************************************************************)
(* Proofs about Pagination, for any items, page size and number of changes.*)
(***************************************************************************)
EXTENDS Pagination, SequenceTheorems, TLAPS

\* Inserting at position i shifts what was at i and behind it by one.
LEMMA InsertAtFacts ==
    ASSUME list \in Seq(Items), NEW x \in Items, NEW i \in 1..Len(list) + 1
    PROVE  /\ InsertAt(list, i, x) \in Seq(Items)
           /\ Len(InsertAt(list, i, x)) = Len(list) + 1
           /\ \A j \in 1..Len(list) + 1 :
                  InsertAt(list, i, x)[j] =
                      IF j < i THEN list[j] ELSE IF j = i THEN x ELSE list[j - 1]
  <1> DEFINE front == SubSeq(list, 1, i - 1)
             back  == SubSeq(list, i, Len(list))
             mid   == front \o <<x>>
  <1>1. /\ front \in Seq(Items)
        /\ Len(front) = i - 1
        /\ \A j \in 1..i - 1 : front[j] = list[j]
      OBVIOUS
  <1>2. /\ back \in Seq(Items)
        /\ Len(back) = Len(list) - i + 1
        /\ \A j \in 1..Len(list) - i + 1 : back[j] = list[i + j - 1]
      OBVIOUS
  <1> HIDE DEF front, back
  <1>3. /\ mid \in Seq(Items)
        /\ Len(mid) = i
        /\ \A j \in 1..i : mid[j] = IF j < i THEN list[j] ELSE x
      BY <1>1
  <1> HIDE DEF mid
  <1>4. /\ mid \o back \in Seq(Items)
        /\ Len(mid \o back) = Len(list) + 1
        /\ \A j \in 1..Len(list) + 1 :
               (mid \o back)[j] = IF j <= i THEN mid[j] ELSE back[j - i]
    <2>1. /\ mid \o back \in Seq(Items)
          /\ Len(mid \o back) = Len(mid) + Len(back)
          /\ \A j \in 1..Len(mid) + Len(back) :
                 (mid \o back)[j] = IF j <= Len(mid) THEN mid[j] ELSE back[j - Len(mid)]
        BY <1>2, <1>3, ConcatProperties, Zenon
    <2>2. Len(mid) + Len(back) = Len(list) + 1
        BY <1>2, <1>3
    <2> QED
        BY <1>3, <2>1, <2>2
  <1>5. \A j \in 1..Len(list) + 1 : j > i => back[j - i] = list[j - 1]
      BY <1>2
  <1>6. InsertAt(list, i, x) = mid \o back
      BY DEF InsertAt, mid, front, back
  <1> QED
      BY <1>3, <1>4, <1>5, <1>6

\* Removing position i shifts what was behind it back by one.
LEMMA RemoveAtFacts ==
    ASSUME list \in Seq(Items), NEW i \in 1..Len(list)
    PROVE  /\ RemoveAt(list, i) \in Seq(Items)
           /\ Len(RemoveAt(list, i)) = Len(list) - 1
           /\ \A j \in 1..Len(list) - 1 :
                  RemoveAt(list, i)[j] = IF j < i THEN list[j] ELSE list[j + 1]
  <1> DEFINE front == SubSeq(list, 1, i - 1)
             back  == SubSeq(list, i + 1, Len(list))
  <1>1. /\ front \in Seq(Items)
        /\ Len(front) = i - 1
        /\ \A j \in 1..i - 1 : front[j] = list[j]
      OBVIOUS
  <1>2. /\ back \in Seq(Items)
        /\ Len(back) = Len(list) - i
        /\ \A j \in 1..Len(list) - i : back[j] = list[i + j]
      OBVIOUS
  <1> HIDE DEF front, back
  <1>3. /\ front \o back \in Seq(Items)
        /\ Len(front \o back) = Len(list) - 1
        /\ \A j \in 1..Len(list) - 1 :
               (front \o back)[j] = IF j < i THEN front[j] ELSE back[j - i + 1]
    <2>1. /\ front \o back \in Seq(Items)
          /\ Len(front \o back) = Len(front) + Len(back)
          /\ \A j \in 1..Len(front) + Len(back) :
                 (front \o back)[j] =
                     IF j <= Len(front) THEN front[j] ELSE back[j - Len(front)]
        BY <1>1, <1>2, ConcatProperties, Zenon
    <2>2. Len(front) + Len(back) = Len(list) - 1
        BY <1>1, <1>2
    <2>3. \A j \in 1..Len(list) - 1 :
              (j <= Len(front) <=> j < i) /\ j - Len(front) = j - i + 1
        BY <1>1
    <2> QED
        BY <2>1, <2>2, <2>3
  <1>4. \A j \in 1..Len(list) - 1 : j >= i => back[j - i + 1] = list[j + 1]
      BY <1>2
  <1>5. RemoveAt(list, i) = front \o back
      BY DEF RemoveAt, front, back
  <1> QED
      BY <1>1, <1>3, <1>4, <1>5

\* A page is the stretch of the list behind the offset, cut at its end.
LEMMA PageFacts ==
    ASSUME list \in Seq(Items), NEW f \in Nat, NEW m \in Nat
    PROVE  /\ Page(f, m) \in Seq(Items)
           /\ Len(Page(f, m)) =
                  IF f + m < Len(list) THEN m
                  ELSE IF f < Len(list) THEN Len(list) - f ELSE 0
           /\ \A j \in 1..Len(Page(f, m)) :
                  f + j \in 1..Len(list) /\ Page(f, m)[j] = list[f + j]
  <1> DEFINE e == IF f + m < Len(list) THEN f + m ELSE Len(list)
  <1>1. Len(list) \in Nat /\ e \in Nat /\ e <= Len(list)
      OBVIOUS
  <1>2. \A j \in (f + 1)..e : list[j] \in Items
      BY <1>1
  <1>3. Page(f, m) = SubSeq(list, f + 1, e)
      BY DEF Page
  <1>4. e = (IF f + m < Len(list) THEN f + m ELSE Len(list))
      OBVIOUS
  <1> HIDE DEF e
  <1>5. /\ SubSeq(list, f + 1, e) \in Seq(Items)
        /\ Len(SubSeq(list, f + 1, e)) = IF f + 1 <= e THEN e - (f + 1) + 1 ELSE 0
        /\ \A j \in 1..e - (f + 1) + 1 : SubSeq(list, f + 1, e)[j] = list[(f + 1) + j - 1]
    <2> DEFINE b == f + 1
    <2>1. b \in Int /\ e \in Int /\ \A j \in b..e : list[j] \in Items
        BY <1>1, <1>2
    <2> HIDE DEF b
    <2>2. /\ SubSeq(list, b, e) \in Seq(Items)
          /\ Len(SubSeq(list, b, e)) = IF b <= e THEN e - b + 1 ELSE 0
          /\ \A j \in 1..e - b + 1 : SubSeq(list, b, e)[j] = list[b + j - 1]
        BY <2>1, SubSeqProperties
    <2> QED
        BY <2>2, Zenon DEF b
  <1>6. Len(Page(f, m)) = IF f + m < Len(list) THEN m
                          ELSE IF f < Len(list) THEN Len(list) - f ELSE 0
      BY <1>1, <1>3, <1>4, <1>5
  <1>7. ASSUME NEW j \in 1..Len(Page(f, m))
        PROVE  f + j \in 1..Len(list) /\ Page(f, m)[j] = list[f + j]
    <2>1. f + 1 <= e /\ j \in 1..e - (f + 1) + 1
        BY <1>1, <1>3, <1>5
    <2>2. (f + 1) + j - 1 = f + j /\ f + j \in 1..Len(list)
        BY <1>1, <2>1
    <2> QED
        BY <1>3, <1>5, <2>1, <2>2
  <1> QED
      BY <1>3, <1>5, <1>6, <1>7

\* Appending a page keeps what was collected and adds the page behind it.
LEMMA ConcatFacts ==
    ASSUME NEW s \in Seq(Items), NEW t \in Seq(Items)
    PROVE  /\ s \o t \in Seq(Items)
           /\ Len(s \o t) = Len(s) + Len(t)
           /\ \A j \in 1..Len(s) : (s \o t)[j] = s[j]
           /\ \A j \in 1..Len(t) : (s \o t)[Len(s) + j] = t[j]
           /\ ToSet(s \o t) = ToSet(s) \union ToSet(t)
  <1>1. /\ s \o t \in Seq(Items)
        /\ Len(s \o t) = Len(s) + Len(t)
        /\ \A j \in 1..Len(s) + Len(t) :
               (s \o t)[j] = IF j <= Len(s) THEN s[j] ELSE t[j - Len(s)]
      BY ConcatProperties, Zenon
  <1>2. \A j \in 1..Len(s) : (s \o t)[j] = s[j]
      BY <1>1
  <1>3. \A j \in 1..Len(t) : (s \o t)[Len(s) + j] = t[j]
      BY <1>1
  <1>4. \A j \in 1..Len(s) + Len(t) : j \in 1..Len(s) \/ j - Len(s) \in 1..Len(t)
      OBVIOUS
  <1>5. \A j \in 1..Len(t) : Len(s) + j \in 1..Len(s) + Len(t)
      OBVIOUS
  <1>6. \A x : x \in ToSet(s \o t) <=> x \in ToSet(s) \/ x \in ToSet(t)
    <2> SUFFICES ASSUME NEW x
                 PROVE  x \in ToSet(s \o t) <=> x \in ToSet(s) \/ x \in ToSet(t)
        OBVIOUS
    <2>1. ASSUME x \in ToSet(s \o t) PROVE x \in ToSet(s) \/ x \in ToSet(t)
        BY <1>1, <1>4, <2>1 DEF ToSet
    <2>2. ASSUME x \in ToSet(s) PROVE x \in ToSet(s \o t)
        BY <1>1, <1>2, <2>2 DEF ToSet
    <2>3. ASSUME x \in ToSet(t) PROVE x \in ToSet(s \o t)
      <3>1. PICK j \in 1..Len(t) : x = t[j]
          BY <2>3 DEF ToSet
      <3>2. Len(s) + j \in DOMAIN (s \o t) /\ (s \o t)[Len(s) + j] = x
          BY <1>1, <1>3, <1>5, <3>1
      <3> QED
          BY <3>2, Zenon DEF ToSet
    <2> QED
        BY <2>1, <2>2, <2>3
  <1>7. ToSet(s \o t) = ToSet(s) \union ToSet(t)
      BY <1>6, Zenon
  <1> QED
      BY <1>1, <1>2, <1>3, <1>7

-----------------------------------------------------------------------------

\* The elements of a list over Items are items.
LEMMA ToSetType == ASSUME NEW s \in Seq(Items) PROVE ToSet(s) \subseteq Items
  BY DEF ToSet

\* Every step keeps every variable in its type.
LEMMA TypeStep == TypeOK /\ [Next]_vars => TypeOK'
  <1> SUFFICES ASSUME TypeOK, [Next]_vars PROVE TypeOK'
      OBVIOUS
  <1> USE DEF TypeOK
  <1>0. ToSet(list) \subseteq Items
      BY ToSetType
  <1>1. ASSUME NEW k \in Kinds, Begin(k) PROVE TypeOK'
      BY <1>0, <1>1 DEF Begin, BeginHistory
  <1>2. ASSUME NEW f \in Nat, NEW m \in Nat, GetGroupsWithMax(f, m) PROVE TypeOK'
    <2>1. Page(f, m) \in Seq(Items)
        BY PageFacts
    <2> QED
        BY <1>0, <1>2, <2>1 DEF GetGroupsWithMax, BeginHistory
  <1>3. ASSUME Fetch PROVE TypeOK'
    <2>1. all' \in Seq(Items)
        BY <1>3, PageFacts, ConcatFacts, PageSizeAssumption DEF Fetch
    <2> QED
        BY <1>3, <2>1, PageSizeAssumption DEF Fetch, history
  <1>4. ASSUME FetchError PROVE TypeOK'
      BY <1>4 DEF FetchError, history
  <1>5. ASSUME NEW x \in Items, NEW i \in 1..Len(list) + 1, Insert(x, i) PROVE TypeOK'
    <2>1. list' \in Seq(Items)
        BY <1>5, InsertAtFacts DEF Insert
    <2> QED
        BY <1>5, <2>1 DEF Insert, call
  <1>6. ASSUME NEW i \in 1..Len(list), Delete(i) PROVE TypeOK'
    <2>1. list' \in Seq(Items)
        BY <1>6, RemoveAtFacts DEF Delete
    <2> QED
        BY <1>6, <2>1 DEF Delete, call
  <1>7. CASE UNCHANGED vars
      BY <1>7 DEF vars
  <1> QED
      BY <1>1, <1>2, <1>3, <1>4, <1>5, <1>6, <1>7, PageSizeAssumption
      DEF Next, Kinds, GetGroups, GetUserGroups, GetGroupMembers,
          GetUsersByClientRoleName, Walk, paginateGroups, paginateGroupMembers,
          paginateClientRoleUsers, AddUserToGroup, DeleteUserFromGroup,
          createChildGroup, DeleteGroup, ChangeRoleUsers

\* The server's list and the helper's call are always of their types.
THEOREM TypeCorrect == Spec => []TypeOK
  <1>1. Init => TypeOK
      BY InitialListsAssumption DEF Init, TypeOK
  <1> QED
      BY <1>1, TypeStep, PTL DEF Spec

-----------------------------------------------------------------------------

\* Fetching a page keeps the offset a divide of the list.
LEMMA FetchKeeps == TypeOK /\ WalkInv /\ Fetch => WalkInv'
  <1> SUFFICES ASSUME TypeOK, WalkInv, Fetch PROVE WalkInv'
      OBVIOUS
  <1> DEFINE got == Page(first, PageSize)
  <1>1. /\ got \in Seq(Items)
        /\ Len(got) = IF first + PageSize < Len(list) THEN PageSize
                      ELSE IF first < Len(list) THEN Len(list) - first ELSE 0
        /\ \A j \in 1..Len(got) : first + j \in 1..Len(list) /\ got[j] = list[first + j]
      BY PageFacts, PageSizeAssumption DEF TypeOK
  <1>2. /\ pc = "fetch"
        /\ all' = all \o got
        /\ \/ Len(got) < PageSize /\ pc' = "done" /\ first' = first
           \/ Len(got) >= PageSize /\ first' = first + PageSize /\ pc' = "fetch"
        /\ list' = list /\ atStart' = atStart /\ added' = added /\ dropped' = dropped
      BY DEF Fetch, history
  <1> HIDE DEF got
  <1>3. /\ all' \in Seq(Items)
        /\ Len(all') = Len(all) + Len(got)
        /\ \A j \in 1..Len(all) : all'[j] = all[j]
        /\ \A j \in 1..Len(got) : all'[Len(all) + j] = got[j]
        /\ ToSet(all') = ToSet(all) \union ToSet(got)
    <2>1. all \in Seq(Items)
        BY DEF TypeOK
    <2>2. /\ all \o got \in Seq(Items)
          /\ Len(all \o got) = Len(all) + Len(got)
          /\ \A j \in 1..Len(all) : (all \o got)[j] = all[j]
          /\ \A j \in 1..Len(got) : (all \o got)[Len(all) + j] = got[j]
          /\ ToSet(all \o got) = ToSet(all) \union ToSet(got)
        BY <1>1, <2>1, ConcatFacts, Zenon
    <2> QED
        BY <1>2, <2>2, Zenon
  <1>n. /\ first \in Nat /\ Len(list) \in Nat /\ Len(all) \in Nat
        /\ Len(got) \in Nat /\ PageSize \in Nat \ {0}
      BY <1>1, PageSizeAssumption DEF TypeOK
  <1>4. \A x : x \in ToSet(got) <=> \E j \in 1..Len(got) : x = list[first + j]
      BY <1>1 DEF ToSet
  <1>5. IsInjective(list')
      BY <1>2 DEF WalkInv
  <1>6. Collected'
    <2> SUFFICES ASSUME added = {}, dropped = {} PROVE Collected'
        BY <1>2 DEF Collected
    <2>1. /\ Len(all) <= Len(list) /\ Len(all) = first
          /\ \A i \in 1..Len(all) : all[i] = list[i]
        BY <1>2 DEF WalkInv, Collected
    <2>2. Len(all') <= Len(list) /\ Len(all') = IF pc' = "fetch" THEN first' ELSE Len(list)
        BY <1>1, <1>2, <1>3, <1>n, <2>1
    <2>3. \A i \in 1..Len(all') : all'[i] = list[i]
      <3> SUFFICES ASSUME NEW i \in 1..Len(all') PROVE all'[i] = list[i]
          OBVIOUS
      <3>1. CASE i <= Len(all)
          BY <1>3, <2>1, <3>1 DEF TypeOK
      <3>2. CASE i > Len(all)
        <4>1. i - Len(all) \in 1..Len(got) /\ i = Len(all) + (i - Len(all))
            BY <1>1, <1>3, <3>2 DEF TypeOK
        <4> QED
            BY <1>1, <1>3, <2>1, <4>1
      <3> QED
          BY <3>1, <3>2 DEF TypeOK
    <2> QED
        BY <1>2, <2>2, <2>3 DEF Collected
  <1>7. Passed'
    <2> SUFFICES ASSUME dropped = {}, NEW i \in 1..Len(list),
                        list[i] \in atStart, i <= first' \/ pc' = "done"
                 PROVE  list[i] \in ToSet(all')
        BY <1>2 DEF Passed, WalkInv
    <2>1. CASE i <= first
        BY <1>2, <1>3, <2>1 DEF WalkInv, Passed
    <2>2. CASE i > first
      <3>1. i - first \in 1..Len(got) /\ i = first + (i - first)
          BY <1>1, <1>2, <2>2, PageSizeAssumption DEF TypeOK
      <3>2. list[i] \in ToSet(got)
          BY <1>4, <3>1
      <3> QED
          BY <1>3, <3>2
    <2> QED
        BY <2>1, <2>2 DEF TypeOK
  <1>8. Behind'
    <2> SUFFICES ASSUME added = {} PROVE Behind'
        BY <1>2 DEF Behind
    <2>1. /\ IsInjective(all)
          /\ \A i \in 1..Len(list) : list[i] \in ToSet(all) => i <= first
        BY <1>2 DEF WalkInv, Behind
    <2>2. \A i, j \in 1..Len(list) : list[i] = list[j] => i = j
      <3>1. IsInjective(list) /\ DOMAIN list = 1..Len(list)
          BY DEF WalkInv, TypeOK
      <3> QED
          BY <3>1 DEF IsInjective
    <2>3. ASSUME NEW j \in 1..Len(got) PROVE got[j] \notin ToSet(all)
      <3>1. PICK k \in 1..Len(list) : k = first + j
          BY <1>1
      <3>2. got[j] = list[k]
          BY <1>1, <3>1
      <3>3. ~(k <= first)
          BY <1>n, <3>1
      <3> QED
          BY <2>1, <3>2, <3>3
    <2>4. ASSUME NEW i \in 1..Len(got), NEW j \in 1..Len(got), got[i] = got[j] PROVE i = j
      <3>1. PICK k \in 1..Len(list), l \in 1..Len(list) : k = first + i /\ l = first + j
          BY <1>1
      <3>2. list[k] = list[l]
          BY <1>1, <2>4, <3>1
      <3>3. k = l
          BY <2>2, <3>2
      <3> QED
          BY <1>n, <3>1, <3>3
    <2>5. \A i \in 1..Len(all') :
              \/ i \in 1..Len(all) /\ all'[i] = all[i] /\ all'[i] \in ToSet(all)
              \/ i - Len(all) \in 1..Len(got) /\ all'[i] = got[i - Len(all)]
      <3> SUFFICES ASSUME NEW i \in 1..Len(all'), ~(i \in 1..Len(all))
                   PROVE  i - Len(all) \in 1..Len(got) /\ all'[i] = got[i - Len(all)]
          BY <1>3 DEF ToSet, TypeOK
      <3>1. i - Len(all) \in 1..Len(got) /\ i = Len(all) + (i - Len(all))
          BY <1>1, <1>3 DEF TypeOK
      <3> QED
          BY <1>3, <3>1
    <2>6. \A i, j \in 1..Len(all') : all'[i] = all'[j] => i = j
      <3> SUFFICES ASSUME NEW i \in 1..Len(all'), NEW j \in 1..Len(all'), all'[i] = all'[j]
                   PROVE  i = j
          OBVIOUS
      <3>1. CASE i \in 1..Len(all) /\ j \in 1..Len(all)
          BY <1>3, <2>1, <3>1 DEF IsInjective, TypeOK
      <3>2. CASE i - Len(all) \in 1..Len(got) /\ j - Len(all) \in 1..Len(got)
        <4>1. ~(i \in 1..Len(all)) /\ ~(j \in 1..Len(all))
            BY <1>n, <3>2
        <4>2. all'[i] = got[i - Len(all)] /\ all'[j] = got[j - Len(all)]
            BY <2>5, <4>1
        <4>3. i - Len(all) = j - Len(all)
            BY <2>4, <3>2, <4>2
        <4> QED
            BY <1>n, <4>3
      <3> QED
          BY <2>3, <2>5, <3>1, <3>2
    <2>7. IsInjective(all')
        BY <1>3, <2>6 DEF IsInjective
    <2>8. ASSUME pc' = "fetch", NEW i \in 1..Len(list), list[i] \in ToSet(all')
          PROVE  i <= first'
      <3>1. CASE list[i] \in ToSet(all)
          BY <1>2, <2>1, <2>8, <3>1, PageSizeAssumption DEF TypeOK
      <3>2. CASE list[i] \in ToSet(got)
        <4>1. PICK j \in 1..Len(got) : list[i] = list[first + j]
            BY <1>4, <3>2
        <4>2. i = first + j
            BY <1>1, <2>2, <4>1
        <4> QED
            BY <1>1, <1>2, <2>8, <4>2, PageSizeAssumption DEF TypeOK
      <3> QED
          BY <1>3, <2>8, <3>1, <3>2
    <2> QED
        BY <1>2, <2>7, <2>8 DEF Behind
  <1>9. Accounted'
    <2>1. ToSet(got) \subseteq ToSet(list)
      <3>1. SUFFICES ASSUME NEW x \in ToSet(got) PROVE x \in ToSet(list)
          OBVIOUS
      <3>2. PICK j \in 1..Len(got) : x = list[first + j]
          BY <1>4
      <3>3. PICK k \in 1..Len(list) : x = list[k]
          BY <1>1, <3>2
      <3>4. list \in Seq(Items)
          BY DEF TypeOK
      <3> QED
          BY <3>3, <3>4 DEF ToSet
    <2> QED
        BY <1>2, <1>3, <2>1 DEF WalkInv, Accounted
  <1> QED
      BY <1>5, <1>6, <1>7, <1>8, <1>9 DEF WalkInv

\* A change of the list by another client, during a walk or outside one.
LEMMA InsertKeeps ==
    ASSUME TypeOK, WalkInv, NEW x \in Items, NEW i \in 1..Len(list) + 1, Insert(x, i)
    PROVE  WalkInv'
  <1>1. /\ list' \in Seq(Items)
        /\ Len(list') = Len(list) + 1
        /\ \A j \in 1..Len(list) + 1 :
               list'[j] = IF j < i THEN list[j] ELSE IF j = i THEN x ELSE list[j - 1]
    <2>1. list \in Seq(Items) /\ list' = InsertAt(list, i, x)
        BY DEF Insert, TypeOK
    <2>2. /\ InsertAt(list, i, x) \in Seq(Items)
          /\ Len(InsertAt(list, i, x)) = Len(list) + 1
          /\ \A j \in 1..Len(list) + 1 :
                 InsertAt(list, i, x)[j] =
                     IF j < i THEN list[j] ELSE IF j = i THEN x ELSE list[j - 1]
        BY <2>1, InsertAtFacts
    <2> QED
        BY <2>1, <2>2
  <1>2. /\ x \notin ToSet(list)
        /\ added' = added \union {x}
        /\ pc' = pc /\ first' = first /\ all' = all
        /\ atStart' = atStart /\ dropped' = dropped
      BY DEF Insert, call
  <1>3. Len(list) \in Nat /\ first \in Nat
      BY DEF TypeOK
  <1>4. \A j \in 1..Len(list) : list[j] # x
      BY <1>2 DEF ToSet, TypeOK
  <1>5. IsInjective(list')
    <2>1. \A j, k \in 1..Len(list) : list[j] = list[k] => j = k
        BY DEF WalkInv, IsInjective, TypeOK
    <2>2. \A j, k \in 1..Len(list) + 1 : list'[j] = list'[k] => j = k
      <3> SUFFICES ASSUME NEW j \in 1..Len(list) + 1, NEW k \in 1..Len(list) + 1,
                          list'[j] = list'[k]
                   PROVE  j = k
          OBVIOUS
      <3> DEFINE old(n) == IF n < i THEN n ELSE n - 1
      <3>1. \A n \in 1..Len(list) + 1 :
                n # i => old(n) \in 1..Len(list) /\ list'[n] = list[old(n)]
        <4> SUFFICES ASSUME NEW n \in 1..Len(list) + 1, n # i
                     PROVE  old(n) \in 1..Len(list) /\ list'[n] = list[old(n)]
            OBVIOUS
        <4>1. CASE n < i
            BY <1>1, <1>3, <4>1
        <4>2. CASE n > i
            BY <1>1, <1>3, <4>2
        <4> QED
            BY <1>3, <4>1, <4>2
      <3>2. list'[i] = x
          BY <1>1, <1>3
      <3>3. CASE j = i \/ k = i
          BY <1>4, <3>1, <3>2, <3>3
      <3>4. CASE j # i /\ k # i
        <4>1. old(j) = old(k)
            BY <2>1, <3>1, <3>4
        <4> QED
            BY <1>3, <3>4, <4>1
      <3> QED
          BY <3>3, <3>4
    <2> QED
        BY <1>1, <2>2 DEF IsInjective
  <1>6. \A y : y \in ToSet(list') <=> y \in ToSet(list) \/ y = x
    <2>1. ASSUME NEW y \in ToSet(list) PROVE y \in ToSet(list')
      <3>1. PICK j \in 1..Len(list) : y = list[j]
          BY DEF ToSet, TypeOK
      <3>2. CASE j < i
        <4>1. j \in 1..Len(list') /\ list'[j] = y
            BY <1>1, <1>3, <3>1, <3>2
        <4> QED
            BY <1>1, <4>1 DEF ToSet
      <3>3. CASE j >= i
        <4>1. j + 1 \in 1..Len(list') /\ list'[j + 1] = y
            BY <1>1, <1>3, <3>1, <3>3
        <4> QED
            BY <1>1, <4>1 DEF ToSet
      <3> QED
          BY <1>3, <3>2, <3>3
    <2>2. i \in 1..Len(list') /\ list'[i] = x
        BY <1>1, <1>3
    <2>3. x \in ToSet(list')
        BY <1>1, <2>2 DEF ToSet
    <2>4. ASSUME NEW y \in ToSet(list'), y # x PROVE y \in ToSet(list)
      <3>1. PICK j \in 1..Len(list) + 1 : y = list'[j]
          BY <1>1 DEF ToSet
      <3>2. \/ j \in 1..Len(list) /\ y = list[j]
            \/ j - 1 \in 1..Len(list) /\ y = list[j - 1]
        <4>1. CASE j < i
            BY <1>1, <1>3, <3>1, <4>1
        <4>2. CASE j > i
            BY <1>1, <1>3, <3>1, <4>2
        <4>3. j # i
            BY <2>2, <2>4, <3>1
        <4> QED
            BY <1>3, <4>1, <4>2, <4>3
      <3> QED
          BY <3>2 DEF ToSet, TypeOK
    <2> QED
        BY <2>1, <2>3, <2>4
  <1>7. Collected'
      BY <1>2 DEF Collected
  <1>8. Passed'
    <2> SUFFICES ASSUME pc \in {"fetch", "done"}, dropped = {}
                 PROVE  /\ atStart \subseteq ToSet(list')
                        /\ \A j \in 1..Len(list') :
                               list'[j] \in atStart /\ (j <= first \/ pc = "done")
                                   => list'[j] \in ToSet(all)
        BY <1>2 DEF Passed
    <2>1. /\ atStart \subseteq ToSet(list)
          /\ \A j \in 1..Len(list) :
                 list[j] \in atStart /\ (j <= first \/ pc = "done") => list[j] \in ToSet(all)
        BY DEF WalkInv, Passed
    <2>2. ASSUME NEW j \in 1..Len(list'), list'[j] \in atStart, j <= first \/ pc = "done"
          PROVE  list'[j] \in ToSet(all)
      <3>1. list'[j] # x
          BY <1>2, <2>1, <2>2
      <3>2. \/ j \in 1..Len(list) /\ list'[j] = list[j]
            \/ j - 1 \in 1..Len(list) /\ list'[j] = list[j - 1] /\ (j <= first => j - 1 <= first)
        <4>1. j \in 1..Len(list) + 1 /\ Len(list) \in Nat /\ first \in Nat
            BY <1>1 DEF TypeOK
        <4>2. list'[j] = IF j < i THEN list[j] ELSE IF j = i THEN x ELSE list[j - 1]
            BY <1>1, <4>1
        <4>3. CASE j < i
            BY <4>1, <4>2, <4>3
        <4>4. CASE j > i
            BY <4>1, <4>2, <4>4
        <4> QED
            BY <3>1, <4>1, <4>2, <4>3, <4>4
      <3> QED
          BY <2>1, <2>2, <3>2
    <2> QED
        BY <1>6, <2>1, <2>2
  <1>9. Behind'
      BY <1>2 DEF Behind
  <1>10. Accounted'
      BY <1>2, <1>6 DEF WalkInv, Accounted
  <1> QED
      BY <1>5, <1>7, <1>8, <1>9, <1>10 DEF WalkInv

\* An item is removed between two pages.
LEMMA DeleteKeeps ==
    ASSUME TypeOK, WalkInv, NEW i \in 1..Len(list), Delete(i)
    PROVE  WalkInv'
  <1>1. /\ list' \in Seq(Items)
        /\ Len(list') = Len(list) - 1
        /\ \A j \in 1..Len(list) - 1 : list'[j] = IF j < i THEN list[j] ELSE list[j + 1]
      BY RemoveAtFacts DEF Delete, TypeOK
  <1>2. /\ dropped' = dropped \union {list[i]}
        /\ pc' = pc /\ first' = first /\ all' = all
        /\ atStart' = atStart /\ added' = added
      BY DEF Delete, call
  <1>3. Len(list) \in Nat /\ first \in Nat
      BY DEF TypeOK
  <1>4. \A j \in 1..Len(list') :
            \E k \in 1..Len(list) : k >= j /\ list'[j] = list[k]
    <2> SUFFICES ASSUME NEW j \in 1..Len(list')
                 PROVE  \E k \in 1..Len(list) : k >= j /\ list'[j] = list[k]
        OBVIOUS
    <2>1. CASE j < i
        BY <1>1, <1>3, <2>1
    <2>2. CASE j >= i
      <3>1. j + 1 \in 1..Len(list) /\ j + 1 >= j /\ list'[j] = list[j + 1]
          BY <1>1, <1>3, <2>2
      <3> QED
          BY <3>1
    <2> QED
        BY <1>1, <1>3, <2>1, <2>2
  <1>5. IsInjective(list')
    <2>1. \A j, k \in 1..Len(list) : list[j] = list[k] => j = k
        BY DEF WalkInv, IsInjective, TypeOK
    <2>2. \A j, k \in 1..Len(list) - 1 : list'[j] = list'[k] => j = k
        BY <1>1, <1>3, <2>1
    <2> QED
        BY <1>1, <2>2 DEF IsInjective
  <1>6. ToSet(list') \subseteq ToSet(list)
      BY <1>1, <1>3, <1>4 DEF ToSet, TypeOK
  <1>7. Collected'
      BY <1>2 DEF Collected
  <1>8. Passed'
      BY <1>2 DEF Passed
  <1>9. Behind'
    <2> SUFFICES ASSUME added = {}, pc = "fetch", NEW j \in 1..Len(list'), list'[j] \in ToSet(all)
                 PROVE  j <= first
        BY <1>2 DEF Behind, WalkInv
    <2>1. PICK k \in 1..Len(list) : k >= j /\ list'[j] = list[k]
        BY <1>4
    <2>2. k <= first
        BY <2>1 DEF WalkInv, Behind
    <2> QED
        BY <1>1, <1>3, <2>1, <2>2
  <1>10. Accounted'
      BY <1>2, <1>6 DEF WalkInv, Accounted
  <1> QED
      BY <1>5, <1>7, <1>8, <1>9, <1>10 DEF WalkInv

-----------------------------------------------------------------------------

\* WalkInv is inductive.
LEMMA WalkStep == TypeOK /\ WalkInv /\ [Next]_vars => WalkInv'
  <1> SUFFICES ASSUME TypeOK, WalkInv, [Next]_vars PROVE WalkInv'
      OBVIOUS
  <1>1. ASSUME NEW k \in Kinds, Begin(k) PROVE WalkInv'
    <2>1. /\ list' = list /\ pc' = "fetch" /\ first' = 0 /\ all' = <<>>
          /\ atStart' = ToSet(list) /\ added' = {} /\ dropped' = {}
        BY <1>1 DEF Begin, BeginHistory
    <2>2. Len(all') = 0 /\ ToSet(all') = {} /\ IsInjective(all')
        BY <2>1 DEF ToSet, IsInjective
    <2> QED
        BY <2>1, <2>2 DEF WalkInv, Collected, Passed, Behind, Accounted, TypeOK
  <1>2. ASSUME NEW f \in Nat, NEW m \in Nat, GetGroupsWithMax(f, m) PROVE WalkInv'
      BY <1>2 DEF GetGroupsWithMax, WalkInv, Collected, Passed, Behind, Accounted
  <1>3. ASSUME Fetch PROVE WalkInv'
      BY <1>3, FetchKeeps
  <1>4. ASSUME FetchError PROVE WalkInv'
      BY <1>4 DEF FetchError, history, WalkInv, Collected, Passed, Behind, Accounted
  <1>5. ASSUME NEW x \in Items, NEW i \in 1..Len(list) + 1, Insert(x, i) PROVE WalkInv'
      BY <1>5, InsertKeeps
  <1>6. ASSUME NEW i \in 1..Len(list), Delete(i) PROVE WalkInv'
      BY <1>6, DeleteKeeps
  <1>7. CASE UNCHANGED vars
      BY <1>7 DEF vars, WalkInv, Collected, Passed, Behind, Accounted
  <1> QED
      BY <1>1, <1>2, <1>3, <1>4, <1>5, <1>6, <1>7, PageSizeAssumption
      DEF TypeOK, Next, Kinds, GetGroups, GetUserGroups, GetGroupMembers,
          GetUsersByClientRoleName, Walk, paginateGroups, paginateGroupMembers,
          paginateClientRoleUsers, AddUserToGroup, DeleteUserFromGroup,
          createChildGroup, DeleteGroup, ChangeRoleUsers

\* At every moment of a walk the offset divides the list into what has been
\* collected and what is still ahead.
THEOREM WalkInvariant == Spec => [](TypeOK /\ WalkInv)
  <1>1. Init => TypeOK /\ WalkInv
      BY InitialListsAssumption
      DEF Init, TypeOK, WalkInv, Collected, Passed, Behind, Accounted
  <1>2. (TypeOK /\ WalkInv) /\ [Next]_vars => (TypeOK /\ WalkInv)'
      BY TypeStep, WalkStep
  <1> QED
      BY <1>1, <1>2, PTL DEF Spec

\* A listing undisturbed by other clients returns the whole list in order,
\* for every page size and every length of the list.
THEOREM QuietExact == Spec => []QuietListingIsExact
  <1>1. TypeOK /\ WalkInv => QuietListingIsExact
    <2> SUFFICES ASSUME TypeOK, WalkInv, pc = "done", added = {}, dropped = {}
                 PROVE  all = list
        BY DEF QuietListingIsExact
    <2>1. Len(all) = Len(list) /\ \A i \in 1..Len(all) : all[i] = list[i]
        BY DEF WalkInv, Collected
    <2> QED
        BY <2>1, SeqEqual DEF TypeOK
  <1> QED
      BY <1>1, WalkInvariant, PTL

\* Additions made by other clients while a listing runs hide nothing.
THEOREM AdditionsHarmless == Spec => []AdditionsHideNothing
  <1>1. TypeOK /\ WalkInv => AdditionsHideNothing
    <2> SUFFICES ASSUME TypeOK, WalkInv, pc = "done", dropped = {}, NEW x \in atStart
                 PROVE  x \in ToSet(all)
        BY DEF AdditionsHideNothing
    <2>1. PICK i \in 1..Len(list) : x = list[i]
        BY DEF WalkInv, Passed, ToSet, TypeOK
    <2> QED
        BY <2>1 DEF WalkInv, Passed
  <1> QED
      BY <1>1, WalkInvariant, PTL

\* Removals made by other clients while a listing runs repeat nothing.
THEOREM RemovalsHarmless == Spec => []RemovalsRepeatNothing
  <1>1. WalkInv => RemovalsRepeatNothing
      BY DEF WalkInv, Behind, RemovalsRepeatNothing
  <1> QED
      BY <1>1, WalkInvariant, PTL

\* A listing returns only what was listed at some time while it ran.
THEOREM NoInventions == Spec => []NothingInvented
  <1>1. WalkInv => NothingInvented
      BY DEF WalkInv, Accounted, NothingInvented
  <1> QED
      BY <1>1, WalkInvariant, PTL
=============================================================================
