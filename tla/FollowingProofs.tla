--------------------------- MODULE FollowingProofs ---------------------------
(***************************************************************************)
(* Proofs about Following, for every value of its constants.               *)
(***************************************************************************)
EXTENDS Following, TLAPS, FiniteSetTheorems, WellFoundedInduction

Views == Tables \cup {EmptyView}

Distinct(views) == \A i, j \in DOMAIN views : i # j => views[i] # views[j]

\* How many recommendations of a shop the screen holds.
Entries(shop) == Cardinality({i \in DOMAIN recommendArray : recommendArray[i].shop = shop})

\* Nothing in the content view is of a later appearance, and no table of a later
\* one has rows.
ViewsOfBefore ==
    /\ visible => generation > 0
    /\ \A view \in Range(subviews) : view.generation <= generation
    /\ \A t \in Tables : t.generation > generation => rows[t] = 0

\* The rows of a table of this appearance that can be touched or scrolled are in
\* the array behind it.
RowsFit ==
    /\ generation > 0 => rows[Current("recommend")] <= Len(recommendArray)
    /\ FrontIs(Current("following")) => rows[Current("following")] <= Len(followingArray)
    /\ FrontIs(Current("feed")) => rows[Current("feed")] <= Len(postArray)

\* A shop is in recommendArray at most as often as it was ever received.
EntriesReceived == \A s \in Shops : Entries(s) <= received[s]

\* The inductive invariant: of the tables only those of earlier appearances can miss
\* a cell or a row because those of this one have no row too many; and a flag turned back offers a shop
\* again only if it is not followed, so the entries received bound the offers.
Inv ==
    /\ TypeOK
    /\ ViewsOfBefore
    /\ RowsFit
    /\ EntriesReceived
    /\ FollowedOncePerFetch
    /\ NotSaidEmpty
    /\ FeedShowsFollowed
    /\ CrashesHaveCause

-----------------------------------------------------------------------------
(* Sequences, and the views in front.                                      *)

\* Where the elements of two sequences are in their concatenation.
LEMMA Joined ==
    ASSUME NEW S, NEW l \in Seq(S), NEW r \in Seq(S)
    PROVE  /\ l \o r \in Seq(S)
           /\ Len(l) \in Nat /\ Len(r) \in Nat
           /\ Len(l \o r) = Len(l) + Len(r)
           /\ DOMAIN (l \o r) = 1..(Len(l) + Len(r))
           /\ \A i \in 1..Len(l) : (l \o r)[i] = l[i]
           /\ \A i \in (Len(l) + 1)..(Len(l) + Len(r)) : (l \o r)[i] = r[i - Len(l)]
<1>1. l \o r \in Seq(S)
  OBVIOUS
<1>2. Len(l) \in Nat /\ Len(r) \in Nat /\ Len(l \o r) = Len(l) + Len(r)
  OBVIOUS
<1>3. DOMAIN (l \o r) = 1..(Len(l) + Len(r))
  BY <1>1, <1>2
<1>4. \A i \in 1..Len(l) : (l \o r)[i] = l[i]
  OBVIOUS
<1>5. \A i \in (Len(l) + 1)..(Len(l) + Len(r)) : (l \o r)[i] = r[i - Len(l)]
  OBVIOUS
<1>6. QED
  BY <1>1, <1>2, <1>3, <1>4, <1>5

\* What is left of a sequence without the element at a position.
LEMMA RemoveAtElements ==
    ASSUME NEW S, NEW s \in Seq(S), NEW k \in DOMAIN s
    PROVE  /\ RemoveAt(s, k) \in Seq(S)
           /\ DOMAIN RemoveAt(s, k) = 1..(Len(s) - 1)
           /\ Len(RemoveAt(s, k)) = Len(s) - 1
           /\ \A i \in 1..(Len(s) - 1) :
                  RemoveAt(s, k)[i] = IF i < k THEN s[i] ELSE s[i + 1]
<1> DEFINE left  == SubSeq(s, 1, k - 1)
           right == SubSeq(s, k + 1, Len(s))
<1>1. Len(s) \in Nat /\ k \in 1..Len(s) /\ DOMAIN s = 1..Len(s)
  OBVIOUS
<1>2. /\ left \in Seq(S) /\ Len(left) = k - 1
      /\ \A i \in 1..(k - 1) : left[i] = s[i]
  BY <1>1
<1>3. /\ right \in Seq(S) /\ Len(right) = Len(s) - k
      /\ \A i \in 1..(Len(s) - k) : right[i] = s[i + k]
  BY <1>1
<1>4. RemoveAt(s, k) = left \o right
  BY DEF RemoveAt
<1> HIDE DEF left, right
<1>5. /\ left \o right \in Seq(S)
      /\ Len(left \o right) = Len(s) - 1
      /\ DOMAIN (left \o right) = 1..(Len(s) - 1)
      /\ \A i \in 1..(k - 1) : (left \o right)[i] = left[i]
      /\ \A i \in k..(Len(s) - 1) : (left \o right)[i] = right[i - (k - 1)]
  <2>1. /\ left \o right \in Seq(S)
        /\ Len(left \o right) = Len(left) + Len(right)
        /\ DOMAIN (left \o right) = 1..(Len(left) + Len(right))
        /\ Len(left) \in Nat /\ Len(right) \in Nat
    BY <1>2, <1>3, Joined
  <2>2. /\ \A i \in 1..Len(left) : (left \o right)[i] = left[i]
        /\ \A i \in (Len(left) + 1)..(Len(left) + Len(right)) :
               (left \o right)[i] = right[i - Len(left)]
    BY <1>2, <1>3, Joined
  <2>3. Len(left) + Len(right) = Len(s) - 1 /\ Len(left) + 1 = k
    BY <1>1, <1>2, <1>3
  <2>4. QED
    BY <1>2, <2>1, <2>2, <2>3
<1>6. ASSUME NEW i \in 1..(Len(s) - 1)
      PROVE  (left \o right)[i] = IF i < k THEN s[i] ELSE s[i + 1]
  <2>1. CASE i < k
    <3>1. i \in 1..(k - 1)
      BY <1>1, <2>1
    <3>2. QED
      BY <1>2, <1>5, <2>1, <3>1
  <2>2. CASE ~ (i < k)
    <3>1. i \in k..(Len(s) - 1) /\ i - (k - 1) \in 1..(Len(s) - k)
          /\ (i - (k - 1)) + k = i + 1
      BY <1>1, <2>2
    <3>2. QED
      BY <1>3, <1>5, <2>2, <3>1
  <2>3. QED
    BY <2>1, <2>2
<1>7. QED
  BY <1>4, <1>5, <1>6

\* A view taken out of the content view is no longer there, and all others are.
LEMMA RemovedViews ==
    ASSUME NEW S, NEW views \in Seq(S), Distinct(views), NEW view
    PROVE  /\ Removed(views, view) \in Seq(S)
           /\ Distinct(Removed(views, view))
           /\ Range(Removed(views, view)) = Range(views) \ {view}
<1>1. Len(views) \in Nat /\ DOMAIN views = 1..Len(views)
  OBVIOUS
<1>2. CASE ~ \E i \in DOMAIN views : views[i] = view
  <2>1. Removed(views, view) = views
    BY <1>2 DEF Removed
  <2>2. view \notin Range(views)
    BY <1>2 DEF Range
  <2>3. QED
    BY <2>1, <2>2
<1>3. CASE \E i \in DOMAIN views : views[i] = view
  <2> DEFINE k == CHOOSE i \in DOMAIN views : views[i] = view
             left == RemoveAt(views, k)
  <2>1. k \in DOMAIN views /\ views[k] = view
    BY <1>3
  <2>2. Removed(views, view) = left
    BY <1>3 DEF Removed
  <2> HIDE DEF k
  <2>3. /\ left \in Seq(S)
        /\ DOMAIN left = 1..(Len(views) - 1)
        /\ \A i \in 1..(Len(views) - 1) : left[i] = IF i < k THEN views[i] ELSE views[i + 1]
    BY <2>1, RemoveAtElements
  <2> HIDE DEF left
  <2>4. \A i \in DOMAIN views : i # k => views[i] # view
    BY <2>1 DEF Distinct
  <2>5. \A i \in DOMAIN left : \E j \in DOMAIN views \ {k} : left[i] = views[j]
    <3>1. SUFFICES ASSUME NEW i \in DOMAIN left
                   PROVE  \E j \in DOMAIN views \ {k} : left[i] = views[j]
      OBVIOUS
    <3>2. CASE i < k
      <4>1. i \in DOMAIN views \ {k} /\ left[i] = views[i]
        BY <1>1, <2>3, <3>2
      <4>2. QED
        BY <4>1
    <3>3. CASE ~ (i < k)
      <4>1. i + 1 \in DOMAIN views \ {k} /\ left[i] = views[i + 1]
        BY <1>1, <2>1, <2>3, <3>3
      <4>2. QED
        BY <4>1
    <3>4. QED
      BY <3>2, <3>3
  <2>6. \A j \in DOMAIN views \ {k} : \E i \in DOMAIN left : left[i] = views[j]
    <3>1. SUFFICES ASSUME NEW j \in DOMAIN views \ {k}
                   PROVE  \E i \in DOMAIN left : left[i] = views[j]
      OBVIOUS
    <3>2. CASE j < k
      <4>1. j \in DOMAIN left /\ left[j] = views[j]
        BY <1>1, <2>1, <2>3, <3>2
      <4>2. QED
        BY <4>1
    <3>3. CASE ~ (j < k)
      <4>1. j - 1 \in DOMAIN left /\ ~ (j - 1 < k) /\ (j - 1) + 1 = j
        BY <1>1, <2>1, <2>3, <3>3
      <4>2. left[j - 1] = views[j]
        BY <2>3, <4>1
      <4>3. QED
        BY <4>1, <4>2
    <3>4. QED
      BY <3>2, <3>3
  <2>7. Range(left) = Range(views) \ {view}
    BY <2>1, <2>4, <2>5, <2>6 DEF Range
  <2>8. Distinct(left)
    <3>1. SUFFICES ASSUME NEW i \in DOMAIN left, NEW j \in DOMAIN left, i < j
                   PROVE  left[i] # left[j]
      BY <1>1, <2>3 DEF Distinct
    <3>2. PICK a \in DOMAIN views : a <= i + 1 /\ a >= i /\ left[i] = views[a] /\ (a = i + 1 => i >= k)
      <4>1. CASE i < k
        BY <1>1, <2>3, <4>1
      <4>2. CASE ~ (i < k)
        <5>1. i + 1 \in DOMAIN views /\ left[i] = views[i + 1] /\ i >= k
          BY <1>1, <2>1, <2>3, <4>2
        <5>2. QED
          BY <5>1, <1>1, <2>3
      <4>3. QED
        BY <4>1, <4>2
    <3>3. PICK b \in DOMAIN views : b <= j + 1 /\ b >= j /\ left[j] = views[b] /\ (b = j => j < k)
      <4>1. CASE j < k
        BY <1>1, <2>3, <4>1
      <4>2. CASE ~ (j < k)
        <5>1. j + 1 \in DOMAIN views /\ left[j] = views[j + 1]
          BY <1>1, <2>1, <2>3, <4>2
        <5>2. QED
          BY <5>1, <1>1, <2>3
      <4>3. QED
        BY <4>1, <4>2
    <3>4. a # b
      <4>1. i \in Nat /\ j \in Nat /\ a \in Nat /\ b \in Nat /\ k \in Nat
        BY <1>1, <2>1, <2>3
      <4>2. QED
        BY <3>1, <3>2, <3>3, <4>1
    <3>5. QED
      BY <3>2, <3>3, <3>4 DEF Distinct
  <2>9. QED
    BY <2>2, <2>3, <2>7, <2>8
<1>4. QED
  BY <1>2, <1>3

\* A view added is in front, once, and no other has gone.
LEMMA InFrontViews ==
    ASSUME NEW S, NEW views \in Seq(S), Distinct(views), NEW view \in S
    PROVE  /\ WithInFront(views, view) \in Seq(S)
           /\ Distinct(WithInFront(views, view))
           /\ Range(WithInFront(views, view)) = Range(views) \cup {view}
           /\ WithInFront(views, view) # <<>>
           /\ Last(WithInFront(views, view)) = view
<1> DEFINE others == Removed(views, view)
           all    == Append(others, view)
<1>1. /\ others \in Seq(S) /\ Distinct(others)
      /\ Range(others) = Range(views) \ {view}
  BY RemovedViews
<1>2. WithInFront(views, view) = all
  BY DEF WithInFront
<1> HIDE DEF others
<1>3. /\ all \in Seq(S) /\ Len(others) \in Nat /\ Len(all) = Len(others) + 1
      /\ DOMAIN others = 1..Len(others) /\ DOMAIN all = 1..(Len(others) + 1)
      /\ \A i \in DOMAIN others : all[i] = others[i]
      /\ all[Len(others) + 1] = view
  BY <1>1
<1>4. Range(all) = Range(others) \cup {view}
  BY <1>3 DEF Range
<1>5. \A i \in DOMAIN others : others[i] # view
  BY <1>1 DEF Range
<1>6. Distinct(all)
  <2>1. SUFFICES ASSUME NEW i \in DOMAIN all, NEW j \in DOMAIN all, i < j
                 PROVE  all[i] # all[j]
    BY <1>3 DEF Distinct
  <2>2. i \in DOMAIN others
    BY <1>3, <2>1
  <2>3. CASE j \in DOMAIN others
    BY <1>1, <1>3, <2>1, <2>2, <2>3 DEF Distinct
  <2>4. CASE j = Len(others) + 1
    BY <1>3, <1>5, <2>2, <2>4
  <2>5. QED
    BY <1>3, <2>3, <2>4
<1>7. all # <<>> /\ Last(all) = view
  BY <1>3 DEF Last
<1>8. QED
  BY <1>1, <1>2, <1>3, <1>4, <1>6, <1>7

\* The view in front is in the content view.
LEMMA FrontIsThere ==
    ASSUME NEW S, NEW views \in Seq(S), views # <<>>
    PROVE  Last(views) \in Range(views)
<1>1. Len(views) \in DOMAIN views
  OBVIOUS
<1>2. QED
  BY <1>1 DEF Last, Range

-----------------------------------------------------------------------------
(* How often a shop is in an array.                                        *)

LEMMA TimesIsNat ==
    ASSUME NEW S, NEW a \in Seq(S), NEW shop
    PROVE  /\ Times(a, shop) \in Nat
           /\ IsFiniteSet({i \in DOMAIN a : a[i] = shop})
<1>1. IsFiniteSet(1..Len(a)) /\ DOMAIN a = 1..Len(a)
  BY FS_Interval
<1>2. IsFiniteSet({i \in DOMAIN a : a[i] = shop})
  BY <1>1, FS_Subset
<1>3. QED
  BY <1>2, FS_CardinalityType DEF Times

LEMMA TimesAppend ==
    ASSUME NEW S, NEW a \in Seq(S), NEW x \in S, NEW shop
    PROVE  Times(Append(a, x), shop) = Times(a, shop) + (IF x = shop THEN 1 ELSE 0)
<1> DEFINE A == {i \in DOMAIN a : a[i] = shop}
           B == {i \in DOMAIN Append(a, x) : Append(a, x)[i] = shop}
<1>1. IsFiniteSet(A) /\ Cardinality(A) \in Nat
  BY TimesIsNat DEF Times
<1>2. /\ DOMAIN Append(a, x) = 1..(Len(a) + 1) /\ DOMAIN a = 1..Len(a) /\ Len(a) \in Nat
      /\ \A i \in 1..Len(a) : Append(a, x)[i] = a[i]
      /\ Append(a, x)[Len(a) + 1] = x
  OBVIOUS
<1>3. Times(Append(a, x), shop) = Cardinality(B) /\ Times(a, shop) = Cardinality(A)
  BY DEF Times
<1>4. CASE x = shop
  <2>1. B = A \cup {Len(a) + 1} /\ Len(a) + 1 \notin A
    BY <1>2, <1>4
  <2>2. Cardinality(B) = Cardinality(A) + 1
    BY <1>1, <2>1, FS_AddElement
  <2>3. QED
    BY <1>3, <1>4, <2>2
<1>5. CASE x # shop
  <2>1. B = A
    BY <1>2, <1>5
  <2> HIDE DEF A, B
  <2>2. QED
    BY <1>1, <1>3, <1>5, <2>1
<1>6. QED
  BY <1>4, <1>5

\* Without one of its elements an array has that one once less.
LEMMA TimesRemoveAt ==
    ASSUME NEW S, NEW a \in Seq(S), NEW k \in DOMAIN a, NEW shop
    PROVE  Times(a, shop) = Times(RemoveAt(a, k), shop) + (IF a[k] = shop THEN 1 ELSE 0)
<1> DEFINE rest == RemoveAt(a, k)
           A == {i \in DOMAIN rest : rest[i] = shop}
           B == {i \in DOMAIN a : a[i] = shop}
           f == [i \in A |-> IF i < k THEN i ELSE i + 1]
<1>1. /\ rest \in Seq(S)
      /\ DOMAIN rest = 1..(Len(a) - 1)
      /\ \A i \in 1..(Len(a) - 1) : rest[i] = IF i < k THEN a[i] ELSE a[i + 1]
  BY RemoveAtElements
<1>2. Len(a) \in Nat /\ DOMAIN a = 1..Len(a) /\ k \in 1..Len(a)
  OBVIOUS
<1>3. Times(rest, shop) = Cardinality(A) /\ Times(a, shop) = Cardinality(B)
  BY DEF Times
<1> HIDE DEF rest
<1>4. IsFiniteSet(A) /\ Cardinality(A) \in Nat /\ IsFiniteSet(B) /\ Cardinality(B) \in Nat
  BY <1>1, <1>3, TimesIsNat
<1>5. f \in Bijection(A, B \ {k})
  <2>1. ASSUME NEW i \in A
        PROVE  f[i] \in B \ {k}
    <3>1. CASE i < k
      BY <1>1, <1>2, <3>1
    <3>2. CASE ~ (i < k)
      <4>1. i + 1 \in 1..Len(a) /\ i + 1 # k /\ a[i + 1] = shop
        BY <1>1, <1>2, <3>2
      <4>2. QED
        BY <1>2, <3>2, <4>1
    <3>3. QED
      BY <3>1, <3>2
  <2>2. ASSUME NEW j \in B \ {k}
        PROVE  \E i \in A : f[i] = j
    <3>1. CASE j < k
      <4>1. j \in A
        BY <1>1, <1>2, <3>1
      <4>2. f[j] = j
        BY <3>1, <4>1
      <4>3. QED
        BY <4>1, <4>2
    <3>2. CASE ~ (j < k)
      <4>1. j - 1 \in 1..(Len(a) - 1) /\ ~ (j - 1 < k) /\ (j - 1) + 1 = j
        BY <1>2, <3>2
      <4>2. rest[j - 1] = a[j]
        BY <1>1, <4>1
      <4>3. j - 1 \in A
        BY <1>1, <4>1, <4>2
      <4>4. f[j - 1] = j
        BY <4>1, <4>3
      <4>5. QED
        BY <4>3, <4>4
    <3>3. QED
      BY <3>1, <3>2
  <2>3. ASSUME NEW i \in A, NEW j \in A, f[i] = f[j]
        PROVE  i = j
    <3>1. i \in Nat /\ j \in Nat /\ k \in Nat
      BY <1>1, <1>2
    <3>2. f[i] = (IF i < k THEN i ELSE i + 1) /\ f[j] = (IF j < k THEN j ELSE j + 1)
      OBVIOUS
    <3> HIDE DEF f, A
    <3>3. CASE i < k /\ j < k
      BY <2>3, <3>2, <3>3
    <3>4. CASE i < k /\ ~ (j < k)
      <4>1. i = j + 1
        BY <2>3, <3>2, <3>4
      <4>2. QED
        BY <3>1, <3>4, <4>1
    <3>5. CASE ~ (i < k) /\ j < k
      <4>1. j = i + 1
        BY <2>3, <3>2, <3>5
      <4>2. QED
        BY <3>1, <3>5, <4>1
    <3>6. CASE ~ (i < k) /\ ~ (j < k)
      <4>1. i + 1 = j + 1
        BY <2>3, <3>2, <3>6
      <4>2. QED
        BY <3>1, <4>1
    <3>7. QED
      BY <3>3, <3>4, <3>5, <3>6
  <2> HIDE DEF A, B
  <2>4. QED
    BY <2>1, <2>2, <2>3, Zenon DEF Bijection, Injection, Surjection, IsInjective
<1>6. Cardinality(B \ {k}) = Cardinality(A)
  BY <1>4, <1>5, FS_Bijection DEF ExistsBijection
<1>7. Cardinality(B \ {k}) = IF k \in B THEN Cardinality(B) - 1 ELSE Cardinality(B)
  BY <1>4, FS_RemoveElement
<1>8. k \in B <=> a[k] = shop
  BY <1>2
<1>9. Times(RemoveAt(a, k), shop) = Cardinality(A)
  BY <1>3 DEF rest
<1> HIDE DEF A, B
<1>10. QED
  BY <1>3, <1>4, <1>6, <1>7, <1>8, <1>9

\* A set of positions has a first one.
LEMMA FirstPosition ==
    ASSUME NEW T, T \subseteq Nat, T # {}
    PROVE  \E i \in T : \A j \in T : i <= j
<1>1. PICK i \in T : \A j \in T : <<j, i>> \notin OpToRel(<, Nat)
  BY WFMin, NatLessThanWellFounded
<1>2. \A j \in T : ~ (j < i)
  BY <1>1 DEF OpToRel
<1>3. QED
  BY <1>2

\* What is left of the followed shops without a shop.
LEMMA FollowingWithoutOne ==
    ASSUME followingArray \in Seq(Shops), NEW shop
    PROVE  /\ FollowingWithout(shop) \in Seq(Shops)
           /\ \A s : Times(FollowingWithout(shop), s) <= Times(followingArray, s)
           /\ \/ Times(followingArray, shop) = 0
              \/ Times(FollowingWithout(shop), shop) = Times(followingArray, shop) - 1
<1> DEFINE found == {i \in DOMAIN followingArray : followingArray[i] = shop}
           k     == CHOOSE i \in found : \A j \in found : i <= j
<1>1. CASE found = {}
  <2>1. FollowingWithout(shop) = followingArray
    BY <1>1 DEF FollowingWithout
  <2>2. Times(followingArray, shop) = 0
    BY <1>1, FS_EmptySet DEF Times
  <2>3. \A s : Times(followingArray, s) \in Nat
    BY TimesIsNat
  <2>4. QED
    BY <2>1, <2>2, <2>3
<1>2. CASE found # {}
  <2>1. found \subseteq Nat
    OBVIOUS
  <2>2. k \in found
    BY <1>2, <2>1, FirstPosition
  <2>3. FollowingWithout(shop) = RemoveAt(followingArray, k)
    BY <1>2 DEF FollowingWithout
  <2> HIDE DEF k
  <2>4. k \in DOMAIN followingArray /\ followingArray[k] = shop
    BY <2>2
  <2>5. FollowingWithout(shop) \in Seq(Shops)
    BY <2>3, <2>4, RemoveAtElements
  <2>6. ASSUME NEW s
        PROVE  /\ Times(followingArray, s) \in Nat
               /\ Times(FollowingWithout(shop), s) \in Nat
               /\ Times(followingArray, s) = Times(FollowingWithout(shop), s)
                                                + (IF shop = s THEN 1 ELSE 0)
    <3>1. Times(followingArray, s) \in Nat
      BY TimesIsNat
    <3>2. Times(FollowingWithout(shop), s) \in Nat
      BY <2>5, TimesIsNat
    <3>3. Times(followingArray, s) = Times(RemoveAt(followingArray, k), s)
                                        + (IF followingArray[k] = s THEN 1 ELSE 0)
      BY <2>4, TimesRemoveAt
    <3>4. QED
      BY <2>3, <2>4, <3>1, <3>2, <3>3
  <2> HIDE DEF found
  <2>7. ASSUME NEW s
        PROVE  Times(FollowingWithout(shop), s) <= Times(followingArray, s)
    <3>1. CASE shop = s
      BY <2>6, <3>1
    <3>2. CASE shop # s
      BY <2>6, <3>2
    <3>3. QED
      BY <3>1, <3>2
  <2>8. Times(FollowingWithout(shop), shop) = Times(followingArray, shop) - 1
    BY <2>6
  <2>9. QED
    BY <2>5, <2>7, <2>8
<1>3. QED
  BY <1>1, <1>2

-----------------------------------------------------------------------------
(* Tables and their rows.                                                  *)

TableKinds == {"following", "recommend", "feed"}

LEMMA ViewFields ==
    /\ \A kind : Current(kind).kind = kind /\ Current(kind).generation = generation
    /\ EmptyView.kind = "empty" /\ EmptyView.generation = 0
  BY DEF Current, EmptyView

\* The tables of this appearance differ from each other and from the empty view.
LEMMA ViewsDiffer ==
    /\ Current("following") # Current("recommend")
    /\ Current("following") # Current("feed")
    /\ Current("recommend") # Current("feed")
    /\ EmptyView # Current("following")
    /\ EmptyView # Current("recommend")
    /\ EmptyView # Current("feed")
<1>1. ASSUME NEW a, NEW b, a.kind # b.kind
      PROVE  a # b
  BY <1>1
<1>2. /\ Current("following").kind = "following" /\ Current("recommend").kind = "recommend"
      /\ Current("feed").kind = "feed" /\ EmptyView.kind = "empty"
  BY ViewFields
<1>3. QED
  BY <1>1, <1>2

LEMMA CurrentIsATable ==
    ASSUME TypeOK, generation > 0, NEW kind \in TableKinds
    PROVE  Current(kind) \in Tables
<1>1. generation \in 1..MaxAppearances
  <2>1. MaxAppearances \in Nat /\ generation \in 0..MaxAppearances
    BY FollowingAssumption DEF TypeOK
  <2>2. QED
    BY <2>1
<1>2. QED
  BY <1>1 DEF Current, Tables, TableKinds

\* A table in front is of this appearance or an earlier one, and of this one
\* only if it is the one the screen keeps.
LEMMA FrontOfBefore ==
    ASSUME TypeOK, ViewsOfBefore, NEW table \in Tables, FrontIs(table)
    PROVE  /\ table.generation \in Nat /\ table.generation >= 1
           /\ table.generation <= generation /\ generation \in Nat /\ generation > 0
           /\ table.kind \in TableKinds
           /\ table.generation = generation => table = Current(table.kind)
<1>1. table \in Range(subviews)
  BY FrontIsThere DEF FrontIs, TypeOK
<1>2. table.generation <= generation
  BY <1>1 DEF ViewsOfBefore
<1>3. generation \in Nat /\ MaxAppearances \in Nat
  BY FollowingAssumption DEF TypeOK
<1>4. table.generation \in 1..MaxAppearances /\ table.kind \in TableKinds
  BY DEF Tables, TableKinds
<1>5. table = [kind |-> table.kind, generation |-> table.generation]
  BY DEF Tables
<1>6. QED
  BY <1>2, <1>3, <1>4, <1>5 DEF Current

\* A reload changes the rows of one table.
LEMMA Reloaded ==
    ASSUME TypeOK, ViewsOfBefore, generation > 0, NEW kind \in TableKinds, NEW n \in Nat
    PROVE  LET new == [rows EXCEPT ![Current(kind)] = n]
           IN  /\ new \in [Tables -> Nat]
               /\ new[Current(kind)] = n
               /\ \A t \in Tables : t # Current(kind) => new[t] = rows[t]
               /\ \A t \in Tables : t.generation > generation => new[t] = 0
<1> DEFINE new == [rows EXCEPT ![Current(kind)] = n]
<1>1. rows \in [Tables -> Nat] /\ Current(kind) \in Tables /\ generation \in Nat
  BY CurrentIsATable DEF TypeOK
<1>2. /\ new \in [Tables -> Nat]
      /\ new[Current(kind)] = n
      /\ \A t \in Tables : t # Current(kind) => new[t] = rows[t]
  BY <1>1
<1> HIDE DEF new
<1>3. ASSUME NEW t \in Tables, t.generation > generation
      PROVE  new[t] = 0
  <2>1. t # Current(kind)
    BY <1>1, <1>3, ViewFields
  <2>2. QED
    BY <1>2, <1>3, <2>1 DEF ViewsOfBefore
<1>4. QED
  BY <1>2, <1>3 DEF new

\* The content view without two of its views.
LEMMA Rest ==
    ASSUME TypeOK, NEW a, NEW b
    PROVE  /\ Without(a, b) \in Seq(Views)
           /\ Distinct(Without(a, b))
           /\ Range(Without(a, b)) = Range(subviews) \ {a, b}
<1>1. subviews \in Seq(Views) /\ Distinct(subviews)
  BY DEF TypeOK, Views, Distinct
<1> DEFINE once == Removed(subviews, a)
<1>2. once \in Seq(Views) /\ Distinct(once) /\ Range(once) = Range(subviews) \ {a}
  BY <1>1, RemovedViews
<1>3. Without(a, b) = Removed(once, b)
  BY DEF Without
<1> HIDE DEF once
<1>4. /\ Removed(once, b) \in Seq(Views) /\ Distinct(Removed(once, b))
      /\ Range(Removed(once, b)) = Range(once) \ {b}
  BY <1>2, RemovedViews
<1>5. QED
  BY <1>2, <1>3, <1>4

-----------------------------------------------------------------------------
(* What is common to several actions.                                      *)

\* Shops are counted in followingArray and recommendArray alone.
LEMMA CountsKept ==
    ASSUME Inv, UNCHANGED <<followingArray, recommendArray, received>>
    PROVE  EntriesReceived' /\ FollowedOncePerFetch'
<1>1. ASSUME NEW s
      PROVE  Entries(s)' = Entries(s) /\ Offered(s)' = Offered(s)
             /\ Times(followingArray, s)' = Times(followingArray, s)
  BY DEF Entries, Offered, Times
<1>2. QED
  BY <1>1 DEF Inv, EntriesReceived, FollowedOncePerFetch

\* A segment puts another view in front and may reload it.
LEMMA SegmentInv ==
    ASSUME Inv, CanTouch,
           UNCHANGED <<visible, generation, crashed, followingArray, recommendArray, received>>,
           segment' \in Segments, postArray' \in Seq(Shops), covering' \in BOOLEAN,
           fetches' \in 0..MaxFetches, waiting' \in 0..fetches',
           subviews' \in Seq(Views), Distinct(subviews'),
           \A view \in Range(subviews') : view.generation <= generation,
           rows' \in [Tables -> Nat],
           \A t \in Tables : t.generation > generation => rows'[t] = 0,
           RowsFit', NotSaidEmpty', FeedShowsFollowed'
    PROVE  Inv'
<1>1. TypeOK'
  BY DEF Inv, TypeOK, Views, Distinct
<1>2. ViewsOfBefore'
  BY DEF Inv, ViewsOfBefore
<1>3. EntriesReceived' /\ FollowedOncePerFetch'
  BY CountsKept
<1>4. CrashesHaveCause'
  BY DEF CanTouch, CrashesHaveCause
<1>5. QED
  BY <1>1, <1>2, <1>3, <1>4 DEF Inv

\* A table of this appearance in front, with no row too many, hides the empty
\* view and, unless it is the feed, the feed.
LEMMA ShownInv ==
    ASSUME Inv, CanTouch,
           UNCHANGED <<visible, generation, crashed, followingArray, recommendArray, received>>,
           segment' \in Segments, postArray' \in Seq(Shops), covering' \in BOOLEAN,
           fetches' \in 0..MaxFetches, waiting' \in 0..fetches',
           NEW kind \in TableKinds, NEW rest, rest \in Seq(Views), Distinct(rest),
           Range(rest) \subseteq Range(subviews),
           subviews' = WithInFront(rest, Current(kind)),
           NEW array, array \in {recommendArray, followingArray, postArray'},
           rows' = [rows EXCEPT ![Current(kind)] = Len(array)],
           kind = "recommend" => array = recommendArray,
           kind = "following" => array = followingArray,
           kind = "feed" => array = postArray' /\ array = followingArray
    PROVE  Inv'
<1>1. TypeOK /\ ViewsOfBefore /\ RowsFit /\ generation > 0 /\ generation \in Nat
  BY DEF Inv, CanTouch, ViewsOfBefore, TypeOK
<1>2. Current(kind) \in Tables /\ Len(array) \in Nat
  BY <1>1, CurrentIsATable DEF TypeOK
<1>3. /\ subviews' \in Seq(Views) /\ Distinct(subviews')
      /\ Range(subviews') = Range(rest) \cup {Current(kind)}
      /\ subviews' # <<>> /\ Last(subviews') = Current(kind)
  <2> DEFINE view == Current(kind)
  <2>1. view \in Views
    BY <1>2 DEF Views
  <2>2. subviews' = WithInFront(rest, view)
    OBVIOUS
  <2> HIDE DEF view
  <2>3. /\ WithInFront(rest, view) \in Seq(Views)
        /\ Distinct(WithInFront(rest, view))
        /\ Range(WithInFront(rest, view)) = Range(rest) \cup {view}
        /\ WithInFront(rest, view) # <<>>
        /\ Last(WithInFront(rest, view)) = view
    BY <2>1, InFrontViews
  <2>4. QED
    BY <2>2, <2>3 DEF view
<1>4. \A view \in Range(subviews') : view.generation <= generation
  BY <1>1, <1>3, ViewFields DEF ViewsOfBefore
<1>5. /\ rows' \in [Tables -> Nat]
      /\ rows'[Current(kind)] = Len(array)
      /\ \A t \in Tables : t # Current(kind) => rows'[t] = rows[t]
      /\ \A t \in Tables : t.generation > generation => rows'[t] = 0
  BY <1>1, <1>2, Reloaded
<1>6. \A k : Current(k)' = Current(k)
  BY DEF Current
<1>7. \A view : FrontIs(view)' <=> view = Current(kind)
  BY <1>3 DEF FrontIs
<1>8. RowsFit'
  <2>1. rows'[Current("recommend")] <= Len(recommendArray)
    <3>1. Current("recommend") \in Tables
      BY <1>1, CurrentIsATable DEF TableKinds
    <3>2. CASE kind = "recommend"
      BY <1>2, <1>5, <3>2
    <3>3. CASE kind # "recommend"
      <4>1. Current("recommend") # Current(kind)
        BY <3>3, ViewsDiffer DEF TableKinds
      <4>2. QED
        BY <1>1, <1>5, <3>1, <4>1 DEF RowsFit
    <3>4. QED
      BY <3>2, <3>3
  <2>2. FrontIs(Current("following"))' => rows'[Current("following")] <= Len(followingArray)
    <3>1. SUFFICES ASSUME Current("following") = Current(kind)
                   PROVE  rows'[Current("following")] <= Len(followingArray)
      BY <1>6, <1>7 DEF FrontIs
    <3>2. kind = "following"
      BY <3>1, ViewsDiffer DEF TableKinds
    <3>3. QED
      BY <1>2, <1>5, <3>2
  <2>3. FrontIs(Current("feed"))' => rows'[Current("feed")] <= Len(postArray')
    <3>1. SUFFICES ASSUME Current("feed") = Current(kind)
                   PROVE  rows'[Current("feed")] <= Len(postArray')
      BY <1>6, <1>7 DEF FrontIs
    <3>2. kind = "feed"
      BY <3>1, ViewsDiffer DEF TableKinds
    <3>3. QED
      BY <1>2, <1>5, <3>2
  <2>4. QED
    BY <1>6, <2>1, <2>2, <2>3 DEF RowsFit
<1>9. NotSaidEmpty'
  <2>1. EmptyView # Current(kind)
    BY ViewsDiffer DEF TableKinds
  <2>2. ~ FrontIs(EmptyView)'
    BY <1>7, <2>1 DEF FrontIs, EmptyView
  <2>3. QED
    BY <2>2 DEF NotSaidEmpty
<1>10. FeedShowsFollowed'
  <2>1. SUFFICES ASSUME Current("feed") = Current(kind)
                 PROVE  postArray' = followingArray
    BY <1>6, <1>7 DEF FeedShowsFollowed, FrontIs
  <2>2. kind = "feed"
    BY <2>1, ViewsDiffer DEF TableKinds
  <2>3. QED
    BY <2>2
<1>11. QED
  BY <1>3, <1>4, <1>5, <1>8, <1>9, <1>10, SegmentInv

\* Nothing is followed and no table of this appearance is in front.
LEMMA NothingFollowedInv ==
    ASSUME Inv, CanTouch, followingArray = <<>>,
           UNCHANGED <<visible, generation, crashed, arrays, network, rows>>,
           segment' \in Segments,
           subviews' \in Seq(Views), Distinct(subviews'),
           Range(subviews') \subseteq Range(subviews) \cup {EmptyView},
           ~ FrontIs(Current("following"))', ~ FrontIs(Current("feed"))'
    PROVE  Inv'
<1>1. UNCHANGED <<visible, generation, crashed, followingArray, recommendArray, postArray,
                  rows, covering, waiting, fetches, received>>
  BY DEF arrays, network
<1>2. TypeOK /\ ViewsOfBefore /\ RowsFit /\ generation \in Nat
  BY DEF Inv, TypeOK
<1>3. \A view \in Range(subviews') : view.generation <= generation
  BY <1>2, ViewFields DEF ViewsOfBefore
<1>4. RowsFit'
  BY <1>1, <1>2 DEF RowsFit, Current
<1>5. NotSaidEmpty' /\ FeedShowsFollowed'
  BY <1>1 DEF NotSaidEmpty, FeedShowsFollowed
<1>6. /\ segment' \in Segments /\ postArray' \in Seq(Shops) /\ covering' \in BOOLEAN
      /\ fetches' \in 0..MaxFetches /\ waiting' \in 0..fetches'
      /\ rows' \in [Tables -> Nat]
      /\ \A t \in Tables : t.generation > generation => rows'[t] = 0
  BY <1>1, <1>2 DEF TypeOK, ViewsOfBefore
<1>7. QED
  BY <1>1, <1>3, <1>4, <1>5, <1>6, SegmentInv

\* The end of the process: a view of an earlier appearance is in front, or an
\* incomplete record was received.
LEMMA CrashInv ==
    ASSUME Inv, NEW how \in {"cast", "index", "record"}, Crash(how),
           how \in {"cast", "index"} =>
               \E table \in Tables : FrontIs(table) /\ table.generation < generation,
           how = "record" => \E s \in Incomplete : received[s] > 0
    PROVE  Inv'
<1>1. /\ crashed' = how /\ crashed' \in {"no", "cast", "index", "record"}
      /\ UNCHANGED <<visible, generation, segment, subviews, rows, followingArray, recommendArray,
                     postArray, covering, waiting, fetches, received>>
  BY DEF Crash, arrays, network
<1>2. \A view : FrontIs(view)' <=> FrontIs(view)
  BY <1>1 DEF FrontIs
<1>3. TypeOK'
  BY <1>1 DEF Inv, TypeOK
<1>4. ViewsOfBefore' /\ RowsFit'
  BY <1>1 DEF Inv, ViewsOfBefore, RowsFit, Current, FrontIs
<1>5. EntriesReceived' /\ FollowedOncePerFetch'
  BY <1>1, CountsKept
<1>6. NotSaidEmpty' /\ FeedShowsFollowed'
  BY <1>1 DEF Inv, NotSaidEmpty, FeedShowsFollowed, FrontIs, Current
<1>7. CrashesHaveCause'
  BY <1>1, <1>2 DEF CrashesHaveCause
<1>8. QED
  BY <1>3, <1>4, <1>5, <1>6, <1>7 DEF Inv

\* Steps that leave the views, the arrays and a crash as they are.
LEMMA QuietInv ==
    ASSUME Inv, visible' \in BOOLEAN, visible' => visible,
           covering' \in BOOLEAN, fetches' = fetches, waiting' \in 0..fetches,
           UNCHANGED <<generation, segment, subviews, rows, followingArray, recommendArray,
                       postArray, received, crashed>>
    PROVE  Inv'
<1>1. TypeOK'
  BY DEF Inv, TypeOK
<1>2. ViewsOfBefore'
  BY DEF Inv, ViewsOfBefore
<1>3. RowsFit'
  BY DEF Inv, RowsFit, FrontIs, Current
<1>4. EntriesReceived' /\ FollowedOncePerFetch'
  BY CountsKept
<1>5. NotSaidEmpty' /\ FeedShowsFollowed'
  BY DEF Inv, NotSaidEmpty, FeedShowsFollowed, FrontIs, Current
<1>6. CrashesHaveCause'
  BY DEF Inv, CrashesHaveCause, FrontIs
<1>7. QED
  BY <1>1, <1>2, <1>3, <1>4, <1>5, <1>6 DEF Inv

-----------------------------------------------------------------------------
(* The actions.                                                            *)

LEMMA ViewDidAppearInv ==
    ASSUME Inv, ViewDidAppear
    PROVE  Inv'
<1>1. /\ crashed = "no" /\ generation < MaxAppearances /\ visible' = TRUE
      /\ generation' = generation + 1 /\ segment' = 1
      /\ UNCHANGED <<subviews, rows, followingArray, recommendArray, postArray,
                     covering, waiting, fetches, received, crashed>>
  BY DEF ViewDidAppear, arrays, network
<1>2. TypeOK /\ ViewsOfBefore
  BY DEF Inv
<1>3. generation \in Nat /\ MaxAppearances \in Nat /\ generation + 1 \in 1..MaxAppearances
  <2>1. generation \in 0..MaxAppearances /\ MaxAppearances \in Nat
    BY <1>2, FollowingAssumption DEF TypeOK
  <2>2. QED
    BY <1>1, <2>1
<1>4. TypeOK'
  <2>1. generation' \in 0..MaxAppearances /\ segment' \in Segments /\ visible' \in BOOLEAN
    BY <1>1, <1>3 DEF Segments
  <2>2. QED
    BY <1>1, <1>2, <2>1 DEF TypeOK
<1>5. subviews \in Seq(Views)
  BY <1>2 DEF TypeOK, Views
<1>6. ASSUME NEW view \in Range(subviews)
      PROVE  view.generation \in Nat /\ view.generation <= generation
  <2>1. view \in Views
    BY <1>5 DEF Range
  <2>2. view.generation \in Nat
    BY <2>1, <1>3, ViewFields, FollowingAssumption DEF Views, Tables
  <2>3. QED
    BY <2>2, <1>2 DEF ViewsOfBefore
<1>7. ASSUME NEW t \in Tables, t.generation > generation
      PROVE  rows[t] = 0
  BY <1>2, <1>7 DEF ViewsOfBefore
<1>8. \A t \in Tables : t.generation \in Nat
  BY FollowingAssumption DEF Tables
<1>9. ViewsOfBefore'
  <2>1. \A view \in Range(subviews') : view.generation <= generation'
    BY <1>1, <1>3, <1>6
  <2>2. \A t \in Tables : t.generation > generation' => rows'[t] = 0
    BY <1>1, <1>3, <1>7, <1>8
  <2>3. generation' > 0
    BY <1>1, <1>3
  <2>4. QED
    BY <2>1, <2>2, <2>3 DEF ViewsOfBefore
<1>10. ASSUME NEW kind
       PROVE  ~ FrontIs(Current(kind))'
  \* The tables of this appearance are not in the content view yet.
  <2>1. Current(kind)'.generation = generation + 1
    BY <1>1 DEF Current
  <2>2. Current(kind)' \notin Range(subviews)
    BY <1>3, <1>6, <2>1
  <2>3. QED
    BY <1>1, <1>5, <2>2, FrontIsThere DEF FrontIs
<1>11. RowsFit'
  <2>1. rows'[Current("recommend")'] = 0
    <3>1. Current("recommend")' \in Tables
      BY <1>1, <1>3 DEF Current, Tables
    <3>2. Current("recommend")'.generation > generation
      BY <1>1, <1>3 DEF Current
    <3>3. QED
      BY <1>1, <1>7, <3>1, <3>2
  <2>2. Len(recommendArray') \in Nat
    BY <1>4 DEF TypeOK
  <2>3. QED
    BY <1>10, <2>1, <2>2 DEF RowsFit
<1>12. EntriesReceived' /\ FollowedOncePerFetch'
  BY <1>1, CountsKept
<1>13. NotSaidEmpty'
  BY <1>1 DEF Inv, NotSaidEmpty, FrontIs
<1>14. FeedShowsFollowed'
  BY <1>10 DEF FeedShowsFollowed
<1>15. CrashesHaveCause'
  BY <1>1 DEF CrashesHaveCause
<1>16. QED
  BY <1>4, <1>9, <1>11, <1>12, <1>13, <1>14, <1>15 DEF Inv

LEMMA SelectRecommendInv ==
    ASSUME Inv, CanTouch, segment' \in Segments,
           UNCHANGED <<visible, generation, crashed>>, SelectRecommend
    PROVE  Inv'
<1> DEFINE rest == Without(Current("following"), Current("feed"))
<1>1. TypeOK
  BY DEF Inv
<1>2. /\ covering' = TRUE /\ waiting' = waiting + 1 /\ fetches' = fetches + 1
      /\ UNCHANGED <<followingArray, recommendArray, postArray, received>>
      /\ subviews' = WithInFront(rest, Current("recommend"))
      /\ rows' = [rows EXCEPT ![Current("recommend")] = Len(recommendArray)]
      /\ fetches < MaxFetches
  BY DEF SelectRecommend, arrays
<1>3. fetches' \in 0..MaxFetches /\ waiting' \in 0..fetches'
  <2>1. fetches \in 0..MaxFetches /\ waiting \in 0..fetches /\ MaxFetches \in Nat
    BY <1>1, FollowingAssumption DEF TypeOK
  <2>2. QED
    BY <1>2, <2>1
<1>4. rest \in Seq(Views) /\ Distinct(rest) /\ Range(rest) \subseteq Range(subviews)
  BY <1>1, Rest
<1> HIDE DEF rest
<1>5. /\ segment' \in Segments /\ covering' \in BOOLEAN /\ postArray' \in Seq(Shops)
      /\ "recommend" \in TableKinds
  BY <1>1, <1>2 DEF TypeOK, TableKinds
<1>6. QED
  BY <1>2, <1>3, <1>4, <1>5, ShownInv

LEMMA SelectFollowingInv ==
    ASSUME Inv, CanTouch, segment' \in Segments,
           UNCHANGED <<visible, generation, crashed>>, SelectFollowing
    PROVE  Inv'
<1> DEFINE rest   == Without(Current("recommend"), Current("feed"))
           hidden == Removed(rest, Current("following"))
           loaded == Removed(rest, EmptyView)
<1>1. TypeOK
  BY DEF Inv
<1>2. /\ UNCHANGED <<arrays, network>>
      /\ UNCHANGED <<followingArray, recommendArray, postArray, covering, waiting, fetches, received>>
  BY DEF SelectFollowing, arrays, network
<1>3. rest \in Seq(Views) /\ Distinct(rest)
      /\ Range(rest) = Range(subviews) \ {Current("recommend"), Current("feed")}
  BY <1>1, Rest
<1>4. /\ hidden \in Seq(Views) /\ Distinct(hidden)
      /\ Range(hidden) = Range(rest) \ {Current("following")}
  BY <1>3, RemovedViews
<1>5. /\ loaded \in Seq(Views) /\ Distinct(loaded)
      /\ Range(loaded) = Range(rest) \ {EmptyView}
  BY <1>3, RemovedViews
<1>6. CASE followingArray = <<>>
  <2>1. subviews' = hidden /\ UNCHANGED rows
    BY <1>6 DEF SelectFollowing
  <2> HIDE DEF rest, hidden
  <2>2. Current("following") \notin Range(hidden) /\ Current("feed") \notin Range(hidden)
    BY <1>3, <1>4
  <2>3. ~ FrontIs(Current("following"))' /\ ~ FrontIs(Current("feed"))'
    <3>1. Current("following")' = Current("following") /\ Current("feed")' = Current("feed")
      BY DEF Current
    <3>2. QED
      BY <1>4, <2>1, <2>2, <3>1, FrontIsThere DEF FrontIs
  <2>4. segment' \in Segments
    BY <1>2
  <2>5. QED
    BY <1>2, <1>3, <1>4, <1>6, <2>1, <2>3, <2>4, NothingFollowedInv
<1>7. CASE followingArray # <<>>
  <2>1. /\ subviews' = WithInFront(loaded, Current("following"))
        /\ rows' = [rows EXCEPT ![Current("following")] = Len(followingArray)]
    BY <1>7 DEF SelectFollowing
  <2>2. Range(loaded) \subseteq Range(subviews)
    BY <1>3, <1>5
  <2> HIDE DEF rest, loaded
  <2>3. /\ segment' \in Segments /\ covering' \in BOOLEAN /\ postArray' \in Seq(Shops)
        /\ fetches' \in 0..MaxFetches /\ waiting' \in 0..fetches'
        /\ "following" \in TableKinds
    BY <1>1, <1>2 DEF TypeOK, TableKinds
  <2>4. QED
    BY <1>2, <1>5, <2>1, <2>2, <2>3, ShownInv
<1>8. QED
  BY <1>6, <1>7

LEMMA SelectFeedInv ==
    ASSUME Inv, CanTouch, segment' \in Segments,
           UNCHANGED <<visible, generation, crashed>>, SelectFeed
    PROVE  Inv'
<1> DEFINE rest   == Without(Current("following"), Current("recommend"))
           hidden == Removed(rest, Current("feed"))
           loaded == Removed(rest, EmptyView)
<1>1. TypeOK
  BY DEF Inv
<1>2. /\ UNCHANGED <<followingArray, recommendArray, network>>
      /\ UNCHANGED <<covering, waiting, fetches, received>>
  BY DEF SelectFeed, network
<1>3. rest \in Seq(Views) /\ Distinct(rest) /\ Range(rest) \subseteq Range(subviews)
  BY <1>1, Rest
<1>4. /\ hidden \in Seq(Views) /\ Distinct(hidden)
      /\ Range(hidden) = Range(rest) \ {Current("feed")}
  BY <1>3, RemovedViews
<1>5. /\ loaded \in Seq(Views) /\ Distinct(loaded)
      /\ Range(loaded) = Range(rest) \ {EmptyView}
  BY <1>3, RemovedViews
<1>6. CASE followingArray = <<>>
  <2>1. subviews' = WithInFront(hidden, EmptyView) /\ UNCHANGED <<rows, postArray>>
    BY <1>6 DEF SelectFeed
  <2> HIDE DEF rest, hidden
  <2>2. EmptyView \in Views
    BY DEF Views
  <2>3. /\ subviews' \in Seq(Views) /\ Distinct(subviews')
        /\ Range(subviews') = Range(hidden) \cup {EmptyView}
        /\ Last(subviews') = EmptyView
    <3>1. /\ WithInFront(hidden, EmptyView) \in Seq(Views)
          /\ Distinct(WithInFront(hidden, EmptyView))
          /\ Range(WithInFront(hidden, EmptyView)) = Range(hidden) \cup {EmptyView}
          /\ Last(WithInFront(hidden, EmptyView)) = EmptyView
      <4> DEFINE view == EmptyView
      <4>1. hidden \in Seq(Views) /\ Distinct(hidden) /\ view \in Views
        BY <1>4, <2>2
      <4> HIDE DEF view
      <4>2. /\ WithInFront(hidden, view) \in Seq(Views)
            /\ Distinct(WithInFront(hidden, view))
            /\ Range(WithInFront(hidden, view)) = Range(hidden) \cup {view}
            /\ Last(WithInFront(hidden, view)) = view
        BY <4>1, InFrontViews
      <4>3. QED
        BY <4>2 DEF view
    <3>2. QED
      BY <2>1, <3>1
  <2>4. ~ FrontIs(Current("following"))' /\ ~ FrontIs(Current("feed"))'
    <3>1. Current("following")' = Current("following") /\ Current("feed")' = Current("feed")
      BY DEF Current
    <3>2. QED
      BY <2>3, <3>1, ViewsDiffer DEF FrontIs
  <2>5. segment' \in Segments /\ Range(subviews') \subseteq Range(subviews) \cup {EmptyView}
    BY <1>2, <1>3, <1>4, <2>3
  <2>6. UNCHANGED arrays
    BY <1>2, <2>1 DEF arrays
  <2>7. QED
    BY <1>2, <1>6, <2>1, <2>3, <2>4, <2>5, <2>6, NothingFollowedInv
<1>7. CASE followingArray # <<>>
  <2>1. /\ subviews' = WithInFront(loaded, Current("feed"))
        /\ postArray' = followingArray
        /\ rows' = [rows EXCEPT ![Current("feed")] = Len(followingArray)]
    BY <1>7 DEF SelectFeed
  <2>2. Range(loaded) \subseteq Range(subviews)
    BY <1>3, <1>5
  <2> HIDE DEF rest, loaded
  <2>3. /\ segment' \in Segments /\ covering' \in BOOLEAN /\ postArray' \in Seq(Shops)
        /\ fetches' \in 0..MaxFetches /\ waiting' \in 0..fetches'
        /\ "feed" \in TableKinds
    BY <1>1, <1>2, <2>1 DEF TypeOK, TableKinds
  <2>4. QED
    BY <1>2, <1>5, <2>1, <2>2, <2>3, ShownInv
<1>8. QED
  BY <1>6, <1>7

-----------------------------------------------------------------------------
(* The recommendations and the buttons.                                    *)

Entry == [shop : Shops, isFollowing : IsFollowing]

\* None of the shops received has a flag: each is an entry and an offer.
LEMMA ReceivedCounts ==
    ASSUME TypeOK, NEW list \in Recommendations,
           recommendArray' = [i \in DOMAIN list |-> [shop |-> list[i], isFollowing |-> "nil"]]
    PROVE  /\ list \in Seq(Shops)
           /\ recommendArray' \in Seq(Entry)
           /\ Len(recommendArray') = Len(list)
           /\ \A s : Entries(s)' = Times(list, s) /\ Offered(s)' = Times(list, s)
<1>1. list \in Seq(Shops) /\ Len(list) \in Nat /\ DOMAIN list = 1..Len(list)
  BY FollowingAssumption
<1>2. ASSUME NEW i \in 1..Len(list)
      PROVE  /\ recommendArray'[i] \in Entry
             /\ recommendArray'[i].shop = list[i]
             /\ recommendArray'[i].isFollowing = "nil"
  <2>1. recommendArray'[i] = [shop |-> list[i], isFollowing |-> "nil"]
    BY <1>1
  <2>2. list[i] \in Shops /\ "nil" \in IsFollowing
    BY <1>1 DEF IsFollowing
  <2>3. QED
    BY <2>1, <2>2 DEF Entry
<1>3. /\ recommendArray' \in Seq(Entry) /\ Len(recommendArray') = Len(list)
      /\ DOMAIN recommendArray' = DOMAIN list
  <2>1. recommendArray' = [i \in 1..Len(list) |-> recommendArray'[i]]
    BY <1>1
  <2>2. recommendArray' \in [1..Len(list) -> Entry]
    BY <1>2, <2>1
  <2>3. QED
    BY <1>1, <2>2
<1>4. ASSUME NEW s
      PROVE  Entries(s)' = Times(list, s) /\ Offered(s)' = Times(list, s)
  <2>1. {i \in DOMAIN recommendArray' : recommendArray'[i].shop = s} = {i \in DOMAIN list : list[i] = s}
    BY <1>1, <1>2, <1>3
  <2>2. {i \in DOMAIN recommendArray' :
             recommendArray'[i].shop = s /\ recommendArray'[i].isFollowing # "true"}
            = {i \in DOMAIN list : list[i] = s}
    BY <1>1, <1>2, <1>3
  <2>3. QED
    BY <2>1, <2>2 DEF Entries, Offered, Times
<1>5. QED
  BY <1>1, <1>3, <1>4

LEMMA CountsAreNat ==
    ASSUME TypeOK, NEW s
    PROVE  /\ Times(followingArray, s) \in Nat
           /\ Offered(s) \in Nat /\ Entries(s) \in Nat
           /\ Offered(s) <= Entries(s)
           /\ IsFiniteSet({i \in DOMAIN recommendArray : recommendArray[i].shop = s})
<1>1. followingArray \in Seq(Shops) /\ recommendArray \in Seq(Entry)
  BY DEF TypeOK, Entry
<1>2. Times(followingArray, s) \in Nat
  BY <1>1, TimesIsNat
<1> DEFINE E == {i \in DOMAIN recommendArray : recommendArray[i].shop = s}
           O == {i \in DOMAIN recommendArray :
                     recommendArray[i].shop = s /\ recommendArray[i].isFollowing # "true"}
<1>3. IsFiniteSet(1..Len(recommendArray)) /\ DOMAIN recommendArray = 1..Len(recommendArray)
  BY <1>1, FS_Interval
<1>4. IsFiniteSet(E)
  BY <1>3, FS_Subset
<1>5. O \in SUBSET E
  OBVIOUS
<1>6. Offered(s) = Cardinality(O) /\ Entries(s) = Cardinality(E)
  BY DEF Offered, Entries
<1>7. IsFiniteSet(E) /\ E = {i \in DOMAIN recommendArray : recommendArray[i].shop = s}
  BY <1>4
<1> HIDE DEF E, O
<1>8. IsFiniteSet(O) /\ Cardinality(O) <= Cardinality(E)
  BY <1>4, <1>5, FS_Subset
<1>9. Cardinality(O) \in Nat /\ Cardinality(E) \in Nat
  BY <1>4, <1>8, FS_CardinalityType
<1>10. QED
  BY <1>2, <1>6, <1>7, <1>8, <1>9

\* A flag that changes makes no entry, and an offer only of its own shop.
LEMMA FlagChanged ==
    ASSUME TypeOK, NEW row \in DOMAIN recommendArray, NEW flag \in IsFollowing,
           recommendArray' = [recommendArray EXCEPT ![row].isFollowing = flag]
    PROVE  /\ recommendArray' \in Seq(Entry)
           /\ Len(recommendArray') = Len(recommendArray)
           /\ \A s : Entries(s)' = Entries(s)
           /\ \A s : \E n \in Nat :
                  /\ Offered(s) = n + (IF /\ recommendArray[row].shop = s
                                          /\ recommendArray[row].isFollowing # "true"
                                       THEN 1 ELSE 0)
                  /\ Offered(s)' = n + (IF recommendArray[row].shop = s /\ flag # "true"
                                        THEN 1 ELSE 0)
<1>1. /\ recommendArray \in Seq(Entry) /\ Len(recommendArray) \in Nat
      /\ DOMAIN recommendArray = 1..Len(recommendArray)
      /\ recommendArray[row] \in Entry
  <2>1. recommendArray \in Seq(Entry)
    BY DEF TypeOK, Entry
  <2>2. QED
    BY <2>1
<1>2. /\ recommendArray'[row] = [recommendArray[row] EXCEPT !.isFollowing = flag]
      /\ \A i \in DOMAIN recommendArray \ {row} : recommendArray'[i] = recommendArray[i]
      /\ DOMAIN recommendArray' = DOMAIN recommendArray
  BY <1>1
<1>3. /\ recommendArray'[row].shop = recommendArray[row].shop
      /\ recommendArray'[row].isFollowing = flag
      /\ recommendArray'[row] \in Entry
  BY <1>1, <1>2 DEF Entry
<1>4. recommendArray' \in Seq(Entry) /\ Len(recommendArray') = Len(recommendArray)
  <2>1. \A i \in 1..Len(recommendArray) : recommendArray'[i] \in Entry
    BY <1>1, <1>2, <1>3
  <2>2. recommendArray' = [i \in 1..Len(recommendArray) |-> recommendArray'[i]]
    BY <1>1
  <2>3. recommendArray' \in [1..Len(recommendArray) -> Entry]
    BY <2>1, <2>2
  <2>4. QED
    BY <1>1, <2>3
<1>5. ASSUME NEW s
      PROVE  Entries(s)' = Entries(s)
  <2>1. {i \in DOMAIN recommendArray' : recommendArray'[i].shop = s}
            = {i \in DOMAIN recommendArray : recommendArray[i].shop = s}
    BY <1>2, <1>3
  <2>2. QED
    BY <2>1 DEF Entries
<1>6. ASSUME NEW s
      PROVE  \E n \in Nat :
                  /\ Offered(s) = n + (IF /\ recommendArray[row].shop = s
                                          /\ recommendArray[row].isFollowing # "true"
                                       THEN 1 ELSE 0)
                  /\ Offered(s)' = n + (IF recommendArray[row].shop = s /\ flag # "true"
                                        THEN 1 ELSE 0)
  <2> DEFINE E == {i \in DOMAIN recommendArray : recommendArray[i].shop = s}
             O == {i \in DOMAIN recommendArray :
                       recommendArray[i].shop = s /\ recommendArray[i].isFollowing # "true"}
             P == {i \in DOMAIN recommendArray' :
                       recommendArray'[i].shop = s /\ recommendArray'[i].isFollowing # "true"}
  <2>1. IsFiniteSet(E) /\ O \in SUBSET E /\ P \in SUBSET E
    BY <1>2, <1>3, CountsAreNat
  <2>2. O \ {row} = P \ {row}
    BY <1>2
  <2>3. row \in O <=> (recommendArray[row].shop = s /\ recommendArray[row].isFollowing # "true")
    OBVIOUS
  <2>4. row \in P <=> (recommendArray[row].shop = s /\ flag # "true")
    BY <1>2, <1>3
  <2>5. Offered(s) = Cardinality(O) /\ Offered(s)' = Cardinality(P)
    BY DEF Offered
  <2> HIDE DEF E, O, P
  <2>6. IsFiniteSet(O) /\ IsFiniteSet(P)
    BY <2>1, FS_Subset
  <2>7. /\ Cardinality(O) \in Nat /\ Cardinality(P) \in Nat
        /\ IsFiniteSet(O \ {row}) /\ Cardinality(O \ {row}) \in Nat
    BY <2>6, FS_CardinalityType, FS_RemoveElement
  <2>8. /\ Cardinality(O \ {row}) = IF row \in O THEN Cardinality(O) - 1 ELSE Cardinality(O)
        /\ Cardinality(P \ {row}) = IF row \in P THEN Cardinality(P) - 1 ELSE Cardinality(P)
    BY <2>6, FS_RemoveElement
  <2> DEFINE n == Cardinality(O \ {row})
  <2>9. Cardinality(O) = n + (IF row \in O THEN 1 ELSE 0)
    BY <2>7, <2>8
  <2>10. Cardinality(P) = n + (IF row \in P THEN 1 ELSE 0)
    <3>1. Cardinality(P \ {row}) = n
      BY <2>2
    <3> HIDE DEF n
    <3>2. QED
      BY <2>7, <2>8, <3>1
  <2>11. n \in Nat
    BY <2>7
  <2> HIDE DEF n
  <2>12. QED
    BY <2>3, <2>4, <2>5, <2>9, <2>10, <2>11
<1>7. QED
  BY <1>4, <1>5, <1>6

LEMMA RecommendSuccessInv ==
    ASSUME Inv, NEW list \in Recommendations, RecommendSuccess(list)
    PROVE  Inv'
<1>1. /\ waiting > 0 /\ waiting' = waiting - 1 /\ covering' = FALSE
      /\ recommendArray' = [i \in DOMAIN list |-> [shop |-> list[i], isFollowing |-> "nil"]]
      /\ received' = [s \in Shops |-> received[s] + Times(list, s)]
      /\ rows' = IF generation = 0 THEN rows
                 ELSE [rows EXCEPT ![Current("recommend")] = Len(list)]
      /\ UNCHANGED <<visible, generation, segment, subviews, followingArray, postArray,
                     fetches, crashed>>
  BY DEF RecommendSuccess
<1>2. TypeOK /\ ViewsOfBefore /\ RowsFit /\ generation \in Nat
  BY DEF Inv, TypeOK
<1>3. /\ list \in Seq(Shops) /\ recommendArray' \in Seq(Entry)
      /\ Len(recommendArray') = Len(list) /\ Len(list) \in Nat
      /\ \A s : Entries(s)' = Times(list, s) /\ Offered(s)' = Times(list, s)
      /\ \A s : Times(list, s) \in Nat
  <2>1. /\ list \in Seq(Shops) /\ recommendArray' \in Seq(Entry)
        /\ Len(recommendArray') = Len(list)
        /\ \A s : Entries(s)' = Times(list, s) /\ Offered(s)' = Times(list, s)
    BY <1>1, <1>2, ReceivedCounts
  <2>2. Len(list) \in Nat
    BY <2>1
  <2>3. \A s : Times(list, s) \in Nat
    BY <2>1, TimesIsNat
  <2>4. QED
    BY <2>1, <2>2, <2>3
<1>4. waiting' \in 0..fetches'
  <2>1. waiting \in 0..fetches /\ fetches \in Nat
    BY <1>2 DEF TypeOK
  <2>2. QED
    BY <1>1, <2>1
<1>5. received' \in [Shops -> Nat]
  <2>1. \A s \in Shops : received[s] + Times(list, s) \in Nat
    BY <1>2, <1>3 DEF TypeOK
  <2>2. QED
    BY <1>1, <2>1
<1>6. /\ rows' \in [Tables -> Nat]
      /\ generation > 0 => rows'[Current("recommend")] = Len(list)
      /\ \A t \in Tables : t # Current("recommend") => rows'[t] = rows[t]
      /\ \A t \in Tables : t.generation > generation => rows'[t] = 0
  <2>1. CASE generation = 0
    BY <1>1, <1>2, <2>1 DEF TypeOK, ViewsOfBefore
  <2>2. CASE generation > 0
    <3>1. "recommend" \in TableKinds
      BY DEF TableKinds
    <3>2. rows' = [rows EXCEPT ![Current("recommend")] = Len(list)]
      BY <1>1, <2>2
    <3>3. QED
      BY <1>2, <1>3, <2>2, <3>1, <3>2, Reloaded
  <2>3. QED
    BY <1>2, <2>1, <2>2
<1>7. TypeOK'
  <2>1. recommendArray' \in Seq([shop : Shops, isFollowing : IsFollowing])
    BY <1>3 DEF Entry
  <2>2. covering' \in BOOLEAN
    BY <1>1
  <2>3. QED
    BY <1>1, <1>2, <1>4, <1>5, <1>6, <2>1, <2>2 DEF TypeOK
<1>8. ViewsOfBefore'
  BY <1>1, <1>2, <1>6 DEF ViewsOfBefore
<1>9. /\ \A k : Current(k)' = Current(k)
      /\ \A view : (subviews' # <<>> /\ Last(subviews') = view) <=> FrontIs(view)
  BY <1>1 DEF Current, FrontIs
<1>10. RowsFit'
  <2>1. generation > 0 => rows'[Current("recommend")] <= Len(recommendArray')
    BY <1>3, <1>6
  <2>2. ASSUME NEW kind \in {"following", "feed"}, FrontIs(Current(kind))
        PROVE  rows'[Current(kind)] = rows[Current(kind)]
    <3>1. Current(kind) \in Views
      <4>1. Current(kind) \in Range(subviews) /\ subviews \in Seq(Views)
        BY <1>2, <2>2, FrontIsThere DEF FrontIs, TypeOK, Views
      <4>2. QED
        BY <4>1 DEF Range
    <3>2. Current(kind) \in Tables /\ Current(kind) # Current("recommend")
      BY <3>1, ViewsDiffer DEF Views
    <3>3. QED
      BY <1>6, <3>2
  <2>3. FrontIs(Current("following")) => rows'[Current("following")] <= Len(followingArray)
    BY <1>2, <2>2 DEF RowsFit
  <2>4. FrontIs(Current("feed")) => rows'[Current("feed")] <= Len(postArray)
    BY <1>2, <2>2 DEF RowsFit
  <2>5. QED
    BY <1>1, <1>9, <2>1, <2>3, <2>4 DEF RowsFit, FrontIs
<1>11. EntriesReceived' /\ FollowedOncePerFetch'
  <2>1. SUFFICES ASSUME NEW s \in Shops
                 PROVE  /\ Entries(s)' <= received'[s]
                        /\ Times(followingArray, s) + Offered(s)' <= received'[s]
    BY <1>1 DEF EntriesReceived, FollowedOncePerFetch, Times
  <2>2. Times(followingArray, s) + Offered(s) <= received[s]
    BY DEF Inv, FollowedOncePerFetch
  <2>3. Times(followingArray, s) \in Nat /\ Offered(s) \in Nat /\ received[s] \in Nat
    BY <1>2, CountsAreNat DEF TypeOK
  <2>4. received'[s] = received[s] + Times(list, s)
    BY <1>1
  <2>5. Entries(s)' = Times(list, s) /\ Offered(s)' = Times(list, s) /\ Times(list, s) \in Nat
    BY <1>3
  <2>6. QED
    BY <2>2, <2>3, <2>4, <2>5
<1>12. NotSaidEmpty' /\ FeedShowsFollowed'
  BY <1>1 DEF Inv, NotSaidEmpty, FeedShowsFollowed, FrontIs, Current
<1>13. CrashesHaveCause'
  BY <1>1 DEF RecommendSuccess, CrashesHaveCause
<1>14. QED
  BY <1>7, <1>8, <1>10, <1>11, <1>12, <1>13 DEF Inv

\* An entry's button moves a shop between the offers and the followed ones, or
\* offers it again because it is not followed any more.
LEMMA ToggledCounts ==
    ASSUME Inv, NEW row \in DOMAIN recommendArray,
           followingArray' = Toggled(recommendArray[row]).following,
           recommendArray' = [recommendArray EXCEPT
                                 ![row].isFollowing = Toggled(recommendArray[row]).isFollowing],
           UNCHANGED received
    PROVE  /\ followingArray' \in Seq(Shops)
           /\ recommendArray' \in Seq(Entry)
           /\ Len(recommendArray') = Len(recommendArray)
           /\ EntriesReceived' /\ FollowedOncePerFetch'
<1> DEFINE entry == recommendArray[row]
           flag  == Toggled(entry).isFollowing
<1>1. TypeOK
  BY DEF Inv
<1>2. followingArray \in Seq(Shops) /\ entry \in Entry
  <2>1. followingArray \in Seq(Shops) /\ recommendArray \in Seq(Entry)
    BY <1>1 DEF TypeOK, Entry
  <2>2. QED
    BY <2>1
<1>3. entry.shop \in Shops /\ entry.isFollowing \in IsFollowing
  BY <1>2 DEF Entry
<1>4. /\ entry.isFollowing = "nil" =>
             followingArray' = Append(followingArray, entry.shop) /\ flag = "true"
      /\ entry.isFollowing = "true" =>
             followingArray' = FollowingWithout(entry.shop) /\ flag = "false"
      /\ entry.isFollowing = "false" =>
             followingArray' = FollowingWithout(entry.shop) /\ flag = "true"
  BY DEF Toggled
<1>5. flag \in IsFollowing
  BY <1>3, <1>4 DEF IsFollowing
<1>6. recommendArray' = [recommendArray EXCEPT ![row].isFollowing = flag]
  OBVIOUS
<1>7. /\ recommendArray' \in Seq(Entry)
      /\ Len(recommendArray') = Len(recommendArray)
      /\ \A s : Entries(s)' = Entries(s)
      /\ \A s : \E n \in Nat :
             /\ Offered(s) = n + (IF entry.shop = s /\ entry.isFollowing # "true" THEN 1 ELSE 0)
             /\ Offered(s)' = n + (IF entry.shop = s /\ flag # "true" THEN 1 ELSE 0)
  <2> HIDE DEF flag
  <2>1. QED
    BY <1>1, <1>5, <1>6, FlagChanged
<1>8. followingArray' \in Seq(Shops)
  <2>1. CASE entry.isFollowing = "nil"
    BY <1>2, <1>3, <1>4, <2>1
  <2>2. CASE entry.isFollowing # "nil"
    <3>1. followingArray' = FollowingWithout(entry.shop)
      BY <1>3, <1>4, <2>2 DEF IsFollowing
    <3>2. QED
      BY <1>2, <3>1, FollowingWithoutOne
  <2>3. QED
    BY <2>1, <2>2
<1> HIDE DEF flag
<1>9. EntriesReceived'
  BY <1>7 DEF Inv, EntriesReceived
<1>10. ASSUME NEW s \in Shops
       PROVE  Times(followingArray', s) + Offered(s)' <= received[s]
  <2>1. /\ Times(followingArray, s) \in Nat /\ Offered(s) \in Nat /\ Entries(s) \in Nat
        /\ received[s] \in Nat
        /\ Times(followingArray', s) \in Nat
    BY <1>1, <1>8, CountsAreNat, TimesIsNat DEF TypeOK
  <2>2. Times(followingArray, s) + Offered(s) <= received[s] /\ Entries(s) <= received[s]
    BY DEF Inv, FollowedOncePerFetch, EntriesReceived
  <2>3. PICK n \in Nat :
             /\ Offered(s) = n + (IF entry.shop = s /\ entry.isFollowing # "true" THEN 1 ELSE 0)
             /\ Offered(s)' = n + (IF entry.shop = s /\ flag # "true" THEN 1 ELSE 0)
    BY <1>7
  <2>4. CASE entry.shop # s
    <3>1. Offered(s)' = Offered(s)
      BY <2>3, <2>4
    <3>2. Times(followingArray', s) <= Times(followingArray, s)
      <4>1. CASE entry.isFollowing = "nil"
        <5>1. Times(Append(followingArray, entry.shop), s)
                  = Times(followingArray, s) + (IF entry.shop = s THEN 1 ELSE 0)
          BY <1>2, <1>3, TimesAppend
        <5>2. followingArray' = Append(followingArray, entry.shop)
          BY <1>4, <4>1
        <5>3. Times(followingArray', s) = Times(followingArray, s) + 0
          BY <2>4, <5>1, <5>2
        <5>4. QED
          BY <2>1, <5>3
      <4>2. CASE entry.isFollowing # "nil"
        <5>1. followingArray' = FollowingWithout(entry.shop)
          BY <1>3, <1>4, <4>2 DEF IsFollowing
        <5>2. QED
          BY <1>2, <5>1, FollowingWithoutOne
      <4>3. QED
        BY <4>1, <4>2
    <3>3. QED
      BY <2>1, <2>2, <3>1, <3>2
  <2>5. CASE entry.shop = s /\ entry.isFollowing = "nil"
    <3>1. Offered(s) = n + 1 /\ Offered(s)' = n
      BY <1>4, <2>3, <2>5
    <3>2. Times(Append(followingArray, s), s)
              = Times(followingArray, s) + (IF s = s THEN 1 ELSE 0)
      BY <1>2, <1>3, <2>5, TimesAppend
    <3>3. followingArray' = Append(followingArray, s)
      BY <1>4, <2>5
    <3>4. Times(followingArray', s) = Times(followingArray, s) + 1
      BY <3>2, <3>3
    <3>5. QED
      BY <2>1, <2>2, <3>1, <3>4
  <2>6. CASE entry.shop = s /\ entry.isFollowing = "true"
    <3>1. Offered(s) = n /\ Offered(s)' = n + 1
      <4>1. flag = "false"
        BY <1>4, <2>6
      <4>2. QED
        BY <2>3, <2>6, <4>1
    <3>2. followingArray' = FollowingWithout(s)
      BY <1>4, <2>6
    <3>3. \/ Times(followingArray, s) = 0 /\ Times(followingArray', s) = 0
          \/ Times(followingArray', s) = Times(followingArray, s) - 1
      <4>1. /\ Times(followingArray', s) <= Times(followingArray, s)
            /\ \/ Times(followingArray, s) = 0
               \/ Times(followingArray', s) = Times(followingArray, s) - 1
        BY <1>2, <3>2, FollowingWithoutOne
      <4>2. QED
        BY <2>1, <4>1
    <3>4. CASE Times(followingArray, s) = 0 /\ Times(followingArray', s) = 0
      \* The offer is one of the entries, and none of them is followed.
      <4>1. Offered(s)' <= Entries(s)'
        <5>1. IsFiniteSet({i \in DOMAIN recommendArray : recommendArray[i].shop = s}')
          <6>1. recommendArray' \in Seq(Entry)
            BY <1>7
          <6>2. IsFiniteSet(1..Len(recommendArray')) /\ DOMAIN recommendArray' = 1..Len(recommendArray')
            BY <6>1, FS_Interval
          <6>3. QED
            BY <6>2, FS_Subset
        <5>2. QED
          BY <5>1, FS_Subset DEF Offered, Entries
      <4>2. QED
        BY <1>7, <2>1, <2>2, <3>1, <3>4, <4>1
    <3>5. CASE Times(followingArray', s) = Times(followingArray, s) - 1
      BY <2>1, <2>2, <3>1, <3>5
    <3>6. QED
      BY <3>3, <3>4, <3>5
  <2>7. CASE entry.shop = s /\ entry.isFollowing = "false"
    <3>1. Offered(s) = n + 1 /\ Offered(s)' = n
      <4>1. flag = "true"
        BY <1>4, <2>7
      <4>2. QED
        BY <2>3, <2>7, <4>1
    <3>2. followingArray' = FollowingWithout(s)
      BY <1>4, <2>7
    <3>3. Times(followingArray', s) <= Times(followingArray, s)
      BY <1>2, <3>2, FollowingWithoutOne
    <3>4. QED
      BY <2>1, <2>2, <3>1, <3>3
  <2>8. QED
    BY <1>3, <2>4, <2>5, <2>6, <2>7 DEF IsFollowing
<1>11. FollowedOncePerFetch'
  <2>1. \A s : Times(followingArray, s)' = Times(followingArray', s)
    BY DEF Times
  <2>2. QED
    BY <1>10, <2>1 DEF FollowedOncePerFetch
<1>12. QED
  BY <1>7, <1>8, <1>9, <1>11

\* A row of a table in front that its array does not have: the table is an
\* earlier one.
LEMMA BeyondIsOld ==
    ASSUME Inv, NEW table \in Tables, FrontIs(table), NEW row \in Nat, row <= rows[table],
           \/ table.kind = "following" /\ row > Len(followingArray)
           \/ table.kind = "recommend" /\ row > Len(recommendArray)
           \/ table.kind = "feed" /\ row > Len(postArray)
    PROVE  table.generation < generation
<1>1. TypeOK /\ ViewsOfBefore /\ RowsFit
  BY DEF Inv
<1>2. /\ table.generation \in Nat /\ table.generation <= generation /\ generation \in Nat
      /\ generation > 0
      /\ table.generation = generation => table = Current(table.kind)
  BY <1>1, FrontOfBefore
<1>3. /\ rows[table] \in Nat /\ Len(followingArray) \in Nat /\ Len(recommendArray) \in Nat
      /\ Len(postArray) \in Nat
  BY <1>1 DEF TypeOK
<1>4. ASSUME table.generation = generation
      PROVE  FALSE
  <2>1. table = Current(table.kind)
    BY <1>2, <1>4
  <2>2. CASE table.kind = "following" /\ row > Len(followingArray)
    <3>1. rows[table] <= Len(followingArray)
      BY <1>1, <2>1, <2>2 DEF RowsFit
    <3>2. QED
      BY <1>3, <2>2, <3>1
  <2>3. CASE table.kind = "recommend" /\ row > Len(recommendArray)
    <3>1. rows[table] <= Len(recommendArray)
      BY <1>1, <1>2, <2>1, <2>3 DEF RowsFit
    <3>2. QED
      BY <1>3, <2>3, <3>1
  <2>4. CASE table.kind = "feed" /\ row > Len(postArray)
    <3>1. rows[table] <= Len(postArray)
      BY <1>1, <2>1, <2>4 DEF RowsFit
    <3>2. QED
      BY <1>3, <2>4, <3>1
  <2>5. QED
    BY <2>2, <2>3, <2>4
<1>5. QED
  BY <1>2, <1>4

\* What is in the arrays was received.
LEMMA HeldWasReceived ==
    ASSUME Inv, NEW s \in Shops,
           \/ \E i \in DOMAIN followingArray : followingArray[i] = s
           \/ \E i \in DOMAIN recommendArray : recommendArray[i].shop = s
    PROVE  received[s] > 0
<1>1. /\ Times(followingArray, s) \in Nat /\ Offered(s) \in Nat /\ Entries(s) \in Nat
      /\ received[s] \in Nat
  BY CountsAreNat DEF Inv, TypeOK
<1>2. Times(followingArray, s) + Offered(s) <= received[s] /\ Entries(s) <= received[s]
  BY DEF Inv, FollowedOncePerFetch, EntriesReceived
<1>3. CASE \E i \in DOMAIN followingArray : followingArray[i] = s
  <2>1. followingArray \in Seq(Shops)
    BY DEF Inv, TypeOK
  <2>2. Times(followingArray, s) # 0
    <3> DEFINE found == {i \in DOMAIN followingArray : followingArray[i] = s}
    <3>1. IsFiniteSet(found) /\ found # {}
      BY <1>3, <2>1, TimesIsNat
    <3>2. Times(followingArray, s) = Cardinality(found)
      BY DEF Times
    <3> HIDE DEF found
    <3>3. QED
      BY <3>1, <3>2, FS_EmptySet
  <2>3. QED
    BY <1>1, <1>2, <2>2
<1>4. CASE \E i \in DOMAIN recommendArray : recommendArray[i].shop = s
  <2>1. IsFiniteSet({i \in DOMAIN recommendArray : recommendArray[i].shop = s})
    BY CountsAreNat DEF Inv
  <2>2. Entries(s) # 0
    BY <1>4, <2>1, FS_EmptySet DEF Entries
  <2>3. QED
    BY <1>1, <1>2, <2>2
<1>5. QED
  BY <1>3, <1>4

LEMMA FollowingButtonPressedInv ==
    ASSUME Inv, NEW row \in Nat \ {0}, FollowingButtonPressed(row)
    PROVE  Inv'
<1>1. TypeOK /\ ViewsOfBefore /\ RowsFit
  BY DEF Inv
<1>2. PICK g \in 1..generation :
             LET table == [kind |-> "recommend", generation |-> g]
             IN  FrontIs(table) /\ row <= rows[table]
  BY DEF FollowingButtonPressed, HasButton
<1> DEFINE table == [kind |-> "recommend", generation |-> g]
<1>3. /\ table \in Tables /\ table.kind = "recommend" /\ table.generation = g
      /\ FrontIs(table) /\ row <= rows[table]
  <2>1. generation \in 0..MaxAppearances /\ MaxAppearances \in Nat
    BY <1>1, FollowingAssumption DEF TypeOK
  <2>2. g \in 1..MaxAppearances
    BY <2>1
  <2>3. QED
    BY <1>2, <2>2 DEF Tables
<1> HIDE DEF table
<1>4. /\ generation > 0 /\ generation \in Nat
      /\ Len(recommendArray) \in Nat
      /\ recommendArray \in Seq(Entry)
  <2>1. generation > 0 /\ generation \in Nat
    BY <1>1, <1>3, FrontOfBefore
  <2>2. recommendArray \in Seq(Entry)
    BY <1>1 DEF TypeOK, Entry
  <2>3. QED
    BY <2>1, <2>2
<1>5. CASE row > Len(recommendArray)
  <2>1. Crash("index")
    BY <1>5 DEF FollowingButtonPressed
  <2>2. table.generation < generation
    BY <1>3, <1>5, BeyondIsOld
  <2>3. QED
    BY <1>3, <2>1, <2>2, CrashInv
<1>6. CASE ~ (row > Len(recommendArray)) /\ ReadsNoUser(recommendArray[row])
  <2>1. Crash("record") /\ row \in DOMAIN recommendArray
    BY <1>4, <1>6 DEF FollowingButtonPressed
  <2>2. PICK i \in DOMAIN followingArray :
               followingArray[i] \in Anonymous \/ recommendArray[row].shop \in Anonymous
    BY <1>6 DEF ReadsNoUser
  <2>3. \E s \in Incomplete : received[s] > 0
    BY <2>1, <2>2, HeldWasReceived, FollowingAssumption
  <2>4. QED
    BY <2>1, <2>3, CrashInv
<1>7. CASE ~ (row > Len(recommendArray)) /\ ~ ReadsNoUser(recommendArray[row])
  <2>1. row \in DOMAIN recommendArray
    BY <1>4, <1>7
  <2>2. /\ followingArray' = Toggled(recommendArray[row]).following
        /\ recommendArray' = [recommendArray EXCEPT
                                 ![row].isFollowing = Toggled(recommendArray[row]).isFollowing]
        /\ rows' = [rows EXCEPT ![Current("recommend")] = Len(recommendArray)]
        /\ UNCHANGED <<visible, generation, segment, subviews, postArray, crashed>>
        /\ UNCHANGED <<covering, waiting, fetches, received>>
        /\ crashed = "no"
    BY <1>7 DEF FollowingButtonPressed, network, CanTouch
  <2>3. /\ followingArray' \in Seq(Shops)
        /\ recommendArray' \in Seq(Entry)
        /\ Len(recommendArray') = Len(recommendArray)
        /\ EntriesReceived' /\ FollowedOncePerFetch'
    BY <2>1, <2>2, ToggledCounts
  <2>4. /\ rows' \in [Tables -> Nat]
        /\ rows'[Current("recommend")] = Len(recommendArray)
        /\ \A t \in Tables : t.generation > generation => rows'[t] = 0
    <3>1. "recommend" \in TableKinds
      BY DEF TableKinds
    <3>2. QED
      BY <1>1, <1>4, <2>2, <3>1, Reloaded
  <2>5. TypeOK'
    <3>1. recommendArray' \in Seq([shop : Shops, isFollowing : IsFollowing])
      BY <2>3 DEF Entry
    <3>2. QED
      BY <1>1, <2>2, <2>3, <2>4, <3>1 DEF TypeOK
  <2>6. ViewsOfBefore'
    BY <1>1, <2>2, <2>4 DEF ViewsOfBefore
  <2>7. /\ \A k : Current(k)' = Current(k)
        /\ ~ FrontIs(Current("following"))' /\ ~ FrontIs(Current("feed"))'
        /\ ~ FrontIs(EmptyView)'
    \* The recommendations are in front.
    <3>1. \A k : Current(k)' = Current(k)
      BY <2>2 DEF Current
    <3>2. table # Current("following") /\ table # Current("feed") /\ table # EmptyView
      BY <1>3, ViewFields
    <3>3. Last(subviews') = table
      BY <1>3, <2>2 DEF FrontIs
    <3>4. EmptyView' = EmptyView
      BY DEF EmptyView
    <3>5. QED
      BY <3>1, <3>2, <3>3, <3>4 DEF FrontIs
  <2>8. RowsFit'
    BY <1>4, <2>2, <2>3, <2>4, <2>7 DEF RowsFit
  <2>9. NotSaidEmpty' /\ FeedShowsFollowed'
    BY <2>7 DEF NotSaidEmpty, FeedShowsFollowed
  <2>10. CrashesHaveCause'
    BY <2>2 DEF CrashesHaveCause
  <2>11. QED
    BY <2>3, <2>5, <2>6, <2>8, <2>9, <2>10 DEF Inv
<1>8. QED
  BY <1>5, <1>6, <1>7

LEMMA UnFollowingButtonPressedInv ==
    ASSUME Inv, NEW row \in Nat \ {0}, UnFollowingButtonPressed(row)
    PROVE  Inv'
<1>1. TypeOK /\ ViewsOfBefore /\ RowsFit
  BY DEF Inv
<1>2. PICK g \in 1..generation :
             LET table == [kind |-> "following", generation |-> g]
             IN  FrontIs(table) /\ row <= rows[table]
  BY DEF UnFollowingButtonPressed, HasButton
<1> DEFINE table == [kind |-> "following", generation |-> g]
<1>3. /\ table \in Tables /\ table.kind = "following" /\ table.generation = g
      /\ FrontIs(table) /\ row <= rows[table]
  <2>1. generation \in 0..MaxAppearances /\ MaxAppearances \in Nat
    BY <1>1, FollowingAssumption DEF TypeOK
  <2>2. g \in 1..MaxAppearances
    BY <2>1
  <2>3. QED
    BY <1>2, <2>2 DEF Tables
<1> HIDE DEF table
<1>4. /\ generation > 0 /\ generation \in Nat
      /\ followingArray \in Seq(Shops) /\ Len(followingArray) \in Nat
      /\ subviews \in Seq(Views) /\ Distinct(subviews)
  <2>1. generation > 0 /\ generation \in Nat
    BY <1>1, <1>3, FrontOfBefore
  <2>2. followingArray \in Seq(Shops) /\ subviews \in Seq(Views) /\ Distinct(subviews)
    BY <1>1 DEF TypeOK, Views, Distinct
  <2>3. QED
    BY <2>1, <2>2
<1>5. CASE row > Len(followingArray)
  <2>1. Crash("index")
    BY <1>5 DEF UnFollowingButtonPressed
  <2>2. table.generation < generation
    BY <1>3, <1>5, BeyondIsOld
  <2>3. QED
    BY <1>3, <2>1, <2>2, CrashInv
<1>6. CASE ~ (row > Len(followingArray))
  <2> DEFINE kept == Removed(subviews, Current("following"))
  <2>1. row \in DOMAIN followingArray
    BY <1>4, <1>6
  <2>2. /\ followingArray' = RemoveAt(followingArray, row)
        /\ rows' = [rows EXCEPT ![Current("following")] = Len(followingArray')]
        /\ subviews' = IF followingArray' = <<>> THEN WithInFront(kept, EmptyView) ELSE subviews
        /\ UNCHANGED <<visible, generation, segment, recommendArray, postArray, crashed>>
        /\ UNCHANGED <<covering, waiting, fetches, received>>
        /\ crashed = "no"
    BY <1>6 DEF UnFollowingButtonPressed, network, CanTouch
  <2>3. followingArray' \in Seq(Shops) /\ Len(followingArray') \in Nat
    <3>1. followingArray' \in Seq(Shops)
      BY <1>4, <2>1, <2>2, RemoveAtElements
    <3>2. QED
      BY <3>1
  <2>4. /\ kept \in Seq(Views) /\ Distinct(kept)
        /\ Range(kept) = Range(subviews) \ {Current("following")}
    BY <1>4, RemovedViews
  <2> HIDE DEF kept
  <2>5. /\ WithInFront(kept, EmptyView) \in Seq(Views)
        /\ Distinct(WithInFront(kept, EmptyView))
        /\ Range(WithInFront(kept, EmptyView)) = Range(kept) \cup {EmptyView}
        /\ Last(WithInFront(kept, EmptyView)) = EmptyView
    <3> DEFINE view == EmptyView
    <3>1. kept \in Seq(Views) /\ Distinct(kept) /\ view \in Views
      BY <2>4 DEF Views
    <3> HIDE DEF view
    <3>2. /\ WithInFront(kept, view) \in Seq(Views)
          /\ Distinct(WithInFront(kept, view))
          /\ Range(WithInFront(kept, view)) = Range(kept) \cup {view}
          /\ Last(WithInFront(kept, view)) = view
      BY <3>1, InFrontViews
    <3>3. QED
      BY <3>2 DEF view
  <2>6. /\ rows' \in [Tables -> Nat]
        /\ rows'[Current("following")] = Len(followingArray')
        /\ \A t \in Tables : t # Current("following") => rows'[t] = rows[t]
        /\ \A t \in Tables : t.generation > generation => rows'[t] = 0
    <3>1. "following" \in TableKinds
      BY DEF TableKinds
    <3>2. QED
      BY <1>1, <1>4, <2>2, <2>3, <3>1, Reloaded
  <2>7. subviews' \in Seq(Views) /\ Distinct(subviews')
        /\ \A view \in Range(subviews') : view.generation <= generation
    <3>1. \A view \in Range(subviews) : view.generation <= generation
      BY <1>1 DEF ViewsOfBefore
    <3>2. CASE followingArray' = <<>>
      BY <1>4, <2>2, <2>4, <2>5, <3>1, <3>2, ViewFields
    <3>3. CASE followingArray' # <<>>
      BY <1>4, <2>2, <3>1, <3>3
    <3>4. QED
      BY <3>2, <3>3
  <2>8. TypeOK'
    BY <1>1, <2>2, <2>3, <2>6, <2>7 DEF TypeOK, Views, Distinct
  <2>9. ViewsOfBefore'
    BY <1>1, <2>2, <2>6, <2>7 DEF ViewsOfBefore
  <2>10. /\ \A k : Current(k)' = Current(k)
         /\ ~ FrontIs(Current("feed"))'
         /\ FrontIs(EmptyView)' => followingArray' = <<>>
    \* A table of followed shops was in front, and stays there unless it is empty.
    <3>1. \A k : Current(k)' = Current(k)
      BY <2>2 DEF Current
    <3>2. table # Current("feed") /\ table # EmptyView /\ EmptyView # Current("feed")
      BY <1>3, ViewFields
    <3>3. Last(subviews) = table
      BY <1>3 DEF FrontIs
    <3>4. EmptyView' = EmptyView
      BY DEF EmptyView
    <3>5. CASE followingArray' = <<>>
      <4>1. Last(subviews') = EmptyView
        BY <2>2, <2>5, <3>5
      <4>2. QED
        BY <3>1, <3>2, <3>5, <4>1 DEF FrontIs
    <3>6. CASE followingArray' # <<>>
      <4>1. Last(subviews') = table
        BY <2>2, <3>3, <3>6
      <4>2. QED
        BY <3>1, <3>2, <3>4, <4>1 DEF FrontIs
    <3>7. QED
      BY <3>5, <3>6
  <2>11. RowsFit'
    <3>1. rows'[Current("recommend")] <= Len(recommendArray)
      <4>1. Current("recommend") \in Tables
        BY <1>1, <1>4, CurrentIsATable DEF TableKinds
      <4>2. rows'[Current("recommend")] = rows[Current("recommend")]
        BY <2>6, <4>1, ViewsDiffer
      <4>3. QED
        BY <1>1, <1>4, <4>2 DEF RowsFit
    <3>2. rows'[Current("following")] <= Len(followingArray')
      BY <2>3, <2>6
    <3>3. QED
      BY <2>2, <2>10, <3>1, <3>2 DEF RowsFit
  <2>12. EntriesReceived' /\ FollowedOncePerFetch'
    <3>1. SUFFICES ASSUME NEW s \in Shops
                   PROVE  /\ Entries(s)' <= received[s]
                          /\ Times(followingArray', s) + Offered(s)' <= received[s]
      BY <2>2 DEF EntriesReceived, FollowedOncePerFetch, Times
    <3>2. Entries(s)' = Entries(s) /\ Offered(s)' = Offered(s)
      BY <2>2 DEF Entries, Offered
    <3>3. /\ Times(followingArray, s) \in Nat /\ Times(followingArray', s) \in Nat
          /\ Offered(s) \in Nat /\ received[s] \in Nat
      BY <1>1, <2>3, CountsAreNat, TimesIsNat DEF TypeOK
    <3>4. Times(followingArray, s) = Times(followingArray', s)
                                       + (IF followingArray[row] = s THEN 1 ELSE 0)
      BY <1>4, <2>1, <2>2, TimesRemoveAt
    <3>5. Times(followingArray', s) <= Times(followingArray, s)
      <4>1. CASE followingArray[row] = s
        BY <3>3, <3>4, <4>1
      <4>2. CASE followingArray[row] # s
        BY <3>3, <3>4, <4>2
      <4>3. QED
        BY <4>1, <4>2
    <3>6. Times(followingArray, s) + Offered(s) <= received[s] /\ Entries(s) <= received[s]
      BY DEF Inv, FollowedOncePerFetch, EntriesReceived
    <3>7. QED
      BY <3>2, <3>3, <3>5, <3>6
  <2>13. NotSaidEmpty' /\ FeedShowsFollowed'
    BY <2>10 DEF NotSaidEmpty, FeedShowsFollowed
  <2>14. CrashesHaveCause'
    BY <2>2 DEF CrashesHaveCause
  <2>15. QED
    BY <2>8, <2>9, <2>11, <2>12, <2>13, <2>14 DEF Inv
<1>7. QED
  BY <1>5, <1>6

LEMMA MakeCellInv ==
    ASSUME Inv, NEW table \in Tables, NEW row \in Nat \ {0}, row <= rows[table],
           MakeCell(table, row)
    PROVE  Inv'
<1>1. FrontIs(table) /\ Crash(CellForRow(table, row)) /\ CellForRow(table, row) # "no"
  BY DEF MakeCell
<1>2. TypeOK /\ ViewsOfBefore /\ rows[table] \in Nat
  BY DEF Inv, TypeOK
<1>3. /\ table.generation <= generation /\ table.generation \in Nat /\ generation \in Nat
      /\ table.generation = generation => table = Current(table.kind)
      /\ table.kind \in TableKinds
  BY <1>1, <1>2, FrontOfBefore
<1>4. CASE table.kind = "recommend" /\ table # Current("recommend")
  <2>1. CellForRow(table, row) = "cast"
    BY <1>4 DEF CellForRow
  <2>2. table.generation < generation
    BY <1>3, <1>4
  <2>3. QED
    BY <1>1, <2>1, <2>2, CrashInv
<1>5. CASE /\ ~ (table.kind = "recommend" /\ table # Current("recommend"))
           /\ row > Len(Behind(table))
  <2>1. CellForRow(table, row) = "index"
    BY <1>5 DEF CellForRow
  <2>2. \/ table.kind = "following" /\ row > Len(followingArray)
        \/ table.kind = "recommend" /\ row > Len(recommendArray)
        \/ table.kind = "feed" /\ row > Len(postArray)
    BY <1>3, <1>5 DEF Behind, TableKinds
  <2>3. table.generation < generation
    BY <1>1, <2>2, BeyondIsOld
  <2>4. QED
    BY <1>1, <2>1, <2>3, CrashInv
<1>6. CASE /\ ~ (table.kind = "recommend" /\ table # Current("recommend"))
           /\ ~ (row > Len(Behind(table)))
  <2>1. CellForRow(table, row) = "record" /\ ~ HasRecord(table, row)
    BY <1>1, <1>6 DEF CellForRow
  <2>2. followingArray \in Seq(Shops) /\ recommendArray \in Seq(Entry)
    BY <1>2 DEF TypeOK, Entry
  <2>3. \E s \in Incomplete : received[s] > 0
    <3>1. CASE table.kind = "following"
      <4>1. row \in DOMAIN followingArray /\ followingArray[row] \in Incomplete
        BY <1>6, <2>1, <2>2, <3>1 DEF Behind, HasRecord
      <4>2. QED
        BY <4>1, HeldWasReceived, FollowingAssumption
    <3>2. CASE table.kind = "recommend"
      <4>1. row \in DOMAIN recommendArray
        BY <1>6, <2>2, <3>2 DEF Behind
      <4>2. \/ recommendArray[row].shop \in Incomplete
            \/ \E i \in DOMAIN followingArray : followingArray[i] \in Anonymous
        BY <2>1, <3>2 DEF HasRecord
      <4>3. QED
        BY <4>1, <4>2, HeldWasReceived, FollowingAssumption
    <3>3. CASE table.kind = "feed"
      BY <2>1, <3>3 DEF HasRecord
    <3>4. QED
      BY <1>3, <3>1, <3>2, <3>3 DEF TableKinds
  <2>4. QED
    BY <1>1, <2>1, <2>3, CrashInv
<1>7. QED
  BY <1>4, <1>5, <1>6

-----------------------------------------------------------------------------
LEMMA InitInv == Init => Inv
<1>1. SUFFICES ASSUME Init
               PROVE  Inv
  OBVIOUS
<1>2. /\ generation = 0 /\ segment = 1 /\ subviews = <<EmptyView>>
      /\ rows = [t \in Tables |-> 0]
      /\ followingArray = <<>> /\ recommendArray = <<>> /\ postArray = <<>>
      /\ waiting = 0 /\ fetches = 0 /\ received = [s \in Shops |-> 0] /\ crashed = "no"
  BY <1>1 DEF Init
<1>3. ~ visible /\ visible \in BOOLEAN /\ covering \in BOOLEAN
  BY <1>1 DEF Init
<1>4. MaxAppearances \in Nat /\ MaxFetches \in Nat
  BY FollowingAssumption
<1>5. subviews \in Seq(Views) /\ Distinct(subviews) /\ Range(subviews) = {EmptyView}
  <2> DEFINE view == EmptyView
  <2>1. subviews = <<view>> /\ view \in Views
    BY <1>2 DEF Views
  <2> HIDE DEF view
  <2>2. subviews \in Seq(Views) /\ DOMAIN subviews = {1} /\ subviews[1] = view
    BY <2>1
  <2>3. QED
    BY <2>2 DEF Distinct, Range, view
<1>6. Last(subviews) = EmptyView
  BY <1>2 DEF Last
<1>7. \A S : <<>> \in Seq(S)
  OBVIOUS
<1>8. TypeOK
  <2>1. generation \in 0..MaxAppearances /\ segment \in Segments
    BY <1>2, <1>4 DEF Segments
  <2>2. fetches \in 0..MaxFetches /\ waiting \in 0..fetches
    BY <1>2, <1>4
  <2>3. rows \in [Tables -> Nat] /\ received \in [Shops -> Nat]
    BY <1>2
  <2>4. /\ followingArray \in Seq(Shops) /\ postArray \in Seq(Shops)
        /\ recommendArray \in Seq([shop : Shops, isFollowing : IsFollowing])
    BY <1>2, <1>7
  <2>5. crashed \in {"no", "cast", "index", "record"}
    BY <1>2
  <2>6. QED
    BY <1>3, <1>5, <2>1, <2>2, <2>3, <2>4, <2>5 DEF TypeOK, Views, Distinct
<1>9. ViewsOfBefore
  <2>1. \A view \in Range(subviews) : view.generation <= generation
    BY <1>2, <1>5, ViewFields
  <2>2. QED
    BY <1>2, <1>3, <2>1 DEF ViewsOfBefore
<1>10. ~ FrontIs(Current("following")) /\ ~ FrontIs(Current("feed"))
  BY <1>6, ViewsDiffer DEF FrontIs
<1>11. RowsFit
  BY <1>2, <1>10 DEF RowsFit
<1>12. EntriesReceived /\ FollowedOncePerFetch
  <2>1. SUFFICES ASSUME NEW s \in Shops
                 PROVE  /\ Entries(s) <= received[s]
                        /\ Times(followingArray, s) + Offered(s) <= received[s]
    BY DEF EntriesReceived, FollowedOncePerFetch
  <2>2. DOMAIN followingArray = {} /\ DOMAIN recommendArray = {}
    BY <1>2
  <2>3. Entries(s) = 0 /\ Times(followingArray, s) = 0 /\ Offered(s) = 0
    <3>1. \A a : Cardinality({}) = 0
      BY FS_EmptySet
    <3>2. /\ {i \in DOMAIN followingArray : followingArray[i] = s} = {}
          /\ {i \in DOMAIN recommendArray : recommendArray[i].shop = s} = {}
          /\ {i \in DOMAIN recommendArray :
                 recommendArray[i].shop = s /\ recommendArray[i].isFollowing # "true"} = {}
      BY <2>2
    <3>3. QED
      BY <3>1, <3>2 DEF Entries, Times, Offered
  <2>4. received[s] = 0
    BY <1>2
  <2>5. QED
    BY <2>3, <2>4
<1>13. NotSaidEmpty
  BY <1>2 DEF NotSaidEmpty
<1>14. FeedShowsFollowed
  BY <1>10 DEF FeedShowsFollowed
<1>15. CrashesHaveCause
  BY <1>2 DEF CrashesHaveCause
<1>16. QED
  BY <1>8, <1>9, <1>11, <1>12, <1>13, <1>14, <1>15 DEF Inv

LEMMA NextInv == Inv /\ [Next]_vars => Inv'
<1>1. SUFFICES ASSUME Inv, [Next]_vars
               PROVE  Inv'
  OBVIOUS
<1>2. TypeOK
  BY <1>1 DEF Inv
<1>3. CASE ViewDidAppear
  BY <1>1, <1>3, ViewDidAppearInv
<1>4. CASE Disappear
  <2>1. /\ visible' = FALSE
        /\ UNCHANGED <<generation, segment, subviews, rows, followingArray, recommendArray,
                       postArray, covering, waiting, fetches, received, crashed>>
    BY <1>4 DEF Disappear, arrays, network
  <2>2. visible' \in BOOLEAN /\ (visible' => visible) /\ covering' \in BOOLEAN /\ waiting' \in 0..fetches
    BY <1>2, <2>1 DEF TypeOK
  <2>3. QED
    BY <1>1, <2>1, <2>2, QuietInv
<1>5. ASSUME NEW index \in Segments, SelectSegment(index)
      PROVE  Inv'
  <2>1. CanTouch /\ segment' \in Segments /\ UNCHANGED <<visible, generation, crashed>>
    BY <1>5 DEF SelectSegment
  <2>2. SelectFeed \/ SelectFollowing \/ SelectRecommend
    <3>1. CASE index = 2
      BY <1>5, <3>1 DEF SelectSegment
    <3>2. CASE index = 1
      BY <1>5, <3>2 DEF SelectSegment
    <3>3. CASE index # 1 /\ index # 2
      BY <1>5, <3>3 DEF SelectSegment
    <3>4. QED
      BY <3>1, <3>2, <3>3
  <2>3. QED
    BY <1>1, <2>1, <2>2, SelectFeedInv, SelectFollowingInv, SelectRecommendInv
<1>6. CASE \E list \in Recommendations : RecommendSuccess(list)
  BY <1>1, <1>6, RecommendSuccessInv
<1>7. CASE RecommendFailure
  <2>1. /\ waiting > 0 /\ waiting' = waiting - 1
        /\ UNCHANGED <<visible, generation, segment, subviews, rows, followingArray, recommendArray,
                       postArray, fetches, received, crashed>>
    BY <1>7 DEF RecommendFailure, arrays
  <2>2. covering' \in BOOLEAN
    BY <1>2, <1>7 DEF RecommendFailure, TypeOK
  <2>3. waiting' \in 0..fetches
    BY <1>2, <2>1 DEF TypeOK
  <2>4. visible' \in BOOLEAN /\ (visible' => visible)
    BY <1>2, <2>1 DEF TypeOK
  <2>5. QED
    BY <1>1, <2>1, <2>2, <2>3, <2>4, QuietInv
<1>8. CASE OtherAnswer
  <2>1. /\ covering' = FALSE
        /\ UNCHANGED <<visible, generation, segment, subviews, rows, followingArray, recommendArray,
                       postArray, waiting, fetches, received, crashed>>
    BY <1>8 DEF OtherAnswer, arrays
  <2>2. visible' \in BOOLEAN /\ (visible' => visible) /\ covering' \in BOOLEAN /\ waiting' \in 0..fetches
    BY <1>2, <2>1 DEF TypeOK
  <2>3. QED
    BY <1>1, <2>1, <2>2, QuietInv
<1>9. ASSUME NEW t \in Tables, NEW row \in 1..rows[t],
             \/ FollowingButtonPressed(row)
             \/ UnFollowingButtonPressed(row)
             \/ MakeCell(t, row)
      PROVE  Inv'
  <2>1. row \in Nat \ {0} /\ row <= rows[t]
    BY <1>2 DEF TypeOK
  <2>2. QED
    BY <1>1, <1>9, <2>1, FollowingButtonPressedInv, UnFollowingButtonPressedInv, MakeCellInv
<1>10. CASE UNCHANGED vars
  <2>1. UNCHANGED <<visible, generation, segment, subviews, rows, followingArray, recommendArray,
                    postArray, covering, waiting, fetches, received, crashed>>
    BY <1>10 DEF vars
  <2>2. visible' \in BOOLEAN /\ (visible' => visible) /\ covering' \in BOOLEAN /\ waiting' \in 0..fetches
    BY <1>2, <2>1 DEF TypeOK
  <2>3. QED
    BY <1>1, <2>1, <2>2, QuietInv
<1>11. QED
  BY <1>1, <1>3, <1>4, <1>5, <1>6, <1>7, <1>8, <1>9, <1>10 DEF Next

THEOREM Invariance == Spec => []Inv
  BY InitInv, NextInv, PTL DEF Spec

\* Every variable keeps its type, and no view is in the content view twice.
THEOREM TypeCorrect == Spec => []TypeOK
<1>1. Inv => TypeOK
  BY DEF Inv
<1>2. QED
  BY Invariance, <1>1, PTL

\* While a shop is followed, the view that says none is is not in front.
THEOREM NotSaidEmptyAlways == Spec => []NotSaidEmpty
<1>1. Inv => NotSaidEmpty
  BY DEF Inv
<1>2. QED
  BY Invariance, <1>1, PTL

\* No shop is followed, or offered, more often than it was received, however
\* many shops and lists there are and whatever the buttons are pressed on.
THEOREM FollowedOnceAlways == Spec => []FollowedOncePerFetch
<1>1. Inv => FollowedOncePerFetch
  BY DEF Inv
<1>2. QED
  BY Invariance, <1>1, PTL

\* The feed in front is that of the shops followed now.
THEOREM FeedAlways == Spec => []FeedShowsFollowed
<1>1. Inv => FeedShowsFollowed
  BY DEF Inv
<1>2. QED
  BY Invariance, <1>1, PTL

\* The process ends only under a table that an earlier appearance left in front, or
\* for a record that was received without what a cell or a button reads in it.
THEOREM CrashesHaveCauseAlways == Spec => []CrashesHaveCause
<1>1. Inv => CrashesHaveCause
  BY DEF Inv
<1>2. QED
  BY Invariance, <1>1, PTL
=============================================================================
