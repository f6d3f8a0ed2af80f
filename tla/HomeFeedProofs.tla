---------------------------- MODULE HomeFeedProofs ----------------------------
(***************************************************************************)
(* Proofs about HomeFeed, for every number of pages, visits and requests.  *)
(***************************************************************************)
EXTENDS HomeFeed, FiniteSetTheorems, TLAPS

\* The pages of which some request was made, wherever its items are by now.
Known == Elements(itemArray) \cup Elements(blocks) \cup lost \cup {r.page : r \in waiting}

\* Requests are numbered as they are made, so that no two are the same.
RequestsNumbered ==
    /\ IsFiniteSet(waiting)
    /\ \A r \in waiting : r.number <= asks /\ r.page <= asks

\* From the first visit on page was asked for; before it there is nothing.
PageAsked ==
    /\ visits > 0 => page <= asks
    /\ visits = 0 => ~ visible /\ page = 1 /\ itemArray = <<>> /\ blocks = <<>> /\ waiting = {}

\* The pages asked for begin with the first and leave none out.
KnownIsInitial ==
    /\ visits > 0 => 1..page \subseteq Known
    /\ \A p \in Known : 1..p \subseteq Known

\* Nothing but page 1 was asked for while there is nothing on screen.
OnlyFirstIntoEmpty ==
    itemArray = <<>> =>
        /\ page = 1
        /\ \A r \in waiting : r.page = 1
        /\ \A i \in DOMAIN blocks : blocks[i] = 1

\* How many copies of page p may still come before the next appearance or leave,
\* and while the screen is in front, one for its leaving.
Owed(p) == (IF visible THEN 1 ELSE 0) + (IF visits > 0 /\ p > page THEN 1 ELSE 0)

\* A page beyond the last one asked for has a copy less than the others may have.
FewerBeyond == \A p \in Nat : Copies(p) + Owed(p) <= 2 * visits

\* The inductive invariant.
Inv ==
    /\ TypeOK
    /\ RequestsNumbered
    /\ PageAsked
    /\ KnownIsInitial
    /\ OnlyFirstIntoEmpty
    /\ StartsWithFirstPage
    /\ FewerBeyond

-----------------------------------------------------------------------------
(* Sequences and the sets of their elements.                               *)

LEMMA ElementsAppend ==
    ASSUME NEW S, NEW s \in Seq(S), NEW x \in S
    PROVE  /\ Append(s, x) \in Seq(S)
           /\ Elements(Append(s, x)) = Elements(s) \cup {x}
<1>1. /\ DOMAIN Append(s, x) = 1..(Len(s) + 1) /\ DOMAIN s = 1..Len(s) /\ Len(s) \in Nat
      /\ \A i \in 1..Len(s) : Append(s, x)[i] = s[i]
      /\ Append(s, x)[Len(s) + 1] = x
  OBVIOUS
<1>2. Elements(s) \cup {x} \subseteq Elements(Append(s, x))
  BY <1>1 DEF Elements
<1>3. ASSUME NEW i \in DOMAIN Append(s, x)
      PROVE  Append(s, x)[i] \in Elements(s) \cup {x}
  BY <1>1 DEF Elements
<1>4. Elements(Append(s, x)) \subseteq Elements(s) \cup {x}
  BY <1>3 DEF Elements
<1>5. QED
  BY <1>2, <1>4

LEMMA ElementsTail ==
    ASSUME NEW S, NEW s \in Seq(S), s # <<>>
    PROVE  /\ Tail(s) \in Seq(S) /\ Head(s) \in S
           /\ Elements(s) = Elements(Tail(s)) \cup {Head(s)}
<1>1. Tail(s) \in Seq(S) /\ Head(s) \in S /\ Len(s) \in Nat \ {0} /\ Len(Tail(s)) = Len(s) - 1
  OBVIOUS
<1>2. \A i \in 1..Len(Tail(s)) : Tail(s)[i] = s[i + 1]
  OBVIOUS
<1>3. Elements(Tail(s)) \cup {Head(s)} \subseteq Elements(s)
  BY <1>1, <1>2 DEF Elements
<1>4. ASSUME NEW i \in DOMAIN s
      PROVE  s[i] \in Elements(Tail(s)) \cup {Head(s)}
  <2>1. CASE i = 1
    BY <2>1
  <2>2. CASE i # 1
    <3>1. i - 1 \in 1..Len(Tail(s)) /\ Tail(s)[i - 1] = s[i]
      BY <1>1, <1>2, <2>2
    <3>2. QED
      BY <1>1, <3>1 DEF Elements
  <2>3. QED
    BY <2>1, <2>2
<1>5. QED
  BY <1>1, <1>3, <1>4 DEF Elements

LEMMA CountIsNat ==
    ASSUME NEW S, NEW s \in Seq(S), NEW p
    PROVE  Count(s, p) \in Nat /\ IsFiniteSet({i \in DOMAIN s : s[i] = p})
<1>1. IsFiniteSet(1..Len(s)) /\ DOMAIN s = 1..Len(s)
  BY FS_Interval
<1>2. IsFiniteSet({i \in DOMAIN s : s[i] = p})
  BY <1>1, FS_Subset
<1>3. QED
  BY <1>2, FS_CardinalityType DEF Count

\* One more element at the end of a sequence is counted once.
LEMMA CountAppend ==
    ASSUME NEW S, NEW s \in Seq(S), NEW x \in S, NEW p
    PROVE  Count(Append(s, x), p) = Count(s, p) + (IF x = p THEN 1 ELSE 0)
<1> DEFINE A == {i \in DOMAIN s : s[i] = p}
           B == {i \in DOMAIN Append(s, x) : Append(s, x)[i] = p}
<1>1. IsFiniteSet(A) /\ Cardinality(A) \in Nat
  BY CountIsNat DEF Count
<1>2. /\ DOMAIN Append(s, x) = 1..(Len(s) + 1) /\ DOMAIN s = 1..Len(s) /\ Len(s) \in Nat
      /\ \A i \in 1..Len(s) : Append(s, x)[i] = s[i]
      /\ Append(s, x)[Len(s) + 1] = x
  OBVIOUS
<1>3. CASE x = p
  <2>1. B = A \cup {Len(s) + 1} /\ Len(s) + 1 \notin A
    BY <1>2, <1>3
  <2>2. Cardinality(B) = Cardinality(A) + 1
    BY <1>1, <2>1, FS_AddElement
  <2>3. QED
    BY <1>3, <2>2 DEF Count
<1>4. CASE x # p
  <2>1. B = A
    BY <1>2, <1>4
  <2>2. Count(Append(s, x), p) = Cardinality(B) /\ Count(s, p) = Cardinality(A)
    BY DEF Count
  <2> HIDE DEF A, B
  <2>3. QED
    BY <1>1, <1>4, <2>1, <2>2
<1>5. QED
  BY <1>3, <1>4

\* The head of a sequence is counted once, and the rest as often as before.
LEMMA CountTail ==
    ASSUME NEW S, NEW s \in Seq(S), s # <<>>, NEW p
    PROVE  Count(s, p) = Count(Tail(s), p) + (IF Head(s) = p THEN 1 ELSE 0)
<1> DEFINE A == {i \in DOMAIN Tail(s) : Tail(s)[i] = p}
           B == {i \in DOMAIN s : s[i] = p}
           f == [i \in A |-> i + 1]
<1>1. /\ Tail(s) \in Seq(S) /\ Len(s) \in Nat \ {0} /\ Len(Tail(s)) = Len(s) - 1
      /\ DOMAIN s = 1..Len(s) /\ DOMAIN Tail(s) = 1..(Len(s) - 1)
      /\ \A i \in 1..(Len(s) - 1) : Tail(s)[i] = s[i + 1]
  OBVIOUS
<1>2. IsFiniteSet(A) /\ Count(Tail(s), p) \in Nat /\ IsFiniteSet(B)
  BY <1>1, CountIsNat
<1>3. f \in Bijection(A, B \ {1})
  <2>1. \A i \in A : i + 1 \in B \ {1}
    BY <1>1
  <2>2. \A j \in B \ {1} : j - 1 \in A /\ f[j - 1] = j
    BY <1>1
  <2>3. \A i, j \in A : f[i] = f[j] => i = j
    BY <1>1
  <2>4. QED
    BY <2>1, <2>2, <2>3, Zenon DEF Bijection, Injection, Surjection, IsInjective
<1>4. Cardinality(B \ {1}) = Cardinality(A)
  BY <1>2, <1>3, FS_Bijection DEF ExistsBijection
<1>5. Cardinality(B \ {1}) = IF 1 \in B THEN Cardinality(B) - 1 ELSE Cardinality(B)
  BY <1>2, FS_RemoveElement
<1>6. 1 \in B <=> Head(s) = p
  BY <1>1
<1>7. Cardinality(B) \in Nat
  BY <1>2, FS_CardinalityType
<1>8. Count(s, p) = Cardinality(B) /\ Count(Tail(s), p) = Cardinality(A)
  BY DEF Count
<1> HIDE DEF A, B
<1>9. QED
  BY <1>2, <1>4, <1>5, <1>6, <1>7, <1>8

-----------------------------------------------------------------------------
(* Requests and copies.                                                    *)

LEMMA CopiesAreNat ==
    ASSUME Inv, NEW p
    PROVE  /\ Count(itemArray, p) \in Nat /\ Count(blocks, p) \in Nat
           /\ IsFiniteSet(AskedFor(p)) /\ Cardinality(AskedFor(p)) \in Nat
<1>1. itemArray \in Seq(PageNumbers) /\ blocks \in Seq(PageNumbers) /\ IsFiniteSet(waiting)
  BY DEF Inv, TypeOK, RequestsNumbered
<1>2. IsFiniteSet(AskedFor(p))
  BY <1>1, FS_Subset DEF AskedFor
<1>3. QED
  BY <1>1, <1>2, CountIsNat, FS_CardinalityType

\* A new request is one more for its page and none for another.
LEMMA AskedOnceMore ==
    ASSUME Inv, NEW STATE p, p \in 1..(asks + 1), GetHomeItem(p)
    PROVE  /\ asks' = asks + 1 /\ asks' \in 0..MaxAsks
           /\ RequestsNumbered'
           /\ waiting' \subseteq Requests
           /\ {r.page : r \in waiting'} = {r.page : r \in waiting} \cup {p}
           /\ \A q : Cardinality(AskedFor(q)') =
                       Cardinality(AskedFor(q)) + (IF q = p THEN 1 ELSE 0)
<1> DEFINE new == [number |-> asks + 1, page |-> p]
<1>1. asks \in Nat /\ MaxAsks \in Nat /\ waiting \subseteq Requests
  BY HomeFeedAssumption DEF Inv, TypeOK
<1>2. asks' = asks + 1 /\ asks' \in 0..MaxAsks /\ waiting' = waiting \cup {new}
  BY <1>1 DEF GetHomeItem
<1>3. new \notin waiting /\ IsFiniteSet(waiting)
  BY <1>1 DEF Inv, RequestsNumbered
<1>4. new \in Requests
  BY <1>1, <1>2 DEF Requests, PageNumbers
<1>5. IsFiniteSet(waiting')
  BY <1>2, <1>3, FS_AddElement
<1>6. \A r \in waiting' : r.number <= asks' /\ r.page <= asks'
  <2>1. \A r \in waiting : r.number \in Nat /\ r.page \in Nat
    BY <1>1 DEF Requests, PageNumbers
  <2>2. QED
    BY <1>1, <1>2, <2>1 DEF Inv, RequestsNumbered
<1>7. ASSUME NEW q
      PROVE  Cardinality(AskedFor(q)') = Cardinality(AskedFor(q)) + (IF q = p THEN 1 ELSE 0)
  <2>1. IsFiniteSet(AskedFor(q)) /\ Cardinality(AskedFor(q)) \in Nat /\ new \notin AskedFor(q)
    BY <1>3, CopiesAreNat DEF AskedFor
  <2>2. CASE q = p
    <3>1. AskedFor(q)' = AskedFor(q) \cup {new}
      BY <1>2, <2>2 DEF AskedFor
    <3>2. QED
      BY <2>1, <2>2, <3>1, FS_AddElement
  <2>3. CASE q # p
    <3>1. AskedFor(q)' = AskedFor(q)
      BY <1>2, <2>3 DEF AskedFor
    <3>2. QED
      BY <2>1, <2>3, <3>1
  <2>4. QED
    BY <2>2, <2>3
<1>8. QED
  BY <1>1, <1>2, <1>4, <1>5, <1>6, <1>7 DEF RequestsNumbered

\* An answer takes one request away.
LEMMA AnsweredOnce ==
    ASSUME Inv, NEW r \in waiting, waiting' = waiting \ {r}, asks' = asks
    PROVE  /\ RequestsNumbered'
           /\ waiting' \subseteq Requests
           /\ r.page \in PageNumbers
           /\ {q.page : q \in waiting} = {q.page : q \in waiting'} \cup {r.page}
           /\ \A q : Cardinality(AskedFor(q)') =
                       Cardinality(AskedFor(q)) - (IF q = r.page THEN 1 ELSE 0)
<1>1. waiting \subseteq Requests /\ IsFiniteSet(waiting)
  BY DEF Inv, TypeOK, RequestsNumbered
<1>2. IsFiniteSet(waiting')
  BY <1>1, FS_RemoveElement
<1>3. RequestsNumbered'
  BY <1>2 DEF Inv, RequestsNumbered
<1>4. r.page \in PageNumbers
  BY <1>1 DEF Requests
<1>5. ASSUME NEW q
      PROVE  Cardinality(AskedFor(q)') = Cardinality(AskedFor(q)) - (IF q = r.page THEN 1 ELSE 0)
  <2>1. IsFiniteSet(AskedFor(q)) /\ Cardinality(AskedFor(q)) \in Nat
    BY CopiesAreNat
  <2>2. CASE q = r.page
    <3>1. AskedFor(q)' = AskedFor(q) \ {r} /\ r \in AskedFor(q)
      BY <2>2 DEF AskedFor
    <3>2. QED
      BY <2>1, <2>2, <3>1, FS_RemoveElement
  <2>3. CASE q # r.page
    <3>1. AskedFor(q)' = AskedFor(q)
      BY <2>3 DEF AskedFor
    <3>2. QED
      BY <2>1, <2>3, <3>1
  <2>4. QED
    BY <2>2, <2>3
<1>6. QED
  BY <1>1, <1>3, <1>4, <1>5

-----------------------------------------------------------------------------
LEMMA InitInv == Init => Inv
<1> SUFFICES ASSUME Init PROVE Inv
  OBVIOUS
<1>1. TypeOK
  <2>1. itemArray \in Seq(PageNumbers) /\ blocks \in Seq(PageNumbers)
    BY DEF Init
  <2>2. visits \in 0..MaxVisits /\ asks \in 0..MaxAsks
    BY HomeFeedAssumption DEF Init
  <2>3. /\ visible \in BOOLEAN /\ covering \in BOOLEAN
        /\ page \in PageNumbers \cup {1}
        /\ waiting \subseteq Requests /\ lost \subseteq PageNumbers
    BY DEF Init
  <2>4. QED
    BY <2>1, <2>2, <2>3 DEF TypeOK
<1>2. RequestsNumbered /\ PageAsked /\ OnlyFirstIntoEmpty /\ StartsWithFirstPage
  BY FS_EmptySet DEF Init, RequestsNumbered, PageAsked, OnlyFirstIntoEmpty, StartsWithFirstPage
<1>3. KnownIsInitial
  BY DEF Init, KnownIsInitial, Known, Elements
<1>4. ASSUME NEW p \in Nat
      PROVE  Copies(p) = 0
  <2>1. /\ {i \in DOMAIN itemArray : itemArray[i] = p} = {}
        /\ {i \in DOMAIN blocks : blocks[i] = p} = {}
        /\ {r \in waiting : r.page = p} = {}
    BY DEF Init
  <2>2. Cardinality({}) = 0
    BY FS_EmptySet
  <2>3. Count(itemArray, p) = 0 /\ Count(blocks, p) = 0 /\ Cardinality(AskedFor(p)) = 0
    BY <2>1, <2>2 DEF Count, AskedFor
  <2>4. QED
    BY <2>3 DEF Copies
<1>5. FewerBeyond
  BY <1>4 DEF Init, FewerBeyond, Owed
<1>6. QED
  BY <1>1, <1>2, <1>3, <1>5 DEF Inv

\* An appearance adds a visit, a request for page and nothing else.
LEMMA AppearInv ==
    ASSUME Inv, ViewWillAppear
    PROVE  Inv'
<1>1. /\ ~ visible /\ visible' = TRUE /\ page \in Nat /\ 1 <= page /\ page' = page
      /\ visits \in Nat /\ visits' = visits + 1 /\ visits' \in 0..MaxVisits
      /\ itemArray' = itemArray /\ blocks' = blocks /\ lost' = lost
      /\ covering' \in BOOLEAN /\ asks \in Nat /\ GetHomeItem(page)
  <2>1. covering' \in BOOLEAN
    BY DEF ViewWillAppear
  <2>2. page \in Nat /\ 1 <= page
    BY HomeFeedAssumption DEF Inv, TypeOK, PageNumbers
  <2>3. QED
    BY <2>1, <2>2, HomeFeedAssumption DEF ViewWillAppear, Inv, TypeOK
<1>2. /\ asks' = asks + 1 /\ asks' \in 0..MaxAsks /\ RequestsNumbered'
      /\ waiting' \subseteq Requests
      /\ {r.page : r \in waiting'} = {r.page : r \in waiting} \cup {page}
      /\ \A q : Cardinality(AskedFor(q)') =
                  Cardinality(AskedFor(q)) + (IF q = page THEN 1 ELSE 0)
  <2>1. page \in 1..(asks + 1)
    BY <1>1 DEF Inv, PageAsked
  <2>2. QED
    BY <1>1, <2>1, AskedOnceMore
<1>3. TypeOK'
  BY <1>1, <1>2 DEF Inv, TypeOK
<1>4. PageAsked' /\ StartsWithFirstPage'
  <2>1. page <= asks + 1
    BY <1>1 DEF Inv, PageAsked
  <2>2. QED
    BY <1>1, <1>2, <2>1 DEF Inv, PageAsked, StartsWithFirstPage
<1>5. KnownIsInitial'
  <2>1. Known' = Known \cup {page}
    BY <1>1, <1>2 DEF Known
  <2>2. \A p \in Known : 1..p \subseteq Known
    BY DEF Inv, KnownIsInitial
  <2>3. 1..page \subseteq Known \cup {page}
    <3>1. CASE visits = 0
      BY <3>1 DEF Inv, PageAsked
    <3>2. CASE visits > 0
      BY <3>2 DEF Inv, KnownIsInitial
    <3>3. QED
      BY <1>1, <3>1, <3>2
  <2>4. QED
    BY <1>1, <2>1, <2>2, <2>3 DEF KnownIsInitial
<1>6. OnlyFirstIntoEmpty'
  <2>1. ASSUME itemArray = <<>>, NEW r \in waiting'
        PROVE  r.page = 1
    <3>1. r.page \in {q.page : q \in waiting} \cup {page}
      BY <1>2
    <3>2. QED
      BY <2>1, <3>1 DEF Inv, OnlyFirstIntoEmpty
  <2>2. QED
    BY <1>1, <2>1 DEF Inv, OnlyFirstIntoEmpty
<1>7. FewerBeyond'
  <2>1. ASSUME NEW p \in Nat
        PROVE  Copies(p)' + Owed(p)' <= 2 * visits'
    <3>1. Copies(p)' = Copies(p) + (IF p = page THEN 1 ELSE 0) /\ Copies(p) \in Nat
      BY <1>1, <1>2, CopiesAreNat DEF Copies
    <3>2. Copies(p) + Owed(p) <= 2 * visits
      BY DEF Inv, FewerBeyond
    <3>3. Owed(p) \in Nat /\ Owed(p)' = 1 + (IF p > page THEN 1 ELSE 0)
      BY <1>1 DEF Owed
    <3>4. QED
      BY <1>1, <3>1, <3>2, <3>3
  <2>2. QED
    BY <1>1, <2>1 DEF FewerBeyond
<1>8. QED
  BY <1>2, <1>3, <1>4, <1>5, <1>6, <1>7 DEF Inv

LEMMA DisappearInv ==
    ASSUME Inv, ViewWillDisappear
    PROVE  Inv'
<1>1. /\ visible' = FALSE /\ page' = 1
      /\ UNCHANGED <<itemArray, waiting, blocks, covering, visits, asks, lost>>
  BY DEF ViewWillDisappear
<1>2. /\ visible = TRUE /\ visits \in Nat /\ visits > 0
      /\ page \in Nat /\ 1 <= page /\ asks \in Nat
  BY HomeFeedAssumption DEF ViewWillDisappear, Inv, TypeOK, PageAsked, PageNumbers
<1>3. TypeOK' /\ RequestsNumbered' /\ PageAsked' /\ StartsWithFirstPage'
  <2>1. page' \in PageNumbers \cup {1}
    BY <1>1
  <2>2. TypeOK'
    BY <1>1, <2>1 DEF Inv, TypeOK
  <2>3. page <= asks
    BY <1>2 DEF Inv, PageAsked
  <2>4. PageAsked'
    BY <1>1, <1>2, <2>3 DEF PageAsked
  <2>5. QED
    BY <1>1, <2>2, <2>4 DEF Inv, RequestsNumbered, StartsWithFirstPage
<1>4. KnownIsInitial' /\ OnlyFirstIntoEmpty'
  <2>1. Known' = Known
    BY <1>1 DEF Known
  <2>2. 1..1 \subseteq 1..page
    BY <1>2
  <2>3. QED
    BY <1>1, <1>2, <2>1, <2>2 DEF Inv, KnownIsInitial, OnlyFirstIntoEmpty
<1>5. FewerBeyond'
  <2>1. ASSUME NEW p \in Nat
        PROVE  Copies(p)' + Owed(p)' <= 2 * visits'
    <3>1. Copies(p)' = Copies(p) /\ Copies(p) \in Nat
      BY <1>1, CopiesAreNat DEF Copies, AskedFor
    <3>2. Copies(p) + Owed(p) <= 2 * visits
      BY DEF Inv, FewerBeyond
    <3>3. Owed(p) \in Nat /\ Owed(p)' <= Owed(p) /\ Owed(p)' \in Nat
      BY <1>1, <1>2 DEF Owed
    <3>4. QED
      BY <1>1, <1>2, <3>1, <3>2, <3>3
  <2>2. QED
    BY <2>1 DEF FewerBeyond
<1>6. QED
  BY <1>3, <1>4, <1>5 DEF Inv

\* The last cell asks for the page after the last one asked for.
LEMMA WillDisplayInv ==
    ASSUME Inv, WillDisplayLastCell
    PROVE  Inv'
<1>1. /\ visible \in BOOLEAN /\ visible' = visible /\ itemArray # <<>> /\ visits > 0
      /\ page \in Nat /\ 1 <= page /\ page <= asks /\ page' = page + 1
      /\ visits \in Nat /\ visits' = visits
      /\ itemArray' = itemArray /\ blocks' = blocks /\ lost' = lost
      /\ covering' = TRUE /\ asks \in Nat /\ GetHomeItem(page + 1)
  BY HomeFeedAssumption DEF WillDisplayLastCell, Inv, TypeOK, PageAsked, PageNumbers
<1>2. /\ asks' = asks + 1 /\ asks' \in 0..MaxAsks /\ RequestsNumbered'
      /\ waiting' \subseteq Requests
      /\ {r.page : r \in waiting'} = {r.page : r \in waiting} \cup {page + 1}
      /\ \A q : Cardinality(AskedFor(q)') =
                  Cardinality(AskedFor(q)) + (IF q = page + 1 THEN 1 ELSE 0)
  <2>1. page + 1 \in 1..(asks + 1)
    BY <1>1
  <2>2. QED
    BY <1>1, <2>1, AskedOnceMore
<1>3. TypeOK'
  <2>1. page' \in PageNumbers
    BY <1>1, <1>2, HomeFeedAssumption DEF PageNumbers
  <2>2. QED
    BY <1>1, <1>2, <2>1 DEF Inv, TypeOK
<1>4. PageAsked' /\ StartsWithFirstPage' /\ OnlyFirstIntoEmpty'
  BY <1>1, <1>2 DEF Inv, PageAsked, StartsWithFirstPage, OnlyFirstIntoEmpty
<1>5. KnownIsInitial'
  <2>1. Known' = Known \cup {page + 1}
    BY <1>1, <1>2 DEF Known
  <2>2. /\ \A p \in Known : 1..p \subseteq Known
        /\ 1..page \subseteq Known
    BY <1>1 DEF Inv, KnownIsInitial
  <2>3. 1..(page + 1) = 1..page \cup {page + 1}
    BY <1>1
  <2>4. QED
    BY <1>1, <2>1, <2>2, <2>3 DEF KnownIsInitial
<1>6. FewerBeyond'
  <2>1. ASSUME NEW p \in Nat
        PROVE  Copies(p)' + Owed(p)' <= 2 * visits'
    <3>1. Copies(p)' = Copies(p) + (IF p = page + 1 THEN 1 ELSE 0) /\ Copies(p) \in Nat
      BY <1>1, <1>2, CopiesAreNat DEF Copies
    <3>2. Copies(p) + Owed(p) <= 2 * visits
      BY DEF Inv, FewerBeyond
    <3>3. Owed(p) \in Nat /\ Owed(p) = Owed(p)' + (IF p = page + 1 THEN 1 ELSE 0)
      BY <1>1 DEF Owed
    <3>4. Owed(p)' \in Nat
      BY <1>1 DEF Owed
    <3>5. QED
      BY <1>1, <3>1, <3>2, <3>3, <3>4
  <2>2. QED
    BY <1>1, <2>1 DEF FewerBeyond
<1>7. QED
  BY <1>2, <1>3, <1>4, <1>5, <1>6 DEF Inv

\* A page answered moves from the requests to the blocks.
LEMMA SuccessInv ==
    ASSUME Inv, NEW r \in waiting, Success(r)
    PROVE  Inv'
<1>1. /\ waiting' = waiting \ {r} /\ blocks' = Append(blocks, r.page)
      /\ UNCHANGED <<visible, page, itemArray, covering, visits, asks, lost>>
  BY DEF Success
<1>2. /\ RequestsNumbered' /\ waiting' \subseteq Requests /\ r.page \in PageNumbers
      /\ {q.page : q \in waiting} = {q.page : q \in waiting'} \cup {r.page}
      /\ \A q : Cardinality(AskedFor(q)') =
                  Cardinality(AskedFor(q)) - (IF q = r.page THEN 1 ELSE 0)
  BY <1>1, AnsweredOnce
<1>3. /\ blocks \in Seq(PageNumbers) /\ blocks' \in Seq(PageNumbers)
      /\ Elements(blocks') = Elements(blocks) \cup {r.page}
  BY <1>1, <1>2, ElementsAppend DEF Inv, TypeOK
<1>4. TypeOK' /\ PageAsked' /\ StartsWithFirstPage'
  BY <1>1, <1>2, <1>3 DEF Inv, TypeOK, PageAsked, StartsWithFirstPage
<1>5. KnownIsInitial'
  <2>1. Known' = Known
    BY <1>1, <1>2, <1>3 DEF Known
  <2>2. QED
    BY <1>1, <2>1 DEF Inv, KnownIsInitial
<1>6. OnlyFirstIntoEmpty'
  <2>1. ASSUME itemArray = <<>>, NEW i \in DOMAIN blocks'
        PROVE  blocks'[i] = 1
    <3>1. r.page = 1 /\ \A j \in DOMAIN blocks : blocks[j] = 1
      BY <2>1 DEF Inv, OnlyFirstIntoEmpty
    <3>2. QED
      BY <1>1, <1>2, <1>3, <2>1, <3>1
  <2>2. QED
    BY <1>1, <2>1 DEF Inv, OnlyFirstIntoEmpty
<1>7. FewerBeyond'
  <2>1. ASSUME NEW p \in Nat
        PROVE  Copies(p)' = Copies(p)
    <3>1. Count(blocks', p) = Count(blocks, p) + (IF r.page = p THEN 1 ELSE 0)
      BY <1>1, <1>2, <1>3, CountAppend
    <3>2. QED
      BY <1>1, <1>2, <3>1, CopiesAreNat DEF Copies
  <2>2. QED
    BY <1>1, <2>1 DEF Inv, FewerBeyond, Owed
<1>8. QED
  BY <1>2, <1>4, <1>5, <1>6, <1>7 DEF Inv

\* An answer without items leaves its page among the lost ones.
LEMMA NoItemsInv ==
    ASSUME Inv, NEW r \in waiting, NoItems(r) \/ SilentCode(r)
    PROVE  Inv'
<1>1. /\ waiting' = waiting \ {r} /\ lost' = lost \cup {r.page}
      /\ covering' \in BOOLEAN
      /\ UNCHANGED <<visible, page, itemArray, blocks, visits, asks>>
  BY DEF NoItems, SilentCode, Inv, TypeOK
<1>2. /\ RequestsNumbered' /\ waiting' \subseteq Requests /\ r.page \in PageNumbers
      /\ {q.page : q \in waiting} = {q.page : q \in waiting'} \cup {r.page}
      /\ \A q : Cardinality(AskedFor(q)') =
                  Cardinality(AskedFor(q)) - (IF q = r.page THEN 1 ELSE 0)
  BY <1>1, AnsweredOnce
<1>3. TypeOK' /\ PageAsked' /\ StartsWithFirstPage' /\ OnlyFirstIntoEmpty'
  BY <1>1, <1>2 DEF Inv, TypeOK, PageAsked, StartsWithFirstPage, OnlyFirstIntoEmpty
<1>4. KnownIsInitial'
  <2>1. Known' = Known
    BY <1>1, <1>2 DEF Known
  <2>2. QED
    BY <1>1, <2>1 DEF Inv, KnownIsInitial
<1>5. FewerBeyond'
  <2>1. visits \in Nat
    BY DEF Inv, TypeOK
  <2>2. ASSUME NEW p \in Nat
        PROVE  Copies(p)' <= Copies(p) /\ Copies(p)' \in Int /\ Copies(p) \in Nat
    BY <1>1, <1>2, CopiesAreNat DEF Copies
  <2>3. ASSUME NEW p \in Nat
        PROVE  Copies(p)' + Owed(p)' <= 2 * visits'
    <3>1. Copies(p) + Owed(p) <= 2 * visits
      BY DEF Inv, FewerBeyond
    <3>2. Owed(p)' = Owed(p) /\ Owed(p) \in Nat
      BY <1>1 DEF Owed
    <3>3. QED
      BY <1>1, <2>1, <2>2, <3>1, <3>2
  <2>4. QED
    BY <2>3 DEF FewerBeyond
<1>6. QED
  BY <1>2, <1>3, <1>4, <1>5 DEF Inv

\* The block of a page moves it to the end of the screen.
LEMMA SetProductInv ==
    ASSUME Inv, SetProduct
    PROVE  Inv'
<1> DEFINE first == Head(blocks)
<1>1. /\ blocks # <<>> /\ itemArray' = Append(itemArray, first) /\ blocks' = Tail(blocks)
      /\ covering' = FALSE /\ UNCHANGED <<visible, page, waiting, visits, asks, lost>>
      /\ itemArray \in Seq(PageNumbers) /\ blocks \in Seq(PageNumbers)
  BY DEF SetProduct, Inv, TypeOK
<1>2. /\ blocks' \in Seq(PageNumbers) /\ first \in PageNumbers
      /\ Elements(blocks) = Elements(blocks') \cup {first}
  BY <1>1, ElementsTail
<1>3. /\ itemArray' \in Seq(PageNumbers)
      /\ Elements(itemArray') = Elements(itemArray) \cup {first}
  BY <1>1, <1>2, ElementsAppend
<1>4. TypeOK' /\ RequestsNumbered' /\ PageAsked'
  <2>1. visits # 0
    BY <1>1 DEF Inv, PageAsked
  <2>2. PageAsked'
    BY <1>1, <2>1 DEF Inv, PageAsked
  <2>3. QED
    BY <1>1, <1>2, <1>3, <2>2 DEF Inv, TypeOK, RequestsNumbered
<1>5. KnownIsInitial'
  <2>1. Known' = Known
    BY <1>1, <1>2, <1>3 DEF Known
  <2>2. QED
    BY <1>1, <2>1 DEF Inv, KnownIsInitial
<1>6. OnlyFirstIntoEmpty' /\ StartsWithFirstPage'
  <2>1. itemArray' # <<>>
    BY <1>1, <1>2
  <2>2. CASE itemArray = <<>>
    <3>1. first = 1
      BY <1>1, <2>2 DEF Inv, OnlyFirstIntoEmpty
    <3>2. itemArray'[1] = 1
      BY <1>1, <2>2, <3>1
    <3>3. QED
      BY <2>1, <3>2 DEF OnlyFirstIntoEmpty, StartsWithFirstPage
  <2>3. CASE itemArray # <<>>
    <3>1. itemArray'[1] = itemArray[1]
      BY <1>1, <2>3
    <3>2. QED
      BY <2>1, <2>3, <3>1 DEF Inv, OnlyFirstIntoEmpty, StartsWithFirstPage
  <2>4. QED
    BY <2>2, <2>3
<1>7. FewerBeyond'
  <2>1. ASSUME NEW p \in Nat
        PROVE  Copies(p)' = Copies(p)
    <3>1. Count(itemArray', p) = Count(itemArray, p) + (IF first = p THEN 1 ELSE 0)
      BY <1>1, <1>2, CountAppend
    <3>2. Count(blocks, p) = Count(blocks', p) + (IF first = p THEN 1 ELSE 0)
      BY <1>1, CountTail
    <3>3. Count(blocks', p) \in Nat
      BY <1>2, CountIsNat
    <3>4. AskedFor(p)' = AskedFor(p)
      BY <1>1 DEF AskedFor
    <3>5. QED
      BY <3>1, <3>2, <3>3, <3>4, CopiesAreNat DEF Copies
  <2>2. QED
    BY <1>1, <2>1 DEF Inv, FewerBeyond, Owed
<1>8. QED
  BY <1>4, <1>5, <1>6, <1>7 DEF Inv

\* The spinner has no part in what was asked for.
LEMMA QuietInv ==
    ASSUME Inv, OtherAnswer \/ UNCHANGED vars
    PROVE  Inv'
<1>1. /\ UNCHANGED <<visible, page, itemArray, waiting, blocks, visits, asks, lost>>
      /\ covering' \in BOOLEAN
  BY DEF OtherAnswer, vars, Inv, TypeOK
<1>2. TypeOK' /\ RequestsNumbered' /\ PageAsked' /\ OnlyFirstIntoEmpty' /\ StartsWithFirstPage'
  BY <1>1 DEF Inv, TypeOK, RequestsNumbered, PageAsked, OnlyFirstIntoEmpty, StartsWithFirstPage
<1>3. KnownIsInitial' /\ FewerBeyond'
  BY <1>1 DEF Inv, KnownIsInitial, Known, FewerBeyond, Owed, Copies, AskedFor
<1>4. QED
  BY <1>2, <1>3 DEF Inv

LEMMA NextInv ==
    ASSUME Inv, [Next]_vars
    PROVE  Inv'
<1>1. ASSUME NEW r \in waiting, Answer(r)
      PROVE  Inv'
  BY <1>1, SuccessInv, NoItemsInv DEF Answer
<1>2. QED
  BY <1>1, AppearInv, DisappearInv, WillDisplayInv, SetProductInv, QuietInv DEF Next

LEMMA SpecInv == Spec => []Inv
<1>1. Inv /\ [Next]_vars => Inv'
  BY NextInv
<1>2. QED
  BY <1>1, InitInv, PTL DEF Spec

-----------------------------------------------------------------------------
\* The feed is type correct: page, the queued blocks and the array only hold
\* numbers of pages that may have been asked for.
THEOREM TypeCorrect == Spec => []TypeOK
<1>1. Inv => TypeOK
  BY DEF Inv
<1>2. QED
  BY <1>1, SpecInv, PTL

\* Whatever the order of answers, appearances and blocks, and although a screen
\* that is leaving pages on, a page on screen, queued and asked for has at most
\* two copies for every appearance, and one less while the screen is in front.
THEOREM PagesAskedTwicePerVisit == Spec => []TwicePerVisit
<1>1. Inv => TwicePerVisit
  <2>1. ASSUME Inv, NEW p \in PageNumbers
        PROVE  Copies(p) + (IF visible THEN 1 ELSE 0) <= 2 * visits
    <3>1. p \in Nat /\ visits \in Nat
      BY <2>1 DEF PageNumbers, Inv, TypeOK
    <3>2. Copies(p) \in Nat
      BY <2>1, CopiesAreNat DEF Copies
    <3>3. Copies(p) + Owed(p) <= 2 * visits
      BY <2>1, <3>1 DEF Inv, FewerBeyond
    <3>4. Owed(p) \in Nat /\ (IF visible THEN 1 ELSE 0) <= Owed(p)
      BY DEF Owed
    <3>5. QED
      BY <3>1, <3>2, <3>3, <3>4
  <2>2. QED
    BY <2>1 DEF TwicePerVisit
<1>2. QED
  BY <1>1, SpecInv, PTL

\* Every page before one that is on screen was asked for: it is on the screen,
\* on its way, or an answer of it brought no items.
THEOREM NoPageIsSkipped == Spec => []NoSkippedPage
<1>1. Inv => NoSkippedPage
  <2>1. ASSUME Inv, NEW p \in Elements(itemArray), NEW q \in 1..p
        PROVE  \/ q \in Elements(itemArray) \cup Elements(blocks) \cup lost
               \/ \E r \in waiting : r.page = q
    <3>1. p \in Known
      BY DEF Known
    <3>2. q \in Known
      BY <2>1, <3>1 DEF Inv, KnownIsInitial
    <3>3. QED
      BY <3>2 DEF Known
  <2>2. QED
    BY <2>1 DEF NoSkippedPage
<1>2. QED
  BY <1>1, SpecInv, PTL

\* A feed that shows anything begins with the first page.
THEOREM FirstPageFirst == Spec => []StartsWithFirstPage
<1>1. Inv => StartsWithFirstPage
  BY DEF Inv
<1>2. QED
  BY <1>1, SpecInv, PTL

\* No step takes away, replaces or moves an item that is on screen.
THEOREM RowsStay == Spec => RowsKeepTheirItems
<1> DEFINE Kept ==
             /\ Len(itemArray) <= Len(itemArray')
             /\ \A i \in DOMAIN itemArray : itemArray'[i] = itemArray[i]
<1>1. Inv /\ [Next]_vars => [Kept]_vars
  <2> SUFFICES ASSUME Inv, Next PROVE Kept
    OBVIOUS
  <2>1. itemArray \in Seq(PageNumbers) /\ blocks \in Seq(PageNumbers)
    BY DEF Inv, TypeOK
  <2>2. CASE SetProduct
    <3>1. Head(blocks) \in PageNumbers /\ itemArray' = Append(itemArray, Head(blocks))
      BY <2>1, <2>2, ElementsTail DEF SetProduct
    <3>2. QED
      BY <2>1, <3>1
  <2>3. CASE ~ SetProduct
    <3>1. itemArray' = itemArray
      BY <2>3 DEF Next, Answer, ViewWillAppear, ViewWillDisappear, WillDisplayLastCell,
                  Success, NoItems, SilentCode, OtherAnswer
    <3>2. QED
      BY <2>1, <3>1
  <2>4. QED
    BY <2>2, <2>3
<1>2. QED
  BY <1>1, SpecInv, PTL DEF Spec, RowsKeepTheirItems
=============================================================================
