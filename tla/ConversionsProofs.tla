-------------------------- MODULE ConversionsProofs --------------------------
(***************************************************************************)
(* Proofs about Conversions, for every value of its constants: what the    *)
(* helpers return for strings, prices and counts of any size.              *)
(***************************************************************************)
EXTENDS Conversions, TLAPS, FiniteSetTheorems, SequenceTheorems, WellFoundedInduction

\* A behaviour is one call, so that what it returned is all there is to know.
Inv ==
    /\ SubstringIsSlice
    /\ CommasGroupThousands
    /\ InsertCommaIdempotent
    /\ LabelsMatchItems

-----------------------------------------------------------------------------
(* Arithmetic of commas: the characters to the right of a digit that has k *)
(* digits to its right, and the digits among r characters.                 *)

Place(k) == k + k \div 3

Rank(r) == r - r \div 4

\* The two are inverse to each other, where there is no comma.
LEMMA PlaceOfDigit ==
    \A k \in Nat : Place(k) \in Nat /\ Place(k) % 4 # 3 /\ Rank(Place(k)) = k
  BY DEF Place, Rank

LEMMA DigitOfPlace ==
    \A r \in Nat : r % 4 # 3 => Rank(r) \in Nat /\ Place(Rank(r)) = r
  BY DEF Place, Rank

LEMMA PlaceGrows ==
    \A j, k \in Nat : j < k => Place(j) < Place(k)
  BY DEF Place

\* The comma with 4c + 3 characters to its right has 3c + 3 digits there.
LEMMA PlaceOfComma ==
    \A c, k \in Nat : Place(k) < 4 * c + 3 <=> k <= 3 * c + 2
  BY DEF Place

LEMMA CommaQuotient ==
    \A r \in Nat : r % 4 = 3 <=> \E c \in Nat : r = 4 * c + 3
<1>1. ASSUME NEW r \in Nat, r % 4 = 3
      PROVE  \E c \in Nat : r = 4 * c + 3
  <2>1. r \div 4 \in Nat /\ r = 4 * (r \div 4) + 3
    BY <1>1
  <2>2. QED
    BY <2>1
<1>2. ASSUME NEW c \in Nat
      PROVE  (4 * c + 3) % 4 = 3
  OBVIOUS
<1>3. QED
  BY <1>1, <1>2

LEMMA ThirdQuotient ==
    \A x, c \in Nat : x \div 3 \in Nat /\ (c <= x \div 3 <=> 3 * c <= x)
  OBVIOUS

-----------------------------------------------------------------------------
(* substring and the labels.                                               *)

\* The positions that substring(from:to:) is asked for and the string has.
Positions(s, from, to) == {p \in 0..Len(s) - 1 : from <= p /\ p < to}

LEMMA SubstringLemma ==
    ASSUME NEW s \in Seq(Characters), NEW from \in Int, NEW to \in Int, from >= 0
    PROVE  /\ Substring(s, from, to).trapped = FALSE
           /\ Len(Substring(s, from, to).text) = Cardinality(Positions(s, from, to))
           /\ \A p \in Positions(s, from, to) :
                  Substring(s, from, to).text[p - from + 1] = s[p + 1]
<1> DEFINE last      == Smaller(to, Len(s))
           slice     == Substring(s, from, to)
           positions == Positions(s, from, to)
<1>1. positions = {p \in 0..Len(s) - 1 : from <= p /\ p < to}
  BY DEF Positions
<1>2. slice = IF to < 0 \/ from > Len(s) \/ from > to THEN Returns(<<>>)
              ELSE LET start == Larger(from, 0)
                       end   == start + (Smaller(to, Len(s)) - from)
                   IN  IF end > Len(s) THEN Traps ELSE Returns(SubSeq(s, start + 1, end))
  BY DEF Substring
<1> SUFFICES /\ slice.trapped = FALSE
             /\ Len(slice.text) = Cardinality(positions)
             /\ \A p \in positions : slice.text[p - from + 1] = s[p + 1]
  OBVIOUS
<1> HIDE DEF slice, positions
<1>3. Len(s) \in Nat
  OBVIOUS
<1>4. CASE to < 0 \/ from > Len(s) \/ from > to
  <2>1. slice = Returns(<<>>)
    BY <1>4, <1>2
  <2>2. slice.text = <<>> /\ slice.trapped = FALSE
    BY <2>1 DEF Returns
  <2>3. positions = {}
    BY <1>3, <1>4, <1>1
  <2>4. Cardinality(positions) = 0
    BY <2>3, FS_EmptySet
  <2>5. Len(slice.text) = 0
    BY <2>2
  <2>6. QED
    BY <2>2, <2>3, <2>4, <2>5
<1>5. CASE ~ (to < 0 \/ from > Len(s) \/ from > to)
  <2>1. /\ last \in Nat /\ from \in Nat /\ from <= last /\ last <= Len(s)
        /\ last <= to /\ (last = to \/ last = Len(s))
    BY <1>3, <1>5 DEF Smaller
  <2>2. Larger(from, 0) = from
    BY <1>5 DEF Larger
  <2>3. from + (last - from) = last /\ ~ (last > Len(s))
    <3> HIDE DEF last
    <3>1. QED
      BY <1>3, <2>1
  <2>4. slice = IF from + (last - from) > Len(s) THEN Traps
                ELSE Returns(SubSeq(s, from + 1, from + (last - from)))
    BY <1>5, <2>2, <1>2
  <2> HIDE DEF last
  <2>5. slice = Returns(SubSeq(s, from + 1, last))
    BY <2>3, <2>4
  <2>6. slice.text = SubSeq(s, from + 1, last) /\ slice.trapped = FALSE
    <3> DEFINE text == SubSeq(s, from + 1, last)
    <3> HIDE DEF text
    <3>1. slice = [text |-> text, trapped |-> FALSE]
      BY <2>5 DEF Returns, text
    <3>2. slice.text = text /\ slice.trapped = FALSE
      BY <3>1
    <3>3. QED
      BY <3>2 DEF text
  <2>7. /\ Len(SubSeq(s, from + 1, last)) = last - from
        /\ \A i \in 1..(last - from) : SubSeq(s, from + 1, last)[i] = s[from + i]
    BY <1>3, <2>1
  <2>8. positions = from..(last - 1)
    BY <1>3, <2>1, <1>1
  <2>9. Cardinality(from..(last - 1)) = last - from
    <3>1. last - 1 \in Int /\ from \in Int
      BY <2>1
    <3>2. Cardinality(from..(last - 1)) = IF from > last - 1 THEN 0 ELSE (last - 1) - from + 1
      BY <3>1, FS_Interval
    <3>3. QED
      BY <2>1, <3>2
  <2>10. ASSUME NEW p \in positions
         PROVE  slice.text[p - from + 1] = s[p + 1]
    <3>1. p \in Nat /\ from <= p /\ p <= last - 1
      BY <2>1, <2>8
    <3>2. p - from + 1 \in 1..(last - from)
      BY <2>1, <3>1
    <3>3. from + (p - from + 1) = p + 1
      BY <2>1, <3>1
    <3>4. SubSeq(s, from + 1, last)[p - from + 1] = s[from + (p - from + 1)]
      BY <2>7, <3>2
    <3>5. QED
      BY <2>6, <3>3, <3>4
  <2>11. QED
    BY <2>6, <2>7, <2>8, <2>9, <2>10
<1>6. QED
  BY <1>4, <1>5

LEMMA SubstringStep ==
    ASSUME NEW s \in Texts, NEW from \in Int, NEW to \in Int, CallSubstring(s, from, to)
    PROVE  SubstringIsSlice'
<1>1. /\ call'.text = s /\ call'.from = from /\ call'.to = to
      /\ result' = Substring(s, from, to).text
      /\ trapped' = Substring(s, from, to).trapped
  BY DEF CallSubstring
<1>2. s \in Seq(Characters)
  BY ConversionAssumption
<1>3. ASSUME from >= 0
      PROVE  /\ ~ trapped'
             /\ Len(result') = Cardinality(Positions(s, from, to))
             /\ \A p \in Positions(s, from, to) : result'[p - from + 1] = s[p + 1]
  BY <1>1, <1>2, <1>3, SubstringLemma
<1>4. QED
  BY <1>1, <1>3 DEF SubstringIsSlice, Positions

LEMMA LabelsStep ==
    ASSUME NEW count \in 0..MaxOthers, NEW prices \in [1..count -> Prices],
           ShowOtherProducts(prices)
    PROVE  LabelsMatchItems'
<1>1. count \in Nat /\ Len(prices) = count
  <2>1. MaxOthers \in Nat
    BY ConversionAssumption
  <2>2. count \in Nat
    BY <2>1
  <2>3. DOMAIN prices = 1..count
    OBVIOUS
  <2>4. prices \in Seq(Prices)
    BY <2>2
  <2>5. QED
    BY <2>2, <2>3, <2>4
<1>2. /\ call'.prices = prices
      /\ \A i \in Labels :
             /\ result'[i].text = IF i <= count THEN PriceLabel(prices[i]) ELSE Blank
             /\ result'[i].white = (i \in White(count))
      /\ trapped' = (count > Cardinality(Labels))
  BY <1>1 DEF ShowOtherProducts
<1>3. Cardinality(Labels) = 3
  <2>1. \A m, n \in Int : Cardinality(m..n) = IF m > n THEN 0 ELSE n - m + 1
    BY FS_Interval
  <2>2. Cardinality(1..3) = 3
    <3>1. 1 \in Int /\ 3 \in Int /\ ~ (1 > 3) /\ 3 - 1 + 1 = 3
      OBVIOUS
    <3>2. Cardinality(1..3) = IF 1 > 3 THEN 0 ELSE 3 - 1 + 1
      BY <2>1, <3>1, Zenon
    <3>3. QED
      BY <3>1, <3>2
  <2>3. QED
    BY <2>2 DEF Labels
<1>4. SUFFICES ASSUME ~ trapped', NEW i \in Labels
               PROVE  LET value == result'[i].text.number * result'[i].text.unit
                      IN  /\ result'[i].white <=> i > count
                          /\ ~ result'[i].white => value <= prices[i] /\ prices[i] < value + 10000
  BY <1>1, <1>2 DEF LabelsMatchItems
<1>5. count \in 0..3 /\ i \in 1..3
  <2>1. ~ (count > 3)
    BY <1>2, <1>3, <1>4
  <2>2. count \in 0..3
    BY <1>1, <2>1
  <2>3. QED
    BY <2>2, <1>4 DEF Labels
<1>6. i \in White(count) <=> i > count
  <2>1. CASE count = 0
    BY <1>5, <2>1 DEF White, Labels
  <2>2. CASE count = 1
    BY <1>5, <2>2 DEF White, Labels
  <2>3. CASE count = 2
    BY <1>5, <2>3 DEF White, Labels
  <2>4. CASE count = 3
    BY <1>5, <2>4 DEF White, Labels
  <2>5. QED
    BY <1>5, <2>1, <2>2, <2>3, <2>4
<1>7. result'[i].white <=> i > count
  BY <1>2, <1>6
<1>8. ASSUME ~ (i > count)
      PROVE  LET value == result'[i].text.number * result'[i].text.unit
             IN  value <= prices[i] /\ prices[i] < value + 10000
  <2>1. i \in 1..count
    BY <1>1, <1>5, <1>8
  <2>2. prices[i] \in Nat
    <3>1. prices[i] \in Prices
      BY <2>1
    <3>2. QED
      BY <3>1, ConversionAssumption
  <2>3. result'[i].text = PriceLabel(prices[i])
    BY <1>1, <1>2, <2>1, <1>5 DEF Labels
  <2>4. CASE prices[i] >= 10000
    <3>1. result'[i].text.number = prices[i] \div 10000 /\ result'[i].text.unit = 10000
      BY <2>3, <2>4 DEF PriceLabel
    <3>2. \A x \in Nat : (x \div 10000) * 10000 <= x /\ x < (x \div 10000) * 10000 + 10000
      OBVIOUS
    <3>3. QED
      BY <2>2, <3>1, <3>2
  <2>5. CASE ~ (prices[i] >= 10000)
    <3>1. result'[i].text.number = prices[i] /\ result'[i].text.unit = 1
      BY <2>3, <2>5 DEF PriceLabel
    <3>2. QED
      BY <2>2, <3>1
  <2>6. QED
    BY <2>4, <2>5
<1>9. QED
  BY <1>7, <1>8

-----------------------------------------------------------------------------
(* The commas of a number of n digits.  Formatted places its characters    *)
(* from the right; the property counts the digits from the left.           *)

Length(n) == n + (n - 1) \div 3

\* Where the digits of a number of n digits are shown.
Position(n) == [j \in 1..n |-> Length(n) - Place(n - j)]

LEMMA LengthOfPlace ==
    ASSUME NEW n \in Nat, n >= 1
    PROVE  Length(n) \in Nat /\ Length(n) >= n /\ n - 1 \in Nat /\ Length(n) - 1 = Place(n - 1)
  BY DEF Length, Place

LEMMA PositionOfDigit ==
    ASSUME NEW n \in Nat, n >= 1, NEW j \in 1..n
    PROVE  /\ Position(n)[j] \in 1..Length(n)
           /\ (Length(n) - Position(n)[j]) % 4 # 3
           /\ Rank(Length(n) - Position(n)[j]) = n - j
<1> DEFINE k == n - j
<1>1. k \in Nat /\ k <= n - 1 /\ n - 1 \in Nat
  OBVIOUS
<1>2. Position(n)[j] = Length(n) - Place(k)
  BY DEF Position
<1> HIDE DEF k
<1>3. Place(k) \in Nat /\ Place(k) <= Length(n) - 1 /\ Length(n) \in Nat
  <2>1. Place(k) \in Nat /\ Place(n - 1) \in Nat
    BY <1>1, PlaceOfDigit
  <2>2. Place(k) <= Place(n - 1)
    BY <1>1, <2>1, PlaceGrows
  <2>3. QED
    BY <2>1, <2>2, LengthOfPlace
<1>4. Length(n) - Position(n)[j] = Place(k)
  BY <1>2, <1>3
<1>5. Position(n)[j] \in 1..Length(n)
  BY <1>2, <1>3
<1>6. Place(k) % 4 # 3 /\ Rank(Place(k)) = k
  BY <1>1, PlaceOfDigit
<1>7. QED
  BY <1>4, <1>5, <1>6 DEF k

LEMMA PositionsGrow ==
    ASSUME NEW n \in Nat, n >= 1, NEW i \in 1..n, NEW j \in 1..n, i < j
    PROVE  Position(n)[i] < Position(n)[j]
<1>1. n - i \in Nat /\ n - j \in Nat /\ n - j < n - i
  OBVIOUS
<1>2. Place(n - j) < Place(n - i) /\ Place(n - i) \in Nat /\ Place(n - j) \in Nat
  BY <1>1, PlaceGrows, PlaceOfDigit
<1>3. Position(n)[i] = Length(n) - Place(n - i) /\ Position(n)[j] = Length(n) - Place(n - j)
  BY DEF Position
<1>4. QED
  BY <1>2, <1>3, LengthOfPlace

\* What is no comma is a digit.
LEMMA DigitAtPosition ==
    ASSUME NEW n \in Nat, n >= 1, NEW i \in 1..Length(n), (Length(n) - i) % 4 # 3
    PROVE  \E j \in 1..n : i = Position(n)[j]
<1> DEFINE r == Length(n) - i
           k == Rank(r)
<1>1. Length(n) \in Nat /\ n - 1 \in Nat /\ Length(n) - 1 = Place(n - 1)
  BY LengthOfPlace
<1>2. r \in Nat /\ r <= Length(n) - 1 /\ i = Length(n) - r
  BY <1>1
<1>3. r % 4 # 3
  OBVIOUS
<1> HIDE DEF r
<1>4. k \in Nat /\ Place(k) = r
  BY <1>2, <1>3, DigitOfPlace
<1> HIDE DEF k
<1>5. k <= n - 1
  <2>1. ~ (n - 1 < k)
    BY <1>1, <1>2, <1>4, PlaceGrows
  <2>2. QED
    BY <1>1, <1>4, <2>1
<1>6. n - k \in 1..n /\ n - (n - k) = k
  BY <1>4, <1>5
<1>7. Position(n)[n - k] = Length(n) - Place(k)
  BY <1>6 DEF Position
<1>8. QED
  BY <1>2, <1>4, <1>6, <1>7

\* The comma with 4 * c + 3 characters to its right: it is there when the
\* number has more than 3 * c + 3 digits, and so many follow it.
LEMMA CommaIsThere ==
    ASSUME NEW n \in Nat, n >= 1, NEW c \in Nat
    PROVE  4 * c + 3 <= Length(n) - 1 <=> c + 1 <= (n - 1) \div 3
<1>1. Place(n - 1) < 4 * c + 3 <=> n - 1 <= 3 * c + 2
  BY PlaceOfComma, LengthOfPlace
<1>2. c + 1 <= (n - 1) \div 3 <=> 3 * (c + 1) <= n - 1
  BY ThirdQuotient, LengthOfPlace
<1>3. Place(n - 1) = Length(n) - 1 /\ Length(n) \in Nat
  BY LengthOfPlace
<1>4. QED
  BY <1>1, <1>2, <1>3

LEMMA DigitsRightOfComma ==
    ASSUME NEW n \in Nat, n >= 1, NEW c \in Nat, 4 * c + 3 <= Length(n) - 1, NEW j \in 1..n
    PROVE  Position(n)[j] > Length(n) - (4 * c + 3) <=> j >= n - 3 * c - 2
<1>1. n - j \in Nat /\ Place(n - j) \in Nat
  BY PlaceOfDigit
<1>2. Place(n - j) < 4 * c + 3 <=> n - j <= 3 * c + 2
  BY <1>1, PlaceOfComma
<1>3. Position(n)[j] = Length(n) - Place(n - j) /\ Length(n) \in Nat
  BY LengthOfPlace DEF Position
<1>4. QED
  BY <1>1, <1>2, <1>3

\* The values of an injective function on an interval are as many as its
\* arguments.
LEMMA Counted ==
    ASSUME NEW a \in Int, NEW b \in Int, a <= b + 1, NEW f,
           \A i, j \in a..b : f[i] = f[j] => i = j
    PROVE  Cardinality({f[i] : i \in a..b}) = b - a + 1
<1> DEFINE T == {f[i] : i \in a..b}
           g == [i \in a..b |-> f[i]]
<1>1. g \in [a..b -> T] /\ \A i \in a..b : g[i] = f[i]
  OBVIOUS
<1>2. \A t \in T : \E i \in a..b : g[i] = t
  OBVIOUS
<1>3. \A i, j \in a..b : g[i] = g[j] => i = j
  BY <1>1
<1> HIDE DEF T, g
<1>4. g \in Bijection(a..b, T)
  BY <1>1, <1>2, <1>3, Zenon DEF Bijection, Injection, Surjection, IsInjective
<1>5. ExistsBijection(a..b, T)
  BY <1>4, Zenon DEF ExistsBijection
<1>6. IsFiniteSet(a..b) /\ Cardinality(a..b) = b - a + 1
  <2>1. IsFiniteSet(a..b) /\ Cardinality(a..b) = IF a > b THEN 0 ELSE b - a + 1
    BY FS_Interval
  <2>2. QED
    BY <2>1
<1>7. Cardinality(T) = Cardinality(a..b)
  BY <1>5, <1>6, FS_Bijection
<1>8. QED
  BY <1>6, <1>7 DEF T

-----------------------------------------------------------------------------
(* Grouping by thousands.                                                  *)

\* Formatted, of a number without zeros at its head.
Shown(number) ==
    [ i \in 1..Length(Len(number)) |->
        IF (Length(Len(number)) - i) % 4 = 3 THEN ","
        ELSE number[Len(number) - Rank(Length(Len(number)) - i)] ]

LEMMA FormattedIsShown ==
    ASSUME NEW digits
    PROVE  Formatted(digits) = Shown(WithoutLeadingZeros(digits))
  BY Zenon DEF Formatted, Shown, Length, Rank

LEMMA CommaIsNoDigit == "," \notin Digits
  BY DEF Digits

\* The digits are shown at their positions and nothing but commas elsewhere.
LEMMA ShownCharacters ==
    ASSUME NEW number \in Seq(Digits), number # <<>>
    PROVE  LET n == Len(number)
               m == Length(n)
           IN  /\ n \in Nat /\ n >= 1 /\ m \in Nat /\ m >= n
               /\ DOMAIN Shown(number) = 1..m
               /\ \A j \in 1..n : Position(n)[j] \in 1..m /\ Shown(number)[Position(n)[j]] = number[j]
               /\ \A j \in 1..n : number[j] \in Digits
               /\ \A i \in 1..m : Shown(number)[i] = "," <=> (m - i) % 4 = 3
               /\ \A i \in 1..m : Shown(number)[i] # "," <=> \E j \in 1..n : i = Position(n)[j]
<1> DEFINE n    == Len(number)
           m    == Length(n)
           text == Shown(number)
<1>1. n \in Nat /\ n >= 1
  OBVIOUS
<1> HIDE DEF n
<1>2. m \in Nat /\ m >= n
  BY <1>1, LengthOfPlace
<1>3. text = [i \in 1..m |-> IF (m - i) % 4 = 3 THEN "," ELSE number[n - Rank(m - i)]]
  BY DEF Shown, n
<1> HIDE DEF text, m
<1>4. DOMAIN text = 1..m
  BY <1>3
<1>5. ASSUME NEW i \in 1..m, (m - i) % 4 = 3
      PROVE  text[i] = ","
  BY <1>3, <1>5
<1>6. ASSUME NEW j \in 1..n
      PROVE  Position(n)[j] \in 1..m /\ (m - Position(n)[j]) % 4 # 3 /\ text[Position(n)[j]] = number[j]
  <2>1. /\ Position(n)[j] \in 1..m
        /\ (m - Position(n)[j]) % 4 # 3
        /\ Rank(m - Position(n)[j]) = n - j
    BY <1>1, PositionOfDigit DEF m
  <2>2. text[Position(n)[j]] = number[n - Rank(m - Position(n)[j])]
    BY <1>3, <2>1
  <2>3. n - (n - j) = j
    BY <1>1
  <2>4. QED
    BY <2>1, <2>2, <2>3
<1>7. ASSUME NEW j \in 1..n
      PROVE  number[j] \in Digits
  BY DEF n
<1>8. ASSUME NEW i \in 1..m, (m - i) % 4 # 3
      PROVE  \E j \in 1..n : i = Position(n)[j]
  BY <1>1, <1>8, DigitAtPosition DEF m
<1>9. ASSUME NEW i \in 1..m, NEW j \in 1..n, i = Position(n)[j]
      PROVE  text[i] # ","
  BY <1>6, <1>7, <1>9, CommaIsNoDigit
<1>10. \A i \in 1..m : text[i] = "," <=> (m - i) % 4 = 3
  BY <1>5, <1>8, <1>9
<1>11. \A i \in 1..m : text[i] # "," <=> \E j \in 1..n : i = Position(n)[j]
  BY <1>5, <1>8, <1>9
<1>12. QED
  BY <1>1, <1>2, <1>4, <1>6, <1>7, <1>10, <1>11 DEF text, n, m

LEMMA PositionsDiffer ==
    ASSUME NEW n \in Nat, n >= 1, NEW i \in 1..n, NEW j \in 1..n, Position(n)[i] = Position(n)[j]
    PROVE  i = j
<1>1. Position(n)[i] \in Nat /\ Position(n)[j] \in Nat
  BY PositionOfDigit, LengthOfPlace
<1>2. ~ (i < j) /\ ~ (j < i)
  BY <1>1, PositionsGrow
<1>3. QED
  BY <1>2

\* A number shown with its commas is grouped by thousands.
LEMMA ShownGroups ==
    ASSUME NEW number \in Seq(Digits), number # <<>>
    PROVE  Grouped(number, Shown(number))
<1> DEFINE n      == Len(number)
           m      == Length(n)
           text   == Shown(number)
           pos    == Position(n)
           commas == {i \in DOMAIN text : text[i] = ","}
           digits == DOMAIN text \ commas
           right(i) == Cardinality({j \in digits : j > i})
<1>1. n \in Nat /\ n >= 1 /\ m \in Nat /\ m >= n
  BY ShownCharacters
<1>2. DOMAIN text = 1..m
  BY ShownCharacters
<1>3. \A j \in 1..n : pos[j] \in 1..m
  BY ShownCharacters
<1>4. \A j \in 1..n : text[pos[j]] = number[j]
  BY ShownCharacters
<1>5. \A i \in 1..m : text[i] = "," <=> (m - i) % 4 = 3
  BY ShownCharacters
<1>6. \A i \in 1..m : text[i] # "," <=> \E j \in 1..n : i = pos[j]
  BY ShownCharacters
<1>7. \A i, j \in 1..n : pos[i] = pos[j] => i = j
  BY <1>1, PositionsDiffer
<1>8. \A i, j \in 1..n : i < j => pos[i] < pos[j]
  BY <1>1, PositionsGrow
<1>9. \A c \in Nat : 4 * c + 3 <= m - 1 <=> c + 1 <= (n - 1) \div 3
  BY <1>1, CommaIsThere
<1>10. \A c \in Nat, j \in 1..n : 4 * c + 3 <= m - 1 =>
          (pos[j] > m - (4 * c + 3) <=> j >= n - 3 * c - 2)
  BY <1>1, DigitsRightOfComma
<1>11. \A r \in Nat : r % 4 = 3 <=> \E c \in Nat : r = 4 * c + 3
  BY CommaQuotient
<1>12. (m - 1) % 4 # 3
  <2>1. m - 1 = Place(n - 1) /\ n - 1 \in Nat
    BY <1>1, LengthOfPlace
  <2>2. QED
    BY <2>1, PlaceOfDigit
<1> HIDE DEF n, m, text, pos
<1>13. /\ commas = {i \in 1..m : (m - i) % 4 = 3}
      /\ digits = {pos[j] : j \in 1..n}
  <2>1. commas = {i \in 1..m : (m - i) % 4 = 3}
    BY <1>2, <1>5
  <2>2. digits = {i \in 1..m : text[i] # ","}
    BY <1>2
  <2>3. digits = {pos[j] : j \in 1..n}
    BY <2>2, <1>3, <1>6
  <2>4. QED
    BY <2>1, <2>3
<1> HIDE DEF commas, digits
<1>14. Cardinality(digits) = n
  <2>1. 1 \in Int /\ n \in Int /\ 1 <= n + 1 /\ n - 1 + 1 = n
    BY <1>1
  <2>2. Cardinality({pos[j] : j \in 1..n}) = n - 1 + 1
    BY <1>7, <2>1, Counted
  <2>3. QED
    BY <1>13, <2>1, <2>2
<1>15. ASSUME NEW i \in digits
       PROVE  text[i] = number[Cardinality({j \in digits : j <= i})]
  <2>1. PICK k \in 1..n : i = pos[k]
    BY <1>13
  <2>2. {j \in digits : j <= i} = {pos[j] : j \in 1..k}
    <3>1. ASSUME NEW j \in 1..n
          PROVE  pos[j] <= pos[k] <=> j <= k
      <4>1. pos[j] \in Nat /\ pos[k] \in Nat /\ j \in Nat /\ k \in Nat
        BY <1>1, <1>3
      <4>2. (j < k => pos[j] < pos[k]) /\ (k < j => pos[k] < pos[j])
        BY <1>8
      <4>3. QED
        BY <4>1, <4>2
    <3>2. \A j \in 1..n : j \in 1..k <=> j <= k
      BY <1>1
    <3>3. 1..k \subseteq 1..n
      BY <1>1
    <3>4. QED
      BY <1>13, <2>1, <3>1, <3>2, <3>3
  <2>3. Cardinality({pos[j] : j \in 1..k}) = k
    <3>1. 1 \in Int /\ k \in Int /\ 1 <= k + 1 /\ k - 1 + 1 = k /\ 1..k \subseteq 1..n
      BY <1>1
    <3>2. \A a, b \in 1..k : pos[a] = pos[b] => a = b
      BY <1>7, <3>1
    <3>3. Cardinality({pos[j] : j \in 1..k}) = k - 1 + 1
      BY <3>1, <3>2, Counted
    <3>4. QED
      BY <3>1, <3>3
  <2>4. QED
    BY <1>4, <2>1, <2>2, <2>3
<1>16. 1 \notin commas
  BY <1>12, <1>13
<1>17. ASSUME NEW c \in Nat, 4 * c + 3 <= m - 1
       PROVE  right(m - (4 * c + 3)) = 3 * (c + 1)
  <2> DEFINE first == n - 3 * c - 2
  <2>1. 3 * (c + 1) <= n - 1
    <3>1. c + 1 <= (n - 1) \div 3
      BY <1>9, <1>17
    <3>2. n - 1 \in Nat /\ c + 1 \in Nat
      BY <1>1
    <3>3. QED
      BY <3>1, <3>2, ThirdQuotient
  <2>2. /\ first \in Int /\ n \in Int /\ first <= n + 1
        /\ n - first + 1 = 3 * (c + 1) /\ first..n \subseteq 1..n
        /\ \A j \in 1..n : j \in first..n <=> j >= first
    BY <1>1, <2>1
  <2>3. {j \in digits : j > m - (4 * c + 3)} = {pos[j] : j \in first..n}
    <3>1. \A j \in 1..n : pos[j] > m - (4 * c + 3) <=> j >= first
      BY <1>10, <1>17
    <3> HIDE DEF first
    <3>2. QED
      BY <1>13, <2>2, <3>1
  <2> HIDE DEF first
  <2>4. \A a, b \in first..n : pos[a] = pos[b] => a = b
    BY <1>7, <2>2
  <2>5. Cardinality({pos[j] : j \in first..n}) = n - first + 1
    BY <2>2, <2>4, Counted
  <2>6. QED
    BY <2>2, <2>3, <2>5
<1>18. {right(i) : i \in commas} = {3 * k : k \in 1..((n - 1) \div 3)}
  <2> HIDE DEF right
  <2>1. ASSUME NEW i \in commas
        PROVE  \E k \in 1..((n - 1) \div 3) : right(i) = 3 * k
    <3>1. m - i \in Nat /\ i \in 1..m /\ (m - i) % 4 = 3
      BY <1>1, <1>13
    <3>2. PICK c \in Nat : m - i = 4 * c + 3
      BY <1>11, <3>1
    <3>3. 4 * c + 3 <= m - 1 /\ i = m - (4 * c + 3)
      BY <1>1, <3>1, <3>2
    <3>4. right(i) = 3 * (c + 1)
      BY <1>17, <3>3
    <3>5. c + 1 \in 1..((n - 1) \div 3)
      <4>1. c + 1 <= (n - 1) \div 3 /\ (n - 1) \div 3 \in Int
        BY <1>1, <1>9, <3>3
      <4>2. QED
        BY <4>1
    <3>6. QED
      BY <3>4, <3>5
  <2>2. ASSUME NEW k \in 1..((n - 1) \div 3)
        PROVE  \E i \in commas : right(i) = 3 * k
    <3> DEFINE c == k - 1
               i == m - (4 * c + 3)
    <3>1. c \in Nat /\ c + 1 = k /\ c + 1 <= (n - 1) \div 3
      <4>1. (n - 1) \div 3 \in Int
        BY <1>1
      <4>2. QED
        BY <4>1
    <3> HIDE DEF c
    <3>2. 4 * c + 3 <= m - 1
      BY <1>9, <3>1
    <3>3. i \in 1..m /\ m - i = 4 * c + 3
      BY <1>1, <3>1, <3>2
    <3>4. (m - i) % 4 = 3
      BY <3>1, <3>3
    <3>5. i \in commas
      BY <1>13, <3>3, <3>4
    <3>6. right(i) = 3 * k
      BY <1>17, <3>1, <3>2
    <3>7. QED
      BY <3>5, <3>6
  <2>3. QED
    BY <2>1, <2>2
<1>19. Cardinality(commas) = (n - 1) \div 3
  <2> DEFINE q == (n - 1) \div 3
             f == [k \in 1..q |-> m - (4 * (k - 1) + 3)]
  <2>1. q \in Nat
    BY <1>1
  <2>2. \A k \in 1..q : f[k] = m - (4 * (k - 1) + 3)
    OBVIOUS
  <2>3. \A i, j \in 1..q : f[i] = f[j] => i = j
    BY <1>1, <2>1
  <2>4. commas = {f[k] : k \in 1..q}
    <3>1. ASSUME NEW i \in commas
          PROVE  \E k \in 1..q : i = f[k]
      <4>1. m - i \in Nat /\ i \in 1..m /\ (m - i) % 4 = 3
        BY <1>1, <1>13
      <4>2. PICK c \in Nat : m - i = 4 * c + 3
        BY <1>11, <4>1
      <4>3. 4 * c + 3 <= m - 1 /\ i = m - (4 * c + 3)
        BY <1>1, <4>1, <4>2
      <4>4. c + 1 <= q
        BY <1>9, <4>3
      <4>5. c + 1 \in 1..q /\ (c + 1) - 1 = c
        BY <2>1, <4>4
      <4>6. f[c + 1] = m - (4 * c + 3)
        BY <2>2, <4>5
      <4>7. QED
        BY <4>3, <4>5, <4>6
    <3>2. ASSUME NEW k \in 1..q
          PROVE  f[k] \in commas
      <4> DEFINE c == k - 1
      <4>1. c \in Nat /\ c + 1 <= q
        BY <2>1
      <4>2. f[k] = m - (4 * c + 3)
        BY <2>2
      <4> HIDE DEF c, f, q
      <4>3. 4 * c + 3 <= m - 1
        BY <1>9, <4>1 DEF q
      <4>4. f[k] \in 1..m /\ m - f[k] = 4 * c + 3
        BY <1>1, <4>1, <4>2, <4>3
      <4>5. (m - f[k]) % 4 = 3
        BY <4>1, <4>4
      <4>6. QED
        BY <1>13, <4>4, <4>5
    <3> HIDE DEF f
    <3>3. QED
      BY <3>1, <3>2
  <2> HIDE DEF f, q
  <2>5. 1 \in Int /\ q \in Int /\ 1 <= q + 1 /\ q - 1 + 1 = q
    BY <2>1
  <2>6. Cardinality({f[k] : k \in 1..q}) = q - 1 + 1
    BY <2>3, <2>5, Counted
  <2>7. Cardinality(commas) = q
    BY <2>4, <2>5, <2>6
  <2>8. QED
    BY <2>7 DEF q
<1>20. /\ \A i \in digits : text[i] = number[Cardinality({j \in digits : j <= i})]
       /\ Cardinality(digits) = n
       /\ 1 \notin commas
       /\ {right(i) : i \in commas} = {3 * k : k \in 1..((n - 1) \div 3)}
       /\ Cardinality(commas) = (n - 1) \div 3
  BY <1>14, <1>15, <1>16, <1>18, <1>19
<1>21. QED
  BY <1>20, <1>2 DEF Grouped, n, text, commas, digits

-----------------------------------------------------------------------------
(* insertComma.                                                            *)

\* A set of positions that is not empty has a first one.
LEMMA FirstPosition ==
    ASSUME NEW T, T \subseteq Nat, T # {}
    PROVE  \E i \in T : \A j \in T : i <= j
<1>1. PICK i \in T : \A j \in T : <<j, i>> \notin OpToRel(<, Nat)
  BY WFMin, NatLessThanWellFounded
<1>2. \A j \in T : ~ (j < i)
  BY <1>1 DEF OpToRel
<1>3. QED
  BY <1>2

LEMMA NumberIsDigits ==
    ASSUME NEW S, NEW text \in Seq(S), IsNumber(text)
    PROVE  text \in Seq(Digits) /\ text # <<>>
<1>1. text # <<>> /\ \A i \in 1..Len(text) : text[i] \in Digits
  BY DEF IsNumber
<1>2. Len(text) \in Nat /\ text = [i \in 1..Len(text) |-> text[i]]
  OBVIOUS
<1>3. QED
  BY <1>1, <1>2

LEMMA ZeroIsDigit == "0" \in Digits
  BY DEF Digits

\* Zero, or no zero at its head.
LEMMA ZerosAreGone ==
    ASSUME NEW digits \in Seq(Digits), digits # <<>>
    PROVE  /\ WithoutLeadingZeros(digits) \in Seq(Digits)
           /\ WithoutLeadingZeros(digits) # <<>>
           /\ WithoutLeadingZeros(digits) = <<"0">> \/ WithoutLeadingZeros(digits)[1] # "0"
<1> DEFINE heads == {i \in DOMAIN digits : digits[i] # "0"}
           first == CHOOSE i \in heads : \A j \in heads : i <= j
<1>1. CASE heads = {}
  <2>1. WithoutLeadingZeros(digits) = <<"0">>
    BY <1>1 DEF WithoutLeadingZeros
  <2>2. <<"0">> \in Seq(Digits) /\ <<"0">> # <<>>
    BY ZeroIsDigit
  <2>3. QED
    BY <2>1, <2>2
<1>2. CASE heads # {}
  <2>1. WithoutLeadingZeros(digits) = SubSeq(digits, first, Len(digits))
    BY <1>2 DEF WithoutLeadingZeros
  <2>2. heads \subseteq Nat
    OBVIOUS
  <2>3. \E i \in heads : \A j \in heads : i <= j
    <3> HIDE DEF heads
    <3>1. QED
      BY <1>2, <2>2, FirstPosition
  <2>4. first \in heads
    <3> HIDE DEF heads
    <3>1. QED
      BY <2>3
  <2> HIDE DEF first
  <2>5. first \in 1..Len(digits) /\ digits[first] # "0"
    BY <2>4
  <2> DEFINE rest == SubSeq(digits, first, Len(digits))
  <2>6. rest \in Seq(Digits) /\ rest # <<>> /\ rest[1] = digits[first]
    <3>1. Len(digits) \in Nat /\ first \in Nat /\ 1 <= first /\ first <= Len(digits)
      BY <2>5
    <3>2. rest \in Seq(Digits)
      BY <3>1
    <3>3. Len(rest) = Len(digits) - first + 1
      BY <3>1
    <3>4. Len(rest) >= 1
      BY <3>1, <3>3
    <3>5. rest[1] = digits[first + 1 - 1]
      BY <3>1
    <3>6. first + 1 - 1 = first
      BY <3>1
    <3> HIDE DEF rest
    <3>7. rest # <<>>
      BY <3>2, <3>4
    <3>8. QED
      BY <3>2, <3>5, <3>6, <3>7
  <2>7. QED
    BY <2>1, <2>5, <2>6
<1>3. QED
  BY <1>1, <1>2

LEMMA NoZerosToRemove ==
    ASSUME NEW number \in Seq(Digits), number # <<>>,
           number = <<"0">> \/ number[1] # "0"
    PROVE  WithoutLeadingZeros(number) = number
<1> DEFINE heads == {i \in DOMAIN number : number[i] # "0"}
           first == CHOOSE i \in heads : \A j \in heads : i <= j
<1>1. CASE number = <<"0">>
  <2>1. heads = {}
    BY <1>1
  <2>2. WithoutLeadingZeros(number) = <<"0">>
    BY <2>1 DEF WithoutLeadingZeros
  <2>3. QED
    BY <1>1, <2>2
<1>2. CASE number[1] # "0"
  <2>1. 1 \in heads /\ heads \subseteq Nat /\ \A j \in heads : 1 <= j
    BY <1>2
  <2>2. WithoutLeadingZeros(number) = SubSeq(number, first, Len(number))
    BY <2>1 DEF WithoutLeadingZeros
  <2>3. first = 1
    <3> HIDE DEF heads
    <3>1. first \in heads /\ \A j \in heads : first <= j
      BY <2>1
    <3> HIDE DEF first
    <3>2. first <= 1 /\ 1 <= first /\ first \in Nat
      BY <2>1, <3>1
    <3>3. QED
      BY <3>2
  <2>4. SubSeq(number, 1, Len(number)) = number
    OBVIOUS
  <2>5. QED
    BY <2>2, <2>3, <2>4
<1>3. QED
  BY <1>1, <1>2

\* What has no comma has fewer than four digits, and is shown as it is.
LEMMA ShownNumber ==
    ASSUME NEW number \in Seq(Digits), number # <<>>, IsNumber(Shown(number))
    PROVE  Shown(number) = number
<1> DEFINE n    == Len(number)
           m    == Length(n)
           text == Shown(number)
<1>1. n \in Nat /\ n >= 1 /\ m \in Nat /\ m >= n /\ DOMAIN text = 1..m
  BY ShownCharacters
<1>2. \A i \in 1..m : (m - i) % 4 # 3
  <2>1. \A i \in 1..m : text[i] \in Digits
    BY <1>1 DEF IsNumber
  <2>2. \A i \in 1..m : text[i] # ","
    BY <2>1, CommaIsNoDigit
  <2>3. \A i \in 1..m : text[i] = "," <=> (m - i) % 4 = 3
    BY ShownCharacters
  <2>4. QED
    BY <2>2, <2>3
<1>3. text = [i \in 1..m |-> IF (m - i) % 4 = 3 THEN "," ELSE number[n - Rank(m - i)]]
  BY DEF Shown
<1>4. number = [i \in 1..n |-> number[i]]
  OBVIOUS
<1>5. m = n + (n - 1) \div 3
  BY DEF Length
<1> HIDE DEF n, m, text
<1>6. m <= 3
  <2>1. SUFFICES ASSUME m > 3 PROVE FALSE
    BY <1>1
  <2>2. m - 3 \in 1..m /\ (m - (m - 3)) % 4 = 3
    BY <1>1, <2>1
  <2>3. QED
    BY <1>2, <2>2
<1>7. m = n
  BY <1>1, <1>5, <1>6
<1>8. ASSUME NEW i \in 1..n
      PROVE  text[i] = number[i]
  <2>1. n - i \in 0..2
    BY <1>1, <1>6, <1>7
  <2>2. (n - i) \div 4 = 0 /\ (n - i) % 4 # 3
    BY <2>1
  <2>3. Rank(n - i) = n - i /\ n - (n - i) = i
    BY <1>1, <2>1, <2>2 DEF Rank
  <2>4. text[i] = number[n - Rank(n - i)]
    BY <1>3, <1>7, <2>2
  <2>5. QED
    BY <2>3, <2>4
<1>9. text = [i \in 1..n |-> text[i]]
  BY <1>3, <1>7
<1>10. text = number
  BY <1>4, <1>8, <1>9
<1>11. QED
  BY <1>10 DEF text

\* The characters of a formatted number, and those of what is formatted.
Grouping == Digits \cup {","}

Figures == Digits \cup {".", ","}

\* A number that Formatted returned is formatted already.
LEMMA FormattedOnce ==
    ASSUME NEW digits \in Seq(Digits), digits # <<>>
    PROVE  /\ Formatted(digits) \in Seq(Grouping)
           /\ Formatted(digits) # <<>>
           /\ IsNumber(Formatted(digits)) => Formatted(Formatted(digits)) = Formatted(digits)
<1> DEFINE number == WithoutLeadingZeros(digits)
           text   == Shown(number)
           n      == Len(number)
           m      == Length(n)
<1>1. Formatted(digits) = text
  BY FormattedIsShown
<1>2. number \in Seq(Digits) /\ number # <<>> /\ (number = <<"0">> \/ number[1] # "0")
  BY ZerosAreGone
<1> HIDE DEF number
<1>3. n \in Nat /\ n >= 1 /\ m \in Nat /\ m >= n /\ DOMAIN text = 1..m
  BY <1>2, ShownCharacters
<1>4. ASSUME NEW i \in 1..m
      PROVE  text[i] \in Grouping
  <2>1. \A j \in 1..n : text[Position(n)[j]] = number[j]
    BY <1>2, ShownCharacters
  <2>2. text[i] # "," <=> \E j \in 1..n : i = Position(n)[j]
    BY <1>2, ShownCharacters
  <2>3. \A j \in 1..n : number[j] \in Digits
    BY <1>2, ShownCharacters
  <2>4. QED
    BY <2>1, <2>2, <2>3 DEF Grouping
<1>5. text = [i \in 1..m |-> text[i]]
  BY DEF Shown
<1> HIDE DEF text, n, m
<1>6. text \in Seq(Grouping) /\ text # <<>>
  <2>1. \A i \in 1..m : text[i] \in Grouping
    BY <1>4
  <2>2. text \in [1..m -> Grouping]
    BY <1>5, <2>1
  <2>3. m \in Nat /\ m >= 1
    BY <1>3
  <2>4. text \in Seq(Grouping) /\ Len(text) = m
    BY <2>2, <2>3
  <2>5. text # <<>>
    BY <2>3, <2>4
  <2>6. QED
    BY <2>4, <2>5
<1>7. ASSUME IsNumber(text)
      PROVE  Formatted(text) = text
  <2>1. text = number
    BY <1>2, <1>7, ShownNumber DEF text
  <2>2. WithoutLeadingZeros(number) = number
    BY <1>2, NoZerosToRemove
  <2>3. Formatted(number) = Shown(number)
    BY <2>2, FormattedIsShown
  <2>4. Formatted(text) = Formatted(number) /\ Shown(number) = text
    BY <2>1 DEF text
  <2>5. QED
    BY <2>3, <2>4
<1>8. QED
  BY <1>1, <1>6, <1>7

LEMMA PointIsNeither == "." \notin Grouping
  BY DEF Digits, Grouping

LEMMA GroupingIsFigures == Grouping \subseteq Figures /\ Digits \subseteq Grouping
  BY DEF Grouping, Figures

\* A formatted number, with what follows its point, is not changed again.
LEMMA WithPointOnce ==
    ASSUME NEW F \in Seq(Grouping), F # <<>>,
           IsNumber(F) => Formatted(F) = F,
           NEW tail \in Seq(Figures), tail # <<>>,
           \A i \in 1..Len(tail) : tail[i] = "." <=> i = 1
    PROVE  InsertComma(F \o tail) = F \o tail
<1> DEFINE text == F \o tail
           p    == Len(F) + 1
<1>1. F \in Seq(Figures) /\ tail \in Seq(Figures) /\ \A i \in 1..Len(F) : F[i] # "."
  <2>1. Grouping \subseteq Figures
    BY GroupingIsFigures
  <2>2. \A i \in 1..Len(F) : F[i] \in Grouping
    OBVIOUS
  <2>3. \A i \in 1..Len(F) : F[i] # "."
    BY <2>2, PointIsNeither
  <2>4. F \in Seq(Figures)
    BY <2>1
  <2>5. QED
    BY <2>3, <2>4
<1>2. Len(F) \in Nat /\ Len(F) >= 1 /\ Len(tail) \in Nat /\ Len(tail) >= 1
  BY <1>1
<1>3. /\ text \in Seq(Figures) /\ Len(text) = Len(F) + Len(tail)
      /\ \A i \in 1..Len(F) : text[i] = F[i]
      /\ \A i \in 1..Len(tail) : text[Len(F) + i] = tail[i]
  BY <1>1, <1>2
<1> HIDE DEF text
<1>4. DOMAIN text = 1..(Len(F) + Len(tail)) /\ p \in DOMAIN text
  BY <1>2, <1>3
<1>5. Points(text) = {p}
  <2>1. ASSUME NEW i \in DOMAIN text
        PROVE  text[i] = "." <=> i = p
    <3>1. CASE i \in 1..Len(F)
      BY <1>1, <1>2, <1>3, <3>1
    <3>2. CASE i \notin 1..Len(F)
      <4>1. i - Len(F) \in 1..Len(tail) /\ i = Len(F) + (i - Len(F))
        BY <1>2, <1>4, <3>2
      <4>2. text[i] = tail[i - Len(F)]
        BY <1>3, <4>1
      <4>3. i - Len(F) = 1 <=> i = p
        BY <1>2, <1>4
      <4>4. QED
        BY <4>1, <4>2, <4>3
    <3>3. QED
      BY <3>1, <3>2
  <2> HIDE DEF p
  <2>2. QED
    BY <1>4, <2>1 DEF Points
<1>6. SubSeq(text, 1, p - 1) = F
  <2>1. p - 1 = Len(F)
    BY <1>2
  <2>2. SubSeq(text, 1, Len(F)) = SubSeq(F, 1, Len(F))
    <3>1. 1 \in 1..Len(F) /\ Len(F) \in 1..Len(F)
      BY <1>2
    <3>2. SubSeq(F \o tail, 1, Len(F)) = SubSeq(F, 1, Len(F))
      BY <1>1, <3>1, SubSeqOfConcat1
    <3>3. QED
      BY <3>2 DEF text
  <2>3. SubSeq(F, 1, Len(F)) = F
    BY <1>1
  <2>4. QED
    BY <2>1, <2>2, <2>3
<1>7. SubSeq(text, p, Len(text)) = tail
  <2>1. SubSeq(F \o tail, Len(F) + 1, Len(F) + Len(tail)) = tail
    <3>1. /\ Len(F) + 1 \in Len(F) + 1..Len(F) + Len(tail)
          /\ Len(F) + Len(tail) \in Len(F) + 1..Len(F) + Len(tail)
      BY <1>2
    <3>2. SubSeq(F \o tail, Len(F) + 1, Len(F) + Len(tail)) = SubSeq(tail, 1, Len(F) + Len(tail) - Len(F))
      BY <1>1, <3>1, SubSeqOfConcat2
    <3>3. Len(F) + Len(tail) - Len(F) = Len(tail)
      BY <1>2
    <3>4. SubSeq(tail, 1, Len(tail)) = tail
      BY <1>1
    <3>5. QED
      BY <3>2, <3>3, <3>4
  <2>2. QED
    BY <1>3, <2>1 DEF text
<1>8. Cardinality(Points(text)) = 1
  BY <1>5, FS_Singleton
<1>9. (CHOOSE i \in Points(text) : TRUE) = p /\ Points(text) # {}
  <2> HIDE DEF p
  <2>1. QED
    BY <1>5
<1>10. InsertComma(text) = IF IsNumber(F) THEN Formatted(F) \o tail ELSE text
  <2> HIDE DEF p
  <2>1. InsertComma(text) =
            LET whole == SubSeq(text, 1, p - 1)
                shown == IF whole = <<>> THEN <<"0">> ELSE whole
            IN  IF Cardinality(Points(text)) = 1 /\ IsNumber(shown)
                THEN Formatted(shown) \o SubSeq(text, p, Len(text))
                ELSE text
    BY <1>9 DEF InsertComma
  <2>2. QED
    BY <1>6, <1>7, <1>8, <2>1
<1>11. CASE IsNumber(F)
  <2>1. Formatted(F) \o tail = text
    BY <1>11 DEF text
  <2>2. InsertComma(text) = text
    BY <1>10, <1>11, <2>1
  <2>3. QED
    BY <2>2 DEF text
<1>12. CASE ~ IsNumber(F)
  <2>1. InsertComma(text) = text
    BY <1>10, <1>12
  <2>2. QED
    BY <2>1 DEF text
<1>13. QED
  BY <1>11, <1>12

LEMMA InsertedOnce ==
    ASSUME NEW text \in Seq(Figures)
    PROVE  InsertComma(InsertComma(text)) = InsertComma(text)
<1> DEFINE point == CHOOSE i \in Points(text) : TRUE
           whole == SubSeq(text, 1, point - 1)
           shown == IF whole = <<>> THEN <<"0">> ELSE whole
           tail  == SubSeq(text, point, Len(text))
<1>1. CASE InsertComma(text) = text
  BY <1>1
<1>2. CASE Points(text) = {} /\ IsNumber(text)
  <2> DEFINE F == Formatted(text)
  <2>1. text \in Seq(Digits) /\ text # <<>>
    BY <1>2, NumberIsDigits
  <2>2. F \in Seq(Grouping) /\ (IsNumber(F) => Formatted(F) = F)
    BY <2>1, FormattedOnce
  <2>3. InsertComma(text) = F
    BY <1>2 DEF InsertComma
  <2> HIDE DEF F
  <2>4. Points(F) = {}
    <3>1. \A i \in DOMAIN F : F[i] \in Grouping
      BY <2>2
    <3>2. QED
      BY <3>1, PointIsNeither DEF Points
  <2>5. InsertComma(F) = F
    BY <2>2, <2>4 DEF InsertComma
  <2>6. QED
    BY <2>3, <2>5
<1>3. CASE Points(text) # {} /\ Cardinality(Points(text)) = 1 /\ IsNumber(shown)
  <2>1. InsertComma(text) = Formatted(shown) \o tail
    BY <1>3 DEF InsertComma
  <2>2. PICK p : Points(text) = {p}
    <3>1. Points(text) \subseteq DOMAIN text /\ DOMAIN text = 1..Len(text) /\ Len(text) \in Nat
      BY DEF Points
    <3>2. IsFiniteSet(1..Len(text))
      BY <3>1, FS_Interval
    <3>3. IsFiniteSet(Points(text))
      BY <3>1, <3>2, FS_Subset
    <3>4. QED
      BY <1>3, <3>3, FS_Singleton
  <2>3. point = p
    BY <2>2
  <2> HIDE DEF point
  <2>4. point \in 1..Len(text) /\ \A i \in 1..Len(text) : text[i] = "." <=> i = point
    BY <2>2, <2>3 DEF Points
  <2>5. text \in Seq(Figures) /\ Len(text) \in Nat /\ point \in Nat /\ 1 <= point /\ point <= Len(text)
    BY <2>4
  <2>6. whole \in Seq(Figures) /\ tail \in Seq(Figures) /\ Len(tail) = Len(text) - point + 1
    BY <2>5
  <2>7. tail # <<>> /\ Len(tail) \in Nat
    <3> HIDE DEF tail
    <3>1. QED
      BY <2>5, <2>6
  <2>8. \A i \in 1..Len(tail) : tail[i] = "." <=> i = 1
    <3>1. SUFFICES ASSUME NEW i \in 1..Len(tail)
                   PROVE  tail[i] = "." <=> i = 1
      OBVIOUS
    <3>2. i \in 1..(Len(text) - point + 1)
      BY <2>6
    <3>3. tail[i] = text[point + i - 1]
      BY <2>5, <3>2
    <3> HIDE DEF tail
    <3>4. point + i - 1 \in 1..Len(text) /\ (point + i - 1 = point <=> i = 1)
      BY <2>5, <3>2
    <3>5. QED
      BY <2>4, <3>3, <3>4
  <2>9. shown \in Seq(Digits) /\ shown # <<>>
    <3>1. "0" \in Figures
      BY ZeroIsDigit, GroupingIsFigures
    <3>2. shown \in Seq(Figures)
      <4> HIDE DEF whole
      <4>1. <<"0">> \in Seq(Figures)
        BY <3>1
      <4>2. QED
        BY <2>6, <4>1
    <3> HIDE DEF shown
    <3>3. QED
      BY <1>3, <3>2, NumberIsDigits
  <2> HIDE DEF shown, tail
  <2> DEFINE F == Formatted(shown)
  <2>10. /\ F \in Seq(Grouping) /\ F # <<>>
         /\ IsNumber(F) => Formatted(F) = F
    BY <2>9, FormattedOnce
  <2> HIDE DEF F
  <2>11. InsertComma(F \o tail) = F \o tail
    BY <2>6, <2>7, <2>8, <2>10, WithPointOnce
  <2>12. QED
    BY <2>1, <2>11 DEF F
<1>4. \/ InsertComma(text) = text
      \/ Points(text) = {} /\ IsNumber(text)
      \/ Points(text) # {} /\ Cardinality(Points(text)) = 1 /\ IsNumber(shown)
  <2>1. CASE Points(text) = {}
    BY <2>1 DEF InsertComma
  <2>2. CASE Points(text) # {}
    BY <2>2 DEF InsertComma
  <2>3. QED
    BY <2>1, <2>2
<1>5. QED
  BY <1>1, <1>2, <1>3, <1>4

\* CommasGroupThousands, of a text and what insertComma returned for it.
Promised(text, returned) ==
    IF ShowsNumber(text)
    THEN LET whole == SubSeq(text, 1, WholeLength(text))
             kept  == SubSeq(text, WholeLength(text) + 1, Len(text))
             shown == Len(returned) - Len(kept)
         IN  /\ Grouped(WithoutLeadingZeros(whole), SubSeq(returned, 1, shown))
             /\ SubSeq(returned, shown + 1, Len(returned)) = kept
    ELSE returned = text

\* Of intervals that begin at one.
LEMMA Intervals ==
    ASSUME NEW n \in Nat, NEW l \in Nat, n <= l
    PROVE  /\ Cardinality(1..n) = n
           /\ 1..n = {i \in 1..l : i <= n}
           /\ \A i \in 1..l : i <= n => 1..i \subseteq 1..n
           /\ \A i \in 1..l : ~ (i <= n) => n + 1 \in 1..i /\ n # l
<1>1. Cardinality(1..n) = n
  <2>1. n >= 0 /\ 1 \in Int /\ n \in Int
    OBVIOUS
  <2>2. Cardinality(1..n) = IF 1 > n THEN 0 ELSE n - 1 + 1
    BY <2>1, FS_Interval
  <2>3. QED
    BY <2>1, <2>2
<1>2. QED
  BY <1>1

LEMMA WholeOfText ==
    ASSUME NEW text \in Seq(Figures), NEW n \in 0..Len(text),
           \A i \in 1..n : text[i] # ".",
           n # Len(text) => text[n + 1] = "."
    PROVE  WholeLength(text) = n
<1> DEFINE l     == Len(text)
           heads == {i \in DOMAIN text : \A j \in 1..i : text[j] # "."}
<1>1. l \in Nat /\ DOMAIN text = 1..l /\ n \in Nat /\ n <= l
  OBVIOUS
<1>2. /\ Cardinality(1..n) = n
      /\ 1..n = {i \in 1..l : i <= n}
      /\ \A i \in 1..l : i <= n => 1..i \subseteq 1..n
      /\ \A i \in 1..l : ~ (i <= n) => n + 1 \in 1..i /\ n # l
  <2> HIDE DEF l
  <2>1. QED
    BY <1>1, Intervals
<1>3. \A i \in 1..l : (\A j \in 1..i : text[j] # ".") <=> i <= n
  <2>1. \A j \in 1..n : text[j] # "."
    OBVIOUS
  <2>2. n # l => text[n + 1] = "."
    OBVIOUS
  <2> HIDE DEF l
  <2>3. QED
    BY <1>2, <2>1, <2>2, Zenon
<1>4. heads = {i \in 1..l : i <= n}
  <2> HIDE DEF l
  <2>1. QED
    BY <1>1, <1>3, Zenon
<1>5. Cardinality(heads) = n
  BY <1>2, <1>4
<1>6. QED
  BY <1>5 DEF WholeLength

\* What is put together is taken apart again.
LEMMA Apart ==
    ASSUME NEW F \in Seq(Figures), F # <<>>, NEW kept \in Seq(Figures)
    PROVE  /\ Len(F \o kept) - Len(kept) = Len(F)
           /\ SubSeq(F \o kept, 1, Len(F)) = F
           /\ SubSeq(F \o kept, Len(F) + 1, Len(F \o kept)) = kept
<1>1. Len(F) \in Nat /\ Len(F) >= 1 /\ Len(kept) \in Nat /\ Len(F \o kept) = Len(F) + Len(kept)
  OBVIOUS
<1>2. SubSeq(F \o kept, 1, Len(F)) = F
  <2>1. 1 \in 1..Len(F) /\ Len(F) \in 1..Len(F)
    BY <1>1
  <2>2. SubSeq(F \o kept, 1, Len(F)) = SubSeq(F, 1, Len(F))
    BY <2>1, SubSeqOfConcat1
  <2>3. QED
    BY <2>2
<1>3. SubSeq(F \o kept, Len(F) + 1, Len(F) + Len(kept)) = kept
  <2>1. CASE Len(kept) = 0
    <3>1. kept = <<>>
      BY <2>1
    <3>2. F \o kept \in Seq(Figures) /\ Len(F) + Len(kept) < Len(F) + 1
      BY <1>1, <2>1
    <3> DEFINE text == F \o kept
               a    == Len(F) + 1
               b    == Len(F) + Len(kept)
    <3> HIDE DEF text
    <3>3. text \in Seq(Figures) /\ a \in Int /\ b \in Int /\ b < a
      BY <1>1, <3>2 DEF text
    <3> HIDE DEF a, b
    <3>4. SubSeq(text, a, b) = <<>>
      BY <3>3
    <3>5. QED
      BY <3>1, <3>4 DEF text, a, b
  <2>2. CASE Len(kept) # 0
    <3>1. /\ Len(F) + 1 \in Len(F) + 1..Len(F) + Len(kept)
          /\ Len(F) + Len(kept) \in Len(F) + 1..Len(F) + Len(kept)
      BY <1>1, <2>2
    <3>2. SubSeq(F \o kept, Len(F) + 1, Len(F) + Len(kept))
              = SubSeq(kept, Len(F) + 1 - Len(F), Len(F) + Len(kept) - Len(F))
      BY <3>1, SubSeqOfConcat2
    <3>3. Len(F) + 1 - Len(F) = 1 /\ Len(F) + Len(kept) - Len(F) = Len(kept)
      BY <1>1
    <3>4. SubSeq(kept, 1, Len(kept)) = kept
      OBVIOUS
    <3>5. QED
      BY <3>2, <3>3, <3>4
  <2>3. QED
    BY <2>1, <2>2
<1>4. QED
  BY <1>1, <1>2, <1>3

\* The digits before the point, or none, are shown grouped by thousands.
LEMMA WholeIsGrouped ==
    ASSUME NEW shown \in Seq(Digits), shown # <<>>, NEW whole,
           whole = shown \/ (whole = <<>> /\ shown = <<"0">>)
    PROVE  /\ Formatted(shown) \in Seq(Figures) /\ Formatted(shown) # <<>>
           /\ Grouped(WithoutLeadingZeros(whole), Formatted(shown))
<1>1. WithoutLeadingZeros(shown) \in Seq(Digits) /\ WithoutLeadingZeros(shown) # <<>>
  BY ZerosAreGone
<1>2. WithoutLeadingZeros(whole) = WithoutLeadingZeros(shown)
  <2>1. CASE whole = shown
    BY <2>1
  <2>2. CASE whole = <<>> /\ shown = <<"0">>
    <3>1. {i \in DOMAIN <<>> : <<>>[i] # "0"} = {}
      OBVIOUS
    <3>2. {i \in DOMAIN <<"0">> : <<"0">>[i] # "0"} = {}
      OBVIOUS
    <3>3. WithoutLeadingZeros(<<>>) = <<"0">>
      BY <3>1 DEF WithoutLeadingZeros
    <3>4. WithoutLeadingZeros(<<"0">>) = <<"0">>
      BY <3>2 DEF WithoutLeadingZeros
    <3>5. QED
      BY <2>2, <3>3, <3>4
  <2>3. QED
    BY <2>1, <2>2
<1>3. Formatted(shown) = Shown(WithoutLeadingZeros(shown))
  BY FormattedIsShown
<1>4. Grouped(WithoutLeadingZeros(shown), Shown(WithoutLeadingZeros(shown)))
  BY <1>1, ShownGroups
<1>5. Formatted(shown) \in Seq(Grouping) /\ Formatted(shown) # <<>>
  BY FormattedOnce
<1>6. Formatted(shown) \in Seq(Figures)
  <2> DEFINE F == Formatted(shown)
  <2>1. F \in Seq(Grouping)
    BY <1>5
  <2> HIDE DEF F
  <2>2. F \in Seq(Figures)
    BY <2>1, GroupingIsFigures
  <2>3. QED
    BY <2>2 DEF F
<1>7. QED
  BY <1>2, <1>3, <1>4, <1>5, <1>6

LEMMA Inserted ==
    ASSUME NEW text \in Seq(Figures)
    PROVE  Promised(text, InsertComma(text))
<1> DEFINE point == CHOOSE i \in Points(text) : TRUE
           whole == SubSeq(text, 1, point - 1)
           shown == IF whole = <<>> THEN <<"0">> ELSE whole
<1>1. Len(text) \in Nat /\ DOMAIN text = 1..Len(text)
  OBVIOUS
<1>2. CASE Points(text) = {}
  <2>1. \A i \in 1..Len(text) : text[i] # "."
    BY <1>1, <1>2 DEF Points
  <2>2. WholeLength(text) = Len(text)
    BY <1>1, <2>1, WholeOfText
  <2>3. CASE IsNumber(text)
    <3> DEFINE F == Formatted(text)
    <3>1. text \in Seq(Digits) /\ text # <<>>
      BY <2>3, NumberIsDigits
    <3>2. F \in Seq(Figures) /\ F # <<>> /\ Grouped(WithoutLeadingZeros(text), F)
      BY <3>1, WholeIsGrouped
    <3>3. InsertComma(text) = F
      BY <1>2, <2>3 DEF InsertComma
    <3> HIDE DEF F
    <3>4. /\ SubSeq(text, 1, WholeLength(text)) = text
          /\ SubSeq(text, WholeLength(text) + 1, Len(text)) = <<>>
      BY <1>1, <2>2
    <3>5. Len(F) - Len(<<>>) = Len(F) /\ SubSeq(F, 1, Len(F)) = F /\ SubSeq(F, Len(F) + 1, Len(F)) = <<>>
      BY <3>2
    <3>6. ShowsNumber(text)
      BY <1>1, <2>1, <2>2, <2>3 DEF ShowsNumber, IsNumber
    <3>7. Promised(text, F)
      BY <3>2, <3>4, <3>5, <3>6 DEF Promised
    <3>8. QED
      BY <3>3, <3>7
  <2>4. CASE ~ IsNumber(text)
    <3>1. InsertComma(text) = text
      BY <1>2, <2>4 DEF InsertComma
    <3>2. ~ ShowsNumber(text)
      BY <1>1, <2>2, <2>4 DEF ShowsNumber, IsNumber
    <3>3. QED
      BY <3>1, <3>2 DEF Promised
  <2>5. QED
    BY <2>3, <2>4
<1>3. CASE \E p \in Points(text) : Points(text) = {p}
  <2>1. Points(text) = {point} /\ point \in Points(text)
    BY <1>3
  <2>2. Cardinality(Points(text)) = 1
    BY <2>1, FS_Singleton
  <2>3. InsertComma(text) = IF IsNumber(shown) THEN Formatted(shown) \o SubSeq(text, point, Len(text))
                            ELSE text
    BY <2>1, <2>2 DEF InsertComma
  <2> HIDE DEF point
  <2>4. /\ point \in 1..Len(text)
        /\ \A i \in 1..Len(text) : text[i] = "." <=> i = point
    BY <1>1, <2>1 DEF Points
  <2>5. WholeLength(text) = point - 1
    <3>1. point - 1 \in 0..Len(text) /\ point - 1 # Len(text) /\ point - 1 + 1 = point
      BY <1>1, <2>4
    <3>2. \A i \in 1..(point - 1) : i \in 1..Len(text) /\ i # point
      BY <1>1, <2>4
    <3>3. \A i \in 1..(point - 1) : text[i] # "."
      BY <2>4, <3>2
    <3>4. text[point - 1 + 1] = "."
      BY <2>4, <3>1
    <3>5. QED
      BY <3>1, <3>3, <3>4, WholeOfText
  <2>6. whole \in Seq(Figures) /\ Len(whole) = point - 1 /\ \A i \in 1..(point - 1) : whole[i] = text[i]
    BY <1>1, <2>4
  <2>7. SubSeq(text, 1, WholeLength(text)) = whole /\ WholeLength(text) + 1 = point
    BY <1>1, <2>4, <2>5
  <2>8. \A i, j \in DOMAIN text : text[i] = "." /\ text[j] = "." => i = j
    BY <1>1, <2>4
  <2>9. text # <<>>
    BY <1>1, <2>4
  <2> DEFINE kept == SubSeq(text, point, Len(text))
  <2>10. kept \in Seq(Figures)
    BY <1>1, <2>4
  <2> HIDE DEF whole, kept
  <2>11. CASE IsNumber(shown)
    <3> DEFINE F == Formatted(shown)
    <3>1. shown \in Seq(Digits) /\ shown # <<>>
      <4>1. <<"0">> \in Seq(Figures)
        BY ZeroIsDigit, GroupingIsFigures
      <4>2. shown \in Seq(Figures)
        BY <2>6, <4>1
      <4> HIDE DEF shown
      <4>3. QED
        BY <2>11, <4>2, NumberIsDigits
    <3>2. whole = shown \/ (whole = <<>> /\ shown = <<"0">>)
      OBVIOUS
    <3> HIDE DEF shown
    <3>3. F \in Seq(Figures) /\ F # <<>> /\ Grouped(WithoutLeadingZeros(whole), F)
      BY <3>1, <3>2, WholeIsGrouped
    <3>4. InsertComma(text) = F \o kept
      BY <2>3, <2>11 DEF kept
    <3> HIDE DEF F
    <3>5. /\ Len(F \o kept) - Len(kept) = Len(F)
          /\ SubSeq(F \o kept, 1, Len(F)) = F
          /\ SubSeq(F \o kept, Len(F) + 1, Len(F \o kept)) = kept
      BY <2>10, <3>3, Apart
    <3>6. \A i \in 1..(point - 1) : text[i] \in Digits
      <4>1. CASE whole = <<>>
        <5>1. point - 1 = 0
          BY <2>6, <4>1
        <5>2. QED
          BY <5>1
      <4>2. CASE whole # <<>>
        <5>1. IsNumber(whole)
          BY <2>11, <4>2 DEF shown
        <5>2. \A i \in 1..Len(whole) : whole[i] \in Digits
          BY <2>6, <5>1 DEF IsNumber
        <5>3. QED
          BY <2>6, <5>2
      <4>3. QED
        BY <4>1, <4>2
    <3>7. ShowsNumber(text)
      BY <2>5, <2>8, <2>9, <3>6 DEF ShowsNumber
    <3>8. SubSeq(text, WholeLength(text) + 1, Len(text)) = kept
      BY <2>7 DEF kept
    <3>9. Promised(text, F \o kept)
      BY <2>7, <3>3, <3>5, <3>7, <3>8 DEF Promised
    <3>10. QED
      BY <3>4, <3>9
  <2>12. CASE ~ IsNumber(shown)
    <3>1. InsertComma(text) = text
      BY <2>3, <2>12
    <3>2. whole # <<>>
      <4>1. IsNumber(<<"0">>)
        BY ZeroIsDigit DEF IsNumber
      <4>2. QED
        BY <2>12, <4>1
    <3>3. ~ IsNumber(whole)
      BY <2>12, <3>2
    <3>4. PICK i \in 1..(point - 1) : whole[i] \notin Digits
      BY <2>6, <3>2, <3>3 DEF IsNumber
    <3>5. ~ ShowsNumber(text)
      BY <2>5, <2>6, <3>4 DEF ShowsNumber
    <3>6. QED
      BY <3>1, <3>5 DEF Promised
  <2>13. QED
    BY <2>11, <2>12
<1>4. CASE Points(text) # {} /\ ~ \E p \in Points(text) : Points(text) = {p}
  <2>1. PICK i \in Points(text), j \in Points(text) : i # j
    BY <1>4
  <2>2. ~ ShowsNumber(text)
    BY <2>1 DEF ShowsNumber, Points
  <2>3. IsFiniteSet(Points(text))
    <3>1. Points(text) \subseteq 1..Len(text)
      BY <1>1 DEF Points
    <3>2. IsFiniteSet(1..Len(text))
      BY <1>1, FS_Interval
    <3>3. QED
      BY <3>1, <3>2, FS_Subset
  <2>4. Cardinality(Points(text)) # 1
    BY <2>1, <2>3, FS_Singleton
  <2>5. InsertComma(text) = text
    BY <1>4, <2>4 DEF InsertComma
  <2>6. QED
    BY <2>2, <2>5 DEF Promised
<1>5. QED
  BY <1>2, <1>3, <1>4

LEMMA InsertCommaStep ==
    ASSUME NEW text \in Numerals, CallInsertComma(text)
    PROVE  CommasGroupThousands' /\ InsertCommaIdempotent'
<1>1. call'.text = text /\ result' = InsertComma(text)
  BY DEF CallInsertComma
<1>2. text \in Seq(Figures)
  BY ConversionAssumption DEF Figures
<1>3. CommasGroupThousands'
  <2>1. CommasGroupThousands' <=> (call'.op = "insertComma" => Promised(call'.text, result'))
    BY Zenon DEF CommasGroupThousands, Promised
  <2>2. Promised(text, InsertComma(text))
    BY <1>2, Inserted
  <2>3. QED
    BY <1>1, <2>1, <2>2
<1>4. InsertComma(result') = result'
  BY <1>1, <1>2, InsertedOnce
<1>5. InsertCommaIdempotent'
  BY <1>4 DEF InsertCommaIdempotent
<1>6. QED
  BY <1>3, <1>5

-----------------------------------------------------------------------------
(* Theorems.                                                               *)

\* What each step leaves in call says which properties speak of its result.
LEMMA Step == Next => Inv'
<1> SUFFICES ASSUME Next
             PROVE  Inv'
  OBVIOUS
<1>1. ASSUME NEW s \in Texts, NEW from \in -Reach..Reach, NEW to \in -Reach..Reach,
             CallSubstring(s, from, to)
      PROVE  Inv'
  <2>1. from \in Int /\ to \in Int
    OBVIOUS
  <2>2. SubstringIsSlice'
    BY <1>1, <2>1, SubstringStep
  <2>3. call'.op = "substring"
    BY <1>1 DEF CallSubstring
  <2>4. QED
    BY <2>2, <2>3 DEF Inv, CommasGroupThousands, InsertCommaIdempotent, LabelsMatchItems
<1>2. ASSUME NEW s \in Texts, NEW index \in 0..Reach, CallGet(s, index)
      PROVE  Inv'
  <2>1. call'.op = "get"
    BY <1>2 DEF CallGet
  <2>2. QED
    BY <2>1 DEF Inv, SubstringIsSlice, CommasGroupThousands, InsertCommaIdempotent, LabelsMatchItems
<1>3. ASSUME NEW text \in Numerals, CallInsertComma(text)
      PROVE  Inv'
  <2>1. CommasGroupThousands' /\ InsertCommaIdempotent'
    BY <1>3, InsertCommaStep
  <2>2. call'.op = "insertComma"
    BY <1>3 DEF CallInsertComma
  <2>3. QED
    BY <2>1, <2>2 DEF Inv, SubstringIsSlice, LabelsMatchItems
<1>4. ASSUME NEW count \in 0..MaxOthers, NEW prices \in [1..count -> Prices],
             ShowOtherProducts(prices)
      PROVE  Inv'
  <2>1. LabelsMatchItems'
    BY <1>4, LabelsStep
  <2>2. call'.op = "otherProducts"
    BY <1>4 DEF ShowOtherProducts
  <2>3. QED
    BY <2>1, <2>2 DEF Inv, SubstringIsSlice, CommasGroupThousands, InsertCommaIdempotent
<1>5. QED
  BY <1>1, <1>2, <1>3, <1>4 DEF Next

LEMMA Initially == Init => Inv
<1>1. SUFFICES ASSUME Init
               PROVE  Inv
  OBVIOUS
<1>2. call.op = "none"
  BY <1>1 DEF Init
<1>3. QED
  BY <1>2 DEF Inv, SubstringIsSlice, CommasGroupThousands, InsertCommaIdempotent, LabelsMatchItems

LEMMA Stuttering == Inv /\ UNCHANGED vars => Inv'
<1>1. SUFFICES ASSUME Inv, UNCHANGED vars
               PROVE  Inv'
  OBVIOUS
<1>2. call' = call /\ result' = result /\ trapped' = trapped
  BY <1>1 DEF vars
<1>3. SubstringIsSlice'
  BY <1>1, <1>2 DEF Inv, SubstringIsSlice
<1>4. CommasGroupThousands'
  <2>1. CommasGroupThousands <=> (call.op = "insertComma" => Promised(call.text, result))
    BY Zenon DEF CommasGroupThousands, Promised
  <2>2. CommasGroupThousands' <=> (call'.op = "insertComma" => Promised(call'.text, result'))
    BY Zenon DEF CommasGroupThousands, Promised
  <2>3. CommasGroupThousands
    BY <1>1 DEF Inv
  <2>4. QED
    BY <1>2, <2>1, <2>2, <2>3
<1>5. InsertCommaIdempotent'
  BY <1>1, <1>2 DEF Inv, InsertCommaIdempotent
<1>6. LabelsMatchItems'
  BY <1>1, <1>2 DEF Inv, LabelsMatchItems
<1>7. QED
  BY <1>3, <1>4, <1>5, <1>6 DEF Inv

\* Whatever the helpers are called on, they return what they promise.
THEOREM Invariance == Spec => []Inv
<1>1. Inv /\ [Next]_vars => Inv'
  BY Step, Stuttering
<1>2. QED
  BY Initially, <1>1, PTL DEF Spec

\* substring(from:to:) gives the characters between two positions of a string
\* of any length, and never leaves it.
THEOREM SubstringAlways == Spec => []SubstringIsSlice
<1>1. Inv => SubstringIsSlice
  BY DEF Inv
<1>2. QED
  BY Invariance, <1>1, PTL

\* insertComma groups by thousands what a numeral has before its point, keeps the
\* rest, and returns a text that shows no number as it is.  The assumption on
\* Numerals keeps them to the lengths that a Double holds exactly.
THEOREM CommasAlways == Spec => []CommasGroupThousands
<1>1. Inv => CommasGroupThousands
  BY DEF Inv
<1>2. QED
  BY Invariance, <1>1, PTL

\* insertComma leaves what it returned as it is, with or without a point.
THEOREM IdempotentAlways == Spec => []InsertCommaIdempotent
<1>1. Inv => InsertCommaIdempotent
  BY DEF Inv
<1>2. QED
  BY Invariance, <1>1, PTL

\* The labels of the other items are white exactly without an item, and show a
\* price rounded down by less than ten thousand.
THEOREM LabelsAlways == Spec => []LabelsMatchItems
<1>1. Inv => LabelsMatchItems
  BY DEF Inv
<1>2. QED
  BY Invariance, <1>1, PTL

=============================================================================
