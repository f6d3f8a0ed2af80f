----------------------------- MODULE Conversions -----------------------------
(***************************************************************************)
(* The pure helpers of the app: the String extension, and what the detail  *)
(* screen shows of a shop's other items.  A string is a sequence of        *)
(* characters.  A behaviour is one call; the properties compare what it    *)
(* returned with a definition of their own.                                *)
(***************************************************************************)
EXTENDS Integers, Sequences, FiniteSets, SequencesExt

CONSTANTS
    Characters, \* the characters of texts
    Texts,      \* the strings substring and get are called on
    Numerals,   \* the strings insertComma is called on
    Prices,     \* the prices of other items
    MaxOthers,  \* bound: other items of a shop
    Reach       \* bound: indices asked for, on either side of a string

Digits == {"0", "1", "2", "3", "4", "5", "6", "7", "8", "9"}

\* Numerals of other characters (a sign, an exponent) are left out, and those
\* that a Double does not hold exactly.
ASSUME ConversionAssumption ==
    /\ Texts \subseteq Seq(Characters)
    /\ Numerals \subseteq Seq(Digits \cup {".", ","})
    /\ \A text \in Numerals : Len(text) <= 15
    /\ \A price \in Prices : price \in Nat
    /\ {MaxOthers, Reach} \subseteq Nat

VARIABLES
    call,     \* the helper called last and its arguments
    result,   \* what it returned
    trapped   \* did an index leave the string or the labels?

vars == <<call, result, trapped>>

-----------------------------------------------------------------------------
Smaller(a, b) == IF a < b THEN a ELSE b

Larger(a, b) == IF a < b THEN b ELSE a

Returns(text) == [text |-> text, trapped |-> FALSE]

Traps == [text |-> <<>>, trapped |-> TRUE]

\* Variant for the runs: the position of the end is taken for the length.
SubstringOfLength(s, from, to) ==
    IF to < 0 \/ from > Len(s) \/ from > to
    THEN Returns(<<>>)
    ELSE LET start == Larger(from, 0)
         IN  Returns(SubSeq(s, start + 1, Smaller(start + to, Len(s))))

\* substring(from:to:); an offset past the end of the string traps.
Substring(s, from, to) ==
    IF to < 0 \/ from > Len(s) \/ from > to
    THEN Returns(<<>>)
    ELSE LET start == Larger(from, 0)
             end   == start + (Smaller(to, Len(s)) - from)
         IN  IF end > Len(s) THEN Traps ELSE Returns(SubSeq(s, start + 1, end))

\* get(_:), by way of substring(range:): no character at all, whatever the index.
Get(s, index) == Substring(s, index, index)

\* Double(text) is not nil.
IsNumber(text) == text # <<>> /\ \A i \in DOMAIN text : text[i] \in Digits

\* A number has no zero at its head unless it is zero.
WithoutLeadingZeros(digits) ==
    LET heads == {i \in DOMAIN digits : digits[i] # "0"}
    IN  IF heads = {} THEN <<"0">>
        ELSE SubSeq(digits, CHOOSE i \in heads : \A j \in heads : i <= j, Len(digits))

\* The decimal style of NumberFormatter: from the right, every fourth character
\* is a comma and the others are the digits.
Formatted(digits) ==
    LET d        == WithoutLeadingZeros(digits)
        length   == Len(d) + (Len(d) - 1) \div 3
        right(i) == length - i
    IN  [ i \in 1..length |->
            IF right(i) % 4 = 3 THEN "," ELSE d[Len(d) - (right(i) - right(i) \div 4)] ]

Points(text) == {i \in DOMAIN text : text[i] = "."}

\* Variant for the runs: a number is read up to the first character that is
\* not one of its own.
InsertCommaOfPrefix(text) ==
    LET others == {i \in DOMAIN text : text[i] \notin Digits}
        read   == IF others = {} THEN text
                  ELSE SubSeq(text, 1, (CHOOSE i \in others : \A j \in others : i <= j) - 1)
    IN  IF read = <<>> THEN text ELSE Formatted(read)

\* Variant for the runs: what follows the point is forgotten.
InsertCommaWithoutFraction(text) ==
    IF Points(text) = {}
    THEN IF IsNumber(text) THEN Formatted(text) ELSE text
    ELSE LET point == CHOOSE i \in Points(text) : TRUE
             whole == SubSeq(text, 1, point - 1)
             shown == IF whole = <<>> THEN <<"0">> ELSE whole
         IN  IF Cardinality(Points(text)) = 1 /\ IsNumber(shown)
             THEN Formatted(shown)
             ELSE text

\* insertComma; text that is no number is returned as it is.
InsertComma(text) ==
    IF Points(text) = {}
    THEN IF IsNumber(text) THEN Formatted(text) ELSE text
    ELSE LET point == CHOOSE i \in Points(text) : TRUE
             whole == SubSeq(text, 1, point - 1)
             shown == IF whole = <<>> THEN <<"0">> ELSE whole
         IN  IF Cardinality(Points(text)) = 1 /\ IsNumber(shown)
             THEN Formatted(shown) \o SubSeq(text, point, Len(text))
             ELSE text

\* The three labels of the other items: a price in won or in ten thousands of
\* won, and which of them are turned white.
Labels == 1..3

Blank == [number |-> 0, unit |-> 1]

PriceLabel(price) ==
    IF price >= 10000
    THEN [number |-> price \div 10000, unit |-> 10000]
    ELSE [number |-> price, unit |-> 1]

\* Variant for the runs: the first label without an item is forgotten.
WhiteAfter(count) ==
    CASE count = 0 -> Labels
      [] count = 1 -> {3}
      [] count = 2 -> {3}
      [] OTHER     -> {}

White(count) ==
    CASE count = 0 -> Labels
      [] count = 1 -> {2, 3}
      [] count = 2 -> {3}
      [] OTHER     -> {}

-----------------------------------------------------------------------------
Init ==
    /\ call = [op |-> "none"]
    /\ result = <<>>
    /\ trapped = FALSE

CallSubstring(s, from, to) ==
    /\ call' = [op |-> "substring", text |-> s, from |-> from, to |-> to]
    /\ result' = Substring(s, from, to).text
    /\ trapped' = Substring(s, from, to).trapped

CallGet(s, index) ==
    /\ call' = [op |-> "get", text |-> s, index |-> index]
    /\ result' = Get(s, index).text
    /\ trapped' = Get(s, index).trapped

CallInsertComma(text) ==
    /\ call' = [op |-> "insertComma", text |-> text]
    /\ result' = InsertComma(text)
    /\ UNCHANGED trapped

\* The part of setUp that shows the shop's other items.
ShowOtherProducts(prices) ==
    /\ call' = [op |-> "otherProducts", prices |-> prices]
    /\ result' = [i \in Labels |-> [ text  |-> IF i <= Len(prices) THEN PriceLabel(prices[i]) ELSE Blank,
                                     white |-> i \in White(Len(prices)) ]]
    /\ trapped' = (Len(prices) > Cardinality(Labels))

Next ==
    /\ call.op = "none"
    /\ \/ \E s \in Texts, from, to \in -Reach..Reach : CallSubstring(s, from, to)
       \/ \E s \in Texts, index \in 0..Reach : CallGet(s, index)
       \/ \E text \in Numerals : CallInsertComma(text)
       \/ \E count \in 0..MaxOthers : \E prices \in [1..count -> Prices] : ShowOtherProducts(prices)

Spec == Init /\ [][Next]_vars

-----------------------------------------------------------------------------
(* Properties.                                                             *)

\* What substring(from:to:) promises: from a start in 0..count it gives the
\* characters at the positions from <= p < to that the string has, counting
\* from zero, and never leaves the string.
SubstringIsSlice ==
    call.op = "substring" /\ call.from >= 0 =>
        LET positions == {p \in 0..Len(call.text) - 1 : call.from <= p /\ p < call.to}
        IN  /\ ~ trapped
            /\ Len(result) = Cardinality(positions)
            /\ \A p \in positions : result[p - call.from + 1] = call.text[p + 1]

\* A text shows a number grouped by thousands: without its commas it is the number,
\* a comma never leads, and every comma has a positive multiple of three digits to
\* its right, none of them missing.
Grouped(number, text) ==
    LET commas   == {i \in DOMAIN text : text[i] = ","}
        digits   == DOMAIN text \ commas
        right(i) == Cardinality({j \in digits : j > i})
    IN  /\ \A i \in digits : text[i] = number[Cardinality({j \in digits : j <= i})]
        /\ Cardinality(digits) = Len(number)
        /\ 1 \notin commas
        /\ {right(i) : i \in commas} = {3 * k : k \in 1..((Len(number) - 1) \div 3)}
        /\ Cardinality(commas) = (Len(number) - 1) \div 3

\* How many characters a text has before its first point.
WholeLength(text) == Cardinality({i \in DOMAIN text : \A j \in 1..i : text[j] # "."})

\* Digits, or a point with only digits before it, if any, and no other point.
ShowsNumber(text) ==
    /\ text # <<>>
    /\ \A i \in 1..WholeLength(text) : text[i] \in Digits
    /\ \A i, j \in DOMAIN text : text[i] = "." /\ text[j] = "." => i = j

\* insertComma groups what is before the point by thousands, as in the example of
\* the comment beside it, shows a zero when nothing is before the point, and keeps
\* the point and what follows it.  It returns any other text as it is: an empty one,
\* one with several points, and one that is no number before its point.
CommasGroupThousands ==
    call.op = "insertComma" =>
        IF ShowsNumber(call.text)
        THEN LET whole == SubSeq(call.text, 1, WholeLength(call.text))
                 kept  == SubSeq(call.text, WholeLength(call.text) + 1, Len(call.text))
                 shown == Len(result) - Len(kept)
             IN  /\ Grouped(WithoutLeadingZeros(whole), SubSeq(result, 1, shown))
                 /\ SubSeq(result, shown + 1, Len(result)) = kept
        ELSE result = call.text

\* insertComma may be called on what it returned: a price that already has its
\* commas is no number to Double and comes back as it is.
InsertCommaIdempotent ==
    call.op = "insertComma" => InsertComma(result) = result

\* Of the three labels of the other items exactly those without an item are
\* turned white, and a price shown in ten thousands of won is never above the
\* price and less than ten thousand below it.
LabelsMatchItems ==
    call.op = "otherProducts" /\ ~ trapped =>
        \A i \in Labels :
            LET value == result[i].text.number * result[i].text.unit
            IN  /\ result[i].white <=> i > Len(call.prices)
                /\ ~ result[i].white => value <= call.prices[i] /\ call.prices[i] < value + 10000

=============================================================================
