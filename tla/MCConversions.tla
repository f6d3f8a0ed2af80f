---------------------------- MODULE MCConversions ----------------------------
(***************************************************************************)
(* The instance of Conversions for TLC.                                    *)
(***************************************************************************)
EXTENDS Conversions

const_Characters == {"a", "b", "c", "d"}

const_Texts == {<<>>, <<"a">>, <<"a", "b">>, <<"a", "b", "c", "d">>}

\* The number of the comment in String.swift, the lengths around every third
\* digit, leading zeros, a point in every place, and text with commas.
const_Numerals ==
    UNION {[1..length -> {"0", "1", ".", ","}] : length \in 0..5} \cup
    UNION {[1..length -> {"0", "7"}] : length \in 6..8} \cup
    {<<"1", "2", "3", "4", "5", "6", "7", "8", "9", "0">>}

const_Prices == {0, 9999, 10000, 19999}
=============================================================================
