----------------------------- MODULE MCFollowing -----------------------------
(***************************************************************************)
(* Instances of Following: two shops with complete records, one without    *)
(* enough posts and one without a user, in lists of one or two; one row    *)
(* fits on the screen, so that two rows can be scrolled.                   *)
(***************************************************************************)
EXTENDS Following

CONSTANTS s1, s2, few, none

TwoShops == {s1, s2}

FourShops == {s1, s2, few, none}

NotAll == {few, none}

NoUser == {none}

BothOrOne == {<<s1, s2>>, <<s2>>}

AlsoIncomplete == BothOrOne \cup {<<few, none>>}
=============================================================================
