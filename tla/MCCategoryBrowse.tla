--------------------------- MODULE MCCategoryBrowse ---------------------------
(***************************************************************************)
(* A tree of two categories: the first has two sub categories, one of      *)
(* which a folded list hides, the second has one.                          *)
(***************************************************************************)
EXTENDS CategoryBrowse

CONSTANTS c1, c2, s1, s2, s3, t1, t3

AllCategories == {c1, c2, s1, s2, s3, t1, t3}

FirstLevel == {c1, c2}

Tree == [ c \in AllCategories |->
            CASE c = c1 -> {s1, s2}
              [] c = c2 -> {s3}
              [] c = s1 -> {t1}
              [] c = s3 -> {t3}
              [] OTHER  -> {} ]

Folded == [ c \in AllCategories |->
              CASE c = c1 -> {s1}
                [] c = c2 -> {s3}
                [] OTHER  -> {} ]
=============================================================================
