------------------------------ MODULE MCRegister ------------------------------
(***************************************************************************)
(* Instances of Register: one form submitted twice with the choices of the *)
(* album, and two forms one after the other.  The name of an item is the   *)
(* storyboard's or deleted.                                                *)
(***************************************************************************)
EXTENDS Register

CONSTANTS p1, p2, n1

OnePicture == {p1}
TwoPictures == {p1, p2}
OneName == {n1}
=============================================================================
