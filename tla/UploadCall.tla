----------------------------- MODULE UploadCall -----------------------------
(***************************************************************************)
(* What putData promises the screen that calls it: the screen is told once *)
(* how the upload ended, and "ok" only of a picture that is stored whole.  *)
(* Of an error nothing follows: the picture may be stored all the same.    *)
(***************************************************************************)
EXTENDS Naturals, Sequences

VARIABLES
    stored,  \* does the bucket hold the whole picture?
    told     \* what the completion of the call was given, in order

vars == <<stored, told>>

Init ==
    /\ stored = FALSE
    /\ told = <<>>

\* The picture arrives; no one needs to know.
Store ==
    /\ stored' = TRUE
    /\ UNCHANGED told

\* The call ends.
Tell(result) ==
    /\ told = <<>>
    /\ result = "ok" => stored
    /\ told' = <<result>>
    /\ UNCHANGED stored

Next ==
    \/ Store
    \/ \E result \in {"ok", "error"} : Tell(result)

Spec == Init /\ [][Next]_vars
=============================================================================
