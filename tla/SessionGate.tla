----------------------------- MODULE SessionGate -----------------------------
(***************************************************************************)
(* What the session promises: the screens of an account are open only to   *)
(* somebody whose token is stored, a token appears or disappears only on   *)
(* the way to the public screens or to the login, and nobody whose token   *)
(* is stored is thrown out to the login once past it.                      *)
(***************************************************************************)

VARIABLES
    signedIn,  \* is a token stored?
    place      \* where the user is

gateVars == <<signedIn, place>>

Places == {"away", "entrance", "public", "account"}

GateTypeOK == signedIn \in BOOLEAN /\ place \in Places

\* The promise in one line: nobody without a token sees an account's screens.
AccountNeedsToken == place = "account" => signedIn

GateInit == signedIn \in BOOLEAN /\ place = "away"

\* The launch ends at the public screens, or at the login where a token whose
\* validity could not be asked is forgotten.
Open ==
    /\ place = "away"
    /\ \/ place' = "public" /\ UNCHANGED signedIn
       \/ place' = "entrance" /\ signedIn' \in {FALSE, signedIn}

Close == place' = "away" /\ UNCHANGED signedIn

EnterAccount ==
    /\ place = "public" /\ signedIn
    /\ place' = "account"
    /\ UNCHANGED signedIn

TurnAway ==
    /\ place = "public" /\ ~signedIn
    /\ place' = "entrance"
    /\ UNCHANGED signedIn

\* Signing in, signing out, going back, entering without an account: whatever
\* becomes of the token, no screen of an account is left open.
ToPublic ==
    /\ place # "away"
    /\ place' = "public"
    /\ signedIn' \in BOOLEAN

GateNext ==
    Open \/ Close \/ EnterAccount \/ TurnAway \/ ToPublic

GateSpec == GateInit /\ [][GateNext]_gateVars

=============================================================================
