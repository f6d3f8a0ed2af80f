----------------------------- MODULE Registration -----------------------------
(***************************************************************************)
(* What the registration of items promises, seen from the bucket and the   *)
(* server: a submission passes through its phases once.  It puts its       *)
(* picture into the bucket at most once, under its own name, sends its     *)
(* item at most once and only after that, and may end at any point without *)
(* more.                                                                   *)
(***************************************************************************)
CONSTANTS
    Submissions,  \* the submissions there may ever be
    Names,
    Pictures

VARIABLES
    phase,   \* how far each submission has come
    claim,   \* the name and the picture each one was made with
    bucket   \* the picture stored under a name

vars == <<phase, claim, bucket>>

Claim == [name : Names, picture : Pictures]

Init ==
    /\ phase = [s \in Submissions |-> "none"]
    /\ claim = [s \in Submissions |-> {}]
    /\ bucket = [n \in Names |-> "none"]

Submit(s) ==
    /\ phase[s] = "none"
    /\ phase' = [phase EXCEPT ![s] = "made"]
    /\ \E c \in Claim : claim' = [claim EXCEPT ![s] = {c}]
    /\ UNCHANGED bucket

\* The bucket takes the picture; of a process that is gone no one hears it.
Store(s) ==
    /\ phase[s] = "made"
    /\ phase' \in {[phase EXCEPT ![s] = next] : next \in {"stored", "over"}}
    /\ \E c \in claim[s] : bucket' = [bucket EXCEPT ![c.name] = c.picture]
    /\ UNCHANGED claim

Send(s) ==
    /\ phase[s] = "stored"
    /\ phase' = [phase EXCEPT ![s] = "sent"]
    /\ UNCHANGED <<claim, bucket>>

\* Answers, errors, and the end of the process, which takes several at once.
End(ended) ==
    /\ \A s \in ended : phase[s] # "none"
    /\ phase' = [s \in Submissions |-> IF s \in ended THEN "over" ELSE phase[s]]
    /\ UNCHANGED <<claim, bucket>>

Next ==
    \/ \E s \in Submissions : Submit(s) \/ Store(s) \/ Send(s)
    \/ \E ended \in SUBSET Submissions : End(ended)

Spec == Init /\ [][Next]_vars
=============================================================================
