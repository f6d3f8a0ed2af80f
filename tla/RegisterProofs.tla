---------------------------- MODULE RegisterProofs ----------------------------
(***************************************************************************)
(* Proofs about Register, for every set of pictures and names and any      *)
(* number of forms and submissions.                                        *)
(***************************************************************************)
EXTENDS Register, TLAPS

\* A form is submitted with a category, and no edit takes it away again.
SubmittedFormsHaveCategory ==
    \A s \in 1..Len(submissions) :
        forms[submissions[s].form].listing.category = "chosen"

\* Until the item is sent, it is what the form says now, or nobody asks.
AskedIsOnForm ==
    \A s \in 1..Len(submissions) :
        submissions[s].stage # "post" =>
            /\ submissions[s].asked \subseteq {BuiltListing(s)}
            /\ submissions[s].item = {}

\* From the moment the bucket has the picture until the submission ends.
PictureStays ==
    \A s \in 1..Len(submissions) :
        submissions[s].alive /\ submissions[s].stage \in {"stored", "url", "post"} =>
            \E r \in 1..Len(submissions) :
                /\ submissions[r].name = submissions[s].name
                /\ storage[submissions[s].name] = submissions[r].picture

\* The inductive invariant.
Inv ==
    /\ TypeOK
    /\ NegoFormHasNoPrice
    /\ SubmittedFormsHaveCategory
    /\ AskedIsOnForm
    /\ SentItemsArePriced
    /\ SentAsSubmitted
    /\ PictureStays

-----------------------------------------------------------------------------
(* The sequences of forms and of submissions.                              *)

LEMMA OneReplaced ==
    ASSUME NEW S, NEW q \in Seq(S), NEW i \in 1..Len(q), NEW e \in S
    PROVE  /\ [q EXCEPT ![i] = e] \in Seq(S)
           /\ Len([q EXCEPT ![i] = e]) = Len(q)
           /\ [q EXCEPT ![i] = e][i] = e
           /\ \A j \in 1..Len(q) : j # i => [q EXCEPT ![i] = e][j] = q[j]
OBVIOUS

LEMMA AllReplaced ==
    ASSUME NEW S, NEW n \in Nat, NEW f \in [1..n -> S]
    PROVE  f \in Seq(S) /\ Len(f) = n
OBVIOUS

LEMMA OneAppended ==
    ASSUME NEW S, NEW q \in Seq(S), NEW e \in S
    PROVE  /\ Append(q, e) \in Seq(S)
           /\ Len(Append(q, e)) = Len(q) + 1
           /\ Append(q, e)[Len(q) + 1] = e
           /\ \A j \in 1..Len(q) : Append(q, e)[j] = q[j]
OBVIOUS

LEMMA AtLeastOne ==
    ASSUME NEW x \in 1..MaxForms
    PROVE  x \in Nat /\ x >= 1
<1>1. MaxForms \in Nat
  BY RegisterAssumption
<1>2. QED
  BY <1>1

\* What TypeOK says of each form and each submission.
LEMMA Types ==
    ASSUME TypeOK
    PROVE  /\ forms \in Seq(Form) /\ submissions \in Seq(Submission)
           /\ Len(forms) \in Nat /\ Len(submissions) \in Nat
           /\ DOMAIN forms = 1..Len(forms)
           /\ DOMAIN submissions = 1..Len(submissions)
           /\ \A n \in 1..Len(forms) : forms[n] \in Form
           /\ \A s \in 1..Len(submissions) :
                  /\ submissions[s] \in Submission
                  /\ submissions[s].form \in 1..Len(forms)
                  /\ BuiltListing(s) \in Listing
           /\ OnForm => Current \in 1..Len(forms)
<1>1. /\ forms \in Seq(Form) /\ submissions \in Seq(Submission)
      /\ \A s \in DOMAIN submissions : submissions[s].form <= Len(forms)
      /\ OnForm => forms # <<>>
  BY DEF TypeOK, OnForm
<1>2. /\ Len(forms) \in Nat /\ Len(submissions) \in Nat
      /\ DOMAIN forms = 1..Len(forms)
      /\ DOMAIN submissions = 1..Len(submissions)
      /\ \A n \in 1..Len(forms) : forms[n] \in Form
      /\ \A s \in 1..Len(submissions) : submissions[s] \in Submission
  BY <1>1
<1>3. \A s \in 1..Len(submissions) : submissions[s].form \in 1..Len(forms)
  <2> SUFFICES ASSUME NEW s \in 1..Len(submissions)
               PROVE  submissions[s].form \in 1..Len(forms)
    OBVIOUS
  <2>1. submissions[s].form \in 1..MaxForms
    BY <1>2 DEF Submission
  <2>2. submissions[s].form <= Len(forms)
    BY <1>1, <1>2
  <2>3. submissions[s].form \in Nat /\ submissions[s].form >= 1
    BY <2>1, AtLeastOne
  <2>4. QED
    BY <1>2, <2>2, <2>3
<1>4. \A s \in 1..Len(submissions) : BuiltListing(s) \in Listing
  BY <1>2, <1>3 DEF BuiltListing, Form
<1>5. OnForm => Current \in 1..Len(forms)
  BY <1>1, <1>2 DEF Current
<1>6. QED
  BY <1>1, <1>2, <1>3, <1>4, <1>5

-----------------------------------------------------------------------------
(* The blocks the steps are made of.                                       *)

\* A listing any edit of the form may leave behind.
EditKeeps(f) ==
    /\ f \in Form
    /\ forms[Current].listing.category = "chosen" => f.listing.category = "chosen"
    /\ ~ (f.listing.nego /\ f.listing.shipping)
    /\ f.listing.nego => f.listing.price = ""
    /\ f.enabled = ~ f.listing.nego

\* Whatever the current form becomes, what was submitted from it is forgotten.
LEMMA EditKeepsInv ==
    ASSUME Inv, NEW f, EditKeeps(f), Edit(f)
    PROVE  Inv'
<1> USE DEF Current
<1>1. /\ Current \in 1..Len(forms) /\ f \in Form
      /\ forms \in Seq(Form) /\ submissions \in Seq(Submission)
      /\ Len(forms) \in Nat /\ Len(submissions) \in Nat
      /\ forms' = [forms EXCEPT ![Current] = f]
      /\ UNCHANGED <<token, screen, storage>>
  BY Types DEF Inv, Edit, EditKeeps
<1>2. /\ forms' \in Seq(Form) /\ Len(forms') = Len(forms)
      /\ forms'[Current] = f
      /\ \A n \in 1..Len(forms) : n # Current => forms'[n] = forms[n]
  BY <1>1, OneReplaced
<1> DEFINE touched(s) ==
      /\ submissions[s].form = Current
      /\ submissions[s].stage # "post"
      /\ f.listing # forms[Current].listing
<1>3. submissions' = [s \in 1..Len(submissions) |->
                        IF touched(s) THEN [submissions[s] EXCEPT !.asked = {}]
                                      ELSE submissions[s]]
  BY Types DEF Inv, Edit
<1>4. \A s \in 1..Len(submissions) :
         /\ submissions'[s] \in Submission
         /\ submissions'[s].form = submissions[s].form
         /\ submissions'[s].name = submissions[s].name
         /\ submissions'[s].picture = submissions[s].picture
         /\ submissions'[s].stage = submissions[s].stage
         /\ submissions'[s].alive = submissions[s].alive
         /\ submissions'[s].item = submissions[s].item
         /\ submissions'[s].asked \subseteq submissions[s].asked
         /\ touched(s) => submissions'[s].asked = {}
  <2> SUFFICES ASSUME NEW s \in 1..Len(submissions)
               PROVE  /\ submissions'[s] \in Submission
                      /\ submissions'[s].form = submissions[s].form
                      /\ submissions'[s].name = submissions[s].name
                      /\ submissions'[s].picture = submissions[s].picture
                      /\ submissions'[s].stage = submissions[s].stage
                      /\ submissions'[s].alive = submissions[s].alive
                      /\ submissions'[s].item = submissions[s].item
                      /\ submissions'[s].asked \subseteq submissions[s].asked
                      /\ touched(s) => submissions'[s].asked = {}
    OBVIOUS
  <2>1. submissions[s] \in Submission
    BY Types DEF Inv
  <2>2. CASE touched(s)
    <3>1. submissions'[s] = [submissions[s] EXCEPT !.asked = {}]
      BY <1>3, <2>2
    <3>2. QED
      BY <2>1, <3>1 DEF Submission
  <2>3. CASE ~ touched(s)
    <3>1. submissions'[s] = submissions[s]
      BY <1>3, <2>3
    <3>2. QED
      BY <2>1, <2>3, <3>1
  <2>4. QED
    BY <2>2, <2>3
<1>5. submissions' \in Seq(Submission) /\ Len(submissions') = Len(submissions)
  <2>1. submissions' \in [1..Len(submissions) -> Submission]
    <3>1. DOMAIN submissions' = 1..Len(submissions)
      BY <1>3
    <3>2. QED
      BY <1>3, <1>4, <3>1
  <2>2. QED
    BY <1>1, <2>1, AllReplaced
<1>6. TypeOK'
  <2>1. \A s \in DOMAIN submissions' : submissions'[s].form <= Len(forms')
    <3>1. DOMAIN submissions' = 1..Len(submissions)
      BY <1>5
    <3>2. \A s \in 1..Len(submissions) : submissions[s].form \in 1..Len(forms)
      BY Types DEF Inv
    <3>3. \A s \in 1..Len(submissions) : submissions'[s].form \in 1..Len(forms')
      BY <1>2, <1>4, <3>2
    <3>4. \A n \in 1..Len(forms') : n <= Len(forms')
      BY <1>2
    <3>5. QED
      BY <3>1, <3>3, <3>4
  <2>2. forms' # <<>>
    <3>1. Current \in 1..Len(forms) /\ Len(forms) \in Nat
      BY <1>1
    <3>2. Len(forms) # 0
      BY <3>1
    <3>3. QED
      BY <1>2, <3>2
  <2>3. QED
    BY <1>1, <1>2, <1>5, <2>1, <2>2 DEF Inv, TypeOK
<1>7. NegoFormHasNoPrice'
  BY <1>1, <1>2 DEF Inv, NegoFormHasNoPrice, EditKeeps
<1>8. \A s \in 1..Len(submissions) : submissions[s].form \in 1..Len(forms)
  BY Types DEF Inv
<1>9. SubmittedFormsHaveCategory'
  <2> SUFFICES ASSUME NEW s \in 1..Len(submissions)
               PROVE  forms'[submissions[s].form].listing.category = "chosen"
    BY <1>4, <1>5 DEF SubmittedFormsHaveCategory
  <2>1. forms[submissions[s].form].listing.category = "chosen"
    BY DEF Inv, SubmittedFormsHaveCategory
  <2>2. CASE submissions[s].form = Current
    BY <1>2, <2>1, <2>2 DEF EditKeeps
  <2>3. CASE submissions[s].form # Current
    BY <1>2, <1>8, <2>1, <2>3
  <2>4. QED
    BY <2>2, <2>3
<1>10. AskedIsOnForm'
  <2> SUFFICES ASSUME NEW s \in 1..Len(submissions), submissions[s].stage # "post"
               PROVE  /\ submissions'[s].asked \subseteq {BuiltListing(s)'}
                      /\ submissions'[s].item = {}
    BY <1>4, <1>5 DEF AskedIsOnForm
  <2>1. /\ submissions[s].asked \subseteq {BuiltListing(s)}
        /\ submissions[s].item = {}
    BY DEF Inv, AskedIsOnForm
  <2>2. CASE touched(s)
    BY <1>4, <2>1, <2>2
  <2>3. CASE ~ touched(s)
    <3>1. forms'[submissions[s].form].listing = forms[submissions[s].form].listing
      BY <1>1, <1>2, <1>8, <2>3
    <3>2. BuiltListing(s)' = BuiltListing(s)
      BY <1>4, <3>1 DEF BuiltListing
    <3>3. QED
      BY <1>4, <2>1, <3>2
  <2>4. QED
    BY <2>2, <2>3
<1>11. SentItemsArePriced' /\ SentAsSubmitted'
  <2>1. DOMAIN submissions = 1..Len(submissions) /\ DOMAIN submissions' = 1..Len(submissions)
    BY <1>1, <1>5
  <2>2. SentItemsArePriced'
    BY <1>4, <2>1 DEF Inv, SentItemsArePriced
  <2>3. SentAsSubmitted'
    BY <1>4, <2>1 DEF Inv, SentAsSubmitted
  <2>4. QED
    BY <2>2, <2>3
<1>12. PictureStays'
  BY <1>1, <1>4, <1>5 DEF Inv, PictureStays
<1>13. QED
  BY <1>6, <1>7, <1>9, <1>10, <1>11, <1>12 DEF Inv

\* The bucket has the picture, and the submission is not over.
InBucket == {"stored", "url", "post"}

\* What the items that are sent have in common.
Priced(item) ==
    /\ item.category = "chosen"
    /\ item.price \in Numbers
    /\ ~ item.nego

\* Submission s moves on without harm.
Keeps(s) ==
    /\ submissions'[s].form = submissions[s].form
    /\ submissions'[s].name = submissions[s].name
    /\ submissions'[s].picture = submissions[s].picture
    /\ submissions'[s].stage # "post" =>
           /\ submissions'[s].asked \subseteq {BuiltListing(s)}
           /\ submissions'[s].item = {}
    /\ \A item \in submissions'[s].item :
           Priced(item) /\ submissions'[s].asked \subseteq {item}
    /\ submissions'[s].alive /\ submissions'[s].stage \in InBucket =>
           \/ submissions[s].alive /\ submissions[s].stage \in InBucket
           \/ storage'[submissions[s].name] = submissions[s].picture

\* The bucket only takes pictures under the names they were submitted with.
StorageKeeps ==
    \A n \in Names :
        \/ storage'[n] = storage[n]
        \/ \E r \in 1..Len(submissions) :
              submissions[r].name = n /\ storage'[n] = submissions[r].picture

LEMMA InvOnePerSubmission ==
    ASSUME Inv, NEW s \in 1..Len(submissions)
    PROVE  /\ submissions[s].stage # "post" =>
                  /\ submissions[s].asked \subseteq {BuiltListing(s)}
                  /\ submissions[s].item = {}
           /\ \A item \in submissions[s].item :
                  Priced(item) /\ submissions[s].asked \subseteq {item}
<1>1. s \in DOMAIN submissions
  BY Types DEF Inv
<1>2. QED
  BY <1>1 DEF Inv, AskedIsOnForm, SentItemsArePriced, SentAsSubmitted, Priced

LEMMA SubmissionsMoveOn ==
    ASSUME Inv, TypeOK', forms' = forms, Len(submissions') = Len(submissions),
           \A s \in 1..Len(submissions) : Keeps(s), StorageKeeps
    PROVE  Inv'
<1>1. /\ DOMAIN submissions = 1..Len(submissions)
      /\ DOMAIN submissions' = 1..Len(submissions)
  <2>1. submissions' \in Seq(Submission)
    BY DEF TypeOK
  <2>2. QED
    BY <2>1, Types DEF Inv
<1>2. NegoFormHasNoPrice'
  BY DEF Inv, NegoFormHasNoPrice
<1>3. SubmittedFormsHaveCategory'
  BY DEF Inv, SubmittedFormsHaveCategory, Keeps
<1>4. AskedIsOnForm'
  BY DEF AskedIsOnForm, Keeps, BuiltListing
<1>5. SentItemsArePriced' /\ SentAsSubmitted'
  BY <1>1 DEF SentItemsArePriced, SentAsSubmitted, Keeps, Priced
<1>6. PictureStays'
  <2> SUFFICES ASSUME NEW s \in 1..Len(submissions),
                      submissions'[s].alive, submissions'[s].stage \in InBucket
               PROVE  \E r \in 1..Len(submissions) :
                         /\ submissions'[r].name = submissions'[s].name
                         /\ storage'[submissions'[s].name] = submissions'[r].picture
    BY DEF PictureStays, InBucket
  <2>1. \A r \in 1..Len(submissions) :
           /\ submissions'[r].name = submissions[r].name
           /\ submissions'[r].picture = submissions[r].picture
    BY DEF Keeps
  <2>2. submissions[s].name \in Names
    BY Types DEF Inv, Submission
  <2>3. CASE storage'[submissions[s].name] = submissions[s].picture
    BY <2>1, <2>3
  <2>4. CASE submissions[s].alive /\ submissions[s].stage \in InBucket
    <3>1. PICK r \in 1..Len(submissions) :
             /\ submissions[r].name = submissions[s].name
             /\ storage[submissions[s].name] = submissions[r].picture
      BY <2>4 DEF Inv, PictureStays, InBucket
    <3>2. CASE storage'[submissions[s].name] = storage[submissions[s].name]
      BY <2>1, <3>1, <3>2
    <3>3. CASE \E n \in 1..Len(submissions) :
                  /\ submissions[n].name = submissions[s].name
                  /\ storage'[submissions[s].name] = submissions[n].picture
      BY <2>1, <3>3
    <3>4. QED
      BY <2>2, <3>2, <3>3 DEF StorageKeeps
  <2>5. QED
    BY <2>3, <2>4 DEF Keeps
<1>7. QED
  BY <1>2, <1>3, <1>4, <1>5, <1>6 DEF Inv

\* Nothing but the session, the screen and the process change.
LEMMA OnlyScreen ==
    ASSUME Inv, token' \in BOOLEAN, screen' \in {"elsewhere", "crashed"},
           UNCHANGED <<forms, submissions, storage>>
    PROVE  Inv'
<1>1. TypeOK'
  BY DEF Inv, TypeOK
<1>2. QED
  BY <1>1 DEF Inv, NegoFormHasNoPrice, SubmittedFormsHaveCategory, AskedIsOnForm,
        SentItemsArePriced, SentAsSubmitted, PictureStays, BuiltListing

\* Only submission s changes, to e.
LEMMA OneMovesOn ==
    ASSUME Inv, NEW s \in 1..Len(submissions), NEW e \in Submission,
           submissions' = [submissions EXCEPT ![s] = e], forms' = forms,
           token' = token, screen' \in {screen, "elsewhere"},
           storage' \in [Names -> Pictures \cup {"none"}], StorageKeeps,
           e.form = submissions[s].form, e.name = submissions[s].name,
           e.picture = submissions[s].picture,
           e.stage # "post" => e.asked \subseteq {BuiltListing(s)} /\ e.item = {},
           \A item \in e.item : Priced(item) /\ e.asked \subseteq {item},
           e.alive /\ e.stage \in InBucket =>
               \/ submissions[s].alive /\ submissions[s].stage \in InBucket
               \/ storage'[submissions[s].name] = submissions[s].picture
    PROVE  Inv'
<1>1. /\ forms \in Seq(Form) /\ submissions \in Seq(Submission)
      /\ Len(forms) \in Nat /\ Len(submissions) \in Nat
      /\ \A r \in 1..Len(submissions) : submissions[r].form \in 1..Len(forms)
  BY Types DEF Inv
<1>2. /\ submissions' \in Seq(Submission) /\ Len(submissions') = Len(submissions)
      /\ submissions'[s] = e
      /\ \A r \in 1..Len(submissions) : r # s => submissions'[r] = submissions[r]
  BY <1>1, OneReplaced
<1>3. TypeOK'
  <2>1. \A r \in 1..Len(submissions) : submissions'[r].form \in 1..Len(forms)
    BY <1>1, <1>2
  <2>2. \A n \in 1..Len(forms) : n <= Len(forms)
    BY <1>1
  <2>3. DOMAIN submissions' = 1..Len(submissions)
    BY <1>2
  <2>4. QED
    BY <1>2, <2>1, <2>2, <2>3 DEF Inv, TypeOK
<1>4. \A r \in 1..Len(submissions) : Keeps(r)
  <2> SUFFICES ASSUME NEW r \in 1..Len(submissions)
               PROVE  Keeps(r)
    OBVIOUS
  <2>1. CASE r = s
    BY <1>2, <2>1 DEF Keeps
  <2>2. CASE r # s
    BY <1>2, <2>2, InvOnePerSubmission DEF Keeps
  <2>3. QED
    BY <2>1, <2>2
<1>5. QED
  BY <1>2, <1>3, <1>4, SubmissionsMoveOn

\* A submission is over.
LEMMA EndedIsSubmission ==
    ASSUME NEW e \in Submission
    PROVE  /\ Ended(e) \in Submission
           /\ Ended(e).form = e.form /\ Ended(e).name = e.name
           /\ Ended(e).picture = e.picture /\ Ended(e).alive = e.alive
           /\ Ended(e).stage = "ended"
           /\ Ended(e).asked = {} /\ Ended(e).item = {}
BY DEF Ended, Submission, Stages

LEMMA EndKeepsInv ==
    ASSUME Inv, NEW s \in 1..Len(submissions),
           submissions' = [submissions EXCEPT ![s] = Ended(@)],
           screen' \in {screen, "elsewhere"}, UNCHANGED <<token, forms, storage>>
    PROVE  Inv'
<1>1. submissions[s] \in Submission
  BY Types DEF Inv
<1>2. DOMAIN submissions = 1..Len(submissions)
  BY Types DEF Inv
<1>3. submissions' = [submissions EXCEPT ![s] = Ended(submissions[s])]
  BY <1>2
<1>4. StorageKeeps /\ storage' \in [Names -> Pictures \cup {"none"}]
  BY DEF StorageKeeps, Inv, TypeOK
<1>5. QED
  BY <1>1, <1>3, <1>4, EndedIsSubmission, OneMovesOn DEF InBucket

LEMMA StageChanges ==
    ASSUME NEW e \in Submission, NEW stage \in Stages
    PROVE  LET f == [e EXCEPT !.stage = stage]
           IN  /\ f \in Submission
               /\ f.form = e.form /\ f.name = e.name
               /\ f.picture = e.picture /\ f.alive = e.alive
               /\ f.stage = stage /\ f.asked = e.asked /\ f.item = e.item
BY DEF Submission

LEMMA StorePictureKeepsInv ==
    ASSUME Inv, NEW s \in 1..Len(submissions), StorePicture(s)
    PROVE  Inv'
<1> DEFINE stage == IF submissions[s].alive THEN "stored" ELSE "ended"
           e == [submissions[s] EXCEPT !.stage = stage]
<1>1. submissions[s] \in Submission /\ DOMAIN submissions = 1..Len(submissions)
  BY Types DEF Inv
<1>2. stage \in Stages
  BY DEF Stages
<1>3. /\ e \in Submission
      /\ e.form = submissions[s].form /\ e.name = submissions[s].name
      /\ e.picture = submissions[s].picture /\ e.alive = submissions[s].alive
      /\ e.stage = stage /\ e.asked = submissions[s].asked
      /\ e.item = submissions[s].item
  BY <1>1, <1>2, StageChanges
<1>4. submissions' = [submissions EXCEPT ![s] = e]
  BY <1>1 DEF StorePicture
<1>5. /\ storage' \in [Names -> Pictures \cup {"none"}]
      /\ storage'[submissions[s].name] = submissions[s].picture
      /\ StorageKeeps
  BY <1>1 DEF StorePicture, Inv, TypeOK, StorageKeeps, Submission
<1>6. submissions[s].stage # "post"
  BY DEF StorePicture
<1>7. submissions[s].asked \subseteq {BuiltListing(s)} /\ submissions[s].item = {}
  BY <1>6, InvOnePerSubmission
<1>8. UNCHANGED <<token, screen, forms>>
  BY DEF StorePicture
<1> HIDE DEF e
<1>9. QED
  BY <1>3, <1>4, <1>5, <1>7, <1>8, OneMovesOn

LEMMA PutDataAnswerKeepsInv ==
    ASSUME Inv, NEW s \in 1..Len(submissions), PutDataAnswer(s)
    PROVE  Inv'
<1> DEFINE e == [submissions[s] EXCEPT !.stage = "url"]
<1>1. submissions[s] \in Submission /\ DOMAIN submissions = 1..Len(submissions)
  BY Types DEF Inv
<1>2. /\ e \in Submission
      /\ e.form = submissions[s].form /\ e.name = submissions[s].name
      /\ e.picture = submissions[s].picture /\ e.alive = submissions[s].alive
      /\ e.stage = "url" /\ e.asked = submissions[s].asked
      /\ e.item = submissions[s].item
  BY <1>1, StageChanges DEF Stages
<1>3. submissions' = [submissions EXCEPT ![s] = e]
  BY <1>1 DEF PutDataAnswer
<1>4. StorageKeeps /\ storage' \in [Names -> Pictures \cup {"none"}]
  BY DEF StorageKeeps, PutDataAnswer, Inv, TypeOK
<1>5. submissions[s].alive /\ submissions[s].stage = "stored"
  BY DEF PutDataAnswer, At
<1>6. submissions[s].asked \subseteq {BuiltListing(s)} /\ submissions[s].item = {}
  BY <1>5, InvOnePerSubmission
<1>7. submissions[s].alive /\ submissions[s].stage \in InBucket
  BY <1>5 DEF InBucket
<1>8. UNCHANGED <<token, screen, forms>>
  BY DEF PutDataAnswer
<1> HIDE DEF e
<1>9. QED
  BY <1>2, <1>3, <1>4, <1>6, <1>7, <1>8, OneMovesOn

LEMMA DownloadURLAnswerKeepsInv ==
    ASSUME Inv, NEW s \in 1..Len(submissions), DownloadURLAnswer(s)
    PROVE  Inv'
<1> DEFINE e == [submissions[s] EXCEPT !.stage = "post", !.item = {BuiltListing(s)}]
<1>1. /\ submissions[s] \in Submission /\ DOMAIN submissions = 1..Len(submissions)
      /\ BuiltListing(s) \in Listing /\ submissions[s].form \in 1..Len(forms)
      /\ DOMAIN forms = 1..Len(forms)
  BY Types DEF Inv
<1>2. CASE ~ token
  <2>1. /\ submissions' = [submissions EXCEPT ![s] = Ended(@)]
        /\ UNCHANGED <<token, screen, forms, storage>>
    BY <1>2 DEF DownloadURLAnswer
  <2>2. QED
    BY <2>1, EndKeepsInv
<1>3. CASE token
  <2>1. /\ e \in Submission
        /\ e.form = submissions[s].form /\ e.name = submissions[s].name
        /\ e.picture = submissions[s].picture /\ e.alive = submissions[s].alive
        /\ e.stage = "post" /\ e.asked = submissions[s].asked
        /\ e.item = {BuiltListing(s)}
    BY <1>1 DEF Submission, Stages
  <2>2. submissions' = [submissions EXCEPT ![s] = e]
    BY <1>1, <1>3 DEF DownloadURLAnswer
  <2>3. StorageKeeps /\ storage' \in [Names -> Pictures \cup {"none"}]
    BY DEF StorageKeeps, DownloadURLAnswer, Inv, TypeOK
  <2>4. submissions[s].alive /\ submissions[s].stage = "url"
    BY DEF DownloadURLAnswer, At
  <2>5. Priced(BuiltListing(s))
    <3>1. BuiltListing(s).category = "chosen"
      BY DEF Inv, SubmittedFormsHaveCategory, BuiltListing
    <3>2. BuiltListing(s).price \in Numbers
      BY DEF DownloadURLAnswer
    <3>3. BuiltListing(s).nego => BuiltListing(s).price = ""
      BY <1>1 DEF Inv, NegoFormHasNoPrice, BuiltListing
    <3>4. QED
      BY <3>1, <3>2, <3>3 DEF Priced, Numbers
  <2>6. submissions[s].asked \subseteq {BuiltListing(s)}
    BY <2>4, InvOnePerSubmission
  <2>7. submissions[s].alive /\ submissions[s].stage \in InBucket
    BY <2>4 DEF InBucket
  <2>8. UNCHANGED <<token, screen, forms>>
    BY DEF DownloadURLAnswer
  <2> HIDE DEF e
  <2>9. \A item \in e.item : Priced(item) /\ e.asked \subseteq {item}
    BY <2>1, <2>5, <2>6
  <2>10. QED
    BY <2>1, <2>2, <2>3, <2>7, <2>8, <2>9, OneMovesOn
<1>4. QED
  BY <1>2, <1>3

LEMMA UploadKeepsInv ==
    ASSUME Inv, NEW s \in 1..Len(submissions), Upload(s)
    PROVE  Inv'
<1>1. CASE StorePicture(s)
  BY <1>1, StorePictureKeepsInv
<1>2. CASE PutDataAnswer(s)
  BY <1>2, PutDataAnswerKeepsInv
<1>3. CASE StorageError(s)
  BY <1>3, EndKeepsInv DEF StorageError
<1>4. CASE DownloadURLCrash(s)
  <2>1. token' \in BOOLEAN
    BY <1>4 DEF DownloadURLCrash, Inv, TypeOK
  <2>2. QED
    BY <1>4, <2>1, OnlyScreen DEF DownloadURLCrash
<1>5. CASE DownloadURLAnswer(s)
  BY <1>5, DownloadURLAnswerKeepsInv
<1>6. CASE RegisterAnswer(s)
  BY <1>6, EndKeepsInv DEF RegisterAnswer
<1>7. QED
  BY <1>1, <1>2, <1>3, <1>4, <1>5, <1>6 DEF Upload

-----------------------------------------------------------------------------
(* The other steps.                                                        *)

\* The price field opens, or is emptied and closed.
LEMMA PriceField ==
    ASSUME NEW f \in Form, NEW bool \in BOOLEAN
    PROVE  LET g == PriceTextFieldEnable(f, bool)
           IN  /\ g \in Form
               /\ g.enabled = bool
               /\ ~ bool => g.listing.price = ""
               /\ g.listing.category = f.listing.category
               /\ g.listing.nego = f.listing.nego
               /\ g.listing.shipping = f.listing.shipping
BY DEF PriceTextFieldEnable, Form, Listing, PriceTexts

LEMMA EditFormKeepsInv ==
    ASSUME Inv, EditForm
    PROVE  Inv'
<1> DEFINE old == forms[Current]
<1>1. /\ OnForm /\ old \in Form
      /\ ~ (old.listing.nego /\ old.listing.shipping)
      /\ old.listing.nego => old.listing.price = ""
      /\ old.enabled = ~ old.listing.nego
  <2>1. OnForm
    BY DEF EditForm, PickImage, ChooseCategory, TypeName, TypeTag, TypePrice,
           CheckNego, CheckIncludeShippingFee, EditListing, Edit
  <2>2. QED
    BY <2>1, Types DEF Inv, NegoFormHasNoPrice
<1>2. ASSUME NEW picture \in Pictures, PickImage(picture)
      PROVE  Inv'
  <2>1. EditKeeps([old EXCEPT !.picture = picture])
    BY <1>1 DEF EditKeeps, Form
  <2>2. QED
    BY <1>2, <2>1, EditKeepsInv DEF PickImage
<1>3. CASE ChooseCategory
  <2>1. EditKeeps([old EXCEPT !.listing = [old.listing EXCEPT !.category = "chosen"]])
    BY <1>1 DEF EditKeeps, Form, Listing
  <2>2. QED
    BY <1>3, <2>1, EditKeepsInv DEF ChooseCategory, EditListing
<1>4. ASSUME NEW name \in Names \cup {""}, TypeName(name)
      PROVE  Inv'
  <2>1. EditKeeps([old EXCEPT !.listing = [old.listing EXCEPT !.name = name]])
    BY <1>1 DEF EditKeeps, Form, Listing
  <2>2. QED
    BY <1>4, <2>1, EditKeepsInv DEF TypeName, EditListing
<1>5. ASSUME NEW tag \in {"tag", ""}, TypeTag(tag)
      PROVE  Inv'
  <2>1. EditKeeps([old EXCEPT !.listing = [old.listing EXCEPT !.tag = tag]])
    BY <1>1 DEF EditKeeps, Form, Listing
  <2>2. QED
    BY <1>5, <2>1, EditKeepsInv DEF TypeTag, EditListing
<1>6. ASSUME NEW text \in PriceTexts, TypePrice(text)
      PROVE  Inv'
  <2>1. old.enabled
    BY <1>6 DEF TypePrice
  <2>2. EditKeeps([old EXCEPT !.listing = [old.listing EXCEPT !.price = text]])
    BY <1>1, <2>1 DEF EditKeeps, Form, Listing
  <2>3. QED
    BY <1>6, <2>2, EditKeepsInv DEF TypePrice, EditListing
<1>7. CASE CheckNego
  <2> DEFINE nego == ~ old.listing.nego
             toggled == [old EXCEPT !.listing.nego = nego,
                                    !.listing.shipping = IF nego THEN FALSE ELSE @]
             f == PriceTextFieldEnable(toggled, nego = FALSE)
  <2>1. nego \in BOOLEAN /\ (nego = FALSE) \in BOOLEAN
    BY <1>1 DEF Form, Listing
  <2>2. /\ toggled \in Form
        /\ toggled.listing.nego = nego
        /\ toggled.listing.category = old.listing.category
        /\ nego => ~ toggled.listing.shipping
    BY <1>1, <2>1 DEF Form, Listing
  <2> HIDE DEF toggled
  <2>3. EditKeeps(f)
    BY <2>1, <2>2, PriceField DEF EditKeeps
  <2>4. Edit(f)
    BY <1>7 DEF CheckNego, toggled
  <2>5. QED
    BY <2>3, <2>4, EditKeepsInv
<1>8. CASE CheckIncludeShippingFee
  <2> DEFINE shipping == ~ old.listing.shipping
             toggled == [old EXCEPT !.listing.shipping = shipping]
             plain == [toggled EXCEPT !.listing.nego = FALSE]
  <2>1. shipping \in BOOLEAN
    BY <1>1 DEF Form, Listing
  <2>2. /\ toggled \in Form
        /\ toggled.listing.shipping = shipping
        /\ toggled.listing.nego = old.listing.nego
        /\ toggled.listing.price = old.listing.price
        /\ toggled.listing.category = old.listing.category
        /\ toggled.enabled = old.enabled
    BY <1>1, <2>1 DEF Form, Listing
  <2>3. /\ plain \in Form
        /\ plain.listing.nego = FALSE
        /\ plain.listing.category = old.listing.category
    BY <2>2 DEF Form, Listing
  <2> HIDE DEF toggled, plain
  <2>4. CASE shipping /\ old.listing.nego
    <3>1. EditKeeps(PriceTextFieldEnable(plain, TRUE))
      BY <2>3, PriceField DEF EditKeeps
    <3>2. Edit(PriceTextFieldEnable(plain, TRUE))
      BY <1>8, <2>4 DEF CheckIncludeShippingFee, toggled, plain
    <3>3. QED
      BY <3>1, <3>2, EditKeepsInv
  <2>5. CASE ~ (shipping /\ old.listing.nego)
    <3>1. EditKeeps(toggled)
      BY <1>1, <2>2, <2>5 DEF EditKeeps
    <3>2. Edit(toggled)
      BY <1>8, <2>5 DEF CheckIncludeShippingFee, toggled
    <3>3. QED
      BY <3>1, <3>2, EditKeepsInv
  <2>6. QED
    BY <2>4, <2>5
<1>9. QED
  BY <1>2, <1>3, <1>4, <1>5, <1>6, <1>7, <1>8 DEF EditForm

LEMMA OpenRegisterKeepsInv ==
    ASSUME Inv, OpenRegister
    PROVE  Inv'
<1>1. /\ forms \in Seq(Form) /\ submissions \in Seq(Submission)
      /\ Len(forms) \in Nat /\ Len(submissions) \in Nat
      /\ \A s \in 1..Len(submissions) : submissions[s].form \in 1..Len(forms)
      /\ DOMAIN submissions = 1..Len(submissions)
  BY Types DEF Inv
<1>2. BlankForm \in Form /\ MaxForms \in Nat
  BY RegisterAssumption DEF BlankForm, Form, Listing, PriceTexts
<1>3. forms' = Append(forms, BlankForm) /\ UNCHANGED <<token, submissions, storage>>
  BY DEF OpenRegister
<1>4. /\ forms' \in Seq(Form) /\ Len(forms') = Len(forms) + 1
      /\ forms'[Len(forms) + 1] = BlankForm
      /\ \A n \in 1..Len(forms) : forms'[n] = forms[n]
  BY <1>1, <1>2, <1>3, OneAppended
<1>5. TypeOK'
  <2>1. screen' = "form" /\ Len(forms) < MaxForms
    BY DEF OpenRegister, Current
  <2>2. Len(forms') <= MaxForms /\ Len(forms') # 0
    BY <1>1, <1>2, <1>4, <2>1
  <2>3. \A n \in 1..Len(forms) : n <= Len(forms')
    BY <1>1, <1>4
  <2>4. \A s \in DOMAIN submissions' : submissions'[s].form <= Len(forms')
    BY <1>1, <1>3, <2>3
  <2>5. forms' # <<>>
    BY <2>2
  <2>6. QED
    BY <1>3, <1>4, <2>1, <2>2, <2>4, <2>5 DEF Inv, TypeOK
<1>6. NegoFormHasNoPrice'
  <2> DEFINE Clean(f) == /\ ~ (f.listing.nego /\ f.listing.shipping)
                         /\ f.listing.nego => f.listing.price = ""
                         /\ f.enabled = ~ f.listing.nego
  <2>1. DOMAIN forms = 1..Len(forms) /\ DOMAIN forms' = 1..(Len(forms) + 1)
    BY <1>1, <1>4
  <2>2. Clean(BlankForm)
    BY DEF BlankForm
  <2>3. \A n \in 1..Len(forms) : Clean(forms[n])
    BY <2>1 DEF Inv, NegoFormHasNoPrice
  <2>4. \A n \in 1..(Len(forms) + 1) : n = Len(forms) + 1 \/ n \in 1..Len(forms)
    BY <1>1
  <2>5. \A n \in 1..(Len(forms) + 1) : Clean(forms'[n])
    <3> HIDE DEF Clean
    <3>1. QED
      BY <1>4, <2>2, <2>3, <2>4
  <2>6. QED
    BY <2>1, <2>5 DEF NegoFormHasNoPrice
<1>7. \A s \in 1..Len(submissions) :
          BuiltListing(s)' = BuiltListing(s)
  BY <1>1, <1>3, <1>4 DEF BuiltListing
<1>8. SubmittedFormsHaveCategory' /\ AskedIsOnForm'
  BY <1>1, <1>3, <1>4, <1>7 DEF Inv, SubmittedFormsHaveCategory, AskedIsOnForm
<1>9. QED
  BY <1>3, <1>5, <1>6, <1>8
     DEF Inv, SentItemsArePriced, SentAsSubmitted, PictureStays

LEMMA SubmitButtonPressedKeepsInv ==
    ASSUME Inv, SubmitButtonPressed
    PROVE  Inv'
<1> DEFINE f == forms[Current]
           e == [ form |-> Current, name |-> f.listing.name,
                  picture |-> f.picture, stage |-> "put", alive |-> TRUE,
                  asked |-> {f.listing}, item |-> {} ]
           new == Len(submissions) + 1
<1>1. /\ forms \in Seq(Form) /\ submissions \in Seq(Submission)
      /\ Len(forms) \in Nat /\ Len(submissions) \in Nat
      /\ \A s \in 1..Len(submissions) : submissions[s].form \in 1..Len(forms)
      /\ DOMAIN submissions = 1..Len(submissions)
      /\ Current \in 1..Len(forms) /\ f \in Form
  BY Types DEF Inv, SubmitButtonPressed
<1>2. f.listing.name # "" /\ f.listing.category = "chosen"
  BY <1>1 DEF SubmitButtonPressed, Submittable, Form, Listing
<1>3. \A n \in 1..Len(forms) : n \in 1..MaxForms
  <2>1. Len(forms) <= MaxForms /\ MaxForms \in Nat
    BY RegisterAssumption DEF Inv, TypeOK
  <2>2. QED
    BY <1>1, <2>1
<1>4. e \in Submission
  <2>1. f.listing.name \in Names /\ f.picture # "none"
    BY <1>1, <1>2 DEF Form, Listing, SubmitButtonPressed, Submittable
  <2>2. f.listing \in Listing /\ f.picture \in Pictures
    BY <1>1, <2>1 DEF Form
  <2>3. Current \in 1..MaxForms
    BY <1>1, <1>3
  <2>4. "put" \in Stages
    BY DEF Stages
  <2>5. {f.listing} \in SUBSET Listing
    BY <2>2
  <2> HIDE DEF f
  <2>6. QED
    BY <2>1, <2>2, <2>3, <2>4, <2>5 DEF Submission
<1>5. submissions' = Append(submissions, e) /\ UNCHANGED <<token, screen, forms, storage>>
  BY DEF SubmitButtonPressed
<1>6. /\ e.form = Current /\ e.stage = "put" /\ e.asked = {f.listing} /\ e.item = {}
  OBVIOUS
<1> HIDE DEF e
<1>7. /\ submissions' \in Seq(Submission) /\ Len(submissions') = new
      /\ submissions'[new] = e
      /\ \A s \in 1..Len(submissions) : submissions'[s] = submissions[s]
  BY <1>1, <1>4, <1>5, OneAppended
<1>8. /\ DOMAIN submissions' = 1..new
      /\ \A s \in 1..new : s = new \/ s \in 1..Len(submissions)
      /\ 1..Len(submissions) \subseteq 1..new
  BY <1>1, <1>7
<1>9. \A s \in 1..new : submissions'[s].form \in 1..Len(forms)
  BY <1>1, <1>6, <1>7, <1>8
<1>10. TypeOK'
  <2>1. \A n \in 1..Len(forms) : n <= Len(forms)
    BY <1>1
  <2>2. QED
    BY <1>5, <1>7, <1>8, <1>9, <2>1 DEF Inv, TypeOK
<1>11. NegoFormHasNoPrice'
  BY <1>5 DEF Inv, NegoFormHasNoPrice
<1>12. SubmittedFormsHaveCategory'
  BY <1>2, <1>5, <1>6, <1>7, <1>8 DEF Inv, SubmittedFormsHaveCategory
<1>13. AskedIsOnForm'
  <2> SUFFICES ASSUME NEW s \in 1..new, submissions'[s].stage # "post"
               PROVE  /\ submissions'[s].asked \subseteq {forms[submissions'[s].form].listing}
                      /\ submissions'[s].item = {}
    BY <1>5, <1>7 DEF AskedIsOnForm, BuiltListing
  <2>1. CASE s = new
    BY <1>6, <1>7, <2>1
  <2>2. CASE s \in 1..Len(submissions)
    BY <1>7, <2>2 DEF Inv, AskedIsOnForm, BuiltListing
  <2>3. QED
    BY <1>8, <2>1, <2>2
<1>14. SentItemsArePriced' /\ SentAsSubmitted'
  <2>1. \A s \in 1..new : \A item \in submissions'[s].item :
           Priced(item) /\ submissions'[s].asked \subseteq {item}
    BY <1>6, <1>7, <1>8, InvOnePerSubmission
  <2>2. QED
    BY <1>8, <2>1 DEF SentItemsArePriced, SentAsSubmitted, Priced
<1>15. PictureStays'
  <2> SUFFICES ASSUME NEW s \in 1..new, submissions'[s].alive,
                      submissions'[s].stage \in {"stored", "url", "post"}
               PROVE  \E r \in 1..new :
                         /\ submissions'[r].name = submissions'[s].name
                         /\ storage[submissions'[s].name] = submissions'[r].picture
    BY <1>5, <1>7 DEF PictureStays
  <2>1. s \in 1..Len(submissions) /\ submissions'[s] = submissions[s]
    BY <1>6, <1>7, <1>8
  <2>2. PICK r \in 1..Len(submissions) :
           /\ submissions[r].name = submissions[s].name
           /\ storage[submissions[s].name] = submissions[r].picture
    BY <2>1 DEF Inv, PictureStays
  <2>3. QED
    BY <1>7, <1>8, <2>1, <2>2
<1>16. QED
  BY <1>10, <1>11, <1>12, <1>13, <1>14, <1>15 DEF Inv

LEMMA RelaunchKeepsInv ==
    ASSUME Inv, Relaunch
    PROVE  Inv'
<1>1. /\ submissions \in Seq(Submission) /\ Len(submissions) \in Nat
      /\ Len(forms) \in Nat
      /\ DOMAIN submissions = 1..Len(submissions)
      /\ \A s \in 1..Len(submissions) :
            submissions[s] \in Submission /\ submissions[s].form \in 1..Len(forms)
  BY Types DEF Inv
<1>2. UNCHANGED <<token, forms, storage>> /\ screen' = "elsewhere"
  BY DEF Relaunch
<1>3. ASSUME NEW s \in 1..Len(submissions)
      PROVE  submissions'[s] \in Submission /\ Keeps(s)
  <2>1. CASE submissions[s].stage = "put"
    <3>1. submissions'[s] = [submissions[s] EXCEPT !.alive = FALSE, !.asked = {}]
      BY <1>1, <2>1 DEF Relaunch
    <3>2. /\ submissions'[s] \in Submission
          /\ submissions'[s].form = submissions[s].form
          /\ submissions'[s].name = submissions[s].name
          /\ submissions'[s].picture = submissions[s].picture
          /\ submissions'[s].stage = submissions[s].stage
          /\ submissions'[s].item = submissions[s].item
          /\ submissions'[s].asked = {} /\ ~ submissions'[s].alive
      BY <1>1, <3>1 DEF Submission
    <3>3. submissions[s].item = {}
      BY <2>1, InvOnePerSubmission
    <3>4. QED
      BY <3>2, <3>3 DEF Keeps
  <2>2. CASE submissions[s].stage # "put"
    <3>1. submissions'[s] = Ended(submissions[s])
      BY <1>1, <2>2 DEF Relaunch
    <3>2. QED
      BY <1>1, <3>1, EndedIsSubmission DEF Keeps, InBucket
  <2>3. QED
    BY <2>1, <2>2
<1>4. submissions' \in Seq(Submission) /\ Len(submissions') = Len(submissions)
  <2>1. submissions' \in [1..Len(submissions) -> Submission]
    BY <1>1, <1>3 DEF Relaunch
  <2>2. QED
    BY <1>1, <2>1, AllReplaced
<1>5. TypeOK'
  <2>1. \A n \in 1..Len(forms) : n <= Len(forms)
    BY <1>1
  <2>2. \A s \in DOMAIN submissions' : submissions'[s].form <= Len(forms)
    BY <1>1, <1>3, <1>4, <2>1 DEF Keeps
  <2>3. QED
    BY <1>2, <1>4, <2>2 DEF Inv, TypeOK
<1>6. StorageKeeps
  BY <1>2 DEF StorageKeeps
<1>7. QED
  BY <1>2, <1>3, <1>4, <1>5, <1>6, SubmissionsMoveOn

LEMMA InitInv ==
    ASSUME Init
    PROVE  Inv
<1>1. Len(forms) = 0 /\ Len(submissions) = 0 /\ MaxForms \in Nat
  BY RegisterAssumption DEF Init
<1>2. DOMAIN forms = {} /\ DOMAIN submissions = {}
  BY DEF Init
<1>3. forms \in Seq(Form) /\ submissions \in Seq(Submission)
  BY DEF Init
<1>4. Len(forms) <= MaxForms
  BY <1>1
<1>5. TypeOK
  BY <1>2, <1>3, <1>4 DEF Init, TypeOK
<1>6. 1..Len(submissions) = {}
  BY <1>1
<1>7. QED
  BY <1>2, <1>5, <1>6
     DEF Inv, NegoFormHasNoPrice, SubmittedFormsHaveCategory, AskedIsOnForm,
         SentItemsArePriced, SentAsSubmitted, PictureStays

LEMMA NextInv ==
    ASSUME Inv, [Next]_vars
    PROVE  Inv'
<1>1. CASE OpenRegister
  BY <1>1, OpenRegisterKeepsInv
<1>2. CASE BackButtonPressed
  <2>1. token' \in BOOLEAN
    BY <1>2 DEF BackButtonPressed, Inv, TypeOK
  <2>2. QED
    BY <1>2, <2>1, OnlyScreen DEF BackButtonPressed
<1>3. CASE EditForm
  BY <1>3, EditFormKeepsInv
<1>4. CASE SubmitButtonPressed
  BY <1>4, SubmitButtonPressedKeepsInv
<1>5. CASE \E s \in DOMAIN submissions : Upload(s)
  <2>1. DOMAIN submissions = 1..Len(submissions)
    BY Types DEF Inv
  <2>2. QED
    BY <1>5, <2>1, UploadKeepsInv
<1>6. CASE SignIn
  BY <1>6, OnlyScreen DEF SignIn
<1>7. CASE SignOut
  BY <1>7, OnlyScreen DEF SignOut
<1>8. CASE Relaunch
  BY <1>8, RelaunchKeepsInv
<1>9. CASE UNCHANGED vars
  BY <1>9 DEF vars, Inv, TypeOK, NegoFormHasNoPrice, SubmittedFormsHaveCategory,
      AskedIsOnForm, BuiltListing, SentItemsArePriced, SentAsSubmitted, PictureStays
<1>10. QED
  BY <1>1, <1>2, <1>3, <1>4, <1>5, <1>6, <1>7, <1>8, <1>9 DEF Next

-----------------------------------------------------------------------------
LEMMA InvHolds == Spec => []Inv
<1>1. Init => Inv
  BY InitInv
<1>2. Inv /\ [Next]_vars => Inv'
  BY NextInv
<1>3. QED
  BY <1>1, <1>2, PTL DEF Spec

\* The forms, the submissions and the bucket keep their shapes in any order of
\* edits, submissions, answers and relaunches.
THEOREM TypeCorrect == Spec => []TypeOK
<1>1. Inv => TypeOK
  BY DEF Inv
<1>2. QED
  BY <1>1, InvHolds, PTL

\* checkNego and checkIncludeShippingFee keep the price, its field and the two
\* boxes in step on every form.
THEOREM NegoPriceLocked == Spec => []NegoFormHasNoPrice
<1>1. Inv => NegoFormHasNoPrice
  BY DEF Inv
<1>2. QED
  BY <1>1, InvHolds, PTL

\* The checks of submitButtonPressed are not repeated when the item is built,
\* and yet registerItem only sends items with a category and a price.
THEOREM SentPriced == Spec => []SentItemsArePriced
<1>1. Inv => SentItemsArePriced
  BY DEF Inv
<1>2. QED
  BY <1>1, InvHolds, PTL

\* The closures of uploadImage and getUrlOfImage send what was submitted, or the
\* form was edited in between.
THEOREM SentUnchanged == Spec => []SentAsSubmitted
<1>1. Inv => SentAsSubmitted
  BY DEF Inv
<1>2. QED
  BY <1>1, InvHolds, PTL

\* uploadImage, getUrlOfImage and registerItem only follow a picture that is in
\* the bucket under the name it was submitted with, and it is not lost again.
THEOREM PictureIsThere == Spec => []PictureIsStored
<1>1. Inv => PictureIsStored
  <2> SUFFICES ASSUME Inv
               PROVE  PictureIsStored
    OBVIOUS
  <2>1. DOMAIN submissions = 1..Len(submissions)
    BY Types DEF Inv
  <2>2. QED
    BY <2>1 DEF Inv, PictureStays, PictureIsStored
<1>2. QED
  BY <1>1, InvHolds, PTL

-----------------------------------------------------------------------------
(* Register implements Registration.                                       *)

\* The bound on the submissions, which the picture of them needs.
Bounded == Len(submissions) <= MaxSubmissions

PhaseOf(stage) ==
    CASE stage = "put"                -> "made"
      [] stage \in {"stored", "url"}  -> "stored"
      [] stage = "post"               -> "sent"
      [] stage = "ended"              -> "over"

ClaimOf(submission) == {[name |-> submission.name, picture |-> submission.picture]}

\* What Registration sees of the state before and after a step.
LEMMA Seen ==
    ASSUME Inv, Inv', Bounded, Bounded'
    PROVE  /\ Len(submissions) \in Nat /\ Len(submissions') \in Nat
           /\ 1..Len(submissions) \subseteq 1..MaxSubmissions
           /\ 1..Len(submissions') \subseteq 1..MaxSubmissions
           /\ Phases \in [1..MaxSubmissions -> {Phase(s) : s \in 1..MaxSubmissions}]
           /\ Phases' = [s \in 1..MaxSubmissions |-> Phase(s)']
           /\ \A s \in 1..MaxSubmissions :
                 /\ Phases[s] = Phase(s)
                 /\ Phase(s) = IF s \in 1..Len(submissions)
                               THEN PhaseOf(submissions[s].stage) ELSE "none"
                 /\ Phase(s)' = IF s \in 1..Len(submissions')
                                THEN PhaseOf(submissions'[s].stage) ELSE "none"
           /\ Claims = [s \in 1..MaxSubmissions |->
                           IF s \in 1..Len(submissions)
                           THEN ClaimOf(submissions[s]) ELSE {}]
           /\ Claims' = [s \in 1..MaxSubmissions |->
                           IF s \in 1..Len(submissions')
                           THEN ClaimOf(submissions'[s]) ELSE {}]
<1>1. /\ submissions \in Seq(Submission) /\ submissions' \in Seq(Submission)
      /\ MaxSubmissions \in Nat
  BY RegisterAssumption DEF Inv, TypeOK
<1>2. /\ Len(submissions) \in Nat /\ Len(submissions') \in Nat
      /\ DOMAIN submissions = 1..Len(submissions)
      /\ DOMAIN submissions' = 1..Len(submissions')
  BY <1>1
<1>3. /\ 1..Len(submissions) \subseteq 1..MaxSubmissions
      /\ 1..Len(submissions') \subseteq 1..MaxSubmissions
  BY <1>1, <1>2 DEF Bounded
<1>4. /\ Phases = [s \in 1..MaxSubmissions |-> Phase(s)]
      /\ Phases' = [s \in 1..MaxSubmissions |-> Phase(s)']
  BY DEF Phases
<1>5. ASSUME NEW s \in 1..MaxSubmissions
      PROVE  /\ Phase(s) = IF s \in 1..Len(submissions)
                           THEN PhaseOf(submissions[s].stage) ELSE "none"
             /\ Phase(s)' = IF s \in 1..Len(submissions')
                            THEN PhaseOf(submissions'[s].stage) ELSE "none"
  <2>1. /\ s \in 1..Len(submissions) => Phase(s) = PhaseOf(submissions[s].stage)
        /\ s \notin 1..Len(submissions) => Phase(s) = "none"
    BY <1>2 DEF Phase, PhaseOf
  <2>2. /\ s \in 1..Len(submissions') => Phase(s)' = PhaseOf(submissions'[s].stage)
        /\ s \notin 1..Len(submissions') => Phase(s)' = "none"
    BY <1>2 DEF Phase, PhaseOf
  <2>3. QED
    BY <2>1, <2>2
<1>6. /\ Claims = [s \in 1..MaxSubmissions |->
                       IF s \in 1..Len(submissions) THEN ClaimOf(submissions[s]) ELSE {}]
      /\ Claims' = [s \in 1..MaxSubmissions |->
                       IF s \in 1..Len(submissions') THEN ClaimOf(submissions'[s]) ELSE {}]
  BY <1>2 DEF Claims, ClaimOf
<1>7. QED
  BY <1>2, <1>3, <1>4, <1>5, <1>6

\* A step that leaves every submission its name and its picture.
LEMMA SameClaims ==
    ASSUME Inv, Inv', Bounded, Bounded', Len(submissions') = Len(submissions),
           \A s \in 1..Len(submissions) :
               /\ submissions'[s].name = submissions[s].name
               /\ submissions'[s].picture = submissions[s].picture
    PROVE  Claims' = Claims
<1>1. \A s \in 1..Len(submissions) : ClaimOf(submissions'[s]) = ClaimOf(submissions[s])
  BY DEF ClaimOf
<1>2. QED
  BY <1>1, Seen

\* A step that also leaves every submission its stage is not seen.
LEMMA NotSeen ==
    ASSUME Inv, Inv', Bounded, Bounded', Len(submissions') = Len(submissions),
           \A s \in 1..Len(submissions) :
               /\ submissions'[s].name = submissions[s].name
               /\ submissions'[s].picture = submissions[s].picture
               /\ PhaseOf(submissions'[s].stage) = PhaseOf(submissions[s].stage),
           storage' = storage
    PROVE  UNCHANGED Once!vars
<1>1. Claims' = Claims
  BY SameClaims
<1>2. Phases' = Phases
  <2>1. \A s \in 1..MaxSubmissions : Phase(s)' = Phase(s)
    BY Seen
  <2>2. QED
    BY <2>1, Seen
<1>3. QED
  BY <1>1, <1>2 DEF Once!vars

\* One submission moves on to stage e.stage.
LEMMA OneIsSeen ==
    ASSUME Inv, Inv', Bounded, Bounded', NEW s \in 1..Len(submissions),
           NEW e \in Submission, submissions' = [submissions EXCEPT ![s] = e],
           e.name = submissions[s].name, e.picture = submissions[s].picture,
           NEW next, PhaseOf(e.stage) = next
    PROVE  /\ s \in 1..MaxSubmissions
           /\ Phases[s] = PhaseOf(submissions[s].stage)
           /\ Phases' = [Phases EXCEPT ![s] = next]
           /\ Claims' = Claims
           /\ Claims[s] = ClaimOf(submissions[s])
<1>1. submissions \in Seq(Submission)
  BY Types DEF Inv
<1>2. /\ Len(submissions') = Len(submissions) /\ submissions'[s] = e
      /\ \A t \in 1..Len(submissions) : t # s => submissions'[t] = submissions[t]
  BY <1>1, OneReplaced
<1>3. Claims' = Claims
  BY <1>2, SameClaims
<1>4. \A t \in 1..MaxSubmissions :
         Phase(t)' = IF t = s THEN next ELSE Phases[t]
  BY <1>2, Seen
<1>5. QED
  BY <1>3, <1>4, Seen

LEMMA EndIsSeen ==
    ASSUME Inv, Inv', Bounded, Bounded', NEW s \in 1..Len(submissions),
           submissions' = [submissions EXCEPT ![s] = Ended(@)], storage' = storage
    PROVE  Once!Next
<1>1. submissions[s] \in Submission /\ DOMAIN submissions = 1..Len(submissions)
  BY Types DEF Inv
<1>2. submissions' = [submissions EXCEPT ![s] = Ended(submissions[s])]
  BY <1>1
<1>3. PhaseOf("ended") = "over" /\ \A stage \in Stages : PhaseOf(stage) # "none"
  BY DEF PhaseOf, Stages
<1>4. submissions[s].stage \in Stages
  BY <1>1 DEF Submission
<1>5. /\ s \in 1..MaxSubmissions
      /\ Phases[s] # "none"
      /\ Phases' = [t \in 1..MaxSubmissions |-> IF t \in {s} THEN "over" ELSE Phases[t]]
      /\ Claims' = Claims
  <2> DEFINE e == Ended(submissions[s])
  <2>1. /\ e \in Submission /\ PhaseOf(e.stage) = "over"
        /\ e.name = submissions[s].name /\ e.picture = submissions[s].picture
    BY <1>1, <1>3, EndedIsSubmission
  <2> HIDE DEF e
  <2>2. submissions' = [submissions EXCEPT ![s] = e]
    BY <1>2 DEF e
  <2>3. /\ s \in 1..MaxSubmissions
        /\ Phases[s] = PhaseOf(submissions[s].stage)
        /\ Phases' = [Phases EXCEPT ![s] = "over"]
        /\ DOMAIN Phases = 1..MaxSubmissions
        /\ Claims' = Claims
    <3>1. DOMAIN Phases = 1..MaxSubmissions
      BY DEF Phases
    <3>2. QED
      BY <2>1, <2>2, <3>1, OneIsSeen
  <2>4. QED
    BY <1>3, <1>4, <2>3
<1>6. Once!End({s}) /\ {s} \in SUBSET (1..MaxSubmissions)
  BY <1>5 DEF Once!End
<1>7. QED
  BY <1>6 DEF Once!Next

LEMMA StoreIsSeen ==
    ASSUME Inv, Inv', Bounded, Bounded', NEW s \in 1..Len(submissions), StorePicture(s)
    PROVE  Once!Next
<1> DEFINE stage == IF submissions[s].alive THEN "stored" ELSE "ended"
           e == [submissions[s] EXCEPT !.stage = stage]
<1>1. submissions[s] \in Submission /\ DOMAIN submissions = 1..Len(submissions)
  BY Types DEF Inv
<1>2. stage \in Stages /\ PhaseOf(stage) \in {"stored", "over"} /\ PhaseOf("put") = "made"
  BY DEF Stages, PhaseOf
<1>3. /\ e \in Submission /\ e.stage = stage
      /\ e.name = submissions[s].name /\ e.picture = submissions[s].picture
  BY <1>1, <1>2, StageChanges
<1>4. /\ submissions' = [submissions EXCEPT ![s] = e]
      /\ submissions[s].stage = "put"
      /\ storage' = [storage EXCEPT ![submissions[s].name] = submissions[s].picture]
  BY <1>1 DEF StorePicture
<1> HIDE DEF e, stage
<1>5. /\ s \in 1..MaxSubmissions
      /\ Phases[s] = "made"
      /\ Phases' = [Phases EXCEPT ![s] = PhaseOf(stage)]
      /\ Claims' = Claims
      /\ Claims[s] = ClaimOf(submissions[s])
  BY <1>2, <1>3, <1>4, OneIsSeen
<1>6. \E c \in Claims[s] : storage' = [storage EXCEPT ![c.name] = c.picture]
  BY <1>4, <1>5 DEF ClaimOf
<1>7. Phases' \in {[Phases EXCEPT ![s] = next] : next \in {"stored", "over"}}
  BY <1>2, <1>5
<1>8. Once!Store(s)
  BY <1>5, <1>6, <1>7 DEF Once!Store
<1>9. QED
  BY <1>5, <1>8 DEF Once!Next

LEMMA SubmitIsSeen ==
    ASSUME Inv, Inv', Bounded, Bounded', SubmitButtonPressed
    PROVE  Once!Next
<1> DEFINE f == forms[Current]
           e == [ form |-> Current, name |-> f.listing.name,
                  picture |-> f.picture, stage |-> "put", alive |-> TRUE,
                  asked |-> {f.listing}, item |-> {} ]
           new == Len(submissions) + 1
           c == [name |-> f.listing.name, picture |-> f.picture]
<1>1. /\ submissions \in Seq(Submission) /\ submissions' \in Seq(Submission)
      /\ f \in Form /\ Len(submissions) \in Nat
  BY Types DEF Inv, TypeOK, SubmitButtonPressed
<1>2. submissions' = Append(submissions, e) /\ UNCHANGED <<token, screen, forms, storage>>
  BY DEF SubmitButtonPressed
<1>3. f.listing.name \in Names /\ f.picture \in Pictures
  BY <1>1 DEF Form, Listing, SubmitButtonPressed, Submittable
<1>4. c \in [name : Names, picture : Pictures]
  BY <1>3
<1>5. e.stage = "put" /\ ClaimOf(e) = {c} /\ PhaseOf("put") = "made"
  BY DEF ClaimOf, PhaseOf
<1> HIDE DEF e, c
<1>6. /\ Len(submissions') = new /\ submissions'[new] = e
      /\ \A s \in 1..Len(submissions) : submissions'[s] = submissions[s]
  BY <1>1, <1>2
<1>7. /\ new \in 1..Len(submissions') /\ new \notin 1..Len(submissions)
      /\ \A s : s \in 1..Len(submissions') <=> s = new \/ s \in 1..Len(submissions)
  BY <1>1, <1>6
<1>8. new \in 1..MaxSubmissions
  BY <1>7, Seen
<1>9. Phases[new] = "none" /\ Phases' = [Phases EXCEPT ![new] = "made"]
  <2>1. ASSUME NEW s \in 1..MaxSubmissions
        PROVE  Phase(s)' = IF s = new THEN "made" ELSE Phases[s]
    <3>1. CASE s = new
      <4>1. PhaseOf(submissions'[s].stage) = "made"
        BY <1>5, <1>6, <3>1
      <4>2. QED
        BY <1>7, <3>1, <4>1, Seen
    <3>2. CASE s # new /\ s \in 1..Len(submissions)
      <4>1. s \in 1..Len(submissions') /\ submissions'[s] = submissions[s]
        BY <1>6, <1>7, <3>2
      <4>2. QED
        BY <3>2, <4>1, Seen
    <3>3. CASE s # new /\ s \notin 1..Len(submissions)
      <4>1. s \notin 1..Len(submissions')
        BY <1>7, <3>3
      <4>2. QED
        BY <3>3, <4>1, Seen
    <3>4. QED
      BY <3>1, <3>2, <3>3
  <2>2. QED
    BY <1>7, <1>8, <2>1, Seen
<1>10. Claims' = [Claims EXCEPT ![new] = {c}]
  <2> DEFINE claimed(s) == IF s = new THEN {c} ELSE Claims[s]
  <2>1. Claims' = [s \in 1..MaxSubmissions |-> Claims'[s]]
    BY Seen
  <2>2. Claims = [s \in 1..MaxSubmissions |-> Claims[s]]
    BY Seen
  <2>3. ASSUME NEW s \in 1..MaxSubmissions
        PROVE  Claims'[s] = claimed(s)
    <3>1. CASE s = new
      <4>1. Claims'[s] = ClaimOf(submissions'[s])
        BY <1>7, <3>1, Seen
      <4>2. QED
        BY <1>5, <1>6, <3>1, <4>1
    <3>2. CASE s # new /\ s \in 1..Len(submissions)
      <4>1. s \in 1..Len(submissions') /\ submissions'[s] = submissions[s]
        BY <1>6, <1>7, <3>2
      <4>2. QED
        BY <3>2, <4>1, Seen
    <3>3. CASE s # new /\ s \notin 1..Len(submissions)
      <4>1. s \notin 1..Len(submissions')
        BY <1>7, <3>3
      <4>2. QED
        BY <3>3, <4>1, Seen
    <3>4. QED
      BY <3>1, <3>2, <3>3
  <2>4. QED
    BY <1>8, <2>1, <2>2, <2>3
<1>11. Once!Submit(new)
  BY <1>2, <1>4, <1>9, <1>10 DEF Once!Submit, Once!Claim
<1>12. QED
  BY <1>8, <1>11 DEF Once!Next

LEMMA RelaunchIsSeen ==
    ASSUME Inv, Inv', Bounded, Bounded', Relaunch
    PROVE  Once!Next
<1> DEFINE ended == {s \in 1..Len(submissions) : submissions[s].stage # "put"}
<1>1. /\ submissions \in Seq(Submission) /\ Len(submissions) \in Nat
      /\ DOMAIN submissions = 1..Len(submissions)
      /\ \A s \in 1..Len(submissions) : submissions[s] \in Submission
  BY Types DEF Inv
<1>2. Len(submissions') = Len(submissions) /\ storage' = storage
  <2>1. submissions' \in Seq(Submission) /\ storage' = storage
    BY DEF Inv, TypeOK, Relaunch
  <2>2. DOMAIN submissions' = 1..Len(submissions)
    BY <1>1 DEF Relaunch
  <2>3. submissions' \in [1..Len(submissions) -> Submission]
    BY <2>1, <2>2
  <2>4. QED
    BY <1>1, <2>1, <2>3, AllReplaced
<1>3. \A s \in 1..Len(submissions) :
         /\ submissions'[s].name = submissions[s].name
         /\ submissions'[s].picture = submissions[s].picture
         /\ submissions'[s].stage = IF s \in ended THEN "ended" ELSE submissions[s].stage
  <2> SUFFICES ASSUME NEW s \in 1..Len(submissions)
               PROVE  /\ submissions'[s].name = submissions[s].name
                      /\ submissions'[s].picture = submissions[s].picture
                      /\ submissions'[s].stage =
                            IF s \in ended THEN "ended" ELSE submissions[s].stage
    OBVIOUS
  <2>1. CASE s \in ended
    <3>1. submissions'[s] = Ended(submissions[s])
      BY <1>1, <2>1 DEF Relaunch
    <3>2. QED
      BY <1>1, <2>1, <3>1, EndedIsSubmission
  <2>2. CASE s \notin ended
    <3>1. submissions'[s] = [submissions[s] EXCEPT !.alive = FALSE, !.asked = {}]
      BY <1>1, <2>2 DEF Relaunch
    <3>2. QED
      BY <1>1, <2>2, <3>1 DEF Submission
  <2>3. QED
    BY <2>1, <2>2
<1>4. Claims' = Claims
  BY <1>2, <1>3, SameClaims
<1>5. PhaseOf("ended") = "over" /\ \A stage \in Stages : PhaseOf(stage) # "none"
  BY DEF PhaseOf, Stages
<1>6. ended \in SUBSET (1..MaxSubmissions)
  BY Seen
<1>7. \A s \in ended : Phases[s] # "none"
  BY <1>1, <1>5, <1>6, Seen DEF Submission
<1>8. Phases' = [s \in 1..MaxSubmissions |-> IF s \in ended THEN "over" ELSE Phases[s]]
  <2>1. \A s \in 1..MaxSubmissions : Phase(s)' = IF s \in ended THEN "over" ELSE Phases[s]
    BY <1>2, <1>3, <1>5, Seen
  <2>2. QED
    BY <2>1, Seen
<1>9. Once!End(ended)
  BY <1>2, <1>4, <1>7, <1>8 DEF Once!End
<1>10. QED
  BY <1>6, <1>9 DEF Once!Next

LEMMA UploadIsSeen ==
    ASSUME Inv, Inv', Bounded, Bounded', NEW s \in 1..Len(submissions), Upload(s)
    PROVE  [Once!Next]_(Once!vars)
<1>1. submissions[s] \in Submission /\ DOMAIN submissions = 1..Len(submissions)
  BY Types DEF Inv
<1>2. CASE StorePicture(s)
  BY <1>2, StoreIsSeen
<1>3. CASE PutDataAnswer(s)
  <2> DEFINE e == [submissions[s] EXCEPT !.stage = "url"]
  <2>1. /\ e \in Submission /\ e.stage = "url"
        /\ e.name = submissions[s].name /\ e.picture = submissions[s].picture
    BY <1>1, StageChanges DEF Stages
  <2>2. /\ submissions' = [submissions EXCEPT ![s] = e] /\ storage' = storage
        /\ submissions[s].stage = "stored"
    BY <1>1, <1>3 DEF PutDataAnswer, At
  <2> HIDE DEF e
  <2>3. PhaseOf("url") = "stored" /\ PhaseOf("stored") = "stored"
    BY DEF PhaseOf
  <2>4. /\ submissions \in Seq(Submission)
        /\ Len(submissions') = Len(submissions) /\ submissions'[s] = e
        /\ \A t \in 1..Len(submissions) : t # s => submissions'[t] = submissions[t]
    BY <2>1, <2>2, Types, OneReplaced DEF Inv
  <2>5. QED
    BY <2>1, <2>2, <2>3, <2>4, NotSeen
<1>4. CASE StorageError(s)
  BY <1>4, EndIsSeen DEF StorageError
<1>5. CASE DownloadURLCrash(s)
  BY <1>5 DEF DownloadURLCrash, Once!vars, Phases, Phase, Claims
<1>6. CASE DownloadURLAnswer(s)
  <2>1. CASE ~ token
    BY <1>6, <2>1, EndIsSeen DEF DownloadURLAnswer
  <2>2. CASE token
    <3> DEFINE e == [submissions[s] EXCEPT !.stage = "post", !.item = {BuiltListing(s)}]
    <3>1. BuiltListing(s) \in Listing
      BY Types DEF Inv
    <3>2. /\ e \in Submission /\ e.stage = "post"
          /\ e.name = submissions[s].name /\ e.picture = submissions[s].picture
      BY <1>1, <3>1 DEF Submission, Stages
    <3>3. /\ submissions' = [submissions EXCEPT ![s] = e] /\ storage' = storage
          /\ submissions[s].stage = "url"
      BY <1>1, <1>6, <2>2 DEF DownloadURLAnswer, At
    <3> HIDE DEF e
    <3>4. PhaseOf("url") = "stored" /\ PhaseOf("post") = "sent"
      BY DEF PhaseOf
    <3>5. /\ s \in 1..MaxSubmissions
          /\ Phases[s] = PhaseOf(submissions[s].stage)
          /\ Phases' = [Phases EXCEPT ![s] = "sent"]
          /\ Claims' = Claims
      <4>1. PhaseOf(e.stage) = "sent"
        BY <3>2, <3>4
      <4>2. QED
        BY <3>2, <3>3, <4>1, OneIsSeen
    <3>6. Once!Send(s)
      BY <3>3, <3>4, <3>5 DEF Once!Send
    <3>7. QED
      BY <3>5, <3>6 DEF Once!Next
  <2>3. QED
    BY <2>1, <2>2
<1>7. CASE RegisterAnswer(s)
  BY <1>7, EndIsSeen DEF RegisterAnswer
<1>8. QED
  BY <1>2, <1>3, <1>4, <1>5, <1>6, <1>7 DEF Upload

LEMMA EditIsNotSeen ==
    ASSUME Inv, Inv', Bounded, Bounded', EditForm
    PROVE  UNCHANGED Once!vars
<1>1. PICK f : Edit(f)
  BY DEF EditForm, PickImage, ChooseCategory, TypeName, TypeTag, TypePrice,
         CheckNego, CheckIncludeShippingFee, EditListing
<1>2. /\ submissions \in Seq(Submission) /\ Len(submissions) \in Nat
      /\ DOMAIN submissions = 1..Len(submissions)
      /\ \A s \in 1..Len(submissions) : submissions[s] \in Submission
  BY Types DEF Inv
<1>3. submissions' \in Seq(Submission) /\ storage' = storage
  BY <1>1 DEF Inv, TypeOK, Edit
<1>4. Len(submissions') = Len(submissions)
  <2>1. DOMAIN submissions' = 1..Len(submissions)
    BY <1>1, <1>2 DEF Edit
  <2>2. submissions' \in [1..Len(submissions) -> Submission]
    BY <1>3, <2>1
  <2>3. QED
    BY <1>2, <1>3, <2>2, AllReplaced
<1>5. ASSUME NEW s \in 1..Len(submissions)
      PROVE  /\ submissions'[s].name = submissions[s].name
             /\ submissions'[s].picture = submissions[s].picture
             /\ submissions'[s].stage = submissions[s].stage
  <2>1. \/ submissions'[s] = [submissions[s] EXCEPT !.asked = {}]
        \/ submissions'[s] = submissions[s]
    BY <1>1, <1>2 DEF Edit
  <2>2. QED
    BY <1>2, <2>1 DEF Submission
<1>6. QED
  BY <1>3, <1>4, <1>5, NotSeen

LEMMA StepIsSeen ==
    ASSUME Inv, Inv', Bounded, Bounded', [Next]_vars
    PROVE  [Once!Next]_(Once!vars)
<1>1. CASE EditForm
  BY <1>1, EditIsNotSeen
<1>2. CASE SubmitButtonPressed
  BY <1>2, SubmitIsSeen
<1>3. CASE \E s \in DOMAIN submissions : Upload(s)
  <2>1. DOMAIN submissions = 1..Len(submissions)
    BY Types DEF Inv
  <2>2. QED
    BY <1>3, <2>1, UploadIsSeen
<1>4. CASE Relaunch
  BY <1>4, RelaunchIsSeen
<1>5. CASE UNCHANGED <<submissions, storage>>
  BY <1>5 DEF Once!vars, Phases, Phase, Claims
<1>6. QED
  BY <1>1, <1>2, <1>3, <1>4, <1>5
     DEF Next, OpenRegister, BackButtonPressed, SignIn, SignOut, vars

LEMMA SameLength ==
    ASSUME Inv, Inv', DOMAIN submissions' = DOMAIN submissions
    PROVE  Len(submissions') = Len(submissions)
<1>1. /\ submissions' \in Seq(Submission) /\ Len(submissions) \in Nat
      /\ DOMAIN submissions = 1..Len(submissions)
  BY Types DEF Inv, TypeOK
<1>2. submissions' \in [1..Len(submissions) -> Submission]
  BY <1>1
<1>3. QED
  BY <1>1, <1>2, AllReplaced

LEMMA StepIsBounded ==
    ASSUME Inv, Inv', Bounded, [Next]_vars
    PROVE  Bounded'
<1>1. CASE SubmitButtonPressed
  <2>1. Len(submissions) \in Nat /\ submissions \in Seq(Submission)
    BY Types DEF Inv
  <2>2. MaxSubmissions \in Nat
    BY RegisterAssumption
  <2>3. Len(submissions') = Len(submissions) + 1
    BY <1>1, <2>1 DEF SubmitButtonPressed
  <2>4. Len(submissions) < MaxSubmissions
    BY <1>1 DEF SubmitButtonPressed
  <2>5. QED
    BY <2>1, <2>2, <2>3, <2>4 DEF Bounded
<1>2. CASE DOMAIN submissions' = DOMAIN submissions
  BY <1>2, SameLength DEF Bounded
<1>3. ASSUME NEW s \in DOMAIN submissions, Upload(s)
      PROVE  DOMAIN submissions' = DOMAIN submissions
  BY <1>3 DEF Upload, StorePicture, PutDataAnswer, StorageError, DownloadURLCrash,
              DownloadURLAnswer, RegisterAnswer
<1>4. EditForm => DOMAIN submissions' = DOMAIN submissions
  BY DEF EditForm, PickImage, ChooseCategory, TypeName, TypeTag, TypePrice,
         CheckNego, CheckIncludeShippingFee, EditListing, Edit
<1>5. Relaunch => DOMAIN submissions' = DOMAIN submissions
  BY DEF Relaunch
<1>6. QED
  BY <1>1, <1>2, <1>3, <1>4, <1>5
     DEF Next, OpenRegister, BackButtonPressed, SignIn, SignOut, vars

\* uploadImage, getUrlOfImage and registerItem post each submission at most once
\* and only after its picture is in the bucket, for any number of submissions
\* under way together: Register implements Registration.
THEOREM PostsOnce == Spec => PostedOnce
<1>1. Init => Once!Init
  <2> SUFFICES ASSUME Init
               PROVE  Once!Init
    OBVIOUS
  <2>1. DOMAIN submissions = {} /\ storage = [n \in Names |-> "none"]
    BY DEF Init
  <2>2. \A s \in 1..MaxSubmissions : Phase(s) = "none"
    BY <2>1 DEF Phase
  <2>3. Phases = [s \in 1..MaxSubmissions |-> "none"]
    BY <2>2 DEF Phases
  <2>4. Claims = [s \in 1..MaxSubmissions |-> {}]
    BY <2>1 DEF Claims
  <2>5. QED
    BY <2>1, <2>3, <2>4 DEF Once!Init
<1>2. Init => Bounded
  <2>1. Init => Len(submissions) = 0
    BY DEF Init
  <2>2. MaxSubmissions \in Nat
    BY RegisterAssumption
  <2>3. QED
    BY <2>1, <2>2 DEF Bounded
<1>3. Inv /\ Inv' /\ Bounded /\ [Next]_vars => Bounded'
  BY StepIsBounded
<1>4. Inv /\ Inv' /\ Bounded /\ Bounded' /\ [Next]_vars => [Once!Next]_(Once!vars)
  BY StepIsSeen
<1>5. QED
  BY <1>1, <1>2, <1>3, <1>4, InvHolds, PTL DEF Spec, PostedOnce, Once!Spec
=============================================================================
