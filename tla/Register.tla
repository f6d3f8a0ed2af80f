------------------------------ MODULE Register ------------------------------
(***************************************************************************)
(* Registering an item for sale: the form, the upload of its picture, the  *)
(* lookup of the picture's URL and the post of the item.                   *)
(*                                                                         *)
(* submitButtonPressed checks the form, but the item is built from the     *)
(* fields as they are when the URL is known, two answers later; meanwhile  *)
(* nothing covers the form, so it can be edited, submitted again or left,  *)
(* and the session can change.  The closures keep a form alive that is no  *)
(* longer on screen.                                                       *)
(***************************************************************************)
EXTENDS Naturals, Sequences, FiniteSets

CONSTANTS
    Pictures,        \* the pictures in the album
    Names,           \* what may be typed as the name of the item
    DefaultName,     \* the name the storyboard fills in
    MaxForms,        \* bound: forms opened
    MaxSubmissions   \* bound: submissions that pass the checks

ASSUME RegisterAssumption ==
    /\ "none" \notin Pictures
    /\ "" \notin Names
    /\ DefaultName \in Names
    /\ MaxForms \in Nat
    /\ MaxSubmissions \in Nat

VARIABLES
    token,        \* is there a jwtToken in the keychain?
    screen,       \* the newest form, something else, or nothing after a crash
    forms,        \* every form opened since the start, the newest last
    submissions,  \* every submission that passed the checks, in that order
    storage       \* the bucket: the picture stored under a name

vars == <<token, screen, forms, submissions, storage>>

-----------------------------------------------------------------------------
\* What the price field may hold: the storyboard's number, nothing, or words,
\* for its keyboard is the default one.
PriceTexts == {"10000", "", "words"}

\* Int(text) is not nil.
Numbers == {"10000"}

\* The members of RegisterdItem that come from the fields of the form.
Listing ==
    [ name : Names \cup {""}, category : {"none", "chosen"}, price : PriceTexts,
      tag : {"tag", ""}, nego : BOOLEAN, shipping : BOOLEAN ]

\* A form: a listing, the picture chosen, and whether the price can be edited.
Form == [listing : Listing, picture : Pictures \cup {"none"}, enabled : BOOLEAN]

BlankForm ==
    [ listing |-> [ name |-> DefaultName, category |-> "none",
                    price |-> "10000", tag |-> "tag",
                    nego |-> FALSE, shipping |-> FALSE ],
      picture |-> "none",
      enabled |-> TRUE ]

\* "put": the picture is on its way to the bucket; "stored": it is there, its
\* answer is on its way; "url": the URL is asked for; "post": the item is sent.
Stages == {"put", "stored", "url", "post", "ended"}

\* asked holds what was submitted until the form is edited; item what is sent.
Submission ==
    [ form : 1..MaxForms, name : Names, picture : Pictures, stage : Stages,
      alive : BOOLEAN, asked : SUBSET Listing, item : SUBSET Listing ]

Current == Len(forms)

OnForm == screen = "form"

\* The callbacks of a submission run only in the process that made it.
At(s, stage) ==
    /\ submissions[s].stage = stage
    /\ submissions[s].alive
    /\ screen # "crashed"

Ended(submission) ==
    [submission EXCEPT !.stage = "ended", !.asked = {}, !.item = {}]

\* The current form becomes f; an edit is noted in what is still to be sent.
Edit(f) ==
    /\ OnForm
    /\ f # forms[Current]
    /\ forms' = [forms EXCEPT ![Current] = f]
    /\ submissions' =
           [ s \in DOMAIN submissions |->
               IF /\ submissions[s].form = Current
                  /\ submissions[s].stage # "post"
                  /\ f.listing # forms[Current].listing
               THEN [submissions[s] EXCEPT !.asked = {}]
               ELSE submissions[s] ]
    /\ UNCHANGED <<token, screen, storage>>

EditListing(listing) == Edit([forms[Current] EXCEPT !.listing = listing])

-----------------------------------------------------------------------------
Init ==
    /\ token \in BOOLEAN
    /\ screen = "elsewhere"
    /\ forms = <<>>
    /\ submissions = <<>>
    /\ storage = [n \in Names |-> "none"]

\* The register tab of a new tab bar; without a token it only goes to the login.
OpenRegister ==
    /\ screen = "elsewhere"
    /\ token
    /\ Current < MaxForms
    /\ forms' = Append(forms, BlankForm)
    /\ screen' = "form"
    /\ UNCHANGED <<token, submissions, storage>>

\* goToMain replaces the tab bar the form is in.
BackButtonPressed ==
    /\ OnForm
    /\ screen' = "elsewhere"
    /\ UNCHANGED <<token, forms, submissions, storage>>

PickImage(picture) == Edit([forms[Current] EXCEPT !.picture = picture])

\* The last of the three pickers hands over its whole path at once.
ChooseCategory == EditListing([forms[Current].listing EXCEPT !.category = "chosen"])

TypeName(name) == EditListing([forms[Current].listing EXCEPT !.name = name])

TypeTag(tag) == EditListing([forms[Current].listing EXCEPT !.tag = tag])

\* Variant for the runs: the field takes text while it is disabled.
TypePriceAnyway(text) == EditListing([forms[Current].listing EXCEPT !.price = text])

TypePrice(text) ==
    /\ OnForm
    /\ forms[Current].enabled
    /\ EditListing([forms[Current].listing EXCEPT !.price = text])

\* priceTextFieldEnable: a field that is disabled is emptied first.
PriceTextFieldEnable(f, bool) ==
    [f EXCEPT !.enabled = bool, !.listing.price = IF bool THEN @ ELSE ""]

\* Variant for the runs: the other box keeps its mark.
CheckNegoOnly ==
    LET f == forms[Current]
    IN  Edit(PriceTextFieldEnable([f EXCEPT !.listing.nego = ~ @], f.listing.nego))

CheckNego ==
    LET f == forms[Current]
        nego == ~ f.listing.nego
    IN  Edit(PriceTextFieldEnable(
                [f EXCEPT !.listing.nego = nego,
                          !.listing.shipping = IF nego THEN FALSE ELSE @], nego = FALSE))

CheckIncludeShippingFee ==
    LET f == forms[Current]
        shipping == ~ f.listing.shipping
        toggled == [f EXCEPT !.listing.shipping = shipping]
    IN  Edit(IF shipping /\ f.listing.nego
             THEN PriceTextFieldEnable([toggled EXCEPT !.listing.nego = FALSE], TRUE)
             ELSE toggled)

\* Variant for the runs: the check of the name is left out.
SubmittableWithoutName(f) ==
    /\ f.picture # "none"
    /\ f.listing.category # "none"
    /\ f.listing.price # ""
    /\ f.listing.tag # ""

\* The checks of submitButtonPressed, each with an alert of its own.
Submittable(f) ==
    /\ f.picture # "none"
    /\ f.listing.name # ""
    /\ f.listing.category # "none"
    /\ f.listing.price # ""
    /\ f.listing.tag # ""

\* uploadImage is called with the picture and the name of this moment.
SubmitButtonPressed ==
    LET f == forms[Current]
    IN  /\ OnForm
        /\ Submittable(f)
        /\ Len(submissions) < MaxSubmissions
        /\ submissions' =
               Append(submissions,
                      [ form |-> Current, name |-> f.listing.name,
                        picture |-> f.picture, stage |-> "put", alive |-> TRUE,
                        asked |-> {f.listing}, item |-> {} ])
        /\ UNCHANGED <<token, screen, forms, storage>>

-----------------------------------------------------------------------------
\* Variant for the runs: the picture on the form by now is uploaded.
StorePictureOfForm(s) ==
    /\ submissions[s].stage = "put"
    /\ storage' = [storage EXCEPT ![submissions[s].name] =
                      forms[submissions[s].form].picture]
    /\ submissions' =
           [submissions EXCEPT ![s].stage = IF submissions[s].alive THEN "stored" ELSE "ended"]
    /\ UNCHANGED <<token, screen, forms>>

\* The bucket takes the picture, in place of any other of that name; it does
\* so even when the app is gone.
StorePicture(s) ==
    /\ submissions[s].stage = "put"
    /\ storage' = [storage EXCEPT ![submissions[s].name] = submissions[s].picture]
    /\ submissions' =
           [submissions EXCEPT ![s].stage = IF submissions[s].alive THEN "stored" ELSE "ended"]
    /\ UNCHANGED <<token, screen, forms>>

\* Variant for the runs: the URL is asked for while the picture is uploaded.
PutDataAnsweredEarly(s) ==
    /\ At(s, "put") \/ At(s, "stored")
    /\ submissions' = [submissions EXCEPT ![s].stage = "url"]
    /\ UNCHANGED <<token, screen, forms, storage>>

PutDataAnswer(s) ==
    /\ At(s, "stored")
    /\ submissions' = [submissions EXCEPT ![s].stage = "url"]
    /\ UNCHANGED <<token, screen, forms, storage>>

\* An error of the upload or of the lookup is only printed; the bucket may have
\* the picture or not.
StorageError(s) ==
    /\ At(s, "put") \/ At(s, "stored") \/ At(s, "url")
    /\ submissions' = [submissions EXCEPT ![s] = Ended(@)]
    /\ UNCHANGED <<token, screen, forms, storage>>

\* Variant for the runs: the item is built from the form in front of the user.
BuiltFromTheCurrentForm(s) == forms[Current].listing

\* The fields of the form that submitted, as they are now.
BuiltListing(s) == forms[submissions[s].form].listing

\* Int(priceTextField.text!)! ends the process when the text is no number.
DownloadURLCrash(s) ==
    /\ At(s, "url")
    /\ BuiltListing(s).price \notin Numbers
    /\ screen' = "crashed"
    /\ UNCHANGED <<token, forms, submissions, storage>>

\* Variant for the runs: a price that is no number is sent as it is.
DownloadURLAnswerUnchecked(s) ==
    /\ At(s, "url")
    /\ token
    /\ submissions' =
           [submissions EXCEPT ![s].stage = "post", ![s].item = {BuiltListing(s)}]
    /\ UNCHANGED <<token, screen, forms, storage>>

\* registerItem sends the item with the token of this moment, if there is one.
DownloadURLAnswer(s) ==
    /\ At(s, "url")
    /\ BuiltListing(s).price \in Numbers
    /\ submissions' =
           IF token
           THEN [submissions EXCEPT ![s].stage = "post", ![s].item = {BuiltListing(s)}]
           ELSE [submissions EXCEPT ![s] = Ended(@)]
    /\ UNCHANGED <<token, screen, forms, storage>>

\* Variant for the runs: the answer is heard only while the form is on screen.
RegisterAnswerOnForm(s) ==
    /\ At(s, "post")
    /\ OnForm
    /\ screen' \in {screen, "elsewhere"}
    /\ submissions' = [submissions EXCEPT ![s] = Ended(@)]
    /\ UNCHANGED <<token, forms, storage>>

\* Success goes to the main screen from wherever the user is by now; a failure
\* shows an alert or is printed.
RegisterAnswer(s) ==
    /\ At(s, "post")
    /\ screen' \in {screen, "elsewhere"}
    /\ submissions' = [submissions EXCEPT ![s] = Ended(@)]
    /\ UNCHANGED <<token, forms, storage>>

-----------------------------------------------------------------------------
\* Every change of the session goes to the login or to the main screen.
SignIn ==
    /\ screen # "crashed"
    /\ token' = TRUE
    /\ screen' = "elsewhere"
    /\ UNCHANGED <<forms, submissions, storage>>

SignOut ==
    /\ screen # "crashed"
    /\ token' = FALSE
    /\ screen' = "elsewhere"
    /\ UNCHANGED <<forms, submissions, storage>>

\* The process ends, by a crash or by iOS, and the app is opened again.
Relaunch ==
    /\ screen' = "elsewhere"
    /\ submissions' =
           [ s \in DOMAIN submissions |->
               IF submissions[s].stage = "put"
               THEN [submissions[s] EXCEPT !.alive = FALSE, !.asked = {}]
               ELSE Ended(submissions[s]) ]
    /\ UNCHANGED <<token, forms, storage>>

EditForm ==
    \/ \E picture \in Pictures : PickImage(picture)
    \/ ChooseCategory
    \/ \E name \in Names \cup {""} : TypeName(name)
    \/ \E tag \in {"tag", ""} : TypeTag(tag)
    \/ \E text \in PriceTexts : TypePrice(text)
    \/ CheckNego
    \/ CheckIncludeShippingFee

Upload(s) ==
    \/ StorePicture(s)
    \/ PutDataAnswer(s)
    \/ StorageError(s)
    \/ DownloadURLCrash(s)
    \/ DownloadURLAnswer(s)
    \/ RegisterAnswer(s)

Next ==
    \/ OpenRegister
    \/ BackButtonPressed
    \/ EditForm
    \/ SubmitButtonPressed
    \/ \E s \in DOMAIN submissions : Upload(s)
    \/ SignIn
    \/ SignOut
    \/ Relaunch

Spec == Init /\ [][Next]_vars

\* The bucket and the server answer in the end.
FairSpec ==
    /\ Spec
    /\ \A s \in 1..MaxSubmissions :
           WF_vars(s \in DOMAIN submissions /\ Upload(s))

-----------------------------------------------------------------------------
TypeOK ==
    /\ token \in BOOLEAN
    /\ screen \in {"elsewhere", "form", "crashed"}
    /\ forms \in Seq(Form)
    /\ Len(forms) <= MaxForms
    /\ screen = "form" => forms # <<>>
    /\ submissions \in Seq(Submission)
    /\ \A s \in DOMAIN submissions : submissions[s].form <= Len(forms)
    /\ storage \in [Names -> Pictures \cup {"none"}]

\* The two check boxes of checkNego and checkIncludeShippingFee exclude each
\* other in every order of taps, and the price is empty and locked exactly
\* while the item is up for negotiation.
NegoFormHasNoPrice ==
    \A n \in DOMAIN forms :
        LET l == forms[n].listing
        IN  /\ ~ (l.nego /\ l.shipping)
            /\ l.nego => l.price = ""
            /\ forms[n].enabled = ~ l.nego

\* What registerItem sends has its categories and a price, whatever was edited
\* while the picture was uploaded; so changePrice is never sent as true.
SentItemsArePriced ==
    \A s \in DOMAIN submissions : \A item \in submissions[s].item :
        /\ item.category = "chosen"
        /\ item.price \in Numbers
        /\ ~ item.nego

\* The name that productImage points to holds a picture when getUrlOfImage asks
\* for it and when the item is sent: one submitted under that name, so the
\* item's own one unless two submissions share a name.
PictureIsStored ==
    \A s \in DOMAIN submissions :
        submissions[s].alive /\ submissions[s].stage \in {"url", "post"} =>
            \E r \in DOMAIN submissions :
                /\ submissions[r].name = submissions[s].name
                /\ storage[submissions[s].name] = submissions[r].picture

\* The closures of uploadImage and getUrlOfImage belong to one form: unless that
\* form was edited after the submission, what is sent is what was submitted,
\* whatever form is on screen by then.
SentAsSubmitted ==
    \A s \in DOMAIN submissions : \A item \in submissions[s].item :
        submissions[s].asked \subseteq {item}

\* A callback of the submission is still to come.
UnderWay(s) ==
    /\ s \in DOMAIN submissions
    /\ submissions[s].alive
    /\ submissions[s].stage # "ended"
    /\ screen # "crashed"

\* A submission comes to an end: no chain of putData, downloadURL and the post
\* goes on forever, and none stops half way in a process that runs on.
SubmissionsEnd == \A s \in 1..MaxSubmissions : UnderWay(s) ~> ~ UnderWay(s)

\* How far a submission has come, for the bucket and the server.
Phase(s) ==
    IF s \notin DOMAIN submissions THEN "none"
    ELSE LET stage == submissions[s].stage
         IN  CASE stage = "put"                -> "made"
               [] stage \in {"stored", "url"}  -> "stored"
               [] stage = "post"               -> "sent"
               [] stage = "ended"              -> "over"

Phases == [s \in 1..MaxSubmissions |-> Phase(s)]

\* What each submission was made with.
Claims ==
    [ s \in 1..MaxSubmissions |->
        IF s \in DOMAIN submissions
        THEN {[name |-> submissions[s].name, picture |-> submissions[s].picture]}
        ELSE {} ]

Once == INSTANCE Registration
            WITH Submissions <- 1..MaxSubmissions,
                 phase <- Phases, claim <- Claims, bucket <- storage

\* One submission never posts its item twice, nor before its own picture was in
\* the bucket, whatever is lost, late or repeated: uploadImage, getUrlOfImage and
\* registerItem follow each other once (to try again is a submission of its own).
PostedOnce == Once!Spec

\* "Int(self.priceTextField.text!)!" in getUrlOfImage takes it that the price
\* is a number by the time the URL is known.
PriceUnwraps == screen # "crashed"
=============================================================================
