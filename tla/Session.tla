------------------------------- MODULE Session -------------------------------
(***************************************************************************)
(* The session of the app: the token in the keychain, the screen in front  *)
(* of the user, the one spinner all screens share, and the requests in     *)
(* flight whose answers change any of the three.                           *)
(*                                                                         *)
(* Everything runs on the main thread, so an action is one callback: a tap *)
(* or an answer.  Answers arrive in any order, long after the screen that  *)
(* asked is gone; a view controller that is no longer on screen still      *)
(* replaces the root of the window, because changeRootViewController takes *)
(* the first window of the application and not its own.                    *)
(***************************************************************************)
EXTENDS Naturals, Sequences, SequencesExt, FiniteSetsExt

CONSTANTS
    MaxInFlight,   \* taps stop sending when this many answers are awaited
    SilentCodes,   \* may the server answer with a code that is only printed?
    Reinstalls     \* may the app be deleted and installed again?

ASSUME SessionAssumption ==
    /\ MaxInFlight \in Nat
    /\ SilentCodes \in BOOLEAN
    /\ Reinstalls \in BOOLEAN

VARIABLES
    token,      \* is there a jwtToken in the keychain?
    kakaoToken, \* is there a Kakao token in the user defaults?
    root,       \* what the window shows: nothing, the login screen or a tab
    above,      \* the screens pushed or presented over the root, oldest first
    loaded,     \* the tabs of this window whose viewDidLoad has run
    indicator,  \* the shared spinner: hidden, covering all, or covered itself
    pending     \* how many requests of each kind await their answer

vars == <<token, kakaoToken, root, above, loaded, indicator, pending>>

-----------------------------------------------------------------------------
Tabs == {"home", "following", "register", "talk", "myShop"}

\* Variant for the runs: the guard of the shop tab is forgotten.
GuardedButMyShop == Tabs \ {"home", "myShop"}

\* The tabs whose viewDidLoad sends a visitor without a token to the login.
Guarded == Tabs \ {"home"}

\* "blank" is the launch, before makeKeyAndVisible; "crashed" a failed unwrap.
Roots == Tabs \cup {"stopped", "crashed", "blank", "login"}

\* One kind for the requests whose answers do the same to the session: "list"
\* for those whose handled answers all dismiss the spinner (home, products,
\* categories, recommendations), "lookup" for those that dismiss it only by
\* the alert of a failure (item details, the names of sub categories).
Kinds == {"autologin", "kakaoTalk", "kakaoAccount", "login", "logout",
          "list", "lookup", "upload", "register"}

\* A screen that opens over another one: where it opens from, whether it needs
\* the token, whether its viewDidLoad shows the spinner, and what it requests.
Page(from, auth, spins, sends) ==
    [from |-> from, auth |-> auth, spins |-> spins, sends |-> sends]

AllCategories == Page({"home"}, FALSE, TRUE, {"list"})

SubCategory == Page({"home", "allCategories"}, TRUE, TRUE, {"list", "lookup"})

SecondSub == Page({"subCategory"}, TRUE, TRUE, {"list", "lookup"})

Detail == Page({"home"}, TRUE, FALSE, {"lookup"})

RegisterCategory == Page({"register"}, FALSE, TRUE, {"list"})

RegisterSub == Page({"registerCategory"}, TRUE, TRUE, {"list"})

RegisterThird == Page({"registerSub"}, TRUE, TRUE, {"list"})

Settings == Page({"myShop"}, FALSE, FALSE, {})

LogoutDialog == Page({"settings"}, FALSE, FALSE, {})

GoOutDialog == Page({"login"}, FALSE, FALSE, {})

Pages ==
    [ allCategories |-> AllCategories, subCategory |-> SubCategory, secondSub |-> SecondSub,
      detail |-> Detail, registerCategory |-> RegisterCategory, registerSub |-> RegisterSub,
      registerThird |-> RegisterThird, settings |-> Settings, logoutDialog |-> LogoutDialog,
      goOutDialog |-> GoOutDialog ]

PageNames == DOMAIN Pages

Top == IF above = <<>> THEN root ELSE above[Len(above)]

InMain == root \in Tabs

\* The spinner's container fills the first window and takes every touch.
CanTouch == indicator # "covering"

-----------------------------------------------------------------------------
\* What a request may be answered: success, a failure of the connection or of
\* the decoding, a code with a handler of its own, or one that is only printed.
Outcomes(kind) ==
    {"success", "failure"}
        \cup (IF kind \in {"autologin", "list"} THEN {"coded"} ELSE {})
        \cup (IF SilentCodes THEN {"silent"} ELSE {})

InFlight == MapThenSumSet(LAMBDA k : pending[k], Kinds)

CanSend(n) == InFlight + n <= MaxInFlight

\* Variant for the runs: an answer may be delivered once more.
AwaitedOrRepeated(kind) == kind \in Kinds

Awaited(kind) == pending[kind] > 0

\* pending after the answer to a request of a kind, and after sending more.
Answered(kind) == [pending EXCEPT ![kind] = @ - 1]

Sent(p, kinds) == [k \in Kinds |-> p[k] + (IF k \in kinds THEN 1 ELSE 0)]

ShowIndicator == indicator' = "covering"

DismissIndicator == indicator' = "hidden"

\* The spinner outlives the root it was shown over; UIKit decides whether the
\* view of the new root lands over it or under it.
CarryIndicator(shown) ==
    indicator' \in IF shown THEN {"covering", "covered"} ELSE {"hidden"}

Shown == indicator # "hidden"

\* Variant for the runs: the tab bar of before is brought back as it was.
GoToMainKeepingTabs(p) ==
    /\ root' = "home"
    /\ above' = <<>>
    /\ loaded' = loaded \cup {"home"}
    /\ CarryIndicator(TRUE)
    /\ pending' = Sent(p, {"list"})

\* A new tab bar controller: the home tab loads, appears, shows the spinner and
\* asks for its first page.
GoToMain(p) ==
    /\ root' = "home"
    /\ above' = <<>>
    /\ loaded' = {"home"}
    /\ CarryIndicator(TRUE)
    /\ pending' = Sent(p, {"list"})

GoToLogin(p, shown) ==
    /\ root' = "login"
    /\ above' = <<>>
    /\ loaded' = {}
    /\ CarryIndicator(shown)
    /\ pending' = p

\* The result of a keychain write is ignored: adding may fail, after the old
\* item was deleted or not, and so may deleting.
SetToken == token' \in BOOLEAN

DeleteToken == token' \in {FALSE, token}

-----------------------------------------------------------------------------
\* Variant for the runs: the login is shown until the answer arrives.
LaunchIntoLogin ==
    /\ root \in {"stopped", "crashed"}
    /\ root' = "login"
    /\ above' = <<>>
    /\ loaded' = {}
    /\ indicator' = "hidden"
    /\ pending' = [k \in Kinds |-> IF k = "autologin" THEN 1 ELSE 0]
    /\ UNCHANGED <<token, kakaoToken>>

\* The process starts: the scene connects, the window stays invisible until
\* the automatic login is answered.
Launch ==
    /\ root \in {"stopped", "crashed"}
    /\ root' = "blank"
    /\ above' = <<>>
    /\ loaded' = {}
    /\ indicator' = "hidden"
    /\ pending' = [k \in Kinds |-> IF k = "autologin" THEN 1 ELSE 0]
    /\ UNCHANGED <<token, kakaoToken>>

\* The user or the system ends the process: only what is stored survives.
Kill ==
    /\ root \notin {"stopped", "crashed"}
    /\ root' = "stopped"
    /\ above' = <<>>
    /\ loaded' = {}
    /\ indicator' = "hidden"
    /\ pending' = [k \in Kinds |-> 0]
    /\ UNCHANGED <<token, kakaoToken>>

\* Deleting the app clears the user defaults and not the keychain.
Reinstall ==
    /\ Reinstalls
    /\ root = "stopped"
    /\ kakaoToken' = FALSE
    /\ UNCHANGED <<token, root, above, loaded, indicator, pending>>

\* Variant for the runs: a failure is only printed.
AutoLoginAnswerPrinting ==
    /\ Awaited("autologin")
    /\ \E o \in Outcomes("autologin") :
          LET left == Answered("autologin") IN
          \/ o = "success" /\ GoToMain(left)
          \/ o = "coded" /\ GoToLogin(left, Shown)
          \/ /\ o \in {"failure", "silent"}
             /\ pending' = left
             /\ UNCHANGED <<root, above, loaded, indicator>>
    /\ UNCHANGED <<token, kakaoToken>>

\* The answer to the automatic login.  Codes 2000 and 3000 keep the token.
AutoLoginAnswer ==
    /\ Awaited("autologin")
    /\ \E o \in Outcomes("autologin") :
          LET left == Answered("autologin") IN
          \/ /\ o = "success"
             /\ GoToMain(left)
             /\ UNCHANGED token
          \/ /\ o = "coded"
             /\ GoToLogin(left, Shown)
             /\ UNCHANGED token
          \/ /\ o = "failure"
             /\ GoToLogin(left, Shown)
             /\ DeleteToken
          \/ /\ o = "silent"
             /\ pending' = left
             /\ UNCHANGED <<token, root, above, loaded, indicator>>
    /\ UNCHANGED kakaoToken

-----------------------------------------------------------------------------
TapKakaoLogin ==
    /\ Top = "login"
    /\ CanTouch
    /\ CanSend(1)
    /\ pending' = Sent(pending, {"kakaoTalk"})
    /\ UNCHANGED <<token, kakaoToken, root, above, loaded, indicator>>

\* Kakao's SDK stores its token before it calls back; the callback shows the
\* spinner over whatever is in front by now and asks the server for a token.
KakaoSuccess(kind) ==
    /\ kakaoToken' = TRUE
    /\ ShowIndicator
    /\ pending' = Sent(Answered(kind), {"login"})

\* KakaoTalk failed: the browser is tried.  It fails: nothing happens.
KakaoTalkAnswer ==
    /\ Awaited("kakaoTalk")
    /\ \/ KakaoSuccess("kakaoTalk")
       \/ /\ pending' = Sent(Answered("kakaoTalk"), {"kakaoAccount"})
          /\ UNCHANGED <<kakaoToken, indicator>>
    /\ UNCHANGED <<token, root, above, loaded>>

KakaoAccountAnswer ==
    /\ Awaited("kakaoAccount")
    /\ \/ KakaoSuccess("kakaoAccount")
       \/ /\ pending' = Answered("kakaoAccount")
          /\ UNCHANGED <<kakaoToken, indicator>>
    /\ UNCHANGED <<token, root, above, loaded>>

\* Variant for the runs: the alert leaves the spinner alone.
StayingAnswerSpinning(kind, o) ==
    /\ pending' = Answered(kind)
    /\ o \in {"failure", "silent"}
    /\ UNCHANGED <<token, root, above, loaded, indicator>>

\* A request answered without leaving the screen: the alert of a failure
\* dismisses the spinner, a code without a handler is only printed.
StayingAnswer(kind, o) ==
    /\ pending' = Answered(kind)
    /\ \/ /\ o = "failure"
          /\ DismissIndicator
       \/ /\ o = "silent"
          /\ UNCHANGED indicator
    /\ UNCHANGED <<token, root, above, loaded>>

LoginAnswer ==
    /\ Awaited("login")
    /\ \E o \in Outcomes("login") :
          \/ /\ o = "success"
             /\ SetToken
             /\ GoToMain(Answered("login"))
          \/ StayingAnswer("login", o)
    /\ UNCHANGED kakaoToken

\* The dialog over the login screen: entering without an account.
GoOut ==
    /\ Top = "goOutDialog"
    /\ CanTouch
    /\ CanSend(1)
    /\ GoToMain(pending)
    /\ UNCHANGED <<token, kakaoToken>>

-----------------------------------------------------------------------------
\* The tab bar is visible over a tab without pushed screens, except over the
\* register tab.  The guard of a tab runs once, when its view loads.
SelectTab(tab) ==
    /\ InMain /\ above = <<>>
    /\ root \notin {"register", tab}
    /\ CanTouch
    /\ CanSend(1)
    /\ IF tab \in Guarded \ loaded /\ ~token
         THEN GoToLogin(pending, Shown)
         ELSE /\ root' = tab
              /\ loaded' = loaded \cup {tab}
              /\ UNCHANGED above
              /\ IF tab = "home"
                   THEN ShowIndicator /\ pending' = Sent(pending, {"list"})
                   ELSE UNCHANGED <<indicator, pending>>
    /\ UNCHANGED <<token, kakaoToken>>

\* Variant for the runs: the request goes out whether there is a token or not.
AuthorisedUnchecked(auth, spins, sends, opened) ==
    /\ above' = opened
    /\ pending' = Sent(pending, sends)
    /\ IF spins THEN ShowIndicator ELSE UNCHANGED indicator
    /\ UNCHANGED <<root, loaded>>

\* A request with the token in its header: without one the user is sent to the
\* login, with the spinner the screen had already shown still in the window.
Authorised(auth, spins, sends, opened) ==
    IF auth /\ ~token
      THEN GoToLogin(pending, spins \/ Shown)
      ELSE /\ above' = opened
           /\ pending' = Sent(pending, sends)
           /\ IF spins THEN ShowIndicator ELSE UNCHANGED indicator
           /\ UNCHANGED <<root, loaded>>

OpenPage(page) ==
    LET p == Pages[page] IN
    /\ Top \in p.from
    /\ CanTouch
    /\ CanSend(Cardinality(p.sends))
    /\ Authorised(p.auth, p.spins, p.sends, Append(above, page))
    /\ UNCHANGED <<token, kakaoToken>>

\* The recommendations are the third segment of the following tab.
OpenRecommend ==
    /\ Top = "following"
    /\ CanTouch
    /\ CanSend(1)
    /\ Authorised(TRUE, TRUE, {"list"}, above)
    /\ UNCHANGED <<token, kakaoToken>>

\* Closing a screen.  The home tab that reappears asks for its page again.
Back ==
    /\ above # <<>>
    /\ CanTouch
    /\ CanSend(1)
    /\ above' = Front(above)
    /\ IF root = "home" /\ Len(above) = 1
         THEN ShowIndicator /\ pending' = Sent(pending, {"list"})
         ELSE UNCHANGED <<indicator, pending>>
    /\ UNCHANGED <<token, kakaoToken, root, loaded>>

\* Choosing the third category pops all three pickers.
PickCategory ==
    /\ Top = "registerThird"
    /\ CanTouch
    /\ above' = <<>>
    /\ UNCHANGED <<token, kakaoToken, root, loaded, indicator, pending>>

\* Leaving the register tab builds the whole tab bar anew.
LeaveRegister ==
    /\ Top = "register"
    /\ CanTouch
    /\ CanSend(1)
    /\ GoToMain(pending)
    /\ UNCHANGED <<token, kakaoToken>>

-----------------------------------------------------------------------------
\* Variant for the runs: only a success dismisses the spinner.
ListAnswerOnlySuccess ==
    /\ Awaited("list")
    /\ \E o \in Outcomes("list") :
          IF o = "success" THEN DismissIndicator ELSE UNCHANGED indicator
    /\ pending' = Answered("list")
    /\ UNCHANGED <<token, kakaoToken, root, above, loaded>>

ListAnswer ==
    /\ Awaited("list")
    /\ \E o \in Outcomes("list") :
          IF o = "silent" THEN UNCHANGED indicator ELSE DismissIndicator
    /\ pending' = Answered("list")
    /\ UNCHANGED <<token, kakaoToken, root, above, loaded>>

LookupAnswer ==
    /\ Awaited("lookup")
    /\ \E o \in Outcomes("lookup") :
          IF o = "failure" THEN DismissIndicator ELSE UNCHANGED indicator
    /\ pending' = Answered("lookup")
    /\ UNCHANGED <<token, kakaoToken, root, above, loaded>>

Submit ==
    /\ Top = "register"
    /\ CanTouch
    /\ CanSend(1)
    /\ pending' = Sent(pending, {"upload"})
    /\ UNCHANGED <<token, kakaoToken, root, above, loaded, indicator>>

\* The picture is stored: the item is posted with the token of this moment; a
\* keychain without one (or locked with the device) only prints.
UploadAnswer ==
    /\ Awaited("upload")
    /\ pending' \in {Answered("upload")}
                      \cup (IF token THEN {Sent(Answered("upload"), {"register"})} ELSE {})
    /\ UNCHANGED <<token, kakaoToken, root, above, loaded, indicator>>

RegisterAnswer ==
    /\ Awaited("register")
    /\ \E o \in Outcomes("register") :
          \/ /\ o = "success"
             /\ GoToMain(Answered("register"))
             /\ UNCHANGED token
          \/ StayingAnswer("register", o)
    /\ UNCHANGED kakaoToken

-----------------------------------------------------------------------------
\* The spinner comes first; without a Kakao token nothing follows; without a
\* token of the app the forced unwrap of the header ends the process.
ConfirmLogout ==
    /\ Top = "logoutDialog"
    /\ CanTouch
    /\ CanSend(1)
    /\ IF kakaoToken /\ ~token
         THEN /\ root' = "crashed"
              /\ above' = <<>>
              /\ loaded' = {}
              /\ indicator' = "hidden"
              /\ pending' = [k \in Kinds |-> 0]
         ELSE /\ ShowIndicator
              /\ pending' = IF kakaoToken THEN Sent(pending, {"logout"}) ELSE pending
              /\ UNCHANGED <<root, above, loaded>>
    /\ UNCHANGED <<token, kakaoToken>>

LogoutAnswer ==
    /\ Awaited("logout")
    /\ \E o \in Outcomes("logout") :
          \/ /\ o = "success"
             /\ DeleteToken
             /\ GoToMain(Answered("logout"))
          \/ StayingAnswer("logout", o)
    /\ UNCHANGED kakaoToken

-----------------------------------------------------------------------------
Init ==
    /\ token = FALSE
    /\ kakaoToken = FALSE
    /\ root = "stopped"
    /\ above = <<>>
    /\ loaded = {}
    /\ indicator = "hidden"
    /\ pending = [k \in Kinds |-> 0]

Next ==
    \/ Launch
    \/ Kill
    \/ Reinstall
    \/ AutoLoginAnswer
    \/ TapKakaoLogin
    \/ KakaoTalkAnswer
    \/ KakaoAccountAnswer
    \/ LoginAnswer
    \/ GoOut
    \/ \E tab \in Tabs : SelectTab(tab)
    \/ \E page \in PageNames : OpenPage(page)
    \/ OpenRecommend
    \/ Back
    \/ PickCategory
    \/ LeaveRegister
    \/ ListAnswer
    \/ LookupAnswer
    \/ Submit
    \/ UploadAnswer
    \/ RegisterAnswer
    \/ ConfirmLogout
    \/ LogoutAnswer

Spec == Init /\ [][Next]_vars

\* Alamofire answers every request, at the latest with the failure of its
\* timeout.  Nothing makes the user come back from Kakao, tap or launch.
Fairness ==
    /\ WF_vars(AutoLoginAnswer)
    /\ WF_vars(LoginAnswer)
    /\ WF_vars(LogoutAnswer)
    /\ WF_vars(ListAnswer)
    /\ WF_vars(LookupAnswer)
    /\ WF_vars(RegisterAnswer)

FairSpec == Spec /\ Fairness

-----------------------------------------------------------------------------
\* Every variable keeps its type: above all no answer comes to a request that is
\* not awaited, so that none is counted below zero (the completion handlers of the
\* data managers).
TypeOK ==
    /\ token \in BOOLEAN
    /\ kakaoToken \in BOOLEAN
    /\ root \in Roots
    /\ above \in Seq(PageNames)
    /\ loaded \subseteq Tabs
    /\ indicator \in {"hidden", "covering", "covered"}
    /\ pending \in [Kinds -> Nat]

\* What is in memory or on screen that only an account may have.
AccountScreens ==
    (loaded \cap Guarded) \cup {p \in Range(above) : Pages[p].auth}

\* The guards of the tabs run once, in viewDidLoad, and those of the pages when
\* they ask for their data: as long as such a screen lives, the token that let
\* it in is stored, whichever late answer signed the user in or out meanwhile.
AccountScreensNeedToken == AccountScreens # {} => token

\* LogoutDataManager unwraps the token with "jwt!": a tap on the dialog never
\* finds the keychain empty, so that the process never dies there.
NeverUnwrapsMissingToken == root # "crashed"

\* The automatic login may delete the token: its answer never finds a session
\* under way, in which somebody may have signed in since it was sent.
AutoLoginOnlyAtLaunch ==
    Awaited("autologin") =>
        /\ root = "blank"
        /\ \A k \in Kinds : pending[k] = IF k = "autologin" THEN 1 ELSE 0

\* The spinner belongs to no screen and any answer dismisses it: over the tabs
\* it is shown only while an answer that will dismiss it or leave for the home
\* tab is awaited, if every code has a handler and the app stays installed.
SpinnerHasOwner ==
    InMain /\ Shown => \E k \in {"list", "login", "logout"} : Awaited(k)

\* A launch ends: the window that is made visible only by the answer to the
\* automatic login does become visible, if every code has a handler.
LaunchResolves == root = "blank" ~> root # "blank"

\* A spinner over the tabs goes away, or the tabs do, whatever the order of the
\* answers that show, share and dismiss it.
SpinnerClears == (InMain /\ Shown) ~> (~Shown \/ ~InMain)

\* Where the user is, in the terms of SessionGate.
Place ==
    IF root \in {"stopped", "crashed", "blank"} THEN "away"
    ELSE IF root = "login" THEN "entrance"
    ELSE IF AccountScreens = {} THEN "public" ELSE "account"

Gate == INSTANCE SessionGate WITH signedIn <- token, place <- Place

\* The session implements SessionGate: no interleaving of answers opens an
\* account's screen without a token, changes the token behind an open one, or
\* throws out to the login somebody whose token is stored.
KeepsGate == Gate!GateSpec

=============================================================================
