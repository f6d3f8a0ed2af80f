---------------------------- MODULE SessionProofs ----------------------------
(***************************************************************************)
(* Proofs about Session, for every value of its constants.                 *)
(***************************************************************************)
EXTENDS Session, TLAPS

Spinners == {"hidden", "covering", "covered"}

\* The roots under which there is no window, or one that is not yet visible.
Unseen == {"stopped", "crashed", "blank"}

\* A tab in front has passed its guard, and no tab is loaded elsewhere.
RootLoaded == IF InMain THEN root \in loaded ELSE loaded = {}

\* Nothing is pushed over, and nothing but the automatic login awaited behind,
\* a window that is not visible.
UnseenIsIdle ==
    root \in Unseen =>
        above = <<>> /\ \A k \in Kinds \ {"autologin"} : pending[k] = 0

\* The settings and the dialog over them open from the shop tab only.
SettingsOverMyShop ==
    \A p \in Range(above) : p \in {"settings", "logoutDialog"} => root = "myShop"

\* The inductive invariant: the safety of Session needs to know which screens
\* the logout dialog can be over, and that a window not yet visible is idle.
Inv ==
    /\ TypeOK
    /\ RootLoaded
    /\ UnseenIsIdle
    /\ SettingsOverMyShop
    /\ AccountScreensNeedToken
    /\ NeverUnwrapsMissingToken
    /\ AutoLoginOnlyAtLaunch

-----------------------------------------------------------------------------
\* Sending adds one to the kinds sent and keeps the type of pending.
LEMMA SentType ==
    ASSUME NEW STATE p, p \in [Kinds -> Nat], NEW STATE K
    PROVE  /\ Sent(p, K) \in [Kinds -> Nat]
           /\ \A k \in Kinds : Sent(p, K)[k] = p[k] + (IF k \in K THEN 1 ELSE 0)
  BY DEF Sent

\* An answer takes away one request of its kind.
LEMMA AnsweredType ==
    ASSUME pending \in [Kinds -> Nat], NEW kind \in Kinds, Awaited(kind)
    PROVE  /\ Answered(kind) \in [Kinds -> Nat]
           /\ Answered(kind)[kind] = pending[kind] - 1
           /\ \A k \in Kinds \ {kind} : Answered(kind)[k] = pending[k]
  BY DEF Awaited, Answered

\* The screens over the root after one more opens are the old ones and it.
LEMMA RangeAppend ==
    ASSUME NEW S, NEW s \in Seq(S), NEW x
    PROVE  Range(Append(s, x)) = Range(s) \cup {x}
  BY DEF Range

\* Closing the last screen opens no other one.
LEMMA RangeFront ==
    ASSUME NEW S, NEW s \in Seq(S), s # <<>>
    PROVE  Front(s) \in Seq(S) /\ Range(Front(s)) \subseteq Range(s)
  BY DEF Range, Front

LEMMA RangeEmpty == Range(<<>>) = {}
  BY DEF Range

\* The screen in front is one of the screens over the root, or the root.
LEMMA TopCases ==
    ASSUME TypeOK
    PROVE  \/ above = <<>> /\ Top = root
           \/ above # <<>> /\ Top \in Range(above) /\ Top \in PageNames
  BY DEF TypeOK, Top, Range

LEMMA PageNamesAre ==
    PageNames = {"allCategories", "subCategory", "secondSub", "detail",
                 "registerCategory", "registerSub", "registerThird",
                 "settings", "logoutDialog", "goOutDialog"}
  BY DEF PageNames, Pages

LEMMA PagesAre ==
    Pages =
      [ allCategories    |-> Page({"home"}, FALSE, TRUE, {"list"}),
        subCategory      |-> Page({"home", "allCategories"}, TRUE, TRUE, {"list", "lookup"}),
        secondSub        |-> Page({"subCategory"}, TRUE, TRUE, {"list", "lookup"}),
        detail           |-> Page({"home"}, TRUE, FALSE, {"lookup"}),
        registerCategory |-> Page({"register"}, FALSE, TRUE, {"list"}),
        registerSub      |-> Page({"registerCategory"}, TRUE, TRUE, {"list"}),
        registerThird    |-> Page({"registerSub"}, TRUE, TRUE, {"list"}),
        settings         |-> Page({"myShop"}, FALSE, FALSE, {}),
        logoutDialog     |-> Page({"settings"}, FALSE, FALSE, {}),
        goOutDialog      |-> Page({"login"}, FALSE, FALSE, {}) ]
  BY Zenon DEF Pages, AllCategories, SubCategory, SecondSub, Detail, RegisterCategory, RegisterSub,
               RegisterThird, Settings, LogoutDialog, GoOutDialog

\* The settings open from the shop tab, the dialog from the settings, and no
\* page sends the automatic login or opens over a window that is not visible.
LEMMA PageFacts ==
    /\ Pages["settings"].from = {"myShop"}
    /\ Pages["logoutDialog"].from = {"settings"}
    /\ \A p \in PageNames : "autologin" \notin Pages[p].sends
    /\ \A p \in PageNames : Pages[p].from \cap Unseen = {}
<1>1. Pages["settings"].from = {"myShop"}
  BY PagesAre DEF Page
<1>2. Pages["logoutDialog"].from = {"settings"}
  BY PagesAre DEF Page
<1>3. \A p \in PageNames : "autologin" \notin Pages[p].sends
  BY PageNamesAre, PagesAre DEF Page
<1>4. \A p \in PageNames : Pages[p].from \cap Unseen = {}
  <2>1. ASSUME NEW p \in PageNames
        PROVE  Pages[p].from \subseteq {"home", "allCategories", "subCategory", "register",
                  "registerCategory", "registerSub", "myShop", "settings", "login"}
    BY PageNamesAre, PagesAre DEF Page
  <2>2. QED
    BY <2>1 DEF Unseen
<1>5. QED
  BY <1>1, <1>2, <1>3, <1>4

-----------------------------------------------------------------------------
\* A new tab bar satisfies the invariant whatever became of the token: it has
\* loaded nothing that is guarded.
LEMMA GoToMainInv ==
    ASSUME NEW STATE p, p \in [Kinds -> Nat], p["autologin"] = 0, GoToMain(p),
           token' \in BOOLEAN, kakaoToken' \in BOOLEAN
    PROVE  Inv'
<1>1. /\ root' = "home" /\ above' = <<>> /\ loaded' = {"home"}
      /\ indicator' \in Spinners
      /\ pending' \in [Kinds -> Nat] /\ pending'["autologin"] = 0
  <2>1. /\ Sent(p, {"list"}) \in [Kinds -> Nat]
        /\ \A k \in Kinds : Sent(p, {"list"})[k] = p[k] + (IF k \in {"list"} THEN 1 ELSE 0)
    BY SentType
  <2>2. Sent(p, {"list"})["autologin"] = 0
    BY <2>1 DEF Kinds
  <2>3. QED
    BY <2>1, <2>2 DEF GoToMain, CarryIndicator, Spinners
<1>2. TypeOK'
  BY <1>1 DEF TypeOK, Spinners, Roots, Tabs
<1>3. RootLoaded' /\ UnseenIsIdle'
  BY <1>1 DEF RootLoaded, InMain, Tabs, UnseenIsIdle, Unseen
<1>4. AccountScreens' = {} /\ SettingsOverMyShop'
  <2>1. Range(above') = {}
    BY <1>1, RangeEmpty
  <2>2. QED
    BY <1>1, <2>1 DEF AccountScreens, Guarded, SettingsOverMyShop
<1>5. AutoLoginOnlyAtLaunch' /\ NeverUnwrapsMissingToken'
  BY <1>1 DEF AutoLoginOnlyAtLaunch, Awaited, NeverUnwrapsMissingToken
<1>6. QED
  BY <1>2, <1>3, <1>4, <1>5 DEF Inv, AccountScreensNeedToken

\* So does the login screen.
LEMMA GoToLoginInv ==
    ASSUME NEW STATE p, p \in [Kinds -> Nat], p["autologin"] = 0, NEW STATE shown, GoToLogin(p, shown),
           token' \in BOOLEAN, kakaoToken' \in BOOLEAN
    PROVE  Inv'
<1>1. /\ root' = "login" /\ above' = <<>> /\ loaded' = {}
      /\ indicator' \in Spinners
      /\ pending' \in [Kinds -> Nat] /\ pending'["autologin"] = 0
  BY DEF GoToLogin, CarryIndicator, Spinners, Kinds
<1>2. TypeOK'
  BY <1>1 DEF TypeOK, Spinners, Roots, Tabs
<1>3. RootLoaded' /\ UnseenIsIdle'
  BY <1>1 DEF RootLoaded, InMain, Tabs, UnseenIsIdle, Unseen
<1>4. AccountScreens' = {} /\ SettingsOverMyShop'
  <2>1. Range(above') = {}
    BY <1>1, RangeEmpty
  <2>2. QED
    BY <1>1, <2>1 DEF AccountScreens, Guarded, SettingsOverMyShop
<1>5. AutoLoginOnlyAtLaunch' /\ NeverUnwrapsMissingToken'
  BY <1>1 DEF AutoLoginOnlyAtLaunch, Awaited, NeverUnwrapsMissingToken
<1>6. QED
  BY <1>2, <1>3, <1>4, <1>5 DEF Inv, AccountScreensNeedToken

\* A process that does not run has nothing of an account on screen.
LEMMA NotRunningInv ==
    ASSUME root' \in {"stopped", "blank"}, above' = <<>>, loaded' = {},
           indicator' = "hidden", token' \in BOOLEAN, kakaoToken' \in BOOLEAN,
           pending' \in [Kinds -> Nat],
           \A k \in Kinds \ {"autologin"} : pending'[k] = 0,
           \/ pending'["autologin"] = 0
           \/ root' = "blank" /\ pending'["autologin"] = 1
    PROVE  Inv'
<1>1. TypeOK'
  BY DEF TypeOK, Roots
<1>2. RootLoaded' /\ UnseenIsIdle'
  BY DEF RootLoaded, InMain, Tabs, UnseenIsIdle
<1>3. AccountScreens' = {} /\ SettingsOverMyShop'
  <2>1. Range(above') = {}
    BY RangeEmpty
  <2>2. QED
    BY <2>1 DEF AccountScreens, SettingsOverMyShop
<1>4. AutoLoginOnlyAtLaunch' /\ NeverUnwrapsMissingToken'
  BY DEF AutoLoginOnlyAtLaunch, Awaited, NeverUnwrapsMissingToken
<1>5. QED
  BY <1>1, <1>2, <1>3, <1>4 DEF Inv, AccountScreensNeedToken

\* Neither do requests sent or answered matter while the screens stay, as long
\* as an invisible window sends none and none is an automatic login.
LEMMA StayingInv ==
    ASSUME Inv, UNCHANGED <<token, root, above, loaded>>,
           kakaoToken' \in BOOLEAN, indicator' \in Spinners,
           pending' \in [Kinds -> Nat], pending'["autologin"] = 0,
           root \in Unseen => \A k \in Kinds : pending'[k] = 0
    PROVE  Inv'
<1>1. TypeOK'
  BY DEF Inv, TypeOK, Spinners
<1>2. RootLoaded' /\ UnseenIsIdle' /\ SettingsOverMyShop'
  BY DEF Inv, RootLoaded, InMain, UnseenIsIdle, SettingsOverMyShop
<1>3. AccountScreensNeedToken' /\ NeverUnwrapsMissingToken'
  BY DEF Inv, AccountScreensNeedToken, AccountScreens, NeverUnwrapsMissingToken
<1>4. AutoLoginOnlyAtLaunch'
  BY DEF AutoLoginOnlyAtLaunch, Awaited
<1>5. QED
  BY <1>1, <1>2, <1>3, <1>4 DEF Inv

\* Once there is something to see, the automatic login was answered.
LEMMA VisibleIsLater ==
    ASSUME Inv, root \notin Unseen
    PROVE  pending \in [Kinds -> Nat] /\ pending["autologin"] = 0
<1>1. pending \in [Kinds -> Nat] /\ "autologin" \in Kinds
  BY DEF Inv, TypeOK, Kinds
<1>2. ~(pending["autologin"] > 0)
  BY DEF Inv, AutoLoginOnlyAtLaunch, Awaited, Unseen
<1>3. QED
  BY <1>1, <1>2

\* A tap needs a screen to be in front.
LEMMA TapIsVisible ==
    ASSUME Inv, Top \notin Unseen
    PROVE  root \notin Unseen
  BY TopCases DEF Inv, UnseenIsIdle

\* Every other answer arrives later than that of the automatic login.
LEMMA LaterAnswer ==
    ASSUME Inv, NEW kind \in Kinds \ {"autologin"}, Awaited(kind)
    PROVE  /\ root \notin Unseen
           /\ Answered(kind) \in [Kinds -> Nat]
           /\ Answered(kind)["autologin"] = 0
<1>1. root \notin Unseen
  BY DEF Inv, UnseenIsIdle, Awaited
<1>2. pending \in [Kinds -> Nat] /\ pending["autologin"] = 0
  BY <1>1, VisibleIsLater
<1>3. Answered(kind) \in [Kinds -> Nat] /\ Answered(kind)["autologin"] = pending["autologin"]
  BY <1>2, AnsweredType DEF Kinds
<1>4. QED
  BY <1>1, <1>2, <1>3

\* Sending anything but the automatic login.
LEMMA LaterSent ==
    ASSUME NEW STATE p, p \in [Kinds -> Nat], p["autologin"] = 0,
           NEW STATE K, "autologin" \notin K
    PROVE  Sent(p, K) \in [Kinds -> Nat] /\ Sent(p, K)["autologin"] = 0
<1>1. /\ Sent(p, K) \in [Kinds -> Nat]
      /\ \A k \in Kinds : Sent(p, K)[k] = p[k] + (IF k \in K THEN 1 ELSE 0)
  BY SentType
<1>2. QED
  BY <1>1 DEF Kinds

-----------------------------------------------------------------------------
LEMMA InitInv == Init => Inv
<1> SUFFICES ASSUME Init PROVE Inv
  OBVIOUS
<1>1. TypeOK
  <2>1. above \in Seq(PageNames) /\ pending \in [Kinds -> Nat]
    BY DEF Init
  <2>2. QED
    BY <2>1 DEF Init, TypeOK, Roots
<1>2. RootLoaded /\ UnseenIsIdle
  BY DEF Init, RootLoaded, InMain, Tabs, UnseenIsIdle
<1>3. AccountScreens = {} /\ SettingsOverMyShop
  <2>1. Range(above) = {}
    BY RangeEmpty DEF Init
  <2>2. QED
    BY <2>1 DEF Init, AccountScreens, SettingsOverMyShop
<1>4. AutoLoginOnlyAtLaunch /\ NeverUnwrapsMissingToken
  BY DEF Init, AutoLoginOnlyAtLaunch, Awaited, NeverUnwrapsMissingToken, Kinds
<1>5. QED
  BY <1>1, <1>2, <1>3, <1>4 DEF Inv, AccountScreensNeedToken

\* The steps of the process.
LEMMA ProcessInv ==
    ASSUME Inv, Launch \/ Kill \/ Reinstall \/ AutoLoginAnswer
    PROVE  Inv'
<1>0. token \in BOOLEAN /\ kakaoToken \in BOOLEAN
  BY DEF Inv, TypeOK
<1>1. CASE Launch
  <2>1. /\ pending' \in [Kinds -> Nat] /\ pending'["autologin"] = 1
        /\ \A k \in Kinds \ {"autologin"} : pending'[k] = 0
    BY <1>1 DEF Launch, Kinds
  <2>2. QED
    BY <1>0, <1>1, <2>1, NotRunningInv DEF Launch
<1>2. CASE Kill
  <2>1. pending' \in [Kinds -> Nat] /\ \A k \in Kinds : pending'[k] = 0
    BY <1>2 DEF Kill
  <2>2. pending'["autologin"] = 0
    BY <2>1 DEF Kinds
  <2>3. QED
    BY <1>0, <1>2, <2>1, <2>2, NotRunningInv DEF Kill
<1>3. CASE Reinstall
  <2>1. pending = [k \in Kinds |-> pending[k]] /\ pending["autologin"] = 0
    BY <1>3 DEF Reinstall, Inv, TypeOK, AutoLoginOnlyAtLaunch, Awaited, Kinds
  <2>2. \A k \in Kinds : pending[k] = 0
    BY <1>3, <2>1 DEF Reinstall, Inv, UnseenIsIdle, Unseen
  <2>3. QED
    BY <1>3, <2>1, <2>2, StayingInv DEF Reinstall, Inv, TypeOK, Spinners
<1>4. CASE AutoLoginAnswer
  <2> DEFINE left == Answered("autologin")
  <2>1. /\ pending \in [Kinds -> Nat] /\ pending["autologin"] = 1
        /\ root = "blank" /\ \A k \in Kinds \ {"autologin"} : pending[k] = 0
    BY <1>4 DEF AutoLoginAnswer, Inv, TypeOK, AutoLoginOnlyAtLaunch, Kinds
  <2>2. left \in [Kinds -> Nat] /\ \A k \in Kinds : left[k] = 0
    BY <1>4, <2>1, AnsweredType DEF AutoLoginAnswer, Kinds
  <2>3. left["autologin"] = 0
    BY <2>2 DEF Kinds
  <2>4. token' \in BOOLEAN /\ kakaoToken' \in BOOLEAN
    BY <1>0, <1>4 DEF AutoLoginAnswer, DeleteToken
  <2>5. \/ GoToMain(left)
        \/ GoToLogin(left, Shown)
        \/ pending' = left /\ UNCHANGED <<token, root, above, loaded, indicator>>
    BY <1>4 DEF AutoLoginAnswer
  <2> HIDE DEF left
  <2>6. CASE GoToMain(left)
    BY <2>2, <2>3, <2>4, <2>6, GoToMainInv
  <2>7. CASE GoToLogin(left, Shown)
    BY <2>2, <2>3, <2>4, <2>7, GoToLoginInv
  <2>8. CASE pending' = left /\ UNCHANGED <<token, root, above, loaded, indicator>>
    BY <2>2, <2>3, <2>4, <2>8, StayingInv DEF Inv, TypeOK, Spinners
  <2>9. QED
    BY <2>5, <2>6, <2>7, <2>8
<1>5. QED
  BY <1>1, <1>2, <1>3, <1>4

\* Answers that leave the screens alone.
LEMMA QuietAnswerInv ==
    ASSUME Inv,
           \/ KakaoTalkAnswer \/ KakaoAccountAnswer
           \/ ListAnswer \/ LookupAnswer \/ UploadAnswer
    PROVE  Inv'
<1> USE DEF Spinners
<1>0. kakaoToken \in BOOLEAN /\ indicator \in Spinners
  BY DEF Inv, TypeOK
<1>1. ASSUME NEW kind \in {"kakaoTalk", "kakaoAccount"}, Awaited(kind),
             UNCHANGED <<token, root, above, loaded>>,
             \/ KakaoSuccess(kind)
             \/ /\ pending' \in {Sent(Answered(kind), {"kakaoAccount"}), Answered(kind)}
                /\ UNCHANGED <<kakaoToken, indicator>>
      PROVE  Inv'
  <2>1. /\ root \notin Unseen
        /\ Answered(kind) \in [Kinds -> Nat] /\ Answered(kind)["autologin"] = 0
    BY <1>1, LaterAnswer DEF Kinds
  <2>2. /\ Sent(Answered(kind), {"login"}) \in [Kinds -> Nat]
        /\ Sent(Answered(kind), {"login"})["autologin"] = 0
        /\ Sent(Answered(kind), {"kakaoAccount"}) \in [Kinds -> Nat]
        /\ Sent(Answered(kind), {"kakaoAccount"})["autologin"] = 0
    BY <2>1, LaterSent
  <2>3. /\ pending' \in [Kinds -> Nat] /\ pending'["autologin"] = 0
        /\ kakaoToken' \in BOOLEAN /\ indicator' \in Spinners
    BY <1>0, <1>1, <2>1, <2>2 DEF KakaoSuccess, ShowIndicator
  <2>4. QED
    BY <1>1, <2>1, <2>3, StayingInv
<1>2. CASE KakaoTalkAnswer
  BY <1>1, <1>2 DEF KakaoTalkAnswer
<1>3. CASE KakaoAccountAnswer
  BY <1>1, <1>3 DEF KakaoAccountAnswer
<1>4. CASE ListAnswer
  <2>1. /\ root \notin Unseen
        /\ Answered("list") \in [Kinds -> Nat] /\ Answered("list")["autologin"] = 0
    BY <1>4, LaterAnswer DEF ListAnswer, Kinds
  <2>2. QED
    BY <1>0, <1>4, <2>1, StayingInv DEF ListAnswer, DismissIndicator
<1>5. CASE LookupAnswer
  <2>1. /\ root \notin Unseen
        /\ Answered("lookup") \in [Kinds -> Nat] /\ Answered("lookup")["autologin"] = 0
    BY <1>5, LaterAnswer DEF LookupAnswer, Kinds
  <2>2. QED
    BY <1>0, <1>5, <2>1, StayingInv DEF LookupAnswer, DismissIndicator
<1>6. CASE UploadAnswer
  <2>1. /\ root \notin Unseen
        /\ Answered("upload") \in [Kinds -> Nat] /\ Answered("upload")["autologin"] = 0
    BY <1>6, LaterAnswer DEF UploadAnswer, Kinds
  <2>2. /\ Sent(Answered("upload"), {"register"}) \in [Kinds -> Nat]
        /\ Sent(Answered("upload"), {"register"})["autologin"] = 0
    BY <2>1, LaterSent
  <2>3. pending' \in [Kinds -> Nat] /\ pending'["autologin"] = 0
    BY <1>6, <2>1, <2>2 DEF UploadAnswer
  <2>4. QED
    BY <1>0, <1>6, <2>1, <2>3, StayingInv DEF UploadAnswer
<1>7. QED
  BY <1>2, <1>3, <1>4, <1>5, <1>6

\* Answers that may replace the root of the window.
LEMMA RootAnswerInv ==
    ASSUME Inv, LoginAnswer \/ LogoutAnswer \/ RegisterAnswer
    PROVE  Inv'
<1>0. token \in BOOLEAN /\ kakaoToken \in BOOLEAN /\ indicator \in Spinners
  BY DEF Inv, TypeOK, Spinners
<1>1. ASSUME NEW kind \in {"login", "logout", "register"}, Awaited(kind),
             NEW o, token' \in BOOLEAN, kakaoToken' \in BOOLEAN,
             GoToMain(Answered(kind)) \/ StayingAnswer(kind, o)
      PROVE  Inv'
  <2>1. /\ root \notin Unseen
        /\ Answered(kind) \in [Kinds -> Nat] /\ Answered(kind)["autologin"] = 0
    BY <1>1, LaterAnswer DEF Kinds
  <2>2. CASE GoToMain(Answered(kind))
    BY <1>1, <2>1, <2>2, GoToMainInv
  <2>3. CASE StayingAnswer(kind, o)
    <3>1. /\ pending' = Answered(kind) /\ indicator' \in Spinners
          /\ UNCHANGED <<token, root, above, loaded>>
      BY <1>0, <2>3 DEF StayingAnswer, DismissIndicator, Spinners
    <3>2. QED
      BY <1>1, <2>1, <3>1, StayingInv
  <2>4. QED
    BY <1>1, <2>2, <2>3
<1>2. CASE LoginAnswer
  <2>1. PICK o \in Outcomes("login") :
          \/ SetToken /\ GoToMain(Answered("login"))
          \/ StayingAnswer("login", o)
    BY <1>2 DEF LoginAnswer
  <2>2. token' \in BOOLEAN /\ kakaoToken' \in BOOLEAN /\ Awaited("login")
    BY <1>0, <1>2, <2>1 DEF LoginAnswer, SetToken, StayingAnswer
  <2>3. QED
    BY <1>1, <2>1, <2>2
<1>3. CASE LogoutAnswer
  <2>1. PICK o \in Outcomes("logout") :
          \/ DeleteToken /\ GoToMain(Answered("logout"))
          \/ StayingAnswer("logout", o)
    BY <1>3 DEF LogoutAnswer
  <2>2. token' \in BOOLEAN /\ kakaoToken' \in BOOLEAN /\ Awaited("logout")
    BY <1>0, <1>3, <2>1 DEF LogoutAnswer, DeleteToken, StayingAnswer
  <2>3. QED
    BY <1>1, <2>1, <2>2
<1>4. CASE RegisterAnswer
  <2>1. PICK o \in Outcomes("register") :
          \/ UNCHANGED token /\ GoToMain(Answered("register"))
          \/ StayingAnswer("register", o)
    BY <1>4 DEF RegisterAnswer
  <2>2. token' \in BOOLEAN /\ kakaoToken' \in BOOLEAN /\ Awaited("register")
    BY <1>0, <1>4, <2>1 DEF RegisterAnswer, StayingAnswer
  <2>3. QED
    BY <1>1, <2>1, <2>2
<1>5. QED
  BY <1>2, <1>3, <1>4

\* Taps that only send a request, or build a new tab bar.
LEMMA TapInv ==
    ASSUME Inv, TapKakaoLogin \/ Submit \/ GoOut \/ LeaveRegister
    PROVE  Inv'
<1>1. /\ Top \notin Unseen
      /\ token' = token /\ kakaoToken' = kakaoToken
      /\ token \in BOOLEAN /\ kakaoToken \in BOOLEAN /\ indicator \in Spinners
  BY DEF TapKakaoLogin, Submit, GoOut, LeaveRegister, Unseen, Inv, TypeOK, Spinners
<1>2. root \notin Unseen /\ pending \in [Kinds -> Nat] /\ pending["autologin"] = 0
  BY <1>1, TapIsVisible, VisibleIsLater
<1>3. /\ \A k \in {"kakaoTalk", "upload"} : Sent(pending, {k}) \in [Kinds -> Nat]
      /\ \A k \in {"kakaoTalk", "upload"} : Sent(pending, {k})["autologin"] = 0
  BY <1>2, LaterSent
<1>4. CASE TapKakaoLogin
  BY <1>1, <1>2, <1>3, <1>4, StayingInv DEF TapKakaoLogin
<1>5. CASE Submit
  BY <1>1, <1>2, <1>3, <1>5, StayingInv DEF Submit
<1>6. CASE GoOut \/ LeaveRegister
  BY <1>1, <1>2, <1>6, GoToMainInv DEF GoOut, LeaveRegister
<1>7. QED
  BY <1>4, <1>5, <1>6

\* A tab that is selected has been guarded when it was loaded, or is now.
LEMMA SelectTabInv ==
    ASSUME Inv, NEW tab \in Tabs, SelectTab(tab)
    PROVE  Inv'
<1>1. /\ root \in Tabs /\ root \notin Unseen /\ above = <<>>
      /\ token' = token /\ kakaoToken' = kakaoToken
      /\ token \in BOOLEAN /\ kakaoToken \in BOOLEAN /\ indicator \in Spinners
  BY DEF SelectTab, InMain, Inv, TypeOK, Spinners, Tabs, Unseen
<1>2. pending \in [Kinds -> Nat] /\ pending["autologin"] = 0
  BY <1>1, VisibleIsLater
<1>3. CASE tab \in Guarded \ loaded /\ ~token
  BY <1>1, <1>2, <1>3, GoToLoginInv DEF SelectTab
<1>4. CASE ~(tab \in Guarded \ loaded /\ ~token)
  <2>1. /\ root' = tab /\ loaded' = loaded \cup {tab} /\ above' = above
        /\ \/ ShowIndicator /\ pending' = Sent(pending, {"list"})
           \/ UNCHANGED <<indicator, pending>>
    BY <1>4 DEF SelectTab
  <2>2. Sent(pending, {"list"}) \in [Kinds -> Nat] /\ Sent(pending, {"list"})["autologin"] = 0
    BY <1>2, LaterSent
  <2>3. /\ indicator' \in Spinners
        /\ pending' \in [Kinds -> Nat] /\ pending'["autologin"] = 0
    BY <1>1, <1>2, <2>1, <2>2 DEF ShowIndicator, Spinners
  <2>4. TypeOK'
    BY <1>1, <2>1, <2>3 DEF Inv, TypeOK, Spinners, Roots
  <2>5. RootLoaded' /\ UnseenIsIdle'
    BY <1>1, <2>1 DEF RootLoaded, InMain, UnseenIsIdle, Unseen, Tabs
  <2>6. Range(above') = {} /\ Range(above) = {}
    BY <1>1, <2>1, RangeEmpty
  <2>7. SettingsOverMyShop'
    BY <2>6 DEF SettingsOverMyShop
  <2>8. AccountScreensNeedToken'
    BY <1>1, <1>4, <2>1, <2>6 DEF Inv, AccountScreensNeedToken, AccountScreens
  <2>9. AutoLoginOnlyAtLaunch' /\ NeverUnwrapsMissingToken'
    BY <2>1, <2>3 DEF AutoLoginOnlyAtLaunch, Awaited, NeverUnwrapsMissingToken, Tabs
  <2>10. QED
    BY <2>4, <2>5, <2>7, <2>8, <2>9 DEF Inv
<1>5. QED
  BY <1>3, <1>4

\* A page opens over the screen it belongs to, with the token if it needs one.
LEMMA OpenPageInv ==
    ASSUME Inv, NEW page \in PageNames, OpenPage(page)
    PROVE  Inv'
<1> DEFINE p == Pages[page]
<1>1. /\ Top \in p.from /\ Top \notin Unseen /\ "autologin" \notin p.sends
      /\ token' = token /\ kakaoToken' = kakaoToken
      /\ Authorised(p.auth, p.spins, p.sends, Append(above, page))
  BY PageFacts DEF OpenPage
<1>2. /\ token \in BOOLEAN /\ kakaoToken \in BOOLEAN /\ indicator \in Spinners
      /\ above \in Seq(PageNames)
  BY DEF Inv, TypeOK, Spinners
<1>3. root \notin Unseen /\ pending \in [Kinds -> Nat] /\ pending["autologin"] = 0
  BY <1>1, TapIsVisible, VisibleIsLater
<1>4. page \in {"settings", "logoutDialog"} => root = "myShop"
  <2>1. CASE page = "settings"
    BY <1>1, <2>1, PageFacts, TopCases, PageNamesAre DEF Inv
  <2>2. CASE page = "logoutDialog"
    <3>1. Top = "settings"
      BY <1>1, <2>2, PageFacts
    <3>2. root # "settings"
      BY DEF Inv, TypeOK, Roots, Tabs
    <3>3. QED
      BY <3>1, <3>2, TopCases DEF Inv, SettingsOverMyShop
  <2>3. QED
    BY <2>1, <2>2
<1>5. CASE p.auth /\ ~token
  <2>1. GoToLogin(pending, p.spins \/ Shown)
    BY <1>1, <1>5 DEF Authorised
  <2>2. QED
    BY <1>1, <1>2, <1>3, <2>1, GoToLoginInv
<1>6. CASE ~(p.auth /\ ~token)
  <2>1. /\ above' = Append(above, page)
        /\ pending' = Sent(pending, p.sends)
        /\ root' = root /\ loaded' = loaded
        /\ indicator' \in Spinners
    BY <1>1, <1>2, <1>6 DEF Authorised, ShowIndicator, Spinners
  <2>2. pending' \in [Kinds -> Nat] /\ pending'["autologin"] = 0
    BY <1>1, <1>3, <2>1, LaterSent
  <2>3. above' \in Seq(PageNames) /\ Range(above') = Range(above) \cup {page}
    BY <1>2, <2>1, RangeAppend
  <2>4. TypeOK'
    BY <1>1, <1>2, <2>1, <2>2, <2>3 DEF Inv, TypeOK, Spinners
  <2>5. RootLoaded' /\ UnseenIsIdle'
    BY <1>3, <2>1 DEF Inv, RootLoaded, InMain, UnseenIsIdle
  <2>6. SettingsOverMyShop'
    BY <1>4, <2>1, <2>3 DEF Inv, SettingsOverMyShop
  <2>7. AccountScreensNeedToken'
    BY <1>1, <1>2, <1>6, <2>1, <2>3 DEF Inv, AccountScreensNeedToken, AccountScreens
  <2>8. AutoLoginOnlyAtLaunch' /\ NeverUnwrapsMissingToken'
    BY <2>1, <2>2 DEF Inv, AutoLoginOnlyAtLaunch, Awaited, NeverUnwrapsMissingToken
  <2>9. QED
    BY <2>4, <2>5, <2>6, <2>7, <2>8 DEF Inv
<1>7. QED
  BY <1>5, <1>6

LEMMA OpenRecommendInv ==
    ASSUME Inv, OpenRecommend
    PROVE  Inv'
<1>1. /\ Top = "following" /\ Top \notin Unseen
      /\ token' = token /\ kakaoToken' = kakaoToken
      /\ Authorised(TRUE, TRUE, {"list"}, above)
      /\ token \in BOOLEAN /\ kakaoToken \in BOOLEAN
  BY DEF OpenRecommend, Unseen, Inv, TypeOK
<1>2. root \notin Unseen /\ pending \in [Kinds -> Nat] /\ pending["autologin"] = 0
  BY <1>1, TapIsVisible, VisibleIsLater
<1>3. Sent(pending, {"list"}) \in [Kinds -> Nat] /\ Sent(pending, {"list"})["autologin"] = 0
  BY <1>2, LaterSent
<1>4. CASE ~token
  BY <1>1, <1>2, <1>4, GoToLoginInv DEF Authorised
<1>5. CASE token
  BY <1>1, <1>2, <1>3, <1>5, StayingInv DEF Authorised, ShowIndicator, Spinners
<1>6. QED
  BY <1>1, <1>4, <1>5

\* Closing screens: those that stay were there before.
LEMMA CloseInv ==
    ASSUME Inv, Back \/ PickCategory
    PROVE  Inv'
<1>1. /\ token' = token /\ kakaoToken' = kakaoToken /\ root' = root /\ loaded' = loaded
      /\ token \in BOOLEAN /\ kakaoToken \in BOOLEAN /\ indicator \in Spinners
      /\ above \in Seq(PageNames)
  BY DEF Back, PickCategory, Inv, TypeOK, Spinners
<1>2. above # <<>>
  BY DEF Back, PickCategory, Top, Inv, TypeOK, Roots, Tabs
<1>3. root \notin Unseen /\ pending \in [Kinds -> Nat] /\ pending["autologin"] = 0
  BY <1>2, VisibleIsLater DEF Inv, UnseenIsIdle
<1>4. Sent(pending, {"list"}) \in [Kinds -> Nat] /\ Sent(pending, {"list"})["autologin"] = 0
  BY <1>3, LaterSent
<1>5. above' \in Seq(PageNames) /\ Range(above') \subseteq Range(above)
  <2>1. CASE Back
    BY <1>1, <1>2, <2>1, RangeFront DEF Back
  <2>2. CASE PickCategory
    BY <2>2, RangeEmpty DEF PickCategory
  <2>3. QED
    BY <2>1, <2>2
<1>6. /\ indicator' \in Spinners
      /\ pending' \in [Kinds -> Nat] /\ pending'["autologin"] = 0
  BY <1>1, <1>3, <1>4 DEF Back, PickCategory, ShowIndicator, Spinners
<1>7. TypeOK'
  BY <1>1, <1>5, <1>6 DEF Inv, TypeOK, Spinners
<1>8. RootLoaded' /\ UnseenIsIdle'
  BY <1>1, <1>3 DEF Inv, RootLoaded, InMain, UnseenIsIdle
<1>9. SettingsOverMyShop' /\ AccountScreensNeedToken'
  BY <1>1, <1>5 DEF Inv, SettingsOverMyShop, AccountScreensNeedToken, AccountScreens
<1>10. AutoLoginOnlyAtLaunch' /\ NeverUnwrapsMissingToken'
  BY <1>1, <1>6 DEF Inv, AutoLoginOnlyAtLaunch, Awaited, NeverUnwrapsMissingToken
<1>11. QED
  BY <1>7, <1>8, <1>9, <1>10 DEF Inv

\* The dialog is over the settings, these over the shop tab, and that tab was
\* loaded with a token which nothing has deleted since.
LEMMA DialogHasToken ==
    ASSUME Inv, Top = "logoutDialog"
    PROVE  token
<1>1. root # "logoutDialog"
  BY DEF Inv, TypeOK, Roots, Tabs
<1>2. root = "myShop"
  BY <1>1, TopCases DEF Inv, SettingsOverMyShop
<1>3. "myShop" \in AccountScreens
  BY <1>2 DEF Inv, RootLoaded, InMain, AccountScreens, Guarded, Tabs
<1>4. QED
  BY <1>3 DEF Inv, AccountScreensNeedToken

LEMMA ConfirmLogoutInv ==
    ASSUME Inv, ConfirmLogout
    PROVE  Inv'
<1>1. /\ Top = "logoutDialog" /\ Top \notin Unseen
      /\ token' = token /\ kakaoToken' = kakaoToken /\ kakaoToken \in BOOLEAN
  BY DEF ConfirmLogout, Unseen, Inv, TypeOK
<1>2. token
  BY <1>1, DialogHasToken
<1>3. root \notin Unseen /\ pending \in [Kinds -> Nat] /\ pending["autologin"] = 0
  BY <1>1, TapIsVisible, VisibleIsLater
<1>4. Sent(pending, {"logout"}) \in [Kinds -> Nat] /\ Sent(pending, {"logout"})["autologin"] = 0
  BY <1>3, LaterSent
<1>5. /\ UNCHANGED <<token, root, above, loaded>> /\ indicator' \in Spinners
      /\ pending' \in {pending, Sent(pending, {"logout"})}
  BY <1>2 DEF ConfirmLogout, ShowIndicator, Spinners
<1>6. pending' \in [Kinds -> Nat] /\ pending'["autologin"] = 0
  BY <1>3, <1>4, <1>5
<1>7. QED
  BY <1>1, <1>3, <1>5, <1>6, StayingInv

LEMMA NextInv == Inv /\ [Next]_vars => Inv'
<1> SUFFICES ASSUME Inv, [Next]_vars PROVE Inv'
  OBVIOUS
<1>1. CASE Launch \/ Kill \/ Reinstall \/ AutoLoginAnswer
  BY <1>1, ProcessInv
<1>2. CASE KakaoTalkAnswer \/ KakaoAccountAnswer \/ ListAnswer \/ LookupAnswer \/ UploadAnswer
  BY <1>2, QuietAnswerInv
<1>3. CASE LoginAnswer \/ LogoutAnswer \/ RegisterAnswer
  BY <1>3, RootAnswerInv
<1>4. CASE TapKakaoLogin \/ Submit \/ GoOut \/ LeaveRegister
  BY <1>4, TapInv
<1>5. CASE \E tab \in Tabs : SelectTab(tab)
  BY <1>5, SelectTabInv
<1>6. CASE \E page \in PageNames : OpenPage(page)
  BY <1>6, OpenPageInv
<1>7. CASE OpenRecommend
  BY <1>7, OpenRecommendInv
<1>8. CASE Back \/ PickCategory
  BY <1>8, CloseInv
<1>9. CASE ConfirmLogout
  BY <1>9, ConfirmLogoutInv
<1>10. CASE UNCHANGED vars
  BY <1>10 DEF vars, Inv, TypeOK, RootLoaded, InMain, UnseenIsIdle, SettingsOverMyShop,
               AccountScreensNeedToken, AccountScreens, NeverUnwrapsMissingToken,
               AutoLoginOnlyAtLaunch, Awaited
<1>11. QED
  BY <1>1, <1>2, <1>3, <1>4, <1>5, <1>6, <1>7, <1>8, <1>9, <1>10 DEF Next

LEMMA SpecInv == Spec => []Inv
  BY InitInv, NextInv, PTL DEF Spec

-----------------------------------------------------------------------------
\* Every variable keeps its type, the navigation its pages.
THEOREM TypeCorrect == Spec => []TypeOK
<1>1. Inv => TypeOK
  BY DEF Inv
<1>2. QED
  BY SpecInv, <1>1, PTL

\* Whatever the order of the answers and of the taps, however often the process
\* is killed and whatever a keychain write does: a screen of an account that is
\* loaded in the window has its token in the keychain.
THEOREM AccountScreensSafe == Spec => []AccountScreensNeedToken
<1>1. Inv => AccountScreensNeedToken
  BY DEF Inv
<1>2. QED
  BY SpecInv, <1>1, PTL

\* The forced unwrap of the logout request's header never fails.
THEOREM UnwrapSafe == Spec => []NeverUnwrapsMissingToken
<1>1. Inv => NeverUnwrapsMissingToken
  BY DEF Inv
<1>2. QED
  BY SpecInv, <1>1, PTL

\* The answer to the automatic login finds no session under way.
THEOREM AutoLoginAlone == Spec => []AutoLoginOnlyAtLaunch
<1>1. Inv => AutoLoginOnlyAtLaunch
  BY DEF Inv
<1>2. QED
  BY SpecInv, <1>1, PTL

-----------------------------------------------------------------------------
\* Session implements SessionGate.

\* Nothing of an account is on screen right after the root was replaced.
LEMMA MainPlace ==
    ASSUME NEW STATE p, GoToMain(p)
    PROVE  Place' = "public"
<1>1. Range(above') = {}
  BY RangeEmpty DEF GoToMain
<1>2. QED
  BY <1>1 DEF GoToMain, Place, AccountScreens, Guarded

LEMMA LoginPlace ==
    ASSUME NEW STATE p, NEW STATE shown, GoToLogin(p, shown)
    PROVE  Place' = "entrance"
  BY DEF GoToLogin, Place

\* Where a user whose window is visible may be.
LEMMA VisiblePlace ==
    ASSUME Inv, root \notin Unseen
    PROVE  /\ Place # "away" /\ token \in BOOLEAN
           /\ root \in Tabs => Place \in {"public", "account"}
           /\ root \in Tabs /\ ~token => Place = "public"
           /\ root \notin Tabs => root = "login" /\ Place = "entrance"
  BY DEF Inv, TypeOK, Roots, Unseen, Place, Tabs, AccountScreensNeedToken

\* Moving among the tabs and their pages with the token as it is.
LEMMA GateMove ==
    ASSUME Inv, Inv', root \notin Unseen, token' = token,
           root' = root \/ (root \in Tabs /\ root' \in Tabs)
    PROVE  [Gate!GateNext]_(Gate!gateVars)
<1>1. Place' # "away" /\ (Place' = "account" => token')
  BY DEF Inv, Place, Unseen, Tabs, AccountScreensNeedToken
<1>2. CASE root = "login"
  BY <1>2 DEF Place, Tabs, Gate!gateVars
<1>3. CASE root \in Tabs /\ root' \in Tabs
  <2>1. Place \in {"public", "account"} /\ Place' \in {"public", "account"} /\ token \in BOOLEAN
    BY <1>3, VisiblePlace DEF Place, Tabs
  <2>2. QED
    BY <1>1, <2>1 DEF Gate!GateNext, Gate!EnterAccount, Gate!ToPublic, Gate!gateVars
<1>4. QED
  BY <1>2, <1>3, VisiblePlace

\* A request without a token turns a visitor away, and nobody else.
LEMMA GateAuthorised ==
    ASSUME Inv, Inv', root \notin Unseen, token' = token,
           NEW STATE auth, NEW STATE spins, NEW STATE sends, NEW STATE opened,
           Authorised(auth, spins, sends, opened)
    PROVE  [Gate!GateNext]_(Gate!gateVars)
<1>1. CASE auth /\ ~token
  <2>1. Place' = "entrance"
    BY <1>1, LoginPlace DEF Authorised
  <2>2. QED
    BY <1>1, <2>1, VisiblePlace DEF Gate!GateNext, Gate!TurnAway, Gate!gateVars
<1>2. CASE ~(auth /\ ~token)
  BY <1>2, GateMove DEF Authorised
<1>3. QED
  BY <1>1, <1>2

\* Replacing the root by a new tab bar, whatever becomes of the token.
LEMMA GateMain ==
    ASSUME Inv, Inv', root \notin Unseen, NEW STATE p, GoToMain(p)
    PROVE  [Gate!GateNext]_(Gate!gateVars)
<1>1. Place' = "public" /\ Place # "away" /\ token' \in BOOLEAN
  BY MainPlace, VisiblePlace DEF Inv, TypeOK
<1>2. QED
  BY <1>1 DEF Gate!GateNext, Gate!ToPublic

LEMMA GateStutter ==
    ASSUME UNCHANGED <<token, root, above, loaded>>
    PROVE  [Gate!GateNext]_(Gate!gateVars)
  BY DEF Gate!gateVars, Place, AccountScreens

LEMMA GateStep ==
    ASSUME Inv, Inv', [Next]_vars
    PROVE  [Gate!GateNext]_(Gate!gateVars)
<1>1. CASE Launch \/ Kill
  BY <1>1 DEF Launch, Kill, Place, Gate!GateNext, Gate!Close
<1>2. CASE AutoLoginAnswer
  <2>1. Place = "away" /\ token \in BOOLEAN
    BY <1>2 DEF AutoLoginAnswer, Inv, TypeOK, AutoLoginOnlyAtLaunch, Place
  <2>2. \/ GoToMain(Answered("autologin")) /\ token' = token
        \/ GoToLogin(Answered("autologin"), Shown) /\ token' \in {FALSE, token}
        \/ UNCHANGED <<token, root, above, loaded>>
    BY <1>2 DEF AutoLoginAnswer, DeleteToken
  <2>3. CASE GoToMain(Answered("autologin")) /\ token' = token
    BY <2>1, <2>3, MainPlace DEF Gate!GateNext, Gate!Open
  <2>4. CASE GoToLogin(Answered("autologin"), Shown) /\ token' \in {FALSE, token}
    BY <2>1, <2>4, LoginPlace DEF Gate!GateNext, Gate!Open
  <2>5. QED
    BY <2>2, <2>3, <2>4, GateStutter
<1>3. CASE \/ Reinstall \/ TapKakaoLogin \/ Submit \/ KakaoTalkAnswer
           \/ KakaoAccountAnswer \/ ListAnswer \/ LookupAnswer \/ UploadAnswer
           \/ UNCHANGED vars
  BY <1>3, GateStutter DEF Reinstall, TapKakaoLogin, Submit, KakaoTalkAnswer,
       KakaoAccountAnswer, ListAnswer, LookupAnswer, UploadAnswer, vars
<1>4. CASE LoginAnswer \/ LogoutAnswer \/ RegisterAnswer
  <2>1. root \notin Unseen
    BY <1>4, LaterAnswer DEF LoginAnswer, LogoutAnswer, RegisterAnswer, Kinds
  <2>2. PICK kind \in {"login", "logout", "register"} :
          GoToMain(Answered(kind)) \/ UNCHANGED <<token, root, above, loaded>>
    BY <1>4 DEF LoginAnswer, LogoutAnswer, RegisterAnswer, StayingAnswer
  <2>3. QED
    BY <2>1, <2>2, GateMain, GateStutter
<1>5. CASE GoOut \/ LeaveRegister
  <2>1. root \notin Unseen
    BY <1>5, TapIsVisible DEF GoOut, LeaveRegister, Unseen
  <2>2. QED
    BY <1>5, <2>1, GateMain DEF GoOut, LeaveRegister
<1>6. ASSUME NEW tab \in Tabs, SelectTab(tab)
      PROVE  [Gate!GateNext]_(Gate!gateVars)
  <2>1. root \in Tabs /\ root \notin Unseen /\ token' = token
    BY <1>6 DEF SelectTab, InMain, Tabs, Unseen
  <2>2. CASE tab \in Guarded \ loaded /\ ~token
    <3>1. Place' = "entrance" /\ Place = "public"
      BY <1>6, <2>1, <2>2, LoginPlace, VisiblePlace DEF SelectTab
    <3>2. QED
      BY <2>1, <2>2, <3>1 DEF Gate!GateNext, Gate!TurnAway
  <2>3. CASE ~(tab \in Guarded \ loaded /\ ~token)
    BY <1>6, <2>1, <2>3, GateMove DEF SelectTab
  <2>4. QED
    BY <2>2, <2>3
<1>7. ASSUME NEW page \in PageNames, OpenPage(page)
      PROVE  [Gate!GateNext]_(Gate!gateVars)
  <2>1. Top \notin Unseen
    BY <1>7, PageFacts DEF OpenPage
  <2>2. root \notin Unseen
    BY <2>1, TapIsVisible
  <2>3. QED
    BY <1>7, <2>2, GateAuthorised DEF OpenPage
<1>8. CASE OpenRecommend
  <2>1. root \notin Unseen
    BY <1>8, TapIsVisible DEF OpenRecommend, Unseen
  <2>2. QED
    BY <1>8, <2>1, GateAuthorised DEF OpenRecommend
<1>9. CASE Back \/ PickCategory
  <2>1. above # <<>>
    BY <1>9 DEF Back, PickCategory, Top, Inv, TypeOK, Roots, Tabs
  <2>2. root \notin Unseen
    BY <2>1 DEF Inv, UnseenIsIdle
  <2>3. QED
    BY <1>9, <2>2, GateMove DEF Back, PickCategory
<1>10. CASE ConfirmLogout
  <2>1. token
    BY <1>10, DialogHasToken DEF ConfirmLogout
  <2>2. QED
    BY <1>10, <2>1, GateStutter DEF ConfirmLogout
<1>11. QED
  BY <1>1, <1>2, <1>3, <1>4, <1>5, <1>6, <1>7, <1>8, <1>9, <1>10 DEF Next

\* The session implements SessionGate, for every number of requests in flight
\* and every answer of the server.
THEOREM SessionImplementsGate == Spec => KeepsGate
<1>1. Init => Gate!GateInit
  BY DEF Init, Gate!GateInit, Place
<1>2. Inv /\ Inv' /\ [Next]_vars => [Gate!GateNext]_(Gate!gateVars)
  BY GateStep
<1>3. QED
  BY <1>1, <1>2, SpecInv, PTL DEF Spec, KeepsGate, Gate!GateSpec

-----------------------------------------------------------------------------
\* Where every code has a handler and the app stays installed.

\* Whoever has a token of the app, or is about to, has a token of Kakao: the
\* logout dialog never shows the spinner without a request to dismiss it.
KakaoTokenKept == token \/ Awaited("login") => kakaoToken

\* The new tab bar's own request owns the spinner.
LEMMA MainOwner ==
    ASSUME NEW STATE p, p \in [Kinds -> Nat], GoToMain(p)
    PROVE  /\ SpinnerHasOwner'
           /\ pending'["login"] = p["login"]
<1>1. /\ Sent(p, {"list"}) \in [Kinds -> Nat]
      /\ \A k \in Kinds : Sent(p, {"list"})[k] = p[k] + (IF k \in {"list"} THEN 1 ELSE 0)
  BY SentType
<1>2. pending'["list"] > 0 /\ pending'["login"] = p["login"]
  BY <1>1 DEF GoToMain, Kinds
<1>3. QED
  BY <1>2 DEF SpinnerHasOwner, Awaited

\* A sender shows the spinner, or leaves it as it is, and awaits more.
LEMMA SendOwner ==
    ASSUME pending \in [Kinds -> Nat], SpinnerHasOwner,
           NEW STATE K, pending' = Sent(pending, K),
           \/ K \cap {"list", "login", "logout"} # {}
           \/ indicator' = indicator /\ (root' \in Tabs => root \in Tabs)
    PROVE  SpinnerHasOwner'
<1>1. \A k \in Kinds : pending'[k] = pending[k] + (IF k \in K THEN 1 ELSE 0)
  BY SentType
<1>2. {"list", "login", "logout"} \subseteq Kinds
  BY DEF Kinds
<1>3. CASE \E k \in K \cap {"list", "login", "logout"} : TRUE
  BY <1>1, <1>2, <1>3 DEF SpinnerHasOwner, Awaited
<1>4. CASE indicator' = indicator /\ (root' \in Tabs => root \in Tabs)
  BY <1>1, <1>2, <1>4 DEF SpinnerHasOwner, Awaited, InMain, Shown
<1>5. QED
  BY <1>3, <1>4

\* A hidden spinner needs no owner, nor does one that is not over the tabs.
LEMMA NoOwner ==
    ASSUME indicator' = "hidden" \/ root' \notin Tabs
    PROVE  SpinnerHasOwner'
  BY DEF SpinnerHasOwner, Shown, InMain

LEMMA OwnerSteps ==
    ASSUME SilentCodes = FALSE, Inv, SpinnerHasOwner, KakaoTokenKept, [Next]_vars
    PROVE  SpinnerHasOwner'
<1>0. pending \in [Kinds -> Nat] /\ \A kind : "silent" \notin Outcomes(kind)
  BY DEF Inv, TypeOK, Outcomes
<1>1. CASE Launch \/ Kill \/ ListAnswer
  BY <1>0, <1>1, NoOwner DEF Launch, Kill, ListAnswer, DismissIndicator
<1>2. CASE Reinstall \/ UNCHANGED vars
  BY <1>2 DEF Reinstall, vars, SpinnerHasOwner, InMain, Shown, Awaited
<1>3. CASE AutoLoginAnswer
  <2>1. Answered("autologin") \in [Kinds -> Nat]
    BY <1>0, <1>3, AnsweredType DEF AutoLoginAnswer, Kinds
  <2>2. GoToMain(Answered("autologin")) \/ GoToLogin(Answered("autologin"), Shown)
    BY <1>0, <1>3 DEF AutoLoginAnswer
  <2>3. QED
    BY <2>1, <2>2, MainOwner, NoOwner DEF GoToLogin, Tabs
<1>4. CASE LoginAnswer \/ LogoutAnswer \/ RegisterAnswer
  <2>1. PICK kind \in {"login", "logout", "register"} :
          Awaited(kind) /\ (GoToMain(Answered(kind)) \/ DismissIndicator)
    BY <1>0, <1>4 DEF LoginAnswer, LogoutAnswer, RegisterAnswer, StayingAnswer
  <2>2. Answered(kind) \in [Kinds -> Nat]
    BY <1>0, <2>1, AnsweredType DEF Kinds
  <2>3. QED
    BY <2>1, <2>2, MainOwner, NoOwner DEF DismissIndicator
<1>5. CASE GoOut \/ LeaveRegister
  BY <1>0, <1>5, MainOwner DEF GoOut, LeaveRegister
<1>6. CASE TapKakaoLogin \/ Submit
  BY <1>0, <1>6, SendOwner DEF TapKakaoLogin, Submit
<1>7. ASSUME NEW kind \in {"kakaoTalk", "kakaoAccount"}, Awaited(kind),
             UNCHANGED <<root, above, loaded>>,
             \/ KakaoSuccess(kind)
             \/ /\ pending' \in {Sent(Answered(kind), {"kakaoAccount"}), Answered(kind)}
                /\ UNCHANGED <<kakaoToken, indicator>>
      PROVE  SpinnerHasOwner'
  <2>1. /\ Answered(kind) \in [Kinds -> Nat]
        /\ \A k \in {"list", "login", "logout"} : Answered(kind)[k] = pending[k]
    BY <1>0, <1>7, AnsweredType DEF Kinds
  <2>2. CASE KakaoSuccess(kind)
    <3>1. \A k \in Kinds : Sent(Answered(kind), {"login"})[k]
                = Answered(kind)[k] + (IF k \in {"login"} THEN 1 ELSE 0)
      BY <2>1, SentType
    <3>2. pending'["login"] > 0
      BY <2>1, <2>2, <3>1 DEF KakaoSuccess, Kinds
    <3>3. QED
      BY <3>2 DEF SpinnerHasOwner, Awaited
  <2>3. CASE /\ pending' \in {Sent(Answered(kind), {"kakaoAccount"}), Answered(kind)}
             /\ UNCHANGED <<kakaoToken, indicator>>
    <3>1. \A k \in Kinds : Sent(Answered(kind), {"kakaoAccount"})[k]
                = Answered(kind)[k] + (IF k \in {"kakaoAccount"} THEN 1 ELSE 0)
      BY <2>1, SentType
    <3>2. \A k \in {"list", "login", "logout"} : pending'[k] = pending[k]
      BY <2>1, <2>3, <3>1 DEF Kinds
    <3>3. QED
      BY <1>7, <2>3, <3>2 DEF SpinnerHasOwner, Awaited, InMain, Shown
  <2>4. QED
    BY <1>7, <2>2, <2>3
<1>8. CASE KakaoTalkAnswer \/ KakaoAccountAnswer
  BY <1>7, <1>8 DEF KakaoTalkAnswer, KakaoAccountAnswer
<1>9. CASE LookupAnswer
  <2>1. \A k \in {"list", "login", "logout"} : pending'[k] = pending[k]
    BY <1>0, <1>9, AnsweredType DEF LookupAnswer, Kinds
  <2>2. QED
    BY <1>9, <2>1 DEF LookupAnswer, DismissIndicator, SpinnerHasOwner, Awaited, InMain, Shown
<1>10. CASE UploadAnswer
  <2>1. /\ Answered("upload") \in [Kinds -> Nat]
        /\ \A k \in {"list", "login", "logout"} : Answered("upload")[k] = pending[k]
    BY <1>0, <1>10, AnsweredType DEF UploadAnswer, Kinds
  <2>2. \A k \in Kinds : Sent(Answered("upload"), {"register"})[k]
              = Answered("upload")[k] + (IF k \in {"register"} THEN 1 ELSE 0)
    BY <2>1, SentType
  <2>3. \A k \in {"list", "login", "logout"} : pending'[k] = pending[k]
    BY <1>10, <2>1, <2>2 DEF UploadAnswer, Kinds
  <2>4. QED
    BY <1>10, <2>3 DEF UploadAnswer, SpinnerHasOwner, Awaited, InMain, Shown
<1>11. ASSUME NEW tab \in Tabs, SelectTab(tab)
       PROVE  SpinnerHasOwner'
  <2>1. CASE tab \in Guarded \ loaded /\ ~token
    BY <1>11, <2>1, NoOwner DEF SelectTab, GoToLogin, Tabs
  <2>2. CASE pending' = Sent(pending, {"list"})
    BY <1>0, <2>2, SendOwner
  <2>3. CASE UNCHANGED <<indicator, pending>> /\ root \in Tabs
    BY <2>3 DEF SpinnerHasOwner, Awaited, InMain, Shown
  <2>4. QED
    BY <1>11, <2>1, <2>2, <2>3 DEF SelectTab, InMain
<1>12. ASSUME NEW page \in PageNames, OpenPage(page)
       PROVE  SpinnerHasOwner'
  <2> DEFINE p == Pages[page]
  <2>1. p.spins => "list" \in p.sends
    BY PageNamesAre, PagesAre DEF Page
  <2>2. Authorised(p.auth, p.spins, p.sends, Append(above, page))
    BY <1>12 DEF OpenPage
  <2>3. CASE p.auth /\ ~token
    BY <2>2, <2>3, NoOwner DEF Authorised, GoToLogin, Tabs
  <2>4. CASE ~(p.auth /\ ~token)
    <3>1. /\ pending' = Sent(pending, p.sends) /\ root' = root
          /\ p.spins \/ indicator' = indicator
      BY <2>2, <2>4 DEF Authorised
    <3>2. QED
      BY <1>0, <2>1, <3>1, SendOwner
  <2>5. QED
    BY <2>3, <2>4
<1>13. CASE OpenRecommend
  <2>1. Authorised(TRUE, TRUE, {"list"}, above)
    BY <1>13 DEF OpenRecommend
  <2>2. CASE ~token
    BY <2>1, <2>2, NoOwner DEF Authorised, GoToLogin, Tabs
  <2>3. CASE token
    BY <1>0, <2>1, <2>3, SendOwner DEF Authorised
  <2>4. QED
    BY <2>2, <2>3 DEF Inv, TypeOK
<1>14. CASE Back \/ PickCategory
  <2>1. CASE pending' = Sent(pending, {"list"})
    BY <1>0, <2>1, SendOwner
  <2>2. CASE UNCHANGED <<indicator, pending, root>>
    BY <2>2 DEF SpinnerHasOwner, Awaited, InMain, Shown
  <2>3. QED
    BY <1>14, <2>1, <2>2 DEF Back, PickCategory
<1>15. CASE ConfirmLogout
  <2>1. token /\ kakaoToken
    BY <1>15, DialogHasToken DEF ConfirmLogout, KakaoTokenKept
  <2>2. pending' = Sent(pending, {"logout"})
    BY <1>15, <2>1 DEF ConfirmLogout
  <2>3. QED
    BY <1>0, <2>2, SendOwner
<1>16. QED
  BY <1>1, <1>2, <1>3, <1>4, <1>5, <1>6, <1>8, <1>9, <1>10, <1>11, <1>12, <1>13,
     <1>14, <1>15 DEF Next

\* A request sent is one for the server's token only after Kakao's was stored.
LEMMA KakaoSteps ==
    ASSUME Reinstalls = FALSE, Inv, KakaoTokenKept, [Next]_vars
    PROVE  KakaoTokenKept'
<1>0. /\ pending \in [Kinds -> Nat] /\ token \in BOOLEAN /\ kakaoToken \in BOOLEAN
      /\ "login" \in Kinds
  BY DEF Inv, TypeOK, Kinds
<1>1. ASSUME NEW STATE p, p \in [Kinds -> Nat], NEW STATE K, "login" \notin K
      PROVE  Sent(p, K)["login"] = p["login"]
  BY <1>0, <1>1, SentType
<1>2. ASSUME NEW kind \in Kinds \ {"login"}, Awaited(kind)
      PROVE  Answered(kind) \in [Kinds -> Nat] /\ Answered(kind)["login"] = pending["login"]
  BY <1>0, <1>2, AnsweredType
<1>3. ASSUME token' \in {FALSE, token}, kakaoToken' = kakaoToken,
             pending'["login"] = pending["login"]
      PROVE  KakaoTokenKept'
  BY <1>3 DEF KakaoTokenKept, Awaited
<1>4. CASE kakaoToken'
  BY <1>4 DEF KakaoTokenKept
<1>5. CASE Launch \/ Kill
  BY <1>5 DEF Launch, Kill, KakaoTokenKept, Awaited, Kinds
<1>6. CASE Reinstall
  BY <1>6 DEF Reinstall
<1>7. CASE AutoLoginAnswer
  <2>1. /\ Answered("autologin") \in [Kinds -> Nat]
        /\ Answered("autologin")["login"] = pending["login"]
    BY <1>2, <1>7 DEF AutoLoginAnswer, Kinds
  <2>2. Sent(Answered("autologin"), {"list"})["login"] = pending["login"]
    BY <1>1, <2>1
  <2>3. pending' \in {Answered("autologin"), Sent(Answered("autologin"), {"list"})}
    BY <1>7 DEF AutoLoginAnswer, GoToMain, GoToLogin
  <2>4. token' \in {FALSE, token} /\ kakaoToken' = kakaoToken
    BY <1>7 DEF AutoLoginAnswer, DeleteToken
  <2>5. QED
    BY <1>3, <2>1, <2>2, <2>3, <2>4
<1>8. CASE LoginAnswer
  BY <1>8, <1>4 DEF LoginAnswer, KakaoTokenKept
<1>9. ASSUME NEW kind \in {"kakaoTalk", "kakaoAccount"}, Awaited(kind), token' = token,
             \/ KakaoSuccess(kind)
             \/ /\ pending' \in {Sent(Answered(kind), {"kakaoAccount"}), Answered(kind)}
                /\ UNCHANGED <<kakaoToken, indicator>>
      PROVE  KakaoTokenKept'
  <2>1. /\ Answered(kind) \in [Kinds -> Nat]
        /\ Answered(kind)["login"] = pending["login"]
    BY <1>2, <1>9 DEF Kinds
  <2>2. Sent(Answered(kind), {"kakaoAccount"})["login"] = pending["login"]
    BY <1>1, <2>1
  <2>3. QED
    BY <1>3, <1>4, <1>9, <2>1, <2>2 DEF KakaoSuccess
<1>10. CASE KakaoTalkAnswer \/ KakaoAccountAnswer
  BY <1>9, <1>10 DEF KakaoTalkAnswer, KakaoAccountAnswer
<1>11. CASE LogoutAnswer \/ RegisterAnswer \/ ListAnswer \/ LookupAnswer \/ UploadAnswer
  <2>1. token' \in {FALSE, token} /\ kakaoToken' = kakaoToken
    BY <1>11 DEF LogoutAnswer, RegisterAnswer, ListAnswer, LookupAnswer, UploadAnswer,
       StayingAnswer, DeleteToken
  <2>2. PICK kind \in {"logout", "register", "list", "lookup", "upload"} :
          /\ Awaited(kind)
          /\ pending' \in {Answered(kind), Sent(Answered(kind), {"list"}),
                           Sent(Answered(kind), {"register"})}
    <3>1. CASE LogoutAnswer
      BY <3>1 DEF LogoutAnswer, StayingAnswer, GoToMain
    <3>2. CASE RegisterAnswer
      BY <3>2 DEF RegisterAnswer, StayingAnswer, GoToMain
    <3>3. CASE ListAnswer
      BY <3>3 DEF ListAnswer
    <3>4. CASE LookupAnswer
      BY <3>4 DEF LookupAnswer
    <3>5. CASE UploadAnswer
      BY <3>5 DEF UploadAnswer
    <3>6. QED
      BY <1>11, <3>1, <3>2, <3>3, <3>4, <3>5
  <2>3. /\ Answered(kind) \in [Kinds -> Nat]
        /\ Answered(kind)["login"] = pending["login"]
    BY <1>2, <2>2 DEF Kinds
  <2>4. /\ Sent(Answered(kind), {"list"})["login"] = pending["login"]
        /\ Sent(Answered(kind), {"register"})["login"] = pending["login"]
    BY <1>1, <2>3
  <2>5. QED
    BY <1>3, <2>1, <2>2, <2>3, <2>4
<1>12. ASSUME NEW STATE K, "login" \notin K, token' = token, kakaoToken' = kakaoToken,
              pending' = Sent(pending, K) \/ pending' = pending
       PROVE  KakaoTokenKept'
  BY <1>0, <1>1, <1>3, <1>12
<1>13. CASE TapKakaoLogin \/ Submit \/ GoOut \/ LeaveRegister \/ OpenRecommend
            \/ Back \/ PickCategory \/ ConfirmLogout \/ UNCHANGED vars
  <2>1. CASE TapKakaoLogin \/ Submit \/ GoOut \/ LeaveRegister
    BY <1>12, <2>1 DEF TapKakaoLogin, Submit, GoOut, LeaveRegister, GoToMain
  <2>2. CASE OpenRecommend
    BY <1>12, <2>2 DEF OpenRecommend, Authorised, GoToLogin
  <2>3. CASE Back \/ PickCategory \/ UNCHANGED vars
    BY <1>12, <2>3 DEF Back, PickCategory, vars
  <2>4. CASE ConfirmLogout
    <3>1. token
      BY <2>4, DialogHasToken DEF ConfirmLogout
    <3>2. QED
      BY <1>12, <2>4, <3>1 DEF ConfirmLogout
  <2>5. QED
    BY <1>13, <2>1, <2>2, <2>3, <2>4
<1>14. ASSUME NEW tab \in Tabs, SelectTab(tab)
       PROVE  KakaoTokenKept'
  BY <1>12, <1>14 DEF SelectTab, GoToLogin
<1>15. ASSUME NEW page \in PageNames, OpenPage(page)
       PROVE  KakaoTokenKept'
  <2>1. "login" \notin Pages[page].sends
    BY PageNamesAre, PagesAre DEF Page
  <2>2. QED
    BY <1>12, <1>15, <2>1 DEF OpenPage, Authorised, GoToLogin
<1>16. QED
  BY <1>5, <1>6, <1>7, <1>8, <1>10, <1>11, <1>13, <1>14, <1>15 DEF Next

\* If no code goes without a handler and the app stays installed, a spinner over
\* the tabs always awaits the answer that dismisses it or leaves the screen.
THEOREM SpinnerOwned ==
    ASSUME SilentCodes = FALSE, Reinstalls = FALSE
    PROVE  Spec => []SpinnerHasOwner
<1>1. Init => SpinnerHasOwner /\ KakaoTokenKept
  BY DEF Init, SpinnerHasOwner, Shown, KakaoTokenKept, Awaited, Kinds
<1>2. Inv /\ SpinnerHasOwner /\ KakaoTokenKept /\ [Next]_vars
        => (SpinnerHasOwner /\ KakaoTokenKept)'
  BY OwnerSteps, KakaoSteps
<1>3. QED
  BY <1>1, <1>2, SpecInv, PTL DEF Spec

=============================================================================
