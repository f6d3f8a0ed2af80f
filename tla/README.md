# BunjangClone: specifications, model checking and proofs

BunjangClone is an iOS app (Swift, UIKit): a clone of a second-hand market place.
It browses items and categories, follows shops, registers items for sale, and
signs in through Kakao. The server is not in the repository; the app talks to it
with Alamofire, to Firebase Storage for pictures, and keeps its token in the
keychain (KeychainSwift). This directory models the app's own logic in TLA+,
checks it with TLC and proves theorems about it with TLAPS.

Paths below are relative to `src/BunjangClone/BunjangClone/`.

## Inventory

All the app's own code runs on the main thread: taps, the life cycle of view
controllers, and the completion handlers of the requests. Concurrency is the
order in which answers arrive among themselves and among the user's taps. No
request is ever cancelled, no answer is matched with the state it was asked in,
and a view controller that has left the screen still runs its handlers. Firebase
Storage, which the registration of an item rests on, works on queues of its own.

| Component | State | Operations | What is hard | What makes it correct |
|---|---|---|---|---|
| Session: `SceneDelegate`, `AutoLogin`, `Login`, `BaseViewController`, the guards of the tabs, `MyShop/Setting/LogoutDialog` | jwtToken in the keychain, Kakao token, root of the window, pushed pages, loaded tabs | launch, automatic login, Kakao login, logout, guest entry, tab selection, page opening and closing | late answers replace whatever root is shown; guards run once; process death; keychain survives reinstallation; unchecked keychain writes; silent error codes | an account's screen is loaded only with a token; `jwt!` never fails; every launch shows a screen |
| Shared UI: `IndicatorView`, `UIViewController` extension | the one spinner of the app and whether it covers the window | show, dismiss, alert (dismisses), change of root | shared by all screens, dismissed by any answer, survives the root | a spinner has an awaited answer that ends it |
| Home feed: `HomeViewController`, `HomeItemDataManager` | `page`, `ItemArray`, requests in flight | appear, disappear, last cell shown, answers | pages answered out of order, asked again on every appearance and while the screen is leaving, failed pages skipped | the copies of a page are bounded by the visits; paging skips none; rows stay where they are |
| Category browsing: `FirstCategory`, `SubCategory`, `SecondSub` | lists of categories and products, `isExpand` | load, expand, fold, drill down | answers to expand and fold overtake each other; the product list and the categories race | the head of the list is always "전체보기"; with one answer awaited the list is the one asked for |
| Detail: `DetailViewController` | one item on screen | load, show | forced indices into the answer | prices are shown as the source formats them |
| Register: `RegisterViewController`, the pickers, `RegisterDataManager` | the form, uploads and posts in flight | edit, toggle, pick, submit, upload, fetch the URL, post | the item is built from the fields when the upload ends, not when it was submitted; double submission; changes of session in between | nego and shipping exclude each other; a nego item has no price; what is posted was valid when it was submitted |
| Storage upload: `../Pods/FirebaseStorage`, `../Pods/GTMSessionFetcher` | an upload task with its observers; a fetcher with the address of its session, its offset, the chunk or query in flight | begin, first request and its repetition, prepare and send a chunk, query, cancel, tell the completion | lost requests and answers, chunks that break off or arrive after they were given up, two offsets for one chunk, cancellation against the end of the fetch on another queue | the bucket holds a prefix of the picture; the completion is called once, truthfully, and in the end; a cancelled upload sends at most the chunk it had made the request for |
| Following: `FollowingViewController` | segments, arrays, tables | appear, switch segment, follow, unfollow | every appearance builds new tables and segments; flags and array drift apart | the feed shows the followed shops; a shop is followed at most as often as it was received; only old views and incomplete records end the process |
| Helpers: `String`, `Date`, `Color` extensions | none | pure functions | boundaries of indices | substring is what it says within its bounds |
| Talk, MyShop screens, cells, header views | none of their own | layout | nothing | nothing |

## Plan

The gate between guests and accounts comes first, for every screen stands behind
it; then the chain of requests that posts an item; then the lists.

1. `SessionGate`, the abstract specification, and `Session`, which implements it;
   `SessionProofs`.
2. `Registration`, the abstract specification of posting an item once, and
   `Register`, which implements it: the form and the upload pipeline;
   `RegisterProofs`.
3. `HomeFeed`: pagination; `HomeFeedProofs`.
4. `CategoryBrowse`, `Following`, `Conversions`.
5. `UploadCall`, the abstract specification of one `putData`; `UploadFetcher` and
   `StorageUpload`, which composes the fetcher with the task around it and
   implements it; `StorageUploadProofs`.
6. Proofs about 4: `CategoryBrowseProofs`, `FollowingProofs`,
   `ConversionsProofs`.
7. A composition of the session with the register pipeline (see "Next").

The modules of the app's screens do not EXTEND one another: each keeps, of the
others, the one fact it needs as a nondeterministic step (`Register` a token
that may come and go, `HomeFeed` and `Following` a spinner that another screen's
answer dismisses). `Register` sees an upload as `UploadCall` promises it: an
answer at most once, and an error says nothing about the picture. Every `MC`
module EXTENDS one specification and gives its constants.

## Modules and the code

Each definition stands for the lines `PROJECT.json` names under "map". Definitions
whose comment says "Variant for the runs" are not part of any specification:
they are plausible mistakes in one handler, put in its place to see that a
property notices. `TypeOK` is the one type invariant of each module.

### `SessionGate` and `Session`

`SessionGate` is the promise: four places (away, the entrance, the public
screens, an account's screens) and whether a token is stored. An account's
screens open only from the public ones and only with a token, and no step
changes the token while they stay open.

`Session` is the code. `token` is the jwtToken in the keychain, `kakaoToken` the
one Kakao's SDK keeps in the user defaults, `root` the root view controller of
the window (`stopped`: no process; `blank`: before `makeKeyAndVisible`;
`crashed`: a failed unwrap), `above` the controllers pushed or presented over
it, `loaded` the tabs whose `viewDidLoad` has run, `indicator` the shared
spinner (`covering`: it takes every touch; `covered`: it is in the window but
under the view of a root set later), and `pending` the requests in flight,
counted by kind. Actions are the taps (`SelectTab`, `OpenPage`, `Back`,
`ConfirmLogout` ...) and the answers (`AutoLoginAnswer`, `LoginAnswer` ...). A
request's answers are `success`, `failure` (connection, timeout, decoding),
`coded` (a code whose branch does more than print) or `silent` (a code that is
only printed, by the default or by a branch of its own: 3006 and 3000 of the login,
2000 and 3000 of the logout, 3007 of the categories).
The screens that open over others are one definition each (`AllCategories` ...
`GoOutDialog`).

Choices where the code leaves it to a library: a keychain write whose result
the code ignores may fail; after a change of the root the spinner that is still
in the window may be over the new view or under it; Kakao may never call back.

Merged into one step: the block a handler dispatches to the main queue runs
with its handler. Left out: that UIKit's alerts are modal, the slide-up menu of
the login screen and what it may reopen over a replaced root, and the
disconnection and reconnection of the scene without the process ending.

### `HomeFeed`

`itemArray` has one entry, the number of the page, for the items of a page;
`waiting` holds the requests with a number of their own, so that two requests
for one page are two; `blocks` are the blocks `setProduct` has dispatched and
that have not run: here the gap between handler and block is modelled, for it is
where a tap on a row can meet a longer array. `visits`, `asks` and `lost` record
history for the properties. `willDisplay` asks nothing about the screen, so it
may page in every state with a row: `viewWillDisappear` turns `page` back while
the view is still laid out, and a reload in the transition pages again.
Hence two copies of a page for every appearance, not one (`TwicePerVisit`). A step
`OtherAnswer` dismisses the spinner for the requests of all other screens.

### `Registration` and `Register`

`Registration` is the promise, seen from the bucket and the server: a submission
is made, stores its own picture at most once, sends its item at most once and
only then, and may end at any point.

`Register` is the code. `forms` are all the view controllers of the process,
alive as long as a closure holds them, with the fields the item is built from;
`submissions` the calls of `uploadImage`, each with its stage in the chain
`putData`, `downloadURL`, `registerItem`; `storage` the pictures in the bucket
by name. `asked` is what the user submitted until the form is edited, `item`
what is sent. The end of the process (`Relaunch`) may leave an upload on its way
to the bucket. The session is reduced to a Boolean that may change at any time
(`SignIn`, `SignOut`), the three pickers to one step, the price to a number,
nothing, or words. The mapping `Phases` reads the phase of a submission off its
stage, `Claims` its name and picture off its record.

### `UploadCall`, `UploadFetcher` and `StorageUpload`

`UploadCall` is the promise of `putData`: its completion is called at most once,
with success only for a picture that is stored whole.

`UploadFetcher` is GTMSessionUploadFetcher over the resumable protocol. `at` says
which callback it waits for (the first request, its repetition, the bytes of a
chunk, a chunk, a query), `wire` and `reply` where that request or its answer is,
`offset` its `currentOffset`. It announces an offset rounded down to the server's
granularity and cuts the bytes from the offset as it is: `ChunkAt` keeps both. A
chunk that fails is given up, may still arrive (`strays`), and is followed by a
query and a new chunk from where the server stands. The server and the network
are external: requests and answers are lost, a connection breaks in the middle of
a chunk, the server refuses an offset that is not where it stands.

A chunk is prepared and begun in two steps, each a callback on the main queue: the
address is copied into the chunk's request before its block is dispatched
(`addressed`), and the block does not ask again, nor for a stop. A stop in
between finds no fetcher of a chunk to end, and that chunk is sent.

`StorageUpload` adds FIRStorageUploadTask: `cancel` runs on the storage queue in
four steps (`CancelDestroys` ends the fetcher of a chunk that has begun,
`CancelForgets` tells the server and forgets the address, `CancelStops` ends the
first request, `CancelFires` fires the handlers) between which the main queue goes
on. Where no address has come yet there is nobody to tell, and an answer that brings
it between these steps goes on with the upload, which no property denies. The end of the fetch takes two. `blocks` are the handlers on the main queue, `told` what the completion was given.
The app itself never calls `cancel`; the library's clients may, and it is the
only rival of the fetch's end.

### `CategoryBrowse`

`stack` is the navigation stack, each screen a path in the tree of categories
with the rows it shows and its `isExpand`; `waiting` the requests, each for the
screen that asked. `picking` tells the browser of the home tab from the pickers
of the form, which lies right below the first of them: the third picker takes what
is three screens below itself for the form (`IsForm`), and the process ends
(`trapped`) where it is not. `disturbed` marks a screen whose list was asked for while another
answer for it was awaited, or that got an answer without a list; every other
screen has to show its own list. Rows are sets:
the order within a list is the server's. Which products are shown is left out,
their answers are not, for they dismiss the spinner.

### `Following`

`subviews` is the content view with the views of all appearances, the front
last, `generation` the current appearance, `rows` the number of rows each table
showed at its last `reloadData`, the arrays those of the view controller.
`CellForRow` is `cellForRowAt` with its traps: a cell in a recommend table that is
not the current one is made for the wrong kind of table and fails the forced cast;
a row may be past the end of an array that is shorter by now; and the record
may lack what is unwrapped or indexed in it (`Incomplete`: no follower or product
count, fewer posts than pictures in the cell, or no user, `Anonymous`, which is also
read of every followed shop and by the button). `MakeCell` is the step in which it
traps; cells on screen are made before the next touch (`LaidOut`), so a button only
stands in a row whose cell could be made, now or when its table was current.
Content is never emptied, so later controls have more than three segments, all of
which show the feed; `Segments` has one for those, which can be selected again,
for another of them is meant. Removing a view takes it out of `subviews` where it
stands (`RemoveAt`). The server is taken never to send `isFollowing`.

Flags and array do drift apart: following, unfollowing and following a shop again
leaves its flag true and the shop out of the array, and unfollowing it in the other
table leaves the flag. `FollowedOncePerFetch` is the one direction that holds, an
upper bound.

### `Conversions`

`String.substring`, `String.get`, `String.insertComma`, and the part of
`DetailViewController.setUp` that shows the shop's other items. A behaviour is
one call. A string is a sequence of characters; `trapped` says that Swift ended
the process at an index outside the string or the labels. `insertComma` is
called on digits, points and commas, at most fifteen of them: a `Double` holds
such a number exactly, so that the formatter shows the digits that were typed.
`Formatted` is its decimal style in closed form, counted from the right, and
external to the repository. `CommasGroupThousands` is about what `insertComma` makes
of it: for every text it says what is grouped (the whole part, or a zero for a
missing one), that the point and what follows it are kept as they are, and which
texts come back unchanged. What grouping by thousands is, it states independently.

## Runs

| Run | Instance | Shows |
|---|---|---|
| `session_safety` | `MaxInFlight` 5, unhandled codes, reinstallation | `AccountScreensNeedToken`, `NeverUnwrapsMissingToken`, `AutoLoginOnlyAtLaunch`, and `KeepsGate`: `Session` implements `SessionGate` under the mapping `Place` |
| `session_handled` | `MaxInFlight` 4, only handled codes, fairness | `SpinnerHasOwner`, and as liveness `LaunchResolves` and `SpinnerClears` |
| `home_feed` | 3 pages, 3 visits, 6 requests, fairness | `TwicePerVisit`, `NoSkippedPage`, `StartsWithFirstPage`, `RowsKeepTheirItems`, and as liveness `PagesArrive` |
| `register_oneform` | 1 form, 2 submissions, 2 pictures, 1 name, fairness | `NegoFormHasNoPrice`, `SentItemsArePriced`, `PictureIsStored`, `PostedOnce` (`Register` implements `Registration`), and as liveness `SubmissionsEnd` |
| `register_twoforms` | 2 forms, 2 submissions | `SentAsSubmitted` |
| `register_price` | 1 form, 1 submission | finding: the forced unwrap of the price fails |
| `category_browse` | 7 categories on 3 levels, 4 screens, 8 requests | `PathsLead`, `ChosenIsAPath`, `ListMatchesButton` |
| `following` | 4 shops, 2 of them incomplete, 3 appearances, 2 lists | `NotSaidEmpty`, `FollowedOncePerFetch`, `FeedShowsFollowed`, `CrashesHaveCause` |
| `following_cast` | 2 shops, 2 appearances, 1 list | finding: the forced cast of a cell fails |
| `conversions` | every call on bounded arguments | `SubstringIsSlice`, `CommasGroupThousands`, `InsertCommaIdempotent`, `LabelsMatchItems` |
| `storage_upload` | 11 bytes in chunks of 4, 2 repetitions, 2 late chunks, fairness | `PrefixIsIntact`, `OneChunkAfterCancel`, `CompletionIsDue`, `CallIsKept` (`StorageUpload` implements `UploadCall`), and as liveness `ToldInTheEnd` |
| `storage_upload_done` | the same | finding: an answer that every byte was received does not end the upload |

### Why the bounds are enough

* `MaxInFlight`: requests of one kind are interchangeable, and two in flight can
  already be answered in both orders; a third can dismiss the spinner of either.
  The browser's screens send two at once, so that 5 leaves room for a screen's two
  requests beside a logout, a login and a list. The proofs hold for every value.
* `HomeFeed`: an answer of the first visit can arrive in the second and one of
  either in the third; a page past the last one can be asked for. Six requests
  let a screen page during a visit, while it leaves and in the next visit. Again
  proved without the bounds.
* `Register`: two submissions are the smallest number that can overwrite each
  other's picture and overtake each other; two forms the smallest that can be
  confused. One submission is enough for a failed unwrap. With two submissions
  there is one name, the storyboard's (and the empty text): two names only keep
  apart what one lets collide. `RegisterProofs` has no such bounds.
* `StorageUpload`: eleven bytes and chunks of at most four (five, rounded down to
  the granularity of two) make two chunks and a last one of an odd length, joined
  by the rule for short remainders when a broken chunk leaves less; a break can
  leave the server between two multiples of the granularity. Two late chunks can
  arrive in either order, also after the next query.
* `CategoryBrowse`: three screens are the depth of the tree and the most a walk
  down opens; a fourth lets a picker be left and opened again on the way to the
  last one. With them a popped screen can still be answered while a screen of
  another category is in its place. Eight requests leave two presses of the
  button beside the requests of the three screens. The tree has categories with
  two and with one sub category, one hidden by a folded list, and a category of
  its own kind under each of the first level, so that a wrong parent is visible.
* `Following`: a third appearance meets views of two earlier ones. Two shops make
  the row numbers of two buttons differ, and two lists make a shop be received
  again while it is followed. A list of one shop without enough posts and one
  without a user is shown under the rows of an old table, whose buttons follow
  them. One row fits the screen, so that the second is made by scrolling.
* `Conversions`: lengths on both sides of one, two and three commas, points and
  commas in every place, every index two past either end of the longest text
  (`Reach`), prices on both sides of ten thousand, one item more than labels.

`CHECK_DEADLOCK FALSE` stands where the system may stop: `HomeFeed`,
`CategoryBrowse` and `Following` run out of their bounds, and a code that is only
printed leaves the spinner over everything; a behaviour of `Conversions` is one
call. In `Session` and `Register` the process can always be ended and launched
again, and deadlock is checked.

### Fairness

Alamofire calls every completion handler, at the latest with the failure of its
timeout, so each answer has weak fairness in the `FairSpec` of `Session` and
`HomeFeed`, and so has the main queue, which runs the blocks of `setProduct`;
the same holds for Firebase and the server in `Register!FairSpec`. In
`StorageUpload` the queues and the fetcher's callbacks are weakly fair
(`GTMSessionFetcher` ends every request, with its timeout if need be), and only
one step is strongly fair: a chunk that is sent again and again is received some
time. `ToldInTheEnd` still allows the server to stay where the fetcher can begin
no chunk, for the code has no bound on the rounds of query and chunk. Nothing
else is fair: nobody has to tap, launch, or come back from Kakao's app, and no
upload has to be started. `UploadAnswer` needs no fairness in `Session`, for it
dismisses nothing. `session_handled` assumes that the server only sends codes
the handlers do more with than print, and that the app is not reinstalled; with either,
a spinner can stay for ever, which is listed under "hazards".

## Findings

* `RegisterViewController.swift:128` unwraps `Int(priceTextField.text!)!`. The
  check before only says that the text is not empty; the keyboard is the default
  one, and the field is emptied by the nego box during the upload. The process
  ends with the picture stored and no item posted (`register_price`).
* `FollowingViewController.swift:280` casts every cell of a table that is not the
  current `recommendTableView` to `FollowingCell`. Each appearance replaces that
  table and leaves the old one in front: scrolling the recommendations after
  coming back to the tab ends the process (`following_cast`).
* `GTMSessionUploadFetcher.m:1154` takes an answer to a query with every byte
  received for the end ("Handle we're done") and passes the query's fetcher on as a
  chunk's. Unless the session is closed too, that begins a chunk again at the old
  offset (`storage_upload_done`).

## Proofs

Seven modules hold theorems, for every value of the constants their assumptions
allow (`SessionAssumption`: a natural number and two Booleans;
`HomeFeedAssumption`: three natural numbers; `RegisterAssumption`: any sets of
pictures and names, the storyboard's name among them; `UploadAssumption`: any
lengths other than zero, and natural numbers; `CategoryAssumption`: any tree of
categories whose folded lists are part of the full ones; `FollowingAssumption`:
any recommendations of any shops; `ConversionAssumption`: any strings and prices,
and numerals a `Double` holds exactly). Each proves one inductive invariant
`Inv`, step by step, and reads the properties off it.

### `SessionProofs`

`TypeCorrect`, `AccountScreensSafe`, `UnwrapSafe`, `AutoLoginAlone`,
`SessionImplementsGate`, `SpinnerOwned`.

The safety properties are not inductive alone. A guard runs once, so the
invariant has to say what a loaded tab remembers: `RootLoaded` (the tab in front
is loaded, and none is when no tab bar is the root). The unwrap of the token in
the logout is safe because of where its dialog can be: `SettingsOverMyShop` says
the settings and the dialog are over the shop tab only, which passed its guard,
so that `AccountScreensNeedToken` gives the token. `UnseenIsIdle` says nothing is
open over, or awaited behind, a window that is not visible yet; that is why the
automatic login, which may delete the token, never meets a session. The
refinement follows step by step: `GoToMain` maps to `ToPublic` whatever became of
the token, a guard that fails to `TurnAway`, one that passes to `EnterAccount`,
and answers that stay on the screen to stuttering.

`SpinnerOwned` assumes `SilentCodes = FALSE` and `Reinstalls = FALSE` and needs one
more conjunct, `KakaoTokenKept`: who has a token of the app has one of Kakao, so
the logout dialog never shows the spinner without sending its request.

### `HomeFeedProofs`

`TypeCorrect`, `PagesAskedTwicePerVisit`, `NoPageIsSkipped`, `FirstPageFirst`,
`RowsStay`.

* The pages asked for, wherever they are by now (on screen, in a queued block, in
  flight, lost), are an initial segment of the numbers, which from the first visit
  on reaches to `page` (`KnownIsInitial`): the next page extends it by one, and
  answers and blocks only move a page.
* Only an appearance and the turning back of `page` let a page be asked for again:
  two copies per appearance, one fewer while the screen has still to leave, and
  one fewer for a page beyond `page` (`FewerBeyond`). The counts are cardinalities of sets of positions
  and of requests, so lemmas say what `Append`, `Tail`, a new request and an
  answered one do to them. Requests are distinct by their numbers
  (`RequestsNumbered`).
* While nothing is on screen only page 1 was ever asked for (`OnlyFirstIntoEmpty`),
  since `willDisplay` needs a row; hence the first block to run is of page 1.

### `RegisterProofs`

`TypeCorrect`, `NegoPriceLocked`, `SentPriced`, `SentUnchanged`, `PictureIsThere`,
`PostsOnce`.

* What is sent was checked two answers earlier, on a form that may have changed.
  `SubmittedFormsHaveCategory` says that no edit takes a category away, and
  `NegoFormHasNoPrice` that a form up for negotiation has no price: a listing
  whose price is a number when the URL is known is therefore not up for
  negotiation and has its category.
* `AskedIsOnForm` ties a submission, until its item is sent, to the form that made
  it: its fields are those submitted, or the form was edited and nothing is
  claimed. An edit of another form cannot touch it.
* A picture, once stored, can only be replaced by one submitted under the same
  name (`PictureStays`).
* Every step maps to one of `Registration` or a stutter (`StepIsSeen`); a relaunch
  ends several submissions at once.

### `StorageUploadProofs`

`TypeCorrect`, `PrefixAlwaysIntact`, `CancelledForGood`, `CallKept`,
`CompletionAlwaysDue`.

* `OffsetsArePassed` is the heart: where the fetcher, and every chunk given up,
  believes the server to stand, the server stands or has passed. The server takes
  only a chunk announced where it stands, so the bytes cut from the unrounded
  offset are the right ones.
* `RepliesAreTrue` carries this through answers on the way, `FinalIsWhole` says
  that a closed session has every byte.
* `AddressForgotten`: an upload that was called off has no address any more, nor a
  first request that could bring one. What it still sends is the chunk whose request
  had been made with the address, at most one (`CancelledForGood`).
* `OutcomeIsTrue` follows success from the final callback through the task and
  the queued handlers to the completion, whatever `cancel` adds to the queue.

* `CompletionAlwaysDue` is the half of `ToldInTheEnd` that needs no fairness: as
  long as the completion was not called, something is left that will call it. Its
  strengthening `Due` says that until a handler is queued the task still has its
  observers (`HandlersFired`), and that until the task was given a result the
  fetcher holds its handler or has its final callback under way, which a stop may
  drop only because `cancel` is about to fire the handlers (`HandlerHeld`).

### `CategoryBrowseProofs`

`TypeCorrect`, `PathsLeadAlways`, `ChosenAlways`, `ListMatchesAlways`.

Answers are not matched with the state they were asked in; they do no harm
because of what a request carries. `RequestsInStep` says that a request has the
path of the screen that made it, and asks for the list that screen is to show,
unless the screen is disturbed; `SerialsDiffer` that no other screen, opened
before or after, can be taken for that one. A list that arrives therefore
continues its screen's path (`ScreensOnPath`), which makes every screen opened
from one of its rows stand on a path of the tree (`RowLeadsOn`), and the third
picker hand on three real categories; `PickersInOrder`, that each picker is one level
below the one under it, makes it find the form; a picker never lists "전체보기", whatever is
behind it. `ListMatchesButton` follows for every screen, browser or picker, in
front or covered: the last list to be awaited is the one its button stands for.

### `FollowingProofs`

`TypeCorrect`, `NotSaidEmptyAlways`, `FollowedOnceAlways`, `FeedAlways`,
`CrashesHaveCauseAlways`.

* `CrashesHaveCause` needs to know which tables can be touched: `ViewsOfBefore`
  says that nothing is of a later appearance and that such tables have no rows
  yet, `RowsFit` that the current tables which can be touched show no more rows
  than the array behind them has. The array of the followed shops shrinks while
  its table is in front, so each step says which table it reloads. What is in the arrays was received
  (`HeldWasReceived`), so a record that traps is one the server sent.
* `FollowedOncePerFetch` counts: `EntriesReceived` bounds the recommendations of a
  shop by how often it was received, and a flag turned back lets a shop be
  followed again only if it is not in `followingArray`. The counts are
  cardinalities of sets of positions, and the lemmas on them say what removing an
  element, setting a flag or joining two sequences does.
* The step on the segments is proved once, for any table put in front and any
  array it shows (`ShownInv`), and used for all that show one.

### `ConversionsProofs`

`SubstringAlways`, `CommasAlways`, `IdempotentAlways`, `LabelsAlways`.

A behaviour is one call, so the invariant is no more than the properties; the
work is in the functions. Commas are arithmetic: a digit with `k` digits to its
right has `Place(k)` characters there, `Rank` is its inverse, and a comma has
`4c + 3`. From this follow where each digit stands (`PositionOfDigit`,
`DigitAtPosition`), how many digits are right of a comma (`DigitsRightOfComma`,
by a bijection in `Counted`), and how the formatter groups (`ShownGroups`).
`Inserted` is `CommasGroupThousands`: a case for no point, one for one point, with a
number before it or without, and one for several; `WholeOfText` says where the whole
part ends, `Apart` that what was put together is found again. That
`insertComma` changes nothing the second time is a matter of cases: zeros at the
head are gone after the first (`NoZerosToRemove`), a result with a comma is no
number, and one without has three digits at most (`FormattedOnce`); a point
keeps what is behind it (`WithPointOnce`).

### Only model-checked

Liveness (`LaunchResolves`, `SpinnerClears`, `PagesArrive`, `SubmissionsEnd`,
`ToldInTheEnd`) is out of the prover's reach. Of two the half that needs no
fairness is proved: a spinner has an awaited answer that ends it
(`SpinnerOwned`), and a completion not called is still due
(`CompletionAlwaysDue`). That a list of categories arrives is stated without
fairness from the start: one that is not shown is still awaited
(`ListMatchesButton`), and every answer comes, if only as its timeout. Every
other property of the passing runs is stated by a theorem. The findings are
counterexamples of TLC.

## Not modelled

The server, of which only the answers are known; layout, fonts, colours, cells and
header views; the decodable records beyond the fields the handlers branch on; the
labels of the detail screen other than the shop's other items; `setFollowing` and
`FollowingDataManager`, whose call is commented out; classes that no screen opens;
and the libraries under `Pods` other than the upload, which appear as the steps
the handlers depend on. They are by far the most of the repository's lines (gRPC,
BoringSSL, Firestore, Abseil, leveldb: vendored C, C++ and Objective-C, most of
which the app never calls), so that the models cover a small share of the whole
and most of the app's own logic. Of the upload, pause and resume, files and data
providers, background sessions, authorisation and progress are left out: the app
keeps no handle of the task and hands over bytes. `Date.fileName` is left out:
nothing calls it. Which picture a recycled cell shows cannot be told from the
source, for the helper that loads it is missing from the repository.
`PROJECT.json` lists every component with its reason.

## Next

1. `Session` and `Register` composed, with tokens that differ by account: with
   whose token an item is posted, and which token a late logout deletes.
2. The login's slide-up menu and the scene's disconnection in `Session`; modal
   alerts.
3. The same half of the other liveness properties as invariants, with proofs: a
   launch that shows nothing yet awaits the automatic login, a page not on screen
   is queued, in flight or lost, a submission not ended is awaited.
