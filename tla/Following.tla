------------------------------ MODULE Following ------------------------------
(***************************************************************************)
(* The following tab: three segments (the feed of the followed shops, the  *)
(* shops, recommendations) over one content view.                          *)
(*                                                                         *)
(* Every appearance makes a new segmented control and new tables, and what *)
(* the earlier ones left in the content view stays there, with this screen *)
(* as its data source.  A table keeps the number of rows of its last       *)
(* reload; its buttons carry a row number, and its cells are made by the   *)
(* table the screen takes it for.  Following is only kept in the arrays of *)
(* this screen.  A cell needs a record with a user, its numbers and enough *)
(* posts, which the server need not send.                                  *)
(***************************************************************************)
EXTENDS Naturals, Sequences, FiniteSets, SequencesExt

CONSTANTS
    Shops,            \* the shops
    Incomplete,       \* those whose record no cell of a table can be made of
    Anonymous,        \* those among them whose record has no user
    Recommendations,  \* the lists the server may recommend
    RowsOnScreen,     \* rows that fit on the screen
    MaxAppearances,   \* bound: appearances of the screen
    MaxFetches        \* bound: recommendations asked for

ASSUME FollowingAssumption ==
    /\ Incomplete \subseteq Shops
    /\ Anonymous \subseteq Incomplete
    /\ Recommendations \subseteq Seq(Shops)
    /\ RowsOnScreen \in Nat
    /\ MaxAppearances \in Nat
    /\ MaxFetches \in Nat

VARIABLES
    visible,         \* is the tab on screen?
    generation,      \* how often it appeared; its views are of this generation
    segment,         \* selectedSegmentioIndex of the control in front, see Segments
    subviews,        \* what is in contentView, the front last
    rows,            \* the rows each table showed at its last reload
    followingArray,  \* the followed shops
    recommendArray,  \* the recommended shops and their isFollowing
    postArray,       \* the shops whose posts are in the feed
    covering,        \* does the spinner take every touch?
    waiting,         \* recommendations not answered yet
    fetches,         \* recommendations asked for
    received,        \* how many recommendations listed a shop
    crashed          \* no crash, a failed cast, an index out of range, or a record
                     \* without what is unwrapped or indexed in it

vars == <<visible, generation, segment, subviews, rows, followingArray, recommendArray,
          postArray, covering, waiting, fetches, received, crashed>>

arrays == <<followingArray, recommendArray, postArray>>
network == <<covering, waiting, fetches, received>>

-----------------------------------------------------------------------------
\* content is not emptied, so that the control of the n-th appearance has 3 * n
\* segments.  Those after the first three are one here, 3: from each of them another
\* one can be selected, and all do the same.
Segments == 0..3

Tables == [kind : {"following", "recommend", "feed"}, generation : 1..MaxAppearances]

EmptyView == [kind |-> "empty", generation |-> 0]

\* The followingTableView, recommendTableView or collectionView of now.
Current(kind) == [kind |-> kind, generation |-> generation]

\* removeFromSuperview; a view is in the content view at most once.
Removed(views, view) ==
    IF \E i \in DOMAIN views : views[i] = view
    THEN RemoveAt(views, CHOOSE i \in DOMAIN views : views[i] = view)
    ELSE views

Without(first, second) == Removed(Removed(subviews, first), second)

\* Variant for the runs: a view can be in the content view twice.
WithInFrontAgain(views, view) == Append(views, view)

\* addSubview brings a view to the front, also one that is in the view already.
WithInFront(views, view) == Append(Removed(views, view), view)

\* How often a shop is in an array of shops.
Times(array, shop) == Cardinality({i \in DOMAIN array : array[i] = shop})

FrontIs(view) == subviews # <<>> /\ Last(subviews) = view

\* The array a table's cells are made from.
Behind(table) ==
    CASE table.kind = "following" -> followingArray
      [] table.kind = "recommend" -> recommendArray
      [] table.kind = "feed"      -> postArray

\* Is what cellForRowAt unwraps and indexes in the record of a row there?  Making a
\* recommendation also reads the user of every followed shop.
HasRecord(table, row) ==
    CASE table.kind = "following" -> followingArray[row] \notin Incomplete
      [] table.kind = "recommend" ->
             /\ recommendArray[row].shop \notin Incomplete
             /\ \A i \in DOMAIN followingArray : followingArray[i] \notin Anonymous
      [] table.kind = "feed"      -> TRUE

\* What becomes of making the cell of a row.  An old recommend table is taken for
\* a following table, whose cell it has not registered; the array behind the other
\* old ones may be shorter by now.
CellForRow(table, row) ==
    IF table.kind = "recommend" /\ table # Current("recommend") THEN "cast"
    ELSE IF row > Len(Behind(table)) THEN "index"
    ELSE IF HasRecord(table, row) THEN "no"
    ELSE "record"

\* The cells on screen of a table that was reloaded are made before the next touch.
LaidOut ==
    \A t \in Tables : \A row \in 1..rows[t] :
        FrontIs(t) /\ t = Current(t.kind) /\ row <= RowsOnScreen => CellForRow(t, row) = "no"

CanTouch == visible /\ ~ covering /\ crashed = "no" /\ LaidOut

IsFollowing == {"nil", "true", "false"}

Init ==
    /\ visible = FALSE
    /\ generation = 0
    /\ segment = 1
    /\ subviews = <<EmptyView>>
    /\ rows = [t \in Tables |-> 0]
    /\ followingArray = <<>>
    /\ recommendArray = <<>>
    /\ postArray = <<>>
    /\ covering = FALSE
    /\ waiting = 0
    /\ fetches = 0
    /\ received = [s \in Shops |-> 0]
    /\ crashed = "no"

\* The segment is set before valueDidChange is, so nothing is put on screen.
ViewDidAppear ==
    /\ ~ visible
    /\ crashed = "no"
    /\ generation < MaxAppearances
    /\ visible' = TRUE
    /\ generation' = generation + 1
    /\ segment' = 1
    /\ UNCHANGED <<subviews, rows, arrays, network, crashed>>

\* Another tab is selected.
Disappear ==
    /\ CanTouch
    /\ visible' = FALSE
    /\ UNCHANGED <<generation, segment, subviews, rows, arrays, network, crashed>>

-----------------------------------------------------------------------------
\* valueDidChange: segment 2, segment 1, and every other.
SelectRecommend ==
    LET table == Current("recommend")
    IN  /\ fetches < MaxFetches
        /\ subviews' = WithInFront(Without(Current("following"), Current("feed")), table)
        /\ rows' = [rows EXCEPT ![table] = Len(recommendArray)]
        /\ covering' = TRUE
        /\ waiting' = waiting + 1
        /\ fetches' = fetches + 1
        /\ UNCHANGED <<arrays, received>>

\* Variant for the runs: the table is shown again without a reload.
SelectFollowingUnloaded ==
    LET table == Current("following")
        rest == Without(Current("recommend"), Current("feed"))
    IN  /\ subviews' = IF followingArray = <<>>
                       THEN Removed(rest, table)
                       ELSE WithInFront(Removed(rest, EmptyView), table)
        /\ rows' = IF rows[table] > 0 THEN rows
                   ELSE [rows EXCEPT ![table] = Len(followingArray)]
        /\ UNCHANGED <<arrays, network>>

SelectFollowing ==
    LET table == Current("following")
        rest == Without(Current("recommend"), Current("feed"))
    IN  /\ IF followingArray = <<>>
           THEN /\ subviews' = Removed(rest, table)
                /\ UNCHANGED rows
           ELSE /\ subviews' = WithInFront(Removed(rest, EmptyView), table)
                /\ rows' = [rows EXCEPT ![table] = Len(followingArray)]
        /\ UNCHANGED <<arrays, network>>

\* Variant for the runs: the posts of before stay in the feed.
SelectFeedOnTop ==
    LET table == Current("feed")
        rest == Without(Current("following"), Current("recommend"))
    IN  /\ IF followingArray = <<>>
           THEN /\ subviews' = WithInFront(Removed(rest, table), EmptyView)
                /\ UNCHANGED <<rows, postArray>>
           ELSE /\ subviews' = WithInFront(Removed(rest, EmptyView), table)
                /\ postArray' = postArray \o followingArray
                /\ rows' = [rows EXCEPT ![table] = Len(postArray')]
        /\ UNCHANGED <<followingArray, recommendArray, network>>

\* Variant for the runs: the empty view stays where it is.
SelectFeedKeepingEmpty ==
    LET table == Current("feed")
        rest == Without(Current("following"), Current("recommend"))
    IN  /\ subviews' = IF followingArray = <<>>
                       THEN WithInFront(rest, EmptyView)
                       ELSE <<table>> \o Removed(rest, table)
        /\ postArray' = followingArray
        /\ rows' = [rows EXCEPT ![table] = Len(followingArray)]
        /\ UNCHANGED <<followingArray, recommendArray, network>>

SelectFeed ==
    LET table == Current("feed")
        rest == Without(Current("following"), Current("recommend"))
    IN  /\ IF followingArray = <<>>
           THEN /\ subviews' = WithInFront(Removed(rest, table), EmptyView)
                /\ UNCHANGED <<rows, postArray>>
           ELSE /\ subviews' = WithInFront(Removed(rest, EmptyView), table)
                /\ postArray' = followingArray
                /\ rows' = [rows EXCEPT ![table] = Len(followingArray)]
        /\ UNCHANGED <<followingArray, recommendArray, network>>

\* A segment of the control in front, or recommendButtonPressed in the empty
\* view; the control only reports a change.
SelectSegment(index) ==
    /\ CanTouch
    /\ IF index = 3 THEN generation > 1 ELSE index # segment
    /\ segment' = index
    /\ CASE index = 2 -> SelectRecommend
         [] index = 1 -> SelectFollowing
         [] OTHER     -> SelectFeed
    /\ UNCHANGED <<visible, generation, crashed>>

-----------------------------------------------------------------------------
\* setRecommend: none of the shops received carries an isFollowing.
RecommendSuccess(list) ==
    /\ crashed = "no"
    /\ waiting > 0
    /\ waiting' = waiting - 1
    /\ covering' = FALSE
    /\ recommendArray' = [i \in DOMAIN list |-> [shop |-> list[i], isFollowing |-> "nil"]]
    /\ received' = [s \in Shops |->
                       received[s] + Times(list, s)]
    /\ rows' = IF generation = 0 THEN rows
               ELSE [rows EXCEPT ![Current("recommend")] = Len(list)]
    /\ UNCHANGED <<visible, generation, segment, subviews, followingArray, postArray,
                   fetches, crashed>>

\* A failure shows an alert, a code is only printed.
RecommendFailure ==
    /\ crashed = "no"
    /\ waiting > 0
    /\ waiting' = waiting - 1
    /\ covering' \in {FALSE, covering}
    /\ UNCHANGED <<visible, generation, segment, subviews, rows, arrays, fetches,
                   received, crashed>>

\* The spinner is shared: the answer to another screen's request dismisses it.
OtherAnswer ==
    /\ crashed = "no"
    /\ covering
    /\ covering' = FALSE
    /\ UNCHANGED <<visible, generation, segment, subviews, rows, arrays, waiting,
                   fetches, received, crashed>>

\* Variant for the runs: the followed shop stays.
FollowingAsBefore(shop) == followingArray

\* followingArray without the first entry of a shop.
FollowingWithout(shop) ==
    LET found == {i \in DOMAIN followingArray : followingArray[i] = shop}
    IN  IF found = {} THEN followingArray
        ELSE RemoveAt(followingArray, CHOOSE i \in found : \A j \in found : i <= j)

Crash(how) ==
    /\ crashed' = how
    /\ UNCHANGED <<visible, generation, segment, subviews, rows, arrays, network>>

\* What followingButtonPressed makes of the followed shops and of the flag.
Toggled(entry) ==
    IF entry.isFollowing = "nil"
    THEN [following |-> Append(followingArray, entry.shop), isFollowing |-> "true"]
    ELSE [ following |-> FollowingWithout(entry.shop),
           isFollowing |-> IF entry.isFollowing = "true" THEN "false" ELSE "true" ]

\* A row has a button when its cell was made: now, or before the table was old.
HasButton(table, row) ==
    /\ FrontIs(table)
    /\ row <= rows[table]
    /\ table = Current(table.kind) => CellForRow(table, row) = "no"

\* The comparison with the followed shops, up to the first that is equal, reads the
\* users of both.
ReadsNoUser(entry) ==
    /\ entry.isFollowing # "nil"
    /\ \E i \in DOMAIN followingArray :
           /\ followingArray[i] \in Anonymous \/ entry.shop \in Anonymous
           /\ \A j \in 1..(i - 1) : followingArray[j] # entry.shop

\* followingButtonPressed on a recommend table, of whatever generation.
FollowingButtonPressed(row) ==
    /\ CanTouch
    /\ \E g \in 1..generation : HasButton([kind |-> "recommend", generation |-> g], row)
    /\ IF row > Len(recommendArray)
       THEN Crash("index")
       ELSE IF ReadsNoUser(recommendArray[row])
       THEN Crash("record")
       ELSE LET toggled == Toggled(recommendArray[row])
            IN  /\ followingArray' = toggled.following
                /\ recommendArray' = [recommendArray EXCEPT
                                         ![row].isFollowing = toggled.isFollowing]
                /\ rows' = [rows EXCEPT ![Current("recommend")] = Len(recommendArray)]
                /\ UNCHANGED <<visible, generation, segment, subviews, postArray, network,
                               crashed>>

\* unFollowingButtonPressed on a following table, of whatever generation.
UnFollowingButtonPressed(row) ==
    /\ CanTouch
    /\ \E g \in 1..generation : HasButton([kind |-> "following", generation |-> g], row)
    /\ IF row > Len(followingArray)
       THEN Crash("index")
       ELSE LET table == Current("following")
            IN  /\ followingArray' = RemoveAt(followingArray, row)
                /\ rows' = [rows EXCEPT ![table] = Len(followingArray')]
                /\ subviews' = IF followingArray' = <<>>
                               THEN WithInFront(Removed(subviews, table), EmptyView)
                               ELSE subviews
                /\ UNCHANGED <<visible, generation, segment, recommendArray, postArray,
                               network, crashed>>

\* The data source is asked for a cell: of a table of now when it is laid out, which
\* may be on the way back to the screen, or scrolled; of an old one, which was laid
\* out, when it is scrolled.  A scroll goes on under the spinner when it was begun
\* before.  A cell that can be made changes nothing.
MakeCell(table, row) ==
    /\ crashed = "no"
    /\ FrontIs(table)
    /\ table = Current(table.kind) \/ (visible /\ rows[table] > RowsOnScreen)
    /\ CellForRow(table, row) # "no"
    /\ Crash(CellForRow(table, row))

Next ==
    \/ ViewDidAppear
    \/ Disappear
    \/ \E index \in Segments : SelectSegment(index)
    \/ \E list \in Recommendations : RecommendSuccess(list)
    \/ RecommendFailure
    \/ OtherAnswer
    \/ \E t \in Tables : \E row \in 1..rows[t] :
           FollowingButtonPressed(row) \/ UnFollowingButtonPressed(row) \/ MakeCell(t, row)

Spec == Init /\ [][Next]_vars

-----------------------------------------------------------------------------
TypeOK ==
    /\ visible \in BOOLEAN
    /\ generation \in 0..MaxAppearances
    /\ segment \in Segments
    /\ subviews \in Seq(Tables \cup {EmptyView})
    /\ \A i, j \in DOMAIN subviews : i # j => subviews[i] # subviews[j]
    /\ rows \in [Tables -> Nat]
    /\ followingArray \in Seq(Shops)
    /\ recommendArray \in Seq([shop : Shops, isFollowing : IsFollowing])
    /\ postArray \in Seq(Shops)
    /\ covering \in BOOLEAN
    /\ waiting \in 0..fetches
    /\ fetches \in 0..MaxFetches
    /\ received \in [Shops -> Nat]
    /\ crashed \in {"no", "cast", "index", "record"}

\* The view that says no shop is followed is never in front while one is, in
\* whatever order segments, buttons and appearances came.
NotSaidEmpty == FrontIs(EmptyView) => followingArray = <<>>

\* How many recommendations of a shop are offered to be followed.
Offered(shop) ==
    Cardinality({i \in DOMAIN recommendArray :
                     recommendArray[i].shop = shop /\ recommendArray[i].isFollowing # "true"})

\* A shop is followed, or offered to follow, at most once for every time it was
\* received: after one answer a shop whose flag is not true is not followed.  Only
\* that way round: following it a third time turns the flag to true and appends
\* nothing, and unfollowing in the other table leaves the flag.
FollowedOncePerFetch ==
    \A s \in Shops : Times(followingArray, s) + Offered(s) <= received[s]

\* The feed in front has the posts of every followed shop, once.
FeedShowsFollowed == FrontIs(Current("feed")) => postArray = followingArray

\* The row numbers in the buttons and the cells asked for fit the arrays, but for
\* views that an earlier appearance left behind; whatever else ends the process is
\* a record the server sent without what a cell needs.
CrashesHaveCause ==
    /\ crashed \in {"cast", "index"} =>
           \E table \in Tables : FrontIs(table) /\ table.generation < generation
    /\ crashed = "record" => \E s \in Incomplete : received[s] > 0

\* "dequeueReusableCell(withIdentifier: Constant.followingCell) as! FollowingCell"
\* takes it that every table but the current recommend table has that cell.
CellsCast == crashed # "cast"
=============================================================================
