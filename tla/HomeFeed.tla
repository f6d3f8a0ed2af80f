------------------------------ MODULE HomeFeed ------------------------------
(***************************************************************************)
(* The feed of the home tab.  Every appearance asks for page 1, showing    *)
(* the last cell asks for the next page, and an answer appends its page to *)
(* ItemArray in a block dispatched to the main queue: after the handler,   *)
(* and after any tap that was queued before.  Nothing matches an answer    *)
(* with the visit it was asked in, and items of earlier visits stay.       *)
(***************************************************************************)
EXTENDS Naturals, Sequences, FiniteSets

CONSTANTS
    LastPage,    \* the server has items on the pages 1..LastPage
    MaxVisits,   \* bound: appearances of the screen
    MaxAsks      \* bound: requests made

ASSUME HomeFeedAssumption ==
    /\ LastPage \in Nat
    /\ MaxVisits \in Nat
    /\ MaxAsks \in Nat

VARIABLES
    visible,    \* between viewWillAppear and viewWillDisappear
    page,       \* the page asked for last
    itemArray,  \* the pages appended so far, one entry for the items of a page
    waiting,    \* the requests not answered yet: each with its number and page
    blocks,     \* the pages whose setProduct block is in the main queue
    covering,   \* does the spinner take every touch?
    visits,     \* how often the screen has appeared
    asks,       \* how many requests were made
    lost        \* the pages some answer of which brought no items

vars == <<visible, page, itemArray, waiting, blocks, covering, visits, asks, lost>>

-----------------------------------------------------------------------------
\* getHomeItem(page:), behind the spinner.
GetHomeItem(p) ==
    /\ asks < MaxAsks
    /\ asks' = asks + 1
    /\ waiting' = waiting \cup {[number |-> asks + 1, page |-> p]}

Init ==
    /\ visible = FALSE
    /\ page = 1
    /\ itemArray = <<>>
    /\ waiting = {}
    /\ blocks = <<>>
    /\ covering = FALSE
    /\ visits = 0
    /\ asks = 0
    /\ lost = {}

\* Over a root that was just replaced, the spinner may lie under the new view.
ViewWillAppear ==
    /\ ~ visible
    /\ ~ covering
    /\ visits < MaxVisits
    /\ visible' = TRUE
    /\ visits' = visits + 1
    /\ covering' \in IF visits = 0 THEN BOOLEAN ELSE {TRUE}
    /\ GetHomeItem(page)
    /\ UNCHANGED <<page, itemArray, blocks, lost>>

\* Variant for the runs: the items are dropped with the screen.
DisappearEmptied ==
    /\ visible
    /\ ~ covering
    /\ visible' = FALSE
    /\ page' = 1
    /\ itemArray' = <<>>
    /\ UNCHANGED <<waiting, blocks, covering, visits, asks, lost>>

\* Variant for the runs: pages are counted from zero again.
DisappearToZero ==
    /\ visible
    /\ ~ covering
    /\ visible' = FALSE
    /\ page' = 0
    /\ UNCHANGED <<itemArray, waiting, blocks, covering, visits, asks, lost>>

ViewWillDisappear ==
    /\ visible
    /\ ~ covering
    /\ visible' = FALSE
    /\ page' = 1
    /\ UNCHANGED <<itemArray, waiting, blocks, covering, visits, asks, lost>>

\* Variant for the runs: the page is counted when its items arrive, not here.
WillDisplayUncounted ==
    /\ itemArray # <<>>
    /\ covering' = TRUE
    /\ GetHomeItem(page + 1)
    /\ UNCHANGED <<visible, page, itemArray, blocks, visits, lost>>

\* Variant for the runs: the next page is told from the pages on screen.
WillDisplayCountingPages ==
    /\ itemArray # <<>>
    /\ page' = Len(itemArray) + 1
    /\ covering' = TRUE
    /\ GetHomeItem(Len(itemArray) + 1)
    /\ UNCHANGED <<visible, itemArray, blocks, visits, lost>>

\* willDisplay for the last row: by scrolling, which goes on under the spinner
\* when it was begun before, or because the cells just loaded end on the screen.
\* It does not ask whether the screen is leaving or gone: the view is laid out
\* while another screen is pushed over it, and a reload then pages again.
WillDisplayLastCell ==
    /\ itemArray # <<>>
    /\ page' = page + 1
    /\ covering' = TRUE
    /\ GetHomeItem(page + 1)
    /\ UNCHANGED <<visible, itemArray, blocks, visits, lost>>

\* Success: setProduct only queues its block.
Success(r) ==
    /\ r.page <= LastPage
    /\ waiting' = waiting \ {r}
    /\ blocks' = Append(blocks, r.page)
    /\ UNCHANGED <<visible, page, itemArray, covering, visits, asks, lost>>

\* Code 3008, past the last page, and a failure: an alert instead of items.
NoItems(r) ==
    /\ waiting' = waiting \ {r}
    /\ lost' = lost \cup {r.page}
    /\ covering' = FALSE
    /\ UNCHANGED <<visible, page, itemArray, blocks, visits, asks>>

\* Any other code is printed and the spinner stays.
SilentCode(r) ==
    /\ waiting' = waiting \ {r}
    /\ lost' = lost \cup {r.page}
    /\ UNCHANGED <<visible, page, itemArray, blocks, covering, visits, asks>>

\* Variant for the runs: a page is put in front of the others.
SetProductInFront ==
    /\ blocks # <<>>
    /\ itemArray' = <<Head(blocks)>> \o itemArray
    /\ blocks' = Tail(blocks)
    /\ covering' = FALSE
    /\ UNCHANGED <<visible, page, waiting, visits, asks, lost>>

\* Variant for the runs: the block gives up when the screen is gone.
SetProductIfVisible ==
    /\ blocks # <<>>
    /\ itemArray' = IF visible THEN Append(itemArray, Head(blocks)) ELSE itemArray
    /\ blocks' = Tail(blocks)
    /\ covering' = FALSE
    /\ UNCHANGED <<visible, page, waiting, visits, asks, lost>>

\* The block of setProduct.
SetProduct ==
    /\ blocks # <<>>
    /\ itemArray' = Append(itemArray, Head(blocks))
    /\ blocks' = Tail(blocks)
    /\ covering' = FALSE
    /\ UNCHANGED <<visible, page, waiting, visits, asks, lost>>

\* The spinner is shared: the answer to another screen's request dismisses it.
OtherAnswer ==
    /\ covering
    /\ covering' = FALSE
    /\ UNCHANGED <<visible, page, itemArray, waiting, blocks, visits, asks, lost>>

Answer(r) == Success(r) \/ NoItems(r) \/ SilentCode(r)

Next ==
    \/ ViewWillAppear
    \/ ViewWillDisappear
    \/ WillDisplayLastCell
    \/ \E r \in waiting : Answer(r)
    \/ SetProduct
    \/ OtherAnswer

Spec == Init /\ [][Next]_vars

\* Every request is answered, if only by its timeout, and the main queue moves on.
FairSpec ==
    /\ Spec
    /\ \A n \in 1..MaxAsks : WF_vars(\E r \in waiting : r.number = n /\ Answer(r))
    /\ WF_vars(SetProduct)

-----------------------------------------------------------------------------
PageNumbers == 1..MaxAsks

Requests == [number : PageNumbers, page : PageNumbers]

TypeOK ==
    /\ visible \in BOOLEAN
    /\ page \in PageNumbers \cup {1}
    /\ itemArray \in Seq(PageNumbers)
    /\ waiting \subseteq Requests
    /\ blocks \in Seq(PageNumbers)
    /\ covering \in BOOLEAN
    /\ visits \in 0..MaxVisits
    /\ asks \in 0..MaxAsks
    /\ lost \subseteq PageNumbers

Elements(seq) == {seq[i] : i \in DOMAIN seq}

Count(seq, p) == Cardinality({i \in DOMAIN seq : seq[i] = p})

AskedFor(p) == {r \in waiting : r.page = p}

\* How many copies of a page there are on screen, queued and asked for.
Copies(p) == Count(itemArray, p) + Count(blocks, p) + Cardinality(AskedFor(p))

\* willDisplay moves page on before it asks, and only viewWillDisappear moves it
\* back: a page is asked for, queued or shown at most once for every time the
\* screen appears and once more for every time it leaves.
TwicePerVisit ==
    \A p \in PageNumbers : Copies(p) + (IF visible THEN 1 ELSE 0) <= 2 * visits

\* What precedes a page on the screen is on the screen, on its way, or lost to
\* an answer without items: paging itself skips none.
NoSkippedPage ==
    \A p \in Elements(itemArray) : \A q \in 1..p :
        \/ q \in Elements(itemArray) \cup Elements(blocks) \cup lost
        \/ \E r \in waiting : r.page = q

\* Only page 1 is asked for while there is nothing on screen, so whatever the
\* order of the answers the feed starts with the first page.
StartsWithFirstPage == itemArray # <<>> => itemArray[1] = 1

\* A page that is asked for is shown or lost to an answer without items, also when
\* the screen is left, shown again or asks for other pages before setProduct runs:
\* paging, which only goes on from the last row, does not get stuck in between.
PagesArrive ==
    \A p \in PageNumbers :
        AskedFor(p) # {} ~> p \in Elements(itemArray) \cup lost

\* setProduct appends: the row a user touches keeps the item it showed.
RowsKeepTheirItems ==
    [][ /\ Len(itemArray) <= Len(itemArray')
        /\ \A i \in DOMAIN itemArray : itemArray'[i] = itemArray[i] ]_vars
=============================================================================
