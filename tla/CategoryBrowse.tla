---------------------------- MODULE CategoryBrowse ----------------------------
(***************************************************************************)
(* The screens that walk down the tree of categories: the browser of the   *)
(* home tab (all categories, a category, a sub category) and the three     *)
(* pickers of the register form.  A screen asks for its categories when it *)
(* loads; the browser's last two also ask for products and can expand and  *)
(* fold their list, each time with a new request.  Answers are not matched *)
(* with the state they were asked in, and a screen that was popped still   *)
(* receives its own and dismisses the one spinner of the app.              *)
(***************************************************************************)
EXTENDS Naturals, Sequences

CONSTANTS
    Categories,   \* the categories of all levels
    All,          \* the row "전체보기" at the head of a list
    TopLevel,     \* the categories of the first level
    Children,     \* the full list of each category
    Shortened,    \* what a folded list shows of it
    MaxScreens,   \* bound: screens opened
    MaxAsks       \* bound: requests made

ASSUME CategoryAssumption ==
    /\ All \notin Categories
    /\ TopLevel \subseteq Categories
    /\ Children \in [Categories -> SUBSET Categories]
    /\ Shortened \in [Categories -> SUBSET Categories]
    /\ \A c \in Categories : Shortened[c] \subseteq Children[c]
    /\ MaxScreens \in Nat
    /\ MaxAsks \in Nat

VARIABLES
    picking,   \* are the screens the pickers of the register form?
    stack,     \* the screens above the tab's own, the newest last
    waiting,   \* the requests not answered yet
    covering,  \* does the spinner take every touch?
    chosen,    \* the categoryId handed to the register form
    trapped,   \* was a form unwrapped that is not where it was looked for?
    opened,    \* how many screens were opened
    asks       \* how many requests were made

vars == <<picking, stack, waiting, covering, chosen, trapped, opened, asks>>

-----------------------------------------------------------------------------
Rows == Categories \cup {All}

\* A screen is a path, empty on the first level.  disturbed: was its list asked
\* for while another answer for it was awaited, or an answer without a list?
Screens == [ serial : 1..MaxScreens, path : Seq(Rows), rows : SUBSET Rows,
             isExpand : BOOLEAN, disturbed : BOOLEAN ]

\* A list with "전체보기" at its head, one without, and the products of a path.
Kinds == {"headed", "plain", "products"}

Requests == [ number : 1..MaxAsks, serial : 1..MaxScreens,
              kind : Kinds, path : Seq(Rows), clicked : BOOLEAN ]

Last(seq) == seq[Len(seq)]

TopScreen == Last(stack)

\* Is vcs[vcs.count - n] the register form?  The pickers are right above it.
IsForm(n) == n = Len(stack) + 1

\* A list of the browser below the first level begins with "전체보기".
Headed(pick, path) == ~ pick /\ path # <<>>

Heading(pick, path) == IF Headed(pick, path) THEN {All} ELSE {}

\* What the server lists for a path; "전체보기" has no categories below it.
Listed(path, clicked) ==
    CASE path = <<>> -> TopLevel
      [] path # <<>> /\ Last(path) = All -> {}
      [] OTHER -> IF clicked THEN Children[Last(path)] ELSE Shortened[Last(path)]

Request(n, serial, kind, path, clicked) ==
    [number |-> n, serial |-> serial, kind |-> kind, path |-> path, clicked |-> clicked]

AwaitsCategories(screen) ==
    \E q \in waiting : q.kind # "products" /\ q.serial = screen.serial

-----------------------------------------------------------------------------
\* The viewDidLoad of a screen pushed for a path: the spinner, its categories
\* (the full list in a picker) and, in the browser, the products of its path.
Push(pick, path) ==
    LET headed == Headed(pick, path)
    IN  /\ opened < MaxScreens
        /\ asks + 2 <= MaxAsks
        /\ opened' = opened + 1
        /\ asks' = asks + 2
        /\ stack' =
               Append(stack, [ serial |-> opened + 1, path |-> path,
                               rows |-> Heading(pick, path),
                               isExpand |-> FALSE, disturbed |-> FALSE ])
        /\ waiting' =
               waiting \cup
                 IF headed
                 THEN { Request(asks + 1, opened + 1, "headed", path, FALSE),
                        Request(asks + 2, opened + 1, "products", path, FALSE) }
                 ELSE { Request(asks + 1, opened + 1, "plain", path, pick) }
        /\ covering' = TRUE

CanTouch == ~ covering

Init ==
    /\ picking = FALSE
    /\ stack = <<>>
    /\ waiting = {}
    /\ covering = FALSE
    /\ chosen = <<>>
    /\ trapped = FALSE
    /\ opened = 0
    /\ asks = 0

\* From the home tab: all categories, or one of the buttons of the header.
OpenBrowser(path) ==
    /\ CanTouch
    /\ stack = <<>>
    /\ picking' = FALSE
    /\ Push(FALSE, path)
    /\ UNCHANGED <<chosen, trapped>>

\* goToCategory on the register form.
OpenPicker ==
    /\ CanTouch
    /\ stack = <<>>
    /\ picking' = TRUE
    /\ Push(TRUE, <<>>)
    /\ UNCHANGED <<chosen, trapped>>

\* Variant for the runs: every list leads to another one.
SelectRowAnywhere(row) ==
    /\ CanTouch
    /\ stack # <<>>
    /\ row \in TopScreen.rows
    /\ Push(picking, Append(TopScreen.path, row))
    /\ UNCHANGED <<picking, chosen, trapped>>

\* didSelect of a list of the browser that leads to another list.
SelectRow(row) ==
    /\ CanTouch
    /\ stack # <<>>
    /\ ~ picking
    /\ Len(TopScreen.path) < 2
    /\ row \in TopScreen.rows
    /\ Push(FALSE, Append(TopScreen.path, row))
    /\ UNCHANGED <<picking, chosen, trapped>>

\* didSelect of the first and the second picker; the category chosen and its
\* parent are handed on.
SelectPickerRow(row) ==
    /\ CanTouch
    /\ stack # <<>>
    /\ picking
    /\ Len(TopScreen.path) < 2
    /\ row \in TopScreen.rows
    /\ Push(TRUE, Append(TopScreen.path, row))
    /\ UNCHANGED <<picking, chosen, trapped>>

\* Variant for the runs: the form is looked for among the pickers.
PickOfCloser(row) ==
    /\ CanTouch
    /\ stack # <<>>
    /\ picking
    /\ Len(TopScreen.path) = 2
    /\ row \in TopScreen.rows
    /\ trapped' = ~ IsForm(3)
    /\ chosen' = IF IsForm(3) THEN Append(TopScreen.path, row) ELSE chosen
    /\ stack' = IF IsForm(3) THEN <<>> ELSE stack
    /\ UNCHANGED <<picking, waiting, covering, opened, asks>>

\* Variant for the runs: parentCategory and currentCategory change places.
PickSwapped(row) ==
    /\ CanTouch
    /\ stack # <<>>
    /\ picking
    /\ Len(TopScreen.path) = 2
    /\ row \in TopScreen.rows
    /\ trapped' = ~ IsForm(4)
    /\ chosen' = IF IsForm(4) THEN <<TopScreen.path[2], TopScreen.path[1], row>> ELSE chosen
    /\ stack' = IF IsForm(4) THEN <<>> ELSE stack
    /\ UNCHANGED <<picking, waiting, covering, opened, asks>>

\* didSelect of the third picker: it takes what is three screens below it for the
\* form, hands it the whole path and pops to it.
Pick(row) ==
    /\ CanTouch
    /\ stack # <<>>
    /\ picking
    /\ Len(TopScreen.path) = 2
    /\ row \in TopScreen.rows
    /\ trapped' = ~ IsForm(4)
    /\ chosen' = IF IsForm(4) THEN Append(TopScreen.path, row) ELSE chosen
    /\ stack' = IF IsForm(4) THEN <<>> ELSE stack
    /\ UNCHANGED <<picking, waiting, covering, opened, asks>>

\* Variant for the runs: the list is asked for before isExpand is turned over.
ButtonPressedAskingFirst ==
    /\ CanTouch
    /\ stack # <<>>
    /\ Headed(picking, TopScreen.path)
    /\ asks < MaxAsks
    /\ asks' = asks + 1
    /\ waiting' = waiting \cup {Request(asks + 1, TopScreen.serial, "headed",
                                        TopScreen.path, TopScreen.isExpand)}
    /\ stack' = [ stack EXCEPT ![Len(stack)].isExpand = ~ @,
                               ![Len(stack)].disturbed = @ \/ AwaitsCategories(TopScreen) ]
    /\ UNCHANGED <<picking, covering, chosen, trapped, opened>>

\* The footer's button turns isExpand over and asks for the list to match.
ButtonPressed ==
    /\ CanTouch
    /\ stack # <<>>
    /\ Headed(picking, TopScreen.path)
    /\ asks < MaxAsks
    /\ asks' = asks + 1
    /\ waiting' = waiting \cup {Request(asks + 1, TopScreen.serial, "headed",
                                        TopScreen.path, ~ TopScreen.isExpand)}
    /\ stack' = [ stack EXCEPT ![Len(stack)].isExpand = ~ @,
                               ![Len(stack)].disturbed = @ \/ AwaitsCategories(TopScreen) ]
    /\ UNCHANGED <<picking, covering, chosen, trapped, opened>>

Back ==
    /\ CanTouch
    /\ stack # <<>>
    /\ stack' = SubSeq(stack, 1, Len(stack) - 1)
    /\ UNCHANGED <<picking, waiting, covering, chosen, trapped, opened, asks>>

-----------------------------------------------------------------------------
\* Variant for the runs: the list goes to whatever screen is in front.
SetCategoryOfTop(q) ==
    [ i \in DOMAIN stack |->
        IF i = Len(stack)
        THEN [stack[i] EXCEPT !.rows = Heading(picking, stack[i].path)
                                           \cup Listed(q.path, q.clicked)]
        ELSE stack[i] ]

\* setCategory of the screen that asked, if it is still there.
SetCategory(q) ==
    [ i \in DOMAIN stack |->
        IF stack[i].serial = q.serial
        THEN [stack[i] EXCEPT !.rows = Heading(picking, stack[i].path)
                                           \cup Listed(q.path, q.clicked)]
        ELSE stack[i] ]

\* setCategory of the first level and of the pickers dismisses the spinner.
PlainAnswer(q) ==
    /\ q.kind = "plain"
    /\ waiting' = waiting \ {q}
    /\ stack' = SetCategory(q)
    /\ covering' = FALSE
    /\ UNCHANGED <<picking, chosen, trapped, opened, asks>>

\* That of the browser's other lists leaves it to setProduct.
HeadedAnswer(q) ==
    /\ q.kind = "headed"
    /\ waiting' = waiting \ {q}
    /\ stack' = SetCategory(q)
    /\ UNCHANGED <<picking, covering, chosen, trapped, opened, asks>>

\* setProduct; which products a screen shows is left out.
ProductsAnswer(q) ==
    /\ q.kind = "products"
    /\ waiting' = waiting \ {q}
    /\ covering' = FALSE
    /\ UNCHANGED <<picking, stack, chosen, trapped, opened, asks>>

Disturb(q) ==
    [ i \in DOMAIN stack |->
        IF stack[i].serial = q.serial /\ q.kind # "products"
        THEN [stack[i] EXCEPT !.disturbed = TRUE]
        ELSE stack[i] ]

\* An answer without a list: an alert, which dismisses the spinner, for a
\* failure and for code 3008 of the products; any other code is printed only.
EmptyAnswer(q) ==
    /\ waiting' = waiting \ {q}
    /\ stack' = Disturb(q)
    /\ covering' \in {FALSE, covering}
    /\ UNCHANGED <<picking, chosen, trapped, opened, asks>>

Answer(q) == PlainAnswer(q) \/ HeadedAnswer(q) \/ ProductsAnswer(q) \/ EmptyAnswer(q)

Next ==
    /\ ~ trapped
    /\ \/ \E path \in {<<>>} \cup {<<c>> : c \in TopLevel} : OpenBrowser(path)
       \/ OpenPicker
       \/ \E row \in Rows : SelectRow(row) \/ SelectPickerRow(row) \/ Pick(row)
       \/ ButtonPressed
       \/ Back
       \/ \E q \in waiting : Answer(q)

Spec == Init /\ [][Next]_vars

-----------------------------------------------------------------------------
TypeOK ==
    /\ picking \in BOOLEAN
    /\ stack \in Seq(Screens)
    /\ \A i \in DOMAIN stack :
           Len(stack[i].path) <= 2 /\ stack[i].serial \in 1..opened
    /\ waiting \subseteq Requests
    /\ covering \in BOOLEAN
    /\ chosen \in Seq(Rows)
    /\ trapped \in BOOLEAN
    /\ opened \in 0..MaxScreens
    /\ asks \in 0..MaxAsks

\* Does a path lead down the tree, or stop at "전체보기"?
Leads(path) ==
    /\ path # <<>> => path[1] \in TopLevel
    /\ \A i \in 2..Len(path) :
           path[i - 1] # All /\ (path[i] = All \/ path[i] \in Children[path[i - 1]])

\* currentId, category, parentCategory and currentCategory are handed from list
\* to list: whatever answer is late, and to whatever screen, no screen stands
\* for a sub category of another category.
PathsLead == \A i \in DOMAIN stack : Leads(stack[i].path)

\* However the pickers were walked down and back, the form is where the last one
\* looks for it, and the three categories that it puts on the form, and
\* registerItem posts, are one path of three real categories.
ChosenIsAPath ==
    /\ ~ trapped
    /\ chosen # <<>> =>
           /\ Len(chosen) = 3
           /\ Leads(chosen)
           /\ \A i \in DOMAIN chosen : chosen[i] # All

\* Does a screen show its list, folded or not as its button says?  A picker's is
\* never folded.
Shows(screen) ==
    screen.rows = Heading(picking, screen.path)
                      \cup Listed(screen.path, picking \/ screen.isExpand)

\* Every screen shows its own list, as its button says, once no list for it is
\* awaited, unless a request overtook another or brought no list.  The spinner
\* goes with the first answer to any screen, so that a screen may be covered by
\* another one, folded or expanded before its list arrives (setCategory,
\* setProduct, buttonPressed).
ListMatchesButton ==
    \A i \in DOMAIN stack :
        ~ stack[i].disturbed /\ ~ AwaitsCategories(stack[i]) => Shows(stack[i])
=============================================================================
