------------------------ MODULE CategoryBrowseProofs ------------------------
(***************************************************************************)
(* Proofs about CategoryBrowse, for every value of its constants.          *)
(***************************************************************************)
EXTENDS CategoryBrowse, TLAPS

\* Everything a list below a path can show, folded or not.
Below(path) ==
    IF path = <<>> THEN TopLevel
    ELSE IF Last(path) = All THEN {} ELSE Children[Last(path)]

\* A screen stands on a path of the tree, offers no row that does not continue
\* it, and as a picker has no "전체보기" behind it.
OnPath(pick, screen) ==
    /\ Leads(screen.path)
    /\ screen.rows \subseteq Heading(pick, screen.path) \cup Below(screen.path)
    /\ pick => \A k \in DOMAIN screen.path : screen.path[k] # All

\* A request still carries the path of the screen that made it, and, unless the
\* screen was disturbed, asks for the list the screen is to show.
InStep(pick, screen, q) ==
    q.serial = screen.serial =>
        /\ q.path = screen.path
        /\ q.kind # "products" /\ ~ screen.disturbed =>
               (q.clicked <=> pick \/ screen.isExpand)

ScreensOnPath == \A i \in DOMAIN stack : OnPath(picking, stack[i])

\* No two screens share a serial, and no request is of a screen not yet opened.
SerialsDiffer ==
    /\ \A i, j \in DOMAIN stack : stack[i].serial = stack[j].serial => i = j
    /\ \A q \in waiting : q.serial <= opened

RequestsInStep == \A i \in DOMAIN stack : \A q \in waiting : InStep(picking, stack[i], q)

\* Each picker has walked down one level more than the one below it.
PickersInOrder == picking => \A i \in DOMAIN stack : Len(stack[i].path) = i - 1

\* The inductive invariant: what a late answer puts on a screen is right only
\* because the request carries the path and the button of its own screen.
Inv ==
    /\ TypeOK
    /\ ScreensOnPath
    /\ SerialsDiffer
    /\ RequestsInStep
    /\ PickersInOrder
    /\ ListMatchesButton
    /\ ChosenIsAPath

-----------------------------------------------------------------------------
\* What the type of the stack says of each screen.
LEMMA ScreenTypes ==
    ASSUME TypeOK
    PROVE  /\ Len(stack) \in Nat
           /\ DOMAIN stack = 1..Len(stack)
           /\ \A i \in DOMAIN stack :
                  /\ stack[i] \in Screens
                  /\ stack[i].serial \in 1..opened
                  /\ stack[i].path \in Seq(Rows)
                  /\ Len(stack[i].path) \in Nat
                  /\ DOMAIN stack[i].path = 1..Len(stack[i].path)
                  /\ Len(stack[i].path) <= 2
                  /\ stack[i].rows \subseteq Rows
                  /\ stack[i].isExpand \in BOOLEAN
                  /\ stack[i].disturbed \in BOOLEAN
<1>1. stack \in Seq(Screens)
  BY DEF TypeOK
<1>2. Len(stack) \in Nat /\ DOMAIN stack = 1..Len(stack)
  BY <1>1
<1>3. ASSUME NEW i \in DOMAIN stack
      PROVE  /\ stack[i] \in Screens
             /\ stack[i].serial \in 1..opened
             /\ Len(stack[i].path) <= 2
  BY <1>1, <1>3 DEF TypeOK
<1>4. ASSUME NEW screen \in Screens
      PROVE  /\ screen.path \in Seq(Rows)
             /\ Len(screen.path) \in Nat
             /\ DOMAIN screen.path = 1..Len(screen.path)
             /\ screen.rows \subseteq Rows
             /\ screen.isExpand \in BOOLEAN
             /\ screen.disturbed \in BOOLEAN
  BY <1>4 DEF Screens
<1>5. QED
  BY <1>2, <1>3, <1>4

\* The screen in front is the last of the stack.
LEMMA TopIsAScreen ==
    ASSUME TypeOK, stack # <<>>
    PROVE  /\ Len(stack) \in DOMAIN stack
           /\ TopScreen = stack[Len(stack)]
           /\ Len(stack) > 0
<1>1. stack \in Seq(Screens)
  BY DEF TypeOK
<1>2. Len(stack) \in DOMAIN stack /\ Len(stack) > 0
  BY <1>1
<1>3. QED
  BY <1>2 DEF TopScreen, Last

\* A row that a screen lists leads its path on, except below "전체보기", where the
\* browser has stopped and which a picker does not list.
LEMMA RowLeadsOn ==
    ASSUME NEW pick \in BOOLEAN, NEW screen \in Screens, OnPath(pick, screen),
           NEW row \in screen.rows, pick \/ Len(screen.path) < 2
    PROVE  /\ Append(screen.path, row) \in Seq(Rows)
           /\ Len(Append(screen.path, row)) = Len(screen.path) + 1
           /\ Leads(Append(screen.path, row))
           /\ pick => \A k \in DOMAIN Append(screen.path, row) :
                          Append(screen.path, row)[k] # All
<1> DEFINE path == screen.path
           on   == Append(path, row)
<1>1. path \in Seq(Rows) /\ row \in Rows
  BY DEF Screens
<1>2. /\ Len(path) \in Nat /\ DOMAIN path = 1..Len(path)
      /\ on \in Seq(Rows) /\ Len(on) = Len(path) + 1 /\ DOMAIN on = 1..(Len(path) + 1)
      /\ \A k \in 1..Len(path) : on[k] = path[k]
      /\ on[Len(path) + 1] = row
  BY <1>1
<1>3. /\ Leads(path)
      /\ row \in Heading(pick, path) \cup Below(path)
      /\ pick => \A k \in DOMAIN path : path[k] # All
  BY DEF OnPath
<1>4. All \notin TopLevel /\ \A c \in Categories : All \notin Children[c]
  BY CategoryAssumption
<1>5. CASE path = <<>>
  <2>1. Len(path) = 0
    BY <1>5
  <2>2. row \in TopLevel
    BY <1>3, <1>5 DEF Heading, Headed, Below
  <2>3. on[1] \in TopLevel /\ Len(on) = 1
    BY <1>2, <2>1, <2>2
  <2>4. Leads(on)
    BY <2>3 DEF Leads
  <2>5. row # All
    BY <2>2, <1>4
  <2>6. QED
    BY <1>2, <2>1, <2>4, <2>5
<1>6. CASE path # <<>>
  <2>1. Len(path) >= 1 /\ Len(path) \in DOMAIN path
    BY <1>1, <1>2, <1>6
  <2>2. Last(path) = path[Len(path)]
    BY DEF Last
  <2>3. path[1] \in TopLevel /\ on[1] \in TopLevel
    BY <1>2, <1>3, <1>6, <2>1 DEF Leads
  <2>4. Last(path) # All
    <3>1. CASE pick
      BY <3>1, <1>3, <2>1, <2>2
    <3>2. CASE Len(path) < 2
      <4>1. \A n \in Nat : n >= 1 /\ n < 2 => n = 1
        OBVIOUS
      <4>2. Len(path) \in Nat /\ Len(path) >= 1
        BY <1>2, <2>1
      <4>3. Len(path) = 1
        BY <3>2, <4>1, <4>2
      <4>4. QED
        BY <4>3, <2>2, <2>3, <1>4
    <3>3. QED
      BY <3>1, <3>2
  <2>5. Last(path) \in Categories
    <3>1. path[Len(path)] \in Rows
      BY <1>1, <2>1
    <3>2. QED
      BY <3>1, <2>2, <2>4 DEF Rows
  <2>6. row = All \/ row \in Children[Last(path)]
    BY <1>3, <1>6, <2>4 DEF Heading, Below
  <2>7. ASSUME NEW k \in 2..Len(on)
        PROVE  on[k - 1] # All /\ (on[k] = All \/ on[k] \in Children[on[k - 1]])
    <3>1. CASE k \in 2..Len(path)
      <4>1. k - 1 \in 1..Len(path) /\ k \in 1..Len(path)
        BY <3>1, <1>2
      <4>2. path[k - 1] # All /\ (path[k] = All \/ path[k] \in Children[path[k - 1]])
        BY <3>1, <1>3 DEF Leads
      <4>3. QED
        BY <4>1, <4>2, <1>2
    <3>2. CASE k = Len(path) + 1
      <4>1. on[k] = row /\ on[k - 1] = Last(path)
        BY <3>2, <1>2, <2>1, <2>2
      <4>2. QED
        BY <4>1, <2>4, <2>6
    <3>3. QED
      BY <3>1, <3>2, <1>2
  <2>8. Leads(on)
    BY <2>3, <2>7 DEF Leads
  <2>9. ASSUME pick
        PROVE  row # All
    BY <2>9, <1>3, <1>4, <1>6, <2>4, <2>5 DEF Heading, Headed, Below
  <2>10. QED
    BY <1>2, <1>3, <2>8, <2>9
<1>7. QED
  BY <1>5, <1>6

\* What the server lists for a path can be shown below it.
LEMMA ListedIsBelow ==
    ASSUME NEW path \in Seq(Rows), NEW clicked \in BOOLEAN
    PROVE  Listed(path, clicked) \subseteq Below(path) /\ Below(path) \subseteq Rows
<1>1. CASE path = <<>>
  BY <1>1, CategoryAssumption DEF Listed, Below, Rows
<1>2. CASE path # <<>> /\ Last(path) = All
  BY <1>2 DEF Listed, Below
<1>3. CASE path # <<>> /\ Last(path) # All
  <2>1. Len(path) \in 1..Len(path)
    BY <1>3
  <2>2. Last(path) \in Rows
    BY <2>1 DEF Last
  <2>3. Last(path) \in Categories
    BY <2>2, <1>3 DEF Rows
  <2>4. /\ Shortened[Last(path)] \subseteq Children[Last(path)]
        /\ Children[Last(path)] \subseteq Rows
    BY <2>3, CategoryAssumption DEF Rows
  <2>5. QED
    BY <1>3, <2>4 DEF Listed, Below
<1>4. QED
  BY <1>1, <1>2, <1>3

-----------------------------------------------------------------------------
\* A screen pushed for a path of the tree: its requests carry its path and its
\* unpressed button, its serial is new, and its list is awaited.
LEMMA PushInv ==
    ASSUME Inv, NEW pick \in BOOLEAN, NEW path \in Seq(Rows), Len(path) <= 2,
           Leads(path), pick => \A k \in DOMAIN path : path[k] # All,
           stack # <<>> => pick = picking, picking' = pick,
           pick => Len(path) = Len(stack),
           Push(pick, path), UNCHANGED <<chosen, trapped>>
    PROVE  Inv'
<1> DEFINE new   == [ serial |-> opened + 1, path |-> path, rows |-> Heading(pick, path),
                      isExpand |-> FALSE, disturbed |-> FALSE ]
           asked == IF Headed(pick, path)
                    THEN { Request(asks + 1, opened + 1, "headed", path, FALSE),
                           Request(asks + 2, opened + 1, "products", path, FALSE) }
                    ELSE { Request(asks + 1, opened + 1, "plain", path, pick) }
<1>1. /\ stack' = Append(stack, new) /\ waiting' = waiting \cup asked
      /\ opened' = opened + 1 /\ asks' = asks + 2 /\ covering' = TRUE
      /\ opened + 1 \in 1..MaxScreens /\ opened \in Nat
      /\ asks + 1 \in 1..MaxAsks /\ asks + 2 \in 1..MaxAsks
  <2>1. opened \in Nat /\ asks \in Nat /\ MaxAsks \in Nat /\ MaxScreens \in Nat
    BY CategoryAssumption DEF Inv, TypeOK
  <2>2. opened < MaxScreens /\ asks + 2 <= MaxAsks
    BY DEF Push
  <2>3. QED
    BY <2>1, <2>2 DEF Push
<1>2. TypeOK
  BY DEF Inv
<1>3. /\ new.serial = opened + 1 /\ new.path = path /\ new.rows = Heading(pick, path)
      /\ new.isExpand = FALSE /\ new.disturbed = FALSE
      /\ new \in Screens
  <2>1. Heading(pick, path) \subseteq Rows
    BY DEF Heading, Rows
  <2>2. QED
    BY <1>1, <2>1 DEF Screens
<1> HIDE DEF new
<1>4. /\ DOMAIN stack' = 1..(Len(stack) + 1)
      /\ \A i \in DOMAIN stack : i \in DOMAIN stack' /\ stack'[i] = stack[i]
      /\ \A i \in DOMAIN stack' : i \in DOMAIN stack \/ stack'[i] = new
      /\ \A i \in DOMAIN stack' \ DOMAIN stack : i = Len(stack) + 1
      /\ stack' \in Seq(Screens)
  <2>1. stack \in Seq(Screens)
    BY <1>2 DEF TypeOK
  <2>2. QED
    BY <2>1, <1>1, <1>3
<1>5. ASSUME NEW q \in asked
      PROVE  /\ q \in Requests
             /\ q.serial = opened + 1
             /\ q.path = path
             /\ q.kind # "products" => (q.clicked <=> pick)
  <2>1. CASE Headed(pick, path) /\ q = Request(asks + 1, opened + 1, "headed", path, FALSE)
    BY <2>1, <1>1 DEF Request, Requests, Kinds, Headed
  <2>2. CASE Headed(pick, path) /\ q = Request(asks + 2, opened + 1, "products", path, FALSE)
    BY <2>2, <1>1 DEF Request, Requests, Kinds
  <2>3. CASE ~ Headed(pick, path) /\ q = Request(asks + 1, opened + 1, "plain", path, pick)
    BY <2>3, <1>1 DEF Request, Requests, Kinds
  <2>4. QED
    BY <2>1, <2>2, <2>3
<1>6. \E q \in waiting' : q.kind # "products" /\ q.serial = opened + 1
  <2> DEFINE headed == Request(asks + 1, opened + 1, "headed", path, FALSE)
             plain  == Request(asks + 1, opened + 1, "plain", path, pick)
  <2>1. headed \in asked \/ plain \in asked
    OBVIOUS
  <2>2. /\ headed.kind # "products" /\ headed.serial = opened + 1
        /\ plain.kind # "products" /\ plain.serial = opened + 1
    BY DEF Request
  <2> HIDE DEF headed, plain, asked
  <2>3. QED
    BY <1>1, <2>1, <2>2
<1> HIDE DEF asked
<1>7. TypeOK'
  <2>1. waiting' \subseteq Requests
    BY <1>1, <1>2, <1>5 DEF TypeOK
  <2>2. ASSUME NEW i \in DOMAIN stack'
        PROVE  Len(stack'[i].path) <= 2 /\ stack'[i].serial \in 1..opened'
    <3>1. CASE i \in DOMAIN stack
      BY <3>1, <1>1, <1>2, <1>4 DEF TypeOK
    <3>2. CASE stack'[i] = new
      BY <3>2, <1>1, <1>3
    <3>3. QED
      BY <3>1, <3>2, <1>4
  <2>3. opened' \in 0..MaxScreens /\ asks' \in 0..MaxAsks
    BY <1>1
  <2>4. chosen' \in Seq(Rows) /\ trapped' \in BOOLEAN
    BY <1>2 DEF TypeOK
  <2>5. QED
    BY <1>1, <1>4, <2>1, <2>2, <2>3, <2>4 DEF TypeOK
<1>8. \A i \in DOMAIN stack : pick = picking
  BY <1>2, ScreenTypes
<1>9. ScreensOnPath'
  <2>1. OnPath(pick, new)
    BY <1>3 DEF OnPath
  <2>2. \A i \in DOMAIN stack : OnPath(pick, stack[i])
    BY <1>8 DEF Inv, ScreensOnPath
  <2>3. QED
    BY <1>4, <2>1, <2>2 DEF ScreensOnPath
<1>10. SerialsDiffer'
  <2>1. \A i \in DOMAIN stack : stack[i].serial \in 1..opened
    BY <1>2, ScreenTypes
  <2>2. \A i \in DOMAIN stack : stack[i].serial # opened + 1
    BY <2>1, <1>1
  <2>3. \A i, j \in DOMAIN stack' : stack'[i].serial = stack'[j].serial => i = j
    <3>1. SUFFICES ASSUME NEW i \in DOMAIN stack', NEW j \in DOMAIN stack',
                          stack'[i].serial = stack'[j].serial
                   PROVE  i = j
      OBVIOUS
    <3>2. CASE i \in DOMAIN stack /\ j \in DOMAIN stack
      BY <3>1, <3>2, <1>4 DEF Inv, SerialsDiffer
    <3>3. CASE i \in DOMAIN stack /\ j \notin DOMAIN stack
      BY <3>1, <3>3, <1>3, <1>4, <2>2
    <3>4. CASE i \notin DOMAIN stack /\ j \in DOMAIN stack
      BY <3>1, <3>4, <1>3, <1>4, <2>2
    <3>5. CASE i \notin DOMAIN stack /\ j \notin DOMAIN stack
      BY <3>5, <1>4
    <3>6. QED
      BY <3>2, <3>3, <3>4, <3>5
  <2>4. ASSUME NEW q \in waiting'
        PROVE  q.serial <= opened'
    <3>1. CASE q \in waiting
      <4>1. q.serial \in Nat /\ q.serial <= opened
        BY <3>1, <1>2 DEF Inv, SerialsDiffer, TypeOK, Requests
      <4>2. QED
        BY <4>1, <1>1
    <3>2. CASE q \in asked
      <4>1. q.serial = opened'
        BY <3>2, <1>1, <1>5
      <4>2. QED
        BY <4>1, <1>1
    <3>3. QED
      BY <3>1, <3>2, <1>1
  <2>5. QED
    BY <2>3, <2>4 DEF SerialsDiffer
<1>11. RequestsInStep'
  <2>1. SUFFICES ASSUME NEW i \in DOMAIN stack', NEW q \in waiting'
                 PROVE  InStep(pick, stack'[i], q)
    BY DEF RequestsInStep
  <2>2. CASE i \in DOMAIN stack /\ q \in waiting
    BY <2>2, <1>4, <1>8 DEF Inv, RequestsInStep
  <2>3. CASE i \in DOMAIN stack /\ q \in asked
    \* A screen opened before has another serial.
    <3>1. stack'[i] = stack[i] /\ stack[i].serial \in 1..opened
      BY <2>3, <1>2, <1>4, ScreenTypes
    <3>2. q.serial = opened + 1
      BY <2>3, <1>5
    <3>3. q.serial # stack[i].serial
      BY <3>1, <3>2, <1>1
    <3>4. QED
      BY <3>1, <3>3 DEF InStep
  <2>4. CASE i \notin DOMAIN stack /\ q \in waiting
    <3>1. stack'[i] = new /\ q.serial \in Nat /\ q.serial <= opened
      BY <2>4, <1>2, <1>4 DEF Inv, SerialsDiffer, TypeOK, Requests
    <3>2. q.serial # new.serial
      BY <3>1, <1>1, <1>3
    <3>3. QED
      BY <3>1, <3>2 DEF InStep
  <2>5. CASE i \notin DOMAIN stack /\ q \in asked
    BY <2>5, <1>3, <1>4, <1>5 DEF InStep
  <2>6. QED
    BY <2>2, <2>3, <2>4, <2>5, <1>1
<1>12. ListMatchesButton'
  <2>1. SUFFICES ASSUME NEW i \in DOMAIN stack',
                        ~ stack'[i].disturbed,
                        ~ \E q \in waiting' : q.kind # "products" /\ q.serial = stack'[i].serial
                 PROVE  Shows(stack[i])'
    BY DEF ListMatchesButton, AwaitsCategories
  <2>2. CASE i \in DOMAIN stack
    <3>1. stack'[i] = stack[i] /\ pick = picking
      BY <2>2, <1>4, <1>8
    <3>2. ~ AwaitsCategories(stack[i])
      BY <2>1, <3>1, <1>1 DEF AwaitsCategories
    <3>3. QED
      BY <2>1, <2>2, <3>1, <3>2 DEF Inv, ListMatchesButton, Shows
  <2>3. CASE stack'[i] = new
    BY <2>1, <2>3, <1>3, <1>6
  <2>4. QED
    BY <2>2, <2>3, <1>4
<1>13. ChosenIsAPath'
  BY DEF Inv, ChosenIsAPath
<1>14. PickersInOrder'
  <2>1. SUFFICES ASSUME pick, NEW i \in DOMAIN stack'
                 PROVE  Len(stack'[i].path) = i - 1
    BY DEF PickersInOrder
  <2>2. CASE i \in DOMAIN stack
    BY <2>1, <2>2, <1>4, <1>8 DEF Inv, PickersInOrder
  <2>3. CASE i \notin DOMAIN stack
    <3>1. i = Len(stack) + 1 /\ stack'[i].path = path
      BY <2>3, <1>3, <1>4
    <3>2. Len(path) = Len(stack) /\ Len(stack) \in Nat
      BY <2>1, <1>2, ScreenTypes
    <3>3. QED
      BY <3>1, <3>2
  <2>4. QED
    BY <2>2, <2>3
<1>15. QED
  BY <1>7, <1>9, <1>10, <1>11, <1>12, <1>13, <1>14 DEF Inv

-----------------------------------------------------------------------------
\* A list that arrives replaces the rows of the screen that asked, and nothing
\* else: they continue its path, and, if it awaits nothing more and was not
\* disturbed, match its button.
LEMMA SetCategoryInv ==
    ASSUME Inv, NEW q \in waiting, q.kind \in {"plain", "headed"},
           stack' = SetCategory(q), waiting' = waiting \ {q},
           covering' \in BOOLEAN, UNCHANGED <<picking, chosen, trapped, opened, asks>>
    PROVE  Inv'
<1>1. TypeOK
  BY DEF Inv
<1>2. /\ q \in Requests /\ q.path \in Seq(Rows) /\ q.clicked \in BOOLEAN
      /\ picking \in BOOLEAN /\ stack \in Seq(Screens)
  BY <1>1 DEF TypeOK, Requests
<1>3. DOMAIN stack' = DOMAIN stack /\ DOMAIN stack = 1..Len(stack) /\ Len(stack) \in Nat
  BY <1>2 DEF SetCategory
<1>4. ASSUME NEW i \in DOMAIN stack
      PROVE  /\ stack[i].serial # q.serial => stack'[i] = stack[i]
             /\ stack[i].serial = q.serial =>
                    stack'[i].rows = Heading(picking, stack[i].path) \cup Listed(stack[i].path, q.clicked)
             /\ stack'[i].serial = stack[i].serial
             /\ stack'[i].path = stack[i].path
             /\ stack'[i].isExpand = stack[i].isExpand
             /\ stack'[i].disturbed = stack[i].disturbed
             /\ stack'[i] \in Screens
  <2>1. stack[i] \in Screens
    BY <1>1, ScreenTypes
  <2>2. CASE stack[i].serial # q.serial
    <3>1. stack'[i] = stack[i]
      BY <2>2 DEF SetCategory
    <3>2. QED
      BY <2>1, <2>2, <3>1
  <2>3. CASE stack[i].serial = q.serial
    <3> DEFINE list == Heading(picking, stack[i].path) \cup Listed(q.path, q.clicked)
    <3>1. stack'[i] = [stack[i] EXCEPT !.rows = list]
      BY <2>3 DEF SetCategory
    <3>2. q.path = stack[i].path
      BY <2>3 DEF Inv, RequestsInStep, InStep
    <3>3. Heading(picking, stack[i].path) \subseteq Rows
      BY DEF Heading, Rows
    <3>4. Listed(q.path, q.clicked) \subseteq Rows
      BY <1>2, ListedIsBelow
    <3>5. list \subseteq Rows
      BY <3>3, <3>4
    <3>6. list = Heading(picking, stack[i].path) \cup Listed(stack[i].path, q.clicked)
      BY <3>2
    <3> HIDE DEF list
    <3>7. /\ stack'[i].rows = list
          /\ stack'[i].serial = stack[i].serial
          /\ stack'[i].path = stack[i].path
          /\ stack'[i].isExpand = stack[i].isExpand
          /\ stack'[i].disturbed = stack[i].disturbed
          /\ stack'[i] \in Screens
      BY <2>1, <3>1, <3>5 DEF Screens
    <3>8. QED
      BY <2>3, <3>6, <3>7
  <2>4. QED
    BY <2>2, <2>3
<1>5. TypeOK'
  <2>1. stack' \in Seq(Screens)
    <3>1. stack' = [i \in 1..Len(stack) |-> stack'[i]]
      BY <1>3 DEF SetCategory
    <3>2. stack' \in [1..Len(stack) -> Screens]
      BY <1>3, <1>4, <3>1
    <3>3. QED
      BY <1>3, <3>2
  <2>2. \A i \in DOMAIN stack' : Len(stack'[i].path) <= 2 /\ stack'[i].serial \in 1..opened'
    BY <1>1, <1>3, <1>4 DEF TypeOK
  <2>3. waiting' \subseteq Requests /\ covering' \in BOOLEAN
    BY <1>1 DEF TypeOK
  <2>4. QED
    BY <1>1, <2>1, <2>2, <2>3 DEF TypeOK
<1>6. ScreensOnPath'
  <2>1. SUFFICES ASSUME NEW i \in DOMAIN stack
                 PROVE  OnPath(picking, stack'[i])
    BY <1>3 DEF ScreensOnPath
  <2>2. OnPath(picking, stack[i])
    BY DEF Inv, ScreensOnPath
  <2>3. Listed(stack[i].path, q.clicked) \subseteq Below(stack[i].path)
    BY <1>1, <1>2, ScreenTypes, ListedIsBelow
  <2>4. CASE stack[i].serial = q.serial
    BY <1>4, <2>2, <2>3, <2>4 DEF OnPath
  <2>5. CASE stack[i].serial # q.serial
    BY <1>4, <2>2, <2>5
  <2>6. QED
    BY <2>4, <2>5
<1>7. SerialsDiffer'
  BY <1>3, <1>4 DEF Inv, SerialsDiffer
<1>8. RequestsInStep'
  BY <1>3, <1>4 DEF Inv, RequestsInStep, InStep
<1>9. ListMatchesButton'
  <2>1. SUFFICES ASSUME NEW i \in DOMAIN stack,
                        ~ stack[i].disturbed,
                        ~ \E r \in waiting' : r.kind # "products" /\ r.serial = stack[i].serial
                 PROVE  Shows(stack[i])'
    BY <1>3, <1>4 DEF ListMatchesButton, AwaitsCategories
  <2>2. CASE stack[i].serial = q.serial
    <3>1. InStep(picking, stack[i], q)
      BY DEF Inv, RequestsInStep
    <3>2. q.clicked <=> picking \/ stack[i].isExpand
      BY <2>1, <2>2, <3>1 DEF InStep
    <3>3. Listed(stack[i].path, q.clicked) = Listed(stack[i].path, picking \/ stack[i].isExpand)
      BY <3>2 DEF Listed
    <3>4. stack'[i].rows = Heading(picking, stack[i].path) \cup Listed(stack[i].path, q.clicked)
      BY <1>4, <2>2
    <3>5. QED
      BY <1>4, <3>3, <3>4 DEF Shows
  <2>3. CASE stack[i].serial # q.serial
    <3>1. ~ AwaitsCategories(stack[i])
      BY <2>1, <2>3 DEF AwaitsCategories
    <3>2. QED
      BY <2>1, <2>3, <3>1, <1>4 DEF Inv, ListMatchesButton, Shows
  <2>4. QED
    BY <2>2, <2>3
<1>10. ChosenIsAPath'
  BY DEF Inv, ChosenIsAPath
<1>11. PickersInOrder'
  BY <1>3, <1>4 DEF Inv, PickersInOrder
<1>12. QED
  BY <1>5, <1>6, <1>7, <1>8, <1>9, <1>10, <1>11 DEF Inv

\* An answer without a list changes no list; the screen that asked is disturbed
\* from then on.
LEMMA EmptyAnswerInv ==
    ASSUME Inv, NEW q \in waiting, EmptyAnswer(q)
    PROVE  Inv'
<1>1. TypeOK
  BY DEF Inv
<1>2. /\ stack' = Disturb(q) /\ waiting' = waiting \ {q} /\ covering' \in BOOLEAN
      /\ UNCHANGED <<picking, chosen, trapped, opened, asks>>
  BY <1>1 DEF EmptyAnswer, TypeOK
<1>3. DOMAIN stack' = DOMAIN stack /\ DOMAIN stack = 1..Len(stack) /\ Len(stack) \in Nat
  BY <1>1, <1>2, ScreenTypes DEF Disturb
<1>4. ASSUME NEW i \in DOMAIN stack
      PROVE  /\ stack'[i].serial = stack[i].serial
             /\ stack'[i].path = stack[i].path
             /\ stack'[i].rows = stack[i].rows
             /\ stack'[i].isExpand = stack[i].isExpand
             /\ \/ stack'[i].disturbed
                \/ /\ stack'[i].disturbed = stack[i].disturbed
                   /\ stack[i].serial # q.serial \/ q.kind = "products"
             /\ stack'[i] \in Screens
  <2>1. stack[i] \in Screens
    BY <1>1, ScreenTypes
  <2>2. CASE stack[i].serial = q.serial /\ q.kind # "products"
    <3>1. stack'[i] = [stack[i] EXCEPT !.disturbed = TRUE]
      BY <1>2, <2>2 DEF Disturb
    <3>2. QED
      BY <2>1, <3>1 DEF Screens
  <2>3. CASE stack[i].serial # q.serial \/ q.kind = "products"
    <3>1. stack'[i] = stack[i]
      BY <1>2, <2>3 DEF Disturb
    <3>2. QED
      BY <2>1, <2>3, <3>1
  <2>4. QED
    BY <2>2, <2>3
<1>5. TypeOK'
  <2>1. stack' \in Seq(Screens)
    <3>1. stack' = [i \in 1..Len(stack) |-> stack'[i]]
      BY <1>2, <1>3 DEF Disturb
    <3>2. stack' \in [1..Len(stack) -> Screens]
      BY <1>3, <1>4, <3>1
    <3>3. QED
      BY <1>3, <3>2
  <2>2. \A i \in DOMAIN stack' : Len(stack'[i].path) <= 2 /\ stack'[i].serial \in 1..opened'
    BY <1>1, <1>2, <1>3, <1>4 DEF TypeOK
  <2>3. waiting' \subseteq Requests
    BY <1>1, <1>2 DEF TypeOK
  <2>4. QED
    BY <1>1, <1>2, <2>1, <2>2, <2>3 DEF TypeOK
<1>6. ScreensOnPath'
  BY <1>2, <1>3, <1>4 DEF Inv, ScreensOnPath, OnPath
<1>7. SerialsDiffer'
  BY <1>2, <1>3, <1>4 DEF Inv, SerialsDiffer
<1>8. RequestsInStep'
  BY <1>2, <1>3, <1>4 DEF Inv, RequestsInStep, InStep
<1>9. ListMatchesButton'
  <2>1. SUFFICES ASSUME NEW i \in DOMAIN stack,
                        ~ stack'[i].disturbed,
                        ~ \E r \in waiting' : r.kind # "products" /\ r.serial = stack[i].serial
                 PROVE  Shows(stack[i])
    BY <1>2, <1>3, <1>4 DEF ListMatchesButton, AwaitsCategories, Shows
  <2>2. ~ stack[i].disturbed /\ (stack[i].serial # q.serial \/ q.kind = "products")
    BY <2>1, <1>4
  <2>3. ~ AwaitsCategories(stack[i])
    BY <1>2, <2>1, <2>2 DEF AwaitsCategories
  <2>4. QED
    BY <2>1, <2>2, <2>3 DEF Inv, ListMatchesButton
<1>10. ChosenIsAPath'
  BY <1>2 DEF Inv, ChosenIsAPath
<1>11. PickersInOrder'
  BY <1>2, <1>3, <1>4 DEF Inv, PickersInOrder
<1>12. QED
  BY <1>5, <1>6, <1>7, <1>8, <1>9, <1>10, <1>11 DEF Inv

\* The products of a screen are no part of its list.
LEMMA ProductsAnswerInv ==
    ASSUME Inv, NEW q \in waiting, ProductsAnswer(q)
    PROVE  Inv'
<1>1. /\ q.kind = "products" /\ waiting' = waiting \ {q} /\ covering' = FALSE
      /\ UNCHANGED <<picking, stack, chosen, trapped, opened, asks>>
  BY DEF ProductsAnswer
<1>2. TypeOK'
  BY <1>1 DEF Inv, TypeOK
<1>3. ScreensOnPath' /\ SerialsDiffer' /\ RequestsInStep' /\ PickersInOrder'
  BY <1>1 DEF Inv, ScreensOnPath, SerialsDiffer, RequestsInStep, PickersInOrder
<1>4. \A i \in DOMAIN stack : AwaitsCategories(stack[i])' <=> AwaitsCategories(stack[i])
  BY <1>1 DEF AwaitsCategories
<1>5. ListMatchesButton' /\ ChosenIsAPath'
  BY <1>1, <1>4 DEF Inv, ListMatchesButton, Shows, ChosenIsAPath
<1>6. QED
  BY <1>2, <1>3, <1>5 DEF Inv

\* The button turns over what the screen shows and asks for just that; asked
\* over another request that is still awaited, the screen is disturbed.
LEMMA ButtonPressedInv ==
    ASSUME Inv, ButtonPressed
    PROVE  Inv'
<1> DEFINE top == Len(stack)
           new == Request(asks + 1, TopScreen.serial, "headed", TopScreen.path, ~ TopScreen.isExpand)
<1>1. TypeOK
  BY DEF Inv
<1>2. /\ stack # <<>> /\ Headed(picking, TopScreen.path)
      /\ asks' = asks + 1 /\ waiting' = waiting \cup {new}
      /\ UNCHANGED <<picking, covering, chosen, trapped, opened>>
  BY DEF ButtonPressed
<1>3. /\ top \in DOMAIN stack /\ TopScreen = stack[top]
      /\ stack[top] \in Screens /\ stack[top].isExpand \in BOOLEAN
      /\ stack[top].serial \in 1..opened /\ opened \in Nat
  BY <1>1, <1>2, TopIsAScreen, ScreenTypes DEF TypeOK
<1>4. asks + 1 \in 1..MaxAsks
  <2>1. asks \in Nat /\ asks < MaxAsks /\ MaxAsks \in Nat
    BY <1>1, CategoryAssumption DEF TypeOK, ButtonPressed
  <2>2. QED
    BY <2>1
<1>5. /\ new.serial = stack[top].serial /\ new.path = stack[top].path
      /\ new.kind = "headed" /\ new.clicked = ~ stack[top].isExpand
      /\ new \in Requests
  <2>1. stack[top].serial \in 1..MaxScreens /\ stack[top].path \in Seq(Rows)
    BY <1>3 DEF Screens
  <2>2. QED
    BY <1>3, <1>4, <2>1 DEF Request, Requests, Kinds
<1>6. /\ DOMAIN stack' = DOMAIN stack /\ DOMAIN stack = 1..Len(stack) /\ Len(stack) \in Nat
      /\ \A i \in DOMAIN stack \ {top} : stack'[i] = stack[i]
      /\ stack'[top] = [stack[top] EXCEPT !.isExpand = ~ @,
                                          !.disturbed = @ \/ AwaitsCategories(stack[top])]
  BY <1>1, <1>3, ScreenTypes DEF ButtonPressed
<1>7. /\ stack'[top].serial = stack[top].serial
      /\ stack'[top].path = stack[top].path
      /\ stack'[top].rows = stack[top].rows
      /\ stack'[top].isExpand = ~ stack[top].isExpand
      /\ stack'[top].disturbed <=> (stack[top].disturbed \/ AwaitsCategories(stack[top]))
      /\ stack'[top] \in Screens
  BY <1>3, <1>6 DEF Screens
<1> HIDE DEF new, top
<1>8. ASSUME NEW i \in DOMAIN stack
      PROVE  /\ stack'[i].serial = stack[i].serial
             /\ stack'[i].path = stack[i].path
             /\ stack'[i].rows = stack[i].rows
             /\ stack'[i] \in Screens
  <2>1. stack[i] \in Screens
    BY <1>1, ScreenTypes
  <2>2. CASE i = top
    BY <2>2, <1>7
  <2>3. CASE i # top
    BY <2>1, <2>3, <1>6
  <2>4. QED
    BY <2>2, <2>3
<1>9. TypeOK'
  <2>1. stack' \in Seq(Screens)
    <3>1. stack' = [i \in 1..Len(stack) |-> stack'[i]]
      BY <1>6 DEF ButtonPressed
    <3>2. stack' \in [1..Len(stack) -> Screens]
      BY <1>6, <1>8, <3>1
    <3>3. QED
      BY <1>6, <3>2
  <2>2. \A i \in DOMAIN stack' : Len(stack'[i].path) <= 2 /\ stack'[i].serial \in 1..opened'
    BY <1>1, <1>2, <1>6, <1>8 DEF TypeOK
  <2>3. waiting' \subseteq Requests /\ asks' \in 0..MaxAsks
    BY <1>1, <1>2, <1>4, <1>5 DEF TypeOK
  <2>4. QED
    BY <1>1, <1>2, <2>1, <2>2, <2>3 DEF TypeOK
<1>10. ScreensOnPath'
  BY <1>2, <1>6, <1>8 DEF Inv, ScreensOnPath, OnPath
<1>11. SerialsDiffer'
  <2>1. \A i, j \in DOMAIN stack' : stack'[i].serial = stack'[j].serial => i = j
    BY <1>6, <1>8 DEF Inv, SerialsDiffer
  <2>2. new.serial <= opened
    BY <1>3, <1>5
  <2>3. QED
    BY <1>2, <2>1, <2>2 DEF Inv, SerialsDiffer
<1>12. RequestsInStep'
  <2>1. SUFFICES ASSUME NEW i \in DOMAIN stack, NEW q \in waiting',
                        q.serial = stack[i].serial
                 PROVE  InStep(picking, stack'[i], q)
    BY <1>2, <1>6, <1>8 DEF RequestsInStep, InStep
  <2>2. CASE q \in waiting /\ i # top
    BY <1>6, <2>2 DEF Inv, RequestsInStep
  <2>3. CASE q \in waiting /\ i = top
    <3>1. InStep(picking, stack[i], q)
      BY <2>3 DEF Inv, RequestsInStep
    <3>2. q.kind # "products" => AwaitsCategories(stack[top])
      BY <2>1, <2>3 DEF AwaitsCategories
    <3>3. q.kind # "products" => stack'[top].disturbed
      BY <1>7, <3>2
    <3>4. QED
      BY <1>8, <2>3, <3>1, <3>3 DEF InStep
  <2>4. CASE q = new
    <3>1. i = top
      BY <1>3, <1>5, <2>1, <2>4 DEF Inv, SerialsDiffer
    <3>2. ~ picking
      BY <1>2 DEF Headed
    <3>3. QED
      BY <1>5, <1>7, <2>4, <3>1, <3>2 DEF InStep
  <2>5. QED
    BY <1>2, <2>2, <2>3, <2>4
<1>13. ListMatchesButton'
  <2>1. SUFFICES ASSUME NEW i \in DOMAIN stack,
                        ~ stack'[i].disturbed,
                        ~ \E r \in waiting' : r.kind # "products" /\ r.serial = stack[i].serial
                 PROVE  Shows(stack[i])'
    BY <1>2, <1>6, <1>8 DEF ListMatchesButton, AwaitsCategories
  <2>2. i # top
    BY <1>2, <1>5, <2>1
  <2>3. stack'[i] = stack[i] /\ ~ AwaitsCategories(stack[i])
    BY <1>2, <1>6, <2>1, <2>2 DEF AwaitsCategories
  <2>4. QED
    BY <1>2, <2>1, <2>3 DEF Inv, ListMatchesButton, Shows
<1>14. ChosenIsAPath'
  BY <1>2 DEF Inv, ChosenIsAPath
<1>15. PickersInOrder'
  BY <1>2 DEF Headed, PickersInOrder
<1>16. QED
  BY <1>9, <1>10, <1>11, <1>12, <1>13, <1>14, <1>15 DEF Inv

\* Leaving the screen in front, or all screens, leaves the rest as it was.
LEMMA FewerScreensInv ==
    ASSUME Inv, stack' \in Seq(Screens),
           DOMAIN stack' \subseteq DOMAIN stack,
           \A i \in DOMAIN stack' : stack'[i] = stack[i],
           chosen' \in Seq(Rows), trapped' \in BOOLEAN, ChosenIsAPath',
           UNCHANGED <<picking, waiting, covering, opened, asks>>
    PROVE  Inv'
<1>1. TypeOK'
  BY DEF Inv, TypeOK
<1>2. ScreensOnPath' /\ SerialsDiffer' /\ RequestsInStep' /\ PickersInOrder'
  BY DEF Inv, ScreensOnPath, SerialsDiffer, RequestsInStep, PickersInOrder
<1>3. \A i \in DOMAIN stack' : AwaitsCategories(stack[i])' <=> AwaitsCategories(stack[i])
  BY DEF AwaitsCategories
<1>4. ListMatchesButton'
  BY <1>3 DEF Inv, ListMatchesButton, Shows
<1>5. QED
  BY <1>1, <1>2, <1>4 DEF Inv

LEMMA BackInv ==
    ASSUME Inv, Back
    PROVE  Inv'
<1>1. /\ stack \in Seq(Screens) /\ stack # <<>>
      /\ stack' = SubSeq(stack, 1, Len(stack) - 1)
      /\ UNCHANGED <<picking, waiting, covering, chosen, trapped, opened, asks>>
  BY DEF Inv, TypeOK, Back
<1>2. /\ stack' \in Seq(Screens)
      /\ DOMAIN stack' \subseteq DOMAIN stack
      /\ \A i \in DOMAIN stack' : stack'[i] = stack[i]
  BY <1>1
<1>3. chosen' \in Seq(Rows) /\ trapped' \in BOOLEAN /\ ChosenIsAPath'
  BY <1>1 DEF Inv, TypeOK, ChosenIsAPath
<1>4. QED
  BY <1>1, <1>2, <1>3, FewerScreensInv

\* The third picker is the third screen above the form, and hands it a path of
\* three categories.
LEMMA PickInv ==
    ASSUME Inv, NEW row \in Rows, Pick(row)
    PROVE  Inv'
<1>1. /\ stack # <<>> /\ picking /\ row \in TopScreen.rows /\ Len(TopScreen.path) = 2
      /\ chosen' = Append(TopScreen.path, row) /\ stack' = <<>> /\ trapped' = FALSE
      /\ UNCHANGED <<picking, waiting, covering, opened, asks>>
  <2>1. /\ stack # <<>> /\ picking /\ row \in TopScreen.rows /\ Len(TopScreen.path) = 2
        /\ trapped' = ~ IsForm(4)
        /\ chosen' = IF IsForm(4) THEN Append(TopScreen.path, row) ELSE chosen
        /\ stack' = IF IsForm(4) THEN <<>> ELSE stack
        /\ UNCHANGED <<picking, waiting, covering, opened, asks>>
    BY DEF Pick
  <2>2. IsForm(4)
    <3>1. Len(stack) \in Nat /\ Len(stack) \in DOMAIN stack /\ TopScreen = stack[Len(stack)]
      BY <2>1, ScreenTypes, TopIsAScreen DEF Inv
    <3>2. Len(TopScreen.path) = Len(stack) - 1
      BY <2>1, <3>1 DEF Inv, PickersInOrder
    <3>3. Len(stack) = 3
      <4>1. \A n \in Nat : 2 = n - 1 => n = 3
        OBVIOUS
      <4>2. Len(stack) \in Nat /\ 2 = Len(stack) - 1
        BY <2>1, <3>1, <3>2
      <4>3. QED
        BY <4>1, <4>2
    <3>4. QED
      BY <3>3 DEF IsForm
  <2>3. QED
    BY <2>1, <2>2
<1>2. TopScreen \in Screens /\ OnPath(TRUE, TopScreen)
  BY <1>1, TopIsAScreen, ScreenTypes DEF Inv, ScreensOnPath
<1>3. /\ chosen' \in Seq(Rows) /\ Len(chosen') = 3 /\ Leads(chosen')
      /\ \A k \in DOMAIN chosen' : chosen'[k] # All
  <2> DEFINE on == Append(TopScreen.path, row)
  <2>1. /\ on \in Seq(Rows) /\ Len(on) = Len(TopScreen.path) + 1 /\ Leads(on)
        /\ \A k \in DOMAIN on : on[k] # All
    BY <1>1, <1>2, RowLeadsOn
  <2>2. chosen' = on
    BY <1>1
  <2> HIDE DEF on
  <2>3. Len(on) = 3
    BY <1>1, <2>1
  <2>4. QED
    BY <2>1, <2>2, <2>3
<1>4. ChosenIsAPath'
  BY <1>1, <1>3 DEF ChosenIsAPath
<1>5. stack' \in Seq(Screens) /\ DOMAIN stack' = {}
  BY <1>1
<1>6. QED
  BY <1>1, <1>3, <1>4, <1>5, FewerScreensInv

\* A screen opened from the tab's own, or from a row of the screen in front.
LEMMA OpenInv ==
    ASSUME Inv,
           \/ \E path \in {<<>>} \cup {<<c>> : c \in TopLevel} : OpenBrowser(path)
           \/ OpenPicker
           \/ \E row \in Rows : SelectRow(row) \/ SelectPickerRow(row)
    PROVE  Inv'
<1>1. ASSUME NEW path \in {<<>>} \cup {<<c>> : c \in TopLevel}, OpenBrowser(path)
      PROVE  Inv'
  <2>1. path \in Seq(Rows) /\ Len(path) <= 2
    <3>1. CASE path = <<>>
      BY <3>1
    <3>2. ASSUME NEW c \in TopLevel, path = <<c>>
          PROVE  path \in Seq(Rows) /\ Len(path) <= 2
      <4>1. c \in Rows
        BY CategoryAssumption DEF Rows
      <4>2. QED
        BY <3>2, <4>1
    <3>3. QED
      BY <3>1, <3>2
  <2>2. Leads(path)
    BY DEF Leads
  <2>3. /\ stack = <<>> /\ picking' = FALSE /\ UNCHANGED <<chosen, trapped>>
        /\ Push(FALSE, path)
    BY <1>1 DEF OpenBrowser
  <2>4. QED
    BY <2>1, <2>2, <2>3, PushInv
<1>2. ASSUME OpenPicker
      PROVE  Inv'
  <2>1. /\ <<>> \in Seq(Rows) /\ Len(<<>>) <= 2 /\ DOMAIN <<>> = {}
        /\ Len(<<>>) = 0
    OBVIOUS
  <2>2. Leads(<<>>)
    BY DEF Leads
  <2>3. /\ stack = <<>> /\ picking' = TRUE /\ UNCHANGED <<chosen, trapped>>
        /\ Push(TRUE, <<>>)
    BY <1>2 DEF OpenPicker
  <2>4. QED
    BY <2>1, <2>2, <2>3, PushInv
<1>3. ASSUME NEW row \in Rows, SelectRow(row) \/ SelectPickerRow(row)
      PROVE  Inv'
  <2> DEFINE on == Append(TopScreen.path, row)
  <2>1. /\ stack # <<>> /\ row \in TopScreen.rows /\ Len(TopScreen.path) < 2
        /\ UNCHANGED <<picking, chosen, trapped>> /\ picking \in BOOLEAN
        /\ Push(picking, on)
    BY <1>3 DEF SelectRow, SelectPickerRow, Inv, TypeOK
  <2>2. TopScreen \in Screens /\ OnPath(picking, TopScreen)
    BY <2>1, TopIsAScreen, ScreenTypes DEF Inv, ScreensOnPath
  <2>3. Len(TopScreen.path) \in Nat
    BY <2>2 DEF Screens
  <2>4. /\ on \in Seq(Rows) /\ Len(on) <= 2 /\ Leads(on)
        /\ picking => \A k \in DOMAIN on : on[k] # All
        /\ Len(on) = Len(TopScreen.path) + 1
    BY <2>1, <2>2, <2>3, RowLeadsOn
  <2>5. picking => Len(on) = Len(stack)
    <3>1. Len(stack) \in Nat /\ Len(stack) \in DOMAIN stack /\ TopScreen = stack[Len(stack)]
      BY <2>1, ScreenTypes, TopIsAScreen DEF Inv
    <3>2. picking => Len(TopScreen.path) = Len(stack) - 1
      BY <3>1 DEF Inv, PickersInOrder
    <3> HIDE DEF on
    <3>3. QED
      BY <2>3, <2>4, <3>1, <3>2
  <2>6. QED
    BY <2>1, <2>4, <2>5, PushInv
<1>4. QED
  BY <1>1, <1>2, <1>3

-----------------------------------------------------------------------------
LEMMA InitInv == Init => Inv
<1>1. SUFFICES ASSUME Init
               PROVE  Inv
  OBVIOUS
<1>2. /\ picking \in BOOLEAN /\ covering \in BOOLEAN
      /\ stack = <<>> /\ waiting = {} /\ chosen = <<>> /\ trapped = FALSE
      /\ opened = 0 /\ asks = 0
  BY <1>1 DEF Init
<1>3. DOMAIN stack = {} /\ stack \in Seq(Screens) /\ chosen \in Seq(Rows)
  <2>1. \A S : <<>> \in Seq(S)
    OBVIOUS
  <2>2. DOMAIN <<>> = {}
    OBVIOUS
  <2>3. QED
    BY <1>2, <2>1, <2>2
<1>4. MaxScreens \in Nat /\ MaxAsks \in Nat
  BY CategoryAssumption
<1>5. opened \in 0..MaxScreens /\ asks \in 0..MaxAsks
  BY <1>2, <1>4
<1>6. TypeOK
  BY <1>2, <1>3, <1>5 DEF TypeOK
<1>7. QED
  BY <1>2, <1>3, <1>6 DEF Inv, ScreensOnPath, SerialsDiffer, RequestsInStep, PickersInOrder, ListMatchesButton,
                           ChosenIsAPath

LEMMA NextInv == Inv /\ [Next]_vars => Inv'
<1>1. SUFFICES ASSUME Inv, [Next]_vars
               PROVE  Inv'
  OBVIOUS
<1>2. CASE \/ \E path \in {<<>>} \cup {<<c>> : c \in TopLevel} : OpenBrowser(path)
           \/ OpenPicker
           \/ \E row \in Rows : SelectRow(row) \/ SelectPickerRow(row)
  BY <1>1, <1>2, OpenInv
<1>3. CASE \E row \in Rows : Pick(row)
  BY <1>1, <1>3, PickInv
<1>4. CASE ButtonPressed
  BY <1>1, <1>4, ButtonPressedInv
<1>5. CASE Back
  BY <1>1, <1>5, BackInv
<1>6. ASSUME NEW q \in waiting, Answer(q)
      PROVE  Inv'
  <2>1. CASE PlainAnswer(q) \/ HeadedAnswer(q)
    <3>1. /\ q.kind \in {"plain", "headed"} /\ stack' = SetCategory(q)
          /\ waiting' = waiting \ {q} /\ covering' \in BOOLEAN
          /\ UNCHANGED <<picking, chosen, trapped, opened, asks>>
      BY <1>1, <2>1 DEF PlainAnswer, HeadedAnswer, Inv, TypeOK
    <3>2. QED
      BY <1>1, <3>1, SetCategoryInv
  <2>2. CASE ProductsAnswer(q)
    BY <1>1, <2>2, ProductsAnswerInv
  <2>3. CASE EmptyAnswer(q)
    BY <1>1, <2>3, EmptyAnswerInv
  <2>4. QED
    BY <1>6, <2>1, <2>2, <2>3 DEF Answer
<1>7. CASE UNCHANGED vars
  <2>1. UNCHANGED <<picking, stack, waiting, covering, chosen, trapped, opened, asks>>
    BY <1>7 DEF vars
  <2>2. stack \in Seq(Screens) /\ chosen' \in Seq(Rows) /\ trapped' \in BOOLEAN /\ ChosenIsAPath'
    BY <1>1, <2>1 DEF Inv, TypeOK, ChosenIsAPath
  <2>3. QED
    BY <1>1, <2>1, <2>2, FewerScreensInv
<1>8. QED
  BY <1>1, <1>2, <1>3, <1>4, <1>5, <1>6, <1>7 DEF Next

THEOREM Invariance == Spec => []Inv
  BY InitInv, NextInv, PTL DEF Spec

\* Every variable keeps its type, and no screen is deeper than the last list.
THEOREM TypeCorrect == Spec => []TypeOK
<1>1. Inv => TypeOK
  BY DEF Inv
<1>2. QED
  BY Invariance, <1>1, PTL

\* No screen stands for a sub category of another category, whatever list
\* arrives when.
THEOREM PathsLeadAlways == Spec => []PathsLead
<1>1. Inv => PathsLead
  BY DEF Inv, ScreensOnPath, OnPath, PathsLead
<1>2. QED
  BY Invariance, <1>1, PTL

\* The last picker finds the register form where it looks for it, and what it
\* hands to it is a path of three categories.
THEOREM ChosenAlways == Spec => []ChosenIsAPath
<1>1. Inv => ChosenIsAPath
  BY DEF Inv
<1>2. QED
  BY Invariance, <1>1, PTL

\* Once no list for it is awaited, an undisturbed screen shows its own list as
\* its button says, whatever it was covered by and whoever was answered before.
THEOREM ListMatchesAlways == Spec => []ListMatchesButton
<1>1. Inv => ListMatchesButton
  BY DEF Inv
<1>2. QED
  BY Invariance, <1>1, PTL
=============================================================================
