---------------------------- MODULE OrderingProofs ----------------------------
(***************************************************************************)
(* Orders placed while administrators edit: for every set of areas,          *)
(* categories, services, rules, administrators, customers and requests.      *)
(***************************************************************************)
EXTENDS Ordering, FiniteSetTheorems, WellFoundedInduction, TLAPS

-----------------------------------------------------------------------------
(* Induction, which rests on < being well founded on Nat.                   *)

LEMMA LessThanIsWellFounded ==
  \E R : /\ IsWellFoundedOn(R, Nat)
         /\ \A i, j \in Nat : i < j => <<i, j>> \in R
<1> DEFINE R == OpToRel(<, Nat)
<1>1. IsWellFoundedOn(R, Nat)
  BY NatLessThanWellFounded
<1>2. \A i, j \in Nat : i < j => <<i, j>> \in R
  BY DEF OpToRel
<1> HIDE DEF R
<1> QED
  BY <1>1, <1>2

LEMMA HasMinimal ==
  ASSUME NEW R, NEW S, IsWellFoundedOn(R, S), NEW T, T \subseteq S, T # {}
  PROVE  \E x \in T : \A y \in T : ~(<<y, x>> \in R)
BY WFMin, SMT

\* A set of naturals with 0 and every successor holds all of them.
LEMMA SetInduction ==
  ASSUME NEW S, 0 \in S, \A n \in Nat : n \in S => n + 1 \in S
  PROVE  \A n \in Nat : n \in S
<1> DEFINE T == Nat \ S
<1>1. SUFFICES ASSUME T # {} PROVE FALSE
  OBVIOUS
<1>2. PICK R : /\ IsWellFoundedOn(R, Nat)
               /\ \A i, j \in Nat : i < j => <<i, j>> \in R
  BY LessThanIsWellFounded
<1>3. PICK x \in T : \A y \in T : ~(<<y, x>> \in R)
  <2>1. T \subseteq Nat
    OBVIOUS
  <2> HIDE DEF T
  <2>2. IsWellFoundedOn(R, Nat) /\ T # {}
    BY <1>1, <1>2
  <2> QED
    BY <2>1, <2>2, HasMinimal, Zenon
<1>4. x \in Nat /\ x # 0 /\ x - 1 \in Nat
  BY <1>3
<1>5. x - 1 \in T
  <2>1. (x - 1) + 1 = x
    BY <1>4
  <2> QED
    BY <1>3, <1>4, <2>1
<1>6. <<x - 1, x>> \in R
  BY <1>2, <1>4
<1> QED
  BY <1>3, <1>5, <1>6

-----------------------------------------------------------------------------
(* Types.                                                                   *)

Terms == Rates \cup {DefaultTerms}

Order == [customer : {CustomerOf[r] : r \in Requests}, item : Items,
          slot : Slots \cup {NoSlot}, unpaid : BOOLEAN, recent : BOOLEAN, snapshot : Terms]

Edit ==
  {Idle}
  \cup [op : {"upsert"}, key : Keys, row : Rule]
  \cup [op : {"remove"}, key : Keys]
  \cup [op : {"updateCategory"}, c : Categories, parent : Categories \cup {NoCategory},
        level : Nat]
  \cup [op : {"removeCategory"}, c : Categories]
  \cup [op : {"updateItem"}, i : Items, category : Given(Categories), active : Given(BOOLEAN)]
  \cup [op : {"removeItem"}, i : Items]
  \cup [op : {"area"}, ns : SUBSET Nodes, row : Area]
  \cup [op : {"patch"}, n : Nodes, active : BOOLEAN]
  \cup [op : {"enable", "switch"}, n : Nodes, active : BOOLEAN, below : SUBSET Nodes]

Walking == [pc : {"gate", "category", "chain", "rules"}, item : Items,
            slot : Slots \cup {NoSlot}, chain : Seq(Categories)]
Resolved == [pc : {"equal", "insert"}, item : Items, slot : Slots \cup {NoSlot},
             snapshot : Terms]

TablesOK ==
  /\ area \in [Nodes -> Area]
  /\ category \in [Categories -> Category]
  /\ item \in [Items -> Item]
  /\ rule \in [Keys -> Rule \cup {NoRule}]

\* A rule that is to be removed exists, a chain that is walked has begun.
EditsOK ==
  /\ edit \in [Admins -> Edit]
  /\ \A a \in Admins : edit[a].op = "remove" => rule[edit[a].key] \in Rule

RequestsOK ==
  /\ request \in [Requests -> {NoRequest} \cup Walking \cup Resolved]
  /\ \A r \in Requests : request[r].pc \in {"chain", "rules"} => request[r].chain # <<>>
  /\ calm \in [Requests -> BOOLEAN]

TypeOK == TablesOK /\ EditsOK /\ RequestsOK /\ order \in [Ids -> Order \cup {NoOrder}]


LEMMA KeysFacts ==
  /\ Global \in Keys
  /\ \A i \in Items : ItemKey(i) \in Keys
  /\ \A c \in Categories : CategoryKey(c) \in Keys
BY DEF Keys

LEMMA RequestFacts ==
  ASSUME RequestsOK, NEW r \in Requests
  PROVE  /\ request[r].pc \in {"gate", "category", "chain", "rules"} => request[r] \in Walking
         /\ request[r].pc \in {"equal", "insert"} => request[r] \in Resolved
<1>1. request[r] \in {NoRequest} \cup Walking \cup Resolved
  BY DEF RequestsOK
<1>2. NoRequest.pc = "idle"
  BY DEF NoRequest
<1>3. request[r] \in Walking => request[r].pc \in {"gate", "category", "chain", "rules"}
  BY DEF Walking
<1>4. request[r] \in Resolved => request[r].pc \in {"equal", "insert"}
  BY DEF Resolved
<1> QED
  BY <1>1, <1>2, <1>3, <1>4

\* Every handler begun leaves the administrator with a handler of its kind.
LEMMA EditFacts ==
  ASSUME NEW e \in Edit
  PROVE  /\ e.op = "upsert" => e.key \in Keys /\ e.row \in Rule
         /\ e.op = "remove" => e.key \in Keys
         /\ e.op = "updateCategory" =>
              /\ e.c \in Categories
              /\ e.parent \in Categories \cup {NoCategory}
              /\ e.level \in Nat
         /\ e.op = "removeCategory" => e.c \in Categories
         /\ e.op = "updateItem" =>
              /\ e.i \in Items
              /\ e.category \in Given(Categories)
              /\ e.active \in Given(BOOLEAN)
         /\ e.op = "removeItem" => e.i \in Items
         /\ e.op = "area" => e.ns \in SUBSET Nodes /\ e.row \in Area
         /\ e.op = "patch" => e.n \in Nodes /\ e.active \in BOOLEAN
         /\ e.op \in {"enable", "switch"} =>
              /\ e.n \in Nodes /\ e.active \in BOOLEAN /\ e.below \in SUBSET Nodes
              /\ e \in [op : {"enable", "switch"}, n : Nodes, active : BOOLEAN,
                        below : SUBSET Nodes]
BY DEF Edit, Idle

\* A column keeps its type whether it was given or not.
LEMMA GivenIsWritten ==
  ASSUME NEW S, NEW given \in Given(S), NEW old \in S
  PROVE  Written(given, old) \in S
BY DEF Given, Written

LEMMA EditsKept ==
  ASSUME EditsOK, NEW a \in Admins, NEW e \in Edit,
         e.op = "remove" => rule'[e.key] \in Rule,
         \A k \in Keys : rule[k] \in Rule => rule'[k] \in Rule,
         edit' = [edit EXCEPT ![a] = e]
  PROVE  EditsOK'
<1>1. edit' \in [Admins -> Edit]
  BY DEF EditsOK
<1>2. ASSUME NEW b \in Admins, edit'[b].op = "remove"
      PROVE  rule'[edit'[b].key] \in Rule
  <2>1. CASE b = a
    <3>1. edit'[b] = e
      BY <2>1 DEF EditsOK
    <3> QED
      BY <1>2, <3>1
  <2>2. CASE b # a
    <3>1. edit'[b] = edit[b] /\ edit[b] \in Edit
      BY <2>2 DEF EditsOK
    <3>2. edit[b].key \in Keys /\ rule[edit[b].key] \in Rule
      BY <1>2, <3>1, EditFacts DEF EditsOK
    <3> QED
      BY <3>1, <3>2
  <2> QED
    BY <2>1, <2>2
<1> QED
  BY <1>1, <1>2 DEF EditsOK

LEMMA IdleEdit == Idle \in Edit /\ Idle.op = "none"
BY DEF Edit, Idle

\* Beginning a handler writes no table.
LEMMA EditBegins ==
  ASSUME TablesOK, EditsOK, NEW a \in Admins, EditStart(a)
  PROVE  /\ edit[a] = Idle
         /\ \E e \in Edit : /\ edit' = [edit EXCEPT ![a] = e]
                            /\ e.op = "remove" => rule[e.key] \in Rule
         /\ UNCHANGED <<area, category, item, rule>>
<1> DEFINE Goal == /\ edit[a] = Idle
                   /\ \E e \in Edit : /\ edit' = [edit EXCEPT ![a] = e]
                                      /\ e.op = "remove" => rule[e.key] \in Rule
                   /\ UNCHANGED <<area, category, item, rule>>
<1>1. ASSUME NEW e \in Edit, e.op = "remove" => rule[e.key] \in Rule, Begin(a, e)
      PROVE  Goal
  BY <1>1 DEF Begin
<1> HIDE DEF Goal
<1>2. ASSUME NEW key \in Keys, remove(a, key) PROVE Goal
  <2> DEFINE e == [op |-> "remove", key |-> key]
  <2>1. e \in Edit /\ e.op = "remove" /\ e.key = key
    BY DEF Edit
  <2>2. rule[key] \in Rule /\ Begin(a, e)
    BY <1>2 DEF remove, TablesOK
  <2> HIDE DEF e
  <2> QED
    BY <1>1, <2>1, <2>2
<1>3. ASSUME NEW key \in Keys, NEW terms \in Rates, NEW on \in BOOLEAN,
             upsert(a, key, terms, on)
      PROVE  Goal
  <2> DEFINE e == [op |-> "upsert", key |-> key,
                   row |-> [terms |-> terms, active |-> on, deleted |-> FALSE]]
  <2>1. e \in Edit /\ e.op = "upsert"
    BY DEF Edit, Rule
  <2>2. Begin(a, e)
    BY <1>3 DEF upsert
  <2> HIDE DEF e
  <2> QED
    BY <1>1, <2>1, <2>2
<1>4. ASSUME NEW c \in Categories, removeCategory(a, c) PROVE Goal
  <2> DEFINE e == [op |-> "removeCategory", c |-> c]
  <2>1. e \in Edit /\ e.op = "removeCategory"
    BY DEF Edit
  <2>2. Begin(a, e)
    BY <1>4 DEF removeCategory
  <2> HIDE DEF e
  <2> QED
    BY <1>1, <2>1, <2>2
<1>5. ASSUME NEW c \in Categories, NEW parent \in Categories \cup {NoCategory},
             updateCategory(a, c, parent)
      PROVE  Goal
  <2> DEFINE e == [op |-> "updateCategory", c |-> c, parent |-> parent,
                   level |-> Level(parent)]
  <2>1. Level(parent) \in Nat
    BY DEF Level, TablesOK, Category
  <2>2. e \in Edit /\ e.op = "updateCategory"
    BY <2>1 DEF Edit
  <2>3. Begin(a, e)
    BY <1>5 DEF updateCategory
  <2> HIDE DEF e
  <2> QED
    BY <1>1, <2>2, <2>3
<1>6. ASSUME NEW i \in Items, removeItem(a, i) PROVE Goal
  <2> DEFINE e == [op |-> "removeItem", i |-> i]
  <2>1. e \in Edit /\ e.op = "removeItem"
    BY DEF Edit
  <2>2. Begin(a, e)
    BY <1>6 DEF removeItem
  <2> HIDE DEF e
  <2> QED
    BY <1>1, <2>1, <2>2
<1>7. ASSUME NEW i \in Items, NEW c \in Given(Categories), NEW on \in Given(BOOLEAN),
             updateItem(a, i, c, on)
      PROVE  Goal
  <2> DEFINE e == [op |-> "updateItem", i |-> i, category |-> c, active |-> on]
  <2>1. e \in Edit /\ e.op = "updateItem"
    BY DEF Edit
  <2>2. Begin(a, e)
    BY <1>7 DEF updateItem
  <2> HIDE DEF e
  <2> QED
    BY <1>1, <2>1, <2>2
<1>8. ASSUME NEW ns \in SUBSET Nodes, batchCreate(a, ns) \/ batchRemove(a, ns)
      PROVE  Goal
  <2>1. PICK on \in BOOLEAN :
          Begin(a, [op |-> "area", ns |-> ns, row |-> [open |-> on, active |-> on]])
    BY <1>8 DEF batchCreate, batchRemove
  <2> DEFINE e == [op |-> "area", ns |-> ns, row |-> [open |-> on, active |-> on]]
  <2>2. e \in Edit /\ e.op = "area"
    BY DEF Edit, Area
  <2>3. Begin(a, e)
    BY <2>1
  <2> HIDE DEF e
  <2> QED
    BY <1>1, <2>2, <2>3
<1>9. ASSUME NEW n \in Nodes, NEW on \in BOOLEAN, updateArea(a, n, on) PROVE Goal
  <2> DEFINE e == [op |-> "patch", n |-> n, active |-> on]
  <2>1. e \in Edit /\ e.op = "patch"
    BY DEF Edit
  <2>2. Begin(a, e)
    BY <1>9 DEF updateArea
  <2> HIDE DEF e
  <2> QED
    BY <1>1, <2>1, <2>2
<1>10. ASSUME NEW n \in Nodes, NEW on \in BOOLEAN, NEW cascade \in BOOLEAN,
              setAreaEnabled(a, n, on, cascade)
       PROVE  Goal
  <2> DEFINE below == IF on /\ ~cascade THEN {} ELSE Below(n)
             e == [op |-> IF on THEN "enable" ELSE "switch", n |-> n, active |-> on,
                   below |-> below]
  <2>1. below \in SUBSET Nodes
    BY DEF Below, Reach, OpenRows
  <2>2. Begin(a, e)
    BY <1>10 DEF setAreaEnabled
  <2> HIDE DEF below
  <2>3. e \in Edit /\ e.op # "remove"
    BY <2>1 DEF Edit
  <2> HIDE DEF e
  <2> QED
    BY <1>1, <2>2, <2>3
<1>11. ASSUME NEW n \in Nodes, createArea(a, n) \/ removeArea(a, n) PROVE Goal
  BY <1>8, <1>11 DEF createArea, removeArea
<1>12. Goal
  BY <1>2, <1>3, <1>4, <1>5, <1>6, <1>7, <1>8, <1>9, <1>10, <1>11 DEF EditStart
<1> QED
  BY <1>12 DEF Goal

\* Ending one writes rows of the table it is about.
LEMMA EditWrites ==
  ASSUME TablesOK, EditsOK, NEW a \in Admins, EditWrite(a)
  PROVE  /\ \E e \in Edit : edit' = [edit EXCEPT ![a] = e] /\ e.op # "remove"
         /\ TablesOK'
         /\ \A k \in Keys : rule[k] \in Rule => rule'[k] \in Rule
<1> DEFINE e == edit[a]
<1>1. /\ e.op = "upsert" => e.key \in Keys /\ e.row \in Rule
      /\ e.op = "remove" => e.key \in Keys
      /\ e.op = "updateCategory" =>
           /\ e.c \in Categories
           /\ e.parent \in Categories \cup {NoCategory}
           /\ e.level \in Nat
      /\ e.op = "removeCategory" => e.c \in Categories
      /\ e.op = "updateItem" =>
           /\ e.i \in Items
           /\ e.category \in Given(Categories)
           /\ e.active \in Given(BOOLEAN)
      /\ e.op = "removeItem" => e.i \in Items
      /\ e.op = "area" => e.ns \in SUBSET Nodes /\ e.row \in Area
      /\ e.op = "patch" => e.n \in Nodes /\ e.active \in BOOLEAN
      /\ e.op \in {"enable", "switch"} =>
           /\ e.n \in Nodes /\ e.active \in BOOLEAN /\ e.below \in SUBSET Nodes
           /\ e \in [op : {"enable", "switch"}, n : Nodes, active : BOOLEAN,
                     below : SUBSET Nodes]
  <2>1. e \in Edit
    BY DEF EditsOK
  <2> HIDE DEF e
  <2> QED
    BY <2>1, EditFacts
<1>2. e.op = "remove" => rule[e.key] \in Rule
  BY DEF EditsOK
<1>3. Idle \in Edit /\ Idle.op # "remove"
  BY IdleEdit
<1>4. CASE upsertWrite(a)
  BY <1>1, <1>3, <1>4 DEF upsertWrite, End, TablesOK
<1>5. CASE removeWrite(a)
  <2>1. /\ e.key \in Keys /\ rule[e.key] \in Rule
        /\ rule' = [rule EXCEPT ![e.key].deleted = TRUE]
        /\ UNCHANGED <<area, category, item>>
    BY <1>1, <1>2, <1>5 DEF removeWrite
  <2>2. [rule[e.key] EXCEPT !.deleted = TRUE] \in Rule
    BY <2>1 DEF Rule
  <2> QED
    BY <1>3, <1>5, <2>1, <2>2 DEF removeWrite, End, TablesOK
<1>6. CASE updateCategoryWrite(a)
  <2>1. /\ UNCHANGED <<area, item, rule>>
        /\ category' = [category EXCEPT ![e.c].parent = e.parent, ![e.c].level = e.level]
        /\ e.c \in Categories
        /\ e.parent \in Categories \cup {NoCategory}
        /\ e.level \in Nat
    BY <1>1, <1>6 DEF updateCategoryWrite
  <2> HIDE DEF e
  <2>2. category' \in [Categories -> Category]
    BY <2>1 DEF TablesOK, Category
  <2> QED
    BY <1>3, <1>6, <2>1, <2>2 DEF updateCategoryWrite, End, TablesOK
<1>7. CASE removeCategoryWrite(a)
  <2>1. /\ UNCHANGED <<area, item, rule>>
        /\ category' = [category EXCEPT ![e.c].deleted = TRUE]
        /\ e.c \in Categories
    BY <1>1, <1>7 DEF removeCategoryWrite
  <2> HIDE DEF e
  <2>2. category' \in [Categories -> Category]
    BY <2>1 DEF TablesOK, Category
  <2> QED
    BY <1>3, <1>7, <2>1, <2>2 DEF removeCategoryWrite, End, TablesOK
<1>8. CASE updateItemWrite(a)
  <2>1. /\ UNCHANGED <<area, category, rule>>
        /\ item' = [item EXCEPT ![e.i].category = Written(e.category, @),
                                ![e.i].active = Written(e.active, @)]
        /\ e.i \in Items /\ e.category \in Given(Categories) /\ e.active \in Given(BOOLEAN)
    BY <1>1, <1>8 DEF updateItemWrite
  <2> HIDE DEF e
  <2> DEFINE c == Written(e.category, item[e.i].category)
             on == Written(e.active, item[e.i].active)
  <2>2. item' = [item EXCEPT ![e.i].category = c, ![e.i].active = on]
    BY <2>1 DEF TablesOK, Item
  <2>3. c \in Categories /\ on \in BOOLEAN
    <3>1. item[e.i].category \in Categories /\ item[e.i].active \in BOOLEAN
      BY <2>1 DEF TablesOK, Item
    <3> QED
      BY <2>1, <3>1, GivenIsWritten
  <2> HIDE DEF c, on
  <2>4. item' \in [Items -> Item]
    BY <2>1, <2>2, <2>3 DEF TablesOK, Item
  <2> QED
    BY <1>3, <1>8, <2>1, <2>4 DEF updateItemWrite, End, TablesOK
<1>13. CASE removeItemWrite(a)
  <2>1. /\ UNCHANGED <<area, category, rule>>
        /\ item' = [item EXCEPT ![e.i].active = FALSE, ![e.i].deleted = TRUE]
        /\ e.i \in Items
    BY <1>1, <1>13 DEF removeItemWrite
  <2> HIDE DEF e
  <2>2. item' \in [Items -> Item]
    BY <2>1 DEF TablesOK, Item
  <2> QED
    BY <1>3, <1>13, <2>1, <2>2 DEF removeItemWrite, End, TablesOK
<1>9. CASE areaWrite(a)
  BY <1>1, <1>3, <1>9 DEF areaWrite, End, TablesOK
<1>10. CASE updateAreaWrite(a)
  <2>1. /\ UNCHANGED <<category, item, rule>>
        /\ area' = [area EXCEPT ![e.n].active = e.active]
        /\ e.n \in Nodes /\ e.active \in BOOLEAN
    BY <1>1, <1>10 DEF updateAreaWrite
  <2> HIDE DEF e
  <2>2. area' \in [Nodes -> Area]
    BY <2>1 DEF TablesOK, Area
  <2> QED
    BY <1>3, <1>10, <2>1, <2>2 DEF updateAreaWrite, End, TablesOK
<1>11. CASE enableWrite(a)
  <2>1. /\ UNCHANGED <<category, item, rule>>
        /\ area' = [area EXCEPT ![e.n].active = TRUE]
        /\ edit' = [edit EXCEPT ![a] = IF e.below = {} THEN Idle
                                       ELSE [e EXCEPT !.op = "switch"]]
        /\ e.n \in Nodes
        /\ e \in [op : {"enable", "switch"}, n : Nodes, active : BOOLEAN,
                  below : SUBSET Nodes]
    BY <1>1, <1>11 DEF enableWrite, EditsOK
  <2> HIDE DEF e
  <2>2. area' \in [Nodes -> Area]
    BY <2>1 DEF TablesOK, Area
  <2>3. [e EXCEPT !.op = "switch"] \in Edit /\ [e EXCEPT !.op = "switch"].op # "remove"
    BY <2>1 DEF Edit
  <2> QED
    BY <1>3, <2>1, <2>2, <2>3 DEF TablesOK
<1>12. CASE switchWrite(a)
  <2>1. /\ UNCHANGED <<category, item, rule>>
        /\ area' = [n \in Nodes |-> IF n = e.n \/ n \in e.below
                                    THEN [area[n] EXCEPT !.active = e.active] ELSE area[n]]
        /\ e.active \in BOOLEAN
    BY <1>1, <1>12 DEF switchWrite
  <2> HIDE DEF e
  <2>2. area' \in [Nodes -> Area]
    BY <2>1 DEF TablesOK, Area
  <2> QED
    BY <1>3, <1>12, <2>1, <2>2 DEF switchWrite, End, TablesOK
<1> HIDE DEF e
<1> QED
  BY <1>4, <1>5, <1>6, <1>7, <1>8, <1>9, <1>10, <1>11, <1>12, <1>13 DEF EditWrite

\* A set of naturals that is not empty has a least element, the one Min picks.
LEMMA MinIsLeast ==
  ASSUME NEW S \in SUBSET Nat, S # {}
  PROVE  Min(S) \in S /\ \A y \in S : Min(S) <= y
<1>1. PICK R : /\ IsWellFoundedOn(R, Nat)
               /\ \A i, j \in Nat : i < j => <<i, j>> \in R
  BY LessThanIsWellFounded
<1>2. PICK x \in S : \A y \in S : ~(<<y, x>> \in R)
  <2>1. S \subseteq Nat /\ S # {} /\ IsWellFoundedOn(R, Nat)
    BY <1>1
  <2> QED
    BY <2>1, HasMinimal, Zenon
<1>3. \A y \in S : x <= y
  <2>1. SUFFICES ASSUME NEW y \in S, ~(x <= y) PROVE FALSE
    OBVIOUS
  <2>2. y \in Nat /\ x \in Nat /\ y < x
    BY <2>1
  <2> QED
    BY <1>1, <1>2, <2>2
<1> QED
  BY <1>3 DEF Min

LEMMA ChooseType ==
  ASSUME TablesOK, NEW i \in Items, NEW chain \in Seq(Categories)
  PROVE  Choose(i, chain) \in Terms
<1> DEFINE hits == {k \in DOMAIN chain : Applies(CategoryKey(chain[k]))}
<1>1. ASSUME NEW key \in Keys, Applies(key) PROVE rule[key].terms \in Terms
  <2>1. rule[key] \in Rule
    BY <1>1 DEF Applies, TablesOK
  <2> QED
    BY <2>1 DEF Rule, Terms
<1>2. ASSUME hits # {}
      PROVE  Applies(CategoryKey(chain[Min(hits)])) /\ CategoryKey(chain[Min(hits)]) \in Keys
  <2>1. hits \in SUBSET Nat
    OBVIOUS
  <2>2. Min(hits) \in hits
    <3> HIDE DEF hits
    <3> QED
      BY <1>2, <2>1, MinIsLeast
  <2> DEFINE m == Min(hits)
  <2>3. m \in hits
    BY <2>2
  <2> HIDE DEF m
  <2>4. m \in DOMAIN chain /\ Applies(CategoryKey(chain[m]))
    BY <2>3
  <2>5. chain[m] \in Categories
    BY <2>4
  <2> QED
    BY <2>4, <2>5, KeysFacts DEF m
<1>3. Choose(i, chain) =
        IF Applies(ItemKey(i)) THEN rule[ItemKey(i)].terms
        ELSE IF hits # {} THEN rule[CategoryKey(chain[Min(hits)])].terms
        ELSE IF Applies(Global) THEN rule[Global].terms
        ELSE DefaultTerms
  BY DEF Choose, ChooseFrom
<1> HIDE DEF hits
<1> QED
  BY <1>1, <1>2, <1>3, KeysFacts DEF Terms

LEMMA RequestWritten ==
  ASSUME RequestsOK, NEW r \in Requests, NEW s \in {NoRequest} \cup Walking \cup Resolved,
         s.pc \in {"chain", "rules"} => s.chain # <<>>,
         request' = [request EXCEPT ![r] = s],
         calm' \in [Requests -> BOOLEAN]
  PROVE  RequestsOK'
<1>1. request' \in [Requests -> {NoRequest} \cup Walking \cup Resolved]
  BY DEF RequestsOK
<1>2. ASSUME NEW q \in Requests, request'[q].pc \in {"chain", "rules"}
      PROVE  request'[q].chain # <<>>
  <2>1. CASE q = r
    BY <1>2, <2>1 DEF RequestsOK
  <2>2. CASE q # r
    BY <1>2, <2>2 DEF RequestsOK
  <2> QED
    BY <2>1, <2>2
<1> QED
  BY <1>1, <1>2 DEF RequestsOK

\* What a step of create() does to its own state, with the types of it.
LEMMA CreateTypes ==
  ASSUME TablesOK, RequestsOK, NEW r \in Requests, Create(r)
  PROVE  /\ RequestsOK'
         /\ UNCHANGED <<area, category, item, rule, edit, edits>>
<1>1. calm \in [Requests -> BOOLEAN]
  BY DEF RequestsOK
<1>2. NoRequest.pc = "idle"
  BY DEF NoRequest
<1>3. ASSUME NEW i \in Items, NEW slot \in Slots \cup {NoSlot}, CreateStart(r, i, slot)
      PROVE  RequestsOK'
  <2> DEFINE s == [pc |-> "gate", item |-> i, slot |-> slot, chain |-> <<>>]
  <2>1. s \in Walking /\ s.pc = "gate"
    BY DEF Walking
  <2>2. request' = [request EXCEPT ![r] = s] /\ calm' \in [Requests -> BOOLEAN]
    BY <1>1, <1>3 DEF CreateStart, Goto
  <2> HIDE DEF s
  <2> QED
    BY <2>1, <2>2, RequestWritten
<1>4. ASSUME Gate(r) PROVE RequestsOK'
  <2>1. request[r] \in Walking
    BY <1>4, RequestFacts DEF Gate
  <2> DEFINE s == IF Served(AddressOf[CustomerOf[r]])
                  THEN [request[r] EXCEPT !.pc = "category"] ELSE NoRequest
  <2>2. s \in {NoRequest} \cup Walking /\ s.pc \notin {"chain", "rules"}
    <3>1. [request[r] EXCEPT !.pc = "category"] \in Walking
      BY <2>1 DEF Walking
    <3>2. [request[r] EXCEPT !.pc = "category"].pc = "category"
      BY <2>1 DEF Walking
    <3> QED
      BY <1>2, <3>1, <3>2
  <2>3. request' = [request EXCEPT ![r] = s] /\ calm' \in [Requests -> BOOLEAN]
    BY <1>1, <1>4 DEF Gate, Goto
  <2> HIDE DEF s
  <2> QED
    BY <1>1, <2>2, <2>3, RequestWritten
<1>5. ASSUME ChainStart(r) PROVE RequestsOK'
  <2>1. request[r] \in Walking
    BY <1>5, RequestFacts DEF ChainStart
  <2> DEFINE s == [request[r] EXCEPT !.pc = "chain",
                                     !.chain = <<item[request[r].item].category>>]
  <2>2. item[request[r].item].category \in Categories
    BY <2>1 DEF Walking, TablesOK, Item
  <2>3. s \in Walking /\ s.chain # <<>>
    <3> DEFINE c == item[request[r].item].category
    <3>1. <<c>> \in Seq(Categories) /\ <<c>> # <<>>
      BY <2>2
    <3>2. s = [request[r] EXCEPT !.pc = "chain", !.chain = <<c>>]
      OBVIOUS
    <3> HIDE DEF c, s
    <3>3. "chain" \in {"gate", "category", "chain", "rules"}
      OBVIOUS
    <3> QED
      BY <2>1, <3>1, <3>2, <3>3 DEF Walking
  <2>4. request' = [request EXCEPT ![r] = s] /\ calm' \in [Requests -> BOOLEAN]
    BY <1>1, <1>5 DEF ChainStart, Goto
  <2> HIDE DEF s
  <2> QED
    BY <1>1, <2>3, <2>4, RequestWritten
<1>6. ASSUME ChainStep(r) PROVE RequestsOK'
  <2>1. request[r] \in Walking /\ request[r].pc = "chain" /\ request[r].chain # <<>>
    BY <1>6, RequestFacts DEF ChainStep, RequestsOK
  <2>2. Last(request[r].chain) \in Categories
    BY <2>1 DEF Walking, Last
  <2>3. Parent(r) \in Categories \cup {NoCategory}
    BY <2>2 DEF Parent, TablesOK, Category
  <2> DEFINE s == IF ChainEnds(r) THEN [request[r] EXCEPT !.pc = "rules"]
                  ELSE [request[r] EXCEPT !.chain = Append(@, Parent(r))]
  <2>4. s \in Walking /\ s.chain # <<>>
    <3>1. CASE ChainEnds(r)
      BY <2>1, <3>1 DEF Walking
    <3>2. CASE ~ChainEnds(r)
      <4>1. Parent(r) \in Categories
        BY <2>3, <3>2 DEF ChainEnds
      <4>2. /\ Append(request[r].chain, Parent(r)) \in Seq(Categories)
            /\ Append(request[r].chain, Parent(r)) # <<>>
        BY <2>1, <4>1 DEF Walking
      <4>3. s = [request[r] EXCEPT !.chain = Append(request[r].chain, Parent(r))]
        BY <3>2
      <4> QED
        BY <2>1, <4>2, <4>3 DEF Walking
    <3> QED
      BY <3>1, <3>2
  <2>5. request' = [request EXCEPT ![r] = s] /\ calm' \in [Requests -> BOOLEAN]
    BY <1>1, <1>6 DEF ChainStep, Goto
  <2> HIDE DEF s
  <2> QED
    BY <1>1, <2>4, <2>5, RequestWritten
<1>7. ASSUME Resolve(r) PROVE RequestsOK'
  <2>1. request[r] \in Walking
    BY <1>7, RequestFacts DEF Resolve
  <2>2. Choose(request[r].item, request[r].chain) \in Terms
    BY <2>1, ChooseType DEF Walking
  <2> DEFINE s == [pc |-> "equal", item |-> request[r].item, slot |-> request[r].slot,
                   snapshot |-> Choose(request[r].item, request[r].chain)]
  <2>3. s \in Resolved /\ s.pc = "equal"
    BY <2>1, <2>2 DEF Walking, Resolved
  <2>4. request' = [request EXCEPT ![r] = s] /\ calm' \in [Requests -> BOOLEAN]
    BY <1>1, <1>7 DEF Resolve, Goto
  <2> HIDE DEF s
  <2> QED
    BY <1>1, <2>3, <2>4, RequestWritten
<1>8. ASSUME LookForEqual(r) PROVE RequestsOK'
  <2>1. request[r] \in Resolved
    BY <1>8, RequestFacts DEF LookForEqual
  <2> DEFINE s == IF Existing(r) # {} THEN NoRequest ELSE [request[r] EXCEPT !.pc = "insert"]
  <2>2. s \in {NoRequest} \cup Resolved /\ s.pc \notin {"chain", "rules"}
    <3>1. [request[r] EXCEPT !.pc = "insert"] \in Resolved
      BY <2>1 DEF Resolved
    <3>2. [request[r] EXCEPT !.pc = "insert"].pc = "insert"
      BY <2>1 DEF Resolved
    <3> QED
      BY <1>2, <3>1, <3>2
  <2>3. request' = [request EXCEPT ![r] = s] /\ calm' \in [Requests -> BOOLEAN]
    BY <1>1, <1>8 DEF LookForEqual, Goto
  <2> HIDE DEF s
  <2> QED
    BY <1>1, <2>2, <2>3, RequestWritten
<1>9. ASSUME Insert(r) PROVE RequestsOK'
  BY <1>1, <1>2, <1>9, RequestWritten DEF Insert
<1>10. RequestsOK'
  BY <1>3, <1>4, <1>5, <1>6, <1>7, <1>8, <1>9 DEF Create
<1>11. UNCHANGED <<area, category, item, rule, edit, edits>>
  BY DEF Create, CreateStart, Gate, ChainStart, ChainStep, Resolve, LookForEqual, Insert, Goto
<1> QED
  BY <1>10, <1>11

\* The three ways an order changes.
RowWritten(x) ==
  \/ \E r \in Requests :
       /\ request[r].pc = "insert"
       /\ order[x] = NoOrder
       /\ order' = [order EXCEPT ![x] =
            [customer |-> CustomerOf[r], item |-> request[r].item, slot |-> request[r].slot,
             unpaid |-> TRUE, recent |-> TRUE, snapshot |-> request[r].snapshot]]
  \/ order[x] # NoOrder /\ order' = [order EXCEPT ![x].unpaid = FALSE]
  \/ order[x] # NoOrder /\ order' = [order EXCEPT ![x].recent = FALSE]

LEMMA OrderWriters ==
  ASSUME [Next]_vars
  PROVE  order' = order \/ \E x \in Ids : RowWritten(x)
<1>1. CASE \E r \in Requests : Insert(r)
  BY <1>1 DEF Insert, RowWritten
<1>2. CASE \E x \in Ids : Leave(x) \/ Grow(x)
  BY <1>2 DEF Leave, Grow, RowWritten
<1>3. CASE \E r \in Requests : Create(r) /\ ~Insert(r)
  BY <1>3 DEF Create, CreateStart, Gate, ChainStart, ChainStep, Resolve, LookForEqual, Goto
<1>4. CASE \E a \in Admins : Administer(a) /\ UNCHANGED <<order, request>>
  BY <1>4
<1>5. CASE UNCHANGED vars
  BY <1>5 DEF vars
<1> QED
  BY <1>1, <1>2, <1>3, <1>4, <1>5 DEF Next, Create

LEMMA OrderTypes ==
  ASSUME RequestsOK, order \in [Ids -> Order \cup {NoOrder}],
         NEW x \in Ids, RowWritten(x)
  PROVE  order' \in [Ids -> Order \cup {NoOrder}]
<1>1. CASE order[x] # NoOrder /\ order' = [order EXCEPT ![x].unpaid = FALSE]
  BY <1>1 DEF Order
<1>2. CASE order[x] # NoOrder /\ order' = [order EXCEPT ![x].recent = FALSE]
  BY <1>2 DEF Order
<1>3. ASSUME NEW r \in Requests, request[r].pc = "insert",
             order' = [order EXCEPT ![x] =
               [customer |-> CustomerOf[r], item |-> request[r].item,
                slot |-> request[r].slot, unpaid |-> TRUE, recent |-> TRUE,
                snapshot |-> request[r].snapshot]]
      PROVE  order' \in [Ids -> Order \cup {NoOrder}]
  <2> DEFINE row == [customer |-> CustomerOf[r], item |-> request[r].item,
                     slot |-> request[r].slot, unpaid |-> TRUE, recent |-> TRUE,
                     snapshot |-> request[r].snapshot]
  <2>1. request[r] \in Resolved
    BY <1>3, RequestFacts
  <2>2. row \in Order
    BY <2>1 DEF Resolved, Order
  <2>3. order' = [order EXCEPT ![x] = row]
    BY <1>3
  <2> HIDE DEF row
  <2> QED
    BY <2>2, <2>3
<1> QED
  BY <1>1, <1>2, <1>3 DEF RowWritten

LEMMA AdministerTypes ==
  ASSUME TablesOK, EditsOK, NEW a \in Admins, Administer(a)
  PROVE  TablesOK' /\ EditsOK'
<1>1. CASE EditStart(a)
  <2>1. PICK e \in Edit : /\ edit' = [edit EXCEPT ![a] = e]
                          /\ e.op = "remove" => rule[e.key] \in Rule
    BY <1>1, EditBegins
  <2>2. UNCHANGED <<area, category, item, rule>>
    BY <1>1, EditBegins
  <2>3. EditsOK'
    BY <2>1, <2>2, EditsKept
  <2> QED
    BY <2>2, <2>3 DEF TablesOK
<1>2. CASE EditWrite(a)
  <2>1. PICK e \in Edit : edit' = [edit EXCEPT ![a] = e] /\ e.op # "remove"
    BY <1>2, EditWrites
  <2>2. TablesOK' /\ \A k \in Keys : rule[k] \in Rule => rule'[k] \in Rule
    BY <1>2, EditWrites
  <2> QED
    BY <2>1, <2>2, EditsKept
<1>3. CASE Die(a)
  <2>1. edit' = [edit EXCEPT ![a] = Idle] /\ UNCHANGED <<area, category, item, rule>>
    BY <1>3 DEF Die, End
  <2>2. EditsOK'
    BY <2>1, IdleEdit, EditsKept
  <2> QED
    BY <2>1, <2>2 DEF TablesOK
<1> QED
  BY <1>1, <1>2, <1>3 DEF Administer

LEMMA TypeStep ==
  ASSUME TypeOK, [Next]_vars
  PROVE  TypeOK'
<1>1. order' \in [Ids -> Order \cup {NoOrder}]
  BY OrderWriters, OrderTypes DEF TypeOK
<1>2. CASE \E a \in Admins : /\ Administer(a)
                             /\ UNCHANGED <<order, request>>
                             /\ calm' = IF UNCHANGED <<area, category, item, rule>>
                                        THEN calm ELSE [r \in Requests |-> FALSE]
  <2>1. TablesOK' /\ EditsOK'
    BY <1>2, AdministerTypes DEF TypeOK
  <2>2. RequestsOK'
    BY <1>2 DEF TypeOK, RequestsOK
  <2> QED
    BY <1>1, <2>1, <2>2 DEF TypeOK
<1>3. CASE \E r \in Requests : Create(r)
  <2>1. RequestsOK' /\ UNCHANGED <<area, category, item, rule, edit, edits>>
    BY <1>3, CreateTypes DEF TypeOK
  <2> QED
    BY <1>1, <2>1 DEF TypeOK, TablesOK, EditsOK
<1>4. CASE \E x \in Ids : Leave(x) \/ Grow(x)
  BY <1>1, <1>4 DEF Leave, Grow, TypeOK, TablesOK, EditsOK, RequestsOK
<1>5. CASE UNCHANGED vars
  BY <1>1, <1>5 DEF vars, TypeOK, TablesOK, EditsOK, RequestsOK
<1> QED
  BY <1>2, <1>3, <1>4, <1>5 DEF Next

LEMMA TypeInit ==
  ASSUME Init
  PROVE  TypeOK
<1>1. TablesOK
  BY InitialAssumption DEF Init, TablesOK
<1>2. EditsOK
  BY IdleEdit DEF Init, EditsOK
<1>3. RequestsOK
  BY DEF Init, RequestsOK, NoRequest
<1> QED
  BY <1>1, <1>2, <1>3 DEF Init, TypeOK

\* Rows, handlers and requests keep their types, whatever administrators do meanwhile;
\* a rule that is to be marked as removed is there when it is.
THEOREM TypeCorrect == Spec => []TypeOK
<1>1. Init => TypeOK
  BY TypeInit
<1>2. TypeOK /\ [Next]_vars => TypeOK'
  BY TypeStep
<1> QED
  BY <1>1, <1>2, PTL DEF Spec

-----------------------------------------------------------------------------
(* Equal orders.                                                            *)

\* What makes two orders equal.
Questions == {CustomerOf[r] : r \in Requests} \X Items \X (Slots \cup {NoSlot})

OrdersOf(q) ==
  {x \in Ids : /\ order[x] # NoOrder
               /\ order[x].customer = q[1] /\ order[x].item = q[2] /\ order[x].slot = q[3]
               /\ order[x].unpaid /\ order[x].recent}

About(r, q) == CustomerOf[r] = q[1] /\ request[r].item = q[2] /\ request[r].slot = q[3]

InsertsOf(q) == {r \in Requests : request[r].pc = "insert" /\ About(r, q)}

RequestsOf(customer) == {r \in Requests : CustomerOf[r] = customer}

\* A request about to insert counts like the order it inserts.
CountBounded ==
  \A q \in Questions :
    Cardinality(OrdersOf(q)) + Cardinality(InsertsOf(q)) <= Cardinality(RequestsOf(q[1]))

LEMMA CountedSetsAreFinite ==
  ASSUME NEW q
  PROVE  /\ IsFiniteSet(OrdersOf(q)) /\ Cardinality(OrdersOf(q)) \in Nat
         /\ IsFiniteSet(InsertsOf(q)) /\ Cardinality(InsertsOf(q)) \in Nat
         /\ IsFiniteSet(RequestsOf(q[1])) /\ Cardinality(RequestsOf(q[1])) \in Nat
         /\ Cardinality(InsertsOf(q)) <= Cardinality(RequestsOf(q[1]))
<1>1. OrdersOf(q) \in SUBSET Ids /\ RequestsOf(q[1]) \in SUBSET Requests
  BY DEF OrdersOf, RequestsOf
<1>2. InsertsOf(q) \in SUBSET RequestsOf(q[1])
  BY DEF InsertsOf, RequestsOf, About
<1>3. IsFiniteSet(OrdersOf(q)) /\ IsFiniteSet(RequestsOf(q[1]))
  BY <1>1, FS_Subset, IdsAssumption, RequestsAssumption
<1>4. /\ IsFiniteSet(InsertsOf(q))
      /\ Cardinality(InsertsOf(q)) <= Cardinality(RequestsOf(q[1]))
  BY <1>2, <1>3, FS_Subset
<1> QED
  BY <1>3, <1>4, FS_CardinalityType

\* A request that neither comes to insert nor is about to changes nothing that counts.
LEMMA OthersInsert ==
  ASSUME RequestsOK, NEW q, NEW r \in Requests, NEW s,
         request' = [request EXCEPT ![r] = s], request[r].pc # "insert", s.pc # "insert"
  PROVE  InsertsOf(q)' = InsertsOf(q)
<1>1. ASSUME NEW t \in Requests
      PROVE  (request'[t].pc = "insert" /\ About(t, q)')
               <=> (request[t].pc = "insert" /\ About(t, q))
  <2>1. CASE t = r
    BY <2>1 DEF RequestsOK
  <2>2. CASE t # r
    BY <2>2 DEF RequestsOK, About
  <2> QED
    BY <2>1, <2>2
<1> QED
  BY <1>1 DEF InsertsOf

LEMMA QuestionOf ==
  ASSUME RequestsOK, NEW r \in Requests, request[r].pc \in {"equal", "insert"}
  PROVE  /\ request[r].item \in Items
         /\ request[r].slot \in Slots \cup {NoSlot}
BY RequestFacts DEF Resolved

\* A request that found no equal order starts to count when no order does; the requests
\* about to insert are at most as many as the customer has.
LEMMA LookKeepsCount ==
  ASSUME TypeOK, CountBounded, NEW r \in Requests, LookForEqual(r), NEW q \in Questions
  PROVE  Cardinality(OrdersOf(q)') + Cardinality(InsertsOf(q)')
           <= Cardinality(RequestsOf(q[1]))
<1>1. OrdersOf(q)' = OrdersOf(q) /\ RequestsOf(q[1])' = RequestsOf(q[1])
  BY DEF LookForEqual, Goto, OrdersOf, RequestsOf
<1>2. request[r].pc = "equal"
  BY DEF LookForEqual
<1>3. RequestsOK
  BY DEF TypeOK
<1> DEFINE s == IF Existing(r) # {} THEN NoRequest ELSE [request[r] EXCEPT !.pc = "insert"]
<1>4. request' = [request EXCEPT ![r] = s]
  BY DEF LookForEqual, Goto
<1>5. CASE Existing(r) = {} /\ About(r, q)
  <2>1. OrdersOf(q) = {}
    <3>1. ASSUME NEW x \in OrdersOf(q) PROVE x \in Existing(r)
      BY <1>5 DEF OrdersOf, Existing, About
    <3> QED
      BY <1>5, <3>1
  <2>2. Cardinality(OrdersOf(q)') = 0
    BY <1>1, <2>1, FS_EmptySet
  <2>3. InsertsOf(q)' \in SUBSET RequestsOf(q[1])
    BY DEF InsertsOf, About, RequestsOf
  <2>4. /\ Cardinality(InsertsOf(q)') <= Cardinality(RequestsOf(q[1]))
        /\ Cardinality(InsertsOf(q)') \in Nat
    BY <2>3, CountedSetsAreFinite, FS_Subset, FS_CardinalityType
  <2> QED
    BY <2>2, <2>4
<1>6. CASE ~(Existing(r) = {} /\ About(r, q))
  <2>1. InsertsOf(q)' = InsertsOf(q)
    <3>1. CASE Existing(r) # {}
      <4>1. s.pc # "insert"
        BY <3>1 DEF NoRequest
      <4> HIDE DEF s
      <4> QED
        BY <1>2, <1>3, <1>4, <4>1, OthersInsert
    <3>2. CASE Existing(r) = {} /\ ~About(r, q)
      <4>1. request'[r] = [request[r] EXCEPT !.pc = "insert"] /\ request[r] \in Resolved
        BY <1>2, <1>3, <1>4, <3>2, RequestFacts DEF RequestsOK
      <4>2. ~About(r, q)'
        BY <3>2, <4>1 DEF About, Resolved
      <4>3. \A t \in Requests : t # r => request'[t] = request[t]
        BY <1>3, <1>4 DEF RequestsOK
      <4> QED
        BY <3>2, <4>2, <4>3 DEF InsertsOf, About
    <3> QED
      BY <1>6, <3>1, <3>2
  <2> QED
    BY <1>1, <2>1 DEF CountBounded
<1> QED
  BY <1>5, <1>6

\* What was about to be inserted is.
LEMMA InsertKeepsCount ==
  ASSUME TypeOK, CountBounded, NEW r \in Requests, Insert(r), NEW q \in Questions
  PROVE  Cardinality(OrdersOf(q)') + Cardinality(InsertsOf(q)')
           <= Cardinality(RequestsOf(q[1]))
<1>1. PICK x \in Ids : order[x] = NoOrder /\ order' = [order EXCEPT ![x] =
            [customer |-> CustomerOf[r], item |-> request[r].item, slot |-> request[r].slot,
             unpaid |-> TRUE, recent |-> TRUE, snapshot |-> request[r].snapshot]]
  BY DEF Insert
<1>2. /\ request[r].pc = "insert"
      /\ request' = [request EXCEPT ![r] = NoRequest]
      /\ NoRequest.pc # "insert"
      /\ RequestsOK
      /\ order \in [Ids -> Order \cup {NoOrder}]
  BY DEF Insert, NoRequest, TypeOK
<1>3. \A y \in Ids : y # x => order'[y] = order[y]
  BY <1>1, <1>2
<1>4. x \notin OrdersOf(q)
  BY <1>1 DEF OrdersOf
<1>5. /\ IsFiniteSet(OrdersOf(q)) /\ Cardinality(OrdersOf(q)) \in Nat
      /\ IsFiniteSet(InsertsOf(q)) /\ Cardinality(InsertsOf(q)) \in Nat
      /\ Cardinality(RequestsOf(q[1])) \in Nat
      /\ Cardinality(OrdersOf(q)) + Cardinality(InsertsOf(q)) <= Cardinality(RequestsOf(q[1]))
  BY CountedSetsAreFinite DEF CountBounded
<1>6. CASE About(r, q)
  <2>1. OrdersOf(q)' \in SUBSET (OrdersOf(q) \cup {x})
    BY <1>3 DEF OrdersOf
  <2>2. InsertsOf(q)' = InsertsOf(q) \ {r} /\ r \in InsertsOf(q)
    <3>1. request'[r] = NoRequest /\ \A t \in Requests : t # r => request'[t] = request[t]
      BY <1>2 DEF RequestsOK
    <3> QED
      BY <1>2, <1>6, <3>1 DEF InsertsOf, About
  <2>3. /\ IsFiniteSet(OrdersOf(q) \cup {x})
        /\ Cardinality(OrdersOf(q) \cup {x}) = Cardinality(OrdersOf(q)) + 1
    BY <1>4, <1>5, FS_AddElement
  <2>4. /\ Cardinality(OrdersOf(q)') \in Nat
        /\ Cardinality(OrdersOf(q)') <= Cardinality(OrdersOf(q)) + 1
    BY <2>1, <2>3, FS_Subset, FS_CardinalityType
  <2>5. Cardinality(InsertsOf(q)') = Cardinality(InsertsOf(q)) - 1
    BY <1>5, <2>2, FS_RemoveElement
  <2> QED
    BY <1>5, <2>4, <2>5
<1>7. CASE ~About(r, q)
  <2>1. InsertsOf(q)' \in SUBSET InsertsOf(q)
    <3>1. \A t \in Requests : t # r => request'[t] = request[t]
      BY <1>2 DEF RequestsOK
    <3>2. request'[r].pc # "insert"
      BY <1>2 DEF RequestsOK
    <3> QED
      BY <3>1, <3>2 DEF InsertsOf, About
  <2>2. OrdersOf(q)' \in SUBSET OrdersOf(q)
    <3> DEFINE row == [customer |-> CustomerOf[r], item |-> request[r].item,
                       slot |-> request[r].slot, unpaid |-> TRUE, recent |-> TRUE,
                       snapshot |-> request[r].snapshot]
    <3>1. order'[x] = row
      BY <1>1, <1>2
    <3>2. ~(row.customer = q[1] /\ row.item = q[2] /\ row.slot = q[3])
      BY <1>7 DEF About
    <3> HIDE DEF row
    <3>3. ASSUME NEW y \in OrdersOf(q)' PROVE y \in OrdersOf(q)
      <4>1. y # x
        BY <3>1, <3>2 DEF OrdersOf
      <4> QED
        BY <1>3, <4>1 DEF OrdersOf
    <3> QED
      BY <3>3
  <2>3. /\ Cardinality(OrdersOf(q)') <= Cardinality(OrdersOf(q))
        /\ Cardinality(OrdersOf(q)') \in Nat
        /\ Cardinality(InsertsOf(q)') <= Cardinality(InsertsOf(q))
        /\ Cardinality(InsertsOf(q)') \in Nat
    BY <1>5, <2>1, <2>2, FS_Subset, FS_CardinalityType
  <2> QED
    BY <1>5, <2>3
<1> QED
  BY <1>6, <1>7

LEMMA CountStep ==
  ASSUME TypeOK, CountBounded, [Next]_vars, NEW q \in Questions
  PROVE  Cardinality(OrdersOf(q)') + Cardinality(InsertsOf(q)')
           <= Cardinality(RequestsOf(q[1]))
<1> DEFINE Goal == Cardinality(OrdersOf(q)') + Cardinality(InsertsOf(q)')
                     <= Cardinality(RequestsOf(q[1]))
<1>1. /\ IsFiniteSet(OrdersOf(q)) /\ Cardinality(OrdersOf(q)) \in Nat
      /\ IsFiniteSet(InsertsOf(q)) /\ Cardinality(InsertsOf(q)) \in Nat
      /\ Cardinality(RequestsOf(q[1])) \in Nat
      /\ Cardinality(OrdersOf(q)) + Cardinality(InsertsOf(q)) <= Cardinality(RequestsOf(q[1]))
  BY CountedSetsAreFinite DEF CountBounded
<1>2. ASSUME OrdersOf(q)' \in SUBSET OrdersOf(q), InsertsOf(q)' = InsertsOf(q) PROVE Goal
  <2>1. /\ Cardinality(OrdersOf(q)') <= Cardinality(OrdersOf(q))
        /\ Cardinality(OrdersOf(q)') \in Nat
    BY <1>1, <1>2, FS_Subset, FS_CardinalityType
  <2> QED
    BY <1>1, <1>2, <2>1
<1>3. ASSUME NEW r \in Requests, Create(r) PROVE Goal
  <2>1. CASE LookForEqual(r)
    BY <2>1, LookKeepsCount
  <2>2. CASE Insert(r)
    BY <2>2, InsertKeepsCount
  <2>3. CASE ~LookForEqual(r) /\ ~Insert(r)
    <3>1. OrdersOf(q)' = OrdersOf(q)
      BY <1>3, <2>3 DEF Create, CreateStart, Gate, ChainStart, ChainStep, Resolve, Goto, OrdersOf
    <3>2. \E s : /\ request' = [request EXCEPT ![r] = s]
                 /\ request[r].pc # "insert" /\ s.pc # "insert"
      <4>1. NoRequest.pc = "idle"
        BY DEF NoRequest
      <4>2. ASSUME NEW i, NEW slot, CreateStart(r, i, slot)
            PROVE  /\ request' = [request EXCEPT ![r] =
                        [pc |-> "gate", item |-> i, slot |-> slot, chain |-> <<>>]]
                   /\ request[r].pc # "insert"
        BY <4>1, <4>2 DEF CreateStart, Goto
      <4>3. CASE Gate(r)
        <5>1. [request[r] EXCEPT !.pc = "category"].pc = "category"
          BY <4>3, RequestFacts DEF Gate, TypeOK, Walking
        <5> QED
          BY <4>1, <4>3, <5>1 DEF Gate, Goto
      <4>4. CASE ChainStart(r)
        <5> DEFINE s == [request[r] EXCEPT !.pc = "chain",
                                           !.chain = <<item[request[r].item].category>>]
        <5>1. s.pc = "chain"
          BY <4>4, RequestFacts DEF ChainStart, TypeOK, Walking
        <5>2. request' = [request EXCEPT ![r] = s] /\ request[r].pc # "insert"
          BY <4>4 DEF ChainStart, Goto
        <5> HIDE DEF s
        <5> QED
          BY <5>1, <5>2
      <4>5. CASE ChainStep(r)
        <5> DEFINE s == IF ChainEnds(r) THEN [request[r] EXCEPT !.pc = "rules"]
                        ELSE [request[r] EXCEPT !.chain = Append(@, Parent(r))]
        <5>1. s.pc \in {"chain", "rules"}
          BY <4>5, RequestFacts DEF ChainStep, TypeOK, Walking
        <5>2. request' = [request EXCEPT ![r] = s] /\ request[r].pc # "insert"
          BY <4>5 DEF ChainStep, Goto
        <5> HIDE DEF s
        <5> QED
          BY <5>1, <5>2
      <4>6. CASE Resolve(r)
        <5> DEFINE s == [pc |-> "equal", item |-> request[r].item, slot |-> request[r].slot,
                         snapshot |-> Choose(request[r].item, request[r].chain)]
        <5>1. s.pc = "equal"
          OBVIOUS
        <5>2. request' = [request EXCEPT ![r] = s] /\ request[r].pc # "insert"
          BY <4>6 DEF Resolve, Goto
        <5> HIDE DEF s
        <5> QED
          BY <5>1, <5>2
      <4> QED
        BY <1>3, <2>3, <4>2, <4>3, <4>4, <4>5, <4>6 DEF Create
    <3>3. InsertsOf(q)' = InsertsOf(q)
      BY <3>2, OthersInsert DEF TypeOK
    <3> QED
      BY <1>2, <3>1, <3>3
  <2> QED
    BY <2>1, <2>2, <2>3
<1>4. ASSUME NEW x \in Ids, Leave(x) \/ Grow(x) PROVE Goal
  <2>1. InsertsOf(q)' = InsertsOf(q)
    BY <1>4 DEF Leave, Grow, InsertsOf, About
  <2>2. order[x] \in Order /\ order \in [Ids -> Order \cup {NoOrder}]
    BY <1>4 DEF Leave, Grow, TypeOK
  <2>3. ASSUME NEW y \in Ids, y \in OrdersOf(q)' PROVE y \in OrdersOf(q)
    <3>1. y # x
      <4>1. SUFFICES ASSUME y = x PROVE FALSE
        OBVIOUS
      <4>2. \/ order'[x] = [order[x] EXCEPT !.unpaid = FALSE]
            \/ order'[x] = [order[x] EXCEPT !.recent = FALSE]
        BY <1>4, <2>2 DEF Leave, Grow
      <4>3. ~order'[x].unpaid \/ ~order'[x].recent
        BY <2>2, <4>2 DEF Order
      <4> QED
        BY <2>3, <4>1, <4>3 DEF OrdersOf
    <3>2. order'[y] = order[y]
      BY <1>4, <2>2, <3>1 DEF Leave, Grow
    <3> QED
      BY <2>3, <3>2 DEF OrdersOf
  <2>4. OrdersOf(q)' \in SUBSET OrdersOf(q)
    BY <2>3 DEF OrdersOf
  <2> QED
    BY <1>2, <2>1, <2>4
<1>5. CASE UNCHANGED <<order, request>>
  <2>1. OrdersOf(q)' = OrdersOf(q) /\ InsertsOf(q)' = InsertsOf(q)
    BY <1>5 DEF OrdersOf, InsertsOf, About
  <2> QED
    BY <1>2, <2>1
<1> QED
  BY <1>3, <1>4, <1>5 DEF Next, vars

\* Requests that overlap place no more equal orders than there are of them.
THEOREM DuplicatesAreBounded == Spec => []DuplicatesBounded
<1>1. Init => CountBounded
  <2> SUFFICES ASSUME Init, NEW q \in Questions
               PROVE  Cardinality(OrdersOf(q)) + Cardinality(InsertsOf(q))
                        <= Cardinality(RequestsOf(q[1]))
    BY DEF CountBounded
  <2>1. OrdersOf(q) = {} /\ InsertsOf(q) = {}
    BY DEF Init, OrdersOf, InsertsOf, NoRequest
  <2> QED
    BY <2>1, CountedSetsAreFinite, FS_EmptySet
<1>2. TypeOK /\ CountBounded /\ [Next]_vars => CountBounded'
  BY CountStep DEF CountBounded, RequestsOf
<1>3. TypeOK /\ CountBounded => DuplicatesBounded
  <2> SUFFICES ASSUME TypeOK, CountBounded,
                      NEW x \in Ids, order[x] # NoOrder, order[x].unpaid, order[x].recent
               PROVE  LET equal == {y \in Ids : /\ order[y] # NoOrder
                                                /\ [order[y] EXCEPT !.snapshot = order[x].snapshot] = order[x]}
                      IN  Cardinality(equal) <= Cardinality(RequestsOf(order[x].customer))
    BY DEF DuplicatesBounded, RequestsOf
  <2> DEFINE equal == {y \in Ids : /\ order[y] # NoOrder
                                   /\ [order[y] EXCEPT !.snapshot = order[x].snapshot] = order[x]}
             q == <<order[x].customer, order[x].item, order[x].slot>>
  <2>1. order[x] \in Order
    BY DEF TypeOK
  <2>2. q \in Questions
    BY <2>1 DEF Order, Questions
  <2>3. ASSUME NEW y \in equal PROVE y \in OrdersOf(q)
    <3>1. order[y] \in Order /\ [order[y] EXCEPT !.snapshot = order[x].snapshot] = order[x]
      BY DEF TypeOK
    <3>2. /\ order[y].customer = order[x].customer /\ order[y].item = order[x].item
          /\ order[y].slot = order[x].slot /\ order[y].unpaid /\ order[y].recent
      BY <2>1, <3>1 DEF Order
    <3> QED
      BY <3>2 DEF OrdersOf
  <2>4. Cardinality(equal) <= Cardinality(OrdersOf(q)) /\ Cardinality(equal) \in Nat
    <3>1. equal \in SUBSET OrdersOf(q) /\ IsFiniteSet(OrdersOf(q))
      BY <2>3, CountedSetsAreFinite
    <3> HIDE DEF equal, q
    <3> QED
      BY <3>1, FS_Subset, FS_CardinalityType
  <2>5. /\ Cardinality(OrdersOf(q)) \in Nat /\ Cardinality(InsertsOf(q)) \in Nat
        /\ Cardinality(RequestsOf(q[1])) \in Nat
        /\ Cardinality(OrdersOf(q)) + Cardinality(InsertsOf(q)) <= Cardinality(RequestsOf(q[1]))
    <3> HIDE DEF q
    <3> QED
      BY <2>2, CountedSetsAreFinite DEF CountBounded
  <2>6. Cardinality(equal) <= Cardinality(RequestsOf(q[1]))
    <3> HIDE DEF equal, q
    <3> QED
      BY <2>4, <2>5
  <2> QED
    BY <2>6
<1> QED
  BY <1>1, <1>2, <1>3, TypeCorrect, PTL DEF Spec

-----------------------------------------------------------------------------
(* Areas.                                                                   *)

LEMMA PrefixElements ==
  ASSUME NEW s \in Seq(Codes), NEW t \in Seq(Codes)
  PROVE  IsPrefix(s, t) <=> Len(s) <= Len(t) /\ \A i \in 1..Len(s) : s[i] = t[i]
<1>1. SubSeq(s, 1, Len(s)) = s
  OBVIOUS
<1>2. ASSUME Len(s) <= Len(t)
      PROVE  /\ Len(SubSeq(t, 1, Len(s))) = Len(s)
             /\ SubSeq(t, 1, Len(s)) \in Seq(Codes)
             /\ \A i \in 1..Len(s) : SubSeq(t, 1, Len(s))[i] = t[i]
  BY <1>2
<1>3. ASSUME Len(s) <= Len(t), \A i \in 1..Len(s) : s[i] = t[i]
      PROVE  SubSeq(t, 1, Len(s)) = s
  BY <1>2, <1>3
<1> QED
  BY <1>1, <1>2, <1>3 DEF IsPrefix

\* The first codes of an address, and those of an area the address lies in.
LEMMA PrefixOfPrefix ==
  ASSUME NEW s \in Seq(Codes), NEW t \in Seq(Codes), IsPrefix(s, t), NEW k \in 1..Len(s)
  PROVE  SubSeq(s, 1, k) = SubSeq(t, 1, k) /\ SubSeq(t, 1, Len(s)) = s
<1>1. Len(s) <= Len(t) /\ \A i \in 1..Len(s) : s[i] = t[i]
  BY PrefixElements
<1>2. /\ Len(SubSeq(s, 1, k)) = k /\ Len(SubSeq(t, 1, k)) = k
      /\ SubSeq(s, 1, k) \in Seq(Codes) /\ SubSeq(t, 1, k) \in Seq(Codes)
  BY <1>1
<1>3. \A i \in 1..k : SubSeq(s, 1, k)[i] = s[i] /\ SubSeq(t, 1, k)[i] = t[i]
  BY <1>1
<1>4. SubSeq(s, 1, k) = SubSeq(t, 1, k)
  BY <1>1, <1>2, <1>3
<1> QED
  BY <1>4 DEF IsPrefix

\* The step that disables the rows it holds and ends the handler is switchWrite.
LEMMA SwitchStep ==
  ASSUME TypeOK, [Next]_vars, NEW a \in Admins,
         edit[a].op = "switch", area' # area, edit'[a] = Idle
  PROVE  switchWrite(a)
<1>1. edit[a] # Idle /\ Idle.op = "none"
  BY IdleEdit
<1>2. PICK b \in Admins : Administer(b)
  <2>1. ~UNCHANGED vars
    BY DEF vars
  <2>2. ~\E r \in Requests : Create(r)
    BY CreateTypes DEF TypeOK
  <2>3. ~\E x \in Ids : Leave(x) \/ Grow(x)
    BY DEF Leave, Grow
  <2> QED
    BY <2>1, <2>2, <2>3 DEF Next
<1>3. EditWrite(b)
  <2>1. ~EditStart(b)
    BY EditBegins DEF TypeOK
  <2>2. ~Die(b)
    BY DEF Die
  <2> QED
    BY <1>2, <2>1, <2>2 DEF Administer
<1>4. b = a
  <2>1. SUFFICES ASSUME b # a PROVE FALSE
    OBVIOUS
  <2>2. edit'[a] = edit[a]
    BY <1>3, <2>1, EditWrites DEF TypeOK, EditsOK
  <2> QED
    BY <1>1, <2>2
<1> QED
  BY <1>3, <1>4 DEF EditWrite, upsertWrite, removeWrite, updateCategoryWrite,
     removeCategoryWrite, updateItemWrite, removeItemWrite, areaWrite, updateAreaWrite, enableWrite

\* An area that still serves an address below n is n or below it, which are written, or
\* above it.
THEOREM BranchIsClosed == Spec => BranchCloses
<1>1. ASSUME TypeOK, [Next]_vars, NEW a \in Admins,
             edit[a].op = "switch", ~edit[a].active,
             Below(edit[a].n) \subseteq edit[a].below,
             area' # area, edit'[a] = Idle,
             NEW r \in Requests,
             IsPrefix(edit[a].n, AddressOf[CustomerOf[r]]),
             \A k \in 1..Len(AddressOf[CustomerOf[r]]) :
               SubSeq(AddressOf[CustomerOf[r]], 1, k) \in OpenRows,
             \A k \in 1..(Len(edit[a].n) - 1) :
               SubSeq(AddressOf[CustomerOf[r]], 1, k) \notin OpenRules,
             Served(AddressOf[CustomerOf[r]])'
      PROVE  FALSE
  <2> DEFINE n == edit[a].n
             address == AddressOf[CustomerOf[r]]
  <2>1. /\ area' = [m \in Nodes |-> IF m = n \/ m \in edit[a].below
                                    THEN [area[m] EXCEPT !.active = edit[a].active] ELSE area[m]]
        /\ n \in Nodes /\ edit[a] \in Edit
    BY <1>1, SwitchStep, EditFacts DEF switchWrite, TypeOK, EditsOK
  <2>2. PICK m \in Nodes : area'[m].open /\ area'[m].active /\ IsPrefix(m, address)
    BY <1>1 DEF Served, OpenRules
  <2>3. m # n /\ m \notin edit[a].below
    <3>1. area[m] \in Area
      BY <1>1 DEF TypeOK, TablesOK
    <3>2. SUFFICES ASSUME m = n \/ m \in edit[a].below PROVE FALSE
      OBVIOUS
    <3>3. area'[m] = [area[m] EXCEPT !.active = edit[a].active]
      BY <2>1, <3>2
    <3>4. area'[m].active = edit[a].active
      BY <3>1, <3>3 DEF Area
    <3> QED
      BY <1>1, <2>2, <3>4
  <2>4. m \in OpenRules
    BY <2>1, <2>2, <2>3 DEF OpenRules
  <2>5. /\ n \in Seq(Codes) /\ m \in Seq(Codes) /\ address \in Seq(Codes)
        /\ Len(n) \in Nat /\ Len(m) \in Nat /\ Len(m) >= 1
    BY <2>1, NodesAssumption, RequestsAssumption
  <2>6. IsPrefix(n, address) /\ \A k \in 1..(Len(n) - 1) : SubSeq(address, 1, k) \notin OpenRules
    BY <1>1
  <2>7. \A k \in 1..Len(address) : SubSeq(address, 1, k) \in OpenRows
    BY <1>1
  <2>8. Below(n) \subseteq edit[a].below
    BY <1>1
  <2> HIDE DEF n, address
  <2>9. /\ Len(m) <= Len(address) /\ \A i \in 1..Len(m) : m[i] = address[i]
        /\ Len(n) <= Len(address) /\ \A i \in 1..Len(n) : n[i] = address[i]
    BY <2>2, <2>5, <2>6, PrefixElements
  <2>10. SubSeq(address, 1, Len(m)) = m
    BY <2>2, <2>5, PrefixOfPrefix
  <2>11. ~(Len(m) < Len(n))
    <3>1. SUFFICES ASSUME Len(m) < Len(n) PROVE FALSE
      OBVIOUS
    <3>2. Len(m) \in 1..(Len(n) - 1)
      BY <2>5, <3>1
    <3>3. SubSeq(address, 1, Len(m)) \notin OpenRules
      BY <2>6, <3>2
    <3> QED
      BY <2>4, <2>10, <3>3
  <2>12. Len(m) # Len(n)
    BY <2>3, <2>5, <2>9
  <2>13. IsStrictPrefix(n, m)
    <3>1. Len(n) <= Len(m) /\ \A i \in 1..Len(n) : n[i] = m[i]
      BY <2>5, <2>9, <2>11
    <3> QED
      BY <2>3, <2>5, <3>1, PrefixElements DEF IsStrictPrefix
  <2>14. m \in OpenRows
    BY <2>4 DEF OpenRules, OpenRows
  <2>15. ASSUME NEW k \in (Len(n) + 1)..(Len(m) - 1) PROVE SubSeq(m, 1, k) \in OpenRows
    <3>1. k \in 1..Len(m) /\ k \in 1..Len(address)
      BY <2>5, <2>9
    <3>2. SubSeq(m, 1, k) = SubSeq(address, 1, k)
      BY <2>2, <2>5, <3>1, PrefixOfPrefix
    <3> QED
      BY <2>7, <3>1, <3>2
  <2>16. m \in Below(n)
    BY <2>13, <2>14, <2>15 DEF Below, Reach
  <2> QED
    BY <2>3, <2>8, <2>16
<1>2. TypeOK /\ [Next]_vars =>
        [\A a \in Admins :
           LET n == edit[a].n IN
           /\ edit[a].op = "switch" /\ ~edit[a].active
           /\ Below(n) \subseteq edit[a].below
           /\ area' # area /\ edit'[a] = Idle
           => \A address \in {AddressOf[CustomerOf[r]] : r \in Requests} :
                /\ IsPrefix(n, address)
                /\ \A k \in 1..Len(address) : SubSeq(address, 1, k) \in OpenRows
                /\ \A k \in 1..(Len(n) - 1) : SubSeq(address, 1, k) \notin OpenRules
                => ~Served(address)']_vars
  BY <1>1
<1> QED
  BY <1>2, TypeCorrect, PTL DEF Spec, BranchCloses

-----------------------------------------------------------------------------
(* The nearest rule.                                                        *)

\* One step up in the table; f climbs from c, n steps.
Up(table, c) == IF c = NoCategory THEN NoCategory ELSE table[c].parent

IsClimb(f, table, c, n) == f = [k \in 0..n |-> IF k = 0 THEN c ELSE Up(table, f[k - 1])]

LEMMA ClimbExists ==
  ASSUME NEW table, NEW c, NEW n \in Nat
  PROVE  \E f : IsClimb(f, table, c, n)
<1> DEFINE S == {m \in Nat : \E f : IsClimb(f, table, c, m)}
<1>1. 0 \in S
  <2>1. IsClimb([k \in 0..0 |-> c], table, c, 0)
    BY DEF IsClimb
  <2> QED
    BY <2>1
<1>2. ASSUME NEW m \in Nat, m \in S PROVE m + 1 \in S
  <2>1. PICK f : IsClimb(f, table, c, m)
    BY <1>2
  <2> DEFINE g == [k \in 0..(m + 1) |-> IF k = m + 1 THEN Up(table, f[m]) ELSE f[k]]
  <2>2. ASSUME NEW k \in 0..(m + 1)
        PROVE  g[k] = IF k = 0 THEN c ELSE Up(table, g[k - 1])
    <3>1. CASE k = m + 1
      BY <3>1
    <3>2. CASE k # m + 1
      <4>1. k \in 0..m /\ (k # 0 => k - 1 \in 0..m /\ k - 1 # m + 1)
        BY <3>2
      <4>2. f[k] = IF k = 0 THEN c ELSE Up(table, f[k - 1])
        BY <2>1, <4>1 DEF IsClimb
      <4> QED
        BY <3>2, <4>1, <4>2
    <3> QED
      BY <3>1, <3>2
  <2>3. g = [k \in 0..(m + 1) |-> g[k]]
    OBVIOUS
  <2> HIDE DEF g
  <2>4. IsClimb(g, table, c, m + 1)
    BY <2>2, <2>3 DEF IsClimb
  <2> QED
    BY <2>4
<1> HIDE DEF S
<1>3. n \in S
  BY <1>1, <1>2, SetInduction
<1> QED
  BY <1>3 DEF S

\* Two climbs from the same category agree as far as both go.
LEMMA ClimbsAgree ==
  ASSUME NEW table, NEW c, NEW m \in Nat, NEW n \in Nat, m <= n,
         NEW f, IsClimb(f, table, c, m), NEW g, IsClimb(g, table, c, n)
  PROVE  f[m] = g[m]
<1> DEFINE S == {k \in Nat : k <= m => f[k] = g[k]}
<1>1. 0 \in S
  BY DEF IsClimb
<1>2. ASSUME NEW k \in Nat, k \in S PROVE k + 1 \in S
  <2>1. SUFFICES ASSUME k + 1 <= m PROVE f[k + 1] = g[k + 1]
    OBVIOUS
  <2>2. /\ k + 1 \in 0..m /\ k + 1 \in 0..n /\ k + 1 # 0 /\ (k + 1) - 1 = k
        /\ f[k] = g[k]
    BY <1>2, <2>1
  <2>3. f[k + 1] = Up(table, f[k])
    BY <2>2 DEF IsClimb
  <2>4. g[k + 1] = Up(table, g[k])
    BY <2>2 DEF IsClimb
  <2> QED
    BY <2>2, <2>3, <2>4
<1> HIDE DEF S
<1>3. m \in S
  BY <1>1, <1>2, SetInduction
<1> QED
  BY <1>3 DEF S

LEMMA AboveClimbs ==
  ASSUME NEW table, NEW c, NEW n \in Nat
  PROVE  \E f : IsClimb(f, table, c, n) /\ Above(table, c, n) = f[n]
<1> DEFINE F(f) == f = [k \in 0..n |-> IF k = 0 THEN c
                                       ELSE IF f[k - 1] = NoCategory THEN NoCategory
                                       ELSE table[f[k - 1]].parent]
           up == CHOOSE f : F(f)
<1>1. Above(table, c, n) = up[n]
  BY DEF Above
<1>2. \A f : F(f) <=> IsClimb(f, table, c, n)
  BY DEF IsClimb, Up
<1>3. F(up)
  <2>1. \E f : F(f)
    BY <1>2, ClimbExists
  <2> HIDE DEF F
  <2> QED
    BY <2>1
<1> HIDE DEF up, F
<1> QED
  BY <1>1, <1>2, <1>3

\* Above starts at the category and goes to the parent of where it was.
LEMMA AboveFacts ==
  ASSUME NEW table, NEW c
  PROVE  /\ Above(table, c, 0) = c
         /\ \A n \in Nat : Above(table, c, n + 1) = Up(table, Above(table, c, n))
<1>1. Above(table, c, 0) = c
  <2>1. PICK f : IsClimb(f, table, c, 0) /\ Above(table, c, 0) = f[0]
    BY AboveClimbs
  <2> QED
    BY <2>1 DEF IsClimb
<1>2. ASSUME NEW n \in Nat PROVE Above(table, c, n + 1) = Up(table, Above(table, c, n))
  <2>1. PICK f : IsClimb(f, table, c, n) /\ Above(table, c, n) = f[n]
    BY AboveClimbs
  <2>2. PICK g : IsClimb(g, table, c, n + 1) /\ Above(table, c, n + 1) = g[n + 1]
    BY AboveClimbs
  <2>3. f[n] = g[n]
    BY <2>1, <2>2, ClimbsAgree
  <2>4. g[n + 1] = Up(table, g[n])
    BY <2>2 DEF IsClimb
  <2> QED
    BY <2>1, <2>2, <2>3, <2>4
<1> QED
  BY <1>1, <1>2

\* Above the root of a tree there is nothing, however far one goes.
LEMMA NothingAboveNothing ==
  ASSUME NEW table, NEW c, NEW k \in Nat, NEW n \in Nat, k <= n,
         Above(table, c, k) = NoCategory
  PROVE  Above(table, c, n) = NoCategory
<1> DEFINE S == {d \in Nat : Above(table, c, k + d) = NoCategory}
<1>1. 0 \in S
  OBVIOUS
<1>2. ASSUME NEW d \in Nat, d \in S PROVE d + 1 \in S
  <2> DEFINE p == k + d
  <2>1. p \in Nat /\ k + (d + 1) = p + 1
    OBVIOUS
  <2>2. Above(table, c, p + 1) = Up(table, Above(table, c, p))
    <3> HIDE DEF p
    <3> QED
      BY <2>1, AboveFacts
  <2>3. Above(table, c, k + d) = NoCategory
    BY <1>2
  <2>4. Above(table, c, (k + d) + 1) = NoCategory
    BY <2>2, <2>3 DEF Up
  <2> QED
    BY <1>2, <2>1, <2>4
<1>3. n - k \in S
  <2>1. n - k \in Nat
    OBVIOUS
  <2> HIDE DEF S
  <2> QED
    BY <1>1, <1>2, <2>1, SetInduction
<1>4. k + (n - k) = n
  OBVIOUS
<1> QED
  BY <1>3, <1>4

\* The chain of a category: each element the parent of the one before.
IsChain(chain, c) ==
  /\ chain \in Seq(Categories)
  /\ Len(chain) \in 1..MaxDepth
  /\ chain[1] = c
  /\ \A k \in 1..(Len(chain) - 1) : chain[k + 1] = category[chain[k]].parent

IsWhole(chain) == category[chain[Len(chain)]].parent = NoCategory \/ Len(chain) = MaxDepth

LEMMA ChainIsAbove ==
  ASSUME NEW chain, NEW c, IsChain(chain, c), NEW n \in Nat, n < Len(chain)
  PROVE  Above(category, c, n) = chain[n + 1] /\ chain[n + 1] \in Categories
<1> DEFINE S == {k \in Nat : k < Len(chain) => Above(category, c, k) = chain[k + 1]}
<1>1. 0 \in S
  BY AboveFacts DEF IsChain
<1>2. ASSUME NEW k \in Nat, k \in S PROVE k + 1 \in S
  <2>1. SUFFICES ASSUME k + 1 < Len(chain)
                 PROVE  Above(category, c, k + 1) = chain[(k + 1) + 1]
    OBVIOUS
  <2>2. Above(category, c, k) = chain[k + 1] /\ k + 1 \in 1..(Len(chain) - 1)
    BY <1>2, <2>1 DEF IsChain
  <2>3. chain[k + 1] \in Categories /\ chain[(k + 1) + 1] = category[chain[k + 1]].parent
    BY <2>2 DEF IsChain
  <2>4. Above(category, c, k + 1) = Up(category, Above(category, c, k))
    BY AboveFacts
  <2> QED
    BY <2>2, <2>3, <2>4, NamesAssumption DEF Up
<1>3. n \in S
  <2> HIDE DEF S
  <2> QED
    BY <1>1, <1>2, SetInduction
<1>4. chain[n + 1] \in Categories
  BY DEF IsChain
<1> QED
  BY <1>3, <1>4

\* The pick among the rules read along a whole chain is the nearest rule.
LEMMA ChooseNearest ==
  ASSUME TablesOK, NEW i \in Items, NEW chain,
         IsChain(chain, item[i].category), IsWhole(chain)
  PROVE  TermsFor(i, Choose(i, chain), MaxDepth)
<1> DEFINE c == item[i].category
           hits == {k \in DOMAIN chain : Applies(CategoryKey(chain[k]))}
           mine(x) == Nearest(c, x, MaxDepth) /\ Applies(CategoryKey(x))
<1>1. /\ IsChain(chain, c) /\ Len(chain) \in Nat /\ DOMAIN chain = 1..Len(chain)
      /\ Len(chain) \in 1..MaxDepth /\ MaxDepth \in Nat
  BY DepthAssumption DEF IsChain
<1>2. Choose(i, chain) =
        IF Applies(ItemKey(i)) THEN rule[ItemKey(i)].terms
        ELSE IF hits # {} THEN rule[CategoryKey(chain[Min(hits)])].terms
        ELSE IF Applies(Global) THEN rule[Global].terms
        ELSE DefaultTerms
  BY DEF Choose, ChooseFrom
<1>3. TermsFor(i, Choose(i, chain), MaxDepth) <=>
        \/ Applies(ItemKey(i)) /\ Choose(i, chain) = rule[ItemKey(i)].terms
        \/ /\ ~Applies(ItemKey(i))
           /\ \/ \E x \in Categories : mine(x) /\ Choose(i, chain) = rule[CategoryKey(x)].terms
              \/ /\ \A x \in Categories : ~mine(x)
                 /\ Choose(i, chain) =
                      IF Applies(Global) THEN rule[Global].terms ELSE DefaultTerms
  BY DEF TermsFor
<1>4. ASSUME hits # {}
      PROVE  chain[Min(hits)] \in Categories /\ mine(chain[Min(hits)])
  <2> DEFINE m == Min(hits)
  <2>1. m \in hits /\ \A k \in hits : m <= k
    <3>1. hits \in SUBSET Nat
      BY <1>1
    <3> HIDE DEF hits
    <3> QED
      BY <1>4, <3>1, MinIsLeast
  <2> HIDE DEF m
  <2>2. /\ m \in 1..Len(chain) /\ Applies(CategoryKey(chain[m]))
        /\ \A k \in 1..(m - 1) : ~Applies(CategoryKey(chain[k]))
    <3>1. m \in 1..Len(chain) /\ Applies(CategoryKey(chain[m]))
      BY <1>1, <2>1
    <3>2. ASSUME NEW k \in 1..(m - 1), Applies(CategoryKey(chain[k])) PROVE FALSE
      <4>1. k \in 1..Len(chain) /\ ~(m <= k)
        BY <1>1, <3>1
      <4> QED
        BY <1>1, <2>1, <3>2, <4>1
    <3> QED
      BY <3>1, <3>2
  <2>4. m - 1 \in 0..(MaxDepth - 1) /\ m - 1 \in Nat /\ m - 1 < Len(chain)
        /\ (m - 1) + 1 = m
    BY <1>1, <2>2
  <2>5. Above(category, c, m - 1) = chain[m] /\ chain[m] \in Categories
    <3> HIDE DEF c
    <3>1. Above(category, c, m - 1) = chain[(m - 1) + 1] /\ chain[(m - 1) + 1] \in Categories
      BY <1>1, <2>4, ChainIsAbove
    <3> QED
      BY <2>4, <3>1
  <2>6. ASSUME NEW k \in 0..((m - 1) - 1)
        PROVE  /\ Above(category, c, k) \in Categories
               /\ ~Applies(CategoryKey(Above(category, c, k)))
    <3>1. k \in Nat /\ k < Len(chain) /\ k + 1 \in 1..(m - 1)
      BY <1>1, <2>2
    <3>2. Above(category, c, k) = chain[k + 1] /\ chain[k + 1] \in Categories
      <4> HIDE DEF c
      <4> QED
        BY <1>1, <3>1, ChainIsAbove
    <3> QED
      BY <2>2, <3>1, <3>2
  <2>7. Nearest(c, chain[m], MaxDepth)
    <3> HIDE DEF c
    <3> QED
      BY <2>4, <2>5, <2>6 DEF Nearest
  <2> QED
    BY <2>2, <2>5, <2>7 DEF m
<1>5. ASSUME hits = {}, NEW x \in Categories, mine(x) PROVE FALSE
  <2>1. PICK n \in 0..(MaxDepth - 1) :
          /\ Above(category, c, n) = x
          /\ \A k \in 0..(n - 1) : Above(category, c, k) \in Categories
    <3> HIDE DEF c
    <3> QED
      BY <1>5 DEF Nearest
  <2>2. n \in Nat /\ n < MaxDepth
    BY <1>1
  <2> HIDE DEF c
  <2>3. n < Len(chain)
    <3>1. SUFFICES ASSUME Len(chain) <= n PROVE FALSE
      BY <1>1, <2>2
    <3>2. Len(chain) # MaxDepth
      <4>1. Len(chain) \in Nat /\ MaxDepth \in Nat
        BY <1>1
      <4> QED
        BY <2>2, <3>1, <4>1
    <3>3. category[chain[Len(chain)]].parent = NoCategory
      BY <3>2 DEF IsWhole
    <3>4. Len(chain) - 1 \in Nat /\ Len(chain) - 1 < Len(chain) /\ (Len(chain) - 1) + 1 = Len(chain)
      BY <1>1 DEF IsChain
    <3>5. Above(category, c, Len(chain) - 1) = chain[Len(chain)] /\ chain[Len(chain)] \in Categories
      <4>1. /\ Above(category, c, Len(chain) - 1) = chain[(Len(chain) - 1) + 1]
            /\ chain[(Len(chain) - 1) + 1] \in Categories
        BY <1>1, <3>4, ChainIsAbove
      <4> QED
        BY <3>4, <4>1
    <3>6. Above(category, c, (Len(chain) - 1) + 1) = Up(category, Above(category, c, Len(chain) - 1))
      BY <3>4, AboveFacts
    <3>7. Above(category, c, Len(chain)) = NoCategory
      BY <3>3, <3>4, <3>5, <3>6 DEF Up
    <3>8. Above(category, c, n) = NoCategory
      BY <1>1, <2>2, <3>1, <3>7, NothingAboveNothing
    <3> QED
      BY <2>1, <3>8, NamesAssumption
  <2>4. chain[n + 1] = x /\ n + 1 \in DOMAIN chain
    <3>1. Above(category, c, n) = chain[n + 1]
      BY <1>1, <2>2, <2>3, ChainIsAbove
    <3> QED
      BY <1>1, <2>1, <2>2, <2>3, <3>1
  <2>5. n + 1 \in hits
    BY <1>5, <2>4
  <2> QED
    BY <1>5, <2>5
<1>6. CASE Applies(ItemKey(i))
  BY <1>2, <1>3, <1>6
<1>7. CASE ~Applies(ItemKey(i)) /\ hits # {}
  <2> HIDE DEF hits, mine
  <2> QED
    BY <1>2, <1>3, <1>4, <1>7
<1>8. CASE ~Applies(ItemKey(i)) /\ hits = {}
  <2> HIDE DEF hits, mine
  <2> QED
    BY <1>2, <1>3, <1>5, <1>8
<1> QED
  BY <1>6, <1>7, <1>8

LEMMA SameTables ==
  ASSUME UNCHANGED <<category, item, rule>>
  PROVE  /\ \A i, terms, d : TermsFor(i, terms, d)' <=> TermsFor(i, terms, d)
         /\ \A ch, c : (IsChain(ch, c)' <=> IsChain(ch, c)) /\ (IsWhole(ch)' <=> IsWhole(ch))
<1>1. \A k : Applies(k)' <=> Applies(k)
  BY DEF Applies
<1>2. \A c, x, d : Nearest(c, x, d)' <=> Nearest(c, x, d)
  BY <1>1 DEF Nearest
<1>3. \A i, terms, d : TermsFor(i, terms, d)' <=> TermsFor(i, terms, d)
  BY <1>1, <1>2 DEF TermsFor
<1>4. \A ch, c : IsChain(ch, c)' <=> IsChain(ch, c)
  BY DEF IsChain
<1>5. \A ch : IsWhole(ch)' <=> IsWhole(ch)
  BY DEF IsWhole
<1> QED
  BY <1>3, <1>4, <1>5

\* While nothing is edited a request walks the chain of the category of its service, to
\* its end, and has its terms by it.
WalkOK(q) ==
  /\ q.pc \in {"chain", "rules"} => IsChain(q.chain, item[q.item].category)
  /\ q.pc = "rules" => IsWhole(q.chain)
  /\ q.pc = "equal" => TermsFor(q.item, q.snapshot, MaxDepth)

WalksOK == \A r \in Requests : calm[r] => WalkOK(request[r])

LEMMA WalkKept ==
  ASSUME UNCHANGED <<category, item, rule>>, NEW q, WalkOK(q)
  PROVE  WalkOK(q)'
BY SameTables DEF WalkOK

\* The state of a request after a step of its own.
LEMMA WalkStep ==
  ASSUME TypeOK, WalksOK, NEW r \in Requests, Create(r), calm'[r],
         NEW after, after = request'[r]
  PROVE  WalkOK(after)'
<1>1. /\ UNCHANGED <<category, item, rule>>
      /\ RequestsOK /\ TablesOK
      /\ request \in [Requests -> {NoRequest} \cup Walking \cup Resolved]
  BY CreateTypes DEF TypeOK, RequestsOK
<1>2. NoRequest.pc = "idle"
  BY DEF NoRequest
<1>3. SUFFICES WalkOK(request'[r])
  BY <1>1, WalkKept
<1>4. ASSUME NEW i \in Items, NEW slot, CreateStart(r, i, slot)
      PROVE  WalkOK(request'[r])
  <2>1. request'[r].pc = "gate"
    BY <1>1, <1>4 DEF CreateStart, Goto
  <2> QED
    BY <2>1 DEF WalkOK
<1>5. CASE Gate(r)
  <2>1. request[r] \in Walking
    BY <1>1, <1>5, RequestFacts DEF Gate
  <2>2. request'[r].pc \in {"category", "idle"}
    BY <1>1, <1>2, <1>5, <2>1 DEF Gate, Goto, Walking
  <2> QED
    BY <2>2 DEF WalkOK
<1>6. CASE ChainStart(r)
  <2> DEFINE c == item[request[r].item].category
             s == [request[r] EXCEPT !.pc = "chain", !.chain = <<c>>]
  <2>1. request[r] \in Walking /\ c \in Categories
    BY <1>1, <1>6, RequestFacts DEF ChainStart, Walking, TablesOK, Item
  <2>2. request'[r] = s
    BY <1>1, <1>6 DEF ChainStart, Goto
  <2>3. s.pc = "chain" /\ s.chain = <<c>> /\ s.item = request[r].item
    BY <2>1 DEF Walking
  <2>4. IsChain(<<c>>, c)
    <3>1. MaxDepth \in Nat /\ 1 <= MaxDepth
      BY DepthAssumption
    <3> HIDE DEF c
    <3> QED
      BY <2>1, <3>1 DEF IsChain
  <2> HIDE DEF s
  <2> QED
    BY <2>2, <2>3, <2>4 DEF WalkOK
<1>7. CASE ChainStep(r)
  <2>1. request[r] \in Walking /\ request[r].pc = "chain"
    BY <1>1, <1>7, RequestFacts DEF ChainStep
  <2>2. calm[r]
    BY <1>7 DEF ChainStep
  <2> DEFINE ch == request[r].chain
             c == item[request[r].item].category
  <2>3. IsChain(ch, c)
    BY <2>1, <2>2 DEF WalksOK, WalkOK
  <2>4. Last(ch) = ch[Len(ch)] /\ Parent(r) = category[ch[Len(ch)]].parent
    BY DEF Last, Parent
  <2>5. CASE ChainEnds(r)
    <3>1. request'[r] = [request[r] EXCEPT !.pc = "rules"]
      BY <1>1, <1>7, <2>5 DEF ChainStep, Goto
    <3>2. request'[r].pc = "rules" /\ request'[r].chain = ch /\ request'[r].item = request[r].item
      BY <2>1, <3>1 DEF Walking
    <3>3. IsWhole(ch)
      BY <2>4, <2>5 DEF ChainEnds, IsWhole
    <3> QED
      BY <2>3, <3>2, <3>3 DEF WalkOK
  <2>6. CASE ~ChainEnds(r)
    <3> DEFINE new == Append(ch, Parent(r))
    <3>1. request'[r] = [request[r] EXCEPT !.chain = new]
      BY <1>1, <1>7, <2>6 DEF ChainStep, Goto
    <3>2. request'[r].pc = "chain" /\ request'[r].chain = new /\ request'[r].item = request[r].item
      BY <2>1, <3>1 DEF Walking
    <3>3. Parent(r) # NoCategory /\ Len(ch) # MaxDepth
      BY <2>6 DEF ChainEnds
    <3>4. ch \in Seq(Categories) /\ Len(ch) \in 1..MaxDepth /\ MaxDepth \in Nat
      BY <2>3, DepthAssumption DEF IsChain
    <3>5. Parent(r) \in Categories
      <4>1. ch[Len(ch)] \in Categories
        BY <3>4
      <4> QED
        BY <1>1, <2>4, <3>3, <4>1 DEF TablesOK, Category
    <3>6. IsChain(new, c)
      <4> HIDE DEF ch, c
      <4>1. /\ new \in Seq(Categories) /\ Len(new) = Len(ch) + 1
            /\ \A k \in 1..Len(ch) : new[k] = ch[k]
            /\ new[Len(ch) + 1] = Parent(r)
        BY <3>4, <3>5
      <4> HIDE DEF new
      <4>2. Len(new) \in 1..MaxDepth /\ new[1] = c
        BY <2>3, <3>3, <3>4, <4>1 DEF IsChain
      <4>3. ASSUME NEW k \in 1..(Len(new) - 1) PROVE new[k + 1] = category[new[k]].parent
        <5>1. k \in 1..Len(ch)
          BY <3>4, <4>1
        <5>2. CASE k = Len(ch)
          BY <2>4, <4>1, <5>1, <5>2
        <5>3. CASE k # Len(ch)
          <6>1. k \in 1..(Len(ch) - 1) /\ k + 1 \in 1..Len(ch)
            BY <3>4, <5>1, <5>3
          <6> QED
            BY <2>3, <4>1, <5>1, <6>1 DEF IsChain
        <5> QED
          BY <5>2, <5>3
      <4> QED
        BY <4>1, <4>2, <4>3 DEF IsChain
    <3> HIDE DEF new
    <3> QED
      BY <3>2, <3>6 DEF WalkOK
  <2> QED
    BY <2>5, <2>6
<1>8. CASE Resolve(r)
  <2>1. request[r] \in Walking /\ request[r].pc = "rules" /\ calm[r]
    BY <1>1, <1>8, RequestFacts DEF Resolve
  <2> DEFINE i == request[r].item
             ch == request[r].chain
  <2>2. IsChain(ch, item[i].category) /\ IsWhole(ch) /\ i \in Items
    BY <2>1 DEF WalksOK, WalkOK, Walking
  <2>3. TermsFor(i, Choose(i, ch), MaxDepth)
    <3> HIDE DEF i, ch
    <3> QED
      BY <1>1, <2>2, ChooseNearest
  <2>4. request'[r] = [pc |-> "equal", item |-> i, slot |-> request[r].slot,
                       snapshot |-> Choose(i, ch)]
    BY <1>1, <1>8 DEF Resolve, Goto
  <2>5. /\ request'[r].pc = "equal" /\ request'[r].item = i
        /\ request'[r].snapshot = Choose(i, ch)
    <3> HIDE DEF i, ch
    <3> QED
      BY <2>4
  <2> HIDE DEF i, ch
  <2> QED
    BY <2>3, <2>5 DEF WalkOK
<1>9. CASE LookForEqual(r)
  <2>1. request[r] \in Resolved
    BY <1>1, <1>9, RequestFacts DEF LookForEqual
  <2>2. request'[r].pc \in {"insert", "idle"}
    BY <1>1, <1>2, <1>9, <2>1 DEF LookForEqual, Goto, Resolved
  <2> QED
    BY <2>2 DEF WalkOK
<1>10. CASE Insert(r)
  <2>1. request'[r].pc = "idle"
    BY <1>1, <1>2, <1>10 DEF Insert
  <2> QED
    BY <2>1 DEF WalkOK
<1> QED
  BY <1>4, <1>5, <1>6, <1>7, <1>8, <1>9, <1>10 DEF Create

\* The requests that do not take the step.
LEMMA WalksStay ==
  ASSUME WalksOK, UNCHANGED <<category, item, rule>>,
         NEW q \in Requests, request'[q] = request[q], calm'[q] => calm[q], calm'[q],
         NEW after, after = request'[q]
  PROVE  WalkOK(after)'
<1>1. WalkOK(after)
  BY DEF WalksOK
<1> QED
  BY <1>1, WalkKept

\* The walk up from the category of a service, one read at a time, and the pick from an
\* unordered list of rules find the nearest rule as far as the walk goes, however many
\* categories there are, however deep the tree and whatever loops are in it.
THEOREM NearestIsResolved == Spec => []ResolveNearest
<1>1. Init => WalksOK
  BY DEF Init, WalksOK
<1>2. TypeOK /\ WalksOK /\ [Next]_vars => WalksOK'
  <2> SUFFICES ASSUME TypeOK, WalksOK, [Next]_vars, NEW q \in Requests, calm'[q],
                      NEW after, after = request'[q]
               PROVE  WalkOK(after)'
    BY DEF WalksOK
  <2>1. ASSUME NEW r \in Requests, Create(r)
        PROVE  WalkOK(after)'
    <3>1. CASE q = r
      BY <2>1, <3>1, WalkStep
    <3>2. CASE q # r
      <4>1. request'[q] = request[q] /\ (calm'[q] => calm[q])
        BY <2>1, <3>2 DEF Create, CreateStart, Gate, ChainStart, ChainStep, Resolve,
           LookForEqual, Insert, Goto, TypeOK, RequestsOK
      <4>2. UNCHANGED <<category, item, rule>>
        BY <2>1, CreateTypes DEF TypeOK
      <4> QED
        BY <4>1, <4>2, WalksStay
    <3> QED
      BY <3>1, <3>2
  <2>2. CASE /\ UNCHANGED <<order, request>>
             /\ calm' = IF UNCHANGED <<area, category, item, rule>>
                        THEN calm ELSE [r \in Requests |-> FALSE]
    BY <2>2, WalksStay
  <2>3. CASE \E x \in Ids : Leave(x) \/ Grow(x)
    <3>1. UNCHANGED <<category, item, rule, request, calm>>
      BY <2>3 DEF Leave, Grow
    <3> QED
      BY <3>1, WalksStay
  <2>4. CASE UNCHANGED vars
    <3>1. UNCHANGED <<category, item, rule, request, calm>>
      BY <2>4 DEF vars
    <3> QED
      BY <3>1, WalksStay
  <2> QED
    BY <2>1, <2>2, <2>3, <2>4 DEF Next
<1>3. WalksOK => ResolveNearest
  BY DEF WalksOK, WalkOK, ResolveNearest
<1> QED
  BY <1>1, <1>2, <1>3, TypeCorrect, PTL DEF Spec
=============================================================================
