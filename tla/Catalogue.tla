------------------------------ MODULE Catalogue ------------------------------
(***************************************************************************)
(* What administrators maintain and an order depends on: the service areas   *)
(* that are open, the tree of categories with the services in it, and the    *)
(* commission rules. Every handler reads, checks, and writes later.          *)
(***************************************************************************)
EXTENDS Naturals, SequencesExt

CONSTANTS
  Codes,            \* of provinces, cities and districts
  Nodes,            \* service areas: <<province>>, <<province, city>>, ...
  Categories, Items,
  Rates,            \* terms of a rule: what the split is made from
  DefaultTerms,     \* built-in terms where no rule applies
  NoCategory, NoRule,
  Admins,
  MaxDepth,         \* of the category chain: 10 in the code
  MaxEdits          \* bound: edits begun

ASSUME NamesAssumption ==
  /\ NoCategory \notin Categories
  /\ NoRule \notin Rates
  /\ DefaultTerms \notin Rates
ASSUME DepthAssumption == MaxDepth \in Nat \ {0}
ASSUME NodesAssumption == Nodes \subseteq Seq(Codes) \ {<<>>}

VARIABLES
  area,             \* [Nodes -> row]: open (not deleted) and active
  category,         \* [Categories -> row]
  item,             \* [Items -> row]
  rule,             \* [Keys -> row or NoRule]: unique on scope and refId
  edit,             \* [Admins -> handler under way]
  edits             \* edits begun

catalogueVars == <<area, category, item, rule, edit, edits>>

-----------------------------------------------------------------------------
(* Service areas.                                                           *)

\* Rules made of the open and active areas; an area stands for all it contains, an
\* address is in the areas that are a prefix of it.
OpenRules == {n \in Nodes : area[n].open /\ area[n].active}

Served(address) == \E n \in OpenRules : IsPrefix(n, address)

\* The rows below n, found along parentCode among the rows that are open.
Reach(n, rows) ==
  {x \in rows : /\ IsStrictPrefix(n, x)
                /\ \A k \in (Len(n) + 1)..(Len(x) - 1) : SubSeq(x, 1, k) \in rows}

OpenRows == {n \in Nodes : area[n].open}

\* Mutant: only the rows directly below are collected.
BelowChildren(n) == {x \in Reach(n, OpenRows) : Len(x) = Len(n) + 1}

Below(n) == Reach(n, OpenRows)

-----------------------------------------------------------------------------
(* Rules.                                                                   *)

Global == <<"global", "">>
ItemKey(i) == <<"service", i>>
CategoryKey(c) == <<"category", c>>
Keys == {Global} \cup {ItemKey(i) : i \in Items} \cup {CategoryKey(c) : c \in Categories}

Applies(key) == rule[key] # NoRule /\ rule[key].active /\ ~rule[key].deleted

\* The choice among the rules read: service, then the chain upwards, then global.
ChooseFrom(i, chain) ==
  LET hits == {k \in DOMAIN chain : Applies(CategoryKey(chain[k]))} IN
  IF Applies(ItemKey(i)) THEN rule[ItemKey(i)].terms
  ELSE IF hits # {} THEN rule[CategoryKey(chain[Min(hits)])].terms
  ELSE IF Applies(Global) THEN rule[Global].terms
  ELSE DefaultTerms

\* Mutant: the category nearest to the root comes first.
ChooseOutermost(i, chain) == ChooseFrom(i, Reverse(chain))

Choose(i, chain) == ChooseFrom(i, chain)

-----------------------------------------------------------------------------
(* Handlers. Each one checks what it reads and writes in a later statement;  *)
(* edit holds what it goes by in between.                                    *)

Idle == [op |-> "none"]

Begin(a, e) ==
  /\ edit[a] = Idle
  /\ edits < MaxEdits                                     \* bound
  /\ edits' = edits + 1
  /\ edit' = [edit EXCEPT ![a] = e]
  /\ UNCHANGED <<area, category, item, rule>>

End(a) == edit' = [edit EXCEPT ![a] = Idle] /\ UNCHANGED edits

\* A rule is for something that exists; a removed one is revived.
upsert(a, key, terms, active) ==
  /\ \A i \in Items : key = ItemKey(i) => ~item[i].deleted
  /\ \A c \in Categories : key = CategoryKey(c) => ~category[c].deleted
  /\ Begin(a, [op |-> "upsert", key |-> key,
               row |-> [terms |-> terms, active |-> active, deleted |-> FALSE]])

upsertWrite(a) ==
  /\ edit[a].op = "upsert"
  /\ rule' = [rule EXCEPT ![edit[a].key] = edit[a].row]
  /\ End(a)
  /\ UNCHANGED <<area, category, item>>

\* The global rule cannot be removed.
remove(a, key) ==
  /\ rule[key] # NoRule
  /\ key # Global
  /\ Begin(a, [op |-> "remove", key |-> key])

removeWrite(a) ==
  /\ edit[a].op = "remove"
  /\ rule' = [rule EXCEPT ![edit[a].key].deleted = TRUE]
  /\ End(a)
  /\ UNCHANGED <<area, category, item>>

\* Three levels at most, counted from the new parent; what hangs below c is not looked
\* at, so that trees may grow deeper, or a category come to hang below itself.
Level(parent) == IF parent = NoCategory THEN 1 ELSE category[parent].level + 1

updateCategory(a, c, parent) ==
  /\ Level(parent) <= 3
  /\ Begin(a, [op |-> "updateCategory", c |-> c, parent |-> parent, level |-> Level(parent)])

updateCategoryWrite(a) ==
  /\ edit[a].op = "updateCategory"
  /\ category' = [category EXCEPT ![edit[a].c].parent = edit[a].parent,
                                  ![edit[a].c].level = edit[a].level]
  /\ End(a)
  /\ UNCHANGED <<area, item, rule>>

removeCategory(a, c) ==
  /\ \A x \in Categories : category[x].parent = c => category[x].deleted
  /\ \A i \in Items : item[i].category = c => item[i].deleted
  /\ Begin(a, [op |-> "removeCategory", c |-> c])

removeCategoryWrite(a) ==
  /\ edit[a].op = "removeCategory"
  /\ category' = [category EXCEPT ![edit[a].c].deleted = TRUE]
  /\ End(a)
  /\ UNCHANGED <<area, item, rule>>

\* A removed service is neither active nor to be changed again. An update writes the
\* columns it was given, each one value or none.
Given(column) == {{}} \cup {{value} : value \in column}
Written(given, old) == IF given = {} THEN old ELSE CHOOSE value \in given : TRUE

updateItem(a, i, c, active) ==
  /\ ~item[i].deleted
  /\ Begin(a, [op |-> "updateItem", i |-> i, category |-> c, active |-> active])

updateItemWrite(a) ==
  /\ edit[a].op = "updateItem"
  /\ item' = [item EXCEPT ![edit[a].i].category = Written(edit[a].category, @),
                          ![edit[a].i].active = Written(edit[a].active, @)]
  /\ End(a)
  /\ UNCHANGED <<area, category, rule>>

removeItem(a, i) ==
  /\ ~item[i].deleted
  /\ Begin(a, [op |-> "removeItem", i |-> i])

removeItemWrite(a) ==
  /\ edit[a].op = "removeItem"
  /\ item' = [item EXCEPT ![edit[a].i].active = FALSE, ![edit[a].i].deleted = TRUE]
  /\ End(a)
  /\ UNCHANGED <<area, category, rule>>

\* Areas opened anew are active, whatever became of their rows before. Several are
\* opened in one transaction and removed in one statement.
batchCreate(a, ns) == Begin(a, [op |-> "area", ns |-> ns, row |-> [open |-> TRUE, active |-> TRUE]])
batchRemove(a, ns) == Begin(a, [op |-> "area", ns |-> ns, row |-> [open |-> FALSE, active |-> FALSE]])
createArea(a, n) == batchCreate(a, {n})
removeArea(a, n) == batchRemove(a, {n})

areaWrite(a) ==
  /\ edit[a].op = "area"
  /\ area' = [n \in Nodes |-> IF n \in edit[a].ns THEN edit[a].row ELSE area[n]]
  /\ End(a)
  /\ UNCHANGED <<category, item, rule>>

\* One row by itself, open or not.
updateArea(a, n, active) == Begin(a, [op |-> "patch", n |-> n, active |-> active])

updateAreaWrite(a) ==
  /\ edit[a].op = "patch"
  /\ area' = [area EXCEPT ![edit[a].n].active = edit[a].active]
  /\ End(a)
  /\ UNCHANGED <<category, item, rule>>

\* The rows below are collected first. Disabling is one statement for all of them;
\* enabling writes the node, and the rows below in a second one if asked to.
setAreaEnabled(a, n, enabled, cascade) ==
  Begin(a, [op |-> IF enabled THEN "enable" ELSE "switch", n |-> n, active |-> enabled,
            below |-> IF enabled /\ ~cascade THEN {} ELSE Below(n)])

enableWrite(a) ==
  /\ edit[a].op = "enable"
  /\ area' = [area EXCEPT ![edit[a].n].active = TRUE]
  /\ edit' = [edit EXCEPT ![a] = IF @.below = {} THEN Idle ELSE [@ EXCEPT !.op = "switch"]]
  /\ UNCHANGED <<category, item, rule, edits>>

switchWrite(a) ==
  /\ edit[a].op = "switch"
  /\ area' = [n \in Nodes |-> IF n = edit[a].n \/ n \in edit[a].below
                              THEN [area[n] EXCEPT !.active = edit[a].active] ELSE area[n]]
  /\ End(a)
  /\ UNCHANGED <<category, item, rule>>

\* The process dies between two statements.
Die(a) == edit[a] # Idle /\ End(a) /\ UNCHANGED <<area, category, item, rule>>

EditWrite(a) ==
  \/ upsertWrite(a)
  \/ removeWrite(a)
  \/ updateCategoryWrite(a)
  \/ removeCategoryWrite(a)
  \/ updateItemWrite(a)
  \/ removeItemWrite(a)
  \/ areaWrite(a)
  \/ updateAreaWrite(a)
  \/ enableWrite(a)
  \/ switchWrite(a)

EditStart(a) ==
  \/ \E key \in Keys : remove(a, key) \/ \E terms \in Rates, on \in BOOLEAN : upsert(a, key, terms, on)
  \/ \E c \in Categories :
       removeCategory(a, c) \/ \E parent \in Categories \cup {NoCategory} : updateCategory(a, c, parent)
  \/ \E i \in Items :
       removeItem(a, i) \/ \E c \in Given(Categories), on \in Given(BOOLEAN) : updateItem(a, i, c, on)
  \/ \E n \in Nodes :
       \/ createArea(a, n)
       \/ removeArea(a, n)
       \/ \E on \in BOOLEAN : updateArea(a, n, on)
       \/ \E on, cascade \in BOOLEAN : setAreaEnabled(a, n, on, cascade)
  \/ \E ns \in SUBSET Nodes \ {{}} : batchCreate(a, ns) \/ batchRemove(a, ns)

Administer(a) == EditStart(a) \/ EditWrite(a) \/ Die(a)
=============================================================================
