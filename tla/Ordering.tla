------------------------------- MODULE Ordering -------------------------------
(***************************************************************************)
(* Placing an order while administrators edit what it depends on: service,   *)
(* service areas, categories and commission rules are read one after the     *)
(* other, then equal orders are looked for, then the order is written with   *)
(* the terms it was offered at.                                              *)
(***************************************************************************)
EXTENDS Catalogue

CONSTANTS
  Requests,         \* requests that may overlap
  CustomerOf,       \* [Requests -> Customers]
  AddressOf,        \* [Customers -> addresses, as sequences of codes]
  Slots, NoSlot,    \* appointments, and none given
  Ids, NoOrder,     \* bound: orders written
  InitialArea, InitialCategory, InitialItem, InitialRule

ASSUME RequestsAssumption ==
  /\ IsFiniteSet(Requests)
  /\ \A r \in Requests : AddressOf[CustomerOf[r]] \in Seq(Codes)
ASSUME IdsAssumption == IsFiniteSet(Ids)

\* The rows of the tables administrators edit.
Area == [open : BOOLEAN, active : BOOLEAN]
Category == [parent : Categories \cup {NoCategory}, level : Nat, deleted : BOOLEAN]
Item == [category : Categories, active : BOOLEAN, deleted : BOOLEAN]
Rule == [terms : Rates, active : BOOLEAN, deleted : BOOLEAN]

ASSUME InitialAssumption ==
  /\ InitialArea \in [Nodes -> Area]
  /\ InitialCategory \in [Categories -> Category]
  /\ InitialItem \in [Items -> Item]
  /\ InitialRule \in [Keys -> Rule \cup {NoRule}]

VARIABLES
  order,            \* [Ids -> row or NoOrder]
  request,          \* [Requests -> handler under way]
  calm              \* [Requests -> nothing was edited since the handler began]

orderingVars == <<order, request, calm>>
vars == <<area, category, item, rule, edit, edits, order, request, calm>>

NoRequest == [pc |-> "idle"]

-----------------------------------------------------------------------------
(* OrdersService.create, one action per await.                              *)

Goto(r, state) ==
  /\ request' = [request EXCEPT ![r] = state]
  /\ UNCHANGED <<area, category, item, rule, edit, edits, order>>

\* An inactive service is not to be had.
CreateStart(r, i, slot) ==
  /\ request[r] = NoRequest
  /\ item[i].active
  /\ Goto(r, [pc |-> "gate", item |-> i, slot |-> slot, chain |-> <<>>])
  /\ calm' = [calm EXCEPT ![r] = TRUE]

\* The address must be in an area that is open; no area, no order.
Gate(r) ==
  /\ request[r].pc = "gate"
  /\ Goto(r, IF Served(AddressOf[CustomerOf[r]])
             THEN [request[r] EXCEPT !.pc = "category"] ELSE NoRequest)
  /\ UNCHANGED calm

\* resolve(): the category of the service, then parent after parent.
ChainStart(r) ==
  /\ request[r].pc = "category"
  /\ Goto(r, [request[r] EXCEPT !.pc = "chain", !.chain = <<item[request[r].item].category>>])
  /\ UNCHANGED calm

Parent(r) == category[Last(request[r].chain)].parent
ChainEnds(r) == Parent(r) = NoCategory \/ Len(request[r].chain) = MaxDepth

ChainStep(r) ==
  /\ request[r].pc = "chain"
  /\ Goto(r, IF ChainEnds(r) THEN [request[r] EXCEPT !.pc = "rules"]
             ELSE [request[r] EXCEPT !.chain = Append(@, Parent(r))])
  /\ UNCHANGED calm

Resolve(r) ==
  /\ request[r].pc = "rules"
  /\ Goto(r, [pc |-> "equal", item |-> request[r].item, slot |-> request[r].slot,
              snapshot |-> Choose(request[r].item, request[r].chain)])
  /\ UNCHANGED calm

\* Mutant: orders are compared that are no longer recent.
ExistingOld(r) ==
  {x \in Ids :
     /\ order[x] # NoOrder
     /\ order[x].customer = CustomerOf[r]
     /\ order[x].item = request[r].item
     /\ order[x].unpaid
     /\ ~order[x].recent}

\* Orders equal to the one asked for. A slot that is not given equals any.
Existing(r) ==
  {x \in Ids :
     /\ order[x] # NoOrder
     /\ order[x].customer = CustomerOf[r]
     /\ order[x].item = request[r].item
     /\ order[x].unpaid
     /\ order[x].recent
     /\ request[r].slot \in {NoSlot, order[x].slot}}

\* One that is found is the answer.
LookForEqual(r) ==
  /\ request[r].pc = "equal"
  /\ Goto(r, IF Existing(r) # {} THEN NoRequest ELSE [request[r] EXCEPT !.pc = "insert"])
  /\ UNCHANGED calm

Insert(r) ==
  /\ request[r].pc = "insert"
  /\ \E x \in Ids :
       /\ order[x] = NoOrder
       /\ \A y \in Ids : y < x => order[y] # NoOrder
       /\ order' = [order EXCEPT ![x] =
            [customer |-> CustomerOf[r], item |-> request[r].item, slot |-> request[r].slot,
             unpaid |-> TRUE, recent |-> TRUE, snapshot |-> request[r].snapshot]]
  /\ request' = [request EXCEPT ![r] = NoRequest]
  /\ UNCHANGED <<area, category, item, rule, edit, edits, calm>>

\* Payment or cancellation takes an order out of pending_payment; five minutes pass.
Leave(x) ==
  /\ order[x] # NoOrder
  /\ order[x].unpaid
  /\ order' = [order EXCEPT ![x].unpaid = FALSE]
  /\ UNCHANGED <<area, category, item, rule, edit, edits, request, calm>>

Grow(x) ==
  /\ order[x] # NoOrder
  /\ order[x].recent
  /\ order' = [order EXCEPT ![x].recent = FALSE]
  /\ UNCHANGED <<area, category, item, rule, edit, edits, request, calm>>

-----------------------------------------------------------------------------
Init ==
  /\ area = InitialArea
  /\ category = InitialCategory
  /\ item = InitialItem
  /\ rule = InitialRule
  /\ edit = [a \in Admins |-> Idle]
  /\ edits = 0
  /\ order = [x \in Ids |-> NoOrder]
  /\ request = [r \in Requests |-> NoRequest]
  /\ calm = [r \in Requests |-> FALSE]

Create(r) ==
  \/ \E i \in Items, slot \in Slots \cup {NoSlot} : CreateStart(r, i, slot)
  \/ Gate(r)
  \/ ChainStart(r)
  \/ ChainStep(r)
  \/ Resolve(r)
  \/ LookForEqual(r)
  \/ Insert(r)

Next ==
  \/ \E a \in Admins :
       /\ Administer(a)
       /\ UNCHANGED <<order, request>>
       /\ calm' = IF UNCHANGED <<area, category, item, rule>>
                  THEN calm ELSE [r \in Requests |-> FALSE]
  \/ \E r \in Requests : Create(r)
  \/ \E x \in Ids : Leave(x) \/ Grow(x)

Spec == Init /\ [][Next]_vars

-----------------------------------------------------------------------------
(* Properties.                                                              *)

\* What is above a category in the table, and how far: 0 for itself.
Above(table, c, n) ==
  LET up[k \in 0..n] == IF k = 0 THEN c
                        ELSE IF up[k - 1] = NoCategory THEN NoCategory
                        ELSE table[up[k - 1]].parent
  IN  up[n]

\* x lies less than depth steps up from c, and no rule applies to anything before it.
Nearest(c, x, depth) ==
  \E n \in 0..(depth - 1) :
    /\ Above(category, c, n) = x
    /\ \A k \in 0..(n - 1) :
         LET y == Above(category, c, k) IN y \in Categories /\ ~Applies(CategoryKey(y))

\* The rule of the service, else that of the nearest of the first depth categories from
\* its own upwards which has one, else the global one, else the default.
TermsFor(i, terms, depth) ==
  LET mine(x) == Nearest(item[i].category, x, depth) /\ Applies(CategoryKey(x)) IN
  \/ Applies(ItemKey(i)) /\ terms = rule[ItemKey(i)].terms
  \/ /\ ~Applies(ItemKey(i))
     /\ \/ \E x \in Categories : mine(x) /\ terms = rule[CategoryKey(x)].terms
        \/ /\ \A x \in Categories : ~mine(x)
           /\ terms = IF Applies(Global) THEN rule[Global].terms ELSE DefaultTerms

\* When nothing was edited meanwhile, an order gets its terms by the nearest rule among
\* the first MaxDepth categories upwards, and by no rule above them: the walk, one read
\* at a time, and the pick from an unordered list find it in every tree, deeper ones and
\* loops included.
ResolveNearest ==
  \A r \in Requests :
    request[r].pc = "equal" /\ calm[r] => TermsFor(request[r].item, request[r].snapshot, MaxDepth)

\* However deep the tree, an order gets its terms by the nearest rule, as resolve's
\* comment has it: a category without a rule inherits upwards. Once subtrees are moved
\* below each other chains are longer than the walk, and the rules above are passed over.
InheritsUpwards ==
  \A r \in Requests :
    request[r].pc = "equal" /\ calm[r]
    => TermsFor(request[r].item, request[r].snapshot, Cardinality(Categories))

\* However a customer's requests overlap, no more equal unpaid orders of the last five
\* minutes exist than requests of that customer run at once: one request at a time, one
\* order.
DuplicatesBounded ==
  \A x \in Ids :
    order[x] # NoOrder /\ order[x].unpaid /\ order[x].recent =>
      LET equal == {y \in Ids : order[y] # NoOrder /\ [order[y] EXCEPT !.snapshot = order[x].snapshot] = order[x]}
      IN  Cardinality(equal) <= Cardinality({r \in Requests : CustomerOf[r] = order[x].customer})

\* Disabling an area ends service everywhere below it that the tree of open areas
\* reaches, unless a larger area serves it: no row below is missed, as long as none is
\* opened there between the collection of the rows and the write.
BranchCloses ==
  [][\A a \in Admins :
       LET n == edit[a].n IN
       /\ edit[a].op = "switch" /\ ~edit[a].active
       /\ Below(n) \subseteq edit[a].below
       /\ area' # area /\ edit'[a] = Idle
       => \A address \in {AddressOf[CustomerOf[r]] : r \in Requests} :
            /\ IsPrefix(n, address)
            /\ \A k \in 1..Len(address) : SubSeq(address, 1, k) \in OpenRows
            /\ \A k \in 1..(Len(n) - 1) : SubSeq(address, 1, k) \notin OpenRules
            => ~Served(address)']_vars
=============================================================================
