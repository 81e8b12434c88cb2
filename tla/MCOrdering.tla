------------------------------ MODULE MCOrdering ------------------------------
EXTENDS Ordering, TLC

CONSTANTS c1, c2, c3, i1, r1, r2, ann, low, high

\* Province, city and district, open, the city disabled.
MCNodes == {<<1>>, <<1, 1>>, <<1, 1, 1>>}
MCCustomer == [r \in Requests |-> ann]
MCAddress == [c \in {ann} |-> <<1, 1, 1>>]
MCIds == 1..3
MCSymmetry == Permutations({r1, r2})

MCArea == [n \in Nodes |-> [open |-> TRUE, active |-> n # <<1, 1>>]]

\* c1 below c2 below c3, deeper than the walk goes. Rules for c2 and c3.
MCCategory == [c \in Categories |->
  [parent |-> CASE c = c1 -> c2 [] c = c2 -> c3 [] OTHER -> NoCategory,
   level |-> CASE c = c1 -> 3 [] c = c2 -> 2 [] OTHER -> 1, deleted |-> FALSE]]
MCItem == [i \in Items |-> [category |-> c1, active |-> TRUE, deleted |-> FALSE]]
MCRule == [k \in Keys |->
  IF k \in {CategoryKey(c2), CategoryKey(c3)}
  THEN [terms |-> IF k = CategoryKey(c2) THEN high ELSE low, active |-> TRUE, deleted |-> FALSE]
  ELSE NoRule]
===============================================================================
