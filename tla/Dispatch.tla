------------------------------- MODULE Dispatch -------------------------------
(***************************************************************************)
(* Which master hears of an order and which one gets it: regions, rooms of   *)
(* the gateway, candidates of an order. Pure definitions.                    *)
(***************************************************************************)
EXTENDS Naturals, FiniteSets

CONSTANTS
  Orders, Masters,
  Code, NoCode,     \* region codes, and a level that is not given
  AddressOf,        \* [Orders -> Region]: where the order is to be done
  Skilled,          \* pairs <<m, o>>: a skill of m is the order's category or above it
  AppointmentOf     \* [Orders -> appointments, or NoAppointment]

\* A region gives province, city and district; a rule may leave lower levels open.
Region == (Code \cup {NoCode}) \X (Code \cup {NoCode}) \X (Code \cup {NoCode})

\* No appointment, or a day and the interval of the slot on it.
NoAppointment == <<0, 0, 0>>

ASSUME CodeAssumption == NoCode \notin Code
ASSUME AddressAssumption == AddressOf \in [Orders -> Region]
ASSUME SkilledAssumption == Skilled \subseteq Masters \X Orders
ASSUME AppointmentAssumption == AppointmentOf \in [Orders -> Nat \X Nat \X Nat]

-----------------------------------------------------------------------------
(* Regions.                                                                 *)

matchLevel(rule, code) == rule # NoCode => rule = code

\* No rule at all lets everything through; callers that must not, test before.
regionMatches(rules, region) ==
  rules = {} \/ \E r \in rules : \A i \in 1..3 : matchLevel(r[i], region[i])

\* A master covers an order by its home or by its service areas, never by none.
masterCoversOrder(areas, o) ==
  areas # {} /\ regionMatches(areas, AddressOf[o])

-----------------------------------------------------------------------------
(* Rooms of the gateway. A zone is named by its province and the levels      *)
(* below that are given; Pool is the room of all orders.                     *)

Pool == <<NoCode, NoCode, NoCode>>

\* The rooms a service area is worth.
ZonesOf(area) ==
  {<<area[1], NoCode, NoCode>>}
    \cup {<<area[1], c, NoCode>> : c \in {area[2]} \ {NoCode}}
    \cup {<<area[1], area[2], d>> : d \in {area[3]} \ {NoCode}}

\* join-pool: areas without a province are skipped, and the pool joined only when
\* nothing else was.
RoomsOf(areas) ==
  LET named == {a \in areas : a[1] # NoCode}
  IN  IF named = {} THEN {Pool} ELSE UNION {ZonesOf(a) : a \in named}

\* Mutant: an order is announced to its own zone, not to the ones around it.
dispatchZonesOwn(o) == {Pool, AddressOf[o]}

\* The rooms an order is announced in.
dispatchZones(o) ==
  {Pool} \cup (IF AddressOf[o][1] = NoCode THEN {} ELSE ZonesOf(AddressOf[o]))

-----------------------------------------------------------------------------
(* Candidates: active masters who cover the order, ranked by skill, then by  *)
(* free appointment, then by load. Rating and experience order the rest:     *)
(* any of the first may come out on top.                                     *)

slotsOverlap(a, b) == a[2] < b[3] /\ b[2] < a[3]

\* holder: who holds each order that is being served.
Conflict(holder, m, o) ==
  /\ AppointmentOf[o] # NoAppointment
  /\ \E other \in Orders \ {o} :
       /\ holder[other] = m
       /\ AppointmentOf[other] # NoAppointment
       /\ AppointmentOf[other][1] = AppointmentOf[o][1]
       /\ slotsOverlap(AppointmentOf[o], AppointmentOf[other])

Load(holder, m) == Cardinality({o \in Orders : holder[o] = m})

Ahead(holder, a, b, o) ==
  LET skilled(m) == <<m, o>> \in Skilled
      conflict(m) == Conflict(holder, m, o)
  IN  \/ skilled(a) /\ ~skilled(b)
      \/ /\ skilled(a) = skilled(b)
         /\ \/ ~conflict(a) /\ conflict(b)
            \/ conflict(a) = conflict(b) /\ Load(holder, a) < Load(holder, b)

listCandidates(status, areas, o) ==
  {m \in Masters : status[m] = "active" /\ masterCoversOrder(areas[m], o)}

\* The first of the ranked list.
TopCandidates(status, areas, holder, o) ==
  LET cands == listCandidates(status, areas, o)
  IN  {m \in cands : \A other \in cands : ~Ahead(holder, other, m, o)}
=============================================================================
