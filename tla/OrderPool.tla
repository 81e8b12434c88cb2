------------------------------- MODULE OrderPool -------------------------------
(***************************************************************************)
(* The pool of paid orders nobody has taken: the socket and the page of each *)
(* master, the orders announced to it, masters grabbing, an administrator    *)
(* assigning, the overdue scan dispatching, customers taking orders back.    *)
(***************************************************************************)
EXTENDS Dispatch

CONSTANTS
  NoOrder, NoMaster,
  Leaving,          \* the transaction of a customer who takes the order back
  OpenAreas,        \* regions the platform is open in
  AreaChoices,      \* sets of areas a master may ask for
  InitialStatus,    \* status of each master at the start
  InitialAreas,     \* and its areas
  InitialHolder,    \* orders that are being served at the start, and by whom
  Viewers,          \* masters who have the page of the pool at hand
  MaxFailures,      \* bound: sockets dropped and calls that fail
  MaxChanges        \* bound: grabs, changes of masters, pages left

ASSUME NamesAssumption ==
  /\ Leaving \notin Masters /\ NoMaster \notin Masters /\ Leaving # NoMaster
  /\ NoOrder \notin Orders
ASSUME ViewersAssumption == Viewers \subseteq Masters
ASSUME StatusAssumption == InitialStatus \in [Masters -> {"pending", "active", "disabled"}]
ASSUME HolderAssumption == InitialHolder \in [Orders -> Masters \cup {NoMaster}]

\* An area is opened by naming its province at least. Masters start without areas, or
\* with areas that were allowed.
Named(a) == a[1] # NoCode
ASSUME OpenAssumption == OpenAreas \subseteq Region /\ \A a \in OpenAreas : Named(a)
ASSUME AreasAssumption ==
  /\ AreaChoices \subseteq SUBSET Region
  /\ InitialAreas \in [Masters -> SUBSET Region]
  /\ \A m \in Masters : \A a \in InitialAreas[m] : Named(a)

VARIABLES
  order,            \* unpaid, pool, taken, gone: what is committed
  holder,           \* Order.masterId
  tx,               \* who has an uncommitted update of the order, or NoMaster
  late,             \* the order is older than the timeout of the scan
  announce,         \* paid, the broadcast still to be made
  status, areas,    \* Master.status; home and service areas together
  socket, rooms,    \* the socket of the page: off, on, asked (join-pool), joined
  inbox,            \* orders rung on the socket and not yet heard by the page
  open, view,       \* the page is mounted; the orders in its query cache
  fetch, found,     \* a fetch of the pool under way, the orders it has read
  grab,             \* the grab of each master
  scan,             \* the overdue scan
  owed,             \* history: orders the open page was rung for and has not shown
  failures, changes

orderVars == <<order, holder, tx, late, announce>>
masterVars == <<status, areas>>
pageVars == <<socket, rooms, inbox, open, view, fetch, found, owed>>
vars == <<orderVars, masterVars, pageVars, grab, scan, failures, changes>>

NoGrab == [pc |-> "idle", o |-> NoOrder]
NoScan == [pc |-> "idle", todo |-> {}, o |-> NoOrder, m |-> NoMaster]

InPool(o) == order[o] = "pool"
Eligible(m, o) == status[m] = "active" /\ masterCoversOrder(areas[m], o)
Fail == failures < MaxFailures /\ failures' = failures + 1     \* bound

-----------------------------------------------------------------------------
(* Ringing and fetching. Hearing an event or ending a grab invalidates the   *)
(* query: a fetch under way is dropped and a new one begun.                  *)

Listeners(o) == {m \in Masters : socket[m] = "joined" /\ rooms[m] \cap dispatchZones(o) # {}}

Ring(o) == inbox' = [m \in Masters |-> IF m \in Listeners(o) THEN inbox[m] \cup {o} ELSE inbox[m]]

\* Mutant: an event heard during a fetch does not begin a new one.
RefetchOnce(m) ==
  /\ fetch' = [fetch EXCEPT ![m] = IF open[m] /\ @ = "none" THEN "asked" ELSE @]
  /\ found' = [found EXCEPT ![m] = IF fetch[m] = "none" THEN {} ELSE @]

Refetch(m) ==
  /\ fetch' = [fetch EXCEPT ![m] = IF open[m] THEN "asked" ELSE @]
  /\ found' = [found EXCEPT ![m] = IF open[m] THEN {} ELSE @]

Hear(m) ==
  /\ \E o \in inbox[m] : inbox' = [inbox EXCEPT ![m] = @ \ {o}]
  /\ Refetch(m)
  /\ UNCHANGED <<orderVars, masterVars, socket, rooms, open, view, grab, scan, owed,
                 failures, changes>>

\* pool() reads the orders, then the master.
PoolOrders(m) ==
  /\ fetch[m] = "asked"
  /\ fetch' = [fetch EXCEPT ![m] = "read"]
  /\ found' = [found EXCEPT ![m] = {o \in Orders : InPool(o)}]
  /\ UNCHANGED <<orderVars, masterVars, socket, rooms, inbox, open, view, grab, scan,
                 owed, failures, changes>>

PoolAnswer(m) ==
  /\ fetch[m] = "read"
  /\ fetch' = [fetch EXCEPT ![m] = "none"]
  /\ found' = [found EXCEPT ![m] = {}]
  /\ view' = [view EXCEPT ![m] = {o \in found[m] : Eligible(m, o)}]
  /\ owed' = [owed EXCEPT ![m] = @ \ view'[m]]
  /\ UNCHANGED <<orderVars, masterVars, socket, rooms, inbox, open, grab, scan,
                 failures, changes>>

-----------------------------------------------------------------------------
(* The page and its socket.                                                 *)

PageOpen(m) ==
  /\ m \in Viewers
  /\ ~open[m]
  /\ open' = [open EXCEPT ![m] = TRUE]
  /\ fetch' = [fetch EXCEPT ![m] = "asked"]
  /\ found' = [found EXCEPT ![m] = {}]
  /\ UNCHANGED <<orderVars, masterVars, socket, rooms, inbox, view, grab, scan, owed,
                 failures, changes>>

SocketOff(m) ==
  /\ socket' = [socket EXCEPT ![m] = "off"]
  /\ rooms' = [rooms EXCEPT ![m] = {}]
  /\ inbox' = [inbox EXCEPT ![m] = {}]
  /\ owed' = [owed EXCEPT ![m] = {}]

\* The page is left: the socket is closed, the cache stays.
PageClose(m) ==
  /\ open[m]
  /\ changes < MaxChanges                                 \* bound
  /\ changes' = changes + 1
  /\ open' = [open EXCEPT ![m] = FALSE]
  /\ SocketOff(m)
  /\ UNCHANGED <<orderVars, masterVars, view, fetch, found, grab, scan, failures>>

\* The connection breaks; the client connects again by itself.
Drop(m) ==
  /\ socket[m] # "off"
  /\ SocketOff(m)
  /\ Fail
  /\ UNCHANGED <<orderVars, masterVars, open, view, fetch, found, grab, scan, changes>>

Connect(m) ==
  /\ open[m]
  /\ socket[m] = "off"
  /\ socket' = [socket EXCEPT ![m] = "on"]
  /\ UNCHANGED <<orderVars, masterVars, rooms, inbox, open, view, fetch, found, grab,
                 scan, owed, failures, changes>>

\* join-pool: the areas are read, the rooms joined when the answer is there.
JoinRead(m) ==
  /\ socket[m] = "on"
  /\ socket' = [socket EXCEPT ![m] = "asked"]
  /\ rooms' = [rooms EXCEPT ![m] = RoomsOf(areas[m])]
  /\ UNCHANGED <<orderVars, masterVars, inbox, open, view, fetch, found, grab, scan,
                 owed, failures, changes>>

JoinPool(m) ==
  /\ socket[m] = "asked"
  /\ socket' = [socket EXCEPT ![m] = "joined"]
  /\ UNCHANGED <<orderVars, masterVars, rooms, inbox, open, view, fetch, found, grab,
                 scan, owed, failures, changes>>

-----------------------------------------------------------------------------
(* Orders enter the pool and leave it. A transaction that takes an order     *)
(* locks its row and rings before it commits.                                *)

applyPaid(o) ==
  /\ order[o] = "unpaid"
  /\ order' = [order EXCEPT ![o] = "pool"]
  /\ announce' = [announce EXCEPT ![o] = TRUE]
  /\ UNCHANGED <<holder, tx, late, masterVars, pageVars, grab, scan, failures, changes>>

broadcastNewOrder(o) ==
  /\ announce[o]
  /\ announce' = [announce EXCEPT ![o] = FALSE]
  /\ Ring(o)
  /\ owed' = [m \in Masters |-> IF m \in Listeners(o) THEN owed[m] \cup {o} ELSE owed[m]]
  /\ UNCHANGED <<order, holder, tx, late, masterVars, socket, rooms, open, view, fetch,
                 found, grab, scan, failures, changes>>

\* The process ends between the commit and the broadcast.
AnnounceLost(o) ==
  /\ announce[o]
  /\ announce' = [announce EXCEPT ![o] = FALSE]
  /\ Fail
  /\ UNCHANGED <<order, holder, tx, late, masterVars, pageVars, grab, scan, changes>>

BecomeLate(o) ==
  /\ InPool(o)
  /\ ~late[o]
  /\ late' = [late EXCEPT ![o] = TRUE]
  /\ UNCHANGED <<order, holder, tx, announce, masterVars, pageVars, grab, scan, failures,
                 changes>>

\* updateMany where pending_accept and masterId null, once no one holds the row.
Claimable(o) == tx[o] = NoMaster /\ InPool(o)

TakenByOthers(o) == tx[o] = NoMaster /\ ~InPool(o)

Take(o, who) ==
  /\ Claimable(o)
  /\ tx' = [tx EXCEPT ![o] = who]
  /\ Ring(o)
  /\ UNCHANGED <<order, holder, late, announce>>

Commit(o) ==
  /\ order' = [order EXCEPT ![o] = IF tx[o] = Leaving THEN "gone" ELSE "taken"]
  /\ holder' = [holder EXCEPT ![o] = IF tx[o] = Leaving THEN NoMaster ELSE tx[o]]
  /\ tx' = [tx EXCEPT ![o] = NoMaster]
  /\ UNCHANGED <<late, announce>>

Rollback(o) ==
  /\ tx' = [tx EXCEPT ![o] = NoMaster]
  /\ UNCHANGED <<order, holder, late, announce>>

\* refund of a customer, moving the order from pending_accept to refunding.
LeavePool(o) ==
  /\ Take(o, Leaving)
  /\ UNCHANGED <<masterVars, socket, rooms, open, view, fetch, found, owed, grab, scan,
                 failures, changes>>

LeaveEnd(o) ==
  /\ tx[o] = Leaving
  /\ \/ Commit(o) /\ UNCHANGED failures
     \/ Rollback(o) /\ Fail
  /\ UNCHANGED <<masterVars, pageVars, grab, scan, changes>>
-----------------------------------------------------------------------------
(* grab, from the page of the master.                                       *)

GrabStart(m) ==
  /\ open[m]
  /\ grab[m] = NoGrab
  /\ changes < MaxChanges                                 \* bound
  /\ changes' = changes + 1
  /\ \E o \in view[m] : grab' = [grab EXCEPT ![m] = [pc |-> "check", o |-> o]]
  /\ UNCHANGED <<orderVars, masterVars, pageVars, scan, failures>>

\* The page hears of the end, well or not, and looks again.
GrabDone(m) == grab' = [grab EXCEPT ![m] = NoGrab] /\ Refetch(m)

GrabCheck(m) ==
  /\ grab[m].pc = "check"
  /\ IF Eligible(m, grab[m].o)
     THEN grab' = [grab EXCEPT ![m].pc = "claim"] /\ UNCHANGED <<fetch, found>>
     ELSE GrabDone(m)
  /\ UNCHANGED <<orderVars, masterVars, socket, rooms, inbox, open, view, scan, owed,
                 failures, changes>>

GrabClaim(m) ==
  /\ grab[m].pc = "claim"
  /\ \/ /\ Take(grab[m].o, m)
        /\ grab' = [grab EXCEPT ![m].pc = "commit"]
        /\ UNCHANGED <<fetch, found>>
     \/ /\ TakenByOthers(grab[m].o)
        /\ GrabDone(m)
        /\ UNCHANGED <<orderVars, inbox>>
  /\ UNCHANGED <<masterVars, socket, rooms, open, view, scan, owed, failures, changes>>

GrabEnd(m) ==
  /\ grab[m].pc = "commit"
  /\ \/ Commit(grab[m].o) /\ UNCHANGED failures
     \/ Rollback(grab[m].o) /\ Fail
  /\ GrabDone(m)
  /\ UNCHANGED <<masterVars, socket, rooms, inbox, open, view, scan, owed, changes>>

-----------------------------------------------------------------------------
(* assign by an administrator, who sees all masters: their status and areas  *)
(* are not looked at.                                                       *)

assign(o, m) ==
  /\ Take(o, m)
  /\ UNCHANGED <<masterVars, socket, rooms, open, view, fetch, found, owed, grab, scan,
                 failures, changes>>

AssignEnd(o) ==
  /\ tx[o] \in Masters
  /\ ~\E m \in Masters : grab[m] = [pc |-> "commit", o |-> o]
  /\ ~(scan.pc = "commit" /\ scan.o = o)
  /\ \/ Commit(o) /\ UNCHANGED failures
     \/ Rollback(o) /\ Fail
  /\ UNCHANGED <<masterVars, pageVars, grab, scan, changes>>

-----------------------------------------------------------------------------
(* autoDispatchOverdue. The timer starts a scan whether or not an earlier    *)
(* one has ended; a second scan takes orders the way assign does.           *)

Due == {o \in Orders : late[o] /\ InPool(o) /\ AppointmentOf[o] = NoAppointment}

ScanStart ==
  /\ scan = NoScan
  /\ scan' = [NoScan EXCEPT !.pc = "loop", !.todo = Due]
  /\ UNCHANGED <<orderVars, masterVars, pageVars, grab, failures, changes>>

ScanSkips == scan' = [scan EXCEPT !.pc = "loop", !.o = NoOrder, !.m = NoMaster]

\* Mutant: masters who are busy are left out.
TopFree(o) == {m \in TopCandidates(status, areas, holder, o) : Load(holder, m) = 0}

Top(o) == TopCandidates(status, areas, holder, o)

\* The next of the list, at most one of its candidates.
ScanNext ==
  /\ scan.pc = "loop"
  /\ \E o \in scan.todo :
       \/ /\ InPool(o)
          /\ \E m \in Top(o) :
               scan' = [scan EXCEPT !.pc = "claim", !.todo = @ \ {o}, !.o = o, !.m = m]
       \/ /\ ~InPool(o) \/ Top(o) = {}
          /\ scan' = [scan EXCEPT !.todo = @ \ {o}]
  /\ UNCHANGED <<orderVars, masterVars, pageVars, grab, failures, changes>>

ScanClaim ==
  /\ scan.pc = "claim"
  /\ \/ Take(scan.o, scan.m) /\ scan' = [scan EXCEPT !.pc = "commit"]
     \/ TakenByOthers(scan.o) /\ ScanSkips /\ UNCHANGED <<orderVars, inbox>>
  /\ UNCHANGED <<masterVars, socket, rooms, open, view, fetch, found, owed, grab, failures,
                 changes>>

ScanCommit ==
  /\ scan.pc = "commit"
  /\ \/ Commit(scan.o) /\ UNCHANGED failures
     \/ Rollback(scan.o) /\ Fail
  /\ ScanSkips
  /\ UNCHANGED <<masterVars, pageVars, grab, changes>>

ScanEnd ==
  /\ scan.pc = "loop"
  /\ scan.todo = {}
  /\ scan' = NoScan
  /\ UNCHANGED <<orderVars, masterVars, pageVars, grab, failures, changes>>

-----------------------------------------------------------------------------
(* Masters: what an administrator and the master itself change.             *)

Changed(m) ==
  /\ changes < MaxChanges                                 \* bound
  /\ changes' = changes + 1
  /\ owed' = [owed EXCEPT ![m] = {}]
  /\ UNCHANGED <<orderVars, socket, rooms, inbox, open, view, fetch, found, grab, scan,
                 failures>>

approve(m, to) ==
  /\ status[m] = "pending"
  /\ status' = [status EXCEPT ![m] = to]
  /\ UNCHANGED areas
  /\ Changed(m)

setStatus(m, to) ==
  /\ status[m] \in {"active", "disabled"} \ {to}
  /\ status' = [status EXCEPT ![m] = to]
  /\ UNCHANGED areas
  /\ Changed(m)

\* Every area lies in a region the platform is open in.
Allowed(chosen) == OpenAreas # {} /\ \A a \in chosen : regionMatches(OpenAreas, a)

updateMe(m, chosen) ==
  /\ chosen # areas[m]
  /\ Allowed(chosen)
  /\ areas' = [areas EXCEPT ![m] = chosen]
  /\ UNCHANGED status
  /\ Changed(m)

-----------------------------------------------------------------------------
Init ==
  /\ order = [o \in Orders |-> IF InitialHolder[o] = NoMaster THEN "unpaid" ELSE "taken"]
  /\ holder = InitialHolder
  /\ tx = [o \in Orders |-> NoMaster]
  /\ late = [o \in Orders |-> FALSE]
  /\ announce = [o \in Orders |-> FALSE]
  /\ status = InitialStatus
  /\ areas = InitialAreas
  /\ socket = [m \in Masters |-> "off"]
  /\ rooms = [m \in Masters |-> {}]
  /\ inbox = [m \in Masters |-> {}]
  /\ open = [m \in Masters |-> FALSE]
  /\ view = [m \in Masters |-> {}]
  /\ fetch = [m \in Masters |-> "none"]
  /\ found = [m \in Masters |-> {}]
  /\ grab = [m \in Masters |-> NoGrab]
  /\ scan = NoScan
  /\ owed = [m \in Masters |-> {}]
  /\ failures = 0
  /\ changes = 0

ScanStep == ScanNext \/ ScanClaim \/ ScanCommit \/ ScanEnd
GrabStep(m) == GrabCheck(m) \/ GrabClaim(m) \/ GrabEnd(m)
Look(m) == Hear(m) \/ PoolOrders(m) \/ PoolAnswer(m)

OrderStep(o) ==
  \/ applyPaid(o)
  \/ broadcastNewOrder(o)
  \/ AnnounceLost(o)
  \/ BecomeLate(o)
  \/ LeavePool(o)
  \/ LeaveEnd(o)
  \/ \E m \in Masters : assign(o, m)
  \/ AssignEnd(o)

MasterStep(m) ==
  \/ PageOpen(m)
  \/ PageClose(m)
  \/ Drop(m)
  \/ Connect(m)
  \/ JoinRead(m)
  \/ JoinPool(m)
  \/ Look(m)
  \/ GrabStart(m)
  \/ GrabStep(m)
  \/ \E to \in {"active", "disabled"} : approve(m, to) \/ setStatus(m, to)
  \/ \E chosen \in AreaChoices : updateMe(m, chosen)

Next ==
  \/ \E o \in Orders : OrderStep(o)
  \/ \E m \in Masters : MasterStep(m)
  \/ ScanStart
  \/ ScanStep

Spec == Init /\ [][Next]_vars

\* Code that runs goes on: a broadcast after its commit, events and answers reach the
\* browser, requests and scans end, the timer fires again. Nobody has to act.
Fairness ==
  /\ WF_vars(ScanStart)
  /\ WF_vars(ScanStep)
  /\ \A o \in Orders :
       WF_vars(broadcastNewOrder(o)) /\ WF_vars(LeaveEnd(o)) /\ WF_vars(AssignEnd(o))
  /\ \A m \in Masters :
       WF_vars(Hear(m)) /\ WF_vars(PoolOrders(m) \/ PoolAnswer(m)) /\ WF_vars(GrabStep(m))

FairSpec == Spec /\ Fairness

-----------------------------------------------------------------------------
(* Properties.                                                              *)

\* The gateway and the pool agree on who an order is for: a master whose rooms were
\* joined with its present areas is rung for every order those areas cover.
ListeningCovers ==
  \A m \in Masters, o \in Orders :
    /\ socket[m] = "joined"
    /\ rooms[m] = RoomsOf(areas[m])
    /\ masterCoversOrder(areas[m], o)
    => m \in Listeners(o)

\* A new order that was rung at an open page comes to be shown there, also when the
\* page was just fetching the pool, unless it is taken, the socket drops or the master
\* changes first.
HeardIsShown ==
  \A m \in Masters, o \in Orders :
    (o \in owed[m] /\ Eligible(m, o)) ~> (o \notin owed[m] \/ ~InPool(o))

\* An order nobody takes in time does not stay in the pool while a master could do
\* it: the scan gives it away, if it has no appointment, however busy the masters are.
LateIsDispatched ==
  \A o \in Orders :
    (late[o] /\ InPool(o) /\ AppointmentOf[o] = NoAppointment)
      ~> (~InPool(o) \/ listCandidates(status, areas, o) = {})

=============================================================================
