------------------------------ MODULE PoolProofs ------------------------------
(***************************************************************************)
(* The pool for every set of orders, masters, regions and areas: who hears   *)
(* of an order, whose page comes to show it, and who gets it.               *)
(***************************************************************************)
EXTENDS OrderPool, FiniteSetTheorems, WellFoundedInduction, TLAPS

-----------------------------------------------------------------------------
(* Rooms.                                                                   *)

\* What updateMe lets through: every area of a master names its province.
AreasNamed ==
  /\ areas \in [Masters -> SUBSET Region]
  /\ \A m \in Masters : \A a \in areas[m] : Named(a)

\* Areas change in updateMe alone.
LEMMA AreasStay ==
  ASSUME [Next]_vars, ~\E m \in Masters, chosen \in AreaChoices : updateMe(m, chosen)
  PROVE  areas' = areas
<1>1. ASSUME NEW o \in Orders, OrderStep(o) PROVE areas' = areas
  BY <1>1 DEF OrderStep, applyPaid, broadcastNewOrder, AnnounceLost, BecomeLate, LeavePool,
     LeaveEnd, assign, AssignEnd, masterVars
<1>2. ASSUME NEW m \in Masters, MasterStep(m) PROVE areas' = areas
  <2>1. CASE PageOpen(m) \/ PageClose(m) \/ Drop(m) \/ Connect(m) \/ JoinRead(m) \/ JoinPool(m)
    BY <2>1 DEF PageOpen, PageClose, Drop, Connect, JoinRead, JoinPool, masterVars
  <2>2. CASE Look(m) \/ GrabStart(m) \/ GrabStep(m)
    BY <2>2 DEF Look, Hear, PoolOrders, PoolAnswer, GrabStart, GrabStep, GrabCheck,
       GrabClaim, GrabEnd, masterVars
  <2>3. CASE \E to \in {"active", "disabled"} : approve(m, to) \/ setStatus(m, to)
    BY <2>3 DEF approve, setStatus
  <2> QED
    BY <1>2, <2>1, <2>2, <2>3 DEF MasterStep
<1>3. CASE ScanStart \/ ScanStep
  BY <1>3 DEF ScanStart, ScanStep, ScanNext, ScanClaim, ScanCommit, ScanEnd, masterVars
<1>4. CASE UNCHANGED vars
  BY <1>4 DEF vars, masterVars
<1> QED
  BY <1>1, <1>2, <1>3, <1>4 DEF Next

LEMMA AllowedIsNamed ==
  ASSUME NEW chosen \in SUBSET Region, Allowed(chosen), NEW a \in chosen
  PROVE  Named(a)
<1>1. PICK r \in OpenAreas : \A i \in 1..3 : matchLevel(r[i], a[i])
  BY DEF Allowed, regionMatches
<1>2. r[1] # NoCode /\ matchLevel(r[1], a[1])
  BY <1>1, OpenAssumption DEF Named
<1> QED
  BY <1>2 DEF matchLevel, Named

LEMMA AreasStep ==
  ASSUME AreasNamed, [Next]_vars
  PROVE  AreasNamed'
<1>1. ASSUME NEW m \in Masters, NEW chosen \in AreaChoices, updateMe(m, chosen)
      PROVE  AreasNamed'
  <2>1. chosen \in SUBSET Region /\ Allowed(chosen) /\ areas' = [areas EXCEPT ![m] = chosen]
    BY <1>1, AreasAssumption DEF updateMe
  <2>2. \A a \in chosen : Named(a)
    BY <2>1, AllowedIsNamed
  <2> QED
    BY <2>1, <2>2 DEF AreasNamed
<1>2. CASE areas' = areas
  BY <1>2 DEF AreasNamed
<1> QED
  BY <1>1, <1>2, AreasStay

\* An area that covers an address and names its province shares the room of the province
\* with it.
LEMMA CoveringShares ==
  ASSUME NEW chosen \in SUBSET Region, \A a \in chosen : Named(a),
         NEW o \in Orders, masterCoversOrder(chosen, o)
  PROVE  RoomsOf(chosen) \cap dispatchZones(o) # {}
<1>1. PICK a \in chosen : \A i \in 1..3 : matchLevel(a[i], AddressOf[o][i])
  BY DEF masterCoversOrder, regionMatches
<1>2. a[1] # NoCode /\ a[1] = AddressOf[o][1]
  <2>1. matchLevel(a[1], AddressOf[o][1])
    BY <1>1
  <2> QED
    BY <2>1 DEF matchLevel, Named
<1> DEFINE province == <<a[1], NoCode, NoCode>>
           named == {b \in chosen : b[1] # NoCode}
<1>3. province \in dispatchZones(o)
  BY <1>2 DEF dispatchZones, ZonesOf
<1>4. province \in RoomsOf(chosen)
  <2>1. a \in named /\ province \in ZonesOf(a)
    BY <1>2 DEF ZonesOf
  <2>2. RoomsOf(chosen) = IF named = {} THEN {Pool} ELSE UNION {ZonesOf(b) : b \in named}
    BY DEF RoomsOf
  <2> HIDE DEF named, province
  <2> QED
    BY <2>1, <2>2
<1> QED
  BY <1>3, <1>4

\* A joined master hears of every order its areas cover, for all regions and addresses:
\* rooms and masterCoversOrder agree since no area a master may choose leaves the
\* province open.
THEOREM JoinedIsRung == Spec => []ListeningCovers
<1>1. Init => AreasNamed
  BY AreasAssumption DEF Init, AreasNamed
<1>2. AreasNamed /\ [Next]_vars => AreasNamed'
  BY AreasStep
<1>3. AreasNamed => ListeningCovers
  <2> SUFFICES ASSUME AreasNamed, NEW m \in Masters, NEW o \in Orders,
                      socket[m] = "joined", rooms[m] = RoomsOf(areas[m]),
                      masterCoversOrder(areas[m], o)
               PROVE  m \in Listeners(o)
    BY DEF ListeningCovers
  <2>1. areas[m] \in SUBSET Region /\ \A a \in areas[m] : Named(a)
    BY DEF AreasNamed
  <2>2. rooms[m] \cap dispatchZones(o) # {}
    BY <2>1, CoveringShares
  <2> QED
    BY <2>2 DEF Listeners
<1> QED
  BY <1>1, <1>2, <1>3, PTL DEF Spec

-----------------------------------------------------------------------------
(* Who gets an order.                                                       *)

TypeOK ==
  /\ order \in [Orders -> {"unpaid", "pool", "taken", "gone"}]
  /\ holder \in [Orders -> Masters \cup {NoMaster}]
  /\ tx \in [Orders -> Masters \cup {NoMaster, Leaving}]
  /\ view \in [Masters -> SUBSET Orders] /\ found \in [Masters -> SUBSET Orders]
  /\ grab \in [Masters -> [pc : {"idle", "check", "claim", "commit"},
                           o : Orders \cup {NoOrder}]]
  /\ \A m \in Masters : grab[m].pc # "idle" => grab[m].o \in Orders
  /\ scan \in [pc : {"idle", "loop", "claim", "commit"}, todo : SUBSET Orders,
               o : Orders \cup {NoOrder}, m : Masters \cup {NoMaster}]
  /\ scan.pc \in {"claim", "commit"} => scan.o \in Orders /\ scan.m \in Masters

\* An order has a master when it is taken, and only then.
HeldWhenTaken ==
  \A o \in Orders : holder[o] \in Masters <=> order[o] = "taken"

\* A transaction is open on an order of the pool alone, and belongs to the grab, or to
\* the scan, that is about to commit it.
Owned ==
  /\ \A o \in Orders : tx[o] # NoMaster => order[o] = "pool"
  /\ \A m \in Masters : grab[m].pc = "commit" => tx[grab[m].o] = m
  /\ scan.pc = "commit" => tx[scan.o] = scan.m
  /\ \A m \in Masters : grab[m].pc = "commit" /\ scan.pc = "commit" => grab[m].o # scan.o

\* An order that was taken, or taken back, stays so, with the master who got it.
HolderKept ==
  [][\A o \in Orders : order[o] \in {"taken", "gone"} =>
       order'[o] = order[o] /\ holder'[o] = holder[o]]_vars

\* The four things a step does to the orders and to the transactions on them.
NoneCommits ==
  /\ \A m \in Masters : grab'[m].pc = "commit" => grab'[m] = grab[m]
  /\ scan'.pc = "commit" => scan' = scan

Rests == UNCHANGED <<order, holder, tx>> /\ NoneCommits

Enters(o) ==
  /\ order[o] = "unpaid" /\ order' = [order EXCEPT ![o] = "pool"]
  /\ UNCHANGED <<holder, tx>> /\ NoneCommits

Opens(o, who) ==
  /\ tx[o] = NoMaster /\ order[o] = "pool" /\ tx' = [tx EXCEPT ![o] = who]
  /\ UNCHANGED <<order, holder>>
  /\ \/ NoneCommits
     \/ /\ who \in Masters /\ grab' = [grab EXCEPT ![who] = [pc |-> "commit", o |-> o]]
        /\ scan' = scan
     \/ scan'.pc = "commit" /\ scan'.o = o /\ scan'.m = who /\ grab' = grab

Closes(o) ==
  /\ tx[o] # NoMaster
  /\ Commit(o) \/ Rollback(o)
  /\ NoneCommits
  /\ \A m \in Masters : grab'[m].pc = "commit" => grab[m].o # o
  /\ scan'.pc = "commit" => scan.o # o

PoolStep ==
  \/ Rests
  \/ \E o \in Orders : Enters(o) \/ Closes(o)
  \/ \E o \in Orders, who \in Masters \cup {Leaving} : Opens(o, who)

LEMMA OrderSteps ==
  ASSUME TypeOK, Owned, NEW o \in Orders, OrderStep(o)
  PROVE  PoolStep
<1>1. CASE applyPaid(o)
  BY <1>1 DEF applyPaid, PoolStep, Enters, NoneCommits
<1>2. CASE broadcastNewOrder(o) \/ AnnounceLost(o) \/ BecomeLate(o)
  BY <1>2 DEF broadcastNewOrder, AnnounceLost, BecomeLate, PoolStep, Rests, NoneCommits
<1>3. CASE LeavePool(o)
  BY <1>3 DEF LeavePool, Take, Claimable, InPool, PoolStep, Opens, NoneCommits
<1>4. CASE \E m \in Masters : assign(o, m)
  BY <1>4 DEF assign, Take, Claimable, InPool, PoolStep, Opens, NoneCommits
<1>5. CASE LeaveEnd(o)
  <2>1. /\ tx[o] = Leaving /\ Leaving # NoMaster /\ Leaving \notin Masters
        /\ Commit(o) \/ Rollback(o)
        /\ UNCHANGED <<grab, scan>>
    BY <1>5, NamesAssumption DEF LeaveEnd
  <2>2. \A m \in Masters : grab[m].pc = "commit" => grab[m].o # o
    BY <2>1 DEF Owned
  <2>3. scan.pc = "commit" => scan.o # o
    BY <2>1 DEF Owned, TypeOK
  <2> QED
    BY <2>1, <2>2, <2>3 DEF PoolStep, Closes, NoneCommits
<1>6. CASE AssignEnd(o)
  <2>1. /\ tx[o] \in Masters
        /\ Commit(o) \/ Rollback(o)
        /\ UNCHANGED <<grab, scan>>
        /\ ~\E m \in Masters : grab[m] = [pc |-> "commit", o |-> o]
        /\ ~(scan.pc = "commit" /\ scan.o = o)
    BY <1>6 DEF AssignEnd
  <2>2. \A m \in Masters : grab[m].pc = "commit" => grab[m].o # o
    BY <2>1 DEF TypeOK
  <2>3. NoMaster \notin Masters
    BY NamesAssumption
  <2> QED
    BY <2>1, <2>2, <2>3 DEF PoolStep, Closes, NoneCommits
<1> QED
  BY <1>1, <1>2, <1>3, <1>4, <1>5, <1>6 DEF OrderStep

\* A grab is the master's own: nobody else's is changed by it.
LEMMA GrabSteps ==
  ASSUME TypeOK, Owned, NEW m \in Masters, GrabStart(m) \/ GrabStep(m)
  PROVE  PoolStep
<1>1. grab[m] \in [pc : {"idle", "check", "claim", "commit"}, o : Orders \cup {NoOrder}]
  BY DEF TypeOK
<1>2. ASSUME NEW g, grab' = [grab EXCEPT ![m] = g], g.pc # "commit", scan' = scan
      PROVE  NoneCommits /\ \A n \in Masters : grab'[n].pc = "commit" => n # m /\ grab[n] = grab'[n]
  BY <1>2 DEF NoneCommits, TypeOK
<1>3. CASE GrabStart(m)
  <2>1. PICK o \in view[m] : grab' = [grab EXCEPT ![m] = [pc |-> "check", o |-> o]]
    BY <1>3 DEF GrabStart
  <2>2. [pc |-> "check", o |-> o].pc # "commit"
    OBVIOUS
  <2>3. NoneCommits
    BY <1>2, <1>3, <2>1, <2>2 DEF GrabStart
  <2> QED
    BY <1>3, <2>3 DEF GrabStart, PoolStep, Rests, orderVars
<1>4. CASE GrabCheck(m)
  <2>1. \/ grab' = [grab EXCEPT ![m].pc = "claim"]
        \/ grab' = [grab EXCEPT ![m] = NoGrab]
    BY <1>4 DEF GrabCheck, GrabDone
  <2>2. \E g : grab' = [grab EXCEPT ![m] = g] /\ g.pc # "commit"
    <3>1. [grab[m] EXCEPT !.pc = "claim"].pc = "claim" /\ NoGrab.pc = "idle"
      BY <1>1 DEF NoGrab
    <3> QED
      BY <2>1, <3>1
  <2> QED
    BY <1>2, <1>4, <2>2 DEF GrabCheck, PoolStep, Rests, orderVars
<1>5. CASE GrabClaim(m)
  <2>1. CASE TakenByOthers(grab[m].o) /\ GrabDone(m) /\ UNCHANGED <<orderVars, inbox>>
    <3>1. NoGrab.pc # "commit"
      BY DEF NoGrab
    <3> QED
      BY <1>2, <1>5, <2>1, <3>1 DEF GrabClaim, GrabDone, PoolStep, Rests, orderVars
  <2>2. CASE Take(grab[m].o, m) /\ grab' = [grab EXCEPT ![m].pc = "commit"]
    <3>1. grab[m].o \in Orders /\ [grab[m] EXCEPT !.pc = "commit"] = [pc |-> "commit", o |-> grab[m].o]
      BY <1>1, <1>5 DEF GrabClaim, TypeOK
    <3>2. /\ grab' = [grab EXCEPT ![m] = [pc |-> "commit", o |-> grab[m].o]]
          /\ scan' = scan
      BY <1>5, <2>2, <3>1 DEF GrabClaim
    <3>3. Opens(grab[m].o, m)
      BY <2>2, <3>2 DEF Opens, Take, Claimable, InPool
    <3> QED
      BY <3>1, <3>3 DEF PoolStep
  <2> QED
    BY <1>5, <2>1, <2>2 DEF GrabClaim
<1>6. CASE GrabEnd(m)
  <2>1. PICK o \in Orders : o = grab[m].o
    BY <1>6 DEF GrabEnd, TypeOK
  <2>2. /\ tx[o] = m /\ NoMaster \notin Masters
        /\ Commit(o) \/ Rollback(o)
        /\ grab' = [grab EXCEPT ![m] = NoGrab] /\ scan' = scan
        /\ grab[m].pc = "commit" /\ NoGrab.pc # "commit"
    BY <1>6, <2>1, NamesAssumption DEF GrabEnd, GrabDone, Owned, NoGrab
  <2>3. ASSUME NEW n \in Masters, grab'[n].pc = "commit" PROVE grab[n].o # o
    <3>1. n # m /\ grab[n] = grab'[n]
      BY <1>2, <2>2, <2>3
    <3> QED
      BY <2>2, <2>3, <3>1 DEF Owned
  <2>4. scan'.pc = "commit" => scan.o # o
    BY <2>1, <2>2 DEF Owned
  <2>5. NoneCommits
    BY <1>2, <2>2
  <2> QED
    BY <2>2, <2>3, <2>4, <2>5 DEF PoolStep, Closes
<1> QED
  BY <1>3, <1>4, <1>5, <1>6 DEF GrabStep

LEMMA ScanSteps ==
  ASSUME TypeOK, Owned, ScanStart \/ ScanStep
  PROVE  PoolStep
<1>1. ASSUME scan'.pc # "commit", grab' = grab PROVE NoneCommits
  BY <1>1 DEF NoneCommits
<1>2. CASE ScanStart
  <2>1. scan'.pc = "loop"
    BY <1>2 DEF ScanStart, NoScan
  <2> QED
    BY <1>1, <1>2, <2>1 DEF ScanStart, PoolStep, Rests, orderVars
<1>3. CASE ScanNext
  <2>1. scan'.pc # "commit"
    BY <1>3 DEF ScanNext, TypeOK
  <2> QED
    BY <1>1, <1>3, <2>1 DEF ScanNext, PoolStep, Rests, orderVars
<1>4. CASE ScanClaim
  <2>1. CASE TakenByOthers(scan.o) /\ ScanSkips /\ UNCHANGED <<orderVars, inbox>>
    <3>1. scan'.pc # "commit"
      BY <2>1 DEF ScanSkips, TypeOK
    <3> QED
      BY <1>1, <1>4, <2>1, <3>1 DEF ScanClaim, PoolStep, Rests, orderVars
  <2>2. CASE Take(scan.o, scan.m) /\ scan' = [scan EXCEPT !.pc = "commit"]
    <3>1. scan.o \in Orders /\ scan.m \in Masters
      BY <1>4 DEF ScanClaim, TypeOK
    <3>2. scan'.pc = "commit" /\ scan'.o = scan.o /\ scan'.m = scan.m /\ grab' = grab
      BY <1>4, <2>2 DEF ScanClaim, TypeOK
    <3>3. Opens(scan.o, scan.m)
      BY <2>2, <3>2 DEF Opens, Take, Claimable, InPool
    <3> QED
      BY <3>1, <3>3 DEF PoolStep
  <2> QED
    BY <1>4, <2>1, <2>2 DEF ScanClaim
<1>5. CASE ScanCommit
  <2>1. PICK o \in Orders : o = scan.o
    BY <1>5 DEF ScanCommit, TypeOK
  <2>2. /\ scan.pc = "commit" /\ scan.m \in Masters /\ tx[o] = scan.m
        /\ NoMaster \notin Masters
        /\ Commit(o) \/ Rollback(o)
        /\ grab' = grab
    BY <1>5, <2>1, NamesAssumption DEF ScanCommit, TypeOK, Owned
  <2>3. scan'.pc # "commit"
    BY <1>5 DEF ScanCommit, ScanSkips, TypeOK
  <2>4. \A m \in Masters : grab'[m].pc = "commit" => grab[m].o # o
    BY <2>1, <2>2 DEF Owned
  <2>5. NoneCommits
    BY <1>1, <2>2, <2>3
  <2> QED
    BY <2>2, <2>3, <2>4, <2>5 DEF PoolStep, Closes
<1>6. CASE ScanEnd
  <2>1. scan'.pc # "commit"
    BY <1>6 DEF ScanEnd, NoScan
  <2> QED
    BY <1>1, <1>6, <2>1 DEF ScanEnd, PoolStep, Rests, orderVars
<1> QED
  BY <1>2, <1>3, <1>4, <1>5, <1>6 DEF ScanStep

LEMMA NextSteps ==
  ASSUME TypeOK, Owned, [Next]_vars
  PROVE  PoolStep
<1>1. ASSUME NEW m \in Masters, MasterStep(m) PROVE PoolStep
  <2>1. CASE PageOpen(m) \/ PageClose(m) \/ Drop(m) \/ Connect(m) \/ JoinRead(m) \/ JoinPool(m)
    BY <2>1 DEF PageOpen, PageClose, Drop, Connect, JoinRead, JoinPool, PoolStep, Rests,
       NoneCommits, orderVars
  <2>2. CASE Look(m)
    BY <2>2 DEF Look, Hear, PoolOrders, PoolAnswer, PoolStep, Rests, NoneCommits, orderVars
  <2>3. CASE GrabStart(m) \/ GrabStep(m)
    BY <2>3, GrabSteps
  <2>4. CASE \/ \E to \in {"active", "disabled"} : approve(m, to) \/ setStatus(m, to)
             \/ \E chosen \in AreaChoices : updateMe(m, chosen)
    BY <2>4 DEF approve, setStatus, updateMe, Changed, PoolStep, Rests, NoneCommits, orderVars
  <2> QED
    BY <1>1, <2>1, <2>2, <2>3, <2>4 DEF MasterStep
<1>2. CASE UNCHANGED vars
  BY <1>2 DEF vars, orderVars, PoolStep, Rests, NoneCommits
<1> QED
  BY <1>1, <1>2, OrderSteps, ScanSteps DEF Next

\* What the four shapes keep.
LEMMA OwnedStep ==
  ASSUME TypeOK, Owned, HeldWhenTaken, PoolStep
  PROVE  /\ Owned' /\ HeldWhenTaken'
         /\ \A o \in Orders : order[o] \in {"taken", "gone"} =>
              order'[o] = order[o] /\ holder'[o] = holder[o]
<1>1. NoMaster \notin Masters /\ Leaving \notin Masters /\ Leaving # NoMaster
  BY NamesAssumption
<1> DEFINE Goal == /\ Owned' /\ HeldWhenTaken'
                   /\ \A o \in Orders : order[o] \in {"taken", "gone"} =>
                        order'[o] = order[o] /\ holder'[o] = holder[o]
<1>2. CASE Rests
  BY <1>2 DEF Rests, NoneCommits, Owned, HeldWhenTaken
<1>3. ASSUME NEW o \in Orders, Enters(o) PROVE Goal
  <2>1. /\ order' = [order EXCEPT ![o] = "pool"] /\ order[o] = "unpaid"
        /\ UNCHANGED <<holder, tx>> /\ NoneCommits
    BY <1>3 DEF Enters
  <2>2. Owned'
    BY <2>1 DEF NoneCommits, Owned, TypeOK
  <2>3. HeldWhenTaken'
    BY <2>1 DEF HeldWhenTaken, TypeOK
  <2> QED
    BY <2>1, <2>2, <2>3 DEF TypeOK
<1>4. ASSUME NEW o \in Orders, NEW who \in Masters \cup {Leaving}, Opens(o, who) PROVE Goal
  <2>1. /\ tx[o] = NoMaster /\ order[o] = "pool" /\ tx' = [tx EXCEPT ![o] = who]
        /\ UNCHANGED <<order, holder>>
        /\ tx'[o] = who /\ \A x \in Orders : x # o => tx'[x] = tx[x]
    BY <1>4 DEF Opens, TypeOK
  <2>2. /\ \A m \in Masters : grab[m].pc = "commit" => grab[m].o # o /\ grab[m].o \in Orders
        /\ scan.pc = "commit" => scan.o # o /\ scan.o \in Orders
    BY <1>1, <2>1 DEF Owned, TypeOK
  <2>3. \A x \in Orders : tx'[x] # NoMaster => order'[x] = "pool"
    BY <2>1 DEF Owned
  <2>4. CASE NoneCommits
    BY <2>1, <2>2, <2>3, <2>4 DEF NoneCommits, Owned, HeldWhenTaken
  <2>5. CASE /\ who \in Masters /\ grab' = [grab EXCEPT ![who] = [pc |-> "commit", o |-> o]]
             /\ scan' = scan
    <3>1. grab'[who].o = o /\ \A m \in Masters : m # who => grab'[m] = grab[m]
      BY <2>5 DEF TypeOK
    <3>2. \A m \in Masters : grab'[m].pc = "commit" => tx'[grab'[m].o] = m
      BY <2>1, <2>2, <3>1 DEF Owned
    <3>3. scan'.pc = "commit" => tx'[scan'.o] = scan'.m
      BY <2>1, <2>2, <2>5 DEF Owned
    <3>4. \A m \in Masters : grab'[m].pc = "commit" /\ scan'.pc = "commit" => grab'[m].o # scan'.o
      BY <2>2, <2>5, <3>1 DEF Owned
    <3> QED
      BY <2>1, <2>3, <3>2, <3>3, <3>4 DEF Owned, HeldWhenTaken
  <2>6. CASE scan'.pc = "commit" /\ scan'.o = o /\ scan'.m = who /\ grab' = grab
    <3>1. \A m \in Masters : grab'[m].pc = "commit" => tx'[grab'[m].o] = m
      BY <2>1, <2>2, <2>6 DEF Owned
    <3> QED
      BY <2>1, <2>2, <2>3, <2>6, <3>1 DEF Owned, HeldWhenTaken
  <2> QED
    BY <1>4, <2>4, <2>5, <2>6 DEF Opens
<1>5. ASSUME NEW o \in Orders, Closes(o) PROVE Goal
  <2>1. /\ order[o] = "pool" /\ tx[o] \in Masters \cup {Leaving}
        /\ tx' = [tx EXCEPT ![o] = NoMaster]
    BY <1>5 DEF Closes, Commit, Rollback, Owned, TypeOK
  <2>2. \/ UNCHANGED <<order, holder>>
        \/ /\ order' = [order EXCEPT ![o] = IF tx[o] = Leaving THEN "gone" ELSE "taken"]
           /\ holder' = [holder EXCEPT ![o] = IF tx[o] = Leaving THEN NoMaster ELSE tx[o]]
    BY <1>5 DEF Closes, Commit, Rollback
  <2>3. /\ tx'[o] = NoMaster
        /\ \A x \in Orders : x # o => /\ tx'[x] = tx[x] /\ order'[x] = order[x]
                                       /\ holder'[x] = holder[x]
    BY <2>1, <2>2 DEF TypeOK
  <2>4. HeldWhenTaken'
    <3>1. holder'[o] \in Masters <=> order'[o] = "taken"
      BY <1>1, <2>1, <2>2 DEF TypeOK, HeldWhenTaken
    <3> QED
      BY <2>3, <3>1 DEF HeldWhenTaken
  <2>5. Owned'
    <3>1. /\ NoneCommits
          /\ \A m \in Masters : grab'[m].pc = "commit" => grab[m].o # o /\ grab[m].o \in Orders
          /\ scan'.pc = "commit" => scan.o # o /\ scan.o \in Orders
      BY <1>5 DEF Closes, NoneCommits, TypeOK
    <3>2. \A x \in Orders : tx'[x] # NoMaster => order'[x] = "pool"
      BY <2>3 DEF Owned
    <3>3. \A m \in Masters : grab'[m].pc = "commit" => tx'[grab'[m].o] = m
      BY <2>3, <3>1 DEF Owned, NoneCommits
    <3>4. scan'.pc = "commit" => tx'[scan'.o] = scan'.m
      BY <2>3, <3>1 DEF Owned, NoneCommits
    <3>5. \A m \in Masters : grab'[m].pc = "commit" /\ scan'.pc = "commit" => grab'[m].o # scan'.o
      BY <3>1 DEF Owned, NoneCommits
    <3> QED
      BY <3>2, <3>3, <3>4, <3>5 DEF Owned
  <2> QED
    BY <2>1, <2>3, <2>4, <2>5
<1> QED
  BY <1>2, <1>3, <1>4, <1>5 DEF PoolStep, Rests

\* The parts of TypeOK: the rows, what a page has read, the grabs, the scan.
RowsTyped ==
  /\ order \in [Orders -> {"unpaid", "pool", "taken", "gone"}]
  /\ holder \in [Orders -> Masters \cup {NoMaster}]
  /\ tx \in [Orders -> Masters \cup {NoMaster, Leaving}]

PagesTyped == view \in [Masters -> SUBSET Orders] /\ found \in [Masters -> SUBSET Orders]

GrabsTyped ==
  /\ grab \in [Masters -> [pc : {"idle", "check", "claim", "commit"},
                           o : Orders \cup {NoOrder}]]
  /\ \A m \in Masters : grab[m].pc # "idle" => grab[m].o \in Orders

ScanTyped ==
  /\ scan \in [pc : {"idle", "loop", "claim", "commit"}, todo : SUBSET Orders,
               o : Orders \cup {NoOrder}, m : Masters \cup {NoMaster}]
  /\ scan.pc \in {"claim", "commit"} => scan.o \in Orders /\ scan.m \in Masters

LEMMA TypeParts == TypeOK <=> RowsTyped /\ PagesTyped /\ GrabsTyped /\ ScanTyped
BY DEF TypeOK, RowsTyped, PagesTyped, GrabsTyped, ScanTyped

LEMMA RowsStep ==
  ASSUME TypeOK, PoolStep
  PROVE  RowsTyped'
<1>1. CASE Rests
  BY <1>1 DEF Rests, TypeOK, RowsTyped
<1>2. ASSUME NEW o \in Orders, Enters(o) PROVE RowsTyped'
  BY <1>2 DEF Enters, TypeOK, RowsTyped
<1>3. ASSUME NEW o \in Orders, Closes(o) PROVE RowsTyped'
  <2>1. RowsTyped
    BY TypeParts
  <2>2. CASE Commit(o)
    BY <2>1, <2>2 DEF Commit, RowsTyped
  <2>3. CASE Rollback(o)
    BY <2>1, <2>3 DEF Rollback, RowsTyped
  <2> QED
    BY <1>3, <2>2, <2>3 DEF Closes
<1>4. ASSUME NEW o \in Orders, NEW who \in Masters \cup {Leaving}, Opens(o, who)
      PROVE  RowsTyped'
  BY <1>4 DEF Opens, TypeOK, RowsTyped
<1> QED
  BY <1>1, <1>2, <1>3, <1>4 DEF PoolStep

LEMMA GrabWritten ==
  ASSUME GrabsTyped, NEW m \in Masters,
         NEW g \in [pc : {"idle", "check", "claim", "commit"}, o : Orders \cup {NoOrder}],
         g.pc # "idle" => g.o \in Orders, grab' = [grab EXCEPT ![m] = g]
  PROVE  GrabsTyped'
<1>1. \A n \in Masters : grab'[n] = IF n = m THEN g ELSE grab[n]
  BY DEF GrabsTyped
<1> QED
  BY <1>1 DEF GrabsTyped

LEMMA NoGrabType ==
  /\ NoGrab \in [pc : {"idle", "check", "claim", "commit"}, o : Orders \cup {NoOrder}]
  /\ NoGrab.pc = "idle"
BY DEF NoGrab

LEMMA MasterTypes ==
  ASSUME TypeOK, NEW m \in Masters, MasterStep(m)
  PROVE  PagesTyped' /\ GrabsTyped' /\ ScanTyped'
<1>1. PagesTyped /\ GrabsTyped /\ ScanTyped
  BY TypeParts
<1>2. CASE PageOpen(m) \/ PageClose(m) \/ Drop(m) \/ Connect(m) \/ JoinRead(m) \/ JoinPool(m)
  <2>1. UNCHANGED <<view, grab, scan>> /\ (UNCHANGED found \/ found' = [found EXCEPT ![m] = {}])
    BY <1>2 DEF PageOpen, PageClose, Drop, Connect, JoinRead, JoinPool
  <2> QED
    BY <1>1, <2>1 DEF PagesTyped, GrabsTyped, ScanTyped
<1>3. CASE Look(m)
  <2>1. UNCHANGED <<grab, scan>>
    BY <1>3 DEF Look, Hear, PoolOrders, PoolAnswer
  <2>2. PagesTyped'
    BY <1>1, <1>3 DEF Look, Hear, Refetch, PoolOrders, PoolAnswer, PagesTyped
  <2> QED
    BY <1>1, <2>1, <2>2 DEF GrabsTyped, ScanTyped
<1>4. CASE GrabStart(m)
  <2>1. PICK o \in view[m] : grab' = [grab EXCEPT ![m] = [pc |-> "check", o |-> o]]
    BY <1>4 DEF GrabStart
  <2>2. o \in Orders
    BY <1>1 DEF PagesTyped
  <2>3. GrabsTyped'
    BY <1>1, <2>1, <2>2, GrabWritten
  <2> QED
    BY <1>1, <1>4, <2>3 DEF GrabStart, pageVars, PagesTyped, ScanTyped
<1>5. CASE GrabStep(m)
  <2>1. PagesTyped' /\ ScanTyped'
    <3>1. UNCHANGED <<view, scan>> /\ (UNCHANGED found \/ Refetch(m))
      BY <1>5 DEF GrabStep, GrabCheck, GrabClaim, GrabEnd, GrabDone
    <3> QED
      BY <1>1, <3>1 DEF Refetch, PagesTyped, ScanTyped
  <2>2. grab[m].o \in Orders
    BY <1>1, <1>5 DEF GrabStep, GrabCheck, GrabClaim, GrabEnd, GrabsTyped
  <2>3. \/ grab' = [grab EXCEPT ![m] = NoGrab]
        \/ grab' = [grab EXCEPT ![m].pc = "claim"]
        \/ grab' = [grab EXCEPT ![m].pc = "commit"]
    BY <1>5 DEF GrabStep, GrabCheck, GrabClaim, GrabEnd, GrabDone
  <2>4. /\ [grab[m] EXCEPT !.pc = "claim"] = [pc |-> "claim", o |-> grab[m].o]
        /\ [grab[m] EXCEPT !.pc = "commit"] = [pc |-> "commit", o |-> grab[m].o]
    BY <1>1 DEF GrabsTyped
  <2>5. PICK g \in [pc : {"idle", "check", "claim", "commit"}, o : Orders \cup {NoOrder}] :
          grab' = [grab EXCEPT ![m] = g] /\ (g.pc # "idle" => g.o \in Orders)
    BY <2>2, <2>3, <2>4, NoGrabType
  <2>6. GrabsTyped'
    BY <1>1, <2>5, GrabWritten
  <2> QED
    BY <2>1, <2>6
<1>6. CASE \/ \E to \in {"active", "disabled"} : approve(m, to) \/ setStatus(m, to)
           \/ \E chosen \in AreaChoices : updateMe(m, chosen)
  BY <1>1, <1>6 DEF approve, setStatus, updateMe, Changed, PagesTyped, GrabsTyped, ScanTyped
<1> QED
  BY <1>2, <1>3, <1>4, <1>5, <1>6 DEF MasterStep

LEMMA ScanTypes ==
  ASSUME TypeOK, ScanStart \/ ScanStep
  PROVE  PagesTyped' /\ GrabsTyped' /\ ScanTyped'
<1>1. PagesTyped /\ GrabsTyped /\ ScanTyped
  BY TypeParts
<1>2. UNCHANGED <<view, found, grab>>
  BY DEF ScanStart, ScanStep, ScanNext, ScanClaim, ScanCommit, ScanEnd, pageVars
<1>3. ASSUME ScanStart \/ ScanEnd PROVE ScanTyped'
  <2>1. \/ scan' = [pc |-> "loop", todo |-> Due, o |-> NoOrder, m |-> NoMaster]
        \/ scan' = [pc |-> "idle", todo |-> {}, o |-> NoOrder, m |-> NoMaster]
    BY <1>3 DEF ScanStart, ScanEnd, NoScan
  <2>2. Due \subseteq Orders
    BY DEF Due
  <2> QED
    BY <2>1, <2>2 DEF ScanTyped
<1>4. ASSUME ScanNext PROVE ScanTyped'
  <2>1. PICK o \in scan.todo :
          \/ \E m \in Top(o) :
               scan' = [scan EXCEPT !.pc = "claim", !.todo = @ \ {o}, !.o = o, !.m = m]
          \/ scan' = [scan EXCEPT !.todo = @ \ {o}]
    BY <1>4 DEF ScanNext
  <2>2. o \in Orders /\ Top(o) \subseteq Masters
    BY <1>1 DEF ScanTyped, Top, TopCandidates, listCandidates
  <2>3. scan.pc = "loop"
    BY <1>4 DEF ScanNext
  <2>4. CASE scan' = [scan EXCEPT !.todo = @ \ {o}]
    BY <1>1, <2>3, <2>4 DEF ScanTyped
  <2>5. ASSUME NEW m \in Top(o),
               scan' = [scan EXCEPT !.pc = "claim", !.todo = @ \ {o}, !.o = o, !.m = m]
        PROVE  ScanTyped'
    <3>1. m \in Masters
      BY <2>2
    <3> QED
      BY <1>1, <2>2, <2>5, <3>1 DEF ScanTyped
  <2> QED
    BY <2>1, <2>4, <2>5
<1>5. ASSUME ScanClaim \/ ScanCommit PROVE ScanTyped'
  <2>1. \/ scan' = [scan EXCEPT !.pc = "commit"]
        \/ scan' = [scan EXCEPT !.pc = "loop", !.o = NoOrder, !.m = NoMaster]
    BY <1>5 DEF ScanClaim, ScanCommit, ScanSkips
  <2>2. scan.pc \in {"claim", "commit"}
    BY <1>5 DEF ScanClaim, ScanCommit
  <2> QED
    BY <1>1, <2>1, <2>2 DEF ScanTyped
<1>6. PagesTyped' /\ GrabsTyped'
  BY <1>1, <1>2 DEF PagesTyped, GrabsTyped
<1> QED
  BY <1>3, <1>4, <1>5, <1>6 DEF ScanStep

LEMMA TypeStep ==
  ASSUME TypeOK, Owned, [Next]_vars
  PROVE  TypeOK'
<1>1. RowsTyped'
  BY NextSteps, RowsStep
<1>2. PagesTyped /\ GrabsTyped /\ ScanTyped
  BY TypeParts
<1>3. ASSUME NEW o \in Orders, OrderStep(o) PROVE PagesTyped' /\ GrabsTyped' /\ ScanTyped'
  <2>1. UNCHANGED <<view, found, grab, scan>>
    BY <1>3 DEF OrderStep, applyPaid, broadcastNewOrder, AnnounceLost, BecomeLate, LeavePool,
       LeaveEnd, assign, AssignEnd, pageVars
  <2> QED
    BY <1>2, <2>1 DEF PagesTyped, GrabsTyped, ScanTyped
<1>4. ASSUME UNCHANGED vars PROVE PagesTyped' /\ GrabsTyped' /\ ScanTyped'
  BY <1>2, <1>4 DEF vars, pageVars, PagesTyped, GrabsTyped, ScanTyped
<1>5. PagesTyped' /\ GrabsTyped' /\ ScanTyped'
  BY <1>3, <1>4, MasterTypes, ScanTypes DEF Next
<1>6. TypeOK' <=> RowsTyped' /\ PagesTyped' /\ GrabsTyped' /\ ScanTyped'
  BY DEF TypeOK, RowsTyped, PagesTyped, GrabsTyped, ScanTyped
<1> QED
  BY <1>1, <1>5, <1>6

LEMMA PoolInit ==
  ASSUME Init
  PROVE  TypeOK /\ Owned /\ HeldWhenTaken
<1>1. TypeOK
  BY HolderAssumption DEF Init, TypeOK, NoGrab, NoScan
<1>2. Owned
  BY DEF Init, Owned, NoGrab, NoScan
<1>3. HeldWhenTaken
  BY HolderAssumption, NamesAssumption DEF Init, HeldWhenTaken
<1> QED
  BY <1>1, <1>2, <1>3

\* Every transaction on an order of the pool has one owner, and an order has a master
\* when it is taken, whoever grabs, assigns, dispatches or takes back at once.
THEOREM PoolHolds == Spec => [](TypeOK /\ Owned /\ HeldWhenTaken)
<1>1. Init => TypeOK /\ Owned /\ HeldWhenTaken
  BY PoolInit
<1>2. TypeOK /\ Owned /\ HeldWhenTaken /\ [Next]_vars => (TypeOK /\ Owned /\ HeldWhenTaken)'
  BY TypeStep, NextSteps, OwnedStep
<1> QED
  BY <1>1, <1>2, PTL DEF Spec

\* However many masters grab an order while it is assigned, dispatched or taken back,
\* one of them gets it, and no later commit takes it away.
THEOREM HolderIsKept == Spec => HolderKept
<1>1. TypeOK /\ Owned /\ HeldWhenTaken /\ [Next]_vars =>
        [\A o \in Orders : order[o] \in {"taken", "gone"} =>
           order'[o] = order[o] /\ holder'[o] = holder[o]]_vars
  BY NextSteps, OwnedStep
<1> QED
  BY <1>1, PoolHolds, PTL DEF Spec, HolderKept
-----------------------------------------------------------------------------
(* What a page was rung for is on its way to it.                            *)

PageTypes ==
  /\ announce \in [Orders -> BOOLEAN]
  /\ status \in [Masters -> {"pending", "active", "disabled"}]
  /\ socket \in [Masters -> {"off", "on", "asked", "joined"}]
  /\ open \in [Masters -> BOOLEAN]
  /\ inbox \in [Masters -> SUBSET Orders]
  /\ owed \in [Masters -> SUBSET Orders]
  /\ fetch \in [Masters -> {"none", "asked", "read"}]

\* Only an open page has a socket, only a socket is rung, and only for paid orders.
Attended ==
  /\ \A m \in Masters : socket[m] = "off" => owed[m] = {} /\ inbox[m] = {}
  /\ \A m \in Masters : socket[m] # "off" => open[m]
  /\ \A o \in Orders : announce[o] => order[o] # "unpaid"
  /\ \A m \in Masters : \A o \in owed[m] : order[o] # "unpaid"

\* The event is still to be heard, or a fetch that shows the order is under way.
Coming(m, o) ==
  \/ o \in inbox[m]
  \/ fetch[m] = "asked"
  \/ fetch[m] = "read" /\ o \in found[m]

OwedIsComing ==
  \A m \in Masters : \A o \in owed[m] : Eligible(m, o) /\ InPool(o) => Coming(m, o)

\* The five things a step does to a page.
Waits(m) ==
  /\ inbox[m] \subseteq inbox'[m] /\ owed'[m] \ owed[m] \subseteq inbox'[m]
  /\ fetch'[m] = fetch[m] /\ found'[m] = found[m]
  /\ status'[m] = status[m] /\ areas'[m] = areas[m]

Forgets(m) == owed'[m] = {}

Asks(m) == fetch'[m] = "asked"

Reads(m) ==
  fetch'[m] = "read" /\ found'[m] = {o \in Orders : InPool(o)} /\ order' = order

Shows(m) ==
  /\ fetch[m] = "read" /\ inbox'[m] = inbox[m]
  /\ owed'[m] = owed[m] \ {o \in found[m] : Eligible(m, o)}
  /\ status'[m] = status[m] /\ areas'[m] = areas[m]

PageStep ==
  \A m \in Masters : Waits(m) \/ Forgets(m) \/ Asks(m) \/ Reads(m) \/ Shows(m)

\* An order that has been paid does not enter the pool once more.
LEMMA EntersOnce ==
  ASSUME TypeOK, Owned, [Next]_vars, NEW o \in Orders, order[o] # "unpaid"
  PROVE  order'[o] # "unpaid" /\ (order'[o] = "pool" => order[o] = "pool")
<1>1. PoolStep
  BY NextSteps
<1>2. ASSUME NEW p \in Orders, Closes(p)
      PROVE  order'[o] # "unpaid" /\ (order'[o] = "pool" => order[o] = "pool")
  BY <1>2 DEF Closes, Commit, Rollback, Owned, TypeOK
<1>3. ASSUME NEW p \in Orders, Enters(p)
      PROVE  order'[o] # "unpaid" /\ (order'[o] = "pool" => order[o] = "pool")
  BY <1>3 DEF Enters, TypeOK
<1>4. CASE \/ Rests
           \/ \E p \in Orders, who \in Masters \cup {Leaving} : Opens(p, who)
  BY <1>4 DEF Rests, Opens
<1> QED
  BY <1>1, <1>2, <1>3, <1>4 DEF PoolStep

LEMMA ComingStep ==
  ASSUME TypeOK, Owned, PageTypes, PageTypes', Attended, OwedIsComing, PageStep, [Next]_vars
  PROVE  OwedIsComing'
<1> SUFFICES ASSUME NEW m \in Masters, NEW o \in owed'[m], Eligible(m, o)', InPool(o)'
             PROVE  Coming(m, o)'
  BY DEF OwedIsComing
<1>1. CASE Waits(m)
  <2>1. CASE o \in inbox'[m]
    BY <2>1 DEF Coming
  <2>2. CASE o \notin inbox'[m]
    <3>1. o \in owed[m] /\ o \in Orders /\ Eligible(m, o)
      BY <1>1, <2>2 DEF Waits, PageTypes, Eligible
    <3>2. InPool(o)
      BY <3>1, EntersOnce DEF Attended, InPool
    <3> QED
      BY <1>1, <3>1, <3>2 DEF OwedIsComing, Coming, Waits
  <2> QED
    BY <2>1, <2>2
<1>2. CASE Shows(m)
  <2>1. o \in owed[m] /\ o \in Orders /\ Eligible(m, o) /\ o \notin found[m]
    BY <1>2 DEF Shows, PageTypes, Eligible
  <2>2. InPool(o)
    BY <2>1, EntersOnce DEF Attended, InPool
  <2> QED
    BY <1>2, <2>1, <2>2 DEF OwedIsComing, Coming, Shows
<1>3. CASE Reads(m)
  <2>1. o \in Orders
    BY <1>3 DEF PageTypes
  <2> QED
    BY <1>3, <2>1 DEF Reads, Coming, InPool
<1> QED
  BY <1>1, <1>2, <1>3 DEF PageStep, Forgets, Asks, Coming


\* Handlers of orders and the scan ring pages, and do nothing else to them.
Rung ==
  /\ UNCHANGED <<socket, open, fetch, found, status, areas>>
  /\ \/ UNCHANGED <<inbox, owed, announce>>
     \/ \E o \in Orders : Ring(o) /\ UNCHANGED <<owed, announce>>
     \/ \E o \in Orders :
          /\ announce[o] /\ announce' = [announce EXCEPT ![o] = FALSE]
          /\ Ring(o)
          /\ owed' = [m \in Masters |-> IF m \in Listeners(o) THEN owed[m] \cup {o} ELSE owed[m]]
     \/ /\ UNCHANGED <<inbox, owed>>
        /\ \E o \in Orders :
             \/ announce' = [announce EXCEPT ![o] = FALSE]
             \/ announce' = [announce EXCEPT ![o] = TRUE] /\ order'[o] = "pool"

LEMMA RungInbox ==
  ASSUME PageTypes, NEW o \in Orders, Ring(o)
  PROVE  /\ inbox' \in [Masters -> SUBSET Orders]
         /\ \A m \in Masters :
              /\ inbox[m] \subseteq inbox'[m]
              /\ socket[m] = "off" => inbox'[m] = inbox[m]
              /\ m \in Listeners(o) => o \in inbox'[m]
BY DEF Ring, Listeners, PageTypes

LEMMA RungStep ==
  ASSUME TypeOK, Owned, PageTypes, Attended, Rung, [Next]_vars
  PROVE  PageTypes' /\ Attended' /\ PageStep
<1>1. UNCHANGED <<socket, open, fetch, found, status, areas>>
  BY DEF Rung
<1>2. \A o \in Orders : order[o] # "unpaid" => order'[o] # "unpaid"
  BY EntersOnce
<1> DEFINE Goal ==
      /\ inbox' \in [Masters -> SUBSET Orders] /\ owed' \in [Masters -> SUBSET Orders]
      /\ announce' \in [Orders -> BOOLEAN]
      /\ \A o \in Orders : announce'[o] => order'[o] # "unpaid"
      /\ \A m \in Masters :
           /\ inbox[m] \subseteq inbox'[m] /\ owed'[m] \ owed[m] \subseteq inbox'[m]
           /\ socket[m] = "off" => owed'[m] = owed[m] /\ inbox'[m] = inbox[m]
           /\ \A o \in owed'[m] : order'[o] # "unpaid"
<1>3. Goal
  <2>1. CASE UNCHANGED <<inbox, owed, announce>>
    BY <1>2, <2>1 DEF PageTypes, Attended
  <2>2. ASSUME NEW o \in Orders, Ring(o), UNCHANGED <<owed, announce>> PROVE Goal
    BY <1>2, <2>2, RungInbox DEF PageTypes, Attended
  <2>3. ASSUME NEW o \in Orders, announce[o], announce' = [announce EXCEPT ![o] = FALSE],
               Ring(o),
               owed' = [m \in Masters |-> IF m \in Listeners(o) THEN owed[m] \cup {o} ELSE owed[m]]
        PROVE  Goal
    <3>1. owed' \in [Masters -> SUBSET Orders] /\ announce' \in [Orders -> BOOLEAN]
      BY <2>3 DEF PageTypes
    <3>2. \A p \in Orders : announce'[p] => order'[p] # "unpaid"
      BY <1>2, <2>3 DEF PageTypes, Attended
    <3>3. ASSUME NEW m \in Masters
          PROVE  /\ owed'[m] \ owed[m] \subseteq inbox'[m]
                 /\ socket[m] = "off" => owed'[m] = owed[m]
                 /\ \A p \in owed'[m] : order'[p] # "unpaid"
      <4>1. CASE m \in Listeners(o)
        <5>1. owed'[m] = owed[m] \cup {o} /\ o \in inbox'[m] /\ socket[m] = "joined"
          BY <2>3, <4>1, RungInbox DEF Listeners
        <5> QED
          BY <1>2, <2>3, <5>1 DEF Attended, PageTypes
      <4>2. CASE m \notin Listeners(o)
        <5>1. owed'[m] = owed[m]
          BY <2>3, <4>2
        <5> QED
          BY <1>2, <5>1 DEF Attended, PageTypes
      <4> QED
        BY <4>1, <4>2
    <3> QED
      BY <2>3, <3>1, <3>2, <3>3, RungInbox
  <2>4. ASSUME UNCHANGED <<inbox, owed>>, NEW o \in Orders,
               \/ announce' = [announce EXCEPT ![o] = FALSE]
               \/ announce' = [announce EXCEPT ![o] = TRUE] /\ order'[o] = "pool"
        PROVE  Goal
    <3>1. announce' \in [Orders -> BOOLEAN]
      BY <2>4 DEF PageTypes
    <3>2. \A p \in Orders : announce'[p] => order'[p] # "unpaid"
      BY <1>2, <2>4 DEF PageTypes, Attended
    <3> QED
      BY <1>2, <2>4, <3>1, <3>2 DEF PageTypes, Attended
  <2> QED
    BY <2>1, <2>2, <2>3, <2>4 DEF Rung
<1>4. PageTypes'
  BY <1>1, <1>3 DEF PageTypes
<1>5. Attended'
  BY <1>1, <1>3 DEF Attended
<1>6. PageStep
  BY <1>1, <1>3 DEF PageStep, Waits
<1> QED
  BY <1>4, <1>5, <1>6

LEMMA OrdersRing ==
  ASSUME TypeOK, NEW o \in Orders, OrderStep(o)
  PROVE  Rung
<1>1. CASE applyPaid(o)
  <2>1. order'[o] = "pool"
    BY <1>1 DEF applyPaid, TypeOK
  <2> QED
    BY <1>1, <2>1 DEF applyPaid, Rung, pageVars, masterVars
<1>2. CASE broadcastNewOrder(o)
  BY <1>2 DEF broadcastNewOrder, Rung, masterVars
<1>3. CASE AnnounceLost(o)
  BY <1>3 DEF AnnounceLost, Rung, pageVars, masterVars
<1>4. CASE LeavePool(o) \/ \E m \in Masters : assign(o, m)
  BY <1>4 DEF LeavePool, assign, Take, Rung, masterVars
<1>5. CASE BecomeLate(o) \/ LeaveEnd(o) \/ AssignEnd(o)
  BY <1>5 DEF BecomeLate, LeaveEnd, AssignEnd, Commit, Rollback, Rung, pageVars, masterVars
<1> QED
  BY <1>1, <1>2, <1>3, <1>4, <1>5 DEF OrderStep

LEMMA ScanRings ==
  ASSUME TypeOK, ScanStart \/ ScanStep
  PROVE  Rung
<1>1. CASE ScanStart \/ ScanNext \/ ScanEnd
  <2>1. UNCHANGED <<orderVars, masterVars, pageVars>>
    <3>1. CASE ScanStart
      BY <3>1 DEF ScanStart
    <3>2. CASE ScanNext
      BY <3>2 DEF ScanNext, orderVars, masterVars, pageVars
    <3>3. CASE ScanEnd
      BY <3>3 DEF ScanEnd
    <3> QED
      BY <1>1, <3>1, <3>2, <3>3
  <2> QED
    BY <2>1 DEF Rung, orderVars, pageVars, masterVars
<1>2. CASE ScanCommit
  BY <1>2 DEF ScanCommit, Commit, Rollback, Rung, pageVars, masterVars
<1>3. CASE ScanClaim
  <2>1. scan.o \in Orders
    BY <1>3 DEF ScanClaim, TypeOK
  <2> QED
    BY <1>3, <2>1 DEF ScanClaim, Take, Rung, orderVars, masterVars
<1> QED
  BY <1>1, <1>2, <1>3 DEF ScanStep

\* What a master, its page and its socket do concerns this page alone.
OthersKeep(m) ==
  /\ announce' = announce
  /\ \A n \in Masters \ {m} :
       /\ socket'[n] = socket[n] /\ open'[n] = open[n] /\ inbox'[n] = inbox[n]
       /\ owed'[n] = owed[n] /\ fetch'[n] = fetch[n] /\ found'[n] = found[n]
       /\ status'[n] = status[n] /\ areas'[n] = areas[n]

LEMMA OnePage ==
  ASSUME TypeOK, Owned, PageTypes, PageTypes', Attended, [Next]_vars,
         NEW m \in Masters, OthersKeep(m), owed'[m] \subseteq owed[m],
         socket'[m] = "off" => owed'[m] = {} /\ inbox'[m] = {},
         socket'[m] # "off" => open'[m],
         Waits(m) \/ Forgets(m) \/ Asks(m) \/ Reads(m) \/ Shows(m)
  PROVE  Attended' /\ PageStep
<1>1. \A o \in Orders : order[o] # "unpaid" => order'[o] # "unpaid"
  BY EntersOnce
<1>2. Attended'
  <2>1. \A n \in Masters : socket'[n] = "off" => owed'[n] = {} /\ inbox'[n] = {}
    BY DEF OthersKeep, Attended
  <2>2. \A n \in Masters : socket'[n] # "off" => open'[n]
    BY DEF OthersKeep, Attended
  <2>3. \A n \in Masters : owed'[n] \subseteq owed[n] /\ owed[n] \subseteq Orders
    BY DEF OthersKeep, PageTypes
  <2>4. \A n \in Masters : \A o \in owed'[n] : order'[o] # "unpaid"
    BY <1>1, <2>3 DEF Attended
  <2>5. \A o \in Orders : announce'[o] => order'[o] # "unpaid"
    BY <1>1 DEF OthersKeep, Attended
  <2> QED
    BY <2>1, <2>2, <2>4, <2>5 DEF Attended
<1>3. PageStep
  <2> SUFFICES ASSUME NEW n \in Masters, n # m
               PROVE  Waits(n)
    BY DEF PageStep
  <2> QED
    BY DEF OthersKeep, Waits
<1> QED
  BY <1>2, <1>3

\* The page and the socket.
LEMMA SocketSteps ==
  ASSUME TypeOK, Owned, PageTypes, Attended, [Next]_vars, NEW m \in Masters,
         PageOpen(m) \/ PageClose(m) \/ Drop(m) \/ Connect(m) \/ JoinRead(m) \/ JoinPool(m)
  PROVE  PageTypes' /\ Attended' /\ PageStep
<1>1. socket[m] = "off" => owed[m] = {} /\ inbox[m] = {}
  BY DEF Attended
<1>2. socket[m] # "off" => open[m]
  BY DEF Attended
<1>3. CASE PageOpen(m)
  <2>1. /\ UNCHANGED <<announce, socket, inbox, owed, status, areas>>
        /\ open' = [open EXCEPT ![m] = TRUE] /\ fetch' = [fetch EXCEPT ![m] = "asked"]
        /\ found' = [found EXCEPT ![m] = {}]
    BY <1>3 DEF PageOpen, orderVars, masterVars
  <2>2. PageTypes'
    BY <2>1 DEF PageTypes
  <2>3. Asks(m) /\ OthersKeep(m) /\ open'[m]
    BY <2>1 DEF Asks, OthersKeep, PageTypes, TypeOK
  <2> QED
    BY <1>1, <2>1, <2>2, <2>3, OnePage
<1>4. CASE PageClose(m) \/ Drop(m)
  <2>1. /\ UNCHANGED <<announce, fetch, found, status, areas>>
        /\ socket' = [socket EXCEPT ![m] = "off"] /\ inbox' = [inbox EXCEPT ![m] = {}]
        /\ owed' = [owed EXCEPT ![m] = {}]
        /\ open' = open \/ open' = [open EXCEPT ![m] = FALSE]
    BY <1>4 DEF PageClose, Drop, SocketOff, orderVars, masterVars
  <2>2. PageTypes'
    BY <2>1 DEF PageTypes
  <2>3. /\ Forgets(m) /\ OthersKeep(m)
        /\ socket'[m] = "off" /\ inbox'[m] = {} /\ owed'[m] = {}
    BY <2>1 DEF Forgets, OthersKeep, PageTypes
  <2> QED
    BY <2>2, <2>3, OnePage
<1>5. CASE Connect(m) \/ JoinRead(m) \/ JoinPool(m)
  <2>1. /\ UNCHANGED <<announce, open, inbox, owed, fetch, found, status, areas>>
        /\ \E so \in {"on", "asked", "joined"} : socket' = [socket EXCEPT ![m] = so]
        /\ open[m]
    BY <1>2, <1>5 DEF Connect, JoinRead, JoinPool, orderVars, masterVars
  <2>2. PageTypes'
    BY <2>1 DEF PageTypes
  <2>3. Waits(m) /\ OthersKeep(m) /\ socket'[m] # "off"
    BY <2>1 DEF Waits, OthersKeep, PageTypes
  <2> QED
    BY <2>1, <2>2, <2>3, OnePage
<1> QED
  BY <1>3, <1>4, <1>5

\* Hearing of orders and fetching the pool.
LEMMA LookSteps ==
  ASSUME TypeOK, Owned, PageTypes, Attended, [Next]_vars, NEW m \in Masters, Look(m)
  PROVE  PageTypes' /\ Attended' /\ PageStep
<1>1. /\ UNCHANGED <<order, announce, socket, open, status, areas>>
      /\ \A n \in Masters : n # m => found'[n] = found[n]
  BY DEF Look, Hear, Refetch, PoolOrders, PoolAnswer, orderVars, masterVars, TypeOK
<1>2. socket[m] = "off" => owed[m] = {} /\ inbox[m] = {}
  BY DEF Attended
<1>3. socket[m] # "off" => open[m]
  BY DEF Attended
<1>4. CASE Hear(m)
  <2>1. PICK o \in inbox[m] : inbox' = [inbox EXCEPT ![m] = inbox[m] \ {o}]
    BY <1>4 DEF Hear
  <2>2. socket[m] # "off" /\ open[m]
    BY <1>2, <1>3, <2>1
  <2>3. UNCHANGED owed /\ fetch' = [fetch EXCEPT ![m] = "asked"]
    BY <1>4, <2>2 DEF Hear, Refetch
  <2>4. PageTypes'
    BY <1>1, <2>1, <2>3 DEF PageTypes
  <2>5. Asks(m) /\ OthersKeep(m)
    BY <1>1, <2>1, <2>3 DEF Asks, OthersKeep, PageTypes
  <2> QED
    BY <1>1, <2>2, <2>3, <2>4, <2>5, OnePage
<1>5. CASE PoolOrders(m)
  <2>1. UNCHANGED <<inbox, owed>> /\ fetch' = [fetch EXCEPT ![m] = "read"]
    BY <1>5 DEF PoolOrders
  <2>2. PageTypes'
    BY <1>1, <2>1 DEF PageTypes
  <2>3. Reads(m)
    BY <1>1, <1>5 DEF PoolOrders, Reads, PageTypes, TypeOK
  <2>4. OthersKeep(m)
    BY <1>1, <2>1 DEF OthersKeep, PageTypes
  <2> QED
    BY <1>1, <1>2, <1>3, <2>1, <2>2, <2>3, <2>4, OnePage
<1>6. CASE PoolAnswer(m)
  <2>1. /\ UNCHANGED inbox /\ fetch' = [fetch EXCEPT ![m] = "none"] /\ fetch[m] = "read"
        /\ owed' = [owed EXCEPT ![m] = owed[m] \ view'[m]]
        /\ view'[m] = {o \in found[m] : Eligible(m, o)}
    BY <1>6 DEF PoolAnswer, TypeOK
  <2>2. PageTypes'
    BY <1>1, <2>1 DEF PageTypes
  <2>3. Shows(m) /\ OthersKeep(m) /\ owed'[m] \subseteq owed[m]
    BY <1>1, <2>1 DEF Shows, OthersKeep, PageTypes
  <2> QED
    BY <1>1, <1>2, <1>3, <2>1, <2>2, <2>3, OnePage
<1> QED
  BY <1>4, <1>5, <1>6 DEF Look

\* A master that is changed starts afresh: nothing is owed to it.
LEMMA ChangeSteps ==
  ASSUME TypeOK, Owned, PageTypes, Attended, [Next]_vars, NEW m \in Masters,
         areas \in [Masters -> SUBSET Region],
         \/ \E to \in {"active", "disabled"} : approve(m, to) \/ setStatus(m, to)
         \/ \E chosen \in AreaChoices : updateMe(m, chosen)
  PROVE  PageTypes' /\ Attended' /\ PageStep
<1>1. /\ UNCHANGED <<announce, socket, open, inbox, fetch, found>>
      /\ owed' = [owed EXCEPT ![m] = {}]
  BY DEF approve, setStatus, updateMe, Changed, orderVars
<1>2. \/ status' = status
      \/ \E st \in {"active", "disabled"} : status' = [status EXCEPT ![m] = st]
  BY DEF approve, setStatus, updateMe
<1>3. \A n \in Masters : n # m => areas'[n] = areas[n]
  BY DEF approve, setStatus, updateMe
<1>4. PageTypes'
  BY <1>1, <1>2 DEF PageTypes
<1>5. Forgets(m) /\ OthersKeep(m)
  BY <1>1, <1>2, <1>3 DEF Forgets, OthersKeep, PageTypes
<1>6. /\ socket'[m] = "off" => inbox'[m] = {}
      /\ socket'[m] # "off" => open'[m]
  BY <1>1 DEF Attended
<1> QED
  BY <1>4, <1>5, <1>6, OnePage DEF Forgets

\* A grab ends in a new fetch, and rings others when it takes the order.
LEMMA GrabPages ==
  ASSUME TypeOK, Owned, PageTypes, Attended, [Next]_vars, NEW m \in Masters,
         GrabStart(m) \/ GrabStep(m)
  PROVE  PageTypes' /\ Attended' /\ PageStep
<1>1. UNCHANGED <<announce, socket, open, status, areas, owed>>
  BY DEF GrabStart, GrabStep, GrabCheck, GrabClaim, GrabEnd, Take, Commit, Rollback,
     orderVars, pageVars, masterVars
<1>2. CASE UNCHANGED <<fetch, found>> /\ (UNCHANGED inbox \/ \E o \in Orders : Ring(o))
  BY <1>1, <1>2, RungStep DEF Rung
<1>3. CASE UNCHANGED inbox /\ Refetch(m)
  <2>1. CASE open[m]
    <3>1. fetch' = [fetch EXCEPT ![m] = "asked"]
      BY <1>3, <2>1 DEF Refetch
    <3>2. PageTypes'
      BY <1>1, <1>3, <3>1 DEF PageTypes
    <3>3. Asks(m) /\ OthersKeep(m)
      BY <1>1, <1>3, <2>1, <3>1 DEF Refetch, Asks, OthersKeep, PageTypes, TypeOK
    <3>4. socket[m] = "off" => owed[m] = {} /\ inbox[m] = {}
      BY DEF Attended
    <3> QED
      BY <1>1, <1>3, <2>1, <3>2, <3>3, <3>4, OnePage
  <2>2. CASE ~open[m]
    <3>1. fetch' = fetch /\ found' = found
      BY <1>3, <2>2 DEF Refetch, PageTypes, TypeOK
    <3> QED
      BY <1>1, <1>3, <3>1, RungStep DEF Rung
  <2> QED
    BY <2>1, <2>2
<1>4. \/ UNCHANGED <<fetch, found>> /\ (UNCHANGED inbox \/ \E o \in Orders : Ring(o))
      \/ UNCHANGED inbox /\ Refetch(m)
  <2>1. CASE GrabStart(m)
    BY <2>1 DEF GrabStart, pageVars
  <2>2. CASE GrabCheck(m)
    BY <2>2 DEF GrabCheck, GrabDone
  <2>3. CASE GrabClaim(m)
    <3>1. grab[m].o \in Orders
      BY <2>3 DEF GrabClaim, TypeOK
    <3> QED
      BY <2>3, <3>1 DEF GrabClaim, GrabDone, Take
  <2>4. CASE GrabEnd(m)
    BY <2>4 DEF GrabEnd, GrabDone
  <2> QED
    BY <2>1, <2>2, <2>3, <2>4 DEF GrabStep
<1> QED
  BY <1>2, <1>3, <1>4

\* The ring of a new order is never lost on an open page: while the order is in the pool
\* and the master may take it, the event is still to be heard, or a fetch is under way
\* that will show it, although events arrive in the middle of a fetch and a fetch
\* reads the pool and answers later.
THEOREM NothingIsMissed == Spec => []OwedIsComing
<1> DEFINE Inv == PageTypes /\ Attended /\ OwedIsComing
           PoolInv == TypeOK /\ Owned /\ HeldWhenTaken
<1>1. Init => Inv
  BY StatusAssumption DEF Init, PageTypes, Attended, OwedIsComing
<1>2. PoolInv /\ AreasNamed /\ Inv /\ [Next]_vars => Inv'
  <2> SUFFICES ASSUME PoolInv, AreasNamed, Inv, [Next]_vars
               PROVE  Inv'
    OBVIOUS
  <2>1. PageTypes' /\ Attended' /\ PageStep
    <3>1. ASSUME NEW o \in Orders, OrderStep(o) PROVE PageTypes' /\ Attended' /\ PageStep
      BY <3>1, OrdersRing, RungStep
    <3>2. ASSUME NEW m \in Masters, MasterStep(m) PROVE PageTypes' /\ Attended' /\ PageStep
      BY <3>2, SocketSteps, LookSteps, ChangeSteps, GrabPages DEF MasterStep, AreasNamed
    <3>3. CASE ScanStart \/ ScanStep
      BY <3>3, ScanRings, RungStep
    <3>4. CASE UNCHANGED vars
      BY <3>4, RungStep DEF vars, orderVars, pageVars, masterVars, Rung
    <3> QED
      BY <3>1, <3>2, <3>3, <3>4 DEF Next
  <2> QED
    BY <2>1, ComingStep
<1>3. Spec => []AreasNamed
  <2>1. Init => AreasNamed
    BY AreasAssumption DEF Init, AreasNamed
  <2> QED
    BY <2>1, AreasStep, PTL DEF Spec
<1> QED
  BY <1>1, <1>2, <1>3, PoolHolds, PTL DEF Spec

-----------------------------------------------------------------------------
(* Whom the overdue scan gives an order to.                                 *)

LEMMA Minimal ==
  ASSUME NEW R, NEW S, IsWellFoundedOn(R, S), NEW T, T \subseteq S, T # {}
  PROVE  \E x \in T : \A y \in T : ~(<<y, x>> \in R)
BY WFMin, SMT

LEMMA LeastExists ==
  ASSUME NEW T, T \subseteq Nat, T # {}
  PROVE  \E x \in T : \A y \in T : x <= y
<1> DEFINE R == OpToRel(<, Nat)
<1>1. IsWellFoundedOn(R, Nat)
  BY NatLessThanWellFounded
<1>2. \A i, j \in Nat : i < j => <<i, j>> \in R
  BY DEF OpToRel
<1> HIDE DEF R
<1>3. PICK x \in T : \A y \in T : ~(<<y, x>> \in R)
  BY <1>1, Minimal, Zenon
<1>4. x \in Nat /\ \A y \in T : y \in Nat /\ ~(y < x)
  BY <1>2, <1>3, Zenon
<1>5. \A y \in T : x <= y
  BY <1>4
<1> QED
  BY <1>5

LEMMA LoadType ==
  ASSUME IsFiniteSet(Orders), NEW m
  PROVE  Load(holder, m) \in Nat
<1> DEFINE held == {p \in Orders : holder[p] = m}
<1>1. IsFiniteSet(held)
  BY FS_Subset
<1> QED
  BY <1>1, FS_CardinalityType DEF Load

\* Ranking by skill, free appointment and load always has a first, ties or not.
LEMMA TopExists ==
  ASSUME IsFiniteSet(Orders), NEW o \in Orders, listCandidates(status, areas, o) # {}
  PROVE  Top(o) # {}
<1> DEFINE cands == listCandidates(status, areas, o)
           skilled(m) == <<m, o>> \in Skilled
           conflict(m) == Conflict(holder, m, o)
           load(m) == Load(holder, m)
           able == {m \in cands : skilled(m)}
           first == IF able = {} THEN cands ELSE able
           free == {m \in first : ~conflict(m)}
           second == IF free = {} THEN first ELSE free
           loads == {load(m) : m \in second}
<1>1. second # {} /\ second \subseteq first /\ first \subseteq cands
  OBVIOUS
<1>2. \A m : load(m) \in Nat
  BY LoadType
<1>3. PICK best \in second : \A m \in second : load(best) <= load(m)
  <2>1. loads \subseteq Nat /\ loads # {}
    <3> HIDE DEF second, load
    <3> QED
      BY <1>1, <1>2
  <2>2. PICK n \in loads : \A x \in loads : n <= x
    <3> HIDE DEF loads
    <3> QED
      BY <2>1, LeastExists
  <2> HIDE DEF second, load
  <2> QED
    BY <2>2
<1>4. ASSUME NEW m \in cands, Ahead(holder, m, best, o) PROVE FALSE
  <2>1. \/ skilled(m) /\ ~skilled(best)
        \/ /\ skilled(m) = skilled(best)
           /\ \/ ~conflict(m) /\ conflict(best)
              \/ conflict(m) = conflict(best) /\ load(m) < load(best)
    BY <1>4 DEF Ahead
  <2>2. skilled(m) => skilled(best)
    BY <1>1
  <2>3. skilled(m) = skilled(best) => m \in first
    BY <1>1
  <2>4. m \in first /\ ~conflict(m) => ~conflict(best)
    <3> HIDE DEF first, conflict
    <3> QED
      OBVIOUS
  <2>5. m \in first /\ conflict(m) = conflict(best) => m \in second
    <3> HIDE DEF first, conflict
    <3> QED
      BY <1>1
  <2>6. m \in second => ~(load(m) < load(best))
    <3> HIDE DEF second, load
    <3> QED
      BY <1>2, <1>3
  <2> HIDE DEF first, second, load, conflict, skilled
  <2> QED
    BY <2>1, <2>2, <2>3, <2>4, <2>5, <2>6
<1> HIDE DEF first, second
<1> QED
  BY <1>1, <1>4 DEF Top, TopCandidates

\* The scan leaves no order of its list in the pool for which there is a master: it
\* takes one of the best for it.
NoneSkipped ==
  [][\A o \in scan.todo \ scan'.todo :
       InPool(o) /\ listCandidates(status, areas, o) # {} =>
         scan'.pc = "claim" /\ scan'.o = o /\ scan'.m \in Top(o)]_vars

\* An overdue order a master could do is given to one of the best as soon as the scan
\* comes to it, however skills, appointments and loads are spread over the candidates.
THEOREM OverdueFindsMaster ==
  ASSUME IsFiniteSet(Orders)
  PROVE  Spec => NoneSkipped
<1> DEFINE Finds ==
      \A o \in scan.todo \ scan'.todo :
        InPool(o) /\ listCandidates(status, areas, o) # {} =>
          scan'.pc = "claim" /\ scan'.o = o /\ scan'.m \in Top(o)
<1>1. TypeOK /\ [Next]_vars => [Finds]_vars
  <2> SUFFICES ASSUME TypeOK, Next
               PROVE  Finds
    OBVIOUS
  <2>1. CASE ScanNext
    <3>1. PICK p \in scan.todo :
            \/ /\ InPool(p)
               /\ \E m \in Top(p) :
                    scan' = [scan EXCEPT !.pc = "claim", !.todo = @ \ {p}, !.o = p, !.m = m]
            \/ /\ ~InPool(p) \/ Top(p) = {}
               /\ scan' = [scan EXCEPT !.todo = @ \ {p}]
      BY <2>1 DEF ScanNext
    <3>2. p \in Orders /\ scan'.todo = scan.todo \ {p}
      BY <3>1 DEF TypeOK
    <3>3. ASSUME InPool(p), listCandidates(status, areas, p) # {}
          PROVE  scan'.pc = "claim" /\ scan'.o = p /\ scan'.m \in Top(p)
      <4>1. Top(p) # {}
        BY <3>2, <3>3, TopExists
      <4>2. PICK m \in Top(p) :
              scan' = [scan EXCEPT !.pc = "claim", !.todo = @ \ {p}, !.o = p, !.m = m]
        BY <3>1, <3>3, <4>1
      <4> QED
        BY <4>2 DEF TypeOK
    <3> QED
      BY <3>2, <3>3
  <2>2. CASE ~ScanNext
    <3>1. scan' = scan \/ scan.todo \subseteq scan'.todo
      <4>1. ASSUME NEW o \in Orders, OrderStep(o) PROVE scan' = scan
        BY <4>1 DEF OrderStep, applyPaid, broadcastNewOrder, AnnounceLost, BecomeLate,
           LeavePool, LeaveEnd, assign, AssignEnd
      <4>2. ASSUME NEW m \in Masters, MasterStep(m) PROVE scan' = scan
        BY <4>2 DEF MasterStep, PageOpen, PageClose, Drop, Connect, JoinRead, JoinPool, Look,
           Hear, PoolOrders, PoolAnswer, GrabStart, GrabStep, GrabCheck, GrabClaim, GrabEnd,
           approve, setStatus, updateMe, Changed
      <4>3. CASE ScanStart
        BY <4>3 DEF ScanStart, NoScan
      <4>4. CASE ScanClaim \/ ScanCommit
        BY <4>4 DEF ScanClaim, ScanCommit, ScanSkips, TypeOK
      <4>5. CASE ScanEnd
        BY <4>5 DEF ScanEnd
      <4> QED
        BY <2>2, <4>1, <4>2, <4>3, <4>4, <4>5 DEF Next, ScanStep
    <3> QED
      BY <3>1
  <2> QED
    BY <2>1, <2>2
<1> QED
  BY <1>1, PoolHolds, PTL DEF Spec, NoneSkipped

=============================================================================
