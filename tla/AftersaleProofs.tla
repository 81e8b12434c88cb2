---------------------------- MODULE AftersaleProofs ----------------------------
(***************************************************************************)
(* Refund requests and complaints for every desk, every number of rows and   *)
(* every platform under it.                                                 *)
(*                                                                         *)
(* Inductive of PlatformProofs does not hold here, since approving refunds   *)
(* completed orders too. What is left of it, Carried and RowsForward, is all *)
(* the desk needs from the platform.                                        *)
(***************************************************************************)
EXTENDS Aftersale, PlatformProofs, FiniteSetTheorems

-----------------------------------------------------------------------------
(* The platform below the desk.                                             *)

\* What a request carries: the move it is about to write is a move of the flow,
\* and a refund on its way to the data base was paid back at the channel.
Carries(q, back) ==
  /\ q.pc = "store" => canTransition(q.from, Target(q))
  /\ q.pc \in {"enter", "guard", "provider"} => q.op = "refund"
  /\ q.op = "refund" /\ q.pc \in {"load", "store"} =>
       back[q.o] >= Split(q).refundAmount

Carried == TypeOK /\ \A r \in Requests : Carries(req[r], returned)

\* Refunded orders stay refunded and money paid back stays paid back.
RowsForward ==
  \A o \in Orders :
    /\ status[o] = "refunded" => status'[o] = "refunded"
    /\ returned'[o] >= returned[o]

LEMMA SameRows ==
  ASSUME TypeOK, status' = status, returned' = returned
  PROVE  RowsForward
BY RowTyping DEF RowsForward

\* One order leaves a status that is not an end.
LEMMA OneForward ==
  ASSUME TypeOK, NEW o \in Orders, NEW to, status[o] # "refunded" \/ to = "refunded",
         status' = [status EXCEPT ![o] = to], returned' = returned
  PROVE  RowsForward
<1>1. \A p \in Orders : status'[p] = IF p = o THEN to ELSE status[p]
  BY DEF TypeOK
<1>2. QED
  BY <1>1, RowTyping DEF RowsForward

LEMMA CarriedTyping ==
  ASSUME Carried, NEW r \in Requests
  PROVE  /\ req[r] \in Request
         /\ req[r].pc # "idle" => req[r].o \in Orders
         /\ Carries(req[r], returned)
         /\ TypeOK
BY DEF Carried, TypeOK

\* A move that transition() writes starts in a status that is not an end.
LEMMA StoreForward ==
  ASSUME Carried, NEW r \in Requests, req[r].pc = "store", RowMatches(r)
  PROVE  /\ req[r].o \in Orders
         /\ status[req[r].o] # "refunded"
<1>1. canTransition(status[req[r].o], Target(req[r]))
  BY CarriedTyping DEF Carries, RowMatches
<1>2. QED
  BY <1>1, CarriedTyping, FlowFacts

LEMMA ProviderForward ==
  ASSUME Carried, NEW r \in Requests, ProviderRefund(r)
  PROVE  /\ RowsForward
         /\ returned'[req[r].o] >= Split(req[r]).refundAmount
<1> DEFINE o == req[r].o
           share == Split(req[r]).refundAmount
<1>1. o \in Orders /\ share \in Nat /\ TypeOK
  BY CarriedTyping, SplitTypes DEF ProviderRefund, Split
<1>2. returned' = [returned EXCEPT ![o] = returned[o] + share] /\ status' = status
  BY DEF ProviderRefund, orderRow
<1> HIDE DEF o, share
<1>3. \A p \in Orders : returned'[p] = IF p = o THEN returned[p] + share
                                     ELSE returned[p]
  BY <1>1, <1>2 DEF TypeOK
<1>4. \A p \in Orders : returned'[p] >= returned[p]
  BY <1>1, <1>3, RowTyping
<1>5. returned'[o] >= share
  BY <1>1, <1>3, RowTyping
<1>6. QED
  BY <1>2, <1>4, <1>5 DEF RowsForward, o, share

LEMMA NextForward ==
  ASSUME Carried, Next
  PROVE  RowsForward
<1>1. TypeOK
  BY DEF Carried
<1>2. ASSUME NEW r \in Requests, NEW o \in Orders, NEW m \in Masters, Claim(r, o, m)
      PROVE  RowsForward
  <2>1. /\ status[o] = "pending_accept" /\ returned' = returned
        /\ status' = [status EXCEPT ![o] = "accepted"]
    BY <1>2 DEF Claim, Claimable, SetStatus, channel
  <2>2. QED
    BY <1>1, <2>1, OneForward
<1>3. ASSUME NEW r \in Requests, NEW o \in Orders,
             \/ \E op \in Handlers : MoveStart(r, o, op)
             \/ ArriveCodeStart(r, o) \/ ArriveStart(r, o)
             \/ ConfirmStart(r, o) \/ CancelStart(r, o)
             \/ ChargeStart(r, o) \/ NotifyStart(r, o)
             \/ HandleNotifyStart(r, o) \/ RefundStart(r, o)
             \/ \E op \in Handlers : VerdictStart(r, o, op)
             \/ SyncStart(r, o) \/ ReviewStart(r, o)
      PROVE  RowsForward
  BY <1>1, <1>3, StartShape, SameRows DEF orderRow, channel
<1>4. ASSUME NEW r \in Requests,
             \/ Crash(r) \/ TransitionRefused(r) \/ TransitionConflict(r)
             \/ RefundRefused(r) \/ VerdictConflict(r) \/ ReviewDuplicate(r)
             \/ ChargeFails(r) \/ ProviderFails(r) \/ HandleNotifyEnds(r)
      PROVE  RowsForward
  BY <1>1, <1>4, EndShape, SameRows DEF orderRow, channel
<1>5. ASSUME NEW r \in Requests,
             \/ ConfirmCommit(r) \/ MoveCommit(r) \/ PaidCommit(r) \/ RefundCommit(r)
      PROVE  RowsForward
  <2>1. /\ req[r].pc = "store" /\ RowMatches(r) /\ returned' = returned
        /\ \E to : status' = [status EXCEPT ![req[r].o] = to]
    BY <1>5
       DEF ConfirmCommit, MoveCommit, PaidCommit, RefundCommit, At, SetStatus, channel
  <2>2. QED
    BY <1>1, <2>1, StoreForward, OneForward
<1>6. ASSUME NEW r \in Requests, ProviderRefund(r)
      PROVE  RowsForward
  BY <1>6, ProviderForward
<1>7. ASSUME NEW r \in Requests,
             \/ TransitionLoad(r) \/ ArriveCodeWrite(r) \/ ArriveCodeClear(r)
             \/ ChargeWrite(r) \/ RefundEnter(r) \/ RefundGuard(r)
             \/ VerdictWrite(r) \/ SyncWrite(r) \/ ReviewInsert(r)
      PROVE  RowsForward
  BY <1>1, <1>7, SameRows
     DEF TransitionLoad, ArriveCodeWrite, ArriveCodeClear, ChargeWrite, RefundEnter,
         RefundGuard, VerdictWrite, SyncWrite, ReviewInsert, orderRow, channel
<1>8. ASSUME NEW o \in Orders, Capture(o)
      PROVE  RowsForward
  BY <1>1, <1>8, SameRows DEF Capture, orderRow
<1>9. QED
  BY <1>2, <1>3, <1>4, <1>5, <1>6, <1>7, <1>8, NextCases

-----------------------------------------------------------------------------
(* What requests carry.                                                     *)

LEMMA CarriesOn ==
  ASSUME Carried, TypeOK', RowsForward, NEW r \in Requests
  PROVE  Carries(req[r], returned')
<1> DEFINE q == req[r]
           share == Split(q).refundAmount
<1>1. Carries(q, returned) /\ (q.pc # "idle" => q.o \in Orders)
  BY CarriedTyping
<1>2. ASSUME q.o \in Orders, returned[q.o] >= share
      PROVE  returned'[q.o] >= share
  <2>1. /\ returned[q.o] \in Nat /\ returned'[q.o] \in Nat /\ share \in Nat
        /\ returned'[q.o] >= returned[q.o]
    BY <1>2, SplitTypes DEF Split, Carried, TypeOK, RowsForward
  <2> HIDE DEF share, q
  <2>2. QED
    BY <1>2, <2>1
<1>3. QED
  BY <1>1, <1>2 DEF Carries

LEMMA OwnRequest ==
  ASSUME Carried, TypeOK', RowsForward, NEW r \in Requests, NEW q,
         req' = [req EXCEPT ![r] = q], Carries(q, returned')
  PROVE  Carried'
<1>1. \A p \in Requests : req'[p] = IF p = r THEN q ELSE req[p]
  BY DEF Carried, TypeOK
<1>2. QED
  BY <1>1, CarriesOn DEF Carried

LEMMA CarriesIdle == \A back : Carries(Idle, back)
BY DEF Carries, Idle

LEMMA DoneCarried ==
  ASSUME Carried, TypeOK', RowsForward, NEW r \in Requests, Done(r)
  PROVE  Carried'
BY CarriesIdle, OwnRequest DEF Done

LEMMA SameCarried ==
  ASSUME Carried, TypeOK', RowsForward, req' = req
  PROVE  Carried'
BY CarriesOn DEF Carried

LEMMA BeginCarried ==
  ASSUME Carried, TypeOK', RowsForward, NEW r \in Requests, NEW o, NEW op,
         NEW pc \in {"load", "write", "enter", "lookup"}, NEW stage,
         TakeUp(r, op, o, pc, stage), pc = "enter" <=> op = "refund"
  PROVE  Carried'
<1> DEFINE q == [Idle EXCEPT !.op = op, !.o = o, !.pc = pc, !.stage = stage]
<1>1. req' = [req EXCEPT ![r] = q]
  BY DEF TakeUp
<1>2. q.op = op /\ q.pc = pc
  BY DEF Idle
<1> HIDE DEF q
<1>3. Carries(q, returned')
  BY <1>2 DEF Carries
<1>4. QED
  BY <1>1, <1>3, OwnRequest

\* A request moves to another call, as the same handler for the same order.
LEMMA GotoCarried ==
  ASSUME Carried, TypeOK', RowsForward, NEW r \in Requests, NEW pc,
         Goto(r, pc), pc # "store", pc \in {"enter", "guard", "provider"} => req[r].op = "refund",
         req[r].op = "refund" /\ pc = "load" =>
           returned'[req[r].o] >= Split(req[r]).refundAmount
  PROVE  Carried'
<1> DEFINE q == [req[r] EXCEPT !.pc = pc]
<1>1. req' = [req EXCEPT ![r] = q]
  BY DEF Goto
<1>2. /\ q.pc = pc /\ q.op = req[r].op /\ q.o = req[r].o /\ q.stage = req[r].stage
  BY CarriedTyping DEF Request
<1> HIDE DEF q
<1>3. Split(q) = Split(req[r])
  BY <1>2 DEF Split
<1>4. Carries(q, returned')
  BY <1>2, <1>3 DEF Carries
<1>5. QED
  BY <1>1, <1>4, OwnRequest

LEMMA LoadCarried ==
  ASSUME Carried, TypeOK', RowsForward, NEW r \in Requests, TransitionLoad(r)
  PROVE  Carried'
<1> DEFINE q == [req[r] EXCEPT !.pc = "store", !.from = status[req[r].o]]
<1>1. /\ req' = [req EXCEPT ![r] = q] /\ req[r].pc = "load"
      /\ canTransition(status[req[r].o], Target(req[r]))
  BY DEF TransitionLoad
<1>2. req[r] \in Request /\ Carries(req[r], returned')
  BY CarriedTyping, CarriesOn
<1>3. /\ q.pc = "store" /\ q.from = status[req[r].o] /\ q.op = req[r].op
      /\ q.o = req[r].o /\ q.stage = req[r].stage /\ q.seen = req[r].seen
  BY <1>2 DEF Request
<1> HIDE DEF q
<1>4. Target(q) = Target(req[r]) /\ Split(q) = Split(req[r])
  BY <1>3 DEF Target, Split
<1>5. Carries(q, returned')
  BY <1>1, <1>2, <1>3, <1>4 DEF Carries
<1>6. QED
  BY <1>1, <1>5, OwnRequest

\* refund() enters its guard, from Platform or from the desk.
LEMMA GuardCarried ==
  ASSUME Carried, TypeOK', RowsForward, NEW r \in Requests, NEW q,
         req' = [req EXCEPT ![r] = q], q.pc = "guard", q.op = "refund"
  PROVE  Carried'
BY OwnRequest DEF Carries

LEMMA MoveCarried ==
  ASSUME Carried, TypeOK', RowsForward, NEW r \in Requests, MoveCommit(r)
  PROVE  Carried'
<1>1. /\ req[r] \in Request
      /\ req[r].op \in {"depart", "arrive", "startService", "complete",
                        "cancel", "review"}
  BY CarriedTyping DEF MoveCommit, At
<1>2. CASE req[r].op = "arrive"
  <2>1. Goto(r, "write")
    BY <1>2 DEF MoveCommit
  <2>2. QED
    BY <1>2, <2>1, GotoCarried
<1>3. CASE req[r].op = "cancel" /\ req[r].stage # NoStatus
  <2> DEFINE q == [req[r] EXCEPT !.op = "refund", !.pc = "enter"]
  <2>1. req' = [req EXCEPT ![r] = q]
    BY <1>3 DEF MoveCommit
  <2>2. q.pc = "enter" /\ q.op = "refund"
    BY <1>1 DEF Request
  <2> HIDE DEF q
  <2>3. Carries(q, returned')
    BY <2>2 DEF Carries
  <2>4. QED
    BY <2>1, <2>3, OwnRequest
<1>4. CASE /\ req[r].op # "arrive"
           /\ req[r].op = "cancel" => req[r].stage = NoStatus
  BY <1>4, DoneCarried DEF MoveCommit
<1>5. QED
  BY <1>2, <1>3, <1>4

LEMMA NextCarried ==
  ASSUME Carried, Next
  PROVE  Carried' /\ RowsForward
<1>1. TypeOK' /\ RowsForward
  BY TypeStep, NextForward DEF Carried
<1>2. ASSUME NEW r \in Requests,
             \/ Crash(r) \/ TransitionRefused(r) \/ TransitionConflict(r)
             \/ RefundRefused(r) \/ VerdictConflict(r) \/ ReviewDuplicate(r)
             \/ ChargeFails(r) \/ ProviderFails(r) \/ HandleNotifyEnds(r)
             \/ ArriveCodeWrite(r) \/ ArriveCodeClear(r) \/ ConfirmCommit(r)
             \/ ChargeWrite(r) \/ PaidCommit(r) \/ RefundCommit(r)
             \/ VerdictWrite(r) \/ SyncWrite(r)
      PROVE  Carried'
  <2>1. Done(r)
    BY <1>2, EndShape
       DEF ArriveCodeWrite, ArriveCodeClear, ConfirmCommit, ChargeWrite, PaidCommit,
           RefundCommit, VerdictWrite, SyncWrite
  <2>2. QED
    BY <1>1, <2>1, DoneCarried
<1>3. ASSUME NEW r \in Requests, NEW o \in Orders,
             \/ \E op \in Handlers : MoveStart(r, o, op)
             \/ ArriveCodeStart(r, o) \/ ArriveStart(r, o)
             \/ ConfirmStart(r, o) \/ CancelStart(r, o)
             \/ ChargeStart(r, o) \/ NotifyStart(r, o)
             \/ HandleNotifyStart(r, o) \/ RefundStart(r, o)
             \/ \E op \in Handlers : VerdictStart(r, o, op)
             \/ SyncStart(r, o) \/ ReviewStart(r, o)
      PROVE  Carried'
  <2>1. PICK op \in Handlers, pc \in {"load", "write", "enter", "lookup"},
             stage \in PostPayStates \cup {NoStatus} :
          /\ Begin(r, op, o, pc, stage)
          /\ pc = "enter" <=> op = "refund"
    BY <1>3, StartShape
  <2>2. QED
    BY <1>1, <2>1, BeginCarried DEF Begin
<1>4. ASSUME NEW r \in Requests, RefundEnter(r)
      PROVE  Carried'
  <2> DEFINE q == [req[r] EXCEPT !.pc = "guard", !.seen = status[req[r].o],
                     !.stage = StageOf(req[r]), !.hadMaster = Owned(req[r].o)]
  <2>1. /\ req[r] \in Request /\ Carries(req[r], returned) /\ req[r].pc = "enter"
        /\ req' = [req EXCEPT ![r] = q]
    BY <1>4, CarriedTyping DEF RefundEnter
  <2>2. q.pc = "guard" /\ q.op = "refund"
    BY <2>1 DEF Request, Carries
  <2> HIDE DEF q
  <2>3. QED
    BY <1>1, <2>1, <2>2, GuardCarried
<1>5. ASSUME NEW r \in Requests, RefundGuard(r)
      PROVE  Carried'
  <2>1. Done(r) \/ Goto(r, "provider")
    BY <1>5 DEF RefundGuard
  <2>2. req[r].op = "refund"
    BY <1>5, CarriedTyping DEF RefundGuard, Carries
  <2>3. QED
    BY <1>1, <2>1, <2>2, GotoCarried, DoneCarried
<1>6. ASSUME NEW r \in Requests, ProviderRefund(r)
      PROVE  Carried'
  BY <1>1, <1>6, ProviderForward, GotoCarried DEF ProviderRefund
<1>7. ASSUME NEW r \in Requests, ReviewInsert(r)
      PROVE  Carried'
  BY <1>1, <1>7, GotoCarried DEF ReviewInsert, At
<1>8. ASSUME req' = req
      PROVE  Carried'
  BY <1>1, <1>8, SameCarried
<1>9. QED
  BY <1>1, <1>2, <1>3, <1>4, <1>5, <1>6, <1>7, <1>8, LoadCarried, MoveCarried, NextCases
     DEF Capture, Claim

-----------------------------------------------------------------------------
(* The desk.                                                                *)

DeskWork ==
  [ pc : {"idle", "count", "insert", "resolve", "result", "reject", "refund", "record"},
    row : Nat, o : Orders \cup {NoOrder}, no : Nat,
    ticket : Complaints \cup {"none"}, result : Results \cup {"none"}, paid : Nat ]

\* A refund request was made for this complaint.
Backed(c) ==
  \E i \in DOMAIN refunds : refunds[i].ticket = c /\ refunds[i].o = ComplaintOf[c]

\* What a request at the desk knows of the books, of its call of refund() and,
\* once that has returned, of the money.
WorkOK(r) ==
  /\ desk[r].pc \in {"count", "insert"} => desk[r].o \in Orders
  /\ desk[r].pc = "insert" => desk[r].no \in 1..Rows
  /\ desk[r].pc \in {"count", "insert", "resolve", "result"} /\ desk[r].result # "none" =>
       desk[r].ticket \in Complaints /\ desk[r].o = ComplaintOf[desk[r].ticket]
  /\ desk[r].pc \in {"resolve", "result"} =>
       /\ desk[r].result # "none"
       /\ desk[r].result = "refund" => Backed(desk[r].ticket)
  /\ desk[r].pc \in {"reject", "refund", "record"} => desk[r].row \in DOMAIN refunds
  /\ desk[r].pc \in {"refund", "record"} => desk[r].o = refunds[desk[r].row].o
  /\ desk[r].pc = "refund" => req[r].o = desk[r].o
  /\ desk[r].pc = "record" =>
       status[desk[r].o] = "refunded" /\ returned[desk[r].o] >= desk[r].paid

BooksOK ==
  /\ refunds \in Seq(RefundRow)
  /\ complaint \in [Complaints -> Complaint]
  /\ desk \in [Requests -> DeskWork]

AftersaleInv ==
  /\ Carried
  /\ BooksOK
  /\ \A r \in Requests : WorkOK(r)
  /\ ApprovedWasReturned
  /\ RefundResultBacked

\* Rows are only added and judged.
RowsKept ==
  \A i \in DOMAIN refunds :
    /\ i \in DOMAIN refunds'
    /\ refunds'[i].o = refunds[i].o
    /\ refunds'[i].ticket = refunds[i].ticket

OthersSame(r) == \A p \in Requests \ {r} : req'[p] = req[p]

LEMMA InvFacts ==
  ASSUME AftersaleInv, NEW r \in Requests
  PROVE  /\ TypeOK /\ BooksOK /\ WorkOK(r)
         /\ desk[r] \in DeskWork /\ req[r] \in Request
         /\ \A i \in DOMAIN refunds : refunds[i] \in RefundRow
BY DEF AftersaleInv, Carried, TypeOK, BooksOK

LEMMA AtRestTypes == AtRest \in DeskWork /\ AtRest.pc = "idle"
BY DEF AtRest, DeskWork

LEMMA WorkCarried ==
  ASSUME AftersaleInv, Carried', RowsForward, RowsKept, NEW p \in Requests,
         desk'[p] = desk[p], desk[p].pc = "refund" => req'[p].o = req[p].o
  PROVE  WorkOK(p)'
<1> DEFINE d == desk[p]
<1>1. WorkOK(p) /\ d \in DeskWork /\ TypeOK /\ TypeOK' /\ BooksOK
  BY InvFacts DEF Carried
<1>2. \A c : Backed(c) => Backed(c)'
  BY DEF Backed, RowsKept
<1>3. d.pc = "record" =>
        status'[d.o] = "refunded" /\ returned'[d.o] >= d.paid
  <2> SUFFICES ASSUME d.pc = "record" PROVE status'[d.o] = "refunded" /\ returned'[d.o] >= d.paid
    OBVIOUS
  <2>1. /\ d.row \in DOMAIN refunds /\ d.o = refunds[d.row].o
        /\ status[d.o] = "refunded" /\ returned[d.o] >= d.paid
    BY <1>1 DEF WorkOK
  <2>2. d.o \in Orders /\ d.paid \in Nat
    BY <1>1, <2>1, InvFacts DEF RefundRow, DeskWork
  <2>3. returned'[d.o] >= returned[d.o] /\ returned[d.o] \in Nat /\ returned'[d.o] \in Nat
    BY <1>1, <2>2 DEF RowsForward, TypeOK
  <2>4. status'[d.o] = "refunded"
    BY <2>1, <2>2 DEF RowsForward
  <2> HIDE DEF d
  <2>5. QED
    BY <2>1, <2>2, <2>3, <2>4
<1>4. d.pc \in {"reject", "refund", "record"} => d.row \in DOMAIN refunds'
  BY <1>1 DEF WorkOK, RowsKept
<1>5. d.pc \in {"refund", "record"} => d.o = refunds'[d.row].o
  BY <1>1 DEF WorkOK, RowsKept
<1>6. desk'[p] = d
  OBVIOUS
<1>7. QED
  BY <1>1, <1>2, <1>3, <1>4, <1>5, <1>6 DEF WorkOK

LEMMA ApprovedCarried ==
  ASSUME AftersaleInv, Carried', RowsForward, refunds' = refunds
  PROVE  ApprovedWasReturned'
<1> SUFFICES ASSUME NEW i \in DOMAIN refunds, refunds[i].status = "approved"
             PROVE  /\ status'[refunds[i].o] = "refunded"
                    /\ returned'[refunds[i].o] >= refunds[i].refundedAmount
  BY DEF ApprovedWasReturned
<1> DEFINE o == refunds[i].o
           a == refunds[i].refundedAmount
<1>1. refunds[i] \in RefundRow
  BY DEF AftersaleInv, BooksOK
<1>2. o \in Orders /\ a \in Nat
  BY <1>1 DEF RefundRow
<1>3. status[o] = "refunded" /\ returned[o] >= a
  BY DEF AftersaleInv, ApprovedWasReturned
<1>4. /\ status'[o] = "refunded" /\ returned'[o] >= returned[o]
      /\ returned[o] \in Nat /\ returned'[o] \in Nat
  BY <1>2, <1>3 DEF RowsForward, AftersaleInv, Carried, TypeOK
<1> HIDE DEF o, a
<1>5. status'[o] = "refunded" /\ returned'[o] >= a
  BY <1>2, <1>3, <1>4
<1>6. QED
  BY <1>5 DEF o, a

LEMMA BackedCarried ==
  ASSUME AftersaleInv, RowsKept, complaint' = complaint
  PROVE  RefundResultBacked'
<1>1. \A c \in Complaints : complaint[c].result = "refund" => Backed(c)
  BY DEF AftersaleInv, RefundResultBacked, Backed
<1>2. \A c : Backed(c) => Backed(c)'
  BY DEF Backed, RowsKept
<1>3. QED
  BY <1>1, <1>2 DEF RefundResultBacked, Backed

LEMMA SameBooks ==
  ASSUME AftersaleInv, refunds' = refunds
  PROVE  RowsKept
BY DEF RowsKept

\* A step of one request at the desk.
LEMMA DeskInv ==
  ASSUME AftersaleInv, Carried', RowsForward, RowsKept,
         NEW r \in Requests, NEW w \in DeskWork,
         desk' = [desk EXCEPT ![r] = w], OthersSame(r), WorkOK(r)',
         refunds' \in Seq(RefundRow), complaint' \in [Complaints -> Complaint],
         ApprovedWasReturned', RefundResultBacked'
  PROVE  AftersaleInv'
<1>1. \A p \in Requests : desk'[p] = IF p = r THEN w ELSE desk[p]
  BY DEF AftersaleInv, BooksOK
<1>2. desk' \in [Requests -> DeskWork]
  BY DEF AftersaleInv, BooksOK
<1>3. \A p \in Requests \ {r} : WorkOK(p)'
  BY <1>1, WorkCarried DEF OthersSame
<1>4. QED
  BY <1>2, <1>3 DEF AftersaleInv, BooksOK

\* A step that leaves the books alone and takes its request to w.
LEMMA QuietDesk ==
  ASSUME AftersaleInv, Carried', RowsForward, refunds' = refunds, complaint' = complaint,
         NEW r \in Requests, NEW w \in DeskWork,
         desk' = [desk EXCEPT ![r] = w], OthersSame(r), WorkOK(r)'
  PROVE  AftersaleInv'
BY SameBooks, DeskInv, ApprovedCarried, BackedCarried DEF AftersaleInv, BooksOK

LEMMA LeaveWork ==
  ASSUME AftersaleInv, NEW r \in Requests, Leave(r)
  PROVE  /\ AtRest \in DeskWork /\ desk' = [desk EXCEPT ![r] = AtRest]
         /\ WorkOK(r)'
<1>1. desk'[r] = AtRest
  BY DEF Leave, AftersaleInv, BooksOK
<1>2. QED
  BY <1>1, AtRestTypes DEF Leave, WorkOK

LEMMA QuietLeave ==
  ASSUME AftersaleInv, Carried', RowsForward, refunds' = refunds, complaint' = complaint,
         NEW r \in Requests, Leave(r), OthersSame(r)
  PROVE  AftersaleInv'
BY LeaveWork, QuietDesk

\* A step of the platform below a desk that stays as it is.
LEMMA QuietBooks ==
  ASSUME AftersaleInv, Carried', RowsForward, UNCHANGED books,
         \A p \in Requests : desk[p].pc = "refund" => req'[p].o = req[p].o
  PROVE  AftersaleInv'
<1>1. RowsKept /\ ApprovedWasReturned' /\ RefundResultBacked' /\ BooksOK'
  BY SameBooks, ApprovedCarried, BackedCarried DEF books, AftersaleInv, BooksOK
<1>2. \A p \in Requests : WorkOK(p)'
  BY <1>1, WorkCarried DEF books
<1>3. QED
  BY <1>1, <1>2 DEF AftersaleInv

-----------------------------------------------------------------------------
(* The platform's part of a step.                                           *)

LEMMA SameVars ==
  ASSUME Carried, UNCHANGED vars
  PROVE  /\ Carried' /\ RowsForward
         /\ \A r \in Requests : OthersSame(r)
<1>1. status' = status /\ returned' = returned /\ req' = req
  BY DEF vars, orderRow, channel
<1>2. TypeOK'
  BY TypeStep DEF Carried
<1>3. RowsForward
  BY <1>1, SameRows DEF Carried
<1>4. QED
  BY <1>1, <1>2, <1>3, SameCarried DEF OthersSame

\* A change of one request, the rows stay.
LEMMA OwnOthers ==
  ASSUME TypeOK, NEW r \in Requests, NEW q, req' = [req EXCEPT ![r] = q]
  PROVE  OthersSame(r) /\ req'[r] = q
BY DEF OthersSame, TypeOK

LEMMA DoneOthers ==
  ASSUME TypeOK, NEW r \in Requests, Done(r)
  PROVE  OthersSame(r)
BY OwnOthers DEF Done

LEMMA SameRowsTypes ==
  ASSUME TypeOK, UNCHANGED <<orderRow, tables, channel>>, ReqType(req')
  PROVE  TypeOK' /\ RowsForward
BY TypeParts, TypePartsNext, RowTypesSame, SameRows DEF orderRow, channel

\* A request that is thrown away leaves the platform as it is.
LEMMA DoneForward ==
  ASSUME Carried, NEW r \in Requests, Done(r), UNCHANGED <<orderRow, tables, channel>>
  PROVE  Carried' /\ RowsForward /\ OthersSame(r)
BY DoneType, DoneCarried, DoneOthers, SameRowsTypes, TypeParts DEF Carried

LEMMA NextOthers ==
  ASSUME Carried, NEW r \in Requests,
         Step(r) \/ Crash(r) \/ \E o \in Orders : Start(r, o)
  PROVE  OthersSame(r)
<1>1. TypeOK
  BY DEF Carried
<1>2. CASE \E o \in Orders : Start(r, o)
  <2>1. PICK o \in Orders : Start(r, o)
    BY <1>2
  <2>2. \/ req' = req
        \/ \E op \in Handlers, pc \in {"load", "write", "enter", "lookup"},
              stage \in PostPayStates \cup {NoStatus} : Begin(r, op, o, pc, stage)
    BY <2>1, StartShape
       DEF Start, OrdersStart, PaymentsStart, SettlementsStart, Claim
  <2>3. QED
    BY <1>1, <2>2, OwnOthers DEF Begin, TakeUp, OthersSame
<1>3. CASE \/ Crash(r) \/ TransitionRefused(r) \/ TransitionConflict(r)
           \/ RefundRefused(r) \/ VerdictConflict(r) \/ ReviewDuplicate(r)
           \/ ChargeFails(r) \/ ProviderFails(r) \/ HandleNotifyEnds(r)
  BY <1>1, <1>3, EndShape, DoneOthers
<1>4. CASE \/ TransitionLoad(r) \/ RefundEnter(r)
  BY <1>1, <1>4, OwnOthers DEF TransitionLoad, RefundEnter, OthersSame, TypeOK
<1>5. CASE MoveCommit(r)
  BY <1>1, <1>5, DoneOthers DEF MoveCommit, Goto, OthersSame, TypeOK
<1>6. CASE \/ ArriveCodeWrite(r) \/ ArriveCodeClear(r) \/ ConfirmCommit(r)
           \/ ChargeWrite(r) \/ PaidCommit(r) \/ RefundCommit(r)
           \/ VerdictWrite(r) \/ SyncWrite(r)
  <2>1. Done(r)
    BY <1>6 DEF ArriveCodeWrite, ArriveCodeClear, ConfirmCommit, ChargeWrite,
                PaidCommit, RefundCommit, VerdictWrite, SyncWrite
  <2>2. QED
    BY <1>1, <2>1, DoneOthers
<1>7. CASE RefundGuard(r) \/ ProviderRefund(r) \/ ReviewInsert(r)
  <2>1. Done(r) \/ \E pc : Goto(r, pc)
    BY <1>7 DEF RefundGuard, ProviderRefund, ReviewInsert
  <2>2. QED
    BY <1>1, <2>1, DoneOthers DEF Goto, OthersSame, TypeOK
<1>8. QED
  BY <1>2, <1>3, <1>4, <1>5, <1>6, <1>7
     DEF Step, OrdersStep, PaymentsStep, SettlementsStep, ReviewsStep

\* A step of Platform under the desk.
LEMMA StepForward ==
  ASSUME Carried, NEW r \in Requests,
         Step(r) \/ Crash(r) \/ \E o \in Orders : Start(r, o)
  PROVE  Carried' /\ RowsForward /\ OthersSame(r)
BY NextCarried, NextOthers DEF Next

-----------------------------------------------------------------------------
(* The actions of the desk, one by one.                                     *)

LEMMA AskInv ==
  ASSUME AftersaleInv, NEW r \in Requests, NEW o \in Orders, AskStart(r, o)
  PROVE  AftersaleInv'
<1> DEFINE w == [AtRest EXCEPT !.pc = "count", !.o = o]
<1>1. /\ w \in DeskWork /\ w.pc = "count" /\ w.o = o /\ w.result = "none"
  BY AtRestTypes DEF AtRest, DeskWork
<1>2. /\ desk' = [desk EXCEPT ![r] = w]
      /\ UNCHANGED <<vars, refunds, complaint>>
  BY DEF AskStart, Enter, Free
<1> HIDE DEF w
<1>3. desk'[r] = w
  BY <1>2 DEF AftersaleInv, BooksOK
<1>4. WorkOK(r)'
  BY <1>1, <1>2, <1>3 DEF WorkOK
<1>5. Carried' /\ RowsForward /\ OthersSame(r)
  BY <1>2, SameVars DEF AftersaleInv
<1>6. QED
  BY <1>1, <1>2, <1>4, <1>5, QuietDesk

LEMMA ResolveInv ==
  ASSUME AftersaleInv, NEW r \in Requests, NEW c \in Complaints,
         NEW result \in Results, Resolve(r, c, result)
  PROVE  AftersaleInv'
<1> DEFINE w == [AtRest EXCEPT
                   !.pc = IF result = "refund" THEN "count" ELSE "resolve",
                   !.o = ComplaintOf[c], !.ticket = c, !.result = result]
<1>1. /\ w \in DeskWork /\ w.pc = IF result = "refund" THEN "count" ELSE "resolve"
      /\ w.o = ComplaintOf[c] /\ w.ticket = c /\ w.result = result
      /\ w.o \in Orders /\ result # "none"
  <2>1. ComplaintOf[c] \in Orders /\ result # "none"
    BY ComplaintAssumption DEF Results
  <2>2. QED
    BY <2>1 DEF AtRest, DeskWork
<1>2. /\ desk' = [desk EXCEPT ![r] = w]
      /\ UNCHANGED <<vars, refunds, complaint>>
  BY DEF Resolve, Enter, Free
<1> HIDE DEF w
<1>3. desk'[r] = w
  BY <1>2 DEF AftersaleInv, BooksOK
<1>4. WorkOK(r)'
  BY <1>1, <1>2, <1>3 DEF WorkOK
<1>5. Carried' /\ RowsForward /\ OthersSame(r)
  BY <1>2, SameVars DEF AftersaleInv
<1>6. QED
  BY <1>1, <1>2, <1>4, <1>5, QuietDesk

LEMMA CountInv ==
  ASSUME AftersaleInv, NEW r \in Requests, AskCount(r)
  PROVE  AftersaleInv'
<1> DEFINE w == [desk[r] EXCEPT !.pc = "insert", !.no = Len(refunds) + 1]
<1>1. WorkOK(r) /\ desk[r] \in DeskWork /\ desk[r].pc = "count"
  BY InvFacts DEF AskCount, Works
<1>2. Len(refunds) + 1 \in 1..Rows
  BY RowsAssumption DEF AskCount, AftersaleInv, BooksOK
<1>3. /\ w \in DeskWork /\ w.pc = "insert" /\ w.no = Len(refunds) + 1
      /\ w.o = desk[r].o /\ w.ticket = desk[r].ticket /\ w.result = desk[r].result
  <2> DEFINE no == Len(refunds) + 1
  <2>1. no \in Nat
    BY <1>2, RowsAssumption
  <2>2. w = [desk[r] EXCEPT !.pc = "insert", !.no = no]
    OBVIOUS
  <2> HIDE DEF no, w
  <2>3. /\ w \in DeskWork /\ w.pc = "insert" /\ w.no = no
        /\ w.o = desk[r].o /\ w.ticket = desk[r].ticket /\ w.result = desk[r].result
    BY <1>1, <2>1, <2>2 DEF DeskWork
  <2>4. QED
    BY <2>3 DEF no, w
<1>4. desk' = [desk EXCEPT ![r] = w] /\ UNCHANGED <<vars, refunds, complaint>>
  BY DEF AskCount, Enter
<1> HIDE DEF w
<1>5. desk'[r] = w
  BY <1>4 DEF AftersaleInv, BooksOK
<1>6. WorkOK(r)'
  BY <1>1, <1>2, <1>3, <1>5 DEF WorkOK
<1>7. Carried' /\ RowsForward /\ OthersSame(r)
  BY <1>4, SameVars DEF AftersaleInv
<1>8. QED
  BY <1>3, <1>4, <1>6, <1>7, QuietDesk

LEMMA InsertInv ==
  ASSUME AftersaleInv, NEW r \in Requests, AskInsert(r)
  PROVE  AftersaleInv'
<1>1. /\ WorkOK(r) /\ desk[r] \in DeskWork /\ desk[r].pc = "insert"
      /\ UNCHANGED <<vars, complaint>>
  BY InvFacts DEF AskInsert, Works
<1>2. Carried' /\ RowsForward /\ OthersSame(r)
  BY <1>1, SameVars DEF AftersaleInv
<1>3. CASE NumberTaken(desk[r].no)
  BY <1>1, <1>2, <1>3, QuietLeave DEF AskInsert
<1>4. CASE ~NumberTaken(desk[r].no)
  <2> DEFINE row == [ no |-> desk[r].no, o |-> desk[r].o, ticket |-> desk[r].ticket,
                      status |-> "pending_review", refundedAmount |-> 0,
                      linked |-> FALSE ]
  <2>1. /\ row \in RefundRow /\ row.status = "pending_review"
        /\ row.ticket = desk[r].ticket /\ row.o = desk[r].o
    BY <1>1 DEF WorkOK, RefundRow, DeskWork
  <2>2. refunds' = Append(refunds, row)
    BY <1>4 DEF AskInsert
  <2> HIDE DEF row
  <2>3. /\ refunds' \in Seq(RefundRow) /\ Len(refunds') = Len(refunds) + 1
        /\ \A i \in DOMAIN refunds : i \in DOMAIN refunds' /\ refunds'[i] = refunds[i]
        /\ refunds'[Len(refunds) + 1] = row
        /\ DOMAIN refunds' = DOMAIN refunds \cup {Len(refunds) + 1}
    BY <2>1, <2>2 DEF AftersaleInv, BooksOK
  <2>4. RowsKept /\ RefundResultBacked'
    BY <1>1, <2>3, BackedCarried DEF RowsKept
  <2>5. ApprovedWasReturned'
    <3>1. status' = status /\ returned' = returned
      BY <1>1 DEF vars, orderRow, channel
    <3>2. QED
      BY <2>1, <2>3, <3>1 DEF AftersaleInv, ApprovedWasReturned
  <2>6. CASE desk[r].result = "none"
    BY <1>1, <1>2, <1>4, <2>3, <2>4, <2>5, <2>6, LeaveWork, DeskInv
       DEF AskInsert, AftersaleInv, BooksOK
  <2>7. CASE desk[r].result # "none"
    <3> DEFINE w == [desk[r] EXCEPT !.pc = "resolve"]
    <3>1. /\ w \in DeskWork /\ w.pc = "resolve" /\ w.result = desk[r].result
          /\ w.ticket = desk[r].ticket /\ w.o = desk[r].o
      BY <1>1 DEF DeskWork
    <3>2. desk' = [desk EXCEPT ![r] = w]
      BY <1>4, <2>7 DEF AskInsert, Enter
    <3> HIDE DEF w
    <3>3. desk'[r] = w
      BY <3>2 DEF AftersaleInv, BooksOK
    <3>4. PICK c : c = desk[r].ticket
      OBVIOUS
    <3>5. c \in Complaints /\ desk[r].o = ComplaintOf[c]
      BY <1>1, <2>7, <3>4 DEF WorkOK
    <3>6. Backed(c)'
      BY <2>1, <2>3, <3>4, <3>5 DEF Backed
    <3>7. WorkOK(r)'
      BY <1>1, <2>7, <3>1, <3>3, <3>4, <3>5, <3>6 DEF WorkOK
    <3>8. QED
      BY <1>1, <1>2, <2>3, <2>4, <2>5, <3>1, <3>2, <3>7, DeskInv
         DEF AftersaleInv, BooksOK
  <2>8. QED
    BY <2>6, <2>7
<1>5. QED
  BY <1>3, <1>4

LEMMA TicketInv ==
  ASSUME AftersaleInv, NEW r \in Requests, ResolveTicket(r)
  PROVE  AftersaleInv'
<1> DEFINE w == [desk[r] EXCEPT !.pc = "result"]
           c == desk[r].ticket
<1>1. WorkOK(r) /\ desk[r] \in DeskWork /\ desk[r].pc = "resolve"
  BY InvFacts DEF ResolveTicket, Works
<1>2. c \in Complaints
  BY <1>1 DEF WorkOK
<1>3. /\ w \in DeskWork /\ w.pc = "result" /\ w.result = desk[r].result
      /\ w.ticket = c /\ w.o = desk[r].o
  BY <1>1 DEF DeskWork
<1>4. /\ desk' = [desk EXCEPT ![r] = w] /\ UNCHANGED <<vars, refunds>>
      /\ complaint' = [complaint EXCEPT ![c].resolved = TRUE]
  BY DEF ResolveTicket, Enter
<1> HIDE DEF w, c
<1>5. desk'[r] = w
  BY <1>4 DEF AftersaleInv, BooksOK
<1>6. Carried' /\ RowsForward /\ OthersSame(r)
  BY <1>4, SameVars DEF AftersaleInv
<1>7. complaint' \in [Complaints -> Complaint]
  BY <1>2, <1>4 DEF AftersaleInv, BooksOK, Complaint
<1>8. \A d \in Complaints : complaint'[d].result = complaint[d].result
  BY <1>2, <1>4 DEF AftersaleInv, BooksOK, Complaint
<1>9. RowsKept /\ ApprovedWasReturned' /\ RefundResultBacked'
  BY <1>4, <1>6, <1>8, SameBooks, ApprovedCarried DEF AftersaleInv, RefundResultBacked
<1>10. WorkOK(r)'
  <2>1. PICK d : d = desk[r].ticket
    OBVIOUS
  <2>2. Backed(d) => Backed(d)'
    BY <1>4 DEF Backed
  <2>3. QED
    BY <1>1, <1>3, <1>5, <2>1, <2>2 DEF WorkOK, c
<1>11. QED
  BY <1>3, <1>4, <1>6, <1>7, <1>9, <1>10, DeskInv DEF AftersaleInv, BooksOK

LEMMA ResultInv ==
  ASSUME AftersaleInv, NEW r \in Requests, ResolveResult(r)
  PROVE  AftersaleInv'
<1> DEFINE c == desk[r].ticket
           result == desk[r].result
<1>1. /\ WorkOK(r) /\ desk[r] \in DeskWork /\ desk[r].pc = "result"
      /\ Leave(r) /\ UNCHANGED <<vars, refunds>>
      /\ complaint' = [complaint EXCEPT ![c].result = result]
  BY InvFacts DEF ResolveResult, Works
<1>2. /\ c \in Complaints /\ result \in Results
      /\ result = "refund" => Backed(c)
  BY <1>1 DEF WorkOK, DeskWork
<1> HIDE DEF c, result
<1>3. Carried' /\ RowsForward /\ OthersSame(r)
  BY <1>1, SameVars DEF AftersaleInv
<1>4. complaint' \in [Complaints -> Complaint]
  BY <1>1, <1>2 DEF AftersaleInv, BooksOK, Complaint
<1>5. \A d \in Complaints :
        complaint'[d].result = IF d = c THEN result ELSE complaint[d].result
  BY <1>1, <1>2 DEF AftersaleInv, BooksOK, Complaint
<1>6. RefundResultBacked'
  BY <1>1, <1>2, <1>5 DEF AftersaleInv, RefundResultBacked, Backed
<1>7. RowsKept /\ ApprovedWasReturned'
  BY <1>1, <1>3, SameBooks, ApprovedCarried
<1>8. QED
  BY <1>1, <1>3, <1>4, <1>6, <1>7, LeaveWork, DeskInv DEF AftersaleInv, BooksOK

LEMMA RejectStartInv ==
  ASSUME AftersaleInv, NEW r \in Requests, NEW i \in DOMAIN refunds, RejectStart(r, i)
  PROVE  AftersaleInv'
<1> DEFINE w == [AtRest EXCEPT !.pc = "reject", !.row = i]
<1>1. i \in Nat /\ i \in DOMAIN refunds
  BY DEF AftersaleInv, BooksOK
<1>2. w \in DeskWork /\ w.pc = "reject" /\ w.row = i
  BY <1>1 DEF AtRest, DeskWork
<1>3. /\ desk' = [desk EXCEPT ![r] = w]
      /\ UNCHANGED <<vars, refunds, complaint>>
  BY DEF RejectStart, Enter, Free
<1> HIDE DEF w
<1>4. desk'[r] = w
  BY <1>3 DEF AftersaleInv, BooksOK
<1>5. WorkOK(r)'
  BY <1>1, <1>2, <1>3, <1>4 DEF WorkOK
<1>6. Carried' /\ RowsForward /\ OthersSame(r)
  BY <1>3, SameVars DEF AftersaleInv
<1>7. QED
  BY <1>2, <1>3, <1>5, <1>6, QuietDesk

LEMMA RejectInv ==
  ASSUME AftersaleInv, NEW r \in Requests, RejectWrite(r)
  PROVE  AftersaleInv'
<1> DEFINE i == desk[r].row
<1>1. /\ WorkOK(r) /\ desk[r].pc = "reject" /\ Leave(r)
      /\ refunds' = [refunds EXCEPT ![i].status = "rejected"]
      /\ UNCHANGED <<vars, complaint>>
  BY InvFacts DEF RejectWrite, Works
<1>2. i \in DOMAIN refunds
  BY <1>1 DEF WorkOK
<1> HIDE DEF i
<1>3. refunds \in Seq(RefundRow) /\ refunds[i] \in RefundRow
  BY <1>2, InvFacts DEF BooksOK
<1> DEFINE row == [refunds[i] EXCEPT !.status = "rejected"]
<1>4. /\ row \in RefundRow /\ row.status = "rejected"
      /\ row.o = refunds[i].o /\ row.ticket = refunds[i].ticket
  BY <1>3 DEF RefundRow
<1>5. refunds' = [refunds EXCEPT ![i] = row]
  BY <1>1
<1> HIDE DEF row
<1>6. /\ refunds' \in Seq(RefundRow) /\ DOMAIN refunds' = DOMAIN refunds
      /\ \A j \in DOMAIN refunds : refunds'[j] = IF j = i THEN row ELSE refunds[j]
  BY <1>2, <1>3, <1>4, <1>5
<1>7. Carried' /\ RowsForward /\ OthersSame(r)
  BY <1>1, SameVars DEF AftersaleInv
<1>8. RowsKept /\ RefundResultBacked'
  BY <1>1, <1>4, <1>6, BackedCarried DEF RowsKept
<1>9. ApprovedWasReturned'
  <2>1. status' = status /\ returned' = returned
    BY <1>1 DEF vars, orderRow, channel
  <2>2. QED
    BY <1>4, <1>6, <2>1 DEF AftersaleInv, ApprovedWasReturned
<1>10. QED
  BY <1>1, <1>6, <1>7, <1>8, <1>9, LeaveWork, DeskInv DEF AftersaleInv, BooksOK

LEMMA ApproveStartInv ==
  ASSUME AftersaleInv, NEW r \in Requests, NEW i \in DOMAIN refunds, ApproveStart(r, i)
  PROVE  AftersaleInv'
<1> DEFINE o == refunds[i].o
           w == [AtRest EXCEPT !.pc = "refund", !.row = i, !.o = o]
           q == [Idle EXCEPT !.op = "refund", !.o = o, !.pc = "enter",
                             !.stage = status[o]]
<1>1. i \in Nat /\ o \in Orders /\ TypeOK /\ Carried
  BY InvFacts DEF AftersaleInv, BooksOK, RefundRow
<1>2. /\ w \in DeskWork /\ w.pc = "refund" /\ w.row = i /\ w.o = o
  BY <1>1 DEF AtRest, DeskWork
<1>3. /\ desk' = [desk EXCEPT ![r] = w]
      /\ TakeUp(r, "refund", o, "enter", status[o])
      /\ UNCHANGED <<orderRow, tables, channel>> /\ UNCHANGED <<refunds, complaint>>
  BY DEF ApproveStart, Enter, Free
<1>4. req' = [req EXCEPT ![r] = q] /\ q.o = o
  BY <1>3 DEF TakeUp, Idle
<1>5. status[o] \in OrderStatus \cup {NoStatus}
  BY <1>1, RowTyping
<1> HIDE DEF w, q
<1>6. ReqType(req')
  BY <1>1, <1>3, <1>5, TypeParts, BeginType DEF Handlers
<1>7. TypeOK' /\ RowsForward
  BY <1>1, <1>3, <1>6, SameRowsTypes
<1>8. Carried'
  BY <1>1, <1>3, <1>7, BeginCarried
<1>9. OthersSame(r) /\ req'[r] = q
  BY <1>1, <1>4, OwnOthers
<1>10. desk'[r] = w
  BY <1>3 DEF AftersaleInv, BooksOK
<1>11. WorkOK(r)'
  BY <1>2, <1>3, <1>4, <1>9, <1>10 DEF WorkOK
<1>12. QED
  BY <1>2, <1>3, <1>7, <1>8, <1>9, <1>11, QuietDesk

LEMMA ApproveEnterInv ==
  ASSUME AftersaleInv, NEW r \in Requests, ApproveEnter(r)
  PROVE  AftersaleInv'
<1> DEFINE o == req[r].o
           q == [req[r] EXCEPT !.pc = "guard", !.seen = status[o],
                               !.hadMaster = Owned(o)]
<1>1. /\ TypeOK /\ Carried /\ req[r] \in Request /\ req[r].pc = "enter"
      /\ o \in Orders /\ Carries(req[r], returned)
  BY InvFacts, CarriedTyping DEF ApproveEnter, AftersaleInv
<1>2. /\ req' = [req EXCEPT ![r] = q]
      /\ UNCHANGED <<orderRow, tables, channel>> /\ UNCHANGED books
  BY DEF ApproveEnter
<1>3. status[o] \in OrderStatus /\ Owned(o) \in BOOLEAN
  BY <1>1, RowTyping DEF Owned
<1>4. q \in Request /\ q.o = req[r].o
  BY <1>1, <1>3 DEF Request
<1>5. q.pc = "guard" /\ q.op = "refund"
  BY <1>1 DEF Carries, Request
<1> HIDE DEF q
<1>6. ReqType(req')
  BY <1>1, <1>2, <1>4, TypeParts, UpdateType
<1>7. TypeOK' /\ RowsForward
  BY <1>1, <1>2, <1>6, SameRowsTypes
<1>8. Carried'
  BY <1>1, <1>2, <1>5, <1>7, GuardCarried
<1>9. OthersSame(r) /\ req'[r] = q
  BY <1>1, <1>2, OwnOthers
<1>10. \A p \in Requests : req'[p].o = req[p].o
  BY <1>4, <1>9 DEF OthersSame
<1>11. QED
  BY <1>2, <1>7, <1>8, <1>10, QuietBooks

LEMMA ApproveRefusedInv ==
  ASSUME AftersaleInv, NEW r \in Requests, ApproveRefused(r) \/ DeskCrash(r)
  PROVE  AftersaleInv'
<1>1. /\ Done(r) /\ Leave(r) /\ UNCHANGED <<refunds, complaint>>
      /\ UNCHANGED <<orderRow, tables, channel>>
  BY DEF ApproveRefused, DeskCrash
<1>2. Carried' /\ RowsForward /\ OthersSame(r)
  BY <1>1, DoneForward DEF AftersaleInv
<1>3. QED
  BY <1>1, <1>2, QuietLeave

\* The calls of refund() the desk makes are steps of Platform.
LEMMA DeskPlatform ==
  ASSUME AftersaleInv, NEW r \in Requests,
         ApproveGoesOn(r) \/ ApproveFails(r) \/ ApproveCommits(r)
  PROVE  Carried' /\ RowsForward /\ OthersSame(r)
<1>1. Step(r)
  BY DEF ApproveGoesOn, ApproveFails, ApproveCommits, Step, PaymentsStep
<1>2. QED
  BY <1>1, StepForward DEF AftersaleInv

LEMMA ApproveGoesOnInv ==
  ASSUME AftersaleInv, NEW r \in Requests, ApproveGoesOn(r)
  PROVE  AftersaleInv'
<1>1. Carried' /\ RowsForward /\ OthersSame(r)
  BY DeskPlatform
<1>2. req'[r].o = req[r].o
  <2>1. req \in [Requests -> Request]
    BY DEF AftersaleInv, Carried, TypeOK
  <2>2. CASE TransitionLoad(r)
    BY <2>1, <2>2 DEF TransitionLoad, Request
  <2>3. CASE \E pc : Goto(r, pc)
    BY <2>1, <2>3 DEF Goto, Request
  <2>4. QED
    BY <2>2, <2>3 DEF ApproveGoesOn, RefundGuard, ProviderRefund
<1>3. \A p \in Requests : req'[p].o = req[p].o
  BY <1>1, <1>2 DEF OthersSame
<1>4. UNCHANGED books
  BY DEF ApproveGoesOn
<1>5. QED
  BY <1>1, <1>3, <1>4, QuietBooks

LEMMA ApproveFailsInv ==
  ASSUME AftersaleInv, NEW r \in Requests, ApproveFails(r)
  PROVE  AftersaleInv'
BY DeskPlatform, QuietLeave DEF ApproveFails

LEMMA ApproveCommitsInv ==
  ASSUME AftersaleInv, NEW r \in Requests, ApproveCommits(r)
  PROVE  AftersaleInv'
<1> DEFINE o == req[r].o
           share == Split(req[r]).refundAmount
           w == [desk[r] EXCEPT !.pc = "record", !.paid = share]
<1>1. /\ TypeOK /\ WorkOK(r) /\ desk[r] \in DeskWork /\ desk[r].pc = "refund"
      /\ Carries(req[r], returned) /\ RefundCommit(r) /\ UNCHANGED <<refunds, complaint>>
  BY InvFacts DEF ApproveCommits, Works, AftersaleInv, Carried
<1>2. /\ req[r].pc = "store" /\ req[r].op = "refund"
      /\ status' = [status EXCEPT ![o] = "refunded"] /\ returned' = returned
  BY <1>1 DEF RefundCommit, At, channel
<1>3. o \in Orders /\ desk[r].o = o
  BY <1>1, <1>2 DEF TypeOK, WorkOK
<1>4. returned[o] >= share /\ share \in Nat
  BY <1>1, <1>2, <1>3, SplitTypes DEF Carries, Split
<1>5. desk' = [desk EXCEPT ![r] = w]
  BY DEF ApproveCommits, Enter
<1> HIDE DEF share
<1>6. /\ w \in DeskWork /\ w.pc = "record" /\ w.paid = share
      /\ w.o = desk[r].o /\ w.row = desk[r].row
  BY <1>1, <1>4 DEF DeskWork
<1> HIDE DEF w, o
<1>7. desk'[r] = w
  BY <1>5 DEF AftersaleInv, BooksOK
<1>8. status'[o] = "refunded"
  BY <1>1, <1>2, <1>3 DEF TypeOK
<1>9. WorkOK(r)'
  BY <1>1, <1>2, <1>3, <1>4, <1>6, <1>7, <1>8 DEF WorkOK
<1>10. QED
  BY <1>1, <1>5, <1>6, <1>9, DeskPlatform, QuietDesk

LEMMA RecordInv ==
  ASSUME AftersaleInv, NEW r \in Requests, ApproveRecord(r)
  PROVE  AftersaleInv'
<1> DEFINE i == desk[r].row
           o == desk[r].o
           paid == desk[r].paid
           comp == settlement[o].type = "compensation"
           row == [refunds[i] EXCEPT !.status = "approved", !.linked = comp,
                                     !.refundedAmount = paid]
<1>1. /\ WorkOK(r) /\ desk[r] \in DeskWork /\ desk[r].pc = "record" /\ Leave(r)
      /\ UNCHANGED <<vars, complaint>>
      /\ \/ refunds' = refunds
         \/ refunds' = [refunds EXCEPT ![i] = row]
  BY InvFacts DEF ApproveRecord, Works
<1>2. /\ i \in DOMAIN refunds /\ o = refunds[i].o /\ paid \in Nat
      /\ status[o] = "refunded" /\ returned[o] >= paid
  BY <1>1 DEF WorkOK, DeskWork
<1>3. refunds \in Seq(RefundRow) /\ refunds[i] \in RefundRow /\ comp \in BOOLEAN
  BY <1>2, InvFacts DEF BooksOK
<1> HIDE DEF i, o, paid, comp
<1>4. /\ row \in RefundRow /\ row.o = refunds[i].o /\ row.ticket = refunds[i].ticket
      /\ row.refundedAmount = paid
  BY <1>2, <1>3 DEF RefundRow
<1> HIDE DEF row
<1>5. Carried' /\ RowsForward /\ OthersSame(r)
  BY <1>1, SameVars DEF AftersaleInv
<1>6. CASE refunds' = refunds
  BY <1>1, <1>5, <1>6, QuietLeave
<1>7. CASE refunds' = [refunds EXCEPT ![i] = row]
  <2>1. /\ refunds' \in Seq(RefundRow) /\ DOMAIN refunds' = DOMAIN refunds
        /\ \A j \in DOMAIN refunds : refunds'[j] = IF j = i THEN row ELSE refunds[j]
    BY <1>2, <1>3, <1>4, <1>7
  <2>2. RowsKept /\ RefundResultBacked'
    BY <1>1, <1>4, <2>1, BackedCarried DEF RowsKept
  <2>3. ApprovedWasReturned'
    <3>1. status' = status /\ returned' = returned
      BY <1>1 DEF vars, orderRow, channel
    <3>2. QED
      BY <1>2, <1>4, <2>1, <3>1 DEF AftersaleInv, ApprovedWasReturned
  <2>4. QED
    BY <1>1, <1>5, <2>1, <2>2, <2>3, LeaveWork, DeskInv DEF AftersaleInv, BooksOK
<1>8. QED
  BY <1>1, <1>6, <1>7

LEMMA ElsewhereInv ==
  ASSUME AftersaleInv, NEW r \in Requests, Elsewhere(r)
  PROVE  AftersaleInv'
<1>1. Carried' /\ RowsForward /\ OthersSame(r) /\ UNCHANGED books
  BY StepForward DEF Elsewhere, AftersaleInv
<1>2. desk[r].pc # "refund"
  BY AtRestTypes DEF Elsewhere
<1>3. QED
  BY <1>1, <1>2, QuietBooks DEF OthersSame

LEMMA FileInv ==
  ASSUME AftersaleInv, NEW c \in Complaints, File(c)
  PROVE  AftersaleInv'
<1>1. /\ complaint' = [complaint EXCEPT ![c].filed = TRUE]
      /\ UNCHANGED <<vars, refunds, desk>>
  BY DEF File
<1>2. Carried' /\ RowsForward /\ req' = req
  BY <1>1, SameVars DEF AftersaleInv, vars
<1>3. complaint' \in [Complaints -> Complaint]
  BY <1>1 DEF AftersaleInv, BooksOK, Complaint
<1>4. \A d \in Complaints : complaint'[d].result = complaint[d].result
  BY <1>1 DEF AftersaleInv, BooksOK, Complaint
<1>5. RowsKept /\ ApprovedWasReturned' /\ RefundResultBacked'
  BY <1>1, <1>2, <1>4, SameBooks, ApprovedCarried DEF AftersaleInv, RefundResultBacked
<1>6. \A p \in Requests : WorkOK(p)'
  BY <1>1, <1>2, <1>5, WorkCarried
<1>7. QED
  BY <1>1, <1>2, <1>3, <1>5, <1>6 DEF AftersaleInv, BooksOK

LEMMA CaptureInv ==
  ASSUME AftersaleInv, NEW o \in Orders, Capture(o), UNCHANGED books
  PROVE  AftersaleInv'
<1>1. Carried' /\ RowsForward
  BY NextCarried DEF AftersaleInv, Next
<1>2. QED
  BY <1>1, QuietBooks DEF Capture

-----------------------------------------------------------------------------
LEMMA AftersaleInit0 == AftersaleInit => AftersaleInv
<1> SUFFICES ASSUME AftersaleInit PROVE AftersaleInv
  OBVIOUS
<1>1. Carried
  BY TypeInit, CarriesIdle DEF AftersaleInit, Init, Carried
<1>2. BooksOK
  BY AtRestTypes DEF AftersaleInit, DeskInit, BooksOK, Complaint
<1>3. \A r \in Requests : WorkOK(r)
  BY AtRestTypes DEF AftersaleInit, DeskInit, WorkOK
<1>4. ApprovedWasReturned /\ RefundResultBacked
  BY DEF AftersaleInit, DeskInit, ApprovedWasReturned, RefundResultBacked
<1>5. QED
  BY <1>1, <1>2, <1>3, <1>4 DEF AftersaleInv

LEMMA AftersaleStep == AftersaleInv /\ [AftersaleNext]_aftersaleVars => AftersaleInv'
<1> SUFFICES ASSUME AftersaleInv, [AftersaleNext]_aftersaleVars PROVE AftersaleInv'
  OBVIOUS
<1>1. CASE UNCHANGED aftersaleVars
  <2>1. Carried' /\ RowsForward /\ req' = req /\ UNCHANGED books
    BY <1>1, SameVars DEF aftersaleVars, AftersaleInv, vars
  <2>2. QED
    BY <2>1, QuietBooks
<1>2. ASSUME NEW r \in Requests, DeskStart(r)
      PROVE  AftersaleInv'
  BY <1>2, AskInv, ResolveInv, RejectStartInv, ApproveStartInv DEF DeskStart
<1>3. ASSUME NEW r \in Requests, DeskStep(r)
      PROVE  AftersaleInv'
  BY <1>3, CountInv, InsertInv, TicketInv, ResultInv, RejectInv, ApproveEnterInv,
     ApproveRefusedInv, ApproveGoesOnInv, ApproveFailsInv, ApproveCommitsInv, RecordInv
     DEF DeskStep
<1>4. QED
  BY <1>1, <1>2, <1>3, ApproveRefusedInv, ElsewhereInv, FileInv, CaptureInv
     DEF AftersaleNext

\* The books and the platform agree, for every desk and every crash.
THEOREM AftersaleInvariant == AftersaleSpec => []AftersaleInv
BY AftersaleInit0, AftersaleStep, PTL DEF AftersaleSpec

\* An approved refund request was paid at the channel, at least what it shows, and
\* its order is refunded for ever after, for every number of reviewers at once.
THEOREM ApprovedIsPaid == AftersaleSpec => []ApprovedWasReturned
BY AftersaleInvariant, PTL DEF AftersaleInv

\* A complaint whose result is a refund has a refund request of its own, however
\* many administrators resolve it at once and wherever they die.
THEOREM RefundResultIsBacked == AftersaleSpec => []RefundResultBacked
BY AftersaleInvariant, PTL DEF AftersaleInv

-----------------------------------------------------------------------------
(* Several operators at once.                                               *)

\* A reviewer who was past the check when the row was judged can still approve it.
Held(i) == \E r \in Requests : desk[r].pc \in {"refund", "record"} /\ desk[r].row = i

\* Requests of an order that are open, or that a verdict on its way may open again.
Live(o) == {i \in DOMAIN refunds : refunds[i].o = o /\ (Open(i) \/ Held(i))}

LiveBounded(o) ==
  Cardinality(Live(o)) + Cardinality(Asking(o)) <= Cardinality(Requests)

\* A row changes when it is put down, and is not taken up once it is judged.
Closes ==
  \A i \in DOMAIN refunds :
    /\ i \in DOMAIN refunds'
    /\ refunds'[i] # refunds[i] => \E r \in Judging(i) : r \notin Judging(i)'
    /\ refunds[i].status # "pending_review" => Judging(i)' \subseteq Judging(i)

\* What a request at the desk may turn to: each check was made in this step or by
\* the work it goes on with.
Turns(r, w) ==
  /\ w.row \in {0, desk[r].row} \/ Reviewable(w.row)
  /\ w.pc \in {"count", "insert"} =>
       \/ ~HasOpen(w.o)
       \/ desk[r].pc \in {"count", "insert"} /\ w.o = desk[r].o
  /\ w.pc \in {"refund", "record"} =>
       \/ Reviewable(w.row)
       \/ desk[r].pc \in {"refund", "record"} /\ w.row = desk[r].row

LEMMA Fewer ==
  ASSUME NEW A, NEW B, NEW C, NEW D, IsFiniteSet(A), IsFiniteSet(B), NEW n \in Nat,
         Cardinality(A) + Cardinality(B) <= n, C \subseteq A, D \subseteq B
  PROVE  Cardinality(C) + Cardinality(D) <= n
<1>1. /\ IsFiniteSet(C) /\ Cardinality(C) <= Cardinality(A)
      /\ IsFiniteSet(D) /\ Cardinality(D) <= Cardinality(B)
  BY FS_Subset
<1>2. /\ Cardinality(A) \in Nat /\ Cardinality(B) \in Nat
      /\ Cardinality(C) \in Nat /\ Cardinality(D) \in Nat
  BY <1>1, FS_CardinalityType
<1>3. QED
  BY <1>1, <1>2

\* Each row a reviewer holds is that of one reviewer at least.
LEMMA HeldRows ==
  ASSUME NEW holders \in SUBSET Requests, NEW asking \in SUBSET Requests,
         holders \cap asking = {}, NEW rowOf,
         NEW rows \in SUBSET {rowOf[r] : r \in holders}
  PROVE  Cardinality(rows) + Cardinality(asking) <= Cardinality(Requests)
<1> DEFINE f == [r \in holders |-> rowOf[r]]
           image == {rowOf[r] : r \in holders}
<1>1. /\ IsFiniteSet(holders) /\ IsFiniteSet(asking)
      /\ Cardinality(holders \cup asking) <= Cardinality(Requests)
      /\ IsFiniteSet(holders \cup asking)
  BY DeskAssumption, FS_Subset
<1>2. f \in Surjection(holders, image)
  BY DEF Surjection
<1>3. IsFiniteSet(image) /\ Cardinality(image) <= Cardinality(holders)
  BY <1>1, <1>2, FS_Surjection
<1>4. IsFiniteSet(rows) /\ Cardinality(rows) <= Cardinality(image)
  BY <1>3, FS_Subset
<1> HIDE DEF f, image
<1>5. /\ Cardinality(rows) \in Nat /\ Cardinality(asking) \in Nat
      /\ Cardinality(holders) \in Nat /\ Cardinality(image) \in Nat
      /\ Cardinality(holders \cup asking) \in Nat /\ Cardinality(Requests) \in Nat
  BY <1>1, <1>3, <1>4, DeskAssumption, FS_CardinalityType
<1>6. Cardinality(holders \cup asking) = Cardinality(holders) + Cardinality(asking)
  <2>1. Cardinality(holders \cap asking) = 0
    BY FS_EmptySet
  <2>2. Cardinality(holders \cup asking) =
          Cardinality(holders) + Cardinality(asking) - Cardinality(holders \cap asking)
    BY <1>1, FS_Union
  <2>3. QED
    BY <1>5, <2>1, <2>2
<1>7. QED
  BY <1>1, <1>3, <1>4, <1>5, <1>6

LEMMA LiveTypes ==
  ASSUME AftersaleInv, NEW o
  PROVE  /\ IsFiniteSet(Live(o)) /\ IsFiniteSet(Asking(o))
         /\ Cardinality(Live(o)) \in Nat /\ Cardinality(Asking(o)) \in Nat
         /\ Cardinality(Requests) \in Nat
         /\ DOMAIN refunds = 1..Len(refunds) /\ Len(refunds) \in Nat
<1>1. DOMAIN refunds = 1..Len(refunds) /\ Len(refunds) \in Nat
  BY DEF AftersaleInv, BooksOK
<1>2. IsFiniteSet(DOMAIN refunds)
  BY <1>1, FS_Interval
<1>3. IsFiniteSet(Live(o)) /\ IsFiniteSet(Asking(o))
  BY <1>2, DeskAssumption, FS_Subset DEF Live, Asking
<1>4. QED
  BY <1>1, <1>3, DeskAssumption, FS_CardinalityType

\* Nothing new is live or asked for.
LEMMA LiveKept ==
  ASSUME AftersaleInv, NEW o, LiveBounded(o),
         Live(o)' \subseteq Live(o), Asking(o)' \subseteq Asking(o)
  PROVE  LiveBounded(o)'
BY LiveTypes, Fewer DEF LiveBounded

LEMMA SameLive ==
  ASSUME UNCHANGED <<refunds, desk>>, \A o \in Orders : LiveBounded(o)
  PROVE  Closes /\ \A o \in Orders : LiveBounded(o)'
BY DEF Closes, Judging, LiveBounded, Live, Open, Held, Asking

\* The rows stay and one request turns to other work.
LEMMA TurnLive ==
  ASSUME AftersaleInv, \A o \in Orders : LiveBounded(o), NEW r \in Requests, NEW w,
         desk' = [desk EXCEPT ![r] = w], refunds' = refunds, Turns(r, w)
  PROVE  Closes /\ \A o \in Orders : LiveBounded(o)'
<1>1. \A p \in Requests : desk'[p] = IF p = r THEN w ELSE desk[p]
  BY DEF AftersaleInv, BooksOK
<1>2. \A i \in DOMAIN refunds : i # 0
  BY LiveTypes
<1>3. Closes
  BY <1>1, <1>2 DEF Closes, Judging, Turns, Reviewable
<1>4. ASSUME NEW o \in Orders
      PROVE  LiveBounded(o)'
  <2>1. \A i \in DOMAIN refunds : Held(i)' => Held(i) \/ Open(i)
    BY <1>1 DEF Held, Open, Turns, Reviewable
  <2>2. Live(o)' \subseteq Live(o)
    BY <2>1 DEF Live, Open
  <2>3. CASE HasOpen(o)
    <3>1. Asking(o)' \subseteq Asking(o)
      BY <1>1, <2>3 DEF Asking, Turns
    <3>2. QED
      BY <2>2, <3>1, LiveKept
  <2>4. CASE ~HasOpen(o)
    <3> DEFINE holders == {p \in Requests : desk'[p].pc \in {"refund", "record"}}
               rowOf == [p \in Requests |-> desk'[p].row]
    <3>1. Live(o)' \subseteq {rowOf[p] : p \in holders}
      <4> SUFFICES ASSUME NEW i \in Live(o)' PROVE \E p \in holders : rowOf[p] = i
        OBVIOUS
      <4>1. i \in DOMAIN refunds /\ refunds[i].o = o /\ (Open(i)' \/ Held(i)')
        BY DEF Live
      <4>2. Held(i)'
        BY <2>4, <4>1 DEF HasOpen, Open
      <4>3. QED
        BY <4>2 DEF Held
    <3>2. /\ holders \subseteq Requests /\ Asking(o)' \subseteq Requests
          /\ holders \cap Asking(o)' = {}
      BY DEF Asking
    <3> HIDE DEF holders, rowOf
    <3>3. QED
      BY <3>1, <3>2, HeldRows DEF LiveBounded
  <2>5. QED
    BY <2>3, <2>4
<1>5. QED
  BY <1>3, <1>4

\* What the calls at the desk turn their request to.
LEMMA StartTurns ==
  ASSUME NEW r \in Requests, DeskStart(r)
  PROVE  refunds' = refunds /\ \E w : desk' = [desk EXCEPT ![r] = w] /\ Turns(r, w)
<1>1. ASSUME NEW o \in Orders, AskStart(r, o)
      PROVE  refunds' = refunds /\ \E w : desk' = [desk EXCEPT ![r] = w] /\ Turns(r, w)
  <2> DEFINE w == [AtRest EXCEPT !.pc = "count", !.o = o]
  <2>1. w.pc = "count" /\ w.o = o /\ w.row = 0
    BY DEF AtRest
  <2>2. desk' = [desk EXCEPT ![r] = w] /\ refunds' = refunds /\ ~HasOpen(o)
    BY <1>1 DEF AskStart, Enter
  <2> HIDE DEF w
  <2>3. QED
    BY <2>1, <2>2 DEF Turns
<1>2. ASSUME NEW c \in Complaints, NEW result \in Results, Resolve(r, c, result)
      PROVE  refunds' = refunds /\ \E w : desk' = [desk EXCEPT ![r] = w] /\ Turns(r, w)
  <2> DEFINE w == [AtRest EXCEPT
                     !.pc = IF result = "refund" THEN "count" ELSE "resolve",
                     !.o = ComplaintOf[c], !.ticket = c, !.result = result]
  <2>1. /\ w.pc = IF result = "refund" THEN "count" ELSE "resolve"
        /\ w.o = ComplaintOf[c] /\ w.row = 0
    BY DEF AtRest
  <2>2. /\ desk' = [desk EXCEPT ![r] = w] /\ refunds' = refunds
        /\ result = "refund" => ~HasOpen(ComplaintOf[c])
    BY <1>2 DEF Resolve, Enter
  <2> HIDE DEF w
  <2>3. QED
    BY <2>1, <2>2 DEF Turns
<1>3. ASSUME NEW i \in DOMAIN refunds, RejectStart(r, i)
      PROVE  refunds' = refunds /\ \E w : desk' = [desk EXCEPT ![r] = w] /\ Turns(r, w)
  <2> DEFINE w == [AtRest EXCEPT !.pc = "reject", !.row = i]
  <2>1. w.pc = "reject" /\ w.row = i
    BY DEF AtRest
  <2>2. desk' = [desk EXCEPT ![r] = w] /\ refunds' = refunds /\ Reviewable(i)
    BY <1>3 DEF RejectStart, Enter
  <2> HIDE DEF w
  <2>3. QED
    BY <2>1, <2>2 DEF Turns
<1>4. ASSUME NEW i \in DOMAIN refunds, ApproveStart(r, i)
      PROVE  refunds' = refunds /\ \E w : desk' = [desk EXCEPT ![r] = w] /\ Turns(r, w)
  <2> DEFINE w == [AtRest EXCEPT !.pc = "refund", !.row = i, !.o = refunds[i].o]
  <2>1. w.pc = "refund" /\ w.row = i
    BY DEF AtRest
  <2>2. desk' = [desk EXCEPT ![r] = w] /\ refunds' = refunds /\ Reviewable(i)
    BY <1>4 DEF ApproveStart, Enter
  <2> HIDE DEF w
  <2>3. QED
    BY <2>1, <2>2 DEF Turns
<1>5. QED
  BY <1>1, <1>2, <1>3, <1>4 DEF DeskStart

LEMMA RestTurns == \A r \in Requests : Turns(r, AtRest)
BY DEF Turns, AtRest

LEMMA StepTurns ==
  ASSUME AftersaleInv, NEW r \in Requests,
         \/ AskCount(r) \/ ResolveTicket(r) \/ ResolveResult(r)
         \/ ApproveRefused(r) \/ ApproveFails(r) \/ ApproveCommits(r) \/ DeskCrash(r)
  PROVE  refunds' = refunds /\ \E w : desk' = [desk EXCEPT ![r] = w] /\ Turns(r, w)
<1>1. refunds' = refunds
  BY DEF AskCount, ResolveTicket, ResolveResult, ApproveRefused, ApproveFails,
         ApproveCommits, DeskCrash
<1>2. CASE ResolveResult(r) \/ ApproveRefused(r) \/ ApproveFails(r) \/ DeskCrash(r)
  BY <1>1, <1>2, RestTurns DEF ResolveResult, ApproveRefused, ApproveFails, DeskCrash, Leave
<1>3. CASE AskCount(r)
  <2> DEFINE w == [desk[r] EXCEPT !.pc = "insert", !.no = Len(refunds) + 1]
  <2>1. desk[r].pc = "count" /\ desk' = [desk EXCEPT ![r] = w] /\ desk[r] \in DeskWork
    BY <1>3, InvFacts DEF AskCount, Works, Enter
  <2>2. w.pc = "insert" /\ w.o = desk[r].o /\ w.row = desk[r].row
    BY <2>1 DEF DeskWork
  <2> HIDE DEF w
  <2>3. QED
    BY <1>1, <2>1, <2>2 DEF Turns
<1>4. CASE ResolveTicket(r)
  <2> DEFINE w == [desk[r] EXCEPT !.pc = "result"]
  <2>1. desk' = [desk EXCEPT ![r] = w] /\ desk[r] \in DeskWork
    BY <1>4, InvFacts DEF ResolveTicket, Enter
  <2>2. w.pc = "result" /\ w.row = desk[r].row
    BY <2>1 DEF DeskWork
  <2> HIDE DEF w
  <2>3. QED
    BY <1>1, <2>1, <2>2 DEF Turns
<1>5. CASE ApproveCommits(r)
  <2> DEFINE w == [desk[r] EXCEPT !.pc = "record", !.paid = Split(req[r]).refundAmount]
  <2>1. /\ desk[r].pc = "refund" /\ desk' = [desk EXCEPT ![r] = w]
        /\ desk[r] \in DeskWork
    BY <1>5, InvFacts DEF ApproveCommits, Works, Enter
  <2>2. w.pc = "record" /\ w.row = desk[r].row
    BY <2>1 DEF DeskWork
  <2> HIDE DEF w
  <2>3. QED
    BY <1>1, <2>1, <2>2 DEF Turns
<1>6. QED
  BY <1>2, <1>3, <1>4, <1>5

\* An insert turns one that is asked for into one that is open.
LEMMA InsertLive ==
  ASSUME AftersaleInv, \A o \in Orders : LiveBounded(o), NEW r \in Requests, AskInsert(r)
  PROVE  Closes /\ \A o \in Orders : LiveBounded(o)'
<1>1. /\ desk[r].pc = "insert" /\ desk[r] \in DeskWork /\ refunds \in Seq(RefundRow)
      /\ desk[r].o \in Orders
  BY InvFacts DEF AskInsert, Works, WorkOK, BooksOK
<1>2. CASE NumberTaken(desk[r].no)
  BY <1>2, RestTurns, TurnLive DEF AskInsert, Leave
<1>3. CASE ~NumberTaken(desk[r].no)
  <2> DEFINE row == [ no |-> desk[r].no, o |-> desk[r].o, ticket |-> desk[r].ticket,
                      status |-> "pending_review", refundedAmount |-> 0,
                      linked |-> FALSE ]
             n == Len(refunds) + 1
             w == IF desk[r].result = "none" THEN AtRest
                  ELSE [desk[r] EXCEPT !.pc = "resolve"]
  <2>1. row.o = desk[r].o
    OBVIOUS
  <2>2. refunds' = Append(refunds, row)
    BY <1>3 DEF AskInsert
  <2> HIDE DEF row
  <2>3. /\ DOMAIN refunds' = DOMAIN refunds \cup {n} /\ n \notin DOMAIN refunds
        /\ refunds'[n] = row /\ \A i \in DOMAIN refunds : refunds'[i] = refunds[i]
    BY <1>1, <2>2
  <2> HIDE DEF n
  <2>4. desk' = [desk EXCEPT ![r] = w]
    BY <1>3 DEF AskInsert, Leave, Enter
  <2>5. w.pc \in {"idle", "resolve"} /\ w.row \in {0, desk[r].row}
    BY <1>1 DEF DeskWork, AtRest
  <2> HIDE DEF w
  <2>6. \A p \in Requests : desk'[p] = IF p = r THEN w ELSE desk[p]
    BY <2>4 DEF AftersaleInv, BooksOK
  <2>7. Closes
    BY <2>3, <2>5, <2>6, LiveTypes DEF Closes, Judging
  <2>8. \A i : Held(i)' => Held(i)
    BY <2>5, <2>6 DEF Held
  <2>9. \A o : Live(o)' \subseteq IF o = desk[r].o THEN Live(o) \cup {n} ELSE Live(o)
    BY <2>1, <2>3, <2>8 DEF Live, Open
  <2>10. \A o : Asking(o)' \subseteq IF o = desk[r].o THEN Asking(o) \ {r} ELSE Asking(o)
    BY <2>5, <2>6 DEF Asking
  <2>11. ASSUME NEW o \in Orders
         PROVE  LiveBounded(o)'
    <3>1. CASE o # desk[r].o
      BY <2>9, <2>10, <3>1, LiveKept
    <3>2. CASE o = desk[r].o
      <4>1. r \in Asking(o) /\ n \notin Live(o)
        BY <1>1, <2>3, <3>2 DEF Asking, Live
      <4> DEFINE more == Live(o) \cup {n}
                 less == Asking(o) \ {r}
      <4>2. /\ IsFiniteSet(more) /\ Cardinality(more) = Cardinality(Live(o)) + 1
            /\ IsFiniteSet(less) /\ Cardinality(less) = Cardinality(Asking(o)) - 1
        BY <4>1, LiveTypes, FS_AddElement, FS_RemoveElement
      <4>3. Live(o)' \subseteq more /\ Asking(o)' \subseteq less
        BY <2>9, <2>10, <3>2
      <4> HIDE DEF more, less
      <4>4. Cardinality(more) + Cardinality(less) <= Cardinality(Requests)
        BY <4>2, LiveTypes DEF LiveBounded
      <4>5. QED
        BY <4>2, <4>3, <4>4, LiveTypes, Fewer DEF LiveBounded
    <3>3. QED
      BY <3>1, <3>2
  <2>12. QED
    BY <2>7, <2>11
<1>4. QED
  BY <1>2, <1>3

\* A verdict is written on the row its reviewer holds, who is at rest after it.
LEMMA VerdictLive ==
  ASSUME AftersaleInv, \A o \in Orders : LiveBounded(o), NEW r \in Requests,
         RejectWrite(r) \/ ApproveRecord(r)
  PROVE  Closes /\ \A o \in Orders : LiveBounded(o)'
<1> DEFINE i == desk[r].row
<1>1. /\ Leave(r) /\ i \in DOMAIN refunds /\ refunds \in Seq(RefundRow)
      /\ refunds[i] \in RefundRow
  BY InvFacts DEF RejectWrite, ApproveRecord, Works, WorkOK, BooksOK
<1>2. CASE refunds' = refunds
  BY <1>1, <1>2, RestTurns, TurnLive DEF Leave
<1>3. CASE refunds' # refunds
  <2>1. \E row : /\ row.o = refunds[i].o /\ refunds' = [refunds EXCEPT ![i] = row]
                 /\ row.status = "rejected" \/ Held(i)
    <3>1. CASE RejectWrite(r)
      <4> DEFINE row == [refunds[i] EXCEPT !.status = "rejected"]
      <4>1. row.o = refunds[i].o /\ row.status = "rejected"
        BY <1>1 DEF RefundRow
      <4>2. refunds' = [refunds EXCEPT ![i] = row]
        BY <3>1 DEF RejectWrite
      <4> HIDE DEF row
      <4>3. QED
        BY <4>1, <4>2
    <3>2. CASE ApproveRecord(r)
      <4> DEFINE comp == settlement[desk[r].o].type = "compensation"
                 row == [refunds[i] EXCEPT !.status = "approved", !.linked = comp,
                                           !.refundedAmount = desk[r].paid]
      <4>1. row.o = refunds[i].o
        BY <1>1 DEF RefundRow
      <4>2. refunds' = [refunds EXCEPT ![i] = row] /\ desk[r].pc = "record"
        BY <1>3, <3>2 DEF ApproveRecord, Works
      <4> HIDE DEF row
      <4>3. QED
        BY <4>1, <4>2 DEF Held
    <3>3. QED
      BY <3>1, <3>2
  <2>2. PICK row : /\ row.o = refunds[i].o /\ refunds' = [refunds EXCEPT ![i] = row]
                   /\ row.status = "rejected" \/ Held(i)
    BY <2>1
  <2>3. r \in Judging(i)
    BY DEF Judging
  <2> HIDE DEF i
  <2>4. /\ DOMAIN refunds' = DOMAIN refunds
        /\ \A j \in DOMAIN refunds : refunds'[j] = IF j = i THEN row ELSE refunds[j]
    BY <1>1, <2>2
  <2>5. \A p \in Requests : desk'[p] = IF p = r THEN AtRest ELSE desk[p]
    BY <1>1 DEF Leave, AftersaleInv, BooksOK
  <2>6. AtRest.row = 0 /\ AtRest.pc = "idle" /\ \A j \in DOMAIN refunds : j # 0
    BY LiveTypes DEF AtRest
  <2>7. \A j \in DOMAIN refunds : Judging(j)' \subseteq Judging(j) \ {r}
    BY <2>5, <2>6 DEF Judging
  <2>8. Closes
    BY <1>1, <2>3, <2>4, <2>7 DEF Closes
  <2>9. \A j : Held(j)' => Held(j)
    BY <2>5, <2>6 DEF Held
  <2>10. \A o : Live(o)' \subseteq Live(o)
    BY <1>1, <2>2, <2>4, <2>9 DEF Live, Open
  <2>11. \A o : Asking(o)' \subseteq Asking(o)
    BY <2>5, <2>6 DEF Asking
  <2>12. QED
    BY <2>8, <2>10, <2>11, LiveKept
<1>4. QED
  BY <1>2, <1>3

LEMMA LiveStep ==
  ASSUME AftersaleInv, \A o \in Orders : LiveBounded(o), [AftersaleNext]_aftersaleVars
  PROVE  Closes /\ \A o \in Orders : LiveBounded(o)'
<1>1. CASE \/ UNCHANGED aftersaleVars
           \/ \E r \in Requests : Elsewhere(r) \/ ApproveEnter(r) \/ ApproveGoesOn(r)
           \/ \E c \in Complaints : File(c)
           \/ \E o \in Orders : Capture(o) /\ UNCHANGED books
  <2>1. UNCHANGED <<refunds, desk>>
    BY <1>1 DEF aftersaleVars, Elsewhere, ApproveEnter, ApproveGoesOn, File, books
  <2>2. QED
    BY <2>1, SameLive
<1>2. ASSUME NEW r \in Requests, DeskStart(r)
      PROVE  Closes /\ \A o \in Orders : LiveBounded(o)'
  BY <1>2, StartTurns, TurnLive
<1>3. ASSUME NEW r \in Requests,
             \/ AskCount(r) \/ ResolveTicket(r) \/ ResolveResult(r)
             \/ ApproveRefused(r) \/ ApproveFails(r) \/ ApproveCommits(r) \/ DeskCrash(r)
      PROVE  Closes /\ \A o \in Orders : LiveBounded(o)'
  BY <1>3, StepTurns, TurnLive
<1>4. ASSUME NEW r \in Requests, DeskStep(r)
      PROVE  Closes /\ \A o \in Orders : LiveBounded(o)'
  BY <1>1, <1>3, <1>4, InsertLive, VerdictLive DEF DeskStep
<1>5. QED
  BY <1>1, <1>2, <1>3, <1>4 DEF AftersaleNext

\* However many operators are at the desk, the requests of an order that are open,
\* may be opened again by a verdict on its way, or are being asked for are no more
\* than the operators.
THEOREM LiveInvariant == AftersaleSpec => [](\A o \in Orders : LiveBounded(o))
<1>1. AftersaleInit => \A o \in Orders : LiveBounded(o)
  <2> SUFFICES ASSUME AftersaleInit, NEW o \in Orders PROVE LiveBounded(o)
    OBVIOUS
  <2>1. Live(o) = {} /\ Asking(o) = {}
    BY AtRestTypes DEF AftersaleInit, DeskInit, Live, Asking
  <2>2. QED
    BY <2>1, DeskAssumption, FS_EmptySet, FS_CardinalityType DEF LiveBounded
<1>2. /\ AftersaleInv /\ (\A o \in Orders : LiveBounded(o)) /\ [AftersaleNext]_aftersaleVars
      => (\A o \in Orders : LiveBounded(o))'
  BY LiveStep
<1>3. QED
  BY <1>1, <1>2, AftersaleInvariant, PTL DEF AftersaleSpec

\* So an order never has more refund requests open or asked for than operators.
THEOREM OpenIsBounded == AftersaleSpec => []OpenRequestsBounded
<1>1. AftersaleInv /\ (\A o \in Orders : LiveBounded(o)) => OpenRequestsBounded
  <2> SUFFICES ASSUME AftersaleInv, NEW o \in Orders, LiveBounded(o)
               PROVE  Cardinality(OpenRequests(o)) + Cardinality(Asking(o))
                        <= Cardinality(Requests)
    BY DEF OpenRequestsBounded
  <2>1. OpenRequests(o) \subseteq Live(o)
    BY DEF OpenRequests, Live
  <2>2. QED
    BY <2>1, LiveTypes, Fewer DEF LiveBounded
<1>2. QED
  BY <1>1, AftersaleInvariant, LiveInvariant, PTL

\* A judged refund request is closed to new reviewers, and each who had it in hand
\* writes one verdict at most.
THEOREM ReviewsClose == AftersaleSpec => ReviewCloses
<1>1. /\ AftersaleInv /\ (\A o \in Orders : LiveBounded(o)) /\ [AftersaleNext]_aftersaleVars
      => [Closes]_aftersaleVars
  BY LiveStep
<1>2. [Closes]_aftersaleVars <=>
        [\A i \in DOMAIN refunds :
           /\ i \in DOMAIN refunds'
           /\ refunds'[i] # refunds[i] => \E r \in Judging(i) : r \notin Judging(i)'
           /\ refunds[i].status # "pending_review" => Judging(i)' \subseteq Judging(i)
        ]_aftersaleVars
  BY DEF Closes
<1>3. QED
  BY <1>1, <1>2, AftersaleInvariant, LiveInvariant, PTL DEF AftersaleSpec, ReviewCloses

=============================================================================
