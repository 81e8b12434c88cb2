# A verification model of home_app

home_app is a platform for home services. A customer places and pays an order,
the platform holds the money, a master takes the order, travels, works, and the
customer accepts the work, which releases the money to the master; a
cancellation pays back a share of it. The back end (`nest/`) is one Node
process on MySQL through Prisma; the front ends (`next/`) call its API and
listen to its sockets.

This directory holds TLA+ modules of the back end and of the part of the front
end that keeps state, TLC configurations that check them on small instances, and
proofs, checked by TLAPS, of every safety property the passing runs check (section
4), for any number of orders, masters, requests, tickets, codes, areas and
categories.

Contents: 1 inventory, 2 modules, 3 runs, 4 proofs, 5 where code and comments
part, 6 what is left, 7 not modelled.

## 1. Inventory

Paths are below `src/nest/src` unless said otherwise. *Hard* names what tests
reach badly.

| Component | State | Operations | Interacts with | Hard | Correct when |
|---|---|---|---|---|---|
| Order status flow (`shared/src/types.ts`, `orders/order-status.ts`) | - | `canTransition` | everyone | - | every status change is an edge |
| Orders (`orders/orders.service.ts`) | `Order`, `OrderLog` | create, transition, pool, grab, assign, depart, generateArriveCode, arrive, startService, complete, confirm, cancel, listCandidates, autoDispatchOverdue | payments, settlements, commission, areas, gateway | status read before an await and used after it, masters racing for an order, status and settlement in one transaction, duplicates | flow followed, one master for ever, release and settlement together, nobody waits for ever |
| Payments (`payments/`) | `Payment`, `Refund` | charge, notify, refund, refund requests and their review | payment channel, orders, settlements, tickets | irreversible call of the channel between two transactions, repeated and late notifications, retries | money back never more than the price, the share of the right stage, approved means paid |
| Settlements (`settlements/`) | `Settlement` | release, compensation, credit, reject, sync, reconcile, balances | orders, payments, withdrawals | two reviewers, sync beside confirm | one settlement an order, reviewed once, named after the order's master |
| Commission (`commission/`, `common/money.ts`) | `CommissionRule`, snapshot in the order | resolve, split, upsert, remove | orders, payments, settlements, categories | rounding, a walk up a tree that is being edited | shares add up, the nearest rule |
| Reviews (`reviews/`) | `Review`, rating of a master | create | orders | insert and transition apart | a reviewed order is evaluated |
| Withdrawals (`withdrawals/`) | `Withdrawal` | create, markPaid, reject | settlements | two requests against one balance | never more out than credited |
| Tickets (`tickets/`) | `Ticket`, `Complaint`, comments | create, assign, comment, appeal, changeStatus, resolveComplaint, escalateDue | payments, settlements | SLA scan beside people, resolution in several writes | late tickets escalated once, a result has its refund request |
| Masters (`masters/`) | `Master` | create, approve, setStatus, updateMe | orders, gateway | changed while grabbing or listening | only active masters take orders |
| Auth (`auth/`, `sms/`) | `User`, `SmsCode`, codes in memory, black list, cookie | sendSmsCode, verifyCode, register, login, reset, refresh, logout | sms, front end | counters updated by read and write, restarts | a code is used once, failures lock, master accounts are whole |
| Gateway (`gateway/`) | rooms of sockets | join-pool, broadcasts | orders, payments, front end | order of join, fetch and broadcast | whom an order is for hears of it |
| Areas, services (`areas/`, `services/`) | trees of rows | create, update, remove, cascading switches | orders, commission | trees edited between read and write | a branch switched off is off |
| Front end (`next/src`) | token slots, cookie, query cache, requests under way | redirects, refresh, login, logout, pool page, order pages | auth, orders, gateway | many answers, one refresh; two copies of the truth | every page settles, every request ends, buttons work |
| Agreements, addresses, users, roles, notices, content, configuration, installation | rows | edit | - | - | - |
| Reports, audit, metrics, health, upload; deployment, seeds, migrations | - | read, log | - | - | - |

`PROJECT.json` lists the components with their sources and status, and under
`hazards` every place of the code where this can go wrong, with the property
that would notice.

## 2. Modules

    OrderStatusFlow        statuses and flow
      CommissionSplit      splits, in cents and basis points
        OrderStore         rows, channel, requests, transition(), crash
          OrdersService    via SettlementsService
          PaymentsService  via SettlementsService
          ReviewsService
            Platform       Init, Next, Spec, fairness, properties, inductive invariant
              Aftersale    refund requests, complaints, approval
              OrderPages   the buttons of the pages
    EscrowContract         what the platform promises, refined by Platform

    Sums                   the sum of a column over its rows
      Withdrawals          balances, requests, review, balance check of reconcile

    Tickets                tickets, people, the SLA scan
    Dispatch               regions, rooms, candidates: operators only
      OrderPool            pool, masters, pages, sockets, overdue scan
    Catalogue              areas, categories, services, rules and their editors
      Ordering             create(), resolve(), duplicates
    Accounts               codes, registration, passwords, lock
    Session                one browser: portals, tokens, cookie, tabs

    MCPlatform, MCAftersale, MCWithdrawals, MCTickets, MCOrderPool, MCOrdering,
    MCAccounts, MCSession                     constants for TLC
    PlatformProofs (with commission and pages), AftersaleProofs,
    WithdrawalProofs, TicketsProofs, OrderingProofs, PoolProofs, AccountsProofs,
    SessionProofs

How the groups meet: `Withdrawals` sees a credited settlement of `Platform` as
`Earn`; that credits only grow is `SettlementFinal`, proved there. `Aftersale`
runs on `Platform` itself. `OrderPool` sees payment and refund as the two ends
of an order's time in the pool. `Ordering` ends where `Platform` begins, with an
order in pending_payment that carries its terms, `Snapshot` there: no code writes
that column again. `Aftersale` resolves complaints; what else happens to tickets is
in `Tickets`.

### Steps

Node runs a handler alone between two awaits, so a step is one data base or
channel call with the code up to the next one. Where a handler reads a row and
tests it, `XxxStart` is that read and test, and what it found travels with the
request. A transaction whose first statement is a locking write is one step
unless something else can be seen before its commit; one that first reads a
snapshot is a step for the reading and one for the rest. `updateMany` is taken
to test its where clause when it writes.

### Platform

**State.** `status, masterId, arriveCode` are columns of `Order`; `refundFrom` is the
`fromStatus` of the order log entry for the move to refunding; `payment`, `settlement`
and `review` are the rows that belong to the order (`Settlement` and `Review` are unique
per order in `schema.prisma`; a payment is only ever created when there is none).
`payable, captured` are a real channel: charge open, money taken; `returned` is what
`provider.refund` has acknowledged, in cents. `req` are the requests the server is
working on: the handler (`op`), its next call (`pc`), and what it keeps across awaits
(`seen`, `from`, `stage`, `hadMaster`).

**Steps.** `transition()` is `TransitionLoad` (read, test of the flow) and then
the write, guarded by `RowMatches`, its `updateMany` with the status in the where
clause; `TransitionConflict` is the write that matches no row. `confirm`,
`applyPaid` and `refund` read a snapshot inside their transaction and then
write; the first write locks the order row until the commit, so everything from
it on is one step (`ConfirmCommit`, `PaidCommit`, `RefundCommit`). `grab` and
`assign` begin with the locking write, so `Claim` is a single step. When a refund
finds its order in refunding the payment row is written before the order is
read; other requests see both only at the commit, where the model puts them.

**Channels.** `Channels` is what `getProvider` may find configured: the mock, WeChat,
Alipay; it may change between any two calls. `mockNotify` (`NotifyStart`) is there
whatever is configured and asks for nothing but an order: one that was never charged
goes into escrow too, without a `Payment` row. A real channel takes money for an open
charge and reports it any number of times, but `handleNotify` ends without effect
(`HandleNotifyEnds`), and so does its refund: the channel refuses a trade it knows by
another number, the call throws, and the order is where `cancel` or the customer left
it (`ProviderFails`; section 5). The mock acknowledges every refund at once.

**Crashes.** `Crash` ends a request between any two calls, in every run whose
`Crashes` is TRUE: an exception, a connection lost, the process killed. An open
transaction is rolled back and leaves no trace; the channel keeps what it did.

**Pages.** `OrderPages` gives, per order, the buttons the client, master and
settlement pages show for the rows as they are, and `Accepted`, whether the
handler behind a button would accept them: what it asks of the order it reads
(`LetIn`, in the terms the actions of the services are guarded by) and, for the
handlers that end in `transition` (`Moving`), that the move is in the flow
(`MoveAsked`). Pages list the statuses they act on independently of flow and
handlers.

### Aftersale

`refunds` are the rows of `Refund` in the order of insertion, `complaint` a complaint
ticket with its `Complaint` row, `desk` what a request of an operator or reviewer does.
Every request may be at the desk, so operators and reviewers overlap with each other and
with customer and master. `AskStart`, `AskCount`, `AskInsert` are `createRefundRequest`:
duplicate test, count for the number, insert that fails on a number taken meanwhile.
`Resolve`, `ResolveTicket`, `ResolveResult` are `resolveComplaint` with its two updates
after the request for a refund. Approving walks through the refund steps of `Platform`,
entering with completed orders allowed (`ApproveEnter` ... `ApproveCommits`) and then
records (`ApproveRecord`). The three results that only set a field are one,
`compensate`.

### Withdrawals

`credited` is the sum of a master's credited settlements, `withdrawal` the rows
of the table, `req` a request of `create` between its reads and its insert,
`audit` what `reconcile` has read so far, `alarm` its last report of
`negative_balance`. MySQL's default isolation gives the three sums of `create`
one snapshot and locks nothing, so the transaction is `CreateCheck` (its snapshot
and its tests) and `CreateInsert` (its commit), with anything in between;
`CreateFails` rolls it back. `markPaid` and `reject` are one conditional
`updateMany` each. `reconcile` sums credits, paid and pending rows in three
statements outside a transaction: `AuditCredited`, `AuditPaid` and `AuditReport`.
One reconcile runs at a time. A request is in tenths of a cent, since the client
sends any number and `round2` makes cents of it.

### Tickets

`ticket` are the rows, `late` how many of its two deadlines have passed, `notes`
the notes a scan left, `scan` the scans under way with the rows they have read.
Handlers of people end in one update that does not depend on what they read and
are one step. A scan reads the list (`ScanList`), takes ticket after ticket
(`ScanTicket`), writes values computed from the row it read over the row as it is
(`ScanUpdate`), leaves the note (`ScanNote`), or dies in between (`ScanDies`).

### OrderPool and Dispatch

`Dispatch` has no state: which area covers an order (`regionMatches`,
`masterCoversOrder`), which rooms a master joins and an order is rung in
(`RoomsOf`, `dispatchZones`), who is a candidate and in which order
(`listCandidates`, `TopCandidates`). In `OrderPool`, `tx` is the transaction that
holds an order's row; it rings before it commits, as `transition` does. A master
has a page, a query cache (`view`, `fetch`, `found`) and a socket (`socket`,
`rooms`, `inbox`); an event heard drops the fetch under way and begins a new one.
A pool fetch reads the orders and then the master. `grab` is the check, the
claim and the commit; the overdue scan reads its list and then takes order after
order. `owed` is history: what an open page was rung for and has not shown.

### Catalogue and Ordering

An administrator's handler is begun by the action named after it, which checks what it
reads, and ends in `...Write`, with anything in between (`edit` keeps what it goes by).
A node of the area tree is the sequence of its codes; `Below` is the search along
`parentCode` among open rows. `updateItem` and `removeItem` write the columns they name
and leave the others as they are by then. `create` in `Ordering` reads service, areas,
category after category (`ChainStep`), the rules (`Resolve`), looks for an equal order
and inserts. `calm` is history: nothing was edited since the request began.

### Accounts

`memo` and `throttled` are the maps of the process (mock mode), `row` the table
of codes (real mode), `user` and `master` the tables, `request` the handlers.
`inbox` are the codes that reached somebody; people type only such codes. `uses`
and `misses` are history: how often a code was accepted, wrong passwords in a row
since the last lock or success. A wrong password is counted by `FailureRead` and
`FailureWrite`. `Restart` loses memory and handlers. `ChangeMode` is the setting
`smsMode` being edited, beside requests that have read it.

### Session

`slot` is local storage (access and refresh token per portal), `jar` the portals
with an entry in the cookie, `age` how far a token has run out, `tab` the path of
a tab and how far its layout is, `call` the requests of its page, `refresh` the
one refresh they share, `login`, `logout` those requests. A cookie that is set
with an answer is made from the cookie that came with the request, as
`setRoleTokenCookie` does. `Fits` are the sets of portals whose cookie stays below 3500
bytes: of a longer one only the entry just written is kept, and none on logout, as in
`writeRoleMap`. Requests, profile, refresh and login fail for any reason, a dead token,
the network or the server, and the front end does the same for each. An access and a
refresh token of one issue are one number.

### Abstractions

Identity and permission checks are left out: the environment offers calls of people
entitled to them; with them the redirect of `middleware.ts` for paths a role may not see
(77-89). Its redirect for a token of another role (66-71) is not reached: every slot and
cookie entry is written under the role its token was issued for. In `Platform`, orders
exist from the start, in pending_payment, as `create` leaves them; the snapshot of the
commission rule is a constant per order; orders from before there were snapshots, which
take the rules of the day (`commission.service.ts:93-95`), are left out. Notes, log
wording and dates are left out. A platform rate is a number of basis points; the product
of an amount and a rate is rounded half up to the cent, as `mul2` does with decimal.js.
`1 - rate`, computed in binary floating point by `splitRefund`, is exact in the model.
Time is an action that lets a deadline, a code, a token or the window of the duplicate
check run out. Names beside region codes are left out: only codes are compared. External
parts, marked so in the map: the channel (`channel`, `Capture`, `Reported`), the death
of a process (`Crash`, `DeskCrash`, `ScanDies`, `AnnounceLost`, `Die`, `Restart`), the
network (`Drop`), the browser and time. A real channel takes money for an order number
once and reports it any number of times; the mock pays back what it is told, a real one
refuses.

## 3. Runs

| Run | Instance | Shows |
|---|---|---|
| `concurrent` (`MCPlatform`) | 1 order, 2 masters, 2 requests, all handlers, mock and WeChat, crashes | `TypeOK`, `LedgerConsistent`, `RefundedWasReturned`, `StatusFollowsFlow`, `MasterKept`, `SettlementFinal`, `ContractSpec` |
| `apart` (`MCPlatform`) | 1 order with either of 2 rules, 1 master, 3 requests, which overlap but for the pairs below, no crash, mock | `RefundMatchesStage`, `ShownRefundIsReal`, `EscrowRowIsPaid`, `ReleasedNotReturned` |
| `live` (`MCPlatform`) | 1 order, 1 master, 2 requests, no crash, mock, fairness | `RefundCompletes`, `ReviewEvaluates`, `PagesLeadOn` |
| `double_refund` (`MCPlatform`) | 2 requests, mock | counterexample to `ReturnedAtMostPrice`: paid back twice |
| `real_channel` (`MCPlatform`) | 2 requests, WeChat, fairness of everyone including the channel | counterexample to `CapturedEntersPool`: paid at the channel, and in pending_payment for ever |
| `aftersale` (`MCAftersale`) | 1 order, unpaid or from accepted or in service on, 1 complaint, 2 requests, each at the desk or of customer or master, 2 refund rows, mock and WeChat, crashes | `ApprovedWasReturned`, `RefundResultBacked`, `OpenRequestsBounded`, `ReviewCloses` |
| `accounts` (`MCWithdrawals`) | 2 masters, one of them asking once at a time, 2 requests, 3 rows, fairness | `OutstandingCovered`, `OverdraftBounded`, `SlipFinal`, `OverdraftNoticed` |
| `tickets` (`MCTickets`) | 1 ticket, 2 staff, 1 scan, one of which dies, fairness | `EscalatedIsUrgent`, `EscalatedOnce`, `EscalationKeepsStatus`, `LateIsEscalated` |
| `pool` (`MCOrderPool`) | 2 orders, one of them held by a master and with an appointment, 2 masters, 1 page, one failure, one change or grab, fairness | `ListeningCovers`, `HeardIsShown`, `LateIsDispatched` |
| `ordering` (`MCOrdering`) | 2 requests of one customer, an administrator with one edit of anything, 3 areas, a chain of 3 categories of which the walk reads 2, 1 service, 3 orders | `ResolveNearest`, `DuplicatesBounded`, `BranchCloses` |
| `auth` (`MCAccounts`) | 2 phones, 2 requests, a mode that changes, 1 code, lock at 2 failures, 4 tries, restarts | `CodeUsesBounded`, `MasterComplete`, `LockComes` |
| `session` (`MCSession`) | 1 tab, 3 portals of which the cookie holds 2, 2 requests, 3 acts, 2 tokens running out, fairness | `RequestsEnd`, `PageSettles` |

Amounts in `MCPlatform` are 1.01 yuan, so that every share is rounded. The rules
are the default tiers with 20 % commission (order `o1`) and `keep_commission` with
break points at accepted and servicing (order `o2`).

`apart` and `live` are of the mock: with a real channel configured no refund gets
through, and money properties would hold for that reason alone. `concurrent` and
`aftersale` have both, so a configuration that changes and a channel that throws between
any two calls are among what their properties stand. `concurrent` leaves out that an
order with a charge open at the real channel is paid by `mockNotify` as well
(`Unmixed`), with which `aftersale` begins.

The money properties of `apart` fail when certain requests on one order overlap, and
when one dies in the middle of a refund. `Platform` names the pairs: a charge beside the
notification of a payment (`PaymentsApart`); a confirmation beside a cancellation or
refund (`ReleasesApart`); and, of which that is a part, a cancellation or refund beside
the visit, the claim or another refund (`RefundsApart`). `ApartSpec` is the
specification without those, everything else overlaps: two charges, a cancellation and a
charge or a notification, a review and the verdict on its settlement, two cancellations
until one of them has come to its refund. `apart` takes one order at a time
(`OneOrder`), with either rule: no step of `Platform` touches two. That the exclusions
are needed the following configurations show, with `double_refund` from the list of
runs, each against a statement of the code's comments (section 5). They are run by hand
with `tlc -config <file> <module>`; TLC reports a violation.

| Configuration | Module | Property | Story |
|---|---|---|---|
| `MCPlatform_retry_stage.cfg` | `MCPlatform` | `RefundMatchesStage` | a cancellation dies before its refund; the retry reads refunding as the stage and returns everything |
| `MCPlatform_stale_stage.cfg` | `MCPlatform` | `RefundMatchesStage` | a cancellation reads departing, the master arrives, the refund is at the tier of departing |
| `MCPlatform_refund_completed.cfg` | `MCPlatform` | `ReleasedNotReturned` | a customer refund overlaps the confirmation: escrow released and returned |
| `MCPlatform_late_payment.cfg` | `MCPlatform` | `CancelledWithoutMoney` | a charge is captured after its order was cancelled: the money stays |
| `MCPlatform_charge_race.cfg` | `MCPlatform` | `EscrowRowIsPaid` | a second charge sets the payment of a paid order back to pending |
| `MCPlatform_review_crash.cfg` | `MCPlatform` | `ReviewedIsEvaluated` | a review dies after its insert and can never be completed |
| `MCWithdrawals_over_withdrawal.cfg` | `MCWithdrawals` | `NeverOverdrawn` | two requests checked against one balance, both inserted |
| `MCOrdering_deep_tree.cfg` | `MCOrdering` | `InheritsUpwards` | a chain longer than the walk hides the rule above it |
| `MCAccounts_sms_real.cfg` | `MCAccounts` | `NewestUsable` | a code just delivered is marked as used |
| `MCSession_other_portal.cfg` | `MCSession` | `OtherPortalsKept` | a failure in one portal clears the cookie of all |

What is left of these, and is checked: of a master's balance, that one who asks
once at a time is never paid more than was credited, whatever others do, that
overlapping requests can each take the whole balance and no more, and that
`reconcile` reports who stays overdrawn (it may also report a master whose credit
is paid out between its reads). Of overlapping refunds, everything in
`concurrent`, and `ApprovedWasReturned`. Of lost counts of wrong passwords, how
late the lock comes. Of overlapping creates, how many duplicates there can be.

**Bounds.** Two requests are enough for every overlap of two handlers, `apart` has
three; each handler is re-enterable, so longer stories are built from them. One order is
enough where no handler touches two; `pool` has two for the load a master has from
another order. `MaxReturned` stops new refunds once more than that was paid back:
without it `returned` grows without end, since the double refund is real. `Ops`
restricts a run to the handlers of its story; `aftersale` leaves out reviews and
settlements' verdicts, which no step of the desk reads, and the customer's own request
for a refund: a cancellation leads to the same `refund()`. It begins with an order that
is unpaid, or with one that is accepted or in service, paid by `mockNotify`, with a
charge open at the other channel (`MCInit`): how an order got there matters to the desk
only by the stage, full or half. Its requests are symmetric. `Claim` takes an idle
request slot, as every handler. Three withdrawals of at most two cents let one master
use up the balance, overlap and be rejected; `Asked` has a negative amount, one that
rounds to nothing, one that rounds up from half a cent and one that rounds up to all
that is credited. Two refund rows are a rejected and a repeated request, or two
operators' at once. One scan runs at a time: it ends long before the timer fires again;
with two the priority may fall and notes double, which is why `EscalatedIsUrgent` and
`EscalatedOnce` are stated for one. One edit is enough for a category to hang below
itself, an area to open or close beside the switch, a rule to change at every point of a
request; `MaxDepth` is 2 instead of 10, with a chain of three categories and rules for
the upper two, so that the walk stops below one of them and a loop is walked past its
end. `Slots` is empty: orders without an appointment, of which any two are equal, the
hardest case for the bound on duplicates; how appointments are compared no run
exercises. `Codes` has one code in `auth`: codes of different phones meet only through
memory, which is per phone. `MaxTries` lets two overlapping streams of wrong passwords
reach the lock. In `session` three acts are a login in each portal, so that the cookie
gets too long, or two and a change between them or a logout; two tokens run out beside
each other. `CHECK_DEADLOCK FALSE` throughout: the systems stop when every order is at
an end, or the bounds are used up, and nobody calls.

**Fairness.** `live`: `WF(Step(r))`, a call that was sent to the data base or the
channel returns or throws, so a request under way goes on; nobody is obliged to call,
neither users nor the page or channel that reports a payment. `real_channel` adds
`SF(Reported(o))`, the kindest channel, which reports a payment again and again and is
heard: the property is refuted all the same. Under crashes
`RefundCompletes` does not hold, there is no job that takes a stuck refund up;
that is what `MCPlatform_retry_stage.cfg` starts from. `accounts`: `WF(Audit)`,
`setInterval` starts `reconcile` again and again. `tickets`: the timer of the SLA
scan fires again and a scan goes on; nobody is obliged to answer. `pool`: the
overdue scan likewise; a transaction that began ends; a broadcast after its
commit is made; events reach the browser, fetches and grabs are answered. No one
is obliged to open a page or take an order. `session`: pages run, and requests,
refreshes and profiles are answered.

## 4. Proofs

`PlatformProofs`, in five parts.

*Commission.* The parts of a split are non-negative and add up
(`SplitNormalConserves`, `SplitRefundConserves`), from bounds on rounding
(`Mul2Bounds`) and on the ratio (`RefundRatioBounds`). What `keep_commission` keeps
of a refunded order is the commission of an accepted one, or a cent less
(`CommissionIsKept`): a share and the share of the rest, each rounded, exceed the
whole by at most a cent (`Mul2Rest`). The cent is really lost: at 150.55 yuan,
10 % commission and 90 % back, commission and refund are both rounded up.

*Types.* `TypeCorrect`. The lemmas on the shape of `req'` (`BeginType`,
`GotoType`, `UpdateType`, `DoneType`) and `NextCases`, which lists the actions,
are used by everything after it.

*Rows, for any requests and crashes.* `TypeOK` and the properties of the rows are
not inductive alone: a request about to write could carry a move that is not in
the flow, or a refund that never reached the channel. `Inductive` (in `Platform`)
adds `RequestOK`: the move in hand is an edge, a refund past the channel has been
paid back, a sync is of an order that has its settlement; and `OrderOK`, which
ties status, master and settlement. `StepRows` reduces each action to its effect
on the rows of one order (`Taken`, `Moved`, `Confirmed`, `Repaid`, `Judged`, or
nothing), from `Inductive`. `StepRequests` and `OrderStep` then prove `Inductive`
is kept, and the theorems are read off the shapes: `InductiveHolds`,
`LedgerIsConsistent`, `RefundedWasPaidBack`, `StatusKeepsToFlow`,
`MasterIsKept`, `SettlementIsFinal`, and the refinement
`ContractIsImplemented : Spec => ContractSpec`.

*Money.* The rows of an order do not say what was paid, so the shapes of `StepRows` are
refined by what a step does to payment row, channel, settlement and requests: `DeedOn`
of an order, `Shape` of a step (`BoxShapes`). Three invariants of `Platform` say why it
adds up; each is proved with no more excluded than it needs. None relies on an order in
escrow having been charged.

- `EscrowInvariant`: the payment row of an order in escrow, if there is one, is marked
  paid, and a charge in hand is of an order that is not in escrow. Under `PaymentsApart`,
  whatever channel is configured, requests die: `EscrowRowWasPaid`.
- `PayoutInvariant`: earnings are of a completed order, compensation of a refunded
  one, and no refund goes on of an order that was completed. Under `ReleasesApart`,
  requests die: `ReleasedIsKept`.
- `RefundInvariant`: what was returned is the share of the stage the order was left at,
  what is left is in the settlement, and what a refund holds (`seen`, `from` and
  `stage`, read before an await and used after it) is still true of its order. Under
  `RefundsApart`, where no request dies and no call of the channel throws, since nobody
  takes up the refund of one that does: `RefundHolds`, and from it
  `ReturnedIsWithinPrice`, `RefundIsOfItsStage` and `ShownRefundWasPaid`.
  `RefundsAreReleases` shows that `RefundsApart` implies `ReleasesApart`.

The exclusions are exact: without `PaymentsApart` TLC finds the story of
`MCPlatform_charge_race.cfg`, without `ReleasesApart` that of
`MCPlatform_refund_completed.cfg`, and with a rule that has a share of its own for each
stage, allowing any one of the pairs of `RefundsApart` makes TLC refute one of the three
properties; with crashes it refutes them for a single request
(`MCPlatform_retry_stage.cfg`). `SingleRequest` shows that a server that works on one
request at a time meets all three hypotheses.

*What is owed.* `FollowUpInvariant`, whatever overlaps: an order in refunding has a
request that will refund it, a review the request that evaluates its order, unless
requests may die or, for the first, a channel throw (`FollowUpHolds`). Hence
`ReviewWasEvaluated`, so that the crash of `MCPlatform_review_crash.cfg` is the only way
to lose an evaluation, and `PagesAlwaysLeadOn`: a status nobody is at work on is one of
those for which the pages have a button, and the server accepts it.

TLC agreed before they were proved, on one order and two requests under the exclusions of
each.

`AftersaleProofs`: approving refunds completed orders, so `Inductive` does not hold
here: a refunded order may have released its escrow. What does is `Carried`, the part
about requests (the move in hand is one of the flow, a refund on its way to the data
base has been paid), and `RowsForward`: refunded stays refunded, money paid back stays
paid back. `WorkOK` ties a request at the desk to its refund row and to its request in
`refund()`; with it `AftersaleInvariant`, `ApprovedIsPaid` and `RefundResultIsBacked`
hold for any number of requests at the desk. So do the bounds on what operators do at
once. Neither the duplicate test nor the test of a verdict is repeated at the write, so
several operators open several requests, and a row that was rejected is open again when
another reviewer, who read it as pending, approves it. `LiveBounded` counts the rows of
an order that are open or in the hands of a reviewer, together with the operators asking
for one: somebody starts to ask only where none is open, so all that are counted then
are in the hands of other requests, one each (`HeldRows`), and later steps only move a
request from one group to the other. Hence `LiveInvariant`, `OpenIsBounded` and
`ReviewsClose`: a judged row is taken up by nobody new, and who has it in hand writes
once.

`WithdrawalProofs` begins with sums over any number of rows. The library's induction
theorems take an operator and cannot be used, so induction is stated over a set
(`SetInduction`, from the well-foundedness of < on the naturals) and applied to the set
of row counts for which the claim holds. `RunningExists` and `TotalRuns` give the
recursive function its equations; `TotalChange` is what the rest needs: changing one
amount changes the sum by the difference.

`WithdrawalProofs`: `TypeCorrect`, then `BalanceInvariant` and `SingleIsCovered`.
That nothing uncovered is outstanding is not inductive: an insert adds an amount
checked earlier. `BalanceInv` adds that what a request was promised is still
available, and that it is the master's only request. For overlapping requests
`OverdraftInv` counts what was promised as if it were out: a request is accepted
only if what is out plus the amount is within the credits, and each of the others
under way holds at most the credits (`OverdraftInvariant`, `OverdraftIsBounded`).
`SlipIsFinal` is the action property. They hold for any number of masters,
requests and rows and any amounts.

`TicketsProofs`: `TypeCorrect`; `StatusIsKept` for any number of scans. With one
scan, `ScanUpToDate` (what it read of the columns only scans write is still so)
makes the update as good as one of the row itself; with `Counted`, which relates
notes to escalations while the note is outstanding, `EscalationInvariant` is
inductive and gives `EscalatedStaysUrgent` and `EscalatedOncePerDeadline`, for any
number of tickets and staff.

`AccountsProofs`: `AccountInvariant` (types, and a request past its check has the
user and the code it found) gives `MastersAreComplete`. `LockInvariant`: with two
requests at a time the number of failures since the last lock is bounded by a
quadratic in the counter and in what a request is about to write, since a lost
update costs at most the counts made between a read and its write;
`SingleInvariant` is the linear one for one request. Together `LockComesInTime`,
for every limit. `UsesInvariant`: a code in memory has not been used; a code in
the table has been used at most as often as requests have stopped to consume it;
`CodesAreBounded`, for any number of codes, phones and requests.

`OrderingProofs`: `TypeCorrect`. `DuplicatesAreBounded`: that a customer has no more
equal unpaid recent orders than requests is not inductive, as several requests may have
found no equal order and be about to insert. `CountBounded` counts those like the orders
they insert; a request comes to be among them only when there is no equal order, and
then they are at most as many as the requests. `BranchIsClosed` is an action property:
the switch writes what it read as the branch, so an area that serves an address below is
one above, whoever edits at the same time, provided the branch is still within what was
read. `NearestIsResolved`: a request reads category after category, stops after
`MaxDepth` of them, and takes its pick from an unordered list of rules. `WalksOK` says
of a request beside which nothing was edited that what it has walked is a path of
parents (`IsChain`), whole when it reads the rules (`IsWhole`), and that its terms are
those of the nearest rule on it (`TermsFor`): the nearest among the first `MaxDepth`
categories upwards, for every `MaxDepth` and every tree, loops included. A longer chain
hides the rules above, which `MCOrdering_deep_tree.cfg` shows.

`PoolProofs`: `JoinedIsRung` states `ListeningCovers`. A master joins rooms named
after prefixes of its areas, an order rings in the rooms of the prefixes of its
address, while `masterCoversOrder` compares fields: the two agree only as long as
no area leaves the province open, which is `AreasNamed`, what `updateMe` lets
through. `PoolHolds`: every open transaction belongs to the grab or the scan that
will commit it, and no order has two (`Owned`); an order has a master exactly when
it is taken (`HeldWhenTaken`). `HolderIsKept` follows: whoever grabs, assigns,
dispatches or takes back at once, the master an order got is not replaced.
`NothingIsMissed` is the safety core of `HeardIsShown`: what rang at an open page
(`owed`) and may be taken is in its inbox, or a fetch that was asked for, or that
has read it, is under way (`Coming`). It needs that only open pages ring
(`Attended`), and that an order enters the pool once, so a fetch that read too early
is followed by the ring (`ComingStep`). What rings while the socket is away is not
owed and really lost (section 5). `OverdueFindsMaster` is that of
`LateIsDispatched`: `Top` is not empty where there is a candidate, as loads are
naturals and have a least (`LeastExists`), so the scan skips no order it could give
away; it is stated for finitely many orders, over which loads are counted.

`SessionProofs`, for any number of portals, tabs and requests. `SessionHolds`: in every
tab page, requests, refresh and login form fit together; nothing in it depends on which
tokens there are, so the bound on their numbers plays no part. From it
`WaitingIsServed`, the safety core of `RequestsEnd`: requests wait exactly while a
refresh is under way, also when the tab went to the login page in between. And
`LoadingAndLoginApart`: the layout and the login form of a tab never run at once.
`OtherSlotsKept`: in local storage the portals are apart, which the cookie does not
manage. `CookieIsKept` says how far that finding goes: `OtherPortalsKept` holds as long
as no answer is on its way that was made from an older cookie, of a refresh, a login or
a logout, no logout without its token (`CookieIsCurrent`), and none whose cookie would
be too long (`CookieFits`).

TLC checked `CountBounded` and `WalksOK` on the instance of `ordering`, and `Owned`,
`HeldWhenTaken`, `AreasNamed`, `HolderKept`, `PageTypes`, `Attended` and
`OwedIsComing` on that of `pool` (665,796 states with two failures and two changes),
`SessionInv`, `RequestsAreServed`, `LoadingIsOfAPortal` and `SlotsAreApart` on that of
`session`, before they were proved.

Assumptions: `AmountAssumption` (prices are non-negative whole cents),
`SnapshotAssumption` (rates in [0, 1], tiers numbers), `OrdersAssumption`,
`ChannelsAssumption`, `BoundsAssumption`; `DeskAssumption` (finitely many requests),
`RowsAssumption`, `ComplaintAssumption` of `Aftersale`; `MastersAssumption`,
`AmountsAssumption`, `SlipsAssumption`, `OneAtATimeAssumption` of `Withdrawals`;
`NoOneAssumption`, `LeadsAssumption`, `DeathsAssumption` of `Tickets`; those at the head
of `Accounts`: types, finiteness and disjointness of names; `DepthAssumption` of
`Catalogue` (a walk of at least one step), `NodesAssumption`, and the types and
finiteness of `Ordering`; `OpenAssumption` and `AreasAssumption` of `OrderPool`: an area
names its province, which `CreateServiceAreaDto` requires of the areas masters choose
from; and its `StatusAssumption`: a master starts in one of the three statuses of the
schema; `NamesAssumption` of `Session`. TLC evaluates each in the runs of its module.

Every safety property that a passing run checks is the property of a theorem. Only
model-checked is liveness, which needs fairness, beyond the provers used here
(`RefundCompletes`, `ReviewEvaluates`, `OverdraftNoticed`,
`LateIsEscalated`, `HeardIsShown`, `LateIsDispatched`, `RequestsEnd`,
`PageSettles`).

## 5. Where code and comments part

Two of these are runs and listed under `findings` in `PROJECT.json`, several are the
hand-run configurations of section 3; all are what the models do.

Money, `payments/payments.service.ts` (P), `orders/orders.service.ts` (O):
- A payment at a real channel never gets an order out of pending_payment (run
  `real_channel`). `createCharge` passes the orderNo (`wechat.provider.ts:64`,
  `alipay.provider.ts:77`), the notification returns it (94, 118), and `applyPaid` looks
  for an order with that id (P:154). Alipay's notification is not verified either, since
  what it sends is not where `verifyNotify` looks, and its route answers `success`
  whatever happened (`payments.controller.ts:108-110`). `docs/orders-sop.md:130` says that
  going over to a real channel is a matter of configuration.
- A refund at a real channel names the trade by the id of the payment or order (P:232),
  which the channel does not know; the call throws and the order stays in refunding.
- `mockNotify` takes an order into escrow that nobody has charged (P:132-140), and a
  refund of it then returns money that was never taken; so money back is compared with
  the price, not with what was captured.
- Two overlapping refunds both pay back (run `double_refund`); P:214 says the
  guard prevents that. A customer's refund in pending_accept that overlaps a grab
  likewise: the transaction loses, a retry pays again.
- A retried refund takes refunding as its stage and returns everything; P:187-188
  asks for the stage before the move, P:240 says the order can be retried. No page
  offers that retry.
- `cancel` keeps the stage it read although `transition` reads again (O:680).
- A customer refund may overlap the confirmation and return released escrow;
  `shared/src/types.ts:73-75` has completed orders refunded by approved complaints
  only.
- A charge captured for a cancelled order stays (`types.ts:21`: cancelled before
  payment, no refund).
- A second charge sets a paid payment back to pending (P:150-152).
- A review that dies after its insert leaves the order in reviewed
  (`reviews.service.ts:54`).
- Two withdrawals against one balance (`withdrawals.service.ts:13`).
- Under `keep_commission` the platform may keep a cent less than its commission
  (`commission/split.util.ts:32`); `CommissionIsKept` is what holds.
- Aftersale: after a crash between refund and record the request stays pending, but can
  never be approved (already refunded), though P:420 says it can be retried; it can be
  rejected, with the money gone. Two operators at once open two requests; two
  simultaneous approvals both pay; of two verdicts on one row that cross the later one
  stands, so that a rejected request is approved after all. Completed orders are
  refunded in full while the master keeps the earnings. "compensate" creates a
  compensation of 0, which is none. A complaint may be resolved again and again.

Tickets: a comment takes up a ticket that was resolved or closed; overlapping scans
may lower a priority and double notes; without a lead a late ticket loses its
assignee.

Pool: rings go out before the commit, so a page may fetch the order as it was; what
enters between the first fetch and the join, or while a socket is away, is not
fetched again on reconnecting; a master disabled after the check of `grab` keeps the
order; a process that ends after the commit loses the announcement.

Session: a failed profile or refresh clears the slot before it sends the logout, which
then has no token, and the server clears the cookie of every portal; a refresh is stored
under the portal the tab shows by then; the cookie is rebuilt from the one of the
request, so answers out of order lose entries; a refresh in one tab may undo the logout
of another; a cookie above 3500 bytes loses every entry but the one just written, at a
logout all of them.

Auth: the newest code is consumed on arrival in real mode (`MCAccounts_sms_real.cfg`);
counts of wrong passwords get lost; a right login that overlaps failures removes a lock;
a code in the table may be used by two overlapping requests; a new password leaves a
lock.

Areas and catalogue: a district that is switched off is served as long as its city or
province is open and active, though `next/src/app/admin/services/areas/page.tsx:167`
says it is not; a province that is switched off misses districts whose city has no open
row; `updateCategory` checks neither loops nor the depth of what hangs below, and
`setCategoryEnabled` does not end on a loop; trees made deeper than ten levels that way
hide the rules above (`MCOrdering_deep_tree.cfg`), which `commission.service`'s comment
on inheriting does not say; equal orders placed at once are both written; an order found
as equal is returned at its older terms.

Pages: the shares a cancellation pays back are written into the page of an order as
80 % and 50 %, whatever the rules say; no page offers a refund again for an order that
is stuck in refunding; the review button is shown in evaluated too, which the server
refuses, but never without a review (`PagesLeadOn`).

## 6. What is left

1. Money where a refund overlaps another: at most one share more is paid back per
   overlapping refund.
2. Creation and cascading switch of categories; the legacy QR voucher; agreements
   with their versions.
3. Larger instances of `ordering` and `session`: two edits, appointments, two tabs.

## 7. Not modelled

Pages that show and edit rows; reports, metrics, audit log, health; uploads;
agreements, notices, site content, configuration, installation, roles, addresses:
reads and writes of single rows with no protocol between them. These, with seeds,
styles and API wrappers, are most of the repository's lines. Formats and signatures
of the payment channels. Ratings are averaged by the data base. The legacy QR
voucher (`payments.service` create and confirm), which no page uses any more beside
payment in advance. Ticket and refund numbers across days.
