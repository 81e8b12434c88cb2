------------------------------- MODULE Accounts -------------------------------
(***************************************************************************)
(* Accounts of phones: codes sent by SMS and used once, registration, login  *)
(* by code and by password, and the lock after failed passwords. Handlers    *)
(* overlap, one action per await.                                            *)
(***************************************************************************)
EXTENDS Naturals, FiniteSets, TLC

CONSTANTS
  Phones, Requests,
  Modes,            \* what the setting smsMode may be: "mock", "real"
  Passwords, NoHash,
  Roles,            \* "customer", "master"
  MaxFailures,      \* LOGIN_MAX_FAILURES: 5 in the code
  NoUser, NoCode,
  Initial,          \* [Phones -> row or NoUser]: accounts there are
  Codes,            \* bound: codes sent, numbered
  MaxTries          \* bound: logins by password

ASSUME CodesAssumption == Codes \subseteq Nat
ASSUME ModesAssumption == Modes \subseteq {"mock", "real"}
ASSUME FailuresAssumption == MaxFailures \in Nat \ {0}
ASSUME RequestsAssumption == IsFiniteSet(Requests)

UserRow == [role : Roles, hash : Passwords \cup {NoHash}, failures : Nat, locked : BOOLEAN]
CodeRow == [phone : Phones, consumed : BOOLEAN, dead : BOOLEAN]
KeptCode == [code : Codes, dead : BOOLEAN]

ASSUME NullAssumption == NoUser \notin UserRow /\ NoCode \notin CodeRow /\ NoCode \notin KeptCode
ASSUME InitialAssumption ==
  /\ Initial \in [Phones -> UserRow \cup {NoUser}]
  /\ \A p \in Phones : Initial[p] # NoUser => Initial[p].failures < MaxFailures

VARIABLES
  mode,             \* smsMode
  throttled,        \* lastSentAt less than a minute ago
  memo,             \* the code kept in memory, mock mode
  row,              \* table smscode: [Codes -> row or NoCode]
  inbox,            \* codes that reached their phone
  user,             \* table user
  master,           \* phones with a row in table master
  request,          \* handlers under way
  uses,             \* [Codes -> how often a code was accepted]
  misses,           \* [Phones -> wrong passwords answered since the last success or lock]
  tries

vars == <<mode, throttled, memo, row, inbox, user, master, request, uses, misses, tries>>

Idle == [pc |-> "idle"]
Sent == {c \in Codes : row[c] # NoCode} \cup inbox
NextCode == CHOOSE c \in Codes \ Sent : \A d \in Codes \ Sent : c <= d

Goto(r, state) == request' = [request EXCEPT ![r] = state]
Go(r, pc) == Goto(r, [request[r] EXCEPT !.pc = pc])
End(r) == Goto(r, Idle)
At(r, pc) == request[r].pc = pc

-----------------------------------------------------------------------------
(* sendSmsCode.                                                             *)

SendStart(r, p) ==
  /\ At(r, "idle")
  /\ ~throttled[p]
  /\ Codes \ Sent # {}                                    \* bound
  /\ throttled' = [throttled EXCEPT ![p] = TRUE]
  /\ Goto(r, [pc |-> "send", phone |-> p])
  /\ UNCHANGED <<mode, memo, row, inbox, user, master, uses, misses, tries>>

\* Mock mode keeps the code in memory and answers with it.
SendMock(r) ==
  /\ At(r, "send")
  /\ mode = "mock"
  /\ Codes \ Sent # {}
  /\ memo' = [memo EXCEPT ![request[r].phone] = [code |-> NextCode, dead |-> FALSE]]
  /\ inbox' = inbox \cup {NextCode}
  /\ End(r)
  /\ UNCHANGED <<mode, throttled, row, user, master, uses, misses, tries>>

SendCreate(r) ==
  /\ At(r, "send")
  /\ mode = "real"
  /\ Codes \ Sent # {}
  /\ row' = [row EXCEPT ![NextCode] =
       [phone |-> request[r].phone, consumed |-> FALSE, dead |-> FALSE]]
  /\ Goto(r, [pc |-> "supersede", phone |-> request[r].phone, code |-> NextCode])
  /\ UNCHANGED <<mode, throttled, memo, inbox, user, master, uses, misses, tries>>

\* The codes sent before are marked as used; "id not undefined" excepts none, so the new
\* one is marked too. A failure is ignored.
Superseded(p) ==
  [c \in Codes |-> IF row[c] # NoCode /\ row[c].phone = p
                   THEN [row[c] EXCEPT !.consumed = TRUE] ELSE row[c]]

SendSupersede(r) ==
  /\ At(r, "supersede")
  /\ row' \in {row, Superseded(request[r].phone)}
  /\ Go(r, "deliver")
  /\ UNCHANGED <<mode, throttled, memo, inbox, user, master, uses, misses, tries>>

\* The provider delivers or refuses; a refusal leaves the row.
SendDeliver(r) ==
  /\ At(r, "deliver")
  /\ inbox' \in {inbox, inbox \cup {request[r].code}}
  /\ End(r)
  /\ UNCHANGED <<mode, throttled, memo, row, user, master, uses, misses, tries>>

-----------------------------------------------------------------------------
(* verifyCode, and what it opens: registration, login, a new password.      *)

VerifyStart(r, p, c, purpose, role) ==
  /\ At(r, "idle")
  /\ c \in inbox
  /\ Goto(r, [pc |-> "verify", phone |-> p, code |-> c, purpose |-> purpose, role |-> role])
  /\ UNCHANGED <<mode, throttled, memo, row, inbox, user, master, uses, misses, tries>>

Accept(r) ==
  /\ uses' = [uses EXCEPT ![request[r].code] = @ + 1]
  /\ Go(r, "lookup")

\* Mutant: the code stays in memory until it expires.
VerifyMockKept(r) ==
  /\ At(r, "verify")
  /\ mode = "mock"
  /\ LET kept == memo[request[r].phone] IN
     /\ kept # NoCode /\ ~kept.dead /\ kept.code = request[r].code
     /\ Accept(r)
  /\ UNCHANGED <<mode, throttled, memo, row, inbox, user, master, misses, tries>>

\* Compared and deleted without an await in between.
VerifyMock(r) ==
  /\ At(r, "verify")
  /\ mode = "mock"
  /\ LET kept == memo[request[r].phone] IN
     \/ /\ kept # NoCode /\ ~kept.dead /\ kept.code = request[r].code
        /\ memo' = [memo EXCEPT ![request[r].phone] = NoCode]
        /\ Accept(r)
     \/ /\ kept # NoCode /\ kept.dead
        /\ memo' = [memo EXCEPT ![request[r].phone] = NoCode]
        /\ End(r)
        /\ UNCHANGED uses
     \/ /\ kept # NoCode => ~kept.dead /\ kept.code # request[r].code
        /\ End(r)
        /\ UNCHANGED <<memo, uses>>
  /\ UNCHANGED <<mode, throttled, row, inbox, user, master, misses, tries>>

\* The newest code of the phone that may still be used.
Usable(p) == {c \in Codes : row[c] # NoCode /\ row[c].phone = p /\ ~row[c].consumed /\ ~row[c].dead}
IsNewest(p, c) == c \in Usable(p) /\ \A d \in Usable(p) : d <= c

VerifyFind(r) ==
  /\ At(r, "verify")
  /\ mode = "real"
  /\ IF IsNewest(request[r].phone, request[r].code) THEN Go(r, "consume") ELSE End(r)
  /\ UNCHANGED <<mode, throttled, memo, row, inbox, user, master, uses, misses, tries>>

VerifyConsume(r) ==
  /\ At(r, "consume")
  /\ row' = [row EXCEPT ![request[r].code].consumed = TRUE]
  /\ Accept(r)
  /\ UNCHANGED <<mode, throttled, memo, inbox, user, master, misses, tries>>

Exists(r) == user[request[r].phone] # NoUser

\* Registering needs a phone without an account, a new password one with it; a login
\* makes an account where there is none.
Lookup(r) ==
  /\ At(r, "lookup")
  /\ CASE request[r].purpose = "register" -> IF Exists(r) THEN End(r) ELSE Go(r, "create")
       [] request[r].purpose = "login" -> IF Exists(r) THEN End(r) ELSE Go(r, "create")
       [] request[r].purpose = "reset" -> IF Exists(r) THEN Go(r, "password") ELSE End(r)
  /\ UNCHANGED <<mode, throttled, memo, row, inbox, user, master, uses, misses, tries>>

NewUser(role) == [role |-> role, hash |-> NoHash, failures |-> 0, locked |-> FALSE]

\* Mutant: the account of a master is written by itself, the master left to a later call.
CreateUserFirst(r) ==
  /\ At(r, "create")
  /\ IF Exists(r) THEN UNCHANGED user
     ELSE user' = [user EXCEPT ![request[r].phone] = NewUser(request[r].role)]
  /\ End(r)
  /\ UNCHANGED <<mode, throttled, memo, row, inbox, master, uses, misses, tries>>

\* The phone is unique: who comes second fails. A master is written in the same transaction.
CreateUser(r) ==
  /\ At(r, "create")
  /\ LET p == request[r].phone IN
     IF Exists(r) THEN UNCHANGED <<user, master>>
     ELSE /\ user' = [user EXCEPT ![p] = NewUser(request[r].role)]
          /\ master' = master \cup (IF request[r].role = "master" THEN {p} ELSE {})
  /\ End(r)
  /\ UNCHANGED <<mode, throttled, memo, row, inbox, uses, misses, tries>>

\* Failures and lock stay as they are.
SetPassword(r) ==
  /\ At(r, "password")
  /\ \E hash \in Passwords : user' = [user EXCEPT ![request[r].phone].hash = hash]
  /\ End(r)
  /\ UNCHANGED <<mode, throttled, memo, row, inbox, master, uses, misses, tries>>

-----------------------------------------------------------------------------
(* Login by password: the row is read, the password compared with what was   *)
(* read, and the outcome recorded in the row of then.                        *)

LoginStart(r, p, password) ==
  /\ At(r, "idle")
  /\ tries < MaxTries                                     \* bound
  /\ tries' = tries + 1
  /\ user[p] # NoUser
  /\ user[p].hash # NoHash
  /\ ~user[p].locked
  /\ Goto(r, [pc |-> IF password = user[p].hash THEN "right" ELSE "wrong", phone |-> p])
  /\ UNCHANGED <<mode, throttled, memo, row, inbox, user, master, uses, misses>>

FailureRead(r) ==
  /\ At(r, "wrong")
  /\ Goto(r, [pc |-> "count", phone |-> request[r].phone,
              attempts |-> user[request[r].phone].failures + 1])
  /\ UNCHANGED <<mode, throttled, memo, row, inbox, user, master, uses, misses, tries>>

\* Mutant: the lock comes one failure late.
LocksLate(attempts) == attempts > MaxFailures

Locks(attempts) == attempts >= MaxFailures

FailureWrite(r) ==
  /\ At(r, "count")
  /\ LET p == request[r].phone
         locks == Locks(request[r].attempts)
     IN  /\ user' = [user EXCEPT ![p].failures = IF locks THEN 0 ELSE request[r].attempts,
                                 ![p].locked = locks \/ @]
         /\ misses' = [misses EXCEPT ![p] = IF locks THEN 0 ELSE @ + 1]
  /\ End(r)
  /\ UNCHANGED <<mode, throttled, memo, row, inbox, master, uses, tries>>

\* A login that was right before others failed takes their lock away.
LoginSuccess(r) ==
  /\ At(r, "right")
  /\ user' = [user EXCEPT ![request[r].phone].failures = 0, ![request[r].phone].locked = FALSE]
  /\ misses' = [misses EXCEPT ![request[r].phone] = 0]
  /\ End(r)
  /\ UNCHANGED <<mode, throttled, memo, row, inbox, master, uses, tries>>

-----------------------------------------------------------------------------
(* Time, and a process that dies.                                           *)

Minute(p) ==
  /\ throttled[p]
  /\ throttled' = [throttled EXCEPT ![p] = FALSE]
  /\ UNCHANGED <<mode, memo, row, inbox, user, master, request, uses, misses, tries>>

FiveMinutes(c) ==
  /\ \/ /\ row[c] # NoCode /\ ~row[c].dead
        /\ row' = [row EXCEPT ![c].dead = TRUE]
        /\ UNCHANGED memo
     \/ \E p \in Phones :
          /\ memo[p] # NoCode /\ memo[p].code = c /\ ~memo[p].dead
          /\ memo' = [memo EXCEPT ![p].dead = TRUE]
          /\ UNCHANGED row
  /\ UNCHANGED <<mode, throttled, inbox, user, master, request, uses, misses, tries>>

LockRunsOut(p) ==
  /\ user[p] # NoUser
  /\ user[p].locked
  /\ user' = [user EXCEPT ![p].locked = FALSE]
  /\ UNCHANGED <<mode, throttled, memo, row, inbox, master, request, uses, misses, tries>>

\* An administrator changes the setting; each handler reads it when it gets there.
ChangeMode ==
  /\ mode' \in Modes \ {mode}
  /\ UNCHANGED <<throttled, memo, row, inbox, user, master, request, uses, misses, tries>>

\* Memory is lost with the process, and every handler in it.
Restart ==
  /\ \E r \in Requests : request[r] # Idle
  /\ request' = [r \in Requests |-> Idle]
  /\ memo' = [p \in Phones |-> NoCode]
  /\ throttled' = [p \in Phones |-> FALSE]
  /\ UNCHANGED <<mode, row, inbox, user, master, uses, misses, tries>>

-----------------------------------------------------------------------------
Init ==
  /\ mode \in Modes
  /\ throttled = [p \in Phones |-> FALSE]
  /\ memo = [p \in Phones |-> NoCode]
  /\ row = [c \in Codes |-> NoCode]
  /\ inbox = {}
  /\ user = Initial
  /\ master = {p \in Phones : Initial[p] # NoUser /\ Initial[p].role = "master"}
  /\ request = [r \in Requests |-> Idle]
  /\ uses = [c \in Codes |-> 0]
  /\ misses = [p \in Phones |-> 0]
  /\ tries = 0

Step(r) ==
  \/ \E p \in Phones :
       \/ SendStart(r, p)
       \/ \E c \in Codes, purpose \in {"register", "login", "reset"}, role \in Roles :
            VerifyStart(r, p, c, purpose, role)
       \/ \E password \in Passwords : LoginStart(r, p, password)
  \/ SendMock(r)
  \/ SendCreate(r)
  \/ SendSupersede(r)
  \/ SendDeliver(r)
  \/ VerifyMock(r)
  \/ VerifyFind(r)
  \/ VerifyConsume(r)
  \/ Lookup(r)
  \/ CreateUser(r)
  \/ SetPassword(r)
  \/ FailureRead(r)
  \/ FailureWrite(r)
  \/ LoginSuccess(r)

Next ==
  \/ \E r \in Requests : Step(r)
  \/ \E p \in Phones : Minute(p) \/ LockRunsOut(p)
  \/ \E c \in Codes : FiveMinutes(c)
  \/ ChangeMode
  \/ Restart

Spec == Init /\ [][Next]_vars

-----------------------------------------------------------------------------
(* Properties.                                                              *)

\* A code opens one thing, whatever becomes of the setting meanwhile. Codes kept in the
\* table are found and marked in two statements: there one code opens at most as many as
\* requests overlap.
CodeUsesBounded ==
  \A c \in Codes : uses[c] <= IF row[c] = NoCode THEN 1 ELSE Cardinality(Requests)

\* An account of a master has its master, whenever the process dies: who is asked for
\* orders is never half registered.
MasterComplete ==
  \A p \in Phones : user[p] # NoUser /\ user[p].role = "master" => p \in master

\* Failures are counted with a read and a write, so counts get lost when tries overlap;
\* still the lock comes: with two at a time at the latest with the n (n + 1) / 2 th wrong
\* password in a row, where one at a time are locked with the n th.
LockComes ==
  LET n == MaxFailures
      last == IF Cardinality(Requests) = 1 THEN n ELSE (n * (n + 1)) \div 2
  IN  Cardinality(Requests) <= 2 => \A p \in Phones : misses[p] < last

\* The newest code that reached its phone, not used and not expired, can be used: only
\* older ones are marked as used when it is sent. Not so: the new one is marked too.
NewestUsable ==
  \A c \in inbox :
    /\ row[c] # NoCode /\ ~row[c].dead /\ uses[c] = 0
    /\ \A d \in Codes : row[d] # NoCode /\ row[d].phone = row[c].phone => d <= c
    => c \in Usable(row[c].phone)
=============================================================================
