--------------------------- MODULE AccountsProofs ---------------------------
(***************************************************************************)
(* What Accounts keeps for any number of phones, codes and requests and any  *)
(* number of failures before the lock.                                       *)
(***************************************************************************)
EXTENDS Accounts, FiniteSetTheorems, WellFoundedInduction, TLAPS

Purposes == {"register", "login", "reset"}
Sending == [pc : {"send"}, phone : Phones]
Delivering == [pc : {"supersede", "deliver"}, phone : Phones, code : Codes]
Verifying == [pc : {"verify", "consume", "lookup", "create", "password"}, phone : Phones,
              code : Codes, purpose : Purposes, role : Roles]
Trying == [pc : {"right", "wrong"}, phone : Phones]
Counting == [pc : {"count"}, phone : Phones, attempts : Nat]
Handler == {Idle} \cup Sending \cup Delivering \cup Verifying \cup Trying \cup Counting

TypeOK ==
  /\ mode \in Modes
  /\ throttled \in [Phones -> BOOLEAN]
  /\ memo \in [Phones -> KeptCode \cup {NoCode}]
  /\ row \in [Codes -> CodeRow \cup {NoCode}]
  /\ inbox \subseteq Codes
  /\ user \in [Phones -> UserRow \cup {NoUser}]
  /\ request \in [Requests -> Handler]
  /\ uses \in [Codes -> Nat]
  /\ misses \in [Phones -> Nat]

\* An account is there when a handler writes to it: accounts are never removed.
NeedUser == {"password", "right", "wrong", "count"}
AccountThere == \A r \in Requests : request[r].pc \in NeedUser => Exists(r)
CodeThere == \A r \in Requests : request[r].pc = "consume" => row[request[r].code] # NoCode

LEMMA HandlerType ==
  ASSUME NEW h \in Handler
  PROVE  /\ h.pc = "idle" => h = Idle
         /\ h.pc = "send" => h \in Sending
         /\ h.pc \in {"supersede", "deliver"} => h \in Delivering
         /\ h.pc \in {"verify", "consume", "lookup", "create", "password"} => h \in Verifying
         /\ h.pc \in {"right", "wrong"} => h \in Trying
         /\ h.pc = "count" => h \in Counting
BY DEF Handler, Idle, Sending, Delivering, Verifying, Trying, Counting

LEMMA LessThanIsWellFounded ==
  \E R : /\ IsWellFoundedOn(R, Nat)
         /\ \A i, j \in Nat : i < j => <<i, j>> \in R
<1> DEFINE R == OpToRel(<, Nat)
<1>1. IsWellFoundedOn(R, Nat)
  BY NatLessThanWellFounded
<1>2. \A i, j \in Nat : i < j => <<i, j>> \in R
  BY DEF OpToRel
<1> HIDE DEF R
<1> QED
  BY <1>1, <1>2

LEMMA HasMinimal ==
  ASSUME NEW R, NEW S, IsWellFoundedOn(R, S), NEW T, T \subseteq S, T # {}
  PROVE  \E x \in T : \A y \in T : ~(<<y, x>> \in R)
BY WFMin, SMT

\* The next code is one not sent yet: the naturals are well ordered.
LEMMA NextCodeFresh ==
  ASSUME Codes \ Sent # {}
  PROVE  NextCode \in Codes \ Sent
<1> DEFINE Free == Codes \ Sent
<1>1. Free \subseteq Nat /\ Free # {}
  BY CodesAssumption
<1> HIDE DEF Free
<1>2. PICK R : /\ IsWellFoundedOn(R, Nat)
               /\ \A i, j \in Nat : i < j => <<i, j>> \in R
  BY LessThanIsWellFounded
<1>3. IsWellFoundedOn(R, Nat)
  BY <1>2
<1>4. Free \subseteq Nat
  BY <1>1
<1>5. Free # {}
  BY <1>1
<1>6. \E c \in Free : \A d \in Free : ~(<<d, c>> \in R)
  BY <1>3, <1>4, <1>5, HasMinimal, Zenon
<1>7. PICK c \in Free : \A d \in Free : ~(<<d, c>> \in R)
  BY <1>6
<1>8. ASSUME NEW d \in Free PROVE c <= d
  <2>1. c \in Nat /\ d \in Nat /\ ~(<<d, c>> \in R)
    BY <1>4, <1>7
  <2>2. ~(d < c)
    BY <1>2, <2>1
  <2> QED BY <2>1, <2>2
<1> QED BY <1>8 DEF NextCode, Free

-----------------------------------------------------------------------------
(* The shape of request after a step.                                       *)

LEMMA EndShape ==
  ASSUME TypeOK, NEW r \in Requests, End(r)
  PROVE  /\ request' \in [Requests -> Handler]
         /\ request'[r] = Idle
         /\ \A s \in Requests \ {r} : request'[s] = request[s]
BY DEF End, Goto, TypeOK, Handler

LEMMA GotoShape ==
  ASSUME TypeOK, NEW r \in Requests, NEW h \in Handler, Goto(r, h)
  PROVE  /\ request' \in [Requests -> Handler]
         /\ request'[r] = h
         /\ \A s \in Requests \ {r} : request'[s] = request[s]
BY DEF Goto, TypeOK

LEMMA GoShape ==
  ASSUME TypeOK, NEW r \in Requests, NEW pc, Go(r, pc),
         \/ request[r] \in Delivering /\ pc = "deliver"
         \/ request[r] \in Verifying /\ pc \in {"consume", "lookup", "create", "password"}
  PROVE  /\ request' \in [Requests -> Handler]
         /\ request'[r] = [request[r] EXCEPT !.pc = pc]
         /\ request'[r].pc = pc
         /\ request'[r].phone = request[r].phone
         /\ request'[r].code = request[r].code
         /\ \A s \in Requests \ {r} : request'[s] = request[s]
<1>1. [request[r] EXCEPT !.pc = pc] \in Delivering \cup Verifying
  BY DEF Delivering, Verifying
<1> QED BY <1>1 DEF Go, Goto, TypeOK, Handler, Delivering, Verifying

LEMMA RequestType ==
  ASSUME TypeOK, NEW r \in Requests
  PROVE  /\ request[r] \in Handler
         /\ request[r].pc = "idle" => request[r] = Idle
         /\ request[r].pc = "send" => request[r].phone \in Phones
         /\ request[r].pc \in {"supersede", "deliver"} =>
              request[r] \in Delivering /\ request[r].phone \in Phones /\ request[r].code \in Codes
         /\ request[r].pc \in {"verify", "consume", "lookup", "create", "password"} =>
              /\ request[r] \in Verifying /\ request[r].phone \in Phones
              /\ request[r].code \in Codes /\ request[r].role \in Roles
              /\ request[r].purpose \in Purposes
         /\ request[r].pc \in {"right", "wrong"} => request[r].phone \in Phones
         /\ request[r].pc = "count" => request[r].phone \in Phones /\ request[r].attempts \in Nat
<1>1. request[r] \in Handler
  BY DEF TypeOK
<1> QED BY <1>1, HandlerType DEF Sending, Delivering, Verifying, Trying, Counting

\* The actions of Next, one by one.
LEMMA NextCases ==
  ASSUME NEW P, Next,
         \A r \in Requests : (\E p \in Phones : SendStart(r, p)) => P,
         \A r \in Requests :
           (\E p \in Phones, c \in Codes, purpose \in Purposes, role \in Roles :
              VerifyStart(r, p, c, purpose, role)) => P,
         \A r \in Requests : (\E p \in Phones, password \in Passwords : LoginStart(r, p, password)) => P,
         \A r \in Requests : SendMock(r) => P,
         \A r \in Requests : SendCreate(r) => P,
         \A r \in Requests : SendSupersede(r) => P,
         \A r \in Requests : SendDeliver(r) => P,
         \A r \in Requests : VerifyMock(r) => P,
         \A r \in Requests : VerifyFind(r) => P,
         \A r \in Requests : VerifyConsume(r) => P,
         \A r \in Requests : Lookup(r) => P,
         \A r \in Requests : CreateUser(r) => P,
         \A r \in Requests : SetPassword(r) => P,
         \A r \in Requests : FailureRead(r) => P,
         \A r \in Requests : FailureWrite(r) => P,
         \A r \in Requests : LoginSuccess(r) => P,
         \A p \in Phones : Minute(p) => P,
         \A p \in Phones : LockRunsOut(p) => P,
         \A c \in Codes : FiveMinutes(c) => P,
         ChangeMode => P,
         Restart => P
  PROVE  P
BY Zenon DEF Next, Step, Purposes

\* The accounts after a step: as before, one more, or one changed.
UserSame == UNCHANGED <<user, master>>

UserNew(p, role) ==
  /\ user[p] = NoUser
  /\ user' = [user EXCEPT ![p] = NewUser(role)]
  /\ master' = master \cup (IF role = "master" THEN {p} ELSE {})

UserChanged(p) ==
  /\ user[p] # NoUser
  /\ \E row1 \in UserRow : user' = [user EXCEPT ![p] = row1] /\ row1.role = user[p].role
  /\ UNCHANGED master

LEMMA UserKept ==
  ASSUME TypeOK,
         \/ UserSame
         \/ \E p \in Phones, role \in Roles : UserNew(p, role)
         \/ \E p \in Phones : UserChanged(p)
  PROVE  /\ user' \in [Phones -> UserRow \cup {NoUser}]
         /\ \A p \in Phones : user[p] # NoUser => user'[p] # NoUser
         /\ MasterComplete => MasterComplete'
<1> USE DEF TypeOK
<1>1. CASE UserSame
  BY <1>1 DEF UserSame, MasterComplete
<1>2. CASE \E p \in Phones, role \in Roles : UserNew(p, role)
  <2>1. PICK p \in Phones, role \in Roles : UserNew(p, role)
    BY <1>2
  <2>2. NewUser(role) \in UserRow /\ NewUser(role).role = role
    BY DEF NewUser, UserRow
  <2> HIDE DEF NewUser
  <2> QED BY <2>1, <2>2, NullAssumption DEF UserNew, MasterComplete
<1>3. CASE \E p \in Phones : UserChanged(p)
  <2>1. PICK p \in Phones, row1 \in UserRow :
          /\ user[p] # NoUser /\ user' = [user EXCEPT ![p] = row1]
          /\ row1.role = user[p].role /\ UNCHANGED master
    BY <1>3 DEF UserChanged
  <2> QED BY <2>1, NullAssumption DEF MasterComplete
<1> QED BY <1>1, <1>2, <1>3

LEMMA ThereKept ==
  ASSUME TypeOK, AccountThere, NEW r \in Requests,
         \A p \in Phones : user[p] # NoUser => user'[p] # NoUser,
         \A s \in Requests \ {r} : request'[s] = request[s],
         request'[r].pc \in NeedUser => user'[request'[r].phone] # NoUser
  PROVE  AccountThere'
<1>1. ASSUME NEW s \in Requests, request'[s].pc \in NeedUser
      PROVE  user'[request'[s].phone] # NoUser
  <2>1. CASE s = r
    BY <1>1, <2>1
  <2>2. CASE s # r
    BY <1>1, <2>2, RequestType DEF AccountThere, Exists, NeedUser
  <2> QED BY <2>1, <2>2
<1> QED BY <1>1 DEF AccountThere, Exists

LEMMA CodeKept ==
  ASSUME TypeOK, CodeThere, NEW r \in Requests,
         \A c \in Codes : row[c] # NoCode => row'[c] # NoCode,
         \A s \in Requests \ {r} : request'[s] = request[s],
         request'[r].pc = "consume" => row'[request'[r].code] # NoCode
  PROVE  CodeThere'
<1>1. ASSUME NEW s \in Requests, request'[s].pc = "consume"
      PROVE  row'[request'[s].code] # NoCode
  <2>1. CASE s = r
    BY <1>1, <2>1
  <2>2. CASE s # r
    BY <1>1, <2>2, RequestType DEF CodeThere
  <2> QED BY <2>1, <2>2
<1> QED BY <1>1 DEF CodeThere

AccountInv == TypeOK /\ AccountThere /\ CodeThere /\ MasterComplete

\* What a step of request r leaves to show.
LEMMA StepKeeps ==
  ASSUME AccountInv, NEW r \in Requests,
         \/ UserSame
         \/ \E p \in Phones, role \in Roles : UserNew(p, role)
         \/ \E p \in Phones : UserChanged(p),
         request' \in [Requests -> Handler],
         \A s \in Requests \ {r} : request'[s] = request[s],
         request'[r].pc \in NeedUser => user'[request'[r].phone] # NoUser,
         request'[r].pc = "consume" => row'[request'[r].code] # NoCode,
         \A c \in Codes : row[c] # NoCode => row'[c] # NoCode,
         mode' = mode, throttled' \in [Phones -> BOOLEAN],
         memo' \in [Phones -> KeptCode \cup {NoCode}],
         row' \in [Codes -> CodeRow \cup {NoCode}],
         inbox' \subseteq Codes,
         uses' \in [Codes -> Nat],
         misses' \in [Phones -> Nat]
  PROVE  AccountInv'
<1>1. /\ user' \in [Phones -> UserRow \cup {NoUser}]
      /\ \A p \in Phones : user[p] # NoUser => user'[p] # NoUser
      /\ MasterComplete'
  BY UserKept DEF AccountInv
<1>2. AccountThere' /\ CodeThere'
  BY <1>1, ThereKept, CodeKept DEF AccountInv
<1>3. TypeOK'
  BY <1>1 DEF TypeOK, AccountInv
<1> QED BY <1>1, <1>2, <1>3 DEF AccountInv

LEMMA IdleIsIdle == Idle.pc = "idle" /\ Idle \in Handler /\ Idle.pc \notin NeedUser
BY DEF Idle, Handler, NeedUser

\* A step that ends its request without touching an account or a code.
LEMMA EndKeeps ==
  ASSUME AccountInv, NEW r \in Requests, End(r), UserSame,
         UNCHANGED <<mode, throttled, uses, misses>>,
         memo' \in [Phones -> KeptCode \cup {NoCode}],
         row' \in [Codes -> CodeRow \cup {NoCode}],
         \A c \in Codes : row[c] # NoCode => row'[c] # NoCode,
         inbox' \subseteq Codes
  PROVE  AccountInv'
BY EndShape, IdleIsIdle, StepKeeps DEF AccountInv, TypeOK

\* A step that goes on to the next call of its handler.
LEMMA GoKeeps ==
  ASSUME AccountInv, NEW r \in Requests, NEW pc, Go(r, pc), UserSame,
         \/ request[r] \in Delivering /\ pc = "deliver"
         \/ request[r] \in Verifying /\ pc \in {"consume", "lookup", "create", "password"},
         pc = "password" => Exists(r),
         pc = "consume" => row[request[r].code] # NoCode,
         UNCHANGED <<mode, throttled, misses, inbox>>,
         uses' \in [Codes -> Nat],
         memo' \in [Phones -> KeptCode \cup {NoCode}],
         row' \in [Codes -> CodeRow \cup {NoCode}],
         \A c \in Codes : row[c] # NoCode => row'[c] # NoCode
  PROVE  AccountInv'
<1>1. /\ request' \in [Requests -> Handler]
      /\ request'[r].pc = pc
      /\ request'[r].phone = request[r].phone
      /\ request'[r].code = request[r].code
      /\ \A s \in Requests \ {r} : request'[s] = request[s]
  BY GoShape DEF AccountInv
<1>2. request'[r].pc \in NeedUser => user'[request'[r].phone] # NoUser
  BY <1>1 DEF NeedUser, UserSame, Exists
<1>3. request'[r].pc = "consume" => row'[request'[r].code] # NoCode
  BY <1>1 DEF Verifying
<1> QED BY <1>1, <1>2, <1>3, StepKeeps DEF AccountInv, TypeOK

\* Tables and handlers keep their types; a request past its check has the user and the
\* code it found, and a user who is a master has the row of one.
THEOREM AccountInvariant == Spec => []AccountInv
<1>1. Init => AccountInv
  <2> SUFFICES ASSUME Init PROVE AccountInv
    OBVIOUS
  <2>1. TypeOK
    BY InitialAssumption, IdleIsIdle DEF Init, TypeOK
  <2>2. AccountThere
    BY IdleIsIdle DEF Init, AccountThere
  <2>3. CodeThere /\ MasterComplete
    BY IdleIsIdle DEF Init, CodeThere, MasterComplete
  <2> QED BY <2>1, <2>2, <2>3 DEF AccountInv
<1>2. AccountInv /\ [Next]_vars => AccountInv'
  <2> SUFFICES ASSUME AccountInv, [Next]_vars PROVE AccountInv'
    OBVIOUS
  <2> USE DEF AccountInv
  <2>1. CASE UNCHANGED vars
    BY <2>1 DEF vars, TypeOK, AccountThere, CodeThere, MasterComplete, Exists
  <2>2. CASE Next
    <3> DEFINE Goal == AccountInv'
    <3>1. ASSUME NEW r \in Requests, \E p \in Phones : SendStart(r, p) PROVE Goal
      <4>1. PICK p \in Phones : SendStart(r, p)
        BY <3>1
      <4>2. [pc |-> "send", phone |-> p] \in Handler
        BY DEF Handler, Sending
      <4>3. /\ request' \in [Requests -> Handler]
            /\ request'[r] = [pc |-> "send", phone |-> p]
            /\ \A s \in Requests \ {r} : request'[s] = request[s]
        BY <4>1, <4>2, GotoShape DEF SendStart
      <4>4. throttled' \in [Phones -> BOOLEAN]
        BY <4>1 DEF SendStart, TypeOK
      <4> QED BY <4>1, <4>3, <4>4, StepKeeps DEF SendStart, UserSame, TypeOK, NeedUser
    <3>2. ASSUME NEW r \in Requests,
                 \E p \in Phones, c \in Codes, purpose \in Purposes, role \in Roles :
                   VerifyStart(r, p, c, purpose, role)
          PROVE  Goal
      <4>1. PICK p \in Phones, c \in Codes, purpose \in Purposes, role \in Roles :
                   VerifyStart(r, p, c, purpose, role)
        BY <3>2
      <4> DEFINE h == [pc |-> "verify", phone |-> p, code |-> c, purpose |-> purpose, role |-> role]
      <4>2. h \in Handler /\ h.pc = "verify"
        BY DEF Handler, Verifying
      <4> HIDE DEF h
      <4>3. /\ request' \in [Requests -> Handler]
            /\ request'[r] = h
            /\ \A s \in Requests \ {r} : request'[s] = request[s]
        BY <4>1, <4>2, GotoShape DEF VerifyStart, h
      <4> QED BY <4>1, <4>2, <4>3, StepKeeps DEF VerifyStart, UserSame, TypeOK, NeedUser
    <3>3. ASSUME NEW r \in Requests,
                 \E p \in Phones, password \in Passwords : LoginStart(r, p, password)
          PROVE  Goal
      <4>1. PICK p \in Phones, password \in Passwords : LoginStart(r, p, password)
        BY <3>3
      <4> DEFINE h == [pc |-> IF password = user[p].hash THEN "right" ELSE "wrong", phone |-> p]
      <4>2. h \in Handler /\ h.phone = p /\ h.pc # "consume"
        BY DEF Handler, Trying
      <4> HIDE DEF h
      <4>3. /\ request' \in [Requests -> Handler]
            /\ request'[r] = h
            /\ \A s \in Requests \ {r} : request'[s] = request[s]
        BY <4>1, <4>2, GotoShape DEF LoginStart, h
      <4> QED BY <4>1, <4>2, <4>3, StepKeeps DEF LoginStart, UserSame, TypeOK
    <3>4. ASSUME NEW r \in Requests, SendMock(r) PROVE Goal
      <4>1. NextCode \in Codes /\ request[r].phone \in Phones
        BY <3>4, NextCodeFresh, RequestType DEF SendMock, At
      <4>2. [code |-> NextCode, dead |-> FALSE] \in KeptCode
        BY <4>1 DEF KeptCode
      <4>3. memo' \in [Phones -> KeptCode \cup {NoCode}] /\ inbox' \subseteq Codes
        BY <3>4, <4>1, <4>2 DEF SendMock, TypeOK
      <4> QED BY <3>4, <4>3, EndKeeps DEF SendMock, UserSame, TypeOK
    <3>5. ASSUME NEW r \in Requests, SendCreate(r) PROVE Goal
      <4>1. NextCode \in Codes /\ request[r].phone \in Phones
        BY <3>5, NextCodeFresh, RequestType DEF SendCreate, At
      <4> DEFINE new == [phone |-> request[r].phone, consumed |-> FALSE, dead |-> FALSE]
                 h == [pc |-> "supersede", phone |-> request[r].phone, code |-> NextCode]
      <4>2. new \in CodeRow
        BY <4>1 DEF CodeRow
      <4>3. h \in Handler /\ h.pc = "supersede"
        BY <4>1 DEF Handler, Delivering
      <4> HIDE DEF new, h
      <4>4. row' \in [Codes -> CodeRow \cup {NoCode}]
        BY <3>5, <4>1, <4>2 DEF SendCreate, TypeOK, new
      <4>5. /\ request' \in [Requests -> Handler]
            /\ request'[r] = h
            /\ \A s \in Requests \ {r} : request'[s] = request[s]
        BY <3>5, <4>3, GotoShape DEF SendCreate, h
      <4>6. \A c \in Codes : row[c] # NoCode => row'[c] # NoCode
        BY <3>5, <4>1, <4>2, NullAssumption DEF SendCreate, TypeOK, new
      <4> QED BY <3>5, <4>3, <4>4, <4>5, <4>6, StepKeeps DEF SendCreate, UserSame, TypeOK, NeedUser
    <3>6. ASSUME NEW r \in Requests, SendSupersede(r) PROVE Goal
      <4>1. request[r] \in Delivering /\ request[r].phone \in Phones
        BY <3>6, RequestType DEF SendSupersede, At
      <4>2. Superseded(request[r].phone) \in [Codes -> CodeRow \cup {NoCode}]
        BY <4>1 DEF Superseded, TypeOK, CodeRow
      <4>3. row' \in [Codes -> CodeRow \cup {NoCode}]
        BY <3>6, <4>2 DEF SendSupersede, TypeOK
      <4>4. \A c \in Codes : row[c] # NoCode => row'[c] # NoCode
        BY <3>6, <4>2, NullAssumption DEF SendSupersede, Superseded, TypeOK, CodeRow
      <4> QED BY <3>6, <4>1, <4>3, <4>4, GoKeeps DEF SendSupersede, UserSame, TypeOK
    <3>7. ASSUME NEW r \in Requests, SendDeliver(r) PROVE Goal
      <4>1. request[r].code \in Codes
        BY <3>7, RequestType DEF SendDeliver, At
      <4> QED BY <3>7, <4>1, EndKeeps DEF SendDeliver, UserSame, TypeOK
    <3>8. ASSUME NEW r \in Requests, VerifyMock(r) PROVE Goal
      <4>1. request[r] \in Verifying /\ request[r].phone \in Phones /\ request[r].code \in Codes
        BY <3>8, RequestType DEF VerifyMock, At
      <4>2. memo' \in [Phones -> KeptCode \cup {NoCode}] /\ UserSame
            /\ UNCHANGED <<mode, throttled, row, inbox, misses>>
        BY <3>8, <4>1 DEF VerifyMock, TypeOK, UserSame
      <4>3. CASE Accept(r)
        <5>1. uses' \in [Codes -> Nat]
          BY <4>1, <4>3 DEF Accept, TypeOK
        <5> QED BY <4>1, <4>2, <4>3, <5>1, GoKeeps DEF Accept, TypeOK
      <4>4. CASE End(r) /\ UNCHANGED uses
        BY <4>2, <4>4, EndKeeps DEF TypeOK
      <4> QED BY <3>8, <4>3, <4>4 DEF VerifyMock
    <3>9. ASSUME NEW r \in Requests, VerifyFind(r) PROVE Goal
      <4>1. request[r] \in Verifying
        BY <3>9, RequestType DEF VerifyFind, At
      <4>2. CASE IsNewest(request[r].phone, request[r].code)
        <5>1. Go(r, "consume") /\ row[request[r].code] # NoCode
          BY <3>9, <4>2 DEF VerifyFind, IsNewest, Usable
        <5> QED BY <3>9, <4>1, <5>1, GoKeeps DEF VerifyFind, UserSame, TypeOK
      <4>3. CASE ~IsNewest(request[r].phone, request[r].code)
        <5>1. End(r)
          BY <3>9, <4>3 DEF VerifyFind
        <5> QED BY <3>9, <5>1, EndKeeps DEF VerifyFind, UserSame, TypeOK
      <4> QED BY <4>2, <4>3
    <3>10. ASSUME NEW r \in Requests, VerifyConsume(r) PROVE Goal
      <4>1. request[r] \in Verifying /\ request[r].code \in Codes
        BY <3>10, RequestType DEF VerifyConsume, At
      <4>2. row[request[r].code] \in CodeRow
        BY <3>10, <4>1 DEF VerifyConsume, At, CodeThere, TypeOK
      <4> DEFINE marked == [row[request[r].code] EXCEPT !.consumed = TRUE]
      <4>5. marked \in CodeRow
        BY <4>2 DEF CodeRow
      <4>3. uses' \in [Codes -> Nat]
        BY <3>10, <4>1 DEF VerifyConsume, Accept, TypeOK
      <4>4. row' \in [Codes -> CodeRow \cup {NoCode}]
        BY <3>10, <4>1, <4>5 DEF VerifyConsume, TypeOK
      <4>6. \A c \in Codes : row[c] # NoCode => row'[c] # NoCode
        BY <3>10, <4>1, <4>5, NullAssumption DEF VerifyConsume, TypeOK
      <4> QED BY <3>10, <4>1, <4>3, <4>4, <4>6, GoKeeps
              DEF VerifyConsume, Accept, UserSame, TypeOK
    <3>11. ASSUME NEW r \in Requests, Lookup(r) PROVE Goal
      <4>1. request[r] \in Verifying
        BY <3>11, RequestType DEF Lookup, At
      <4>2. UserSame
        BY <3>11 DEF Lookup, UserSame
      <4>3. End(r) \/ Go(r, "create") \/ (Go(r, "password") /\ Exists(r))
        BY <3>11, <4>1, RequestType DEF Lookup, At, Purposes
      <4>4. CASE End(r)
        BY <3>11, <4>2, <4>4, EndKeeps DEF Lookup, TypeOK
      <4>5. CASE Go(r, "create")
        BY <3>11, <4>1, <4>2, <4>5, GoKeeps DEF Lookup, TypeOK
      <4>6. CASE Go(r, "password") /\ Exists(r)
        BY <3>11, <4>1, <4>2, <4>6, GoKeeps DEF Lookup, TypeOK
      <4> QED BY <4>3, <4>4, <4>5, <4>6
    <3>12. ASSUME NEW r \in Requests, CreateUser(r) PROVE Goal
      <4>1. request[r].phone \in Phones /\ request[r].role \in Roles
        BY <3>12, RequestType DEF CreateUser, At
      <4>2. UserSame \/ \E p \in Phones, role \in Roles : UserNew(p, role)
        BY <3>12, <4>1 DEF CreateUser, UserSame, UserNew, Exists
      <4> QED BY <3>12, <4>2, EndShape, IdleIsIdle, StepKeeps DEF CreateUser, TypeOK
    <3>13. ASSUME NEW r \in Requests, SetPassword(r) PROVE Goal
      <4>1. request[r].phone \in Phones /\ user[request[r].phone] # NoUser
        BY <3>13, RequestType DEF SetPassword, At, AccountThere, NeedUser, Exists
      <4> DEFINE p == request[r].phone
      <4>2. PICK hash \in Passwords : user' = [user EXCEPT ![p].hash = hash]
        BY <3>13 DEF SetPassword
      <4>3. user[p] \in UserRow
        BY <4>1 DEF TypeOK
      <4>4. /\ [user[p] EXCEPT !.hash = hash] \in UserRow
            /\ [user[p] EXCEPT !.hash = hash].role = user[p].role
        BY <4>3 DEF UserRow
      <4>5. UserChanged(p)
        BY <3>13, <4>1, <4>2, <4>4 DEF UserChanged, SetPassword
      <4> QED BY <3>13, <4>1, <4>5, EndShape, IdleIsIdle, StepKeeps DEF SetPassword, TypeOK
    <3>14. ASSUME NEW r \in Requests, FailureRead(r) PROVE Goal
      <4>1. request[r].phone \in Phones /\ user[request[r].phone] # NoUser
        BY <3>14, RequestType DEF FailureRead, At, AccountThere, NeedUser, Exists
      <4> DEFINE h == [pc |-> "count", phone |-> request[r].phone,
                       attempts |-> user[request[r].phone].failures + 1]
      <4>2. user[request[r].phone].failures \in Nat
        BY <4>1 DEF TypeOK, UserRow
      <4>3. h \in Handler /\ h.phone = request[r].phone /\ h.pc = "count"
        BY <4>1, <4>2 DEF Handler, Counting
      <4> HIDE DEF h
      <4>4. /\ request' \in [Requests -> Handler]
            /\ request'[r] = h
            /\ \A s \in Requests \ {r} : request'[s] = request[s]
        BY <3>14, <4>3, GotoShape DEF FailureRead, h
      <4> QED BY <3>14, <4>1, <4>3, <4>4, StepKeeps DEF FailureRead, UserSame, TypeOK
    <3>15. ASSUME NEW r \in Requests, FailureWrite(r) PROVE Goal
      <4>1. /\ request[r].phone \in Phones /\ user[request[r].phone] # NoUser
            /\ request[r].attempts \in Nat
        BY <3>15, RequestType DEF FailureWrite, At, AccountThere, NeedUser, Exists
      <4> DEFINE p == request[r].phone
                 locks == Locks(request[r].attempts)
                 f == IF locks THEN 0 ELSE request[r].attempts
                 l == locks \/ user[p].locked
      <4>2. user' = [user EXCEPT ![p] = [user[p] EXCEPT !.failures = f, !.locked = l]]
        BY <3>15 DEF FailureWrite
      <4>3. misses' \in [Phones -> Nat]
        BY <3>15, <4>1 DEF FailureWrite, TypeOK
      <4>4. user[p] \in UserRow /\ f \in Nat /\ l \in BOOLEAN
        BY <4>1 DEF TypeOK
      <4> HIDE DEF f, l
      <4>5. /\ [user[p] EXCEPT !.failures = f, !.locked = l] \in UserRow
            /\ [user[p] EXCEPT !.failures = f, !.locked = l].role = user[p].role
        BY <4>4 DEF UserRow
      <4>6. UserChanged(p)
        BY <3>15, <4>1, <4>2, <4>5 DEF UserChanged, FailureWrite
      <4> QED BY <3>15, <4>1, <4>3, <4>6, EndShape, IdleIsIdle, StepKeeps DEF FailureWrite, TypeOK
    <3>16. ASSUME NEW r \in Requests, LoginSuccess(r) PROVE Goal
      <4>1. request[r].phone \in Phones /\ user[request[r].phone] # NoUser
        BY <3>16, RequestType DEF LoginSuccess, At, AccountThere, NeedUser, Exists
      <4> DEFINE p == request[r].phone
                 new == [user[p] EXCEPT !.failures = 0, !.locked = FALSE]
      <4>2. user' = [user EXCEPT ![p] = new]
        BY <3>16 DEF LoginSuccess
      <4>3. new \in UserRow /\ new.role = user[p].role
        BY <4>1 DEF TypeOK, UserRow
      <4> HIDE DEF new
      <4>4. UserChanged(p)
        BY <3>16, <4>1, <4>2, <4>3 DEF UserChanged, LoginSuccess
      <4>5. misses' \in [Phones -> Nat]
        BY <3>16, <4>1 DEF LoginSuccess, TypeOK
      <4> QED BY <3>16, <4>1, <4>4, <4>5, EndShape, IdleIsIdle, StepKeeps DEF LoginSuccess, TypeOK
    <3>17. ASSUME NEW p \in Phones, Minute(p) PROVE Goal
      BY <3>17 DEF Minute, TypeOK, AccountThere, CodeThere, MasterComplete, Exists
    <3>18. ASSUME NEW p \in Phones, LockRunsOut(p) PROVE Goal
      <4>1. [user[p] EXCEPT !.locked = FALSE] \in UserRow
            /\ [user[p] EXCEPT !.locked = FALSE].role = user[p].role
        BY <3>18 DEF LockRunsOut, TypeOK, UserRow
      <4>2. UserChanged(p)
        BY <3>18, <4>1 DEF LockRunsOut, UserChanged
      <4>3. /\ user' \in [Phones -> UserRow \cup {NoUser}]
            /\ \A q \in Phones : user[q] # NoUser => user'[q] # NoUser
            /\ MasterComplete'
        BY <4>2, UserKept
      <4>4. AccountThere'
        BY <3>18, <4>3, RequestType DEF LockRunsOut, AccountThere, Exists, NeedUser
      <4>5. CodeThere'
        BY <3>18 DEF LockRunsOut, CodeThere
      <4> QED BY <3>18, <4>3, <4>4, <4>5 DEF LockRunsOut, TypeOK
    <3>19. ASSUME NEW c \in Codes, FiveMinutes(c) PROVE Goal
      <4>1. row' \in [Codes -> CodeRow \cup {NoCode}]
        <5>1. row[c] # NoCode => [row[c] EXCEPT !.dead = TRUE] \in CodeRow
          BY DEF TypeOK, CodeRow
        <5>2. row' = row \/ (row[c] # NoCode /\ row' = [row EXCEPT ![c] = [row[c] EXCEPT !.dead = TRUE]])
          BY <3>19 DEF FiveMinutes
        <5> QED BY <5>1, <5>2 DEF TypeOK
      <4>2. memo' \in [Phones -> KeptCode \cup {NoCode}]
        <5>1. \A p \in Phones :
                memo[p] # NoCode => [memo[p] EXCEPT !.dead = TRUE] \in KeptCode
          BY DEF TypeOK, KeptCode
        <5>2. \/ memo' = memo
              \/ \E p \in Phones :
                   memo[p] # NoCode /\ memo' = [memo EXCEPT ![p] = [memo[p] EXCEPT !.dead = TRUE]]
          BY <3>19 DEF FiveMinutes
        <5> QED BY <5>1, <5>2 DEF TypeOK
      <4>3. \A d \in Codes : row[d] # NoCode => row'[d] # NoCode
        <5>1. row[c] # NoCode => [row[c] EXCEPT !.dead = TRUE] \in CodeRow
          BY DEF TypeOK, CodeRow
        <5>2. row' = row \/ (row[c] # NoCode /\ row' = [row EXCEPT ![c] = [row[c] EXCEPT !.dead = TRUE]])
          BY <3>19 DEF FiveMinutes
        <5> QED BY <5>1, <5>2, NullAssumption DEF TypeOK
      <4>4. CodeThere'
        BY <3>19, <4>3, RequestType DEF FiveMinutes, CodeThere
      <4> QED BY <3>19, <4>1, <4>2, <4>4 DEF FiveMinutes, TypeOK, AccountThere, MasterComplete, Exists
    <3>20. ASSUME Restart PROVE Goal
      BY <3>20, IdleIsIdle DEF Restart, TypeOK, AccountThere, CodeThere, MasterComplete
    <3>22. ASSUME ChangeMode PROVE Goal
      BY <3>22 DEF ChangeMode, TypeOK, AccountThere, CodeThere, MasterComplete, Exists
    <3> HIDE DEF Goal
    <3>21. Goal
      BY ONLY <2>2, <3>1, <3>2, <3>3, <3>4, <3>5, <3>6, <3>7, <3>8, <3>9, <3>10, <3>11, <3>12,
        <3>13, <3>14, <3>15, <3>16, <3>17, <3>18, <3>19, <3>20, <3>22, NextCases
    <3> QED BY <3>21 DEF Goal
  <2> QED BY <2>1, <2>2
<1> QED BY <1>1, <1>2, PTL DEF Spec

\* An account of a master has its master, whenever the process dies.
THEOREM MastersAreComplete == Spec => []MasterComplete
BY AccountInvariant, PTL DEF AccountInv

-----------------------------------------------------------------------------
(* The lock. With two requests at a time, failures are written back from a   *)
(* read that may be old, so the counter falls behind and even falls. Bound   *)
(* limits the misses there can have been while the counter stands at f and   *)
(* a request is about to write l (or could read f and write f + 1): each     *)
(* step back of the counter costs the request that was kept waiting, and     *)
(* leaves a higher l behind, so n + (n - 1) + ... + 1 misses are the most.   *)

Bound(n, f, l) == (l - 1) * (2 * n - l + 2) + 2 * (f - l + 1)

LEMMA BoundWrite ==
  ASSUME NEW n \in Nat, NEW f \in Nat, NEW a \in Nat, NEW m \in Nat,
         1 <= a, a < n, f < n, 2 * m <= Bound(n, f, a)
  PROVE  2 * (m + 1) <= Bound(n, a, a + 1)
<1>1. Bound(n, a, a + 1) - Bound(n, f, a) = 2 * (n - f)
  BY DEF Bound
<1> QED BY <1>1 DEF Bound

LEMMA BoundOther ==
  ASSUME NEW n \in Nat, NEW f \in Nat, NEW a \in Nat, NEW b \in Nat, NEW m \in Nat,
         1 <= a, a < n, f < n, 1 <= b, b <= n, a = f + 1 \/ b = f + 1,
         2 * m <= Bound(n, f, a), 2 * m <= Bound(n, f, b)
  PROVE  2 * (m + 1) <= Bound(n, a, b)
<1>1. CASE a = f + 1
  <2>1. Bound(n, a, b) = Bound(n, f, b) + 2
    BY <1>1 DEF Bound
  <2> QED BY <2>1 DEF Bound
<1>2. CASE b = f + 1 /\ a > f + 1
  <2>1. Bound(n, a, b) = Bound(n, f, b) + 2 * (a - f)
    BY <1>2 DEF Bound
  <2> QED BY <1>2, <2>1 DEF Bound
<1>3. CASE b = f + 1 /\ a <= f
  <2> DEFINE d == f + 1 - a
             e == 2 * n - f - a
  <2>1. Bound(n, a, b) = Bound(n, f, a) + d * e - 2 * d + 2
    BY <1>3 DEF Bound
  <2>2. d \in Nat /\ e >= 2 /\ e \in Nat
    BY <1>3
  <2> HIDE DEF d, e
  <2>3. d * e >= 2 * d
    BY <2>2
  <2> QED BY <2>1, <2>2, <2>3 DEF Bound
<1> QED BY <1>1, <1>2, <1>3

LEMMA BoundStart ==
  ASSUME NEW n \in Nat, NEW b \in Nat, 1 <= b, b <= n
  PROVE  0 <= Bound(n, 0, b)
<1>1. Bound(n, 0, b) = (b - 1) * (2 * n - b)
  BY DEF Bound
<1>2. b - 1 \in Nat /\ 2 * n - b \in Nat
  OBVIOUS
<1> QED BY <1>1, <1>2

LEMMA BoundEnd ==
  ASSUME NEW n \in Nat, NEW f \in Nat, NEW m \in Nat, f < n, 2 * m <= Bound(n, f, f + 1)
  PROVE  m < (n * (n + 1)) \div 2
<1>1. n * (n + 1) - 2 - Bound(n, f, f + 1) = (n - 1 - f) * (n + 2 - f)
  BY DEF Bound
<1>2. n - 1 - f \in Nat /\ n + 2 - f \in Nat
  OBVIOUS
<1>3. (n - 1 - f) * (n + 2 - f) >= 0
  BY <1>2
<1>4. 2 * m + 2 <= n * (n + 1)
  BY <1>1, <1>3 DEF Bound
<1> DEFINE q == n * (n + 1)
<1>5. q \in Nat /\ 2 * m + 2 <= q
  BY <1>4
<1> HIDE DEF q
<1>6. m < q \div 2
  BY <1>5
<1> QED BY <1>6 DEF q

Counts(r, p) == request[r].pc = "count" /\ request[r].phone = p
Few == \A r, s, t \in Requests : r = s \/ s = t \/ r = t

LockInv ==
  \A p \in Phones :
    /\ user[p] = NoUser => misses[p] = 0
    /\ user[p] # NoUser =>
         /\ user[p].failures < MaxFailures
         /\ 2 * misses[p] <= Bound(MaxFailures, user[p].failures, user[p].failures + 1)
    /\ \A r \in Requests : Counts(r, p) =>
         /\ request[r].attempts \in 1..MaxFailures
         /\ 2 * misses[p] <= Bound(MaxFailures, user[p].failures, request[r].attempts)
    /\ \A r, s \in Requests : r # s /\ Counts(r, p) /\ Counts(s, p) =>
         \/ request[r].attempts = user[p].failures + 1
         \/ request[s].attempts = user[p].failures + 1

\* Steps that count nothing.
Quiet ==
  /\ UNCHANGED misses
  /\ \A p \in Phones : user[p] # NoUser =>
       user'[p] # NoUser /\ user'[p].failures = user[p].failures
  /\ \A p \in Phones : user[p] = NoUser /\ user'[p] # NoUser => user'[p].failures = 0
  /\ \A s \in Requests : request'[s].pc = "count" => request'[s] = request[s]

LEMMA QuietKeeps ==
  ASSUME AccountInv, LockInv, Quiet
  PROVE  LockInv'
<1>1. Bound(MaxFailures, 0, 1) = 0
  BY FailuresAssumption DEF Bound
<1>2. ASSUME NEW p \in Phones, user[p] = NoUser
      PROVE  \A s \in Requests : ~Counts(s, p)'
  BY <1>2 DEF AccountInv, AccountThere, Exists, NeedUser, Counts, Quiet
<1>3. \A s \in Requests, p \in Phones :
        Counts(s, p)' => Counts(s, p) /\ request'[s] = request[s] /\ user[p] # NoUser
  BY <1>2 DEF Counts, Quiet
<1>4. ASSUME NEW p \in Phones
      PROVE  /\ user'[p] = NoUser => misses'[p] = 0
             /\ user'[p] # NoUser =>
                  /\ user'[p].failures < MaxFailures
                  /\ 2 * misses'[p] <= Bound(MaxFailures, user'[p].failures, user'[p].failures + 1)
  <2>1. CASE user[p] # NoUser
    BY <2>1 DEF Quiet, LockInv
  <2>2. CASE user[p] = NoUser /\ user'[p] = NoUser
    BY <2>2 DEF Quiet, LockInv
  <2>3. CASE user[p] = NoUser /\ user'[p] # NoUser
    <3>1. user'[p].failures = 0 /\ misses'[p] = 0
      BY <2>3 DEF Quiet, LockInv
    <3> QED BY <1>1, <2>3, <3>1, FailuresAssumption
  <2> QED BY <2>1, <2>2, <2>3
<1>5. ASSUME NEW p \in Phones, NEW r \in Requests, Counts(r, p)'
      PROVE  /\ request'[r].attempts \in 1..MaxFailures
             /\ 2 * misses'[p] <= Bound(MaxFailures, user'[p].failures, request'[r].attempts)
  BY <1>3, <1>5 DEF LockInv, Quiet
<1>6. ASSUME NEW p \in Phones, NEW r \in Requests, NEW s \in Requests,
             r # s, Counts(r, p)', Counts(s, p)'
      PROVE  \/ request'[r].attempts = user'[p].failures + 1
             \/ request'[s].attempts = user'[p].failures + 1
  BY <1>3, <1>6 DEF LockInv, Quiet
<1> QED BY <1>4, <1>5, <1>6 DEF LockInv

\* A request that ends or goes on, and does not count.
LEMMA QuietStep ==
  ASSUME AccountInv, NEW r \in Requests,
         request'[r].pc # "count",
         \A s \in Requests \ {r} : request'[s] = request[s],
         UNCHANGED <<user, misses>>
  PROVE  Quiet
BY DEF Quiet

LEMMA FailureReadKeeps ==
  ASSUME AccountInv, LockInv, NEW r \in Requests, FailureRead(r)
  PROVE  LockInv'
<1> DEFINE q == request[r].phone
           h == [pc |-> "count", phone |-> q, attempts |-> user[q].failures + 1]
<1>1. q \in Phones /\ user[q] # NoUser /\ request[r].pc = "wrong"
  BY RequestType DEF FailureRead, At, AccountInv, AccountThere, NeedUser, Exists
<1>2. user[q].failures \in Nat
  BY <1>1 DEF AccountInv, TypeOK, UserRow
<1>3. h \in Handler
  BY <1>1, <1>2 DEF Handler, Counting
<1>4. /\ request'[r] = h
      /\ \A s \in Requests \ {r} : request'[s] = request[s]
      /\ UNCHANGED <<user, misses>>
  BY <1>3, GotoShape DEF FailureRead, AccountInv
<1>5. /\ \A p \in Phones : Counts(r, p)' => p = q
      /\ request'[r].attempts = user[q].failures + 1
      /\ \A s \in Requests \ {r}, p \in Phones : Counts(s, p)' => Counts(s, p)
  BY <1>4 DEF Counts
<1> HIDE DEF h
<1>6. ASSUME NEW p \in Phones, NEW s \in Requests, Counts(s, p)'
      PROVE  /\ request'[s].attempts \in 1..MaxFailures
             /\ 2 * misses'[p] <= Bound(MaxFailures, user'[p].failures, request'[s].attempts)
  <2>1. CASE s = r
    BY <1>1, <1>2, <1>4, <1>5, <1>6, <2>1, FailuresAssumption DEF LockInv
  <2>2. CASE s # r
    BY <1>4, <1>5, <1>6, <2>2 DEF LockInv
  <2> QED BY <2>1, <2>2
<1>7. ASSUME NEW p \in Phones, NEW s \in Requests, NEW t \in Requests,
             s # t, Counts(s, p)', Counts(t, p)'
      PROVE  \/ request'[s].attempts = user'[p].failures + 1
             \/ request'[t].attempts = user'[p].failures + 1
  BY <1>4, <1>5, <1>7 DEF LockInv
<1> QED BY <1>4, <1>6, <1>7 DEF LockInv

\* The counter and the misses of a phone start again, after a lock or a right password.
LEMMA ResetKeeps ==
  ASSUME AccountInv, LockInv, Few, NEW r \in Requests, NEW q \in Phones,
         \A s \in Requests \ {r} : request'[s] = request[s],
         request'[r].pc # "count",
         \A p \in Phones \ {q} : user'[p] = user[p] /\ misses'[p] = misses[p],
         user[q] # NoUser, user'[q] # NoUser, user'[q].failures = 0, misses'[q] = 0
  PROVE  LockInv'
<1>1. Bound(MaxFailures, 0, 1) = 0
  BY FailuresAssumption DEF Bound
<1>2. \A s \in Requests, p \in Phones :
        Counts(s, p)' => Counts(s, p) /\ s # r /\ request'[s] = request[s]
  BY DEF Counts
<1>3. ASSUME NEW p \in Phones, NEW s \in Requests, Counts(s, p)'
      PROVE  /\ request'[s].attempts \in 1..MaxFailures
             /\ 2 * misses'[p] <= Bound(MaxFailures, user'[p].failures, request'[s].attempts)
  <2>1. request'[s].attempts \in 1..MaxFailures
    BY <1>2, <1>3 DEF LockInv
  <2>2. CASE p # q
    BY <1>2, <1>3, <2>2 DEF LockInv
  <2>3. CASE p = q
    <3>1. 0 <= Bound(MaxFailures, 0, request'[s].attempts)
      BY <2>1, BoundStart, FailuresAssumption
    <3> QED BY <2>1, <2>3, <3>1
  <2> QED BY <2>1, <2>2, <2>3
<1>4. ASSUME NEW p \in Phones, NEW s \in Requests, NEW t \in Requests,
             s # t, Counts(s, p)', Counts(t, p)'
      PROVE  FALSE
  BY <1>2, <1>4 DEF Few
<1>5. ASSUME NEW p \in Phones
      PROVE  /\ user'[p] = NoUser => misses'[p] = 0
             /\ user'[p] # NoUser =>
                  /\ user'[p].failures < MaxFailures
                  /\ 2 * misses'[p] <= Bound(MaxFailures, user'[p].failures, user'[p].failures + 1)
  <2>1. CASE p # q
    BY <2>1 DEF LockInv
  <2>2. CASE p = q
    BY <1>1, <2>2, FailuresAssumption
  <2> QED BY <2>1, <2>2
<1> QED BY <1>3, <1>4, <1>5 DEF LockInv

LEMMA FailureWriteKeeps ==
  ASSUME AccountInv, LockInv, Few, NEW r \in Requests, FailureWrite(r)
  PROVE  LockInv'
<1> DEFINE q == request[r].phone
           a == request[r].attempts
           f == user[q].failures
           n == MaxFailures
<1>1. /\ q \in Phones /\ user[q] # NoUser /\ request[r].pc = "count" /\ a \in Nat
  BY RequestType DEF FailureWrite, At, AccountInv, AccountThere, NeedUser, Exists
<1>2. /\ user[q] \in UserRow /\ f \in Nat /\ misses[q] \in Nat /\ n \in Nat
  BY <1>1, FailuresAssumption DEF AccountInv, TypeOK, UserRow
<1>3. /\ a \in 1..n /\ f < n
      /\ 2 * misses[q] <= Bound(n, f, a)
      /\ 2 * misses[q] <= Bound(n, f, f + 1)
  BY <1>1 DEF LockInv, Counts
<1>4. /\ request'[r] = Idle
      /\ \A s \in Requests \ {r} : request'[s] = request[s]
  BY EndShape DEF FailureWrite, AccountInv
<1> DEFINE locks == Locks(a)
           l == locks \/ user[q].locked
           g == IF locks THEN 0 ELSE a
<1>5. /\ user' = [user EXCEPT ![q] = [user[q] EXCEPT !.failures = g, !.locked = l]]
      /\ misses' = [misses EXCEPT ![q] = IF locks THEN 0 ELSE misses[q] + 1]
  BY DEF FailureWrite
<1>6. [user[q] EXCEPT !.failures = g, !.locked = l] \in UserRow
  <2>1. g \in Nat /\ l \in BOOLEAN
    BY <1>1
  <2> HIDE DEF g, l
  <2> QED BY <1>2, <2>1 DEF UserRow
<1>7. /\ user'[q] # NoUser /\ user'[q].failures = g
      /\ misses'[q] = IF locks THEN 0 ELSE misses[q] + 1
      /\ \A p \in Phones \ {q} : user'[p] = user[p] /\ misses'[p] = misses[p]
  <2>1. user'[q] = [user[q] EXCEPT !.failures = g, !.locked = l]
    BY <1>1, <1>5 DEF AccountInv, TypeOK
  <2>2. user'[q] # NoUser /\ user'[q].failures = g
    BY <1>2, <1>6, <2>1, NullAssumption DEF UserRow
  <2> HIDE DEF g, l, locks
  <2> QED BY <1>1, <1>5, <2>2 DEF AccountInv, TypeOK
<1>8. CASE locks
  <2>1. user'[q].failures = 0 /\ misses'[q] = 0
    BY <1>7, <1>8
  <2> HIDE DEF locks, l, g
  <2> QED BY <1>1, <1>4, <1>7, <2>1, IdleIsIdle, ResetKeeps
<1>9. CASE ~locks
  <2>1. user'[q].failures = a /\ misses'[q] = misses[q] + 1 /\ a < n
    BY <1>1, <1>2, <1>7, <1>9 DEF Locks
  <2> HIDE DEF locks, l, g
  <2>2. \A s \in Requests, p \in Phones :
          Counts(s, p)' => Counts(s, p) /\ s # r /\ request'[s] = request[s]
    BY <1>4, IdleIsIdle DEF Counts
  <2>3. ASSUME NEW p \in Phones, NEW s \in Requests, NEW t \in Requests,
               s # t, Counts(s, p)', Counts(t, p)'
        PROVE  FALSE
    BY <2>2, <2>3 DEF Few
  <2>4. 2 * misses'[q] <= Bound(n, a, a + 1)
    <3>1. 2 * (misses[q] + 1) <= Bound(n, a, a + 1)
      BY <1>1, <1>2, <1>3, <2>1, BoundWrite
    <3> QED BY <2>1, <3>1
  <2>5. ASSUME NEW p \in Phones, NEW s \in Requests, Counts(s, p)'
        PROVE  /\ request'[s].attempts \in 1..MaxFailures
               /\ 2 * misses'[p] <= Bound(MaxFailures, user'[p].failures, request'[s].attempts)
    <3>1. CASE p # q
      BY <1>7, <2>2, <2>5, <3>1 DEF LockInv
    <3>2. CASE p = q
      <4> DEFINE b == request[s].attempts
      <4>1. s # r /\ Counts(s, q) /\ Counts(r, q) /\ request'[s] = request[s]
        BY <1>1, <2>2, <2>5, <3>2 DEF Counts
      <4>2. b \in 1..n /\ 2 * misses[q] <= Bound(n, f, b) /\ (a = f + 1 \/ b = f + 1)
        BY <1>1, <4>1 DEF LockInv
      <4>3. 2 * (misses[q] + 1) <= Bound(n, a, b)
        <5>1. /\ n \in Nat /\ f \in Nat /\ a \in Nat /\ b \in Nat /\ misses[q] \in Nat
              /\ 1 <= a /\ a < n /\ f < n /\ 1 <= b /\ b <= n
          BY <1>1, <1>2, <1>3, <2>1, <4>2
        <5>2. 2 * misses[q] <= Bound(n, f, a) /\ 2 * misses[q] <= Bound(n, f, b)
          BY <1>3, <4>2
        <5>3. a = f + 1 \/ b = f + 1
          BY <4>2
        <5> HIDE DEF a, b, f, n
        <5> QED BY <5>1, <5>2, <5>3, BoundOther
      <4> QED BY <2>1, <3>2, <4>1, <4>2, <4>3
    <3> QED BY <3>1, <3>2
  <2>6. ASSUME NEW p \in Phones
        PROVE  /\ user'[p] = NoUser => misses'[p] = 0
               /\ user'[p] # NoUser =>
                    /\ user'[p].failures < MaxFailures
                    /\ 2 * misses'[p] <= Bound(MaxFailures, user'[p].failures, user'[p].failures + 1)
    <3>1. CASE p # q
      BY <1>7, <3>1 DEF LockInv
    <3>2. CASE p = q
      BY <1>7, <2>1, <2>4, <3>2
    <3> QED BY <3>1, <3>2
  <2> QED BY <2>3, <2>5, <2>6 DEF LockInv
<1> QED BY <1>8, <1>9

LEMMA LoginSuccessKeeps ==
  ASSUME AccountInv, LockInv, Few, NEW r \in Requests, LoginSuccess(r)
  PROVE  LockInv'
<1> DEFINE q == request[r].phone
           new == [user[q] EXCEPT !.failures = 0, !.locked = FALSE]
<1>1. q \in Phones /\ user[q] # NoUser
  BY RequestType DEF LoginSuccess, At, AccountInv, AccountThere, NeedUser, Exists
<1>2. new \in UserRow /\ new.failures = 0
  BY <1>1 DEF AccountInv, TypeOK, UserRow
<1>3. user' = [user EXCEPT ![q] = new] /\ misses' = [misses EXCEPT ![q] = 0]
  BY DEF LoginSuccess
<1> HIDE DEF new
<1>4. /\ user'[q] # NoUser /\ user'[q].failures = 0 /\ misses'[q] = 0
      /\ \A p \in Phones \ {q} : user'[p] = user[p] /\ misses'[p] = misses[p]
  BY <1>1, <1>2, <1>3, NullAssumption DEF AccountInv, TypeOK
<1>5. request'[r] = Idle /\ \A s \in Requests \ {r} : request'[s] = request[s]
  BY EndShape DEF LoginSuccess, AccountInv
<1> QED BY <1>1, <1>4, <1>5, IdleIsIdle, ResetKeeps

\* A password set or a lock run out: the counter stays.
LEMMA SetPasswordQuiet ==
  ASSUME AccountInv, NEW r \in Requests, SetPassword(r)
  PROVE  Quiet
<1> DEFINE q == request[r].phone
<1>1. q \in Phones /\ user[q] # NoUser
  BY RequestType DEF SetPassword, At, AccountInv, AccountThere, NeedUser, Exists
<1>2. PICK hash \in Passwords : user' = [user EXCEPT ![q] = [user[q] EXCEPT !.hash = hash]]
  BY DEF SetPassword
<1>3. /\ [user[q] EXCEPT !.hash = hash] \in UserRow
      /\ [user[q] EXCEPT !.hash = hash].failures = user[q].failures
  BY <1>1 DEF AccountInv, TypeOK, UserRow
<1>4. request'[r] = Idle /\ \A s \in Requests \ {r} : request'[s] = request[s]
  BY EndShape DEF SetPassword, AccountInv
<1>5. UNCHANGED misses
  BY DEF SetPassword
<1> QED BY <1>1, <1>2, <1>3, <1>4, <1>5, IdleIsIdle, NullAssumption DEF Quiet, AccountInv, TypeOK

LEMMA LockRunsOutQuiet ==
  ASSUME AccountInv, NEW q \in Phones, LockRunsOut(q)
  PROVE  Quiet
<1>1. /\ [user[q] EXCEPT !.locked = FALSE] \in UserRow
      /\ [user[q] EXCEPT !.locked = FALSE].failures = user[q].failures
  BY DEF LockRunsOut, AccountInv, TypeOK, UserRow
<1> QED BY <1>1, NullAssumption DEF LockRunsOut, Quiet, AccountInv, TypeOK

LEMMA CreateUserQuiet ==
  ASSUME AccountInv, NEW r \in Requests, CreateUser(r)
  PROVE  Quiet
<1>1. request[r].phone \in Phones /\ request[r].role \in Roles
  BY RequestType DEF CreateUser, At, AccountInv
<1>2. /\ NewUser(request[r].role) \in UserRow
      /\ NewUser(request[r].role).failures = 0
  BY <1>1 DEF NewUser, UserRow
<1>3. request'[r] = Idle /\ \A s \in Requests \ {r} : request'[s] = request[s]
  BY EndShape DEF CreateUser, AccountInv
<1> HIDE DEF NewUser
<1>4. user' = user \/ (user[request[r].phone] = NoUser /\ user' = [user EXCEPT ![request[r].phone] = NewUser(request[r].role)])
  BY DEF CreateUser, Exists
<1>5. UNCHANGED misses
  BY DEF CreateUser
<1> QED BY <1>1, <1>2, <1>3, <1>4, <1>5, IdleIsIdle, NullAssumption DEF Quiet, AccountInv, TypeOK

\* Codes are sent and checked.
LEMMA CodesQuiet ==
  ASSUME AccountInv, NEW r \in Requests,
         \/ \E p \in Phones : SendStart(r, p)
         \/ \E p \in Phones, c \in Codes, purpose \in Purposes, role \in Roles :
              VerifyStart(r, p, c, purpose, role)
         \/ \E p \in Phones, password \in Passwords : LoginStart(r, p, password)
         \/ SendMock(r)
         \/ SendCreate(r)
         \/ SendSupersede(r)
         \/ SendDeliver(r)
         \/ VerifyMock(r)
         \/ VerifyFind(r)
         \/ VerifyConsume(r)
         \/ Lookup(r)
  PROVE  Quiet
<1>1. UNCHANGED <<user, misses>>
  BY DEF SendStart, VerifyStart, LoginStart, SendMock, SendCreate, SendSupersede, SendDeliver,
         VerifyMock, VerifyFind, VerifyConsume, Lookup
<1>2. \/ \E h : Goto(r, h) /\ h.pc # "count"
      \/ End(r)
      \/ request[r] \in Delivering /\ Go(r, "deliver")
      \/ request[r] \in Verifying /\ \E pc \in {"consume", "lookup", "create", "password"} : Go(r, pc)
  <2>1. CASE \E p \in Phones : SendStart(r, p)
    BY <2>1 DEF SendStart
  <2>2. CASE \E p \in Phones, c \in Codes, purpose \in Purposes, role \in Roles :
               VerifyStart(r, p, c, purpose, role)
    BY <2>2 DEF VerifyStart
  <2>3. CASE \E p \in Phones, password \in Passwords : LoginStart(r, p, password)
    <3>1. PICK p \in Phones, password \in Passwords : LoginStart(r, p, password)
      BY <2>3
    <3> DEFINE h == [pc |-> IF password = user[p].hash THEN "right" ELSE "wrong", phone |-> p]
    <3>2. h.pc # "count"
      OBVIOUS
    <3>3. Goto(r, h)
      BY <3>1 DEF LoginStart
    <3> HIDE DEF h
    <3> QED BY <3>2, <3>3
  <2>4. CASE SendMock(r) \/ SendDeliver(r)
    BY <2>4 DEF SendMock, SendDeliver
  <2>5. CASE SendCreate(r)
    BY <2>5 DEF SendCreate
  <2>6. CASE SendSupersede(r)
    BY <2>6, RequestType DEF SendSupersede, At, AccountInv
  <2>7. CASE VerifyMock(r)
    BY <2>7, RequestType DEF VerifyMock, Accept, At, AccountInv
  <2>8. CASE VerifyFind(r)
    BY <2>8, RequestType DEF VerifyFind, At, AccountInv
  <2>9. CASE VerifyConsume(r)
    BY <2>9, RequestType DEF VerifyConsume, Accept, At, AccountInv
  <2>10. CASE Lookup(r)
    BY <2>10, RequestType DEF Lookup, At, AccountInv, Purposes
  <2> QED BY <2>1, <2>2, <2>3, <2>4, <2>5, <2>6, <2>7, <2>8, <2>9, <2>10
<1>3. request'[r].pc # "count" /\ \A s \in Requests \ {r} : request'[s] = request[s]
  <2>1. CASE \E h : Goto(r, h) /\ h.pc # "count"
    BY <2>1 DEF Goto, AccountInv, TypeOK
  <2>2. CASE End(r)
    BY <2>2, EndShape, IdleIsIdle DEF AccountInv
  <2>3. CASE request[r] \in Delivering /\ Go(r, "deliver")
    <3>1. PICK pc \in {"deliver"} : Go(r, pc)
      BY <2>3
    <3> QED BY <2>3, <3>1, GoShape DEF AccountInv
  <2>4. CASE request[r] \in Verifying /\ \E pc \in {"consume", "lookup", "create", "password"} : Go(r, pc)
    <3>1. PICK pc \in {"consume", "lookup", "create", "password"} : Go(r, pc)
      BY <2>4
    <3> QED BY <2>4, <3>1, GoShape DEF AccountInv
  <2> QED BY <1>2, <2>1, <2>2, <2>3, <2>4
<1> QED BY <1>1, <1>3, QuietStep

\* Bound is never passed, for any number of failures before the lock.
THEOREM LockInvariant == Few => (Spec => []LockInv)
<1> SUFFICES ASSUME Few PROVE Spec => []LockInv
  OBVIOUS
<1>1. Init => LockInv
  <2> SUFFICES ASSUME Init PROVE LockInv
    OBVIOUS
  <2>1. \A r \in Requests, p \in Phones : ~Counts(r, p)
    BY DEF Init, Counts, Idle
  <2>2. ASSUME NEW p \in Phones, user[p] # NoUser
        PROVE  /\ user[p].failures < MaxFailures
               /\ 2 * misses[p] <= Bound(MaxFailures, user[p].failures, user[p].failures + 1)
    <3>1. user[p].failures < MaxFailures /\ user[p].failures \in Nat /\ misses[p] = 0
      BY <2>2, InitialAssumption DEF Init, UserRow
    <3> DEFINE f == user[p].failures
    <3>2. Bound(MaxFailures, f, f + 1) = f * (2 * MaxFailures - f + 1)
      BY <3>1, FailuresAssumption DEF Bound
    <3>3. f \in Nat /\ 2 * MaxFailures - f + 1 \in Nat
      BY <3>1, FailuresAssumption
    <3> HIDE DEF f
    <3>4. 0 <= f * (2 * MaxFailures - f + 1)
      BY <3>3
    <3> QED BY <3>1, <3>2, <3>4 DEF f
  <2>3. \A p \in Phones : misses[p] = 0
    BY DEF Init
  <2> QED BY <2>1, <2>2, <2>3 DEF LockInv
<1>2. AccountInv /\ LockInv /\ [Next]_vars => LockInv'
  <2> SUFFICES ASSUME AccountInv, LockInv, [Next]_vars PROVE LockInv'
    OBVIOUS
  <2>1. CASE UNCHANGED vars
    BY <2>1 DEF vars, LockInv, Counts
  <2>2. CASE Next
    <3> DEFINE Goal == LockInv'
    <3>1. ASSUME Quiet PROVE Goal
      BY <3>1, QuietKeeps
    <3>2. ASSUME NEW r \in Requests,
                 \/ \E p \in Phones : SendStart(r, p)
                 \/ \E p \in Phones, c \in Codes, purpose \in Purposes, role \in Roles :
                      VerifyStart(r, p, c, purpose, role)
                 \/ \E p \in Phones, password \in Passwords : LoginStart(r, p, password)
                 \/ SendMock(r)
                 \/ SendCreate(r)
                 \/ SendSupersede(r)
                 \/ SendDeliver(r)
                 \/ VerifyMock(r)
                 \/ VerifyFind(r)
                 \/ VerifyConsume(r)
                 \/ Lookup(r)
          PROVE  Goal
      BY <3>1, <3>2, CodesQuiet
    <3>3. \A r \in Requests : CreateUser(r) \/ SetPassword(r) => Goal
      BY <3>1, CreateUserQuiet, SetPasswordQuiet
    <3>4. \A r \in Requests : FailureRead(r) => Goal
      BY FailureReadKeeps
    <3>5. \A r \in Requests : FailureWrite(r) => Goal
      BY FailureWriteKeeps
    <3>6. \A r \in Requests : LoginSuccess(r) => Goal
      BY LoginSuccessKeeps
    <3>7. \A p \in Phones : LockRunsOut(p) => Goal
      BY <3>1, LockRunsOutQuiet
    <3>8. \A p \in Phones : Minute(p) => Goal
      BY <3>1 DEF Minute, Quiet
    <3>9. \A c \in Codes : FiveMinutes(c) => Goal
      BY <3>1 DEF FiveMinutes, Quiet
    <3>10. Restart => Goal
      BY <3>1, IdleIsIdle DEF Restart, Quiet
    <3>12. ChangeMode => Goal
      BY <3>1 DEF ChangeMode, Quiet
    <3> HIDE DEF Goal
    <3>11. Goal
      BY ONLY <2>2, <3>2, <3>3, <3>4, <3>5, <3>6, <3>7, <3>8, <3>9, <3>10, <3>12, NextCases
    <3> QED BY <3>11 DEF Goal
  <2> QED BY <2>1, <2>2
<1> QED BY <1>1, <1>2, AccountInvariant, PTL DEF Spec

\* Few requests at a time, in the words of LockComes.
LEMMA FewRequests ==
  ASSUME Cardinality(Requests) <= 2
  PROVE  Few
<1> SUFFICES ASSUME NEW r \in Requests, NEW s \in Requests, NEW t \in Requests,
                    r # s, s # t, r # t
             PROVE  FALSE
  BY DEF Few
<1>1. Cardinality({r}) = 1 /\ IsFiniteSet({r})
  BY FS_Singleton
<1>2. Cardinality({r} \cup {s}) = 2 /\ IsFiniteSet({r} \cup {s})
  BY <1>1, FS_AddElement
<1>3. Cardinality({r} \cup {s} \cup {t}) = 3
  BY <1>2, FS_AddElement
<1>4. {r} \cup {s} \cup {t} \subseteq Requests
  OBVIOUS
<1>5. Cardinality({r} \cup {s} \cup {t}) <= Cardinality(Requests)
  BY <1>4, RequestsAssumption, FS_Subset
<1>6. Cardinality(Requests) \in Nat
  BY RequestsAssumption, FS_CardinalityType
<1> QED BY <1>3, <1>5, <1>6

\* One request at a time: no count is lost.
Single == \A r, s \in Requests : r = s

SingleInv ==
  \A p \in Phones :
    /\ user[p] = NoUser => misses[p] = 0
    /\ user[p] # NoUser => misses[p] <= user[p].failures
    /\ \A r \in Requests : Counts(r, p) => request[r].attempts = user[p].failures + 1

LEMMA SingleQuiet ==
  ASSUME AccountInv, SingleInv, Quiet
  PROVE  SingleInv'
<1>1. \A s \in Requests, p \in Phones :
        Counts(s, p)' => Counts(s, p) /\ request'[s] = request[s] /\ user[p] # NoUser
  BY DEF AccountInv, AccountThere, Exists, NeedUser, Counts, Quiet
<1>2. ASSUME NEW p \in Phones
      PROVE  /\ user'[p] = NoUser => misses'[p] = 0
             /\ user'[p] # NoUser => misses'[p] <= user'[p].failures
  BY DEF Quiet, SingleInv
<1>3. \A p \in Phones, r \in Requests : Counts(r, p)' => request'[r].attempts = user'[p].failures + 1
  BY <1>1 DEF Quiet, SingleInv
<1> QED BY <1>2, <1>3 DEF SingleInv

LEMMA SingleCounts ==
  ASSUME AccountInv, LockInv, SingleInv, Single, NEW r \in Requests,
         FailureRead(r) \/ FailureWrite(r) \/ LoginSuccess(r)
  PROVE  SingleInv'
<1> DEFINE q == request[r].phone
<1>1. q \in Phones /\ user[q] # NoUser
  BY RequestType DEF FailureRead, FailureWrite, LoginSuccess, At, AccountInv, AccountThere, NeedUser, Exists
<1>2. user[q] \in UserRow /\ user[q].failures \in Nat /\ misses[q] \in Nat
  BY <1>1 DEF AccountInv, TypeOK, UserRow
<1>3. \A s \in Requests : s = r
  BY DEF Single
<1>4. CASE FailureRead(r)
  <2> DEFINE h == [pc |-> "count", phone |-> q, attempts |-> user[q].failures + 1]
  <2>1. h \in Handler
    BY <1>1, <1>2 DEF Handler, Counting
  <2>2. request'[r] = h /\ UNCHANGED <<user, misses>>
    BY <1>4, <2>1, GotoShape DEF FailureRead, AccountInv
  <2> QED BY <1>3, <2>2 DEF SingleInv, Counts
<1>5. CASE FailureWrite(r) \/ LoginSuccess(r)
  <2>1. \A s \in Requests, p \in Phones : ~Counts(s, p)'
    BY <1>3, <1>5, EndShape, IdleIsIdle DEF FailureWrite, LoginSuccess, Counts, AccountInv
  <2>2. /\ user'[q] # NoUser /\ misses'[q] <= user'[q].failures
        /\ \A p \in Phones \ {q} : user'[p] = user[p] /\ misses'[p] = misses[p]
    <3>1. CASE LoginSuccess(r)
      <4> DEFINE new == [user[q] EXCEPT !.failures = 0, !.locked = FALSE]
      <4>1. new \in UserRow /\ new.failures = 0
        BY <1>2 DEF UserRow
      <4>2. user' = [user EXCEPT ![q] = new] /\ misses' = [misses EXCEPT ![q] = 0]
        BY <3>1 DEF LoginSuccess
      <4> HIDE DEF new
      <4> QED BY <1>1, <4>1, <4>2, NullAssumption DEF AccountInv, TypeOK
    <3>2. CASE FailureWrite(r)
      <4> DEFINE locks == Locks(request[r].attempts)
                 g == IF locks THEN 0 ELSE request[r].attempts
                 l == locks \/ user[q].locked
                 new == [user[q] EXCEPT !.failures = g, !.locked = l]
                 m == IF locks THEN 0 ELSE misses[q] + 1
      <4>1. request[r].attempts = user[q].failures + 1 /\ misses[q] <= user[q].failures
        BY <1>1, <3>2 DEF FailureWrite, At, SingleInv, Counts
      <4>2. g \in Nat /\ l \in BOOLEAN /\ m <= g
        BY <1>2, <4>1
      <4>3. user' = [user EXCEPT ![q] = new] /\ misses' = [misses EXCEPT ![q] = m]
        BY <3>2 DEF FailureWrite
      <4> HIDE DEF g, l, m, locks
      <4>4. new \in UserRow /\ new.failures = g
        BY <1>2, <4>2 DEF UserRow
      <4> HIDE DEF new
      <4> QED BY <1>1, <4>2, <4>3, <4>4, NullAssumption DEF AccountInv, TypeOK
    <3> QED BY <1>5, <3>1, <3>2
  <2> QED BY <2>1, <2>2 DEF SingleInv
<1> QED BY <1>4, <1>5

\* One request at a time: no count of a wrong password gets lost.
THEOREM SingleInvariant == Single => (Spec => []SingleInv)
<1> SUFFICES ASSUME Single PROVE Spec => []SingleInv
  OBVIOUS
<1>1. Few
  BY DEF Single, Few
<1>2. Init => SingleInv
  <2> SUFFICES ASSUME Init PROVE SingleInv
    OBVIOUS
  <2>1. \A r \in Requests, p \in Phones : ~Counts(r, p)
    BY DEF Init, Counts, Idle
  <2>2. \A p \in Phones : misses[p] = 0 /\ (user[p] # NoUser => user[p].failures \in Nat)
    BY InitialAssumption DEF Init, UserRow
  <2> QED BY <2>1, <2>2 DEF SingleInv
<1>3. AccountInv /\ LockInv /\ SingleInv /\ [Next]_vars => SingleInv'
  <2> SUFFICES ASSUME AccountInv, LockInv, SingleInv, [Next]_vars PROVE SingleInv'
    OBVIOUS
  <2>1. CASE UNCHANGED vars
    BY <2>1 DEF vars, SingleInv, Counts
  <2>2. CASE Next
    <3> DEFINE Goal == SingleInv'
    <3>1. ASSUME Quiet PROVE Goal
      BY <3>1, SingleQuiet
    <3>2. ASSUME NEW r \in Requests,
                 \/ \E p \in Phones : SendStart(r, p)
                 \/ \E p \in Phones, c \in Codes, purpose \in Purposes, role \in Roles :
                      VerifyStart(r, p, c, purpose, role)
                 \/ \E p \in Phones, password \in Passwords : LoginStart(r, p, password)
                 \/ SendMock(r)
                 \/ SendCreate(r)
                 \/ SendSupersede(r)
                 \/ SendDeliver(r)
                 \/ VerifyMock(r)
                 \/ VerifyFind(r)
                 \/ VerifyConsume(r)
                 \/ Lookup(r)
          PROVE  Goal
      BY <3>1, <3>2, CodesQuiet
    <3>3. \A r \in Requests : CreateUser(r) \/ SetPassword(r) => Goal
      BY <3>1, CreateUserQuiet, SetPasswordQuiet
    <3>4. \A r \in Requests : FailureRead(r) \/ FailureWrite(r) \/ LoginSuccess(r) => Goal
      BY SingleCounts
    <3>5. \A p \in Phones : LockRunsOut(p) => Goal
      BY <3>1, LockRunsOutQuiet
    <3>6. \A p \in Phones : Minute(p) => Goal
      BY <3>1 DEF Minute, Quiet
    <3>7. \A c \in Codes : FiveMinutes(c) => Goal
      BY <3>1 DEF FiveMinutes, Quiet
    <3>8. Restart => Goal
      BY <3>1, IdleIsIdle DEF Restart, Quiet
    <3>10. ChangeMode => Goal
      BY <3>1 DEF ChangeMode, Quiet
    <3> HIDE DEF Goal
    <3>9. Goal
      BY ONLY <2>2, <3>2, <3>3, <3>4, <3>5, <3>6, <3>7, <3>8, <3>10, NextCases
    <3> QED BY <3>9 DEF Goal
  <2> QED BY <2>1, <2>2
<1> QED BY <1>1, <1>2, <1>3, AccountInvariant, LockInvariant, PTL DEF Spec

LEMMA SingleRequest ==
  ASSUME Cardinality(Requests) = 1
  PROVE  Single
<1> SUFFICES ASSUME NEW r \in Requests, NEW s \in Requests, r # s PROVE FALSE
  BY DEF Single
<1>1. Cardinality({r}) = 1 /\ IsFiniteSet({r})
  BY FS_Singleton
<1>2. Cardinality({r} \cup {s}) = 2
  BY <1>1, FS_AddElement
<1>3. {r} \cup {s} \subseteq Requests
  OBVIOUS
<1>4. Cardinality({r} \cup {s}) <= Cardinality(Requests)
  BY <1>3, RequestsAssumption, FS_Subset
<1> QED BY <1>2, <1>4

\* The lock comes with the n-th wrong password in a row when requests do not overlap,
\* and at the latest with the n (n + 1) / 2 th when two do, for every n.
THEOREM LockComesInTime == Spec => []LockComes
<1>1. CASE Cardinality(Requests) = 1
  <2>1. Single /\ Few
    BY <1>1, SingleRequest DEF Single, Few
  <2>2. AccountInv /\ LockInv /\ SingleInv => LockComes
    <3> SUFFICES ASSUME AccountInv, LockInv, SingleInv, NEW p \in Phones
                 PROVE  misses[p] < MaxFailures
      BY <1>1 DEF LockComes
    <3>1. CASE user[p] = NoUser
      BY <3>1, FailuresAssumption DEF SingleInv
    <3>2. CASE user[p] # NoUser
      <4>1. user[p].failures \in Nat /\ misses[p] \in Nat
        BY <3>2 DEF AccountInv, TypeOK, UserRow
      <4>2. misses[p] <= user[p].failures /\ user[p].failures < MaxFailures
        BY <3>2 DEF SingleInv, LockInv
      <4> QED BY <4>1, <4>2, FailuresAssumption
    <3> QED BY <3>1, <3>2
  <2> QED BY <2>1, <2>2, AccountInvariant, LockInvariant, SingleInvariant, PTL
<1>2. CASE Cardinality(Requests) # 1 /\ Cardinality(Requests) <= 2
  <2>1. Few
    BY <1>2, FewRequests
  <2>2. AccountInv /\ LockInv => LockComes
    <3> SUFFICES ASSUME AccountInv, LockInv, NEW p \in Phones
                 PROVE  misses[p] < (MaxFailures * (MaxFailures + 1)) \div 2
      BY <1>2 DEF LockComes
    <3>1. CASE user[p] = NoUser
      <4>1. misses[p] = 0 /\ Bound(MaxFailures, 0, 0 + 1) = 0
        BY <3>1, FailuresAssumption DEF LockInv, Bound
      <4> QED BY <4>1, FailuresAssumption, BoundEnd
    <3>2. CASE user[p] # NoUser
      <4>1. user[p].failures \in Nat /\ misses[p] \in Nat
        BY <3>2 DEF AccountInv, TypeOK, UserRow
      <4>2. /\ user[p].failures < MaxFailures
            /\ 2 * misses[p] <= Bound(MaxFailures, user[p].failures, user[p].failures + 1)
        BY <3>2 DEF LockInv
      <4> QED BY <4>1, <4>2, FailuresAssumption, BoundEnd
    <3> QED BY <3>1, <3>2
  <2> QED BY <2>1, <2>2, AccountInvariant, LockInvariant, PTL
<1>3. CASE ~(Cardinality(Requests) <= 2)
  <2>1. LockComes
    BY <1>3 DEF LockComes
  <2> QED BY <2>1, PTL
<1>4. Cardinality(Requests) \in Nat
  BY RequestsAssumption, FS_CardinalityType
<1> QED BY <1>1, <1>2, <1>3, <1>4

-----------------------------------------------------------------------------
(* Codes. In memory, a code is compared and deleted in one step, and codes   *)
(* are not sent twice. In the table, requests that found a code before it    *)
(* was marked may each use it, and nobody finds it afterwards.               *)

Consuming(c) == {r \in Requests : request[r].pc = "consume" /\ request[r].code = c}

UsesInv ==
  /\ \A c \in Codes : c \notin Sent => uses[c] = 0
  /\ \A p \in Phones : memo[p] # NoCode =>
       memo[p].code \in inbox /\ row[memo[p].code] = NoCode /\ uses[memo[p].code] = 0
  /\ \A p, q \in Phones :
       p # q /\ memo[p] # NoCode /\ memo[q] # NoCode => memo[p].code # memo[q].code
  /\ \A c \in Codes : row[c] = NoCode => uses[c] <= 1
  /\ \A c \in Codes : row[c] # NoCode =>
       /\ uses[c] # 0 => row[c].consumed
       /\ uses[c] + Cardinality(Consuming(c)) <= Cardinality(Requests)

LEMMA ConsumingFinite ==
  ASSUME NEW c \in Codes
  PROVE  /\ IsFiniteSet(Consuming(c)) /\ Cardinality(Consuming(c)) \in Nat
         /\ Cardinality(Consuming(c)) <= Cardinality(Requests)
         /\ Cardinality(Requests) \in Nat
<1>1. Consuming(c) \subseteq Requests
  BY DEF Consuming
<1> QED BY <1>1, RequestsAssumption, FS_Subset, FS_CardinalityType

\* Nobody comes to find the code, nor uses it up.
LEMMA ConsumingFewer ==
  ASSUME AccountInv, NEW d \in Codes, uses' = uses,
         \A s \in Requests : request'[s].pc = "consume" => request'[s] = request[s],
         uses[d] + Cardinality(Consuming(d)) <= Cardinality(Requests)
  PROVE  uses'[d] + Cardinality(Consuming(d)') <= Cardinality(Requests)
<1>1. Consuming(d)' \subseteq Consuming(d)
  BY DEF Consuming
<1>2. Cardinality(Consuming(d)') <= Cardinality(Consuming(d)) /\ Cardinality(Consuming(d)') \in Nat
  BY <1>1, ConsumingFinite, FS_Subset, FS_CardinalityType
<1>3. uses[d] \in Nat
  BY DEF AccountInv, TypeOK
<1> QED BY <1>2, <1>3, ConsumingFinite

\* Steps that neither find nor use a code, nor keep a new one in memory.
LEMMA UsesQuiet ==
  ASSUME AccountInv, AccountInv', UsesInv, UNCHANGED uses,
         \A s \in Requests : request'[s].pc = "consume" => request'[s] = request[s],
         \A p \in Phones : memo'[p] # NoCode => memo[p] # NoCode /\ memo'[p].code = memo[p].code,
         inbox \subseteq inbox',
         \A c \in Codes : row[c] # NoCode => row'[c] # NoCode,
         \A c \in Codes : c \in Sent /\ row[c] = NoCode => row'[c] = NoCode,
         \A c \in Codes : row[c] # NoCode /\ row[c].consumed => row'[c].consumed
  PROVE  UsesInv'
<1>1. \A c \in Codes : c \notin Sent' => uses'[c] = 0
  BY DEF Sent, UsesInv
<1>2. \A p \in Phones : memo'[p] # NoCode =>
        memo'[p].code \in inbox' /\ row'[memo'[p].code] = NoCode /\ uses'[memo'[p].code] = 0
  BY DEF UsesInv, Sent, AccountInv, TypeOK, KeptCode
<1>3. \A p, q \in Phones :
        p # q /\ memo'[p] # NoCode /\ memo'[q] # NoCode => memo'[p].code # memo'[q].code
  BY DEF UsesInv
<1>4. \A c \in Codes : row'[c] = NoCode => uses'[c] <= 1
  BY DEF UsesInv
<1>5. ASSUME NEW c \in Codes, row'[c] # NoCode
      PROVE  /\ uses'[c] # 0 => row'[c].consumed
             /\ uses'[c] + Cardinality(Consuming(c)') <= Cardinality(Requests)
  <2>1. Consuming(c)' \subseteq Consuming(c)
    BY DEF Consuming
  <2>2. Cardinality(Consuming(c)') <= Cardinality(Consuming(c)) /\ Cardinality(Consuming(c)') \in Nat
    BY <2>1, ConsumingFinite, FS_Subset, FS_CardinalityType
  <2>3. uses[c] \in Nat
    BY DEF AccountInv, TypeOK
  <2>4. CASE row[c] # NoCode
    BY <2>2, <2>3, <2>4, ConsumingFinite DEF UsesInv
  <2>5. CASE row[c] = NoCode
    <3>1. uses[c] = 0
      BY <1>5, <2>5 DEF UsesInv
    <3> QED BY <2>2, <3>1, ConsumingFinite
  <2> QED BY <2>4, <2>5
<1> QED BY <1>1, <1>2, <1>3, <1>4, <1>5 DEF UsesInv

LEMMA SendMockUses ==
  ASSUME AccountInv, UsesInv, NEW r \in Requests, SendMock(r)
  PROVE  UsesInv'
<1> DEFINE q == request[r].phone
           c == NextCode
           kept == [code |-> c, dead |-> FALSE]
<1>1. c \in Codes /\ c \notin Sent /\ q \in Phones
  BY NextCodeFresh, RequestType DEF SendMock, At, AccountInv
<1>2. /\ memo' = [memo EXCEPT ![q] = kept] /\ inbox' = inbox \cup {c}
      /\ UNCHANGED <<mode, row, uses>>
  BY DEF SendMock
<1>3. kept # NoCode /\ kept.code = c
  <2>1. kept \in KeptCode
    BY <1>1 DEF KeptCode
  <2> QED BY <2>1, NullAssumption
<1> HIDE DEF c, kept
<1>4. memo'[q] = kept /\ \A p \in Phones \ {q} : memo'[p] = memo[p]
  BY <1>1, <1>2 DEF AccountInv, TypeOK
<1>5. uses[c] = 0 /\ c \notin inbox /\ row[c] = NoCode
  BY <1>1 DEF UsesInv, Sent
<1>6. \A s \in Requests : request'[s].pc = "consume" => request'[s] = request[s]
  BY EndShape, IdleIsIdle DEF SendMock, AccountInv
<1>7. \A d \in Codes : d \notin Sent' => uses'[d] = 0
  BY <1>2 DEF Sent, UsesInv
<1>8. \A p \in Phones : memo'[p] # NoCode =>
        memo'[p].code \in inbox' /\ row'[memo'[p].code] = NoCode /\ uses'[memo'[p].code] = 0
  BY <1>1, <1>2, <1>3, <1>4, <1>5 DEF UsesInv
<1>9. \A p \in Phones \ {q} : memo[p] # NoCode => memo[p].code # c
  BY <1>1, <1>5 DEF UsesInv
<1>10. \A p1, p2 \in Phones :
         p1 # p2 /\ memo'[p1] # NoCode /\ memo'[p2] # NoCode => memo'[p1].code # memo'[p2].code
  BY <1>1, <1>3, <1>4, <1>9 DEF UsesInv
<1>11. ASSUME NEW d \in Codes, row'[d] # NoCode
       PROVE  /\ uses'[d] # 0 => row'[d].consumed
              /\ uses'[d] + Cardinality(Consuming(d)') <= Cardinality(Requests)
  BY <1>2, <1>6, <1>11, ConsumingFewer DEF UsesInv
<1>12. \A d \in Codes : row'[d] = NoCode => uses'[d] <= 1
  BY <1>2 DEF UsesInv
<1> QED BY <1>7, <1>8, <1>10, <1>11, <1>12 DEF UsesInv

LEMMA VerifyMockUses ==
  ASSUME AccountInv, AccountInv', UsesInv, NEW r \in Requests, VerifyMock(r)
  PROVE  UsesInv'
<1> DEFINE q == request[r].phone
           c == request[r].code
<1>1. /\ q \in Phones /\ c \in Codes /\ request[r] \in Verifying
      /\ UNCHANGED <<row, inbox>>
  BY RequestType DEF VerifyMock, At, AccountInv
<1>2. CASE Accept(r)
  <2>1. memo[q] # NoCode /\ memo[q].code = c /\ memo' = [memo EXCEPT ![q] = NoCode]
    <3>1. ~End(r)
      <4>1. request'[r].pc = "lookup"
        BY <1>1, <1>2, GoShape DEF Accept, AccountInv
      <4> QED BY <4>1, EndShape, IdleIsIdle DEF AccountInv
    <3> QED BY <3>1 DEF VerifyMock
  <2>2. uses' = [uses EXCEPT ![c] = @ + 1]
    BY <1>2 DEF Accept
  <2>3. /\ uses[c] = 0 /\ c \in inbox /\ row[c] = NoCode
        /\ \A p \in Phones \ {q} : memo[p] # NoCode => memo[p].code # c
    BY <1>1, <2>1 DEF UsesInv
  <2>4. /\ memo'[q] = NoCode /\ \A p \in Phones \ {q} : memo'[p] = memo[p]
        /\ uses'[c] = 1 /\ \A d \in Codes \ {c} : uses'[d] = uses[d]
    BY <1>1, <2>1, <2>2, <2>3 DEF AccountInv, TypeOK
  <2>5. \A s \in Requests : request'[s].pc = "consume" => request'[s] = request[s]
    <3>1. request'[r].pc = "lookup" /\ \A s \in Requests \ {r} : request'[s] = request[s]
      BY <1>1, <1>2, GoShape DEF Accept, AccountInv
    <3> QED BY <3>1
  <2>6. \A d \in Codes : d \notin Sent' => uses'[d] = 0
    BY <1>1, <2>3, <2>4 DEF Sent, UsesInv
  <2>7. \A p \in Phones : memo'[p] # NoCode =>
          /\ memo'[p] = memo[p] /\ memo'[p].code \in inbox
          /\ row[memo'[p].code] = NoCode /\ uses'[memo'[p].code] = 0
    <3>1. \A p \in Phones : memo'[p] # NoCode => p # q /\ memo'[p] = memo[p] /\ memo[p].code \in Codes
      BY <2>4 DEF AccountInv, TypeOK, KeptCode
    <3> QED BY <1>1, <2>3, <2>4, <3>1 DEF UsesInv
  <2>8. \A d \in Codes : row[d] = NoCode => uses'[d] <= 1
    BY <1>1, <2>4 DEF UsesInv
  <2>9. ASSUME NEW d \in Codes, row[d] # NoCode
        PROVE  /\ uses'[d] # 0 => row[d].consumed
               /\ uses'[d] + Cardinality(Consuming(d)') <= Cardinality(Requests)
    <3>1. d # c /\ uses'[d] = uses[d]
      BY <2>3, <2>4, <2>9
    <3>2. Consuming(d)' \subseteq Consuming(d)
      BY <2>5 DEF Consuming
    <3>3. Cardinality(Consuming(d)') <= Cardinality(Consuming(d)) /\ Cardinality(Consuming(d)') \in Nat
      BY <3>2, ConsumingFinite, FS_Subset, FS_CardinalityType
    <3>4. uses[d] \in Nat
      BY DEF AccountInv, TypeOK
    <3> QED BY <2>9, <3>1, <3>3, <3>4, ConsumingFinite DEF UsesInv
  <2> QED BY <1>1, <2>6, <2>7, <2>8, <2>9 DEF UsesInv
<1>3. CASE End(r) /\ UNCHANGED uses
  <2>1. \A s \in Requests : request'[s].pc = "consume" => request'[s] = request[s]
    BY <1>3, EndShape, IdleIsIdle DEF AccountInv
  <2>2. \A p \in Phones : memo'[p] # NoCode => memo[p] # NoCode /\ memo'[p].code = memo[p].code
    BY <1>1 DEF VerifyMock, AccountInv, TypeOK
  <2> QED BY <1>1, <1>3, <2>1, <2>2, UsesQuiet
<1> QED BY <1>2, <1>3 DEF VerifyMock

LEMMA VerifyFindUses ==
  ASSUME AccountInv, AccountInv', UsesInv, NEW r \in Requests, VerifyFind(r)
  PROVE  UsesInv'
<1> PICK c \in Codes : c = request[r].code
  BY RequestType DEF VerifyFind, At, AccountInv
<1>1. /\ c \in Codes /\ request[r] \in Verifying
      /\ UNCHANGED <<row, inbox, memo, uses>>
  BY RequestType DEF VerifyFind, At, AccountInv
<1>2. CASE IsNewest(request[r].phone, c)
  <2>1. /\ request'[r].pc = "consume" /\ request'[r].code = c
        /\ \A s \in Requests \ {r} : request'[s] = request[s]
    BY <1>1, <1>2, GoShape DEF VerifyFind, AccountInv
  <2>2. uses[c] = 0
    BY <1>1, <1>2 DEF IsNewest, Usable, UsesInv
  <2>3. \A d \in Codes \ {c} : Consuming(d)' \subseteq Consuming(d)
    BY <2>1 DEF Consuming
  <2>4. \A d \in Codes \ {c} : Cardinality(Consuming(d)') <= Cardinality(Consuming(d))
    BY <2>3, ConsumingFinite, FS_Subset
  <2>5. Consuming(c)' \subseteq Requests
    BY DEF Consuming
  <2>6. Cardinality(Consuming(c)') <= Cardinality(Requests)
    BY <2>5, RequestsAssumption, FS_Subset
  <2>7. \A d \in Codes : Cardinality(Consuming(d)') \in Nat
    <3>1. \A d \in Codes : Consuming(d)' \subseteq Requests
      BY DEF Consuming
    <3> QED BY <3>1, RequestsAssumption, FS_Subset, FS_CardinalityType
  <2>8. ASSUME NEW d \in Codes, row[d] # NoCode
        PROVE  uses'[d] + Cardinality(Consuming(d)') <= Cardinality(Requests)
    <3>1. uses[d] \in Nat
      BY DEF AccountInv, TypeOK
    <3>2. CASE d = c
      <4>1. uses'[d] = 0
        BY <1>1, <2>2, <3>2
      <4> QED BY <2>6, <2>7, <3>2, <4>1, ConsumingFinite
    <3>3. CASE d # c
      BY <1>1, <2>4, <2>7, <2>8, <3>1, <3>3, ConsumingFinite DEF UsesInv
    <3> QED BY <3>2, <3>3
  <2> QED BY <1>1, <2>8 DEF UsesInv, Sent
<1>3. CASE ~IsNewest(request[r].phone, c)
  <2>1. \A s \in Requests : request'[s].pc = "consume" => request'[s] = request[s]
    BY <1>3, EndShape, IdleIsIdle DEF VerifyFind, AccountInv
  <2> QED BY <1>1, <2>1, UsesQuiet
<1> QED BY <1>2, <1>3

LEMMA VerifyConsumeUses ==
  ASSUME AccountInv, AccountInv', UsesInv, NEW r \in Requests, VerifyConsume(r)
  PROVE  UsesInv'
<1> PICK c \in Codes : c = request[r].code
  BY RequestType DEF VerifyConsume, At, AccountInv
<1> DEFINE marked == [row[c] EXCEPT !.consumed = TRUE]
<1>1. /\ c \in Codes /\ request[r] \in Verifying /\ request[r].pc = "consume"
      /\ UNCHANGED <<inbox, memo>>
  BY RequestType DEF VerifyConsume, At, AccountInv
<1>2. row[c] # NoCode
  BY <1>1 DEF AccountInv, CodeThere
<1>3. row[c] \in CodeRow
  BY <1>1 DEF AccountInv, CodeThere, TypeOK
<1>4. marked \in CodeRow /\ marked.consumed
  BY <1>3 DEF CodeRow
<1>5. row' = [row EXCEPT ![c] = marked] /\ uses' = [uses EXCEPT ![c] = @ + 1]
  BY DEF VerifyConsume, Accept
<1> HIDE DEF marked
<1>6. /\ row'[c] = marked /\ row'[c] # NoCode
      /\ \A d \in Codes \ {c} : row'[d] = row[d] /\ uses'[d] = uses[d]
      /\ uses'[c] = uses[c] + 1
  BY <1>1, <1>4, <1>5, NullAssumption DEF AccountInv, TypeOK
<1>7. request'[r].pc = "lookup" /\ \A s \in Requests \ {r} : request'[s] = request[s]
  BY <1>1, GoShape DEF VerifyConsume, Accept, AccountInv
<1>8. Consuming(c)' = Consuming(c) \ {r} /\ r \in Consuming(c)
  BY <1>1, <1>7 DEF Consuming
<1>9. Cardinality(Consuming(c)') = Cardinality(Consuming(c)) - 1
  BY <1>1, <1>8, ConsumingFinite, FS_RemoveElement, ZenonT(30)
<1>10. \A d \in Codes \ {c} : Consuming(d)' = Consuming(d)
  BY <1>1, <1>7 DEF Consuming
<1>11. ASSUME NEW d \in Codes, row'[d] # NoCode
       PROVE  /\ uses'[d] # 0 => row'[d].consumed
              /\ uses'[d] + Cardinality(Consuming(d)') <= Cardinality(Requests)
  <2>1. uses[d] \in Nat /\ Cardinality(Consuming(d)) \in Nat /\ Cardinality(Requests) \in Nat
    BY ConsumingFinite DEF AccountInv, TypeOK
  <2>2. CASE d = c
    <3>1. uses[c] + Cardinality(Consuming(c)) <= Cardinality(Requests)
      BY <1>2 DEF UsesInv
    <3>2. uses'[c] + Cardinality(Consuming(c)') <= Cardinality(Requests)
      BY <1>6, <1>9, <2>1, <2>2, <3>1
    <3>3. row'[c] # NoCode /\ row'[c].consumed
      BY <1>4, <1>6
    <3> QED BY <2>2, <3>2, <3>3
  <2>3. CASE d # c
    BY <1>6, <1>10, <1>11, <2>3 DEF UsesInv
  <2> QED BY <2>2, <2>3
<1>12. \A d \in Codes : d \notin Sent' => uses'[d] = 0
  BY <1>1, <1>6 DEF Sent, UsesInv
<1>13. \A d \in Codes : row'[d] = NoCode => row[d] = NoCode /\ uses'[d] <= 1
  BY <1>6 DEF UsesInv
<1>14. \A p \in Phones : memo'[p] # NoCode =>
         memo'[p].code \in inbox' /\ row'[memo'[p].code] = NoCode /\ uses'[memo'[p].code] = 0
  <2>1. \A p \in Phones : memo[p] # NoCode => memo[p].code \in Codes \ {c}
    BY <1>2 DEF UsesInv, AccountInv, TypeOK, KeptCode
  <2> QED BY <1>1, <1>6, <2>1 DEF UsesInv
<1> QED BY <1>1, <1>11, <1>12, <1>13, <1>14 DEF UsesInv

\* What a code was accepted for is what its row, or memory, and the requests about to
\* consume it account for.
THEOREM UsesInvariant == Spec => []UsesInv
<1>1. Init => UsesInv
  <2> SUFFICES ASSUME Init PROVE UsesInv
    OBVIOUS
  <2>1. \A r \in Requests : request[r].pc # "consume"
    BY DEF Init, Idle
  <2>2. \A c \in Codes : Consuming(c) = {} /\ uses[c] = 0
    BY <2>1 DEF Consuming, Init
  <2>3. Cardinality({}) = 0 /\ Cardinality(Requests) \in Nat
    BY FS_EmptySet, RequestsAssumption, FS_CardinalityType
  <2>4. \A p \in Phones : memo[p] = NoCode
    BY DEF Init
  <2> QED BY <2>1, <2>2, <2>3, <2>4 DEF UsesInv
<1>2. AccountInv /\ AccountInv' /\ UsesInv /\ [Next]_vars => UsesInv'
  <2> SUFFICES ASSUME AccountInv, AccountInv', UsesInv, [Next]_vars PROVE UsesInv'
    OBVIOUS
  <2>1. CASE UNCHANGED vars
    BY <2>1, UsesQuiet DEF vars
  <2>2. CASE Next
    <3> DEFINE Goal == UsesInv'
    <3>1. ASSUME UNCHANGED <<uses, memo, inbox>>,
                 \A s \in Requests : request'[s].pc = "consume" => request'[s] = request[s],
                 \A c \in Codes : row[c] # NoCode => row'[c] # NoCode,
                 \A c \in Codes : c \in Sent /\ row[c] = NoCode => row'[c] = NoCode,
                 \A c \in Codes : row[c] # NoCode /\ row[c].consumed => row'[c].consumed
          PROVE  Goal
      BY <3>1, UsesQuiet
    <3>2. ASSUME NEW r \in Requests, NEW h, Goto(r, h), h.pc # "consume",
                 UNCHANGED <<uses, memo, inbox, row>>
          PROVE  Goal
      <4>1. \A s \in Requests : request'[s].pc = "consume" => request'[s] = request[s]
        BY <3>2 DEF Goto, AccountInv, TypeOK
      <4> QED BY <3>1, <3>2, <4>1
    <3>3. ASSUME NEW r \in Requests, \E p \in Phones : SendStart(r, p) PROVE Goal
      BY <3>2, <3>3 DEF SendStart
    <3>4. ASSUME NEW r \in Requests,
                 \E p \in Phones, c \in Codes, purpose \in Purposes, role \in Roles :
                   VerifyStart(r, p, c, purpose, role)
          PROVE  Goal
      BY <3>2, <3>4 DEF VerifyStart
    <3>5. ASSUME NEW r \in Requests, \E p \in Phones, password \in Passwords : LoginStart(r, p, password)
          PROVE  Goal
      <4>1. PICK p \in Phones, password \in Passwords : LoginStart(r, p, password)
        BY <3>5
      <4> DEFINE h == [pc |-> IF password = user[p].hash THEN "right" ELSE "wrong", phone |-> p]
      <4>2. h.pc # "consume"
        OBVIOUS
      <4>3. Goto(r, h)
        BY <4>1 DEF LoginStart
      <4> HIDE DEF h
      <4> QED BY <3>2, <4>1, <4>2, <4>3 DEF LoginStart
    <3>6. ASSUME NEW r \in Requests, SendCreate(r) PROVE Goal
      <4>1. NextCode \in Codes /\ NextCode \notin Sent /\ request[r].phone \in Phones
        BY <3>6, NextCodeFresh, RequestType DEF SendCreate, At, AccountInv
      <4>2. row[NextCode] = NoCode
        BY <4>1 DEF Sent
      <4> DEFINE h == [pc |-> "supersede", phone |-> request[r].phone, code |-> NextCode]
      <4>3. \A s \in Requests : request'[s].pc = "consume" => request'[s] = request[s]
        <5>1. Goto(r, h) /\ h.pc = "supersede"
          BY <3>6 DEF SendCreate
        <5> HIDE DEF h
        <5> QED BY <5>1 DEF Goto, AccountInv, TypeOK
      <4>4. \A c \in Codes : row[c] # NoCode => row'[c] = row[c]
        BY <3>6, <4>1, <4>2 DEF SendCreate, AccountInv, TypeOK
      <4>5. \A c \in Codes : c \in Sent /\ row[c] = NoCode => row'[c] = NoCode
        BY <3>6, <4>1 DEF SendCreate, AccountInv, TypeOK
      <4> QED BY <3>1, <3>6, <4>3, <4>4, <4>5 DEF SendCreate
    <3>7. ASSUME NEW r \in Requests, SendSupersede(r) PROVE Goal
      <4>1. request[r] \in Delivering
        BY <3>7, RequestType DEF SendSupersede, At, AccountInv
      <4>2. \A s \in Requests : request'[s].pc = "consume" => request'[s] = request[s]
        <5>1. PICK pc \in {"deliver"} : Go(r, pc)
          BY <3>7 DEF SendSupersede
        <5> QED BY <4>1, <5>1, GoShape DEF AccountInv
      <4>3. ASSUME NEW c \in Codes, row[c] # NoCode
            PROVE  row'[c] # NoCode /\ (row[c].consumed => row'[c].consumed)
        <5> DEFINE marked == [row[c] EXCEPT !.consumed = TRUE]
        <5>1. row[c] \in CodeRow
          BY <4>3 DEF AccountInv, TypeOK
        <5>2. marked \in CodeRow /\ marked.consumed
          BY <5>1 DEF CodeRow
        <5>3. row'[c] = row[c] \/ row'[c] = marked
          BY <3>7, <4>3 DEF SendSupersede, Superseded
        <5> HIDE DEF marked
        <5>4. CASE row'[c] = row[c]
          BY <4>3, <5>4
        <5>5. CASE row'[c] = marked
          BY <5>2, <5>5, NullAssumption
        <5> QED BY <5>3, <5>4, <5>5
      <4>4. \A c \in Codes : row[c] = NoCode => row'[c] = NoCode
        BY <3>7 DEF SendSupersede, Superseded
      <4> QED BY <3>1, <3>7, <4>2, <4>3, <4>4 DEF SendSupersede
    <3>8. ASSUME NEW r \in Requests, SendDeliver(r) PROVE Goal
      <4>1. \A s \in Requests : request'[s].pc = "consume" => request'[s] = request[s]
        BY <3>8, EndShape, IdleIsIdle DEF SendDeliver, AccountInv
      <4> QED BY <3>8, <4>1, UsesQuiet DEF SendDeliver
    <3>9. ASSUME NEW r \in Requests, Lookup(r) PROVE Goal
      <4>1. request[r] \in Verifying
        BY <3>9, RequestType DEF Lookup, At, AccountInv
      <4>2. End(r) \/ \E pc \in {"create", "password"} : Go(r, pc)
        BY <3>9, <4>1, RequestType DEF Lookup, At, AccountInv, Purposes
      <4>3. \A s \in Requests : request'[s].pc = "consume" => request'[s] = request[s]
        BY <4>1, <4>2, EndShape, GoShape, IdleIsIdle DEF AccountInv
      <4> QED BY <3>1, <3>9, <4>3 DEF Lookup
    <3>10. ASSUME NEW r \in Requests, CreateUser(r) \/ SetPassword(r) \/ FailureWrite(r) \/ LoginSuccess(r)
           PROVE  Goal
      <4>1. \A s \in Requests : request'[s].pc = "consume" => request'[s] = request[s]
        BY <3>10, EndShape, IdleIsIdle
           DEF CreateUser, SetPassword, FailureWrite, LoginSuccess, AccountInv
      <4> QED BY <3>1, <3>10, <4>1 DEF CreateUser, SetPassword, FailureWrite, LoginSuccess
    <3>11. ASSUME NEW r \in Requests, FailureRead(r) PROVE Goal
      BY <3>2, <3>11 DEF FailureRead
    <3>12. \A p \in Phones : Minute(p) \/ LockRunsOut(p) => Goal
      BY <3>1 DEF Minute, LockRunsOut
    <3>13. ASSUME NEW c \in Codes, FiveMinutes(c) PROVE Goal
      <4>1. \A p \in Phones : memo'[p] # NoCode => memo[p] # NoCode /\ memo'[p].code = memo[p].code
        BY <3>13 DEF FiveMinutes, AccountInv, TypeOK, KeptCode
      <4>2. \A d \in Codes : row[d] # NoCode =>
              row'[d] # NoCode /\ (row[d].consumed => row'[d].consumed)
        <5> DEFINE old == [row[c] EXCEPT !.dead = TRUE]
        <5>1. row' = row \/ (row[c] # NoCode /\ row' = [row EXCEPT ![c] = old])
          BY <3>13 DEF FiveMinutes
        <5>2. CASE row' = row
          BY <5>2
        <5>3. CASE row[c] # NoCode /\ row' = [row EXCEPT ![c] = old]
          <6>1. row[c] \in CodeRow
            BY <5>3 DEF AccountInv, TypeOK
          <6>2. old \in CodeRow /\ old.consumed = row[c].consumed
            BY <6>1 DEF CodeRow
          <6> HIDE DEF old
          <6>3. row'[c] = old /\ \A d \in Codes \ {c} : row'[d] = row[d]
            BY <5>3 DEF AccountInv, TypeOK
          <6> QED BY <6>2, <6>3, NullAssumption
        <5> QED BY <5>1, <5>2, <5>3
      <4>3. \A d \in Codes : row[d] = NoCode => row'[d] = NoCode
        BY <3>13 DEF FiveMinutes, AccountInv, TypeOK
      <4> QED BY <3>13, <4>1, <4>2, <4>3, UsesQuiet DEF FiveMinutes
    <3>14. ASSUME Restart PROVE Goal
      BY <3>14, IdleIsIdle, UsesQuiet DEF Restart
    <3>20. ASSUME ChangeMode PROVE Goal
      BY <3>1, <3>20 DEF ChangeMode
    <3>15. \A r \in Requests : SendMock(r) => Goal
      BY SendMockUses
    <3>16. \A r \in Requests : VerifyMock(r) => Goal
      BY VerifyMockUses
    <3>17. \A r \in Requests : VerifyFind(r) => Goal
      BY VerifyFindUses
    <3>18. \A r \in Requests : VerifyConsume(r) => Goal
      BY VerifyConsumeUses
    <3> HIDE DEF Goal
    <3>19. Goal
      BY ONLY <2>2, <3>3, <3>4, <3>5, <3>6, <3>7, <3>8, <3>9, <3>10, <3>11, <3>12, <3>13, <3>14,
        <3>15, <3>16, <3>17, <3>18, <3>20, NextCases
    <3> QED BY <3>19 DEF Goal
  <2> QED BY <2>1, <2>2
<1> QED BY <1>1, <1>2, AccountInvariant, PTL DEF Spec

\* A code in memory is used once, one in the table at most once for each request at a
\* time, whenever the setting smsMode is changed.
THEOREM CodesAreBounded == Spec => []CodeUsesBounded
<1>1. AccountInv /\ UsesInv => CodeUsesBounded
  <2> SUFFICES ASSUME AccountInv, UsesInv, NEW c \in Codes
               PROVE  uses[c] <= IF row[c] = NoCode THEN 1 ELSE Cardinality(Requests)
    BY DEF CodeUsesBounded
  <2>1. uses[c] \in Nat /\ Cardinality(Consuming(c)) \in Nat /\ Cardinality(Requests) \in Nat
    BY ConsumingFinite DEF AccountInv, TypeOK
  <2> QED BY <2>1 DEF UsesInv
<1> QED BY <1>1, AccountInvariant, UsesInvariant, PTL

=============================================================================
