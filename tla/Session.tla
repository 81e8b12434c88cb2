------------------------------- MODULE Session -------------------------------
(***************************************************************************)
(* One browser, several portals: the token slots of local storage, the       *)
(* cookie with one entry per portal, tabs that load pages, send requests,    *)
(* refresh their token once for all of them, log in and out.                 *)
(***************************************************************************)
EXTENDS Naturals, FiniteSetsExt

CONSTANTS
  Roles,            \* the portals, one account each
  Tabs, Calls,      \* tabs, and the requests a page may have under way at once
  Login, None,      \* the path /login; no token
  Fits,             \* sets of portals whose tokens make a cookie of 3500 bytes at most
  Numbers,          \* bound: tokens that are in use at once
  MaxActs,          \* bound: pages opened by hand, logins, logouts
  MaxTicks          \* bound: tokens running out

ASSUME NamesAssumption == Login \notin Roles
ASSUME NumbersAssumption == Numbers \subseteq Nat

VARIABLES
  slot,             \* lm_token and lm_refresh of each portal
  jar,              \* portals with an entry in the cookie lm_tokens
  age,              \* of a token: 0 fresh, 1 access token dead, 2 refresh token too
  tab,              \* path of the tab and how far the portal's layout is
  call,             \* requests of the page
  refresh,          \* refreshPromise of the tab
  login, logout,    \* requests for it under way
  acts, ticks

vars == <<slot, jar, age, tab, call, refresh, login, logout, acts, ticks>>

Token == [role : Roles, n : Numbers]
Empty == [access |-> None, refresh |-> None]
Idle == [pc |-> "idle", token |-> None]
NoRefresh == [pc |-> "none", token |-> None, jar |-> {}]
NoLogin == [pc |-> "none", role |-> None, jar |-> {}]

Act == acts < MaxActs /\ acts' = acts + 1                  \* bound

At(t) == tab[t].at
AtLogin == [at |-> Login, stage |-> "ready", token |-> None]
Loading(r) == [at |-> r, stage |-> "mount", token |-> None]

\* Access and refresh token of one issue share the jti. A logout kills the access
\* token as its time does.
Live(token) == token # None /\ age[token.n] = 0
Refreshable(token) == token # None /\ age[token.n] < 2

\* A number no slot and no request refers to.
InUse ==
  LET tokens == UNION {{slot[r].access, slot[r].refresh} : r \in Roles}
        \cup UNION {{tab[t].token, refresh[t].token} : t \in Tabs}
        \cup {call[t][k].token : t \in Tabs, k \in Calls}
        \cup {x.token : x \in UNION {logout[t] : t \in Tabs}}
  IN  {token.n : token \in tokens \ {None}}

Fresh == Min(Numbers \ InUse)
Issued(role) == [role |-> role, n |-> Fresh]
Both(token) == [access |-> token, refresh |-> token]

\* The cookie an answer sets is made from the one its request came with. When it gets
\* too long, only the portal the answer is about is kept, or none.
writeRoleMap(entries, keep) == IF entries \in Fits THEN entries ELSE keep
setRoleTokenCookie(sent, role) == writeRoleMap(sent \cup {role}, {role})

\* Without a token in the request every entry goes.
clearRoleTokenCookie(sent, token) ==
  IF token = None THEN {} ELSE writeRoleMap(sent \ {token.role}, {})

\* What the request interceptor adds: the token of the portal the tab is in.
getToken(t) == IF At(t) = Login THEN None ELSE slot[At(t)].access
getRefreshToken(t) == IF At(t) = Login THEN None ELSE slot[At(t)].refresh

-----------------------------------------------------------------------------
(* Loading a page. A page opened by address starts the scripts of the tab    *)
(* anew: its requests are gone.                                             *)

Restart(t) ==
  /\ call' = [call EXCEPT ![t] = [k \in Calls |-> Idle]]
  /\ refresh' = [refresh EXCEPT ![t] = NoRefresh]
  /\ login' = [login EXCEPT ![t] = NoLogin]

\* The middleware lets a portal load when the cookie has an entry for it. The entry is a
\* token of that portal: each is written below the role it was issued for.
middleware(r) == IF r \in jar THEN Loading(r) ELSE AtLogin

OpenPage(t, r) ==
  /\ Act
  /\ tab' = [tab EXCEPT ![t] = middleware(r)]
  /\ Restart(t)
  /\ logout' = [logout EXCEPT ![t] = {}]
  /\ UNCHANGED <<slot, jar, age, ticks>>

\* Mutant: a page without a token waits for one.
MountWaits(t) ==
  /\ tab[t].stage = "mount"
  /\ getToken(t) # None
  /\ tab' = [tab EXCEPT ![t].stage = "profile", ![t].token = getToken(t)]
  /\ UNCHANGED <<slot, jar, age, call, refresh, login, logout, acts, ticks>>

\* useCurrentUser: without a token to the login page, else the profile is asked for.
Mount(t) ==
  /\ tab[t].stage = "mount"
  /\ IF getToken(t) = None
     THEN /\ slot' = [slot EXCEPT ![At(t)] = Empty]
          /\ tab' = [tab EXCEPT ![t] = AtLogin]
     ELSE /\ tab' = [tab EXCEPT ![t].stage = "profile", ![t].token = getToken(t)]
          /\ UNCHANGED slot
  /\ UNCHANGED <<jar, age, call, refresh, login, logout, acts, ticks>>

\* /auth/profile is not refreshed for. When it fails, for whatever reason, the slot is
\* cleared and a logout sent, which no longer finds a token to carry.
ProfileAnswer(t) ==
  /\ tab[t].stage = "profile"
  /\ \/ /\ Live(tab[t].token)
        /\ tab' = [tab EXCEPT ![t].stage = "ready", ![t].token = None]
        /\ UNCHANGED <<slot, logout>>
     \/ /\ slot' = [slot EXCEPT ![At(t)] = Empty]
        /\ tab' = [tab EXCEPT ![t] = AtLogin]
        /\ logout' = [logout EXCEPT ![t] = @ \cup {[token |-> None, jar |-> jar, clears |-> None]}]
  /\ UNCHANGED <<jar, age, call, refresh, login, acts, ticks>>

-----------------------------------------------------------------------------
(* Requests of the page, and the interceptor of their answers.              *)

Send(t, k) ==
  /\ At(t) # Login
  /\ tab[t].stage = "ready"
  /\ call[t][k] = Idle
  /\ call' = [call EXCEPT ![t][k] = [pc |-> "sent", token |-> getToken(t)]]
  /\ UNCHANGED <<slot, jar, age, tab, refresh, login, logout, acts, ticks>>

\* With what was asked for, or an error that is not about the token.
Answered(t, k) ==
  /\ call[t][k].pc = "sent"
  /\ call' = [call EXCEPT ![t][k] = Idle]
  /\ UNCHANGED <<slot, jar, age, tab, refresh, login, logout, acts, ticks>>

\* No refresh to be had: the slot of the portal goes, a logout is sent without a
\* token, and the login page is loaded, if it is not there already.
GiveUp(t, waiting) ==
  IF At(t) = Login
  THEN /\ call' = [call EXCEPT ![t] = [k \in Calls |-> IF k \in waiting THEN Idle ELSE @[k]]]
       /\ refresh' = [refresh EXCEPT ![t] = NoRefresh]
       /\ logout' = [logout EXCEPT ![t] = @ \cup {[token |-> None, jar |-> jar, clears |-> None]}]
       /\ UNCHANGED <<slot, tab, login>>
  ELSE /\ Restart(t)
       /\ slot' = [slot EXCEPT ![At(t)] = Empty]
       /\ tab' = [tab EXCEPT ![t] = AtLogin]
       \* the page goes while the logout is on its way
       /\ \E arrives \in SUBSET {[token |-> None, jar |-> jar, clears |-> None]} :
            logout' = [logout EXCEPT ![t] = arrives]

\* 401: the first to meet it begins a refresh, the others wait for the same one.
Unauthorized(t, k) ==
  /\ call[t][k].pc = "sent"
  /\ ~Live(call[t][k].token)
  /\ \/ /\ refresh[t] # NoRefresh
        /\ call' = [call EXCEPT ![t][k] = [pc |-> "waiting", token |-> None]]
        /\ UNCHANGED <<slot, tab, refresh, login, logout>>
     \/ /\ refresh[t] = NoRefresh
        /\ getRefreshToken(t) # None
        /\ refresh' = [refresh EXCEPT ![t] =
             [pc |-> "sent", token |-> getRefreshToken(t), jar |-> jar]]
        /\ call' = [call EXCEPT ![t][k] = [pc |-> "waiting", token |-> None]]
        /\ UNCHANGED <<slot, tab, login, logout>>
     \/ /\ refresh[t] = NoRefresh
        /\ getRefreshToken(t) = None
        /\ GiveUp(t, {k})
  /\ UNCHANGED <<jar, age, acts, ticks>>

Waiting(t) == {k \in Calls : call[t][k].pc = "waiting"}

\* The new token goes to the slot of the portal the tab is in by now.
RefreshSucceeds(t) ==
  /\ refresh[t].pc = "sent"
  /\ Refreshable(refresh[t].token)
  /\ LET token == Issued(refresh[t].token.role) IN
     /\ jar' = setRoleTokenCookie(refresh[t].jar, token.role)
     /\ age' = [age EXCEPT ![token.n] = 0]
     /\ slot' = IF At(t) = Login THEN slot ELSE [slot EXCEPT ![At(t)] = Both(token)]
     /\ call' = [call EXCEPT ![t] = [k \in Calls |->
          IF k \in Waiting(t) THEN [pc |-> "retry", token |-> token] ELSE @[k]]]
  /\ refresh' = [refresh EXCEPT ![t] = NoRefresh]
  /\ UNCHANGED <<tab, login, logout, acts, ticks>>

\* Mutant: the refused refresh is itself answered by waiting for the refresh.
RefreshFailsNested(t) ==
  /\ refresh[t].pc = "sent"
  /\ refresh' = [refresh EXCEPT ![t].pc = "nested"]
  /\ UNCHANGED <<slot, jar, age, tab, call, login, logout, acts, ticks>>

\* The token is refused, or no answer comes: both are taken for the end of the session.
RefreshFails(t) ==
  /\ refresh[t].pc = "sent"
  /\ GiveUp(t, Waiting(t))
  /\ UNCHANGED <<jar, age, acts, ticks>>

\* A request is repeated once; what comes of it the second time goes to the page.
Retried(t, k) ==
  /\ call[t][k].pc = "retry"
  /\ call' = [call EXCEPT ![t][k] = Idle]
  /\ UNCHANGED <<slot, jar, age, tab, refresh, login, logout, acts, ticks>>

-----------------------------------------------------------------------------
(* Logging in and out.                                                      *)

LoginSend(t, r) ==
  /\ Act
  /\ tab[t] = AtLogin
  /\ login[t] = NoLogin
  /\ login' = [login EXCEPT ![t] = [pc |-> "sent", role |-> r, jar |-> jar]]
  /\ UNCHANGED <<slot, jar, age, tab, call, refresh, logout, ticks>>

LoginAnswer(t) ==
  /\ login[t].pc = "sent"
  /\ LET token == Issued(login[t].role) IN
     /\ age' = [age EXCEPT ![token.n] = 0]
     /\ slot' = [slot EXCEPT ![token.role] = Both(token)]
     /\ jar' = setRoleTokenCookie(login[t].jar, token.role)
     /\ tab' = [tab EXCEPT ![t] = Loading(token.role)]
  /\ login' = [login EXCEPT ![t] = NoLogin]
  /\ UNCHANGED <<call, refresh, logout, acts, ticks>>

\* Refused, or not answered: the form stays.
LoginFails(t) ==
  /\ login[t].pc = "sent"
  /\ login' = [login EXCEPT ![t] = NoLogin]
  /\ UNCHANGED <<slot, jar, age, tab, call, refresh, logout, acts, ticks>>

\* useLogout: the portal is the one the button was in.
LogoutSend(t) ==
  /\ Act
  /\ At(t) # Login
  /\ tab[t].stage = "ready"
  /\ \A x \in logout[t] : x.clears = None
  /\ logout' = [logout EXCEPT ![t] =
       @ \cup {[token |-> getToken(t), jar |-> jar, clears |-> At(t)]}]
  /\ UNCHANGED <<slot, jar, age, tab, call, refresh, login, ticks>>

\* The answer, or none: the page goes on in either case.
LogoutAnswer(t) ==
  \E x \in logout[t] :
    /\ \/ /\ jar' = clearRoleTokenCookie(x.jar, x.token)
          /\ age' = IF Live(x.token) THEN [age EXCEPT ![x.token.n] = 1] ELSE age
       \/ UNCHANGED <<jar, age>>
    /\ logout' = [logout EXCEPT ![t] = @ \ {x}]
    /\ IF x.clears = None
       THEN UNCHANGED <<slot, tab>>
       ELSE /\ slot' = [slot EXCEPT ![x.clears] = Empty]
            /\ tab' = [tab EXCEPT ![t] = AtLogin]
    /\ UNCHANGED <<call, refresh, login, acts, ticks>>

\* Time passes for a token: an hour, a week.
Age(n) ==
  /\ n \in InUse
  /\ age[n] < 2
  /\ ticks < MaxTicks                                     \* bound
  /\ ticks' = ticks + 1
  /\ age' = [age EXCEPT ![n] = @ + 1]
  /\ UNCHANGED <<slot, jar, tab, call, refresh, login, logout, acts>>

-----------------------------------------------------------------------------
Init ==
  /\ slot = [r \in Roles |-> Empty]
  /\ jar = {}
  /\ age = [n \in Numbers |-> 0]
  /\ tab = [t \in Tabs |-> AtLogin]
  /\ call = [t \in Tabs |-> [k \in Calls |-> Idle]]
  /\ refresh = [t \in Tabs |-> NoRefresh]
  /\ login = [t \in Tabs |-> NoLogin]
  /\ logout = [t \in Tabs |-> {}]
  /\ acts = 0
  /\ ticks = 0

Reply(t, k) == Answered(t, k) \/ Unauthorized(t, k) \/ Retried(t, k)
RefreshAnswer(t) == RefreshSucceeds(t) \/ RefreshFails(t)

TabStep(t) ==
  \/ \E r \in Roles : OpenPage(t, r) \/ LoginSend(t, r)
  \/ Mount(t)
  \/ ProfileAnswer(t)
  \/ \E k \in Calls : Send(t, k) \/ Reply(t, k)
  \/ RefreshAnswer(t)
  \/ LoginAnswer(t)
  \/ LoginFails(t)
  \/ LogoutSend(t)
  \/ LogoutAnswer(t)

Next == (\E t \in Tabs : TabStep(t)) \/ (\E n \in Numbers : Age(n))

Spec == Init /\ [][Next]_vars

\* Pages run and requests are answered; nobody has to log in or out.
Fairness ==
  \A t \in Tabs :
    /\ WF_vars(Mount(t))
    /\ WF_vars(ProfileAnswer(t))
    /\ WF_vars(RefreshAnswer(t))
    /\ \A k \in Calls : WF_vars(Reply(t, k))

FairSpec == Spec /\ Fairness

-----------------------------------------------------------------------------
(* Properties.                                                              *)

\* Every request of a page ends, however many meet an expired token at once and
\* whatever becomes of the one refresh they wait for: nothing waits for itself.
RequestsEnd ==
  \A t \in Tabs, k \in Calls : call[t][k] # Idle ~> call[t][k] = Idle

\* A page that begins to load ends with its user or at the login page: slot, cookie
\* and token may disagree in any way, no redirect goes round in a circle.
PageSettles == \A t \in Tabs : tab[t].stage # "ready" ~> tab[t].stage = "ready"

\* Leaving one portal leaves the others: a portal that is logged in loses its entry in
\* the cookie only by a logout of its own.
OtherPortalsKept ==
  [][\A r \in jar \ jar' :
       \/ slot'[r] = Empty
       \/ \E t \in Tabs : \E x \in logout[t] \ logout'[t] :
            x.token # None /\ x.token.role = r]_vars

=============================================================================
