---------------------------- MODULE SessionProofs ----------------------------
(***************************************************************************)
(* One browser with any number of portals, tabs and requests. None of the    *)
(* facts below depends on which tokens are handed out or when they run out.  *)
(***************************************************************************)
EXTENDS Session, TLAPS

-----------------------------------------------------------------------------
(* What the layout, the requests, the refresh and the login form of one tab  *)
(* have to do with one another.                                             *)

\* A page that is loading is the page of a portal, and one that waits for its user
\* asked with a token. There is one login page.
PageSound(page) ==
  /\ page = [at |-> page.at, stage |-> page.stage, token |-> page.token]
  /\ page.at \in Roles \cup {Login}
  /\ page.stage \in {"mount", "profile", "ready"}
  /\ page.at = Login => page = AtLogin
  /\ page.stage = "profile" => page.token # None

CallsSound(calls) ==
  /\ calls = [k \in Calls |-> calls[k]]
  /\ \A k \in Calls : /\ calls[k] = [pc |-> calls[k].pc, token |-> calls[k].token]
                      /\ calls[k].pc \in {"idle", "sent", "waiting", "retry"}
                      /\ calls[k].pc = "idle" => calls[k] = Idle

\* Requests wait exactly while a refresh is under way.
RefreshSound(calls, fresh) ==
  /\ fresh = NoRefresh \/ (fresh.pc = "sent" /\ fresh.token # None)
  /\ (\E k \in Calls : calls[k].pc = "waiting") <=> fresh.pc = "sent"

\* A login is under way at the login page only.
LoginSound(page, form) ==
  form = NoLogin \/ (form.pc = "sent" /\ form.role \in Roles /\ page = AtLogin)

Sound(page, calls, fresh, form) ==
  PageSound(page) /\ CallsSound(calls) /\ RefreshSound(calls, fresh) /\ LoginSound(page, form)

SessionInv ==
  /\ slot = [r \in Roles |-> slot[r]]
  /\ tab = [t \in Tabs |-> tab[t]]
  /\ call = [t \in Tabs |-> call[t]]
  /\ refresh = [t \in Tabs |-> refresh[t]]
  /\ login = [t \in Tabs |-> login[t]]
  /\ \A t \in Tabs : Sound(tab[t], call[t], refresh[t], login[t])

\* A tab whose scripts have just been started.
LEMMA StartsSound ==
  ASSUME NEW page, PageSound(page)
  PROVE  Sound(page, [k \in Calls |-> Idle], NoRefresh, NoLogin)
<1>1. CallsSound([k \in Calls |-> Idle])
  BY DEF CallsSound, Idle
<1>2. RefreshSound([k \in Calls |-> Idle], NoRefresh)
  BY DEF RefreshSound, Idle, NoRefresh
<1> QED
  BY <1>1, <1>2 DEF Sound, LoginSound

LEMMA PagesSound ==
  PageSound(AtLogin) /\ \A r \in Roles : PageSound(Loading(r))
BY NamesAssumption DEF PageSound, AtLogin, Loading

-----------------------------------------------------------------------------
(* A step is one of a tab, and leaves the others alone.                      *)

\* Nothing of the other tabs changes, and what the tab itself becomes is sound.
OneTab(t) ==
  /\ slot' = [r \in Roles |-> slot'[r]]
  /\ tab' = [tab EXCEPT ![t] = tab'[t]]
  /\ call' = [call EXCEPT ![t] = call'[t]]
  /\ refresh' = [refresh EXCEPT ![t] = refresh'[t]]
  /\ login' = [login EXCEPT ![t] = login'[t]]
  /\ Sound(tab'[t], call'[t], refresh'[t], login'[t])

LEMMA OneTabKeeps ==
  ASSUME SessionInv, NEW t \in Tabs, OneTab(t)
  PROVE  SessionInv'
<1>1. /\ tab' = [s \in Tabs |-> tab'[s]] /\ call' = [s \in Tabs |-> call'[s]]
      /\ refresh' = [s \in Tabs |-> refresh'[s]] /\ login' = [s \in Tabs |-> login'[s]]
  BY DEF OneTab, SessionInv
<1>2. ASSUME NEW s \in Tabs PROVE Sound(tab'[s], call'[s], refresh'[s], login'[s])
  <2>1. CASE s = t
    BY <2>1 DEF OneTab
  <2>2. CASE s # t
    <3>1. tab'[s] = tab[s] /\ call'[s] = call[s] /\ refresh'[s] = refresh[s] /\ login'[s] = login[s]
      BY <2>2 DEF OneTab, SessionInv
    <3> QED
      BY <3>1 DEF SessionInv
  <2> QED
    BY <2>1, <2>2
<1> QED
  BY <1>1, <1>2 DEF SessionInv, OneTab

\* Loading.
LEMMA LoadingSteps ==
  ASSUME SessionInv, NEW t \in Tabs,
         (\E r \in Roles : OpenPage(t, r)) \/ Mount(t) \/ ProfileAnswer(t)
  PROVE  OneTab(t)
<1>1. ASSUME NEW r \in Roles, OpenPage(t, r) PROVE OneTab(t)
  <2>1. /\ tab' = [tab EXCEPT ![t] = middleware(r)] /\ slot' = slot
        /\ call' = [call EXCEPT ![t] = [k \in Calls |-> Idle]]
        /\ refresh' = [refresh EXCEPT ![t] = NoRefresh]
        /\ login' = [login EXCEPT ![t] = NoLogin]
    BY <1>1 DEF OpenPage, Restart
  <2>2. Sound(middleware(r), [k \in Calls |-> Idle], NoRefresh, NoLogin)
    BY PagesSound, StartsSound DEF middleware
  <2> QED
    BY <2>1, <2>2 DEF SessionInv, OneTab
<1>2. CASE Mount(t) \/ ProfileAnswer(t)
  <2>1. /\ Sound(tab[t], call[t], refresh[t], login[t])
        /\ tab[t].stage # "ready"
    BY <1>2 DEF Mount, ProfileAnswer, SessionInv
  <2>2. At(t) \in Roles /\ login[t] = NoLogin
    BY <2>1 DEF Sound, PageSound, LoginSound, AtLogin, At
  <2>3. PICK page : /\ tab' = [tab EXCEPT ![t] = page]
                    /\ \/ page = AtLogin
                       \/ /\ getToken(t) # None
                          /\ page = [tab[t] EXCEPT !.stage = "profile", !.token = getToken(t)]
                       \/ page = [tab[t] EXCEPT !.stage = "ready", !.token = None]
    <3>1. CASE Mount(t)
      BY <3>1 DEF Mount, SessionInv
    <3>2. CASE ProfileAnswer(t)
      BY <3>2 DEF ProfileAnswer, SessionInv
    <3> QED
      BY <1>2, <3>1, <3>2
  <2>6. PageSound(page)
    <3>1. tab[t] = [at |-> tab[t].at, stage |-> tab[t].stage, token |-> tab[t].token]
          /\ tab[t].at \in Roles /\ tab[t].at # Login
      BY <2>1, <2>2, NamesAssumption DEF Sound, PageSound, At
    <3>2. CASE page = AtLogin
      BY <3>2, PagesSound
    <3>3. CASE page # AtLogin
      BY <2>3, <3>1, <3>3 DEF PageSound
    <3> QED
      BY <3>2, <3>3
  <2>4. slot' = [r \in Roles |-> slot'[r]]
    BY <1>2 DEF Mount, ProfileAnswer, SessionInv
  <2>5. call' = call /\ refresh' = refresh /\ login' = login
    BY <1>2 DEF Mount, ProfileAnswer
  <2> QED
    BY <2>1, <2>2, <2>3, <2>4, <2>5, <2>6 DEF SessionInv, OneTab, Sound, LoginSound
<1> QED
  BY <1>1, <1>2

\* The page gives up.
LEMMA GivingUp ==
  ASSUME SessionInv, NEW t \in Tabs, NEW W, Waiting(t) \subseteq W, W \subseteq Calls,
         GiveUp(t, W)
  PROVE  OneTab(t)
<1>1. CASE At(t) = Login
  <2>1. /\ call' = [call EXCEPT ![t] = [k \in Calls |-> IF k \in W THEN Idle ELSE call[t][k]]]
        /\ refresh' = [refresh EXCEPT ![t] = NoRefresh]
        /\ UNCHANGED <<slot, tab, login>>
    BY <1>1 DEF GiveUp
  <2>2. Sound(tab[t], call[t], refresh[t], login[t])
    BY DEF SessionInv
  <2>3. CallsSound(call'[t])
    BY <2>1, <2>2 DEF SessionInv, Sound, CallsSound, Idle
  <2>4. RefreshSound(call'[t], refresh'[t])
    <3>1. refresh'[t] = NoRefresh /\ NoRefresh.pc = "none"
      BY <2>1 DEF SessionInv, NoRefresh
    <3>2. ASSUME NEW k \in Calls PROVE call'[t][k].pc # "waiting"
      BY <2>1 DEF SessionInv, Waiting, Idle
    <3> QED
      BY <3>1, <3>2 DEF RefreshSound
  <2> QED
    BY <2>1, <2>2, <2>3, <2>4 DEF SessionInv, OneTab, Sound
<1>2. CASE At(t) # Login
  <2>1. /\ Restart(t)
        /\ slot' = [slot EXCEPT ![At(t)] = Empty]
        /\ tab' = [tab EXCEPT ![t] = AtLogin]
    BY <1>2 DEF GiveUp
  <2> QED
    BY <2>1, PagesSound, StartsSound DEF Restart, SessionInv, OneTab
<1> QED
  BY <1>1, <1>2

\* Requests and their answers.
LEMMA CallSteps ==
  ASSUME SessionInv, NEW t \in Tabs, NEW k \in Calls,
         Send(t, k) \/ Answered(t, k) \/ Retried(t, k) \/ Unauthorized(t, k)
  PROVE  OneTab(t)
<1>1. Sound(tab[t], call[t], refresh[t], login[t])
  BY DEF SessionInv
<1>2. CASE Send(t, k) \/ Answered(t, k) \/ Retried(t, k)
  <2>1. PICK c : /\ c = [pc |-> "sent", token |-> getToken(t)] \/ c = Idle
                 /\ call' = [call EXCEPT ![t][k] = c]
    BY <1>2 DEF Send, Answered, Retried
  <2>2. call[t][k].pc # "waiting" /\ c.pc # "waiting"
    BY <1>2, <2>1 DEF Send, Answered, Retried, Idle
  <2>3. CallsSound(call'[t]) /\ RefreshSound(call'[t], refresh[t])
    <3>1. call'[t] = [call[t] EXCEPT ![k] = c] /\ call[t] = [j \in Calls |-> call[t][j]]
      BY <1>1, <2>1 DEF SessionInv, Sound, CallsSound
    <3>2. /\ c = [pc |-> c.pc, token |-> c.token] /\ c.pc \in {"idle", "sent"}
          /\ c.pc = "idle" => c = Idle
      BY <2>1 DEF Idle
    <3>3. CallsSound(call'[t])
      BY <1>1, <3>1, <3>2 DEF Sound, CallsSound
    <3>4. \A j \in Calls : call'[t][j].pc = "waiting" <=> call[t][j].pc = "waiting"
      BY <2>2, <3>1
    <3> QED
      BY <1>1, <3>3, <3>4 DEF Sound, RefreshSound
  <2>4. slot' = slot /\ tab' = tab /\ refresh' = refresh /\ login' = login
    BY <1>2 DEF Send, Answered, Retried
  <2> QED
    BY <1>1, <2>1, <2>3, <2>4 DEF SessionInv, OneTab, Sound
<1>3. CASE Unauthorized(t, k)
  <2>1. CASE /\ refresh[t] = NoRefresh
             /\ getRefreshToken(t) = None
             /\ GiveUp(t, {k})
    <3>1. Waiting(t) = {}
      BY <1>1, <2>1 DEF Sound, RefreshSound, Waiting, NoRefresh
    <3> QED
      BY <2>1, <3>1, GivingUp
  <2>2. CASE /\ call' = [call EXCEPT ![t][k] = [pc |-> "waiting", token |-> None]]
             /\ UNCHANGED <<slot, tab, login>>
             /\ \/ refresh[t] # NoRefresh /\ UNCHANGED refresh
                \/ /\ getRefreshToken(t) # None
                   /\ refresh' = [refresh EXCEPT ![t] =
                        [pc |-> "sent", token |-> getRefreshToken(t), jar |-> jar]]
    <3>1. refresh'[t].pc = "sent" /\ refresh'[t].token # None
      BY <1>1, <2>2 DEF SessionInv, Sound, RefreshSound
    <3>2. CallsSound(call'[t]) /\ call'[t][k].pc = "waiting"
      BY <1>1, <2>2 DEF SessionInv, Sound, CallsSound
    <3>3. RefreshSound(call'[t], refresh'[t])
      BY <3>1, <3>2 DEF RefreshSound
    <3>4. refresh' = [refresh EXCEPT ![t] = refresh'[t]]
      BY <2>2 DEF SessionInv
    <3>5. call' = [call EXCEPT ![t] = call'[t]]
      BY <2>2 DEF SessionInv
    <3> QED
      BY <1>1, <2>2, <3>2, <3>3, <3>4, <3>5 DEF SessionInv, OneTab, Sound
  <2> QED
    BY <1>3, <2>1, <2>2 DEF Unauthorized
<1> QED
  BY <1>2, <1>3

\* The refresh is answered, for all that wait for it.
LEMMA RefreshSteps ==
  ASSUME SessionInv, NEW t \in Tabs, RefreshAnswer(t)
  PROVE  OneTab(t)
<1>1. Sound(tab[t], call[t], refresh[t], login[t])
  BY DEF SessionInv
<1>2. CASE RefreshSucceeds(t)
  <2>1. PICK token :
          /\ slot' = IF At(t) = Login THEN slot ELSE [slot EXCEPT ![At(t)] = Both(token)]
          /\ call' = [call EXCEPT ![t] = [k \in Calls |->
               IF k \in Waiting(t) THEN [pc |-> "retry", token |-> token] ELSE call[t][k]]]
    BY <1>2 DEF RefreshSucceeds
  <2>2. refresh' = [refresh EXCEPT ![t] = NoRefresh] /\ tab' = tab /\ login' = login
    BY <1>2 DEF RefreshSucceeds
  <2>3. CallsSound(call'[t])
    BY <1>1, <2>1 DEF SessionInv, Sound, CallsSound
  <2>4. RefreshSound(call'[t], refresh'[t])
    <3>1. refresh'[t] = NoRefresh /\ NoRefresh.pc = "none"
      BY <2>2 DEF SessionInv, NoRefresh
    <3>2. ASSUME NEW k \in Calls PROVE call'[t][k].pc # "waiting"
      BY <2>1 DEF SessionInv, Waiting
    <3> QED
      BY <3>1, <3>2 DEF RefreshSound
  <2>5. slot' = [r \in Roles |-> slot'[r]]
    BY <2>1 DEF SessionInv
  <2> QED
    BY <1>1, <2>1, <2>2, <2>3, <2>4, <2>5 DEF SessionInv, OneTab, Sound
<1>3. CASE RefreshFails(t)
  BY <1>3, GivingUp DEF RefreshFails, Waiting
<1> QED
  BY <1>2, <1>3 DEF RefreshAnswer

\* Logging in and out.
LEMMA AccountSteps ==
  ASSUME SessionInv, NEW t \in Tabs,
         (\E r \in Roles : LoginSend(t, r)) \/ LoginAnswer(t) \/ LoginFails(t) \/ LogoutSend(t)
           \/ LogoutAnswer(t)
  PROVE  OneTab(t)
<1>1. Sound(tab[t], call[t], refresh[t], login[t])
  BY DEF SessionInv
<1>2. call' = call /\ refresh' = refresh
  BY DEF LoginSend, LoginAnswer, LoginFails, LogoutSend, LogoutAnswer
<1>3. slot' = [r \in Roles |-> slot'[r]]
  BY DEF LoginSend, LoginAnswer, LoginFails, LogoutSend, LogoutAnswer, SessionInv
<1>4. ASSUME NEW r \in Roles, LoginSend(t, r) PROVE OneTab(t)
  <2>1. tab[t] = AtLogin /\ tab' = tab
        /\ login' = [login EXCEPT ![t] = [pc |-> "sent", role |-> r, jar |-> jar]]
    BY <1>4 DEF LoginSend
  <2> QED
    BY <1>1, <1>2, <1>3, <2>1 DEF SessionInv, OneTab, Sound, LoginSound
<1>5. CASE LoginAnswer(t)
  <2>1. login[t].role \in Roles
    BY <1>1, <1>5 DEF LoginAnswer, Sound, LoginSound, NoLogin
  <2>2. /\ tab' = [tab EXCEPT ![t] = Loading(login[t].role)]
        /\ login' = [login EXCEPT ![t] = NoLogin]
    BY <1>5 DEF LoginAnswer, Issued
  <2>3. PageSound(tab'[t])
    BY <2>1, <2>2, NamesAssumption DEF SessionInv, PageSound, Loading
  <2> QED
    BY <1>1, <1>2, <1>3, <2>2, <2>3 DEF SessionInv, OneTab, Sound, LoginSound, Loading
<1>8. CASE LoginFails(t)
  <2>1. tab' = tab /\ login' = [login EXCEPT ![t] = NoLogin]
    BY <1>8 DEF LoginFails
  <2> QED
    BY <1>1, <1>2, <1>3, <2>1 DEF SessionInv, OneTab, Sound, LoginSound
<1>6. CASE LogoutSend(t)
  <2>1. tab' = tab /\ login' = login
    BY <1>6 DEF LogoutSend
  <2> QED
    BY <1>1, <1>2, <1>3, <2>1 DEF SessionInv, OneTab
<1>7. CASE LogoutAnswer(t)
  <2>1. login' = login /\ (tab' = tab \/ tab' = [tab EXCEPT ![t] = AtLogin])
    BY <1>7 DEF LogoutAnswer
  <2>2. PageSound(tab'[t]) /\ LoginSound(tab'[t], login[t]) /\ tab' = [tab EXCEPT ![t] = tab'[t]]
    BY <1>1, <2>1 DEF SessionInv, Sound, PageSound, LoginSound, AtLogin
  <2> QED
    BY <1>1, <1>2, <1>3, <2>1, <2>2 DEF SessionInv, OneTab, Sound
<1> QED
  BY <1>4, <1>5, <1>6, <1>7, <1>8

-----------------------------------------------------------------------------
\* In every tab, page, requests, refresh and login form fit together (lib/request.ts,
\* useCurrentUser, the login page): the inductive invariant of the session.
THEOREM SessionHolds == Spec => []SessionInv
<1>1. Init => SessionInv
  BY PagesSound, StartsSound DEF Init, SessionInv
<1>2. SessionInv /\ [Next]_vars => SessionInv'
  <2> SUFFICES ASSUME SessionInv, [Next]_vars
               PROVE  SessionInv'
    OBVIOUS
  <2>1. ASSUME NEW t \in Tabs, TabStep(t) PROVE OneTab(t)
    BY <2>1, LoadingSteps, CallSteps, RefreshSteps, AccountSteps DEF TabStep, Reply
  <2>2. CASE (\E n \in Numbers : Age(n)) \/ UNCHANGED vars
    BY <2>2 DEF Age, vars, SessionInv
  <2> QED
    BY <2>1, <2>2, OneTabKeeps DEF Next
<1> QED
  BY <1>1, <1>2, PTL DEF Spec

RequestsAreServed ==
  \A t \in Tabs : Waiting(t) # {} <=> refresh[t].pc = "sent"

\* However many requests of a page meet an expired token at once, and whatever happens
\* to the tab in between: requests wait for a refresh exactly while one is under way,
\* so none is left behind when it is answered or given up. RequestsEnd rests on it.
THEOREM WaitingIsServed == Spec => []RequestsAreServed
<1>1. SessionInv => RequestsAreServed
  BY DEF SessionInv, Sound, RefreshSound, RequestsAreServed, Waiting
<1> QED
  BY <1>1, SessionHolds, PTL

LoadingIsOfAPortal ==
  \A t \in Tabs :
    /\ tab[t].stage # "ready" => At(t) \in Roles /\ login[t] = NoLogin
    /\ tab[t].stage = "profile" => tab[t].token # None
    /\ login[t] # NoLogin => tab[t] = AtLogin

\* The layout and the login form of a tab never run at once: what loads is a portal's
\* page, its profile is asked for with a token, and a login under way has the login
\* page below it, so its answer replaces no page of a portal.
THEOREM LoadingAndLoginApart == Spec => []LoadingIsOfAPortal
<1>1. SessionInv => LoadingIsOfAPortal
  <2> SUFFICES ASSUME SessionInv, NEW t \in Tabs
               PROVE  /\ tab[t].stage # "ready" => At(t) \in Roles /\ login[t] = NoLogin
                      /\ tab[t].stage = "profile" => tab[t].token # None
                      /\ login[t] # NoLogin => tab[t] = AtLogin
    BY DEF LoadingIsOfAPortal
  <2>1. PageSound(tab[t]) /\ LoginSound(tab[t], login[t])
    BY DEF SessionInv, Sound
  <2> QED
    BY <2>1 DEF PageSound, LoginSound, AtLogin, At
<1> QED
  BY <1>1, SessionHolds, PTL

-----------------------------------------------------------------------------
(* What one portal does to another.                                         *)

\* Who may write the slot of a portal: a tab that shows it, a login to it, a logout
\* from it.
Concerns(t, r) ==
  \/ At(t) = r
  \/ login[t].pc = "sent" /\ login[t].role = r
  \/ \E x \in logout[t] : x.clears = r

SlotsAreApart ==
  [][\A r \in Roles : slot'[r] # slot[r] => \E t \in Tabs : Concerns(t, r)]_vars

\* In local storage the portals are apart: whatever fails, is refreshed or is left in
\* one portal, the slot of a portal that no tab shows, enters or leaves is untouched.
THEOREM OtherSlotsKept == Spec => SlotsAreApart
<1> DEFINE Apart == \A r \in Roles : slot'[r] # slot[r] => \E t \in Tabs : Concerns(t, r)
<1>1. SessionInv /\ [Next]_vars => Apart
  <2> SUFFICES ASSUME SessionInv, [Next]_vars
               PROVE  Apart
    OBVIOUS
  <2>1. ASSUME NEW t \in Tabs, TabStep(t)
        PROVE  slot' = slot \/ \E r, s : slot' = [slot EXCEPT ![r] = s] /\ Concerns(t, r)
    <3>1. CASE (\E r \in Roles : OpenPage(t, r) \/ LoginSend(t, r)) \/ LoginFails(t) \/ LogoutSend(t)
      BY <3>1 DEF OpenPage, LoginSend, LoginFails, LogoutSend
    <3>2. CASE Mount(t) \/ ProfileAnswer(t)
      BY <3>2 DEF Mount, ProfileAnswer, Concerns
    <3>3. ASSUME NEW W, GiveUp(t, W)
          PROVE  slot' = slot \/ \E r, s : slot' = [slot EXCEPT ![r] = s] /\ Concerns(t, r)
      BY <3>3 DEF GiveUp, Concerns
    <3>4. ASSUME NEW k \in Calls, Send(t, k) \/ Reply(t, k)
          PROVE  slot' = slot \/ \E r, s : slot' = [slot EXCEPT ![r] = s] /\ Concerns(t, r)
      BY <3>3, <3>4 DEF Send, Reply, Answered, Retried, Unauthorized
    <3>5. CASE RefreshAnswer(t)
      <4>1. CASE RefreshSucceeds(t)
        BY <4>1 DEF RefreshSucceeds, Concerns
      <4> QED
        BY <3>3, <3>5, <4>1 DEF RefreshAnswer, RefreshFails
    <3>6. CASE LoginAnswer(t)
      BY <3>6 DEF LoginAnswer, Issued, Concerns
    <3>7. CASE LogoutAnswer(t)
      BY <3>7 DEF LogoutAnswer, Concerns
    <3> QED
      BY <2>1, <3>1, <3>2, <3>4, <3>5, <3>6, <3>7 DEF TabStep
  <2>2. ASSUME NEW t \in Tabs, NEW q, NEW s, slot' = [slot EXCEPT ![q] = s], Concerns(t, q)
        PROVE  Apart
    BY <2>2 DEF SessionInv
  <2>3. CASE (\E n \in Numbers : Age(n)) \/ UNCHANGED vars
    BY <2>3 DEF Age, vars
  <2> QED
    BY <2>1, <2>2, <2>3 DEF Next
<1> QED
  BY <1>1, SessionHolds, PTL DEF Spec, SlotsAreApart

LogoutsInv == logout = [t \in Tabs |-> logout[t]]

LEMMA LogoutsHold == Spec => []LogoutsInv
<1>1. Init => LogoutsInv
  BY DEF Init, LogoutsInv
<1>2. LogoutsInv /\ [Next]_vars => LogoutsInv'
  <2> SUFFICES ASSUME LogoutsInv, Next
               PROVE  LogoutsInv'
    BY DEF LogoutsInv, vars
  <2>1. ASSUME NEW t \in Tabs, NEW W, GiveUp(t, W)
        PROVE  logout' = logout \/ \E l : logout' = [logout EXCEPT ![t] = l]
    BY <2>1 DEF GiveUp
  <2>2. ASSUME NEW t \in Tabs, TabStep(t)
        PROVE  logout' = logout \/ \E l : logout' = [logout EXCEPT ![t] = l]
    BY <2>1, <2>2 DEF TabStep, OpenPage, LoginSend, Mount, ProfileAnswer, Send, Reply, Answered,
       Unauthorized, Retried, RefreshAnswer, RefreshSucceeds, RefreshFails, LoginAnswer,
       LoginFails, LogoutSend, LogoutAnswer
  <2>3. CASE \E n \in Numbers : Age(n)
    BY <2>3 DEF Age, LogoutsInv
  <2> QED
    BY <2>2, <2>3 DEF Next, LogoutsInv
<1> QED
  BY <1>1, <1>2, PTL DEF Spec

\* No answer is on its way that was made from an older cookie, and no logout that was
\* sent without its token.
CookieIsCurrent ==
  \A t \in Tabs :
    /\ refresh[t].pc = "sent" => jar \subseteq refresh[t].jar
    /\ login[t].pc = "sent" => jar \subseteq login[t].jar
    /\ \A x \in logout[t] : x.token # None /\ jar \subseteq x.jar

\* No answer is on its way whose cookie gets too long.
CookieFits ==
  \A t \in Tabs :
    /\ refresh[t].pc = "sent" => refresh[t].jar \cup {refresh[t].token.role} \in Fits
    /\ login[t].pc = "sent" => login[t].jar \cup {login[t].role} \in Fits
    /\ \A x \in logout[t] : x.jar \ {x.token.role} \in Fits

\* These three are all that takes another portal's entry from the cookie of
\* auth/cookie.util.ts: an answer made from an older cookie, a logout that comes
\* without its token, and a cookie longer than 3500 bytes. But for them, leaving one
\* portal leaves the entries of the others.
THEOREM CookieIsKept == Spec /\ []CookieIsCurrent /\ []CookieFits => OtherPortalsKept
<1> DEFINE Kept == \A r \in jar \ jar' :
                     \/ slot'[r] = Empty
                     \/ \E t \in Tabs : \E x \in logout[t] \ logout'[t] :
                          x.token # None /\ x.token.role = r
<1>1. LogoutsInv /\ CookieIsCurrent /\ CookieFits /\ [Next]_vars => [Kept]_vars
  <2> SUFFICES ASSUME LogoutsInv, CookieIsCurrent, CookieFits, Next
               PROVE  Kept
    OBVIOUS
  <2>1. ASSUME NEW t \in Tabs, TabStep(t) PROVE Kept
    <3>1. CASE RefreshSucceeds(t)
      BY <3>1 DEF RefreshSucceeds, Issued, setRoleTokenCookie, writeRoleMap, CookieIsCurrent, CookieFits
    <3>2. CASE LoginAnswer(t)
      BY <3>2 DEF LoginAnswer, Issued, setRoleTokenCookie, writeRoleMap, CookieIsCurrent, CookieFits
    <3>3. CASE LogoutAnswer(t)
      <4>1. PICK x \in logout[t] :
              /\ jar' = clearRoleTokenCookie(x.jar, x.token) \/ jar' = jar
              /\ logout' = [logout EXCEPT ![t] = @ \ {x}]
        BY <3>3 DEF LogoutAnswer
      <4>2. x \notin logout'[t]
        BY <4>1 DEF LogoutsInv
      <4>3. x.token # None /\ jar \subseteq x.jar /\ x.jar \ {x.token.role} \in Fits
        BY <4>1 DEF CookieIsCurrent, CookieFits
      <4> QED
        BY <4>1, <4>2, <4>3 DEF clearRoleTokenCookie, writeRoleMap
    <3>4. CASE ~(RefreshSucceeds(t) \/ LoginAnswer(t) \/ LogoutAnswer(t))
      <4>1. jar' = jar
        BY <2>1, <3>4 DEF TabStep, OpenPage, LoginSend, Mount, ProfileAnswer, Send, Reply,
           Answered, Unauthorized, Retried, RefreshAnswer, RefreshFails, LoginFails, LogoutSend
      <4> QED
        BY <4>1
    <3> QED
      BY <3>1, <3>2, <3>3, <3>4
  <2>2. CASE \E n \in Numbers : Age(n)
    BY <2>2 DEF Age
  <2> QED
    BY <2>1, <2>2 DEF Next
<1> QED
  BY <1>1, LogoutsHold, PTL DEF Spec, OtherPortalsKept

=============================================================================
