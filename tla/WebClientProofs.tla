---------------------------- MODULE WebClientProofs ----------------------------
(***************************************************************************)
(* Proofs about the web client: AppsLauncher, for any set of actions and   *)
(* any number of renderings and catalogue requests in flight, and WebAuth, *)
(* for any number of pages, tokens and requests in flight.                 *)
(***************************************************************************)
EXTENDS AppsLauncher, WebAuth, TLAPS

(* Hiding the page empties its views, and a late rendering makes new ones:   *)
(* the answer to a hidden page's request never is for a view in the page.    *)
HiddenViewsAreNew == ~shown => views \cap running = {}

(* An action that nothing has outlived a reset of is executing while its     *)
(* request is in flight, displays a result while its timer runs, and has one *)
(* request or timer at most.                                                 *)
Busy == running \cup due

ExecutionsAreTracked ==
    \A v \in Busy : v.action \notin crossed =>
        /\ v \in running => executions[v.action] = "executing"
        /\ v \in due => executions[v.action] \in {"success", "error"}
        /\ \A w \in Busy : w.action = v.action => w = v

LauncherInv ==
    /\ LauncherTypeOK
    /\ HiddenViewsAreNew
    /\ FeedbackIsTimed
    /\ LoadingEnds
    /\ ExecutionsAreTracked

LEMMA InitLauncherInv == LauncherInit => LauncherInv
<1> SUFFICES ASSUME LauncherInit PROVE LauncherInv
  OBVIOUS
<1>1. loads \in 0..MaxLoads
  BY MaxLoadsAssumption DEF LauncherInit
<1>2. LauncherTypeOK
  BY <1>1 DEF LauncherInit, LauncherTypeOK, States, Statuses, AllIdle
<1>3. HiddenViewsAreNew /\ FeedbackIsTimed /\ LoadingEnds /\ ExecutionsAreTracked
  BY DEF LauncherInit, HiddenViewsAreNew, FeedbackIsTimed, LoadingEnds, ExecutionsAreTracked, Busy
<1>4. QED
  BY <1>2, <1>3 DEF LauncherInv

LEMMA ViewFacts ==
    ASSUME NEW v \in Views
    PROVE  v.action \in Actions
  BY DEF Views

LEMMA CrossType == LauncherTypeOK /\ Cross => crossed' \subseteq Actions
  BY ViewFacts DEF LauncherTypeOK, Cross

LEMMA LauncherTypeStep == LauncherInv /\ [LauncherNext]_launcherVars => LauncherTypeOK'
<1> SUFFICES ASSUME LauncherTypeOK, [LauncherNext]_launcherVars PROVE LauncherTypeOK'
  BY DEF LauncherInv
<1> USE DEF LauncherTypeOK, States, Statuses, catalogVars, launcherVars
<1>1. CASE UNCHANGED launcherVars
  BY <1>1
<1>2. AllIdle \in [Actions -> States]
  BY DEF AllIdle
<1>3. ASSUME BeginLoad
      PROVE  /\ loads' \in 0..MaxLoads /\ loading' \in BOOLEAN /\ loaded' \in BOOLEAN
             /\ status' \in Statuses /\ gridShown' \in BOOLEAN /\ refreshShown' \in BOOLEAN
             /\ views' \subseteq Views
  <2>1. loads' \in 0..MaxLoads
    BY <1>3, MaxLoadsAssumption DEF BeginLoad
  <2>2. QED
    BY <1>3, <2>1 DEF BeginLoad
<1>4. ASSUME NEW now \in BOOLEAN, Authenticated(now) PROVE LauncherTypeOK'
  <2>1. crossed' \subseteq Actions
    BY <1>4, CrossType DEF Authenticated, Reset
  <2>2. /\ shown' = now /\ loaded' = FALSE /\ loading' = FALSE /\ gridShown' = FALSE
        /\ status' = "not-loaded" /\ views' = {} /\ due' \subseteq due /\ executions' = AllIdle
        /\ UNCHANGED <<loads, face, running, reload, refreshShown>>
    BY <1>4 DEF Authenticated, Reset
  <2>3. QED
    BY <1>2, <2>1, <2>2
<1>5. CASE OpenTab \/ Refresh
  BY <1>3, <1>5 DEF OpenTab, Refresh
<1>6. CASE RenderActions
  <2>1. PICK offered \in SUBSET Actions, n \in Renderings :
           /\ views' = [action : offered, rendering : {n}]
           /\ gridShown' = (offered # {})
           /\ status' = IF offered = {} THEN "empty" ELSE "available"
           /\ face' = [v \in Views |-> IF v.rendering = n THEN "idle" ELSE face[v]]
    BY <1>6 DEF RenderActions
  <2>2. views' \subseteq Views
    BY <2>1 DEF Views
  <2>3. loads' \in 0..MaxLoads
    BY <1>6, MaxLoadsAssumption DEF RenderActions, LoadEnds
  <2>4. face' \in [Views -> States]
    BY <2>1
  <2>5. QED
    BY <1>6, <2>1, <2>2, <2>3, <2>4 DEF RenderActions, LoadEnds
<1>7. ASSUME NEW kind \in {"unavailable", "error"}, RenderError(kind) PROVE LauncherTypeOK'
  <2>1. loads' \in 0..MaxLoads
    BY <1>7, MaxLoadsAssumption DEF RenderError, LoadEnds
  <2>2. kind \in Statuses
    OBVIOUS
  <2>3. QED
    BY <1>7, <2>1, <2>2 DEF RenderError, LoadEnds
<1>8. ASSUME NEW kind \in {"unauthorized", "offline"}, LoadExpelled(kind) PROVE LauncherTypeOK'
  <2>1. loads' \in 0..MaxLoads
    BY <1>8, MaxLoadsAssumption DEF LoadExpelled
  <2>2. CASE shown
    BY <1>2, <1>8, <2>1, <2>2, CrossType DEF LoadExpelled
  <2>3. CASE ~shown
    BY <1>8, <2>1, <2>3 DEF LoadExpelled
  <2>4. QED
    BY <2>2, <2>3
<1>9. ASSUME NEW v \in Views, Click(v) \/ IdleTimer(v) PROVE LauncherTypeOK'
  BY <1>9, ViewFacts DEF Click, IdleTimer, Feedback
<1>10. ASSUME NEW v \in Views, ReloadTimer(v) PROVE LauncherTypeOK'
  BY <1>3, <1>10 DEF ReloadTimer
<1>11. ASSUME NEW v \in Views, NEW state \in {"success", "error"}, RunAnswered(v, state) PROVE LauncherTypeOK'
  BY <1>11, ViewFacts DEF RunAnswered, Feedback
<1>12. ASSUME NEW v \in Views, RunOffline(v) PROVE LauncherTypeOK'
  <2>1. CASE shown
    BY <1>2, <1>12, <2>1, CrossType, ViewFacts DEF RunOffline, Reset, Feedback
  <2>2. CASE ~shown
    BY <1>12, <2>2, ViewFacts DEF RunOffline, Feedback
  <2>3. QED
    BY <2>1, <2>2
<1>13. ASSUME NEW v \in Views, RunUnauthorized(v) PROVE LauncherTypeOK'
  <2>1. CASE shown
    BY <1>2, <1>13, <2>1, CrossType DEF RunUnauthorized, Reset
  <2>2. CASE ~shown
    BY <1>13, <2>2 DEF RunUnauthorized
  <2>3. QED
    BY <2>1, <2>2
<1>14. QED
  BY <1>1, <1>4, <1>5, <1>6, <1>7, <1>8, <1>9, <1>10, <1>11, <1>12, <1>13
     DEF LauncherNext, SignIn, SignOut, CatalogueEnds, RunEnds

(* What is in the page, its buttons and the flag.                            *)
LEMMA PageStep == LauncherInv /\ [LauncherNext]_launcherVars => HiddenViewsAreNew' /\ FeedbackIsTimed' /\ LoadingEnds'
<1> SUFFICES ASSUME LauncherInv, [LauncherNext]_launcherVars PROVE HiddenViewsAreNew' /\ FeedbackIsTimed' /\ LoadingEnds'
  OBVIOUS
<1> USE DEF HiddenViewsAreNew, FeedbackIsTimed, LoadingEnds, catalogVars, launcherVars
<1>0. HiddenViewsAreNew /\ FeedbackIsTimed /\ LoadingEnds /\ LauncherTypeOK
  BY DEF LauncherInv
<1>a. views \subseteq Views /\ face \in [Views -> States] /\ loads \in Nat
  BY <1>0, MaxLoadsAssumption DEF LauncherTypeOK
<1>1. CASE UNCHANGED launcherVars
  BY <1>0, <1>1
<1>2. ASSUME NEW now \in BOOLEAN, Authenticated(now)
      PROVE  HiddenViewsAreNew' /\ FeedbackIsTimed' /\ LoadingEnds'
  BY <1>2 DEF Authenticated, Reset
<1>3. CASE OpenTab \/ Refresh
  BY <1>0, <1>a, <1>3 DEF OpenTab, Refresh, BeginLoad
<1>4. CASE RenderActions
  <2>1. PICK offered \in SUBSET Actions, n \in Renderings :
           /\ Unreferenced(n)
           /\ views' = [action : offered, rendering : {n}]
           /\ face' = [v \in Views |-> IF v.rendering = n THEN "idle" ELSE face[v]]
    BY <1>4 DEF RenderActions
  <2>2. \A v \in views' : v.rendering = n /\ v \in Views /\ face'[v] = "idle"
    BY <2>1 DEF Views
  <2>3. views' \cap running = {}
    BY <2>1, <2>2 DEF Unreferenced
  <2>4. running' = running /\ loading' = FALSE
    BY <1>4 DEF RenderActions, LoadEnds
  <2>5. QED
    BY <2>2, <2>3, <2>4
<1>5. ASSUME NEW kind \in {"unavailable", "error"}, RenderError(kind)
      PROVE  HiddenViewsAreNew' /\ FeedbackIsTimed' /\ LoadingEnds'
  BY <1>0, <1>5 DEF RenderError, LoadEnds
<1>6. ASSUME NEW kind \in {"unauthorized", "offline"}, LoadExpelled(kind)
      PROVE  HiddenViewsAreNew' /\ FeedbackIsTimed' /\ LoadingEnds'
  BY <1>0, <1>6 DEF LoadExpelled
<1>7. ASSUME NEW v \in Views, Click(v) \/ IdleTimer(v)
      PROVE  HiddenViewsAreNew' /\ FeedbackIsTimed' /\ LoadingEnds'
  BY <1>0, <1>a, <1>7 DEF Click, IdleTimer, Feedback
<1>8. ASSUME NEW v \in Views, ReloadTimer(v)
      PROVE  HiddenViewsAreNew' /\ FeedbackIsTimed' /\ LoadingEnds'
  BY <1>0, <1>a, <1>8 DEF ReloadTimer, BeginLoad
<1>9. ASSUME NEW v \in Views, NEW state \in {"success", "error"}, RunAnswered(v, state)
      PROVE  HiddenViewsAreNew' /\ FeedbackIsTimed' /\ LoadingEnds'
  BY <1>0, <1>a, <1>9 DEF RunAnswered, Feedback
<1>10. ASSUME NEW v \in Views, RunOffline(v)
       PROVE  HiddenViewsAreNew' /\ FeedbackIsTimed' /\ LoadingEnds'
  <2>1. CASE shown
    BY <1>10, <2>1 DEF RunOffline, Reset
  <2>2. CASE ~shown
    BY <1>0, <1>a, <1>10, <2>2 DEF RunOffline, Feedback
  <2>3. QED
    BY <2>1, <2>2
<1>11. ASSUME NEW v \in Views, RunUnauthorized(v)
       PROVE  HiddenViewsAreNew' /\ FeedbackIsTimed' /\ LoadingEnds'
  <2>1. CASE shown
    BY <1>11, <2>1 DEF RunUnauthorized, Reset
  <2>2. CASE ~shown
    BY <1>0, <1>11, <2>2 DEF RunUnauthorized
  <2>3. QED
    BY <2>1, <2>2
<1>12. QED
  BY <1>1, <1>2, <1>3, <1>4, <1>5, <1>6, <1>7, <1>8, <1>9, <1>10, <1>11
     DEF LauncherNext, SignIn, SignOut, CatalogueEnds, RunEnds

(* A reset marks the actions of all the requests and timers it leaves behind. *)
LEMMA CrossedByReset ==
    ASSUME Cross, running' \subseteq running, due' \subseteq (due \ views) \cup running
    PROVE  \A v \in Busy' : v.action \in crossed'
  BY DEF Cross, Busy

LEMMA TrackedStep == LauncherInv /\ [LauncherNext]_launcherVars => ExecutionsAreTracked'
<1> SUFFICES ASSUME LauncherInv, [LauncherNext]_launcherVars PROVE ExecutionsAreTracked'
  OBVIOUS
<1> USE DEF catalogVars, launcherVars
<1>0. LauncherTypeOK /\ ExecutionsAreTracked
  BY DEF LauncherInv
<1>a. running \subseteq Views /\ due \subseteq Views /\ executions \in [Actions -> States]
  BY <1>0 DEF LauncherTypeOK
<1>b. ASSUME \A v \in Busy' : v.action \in crossed' PROVE ExecutionsAreTracked'
  BY <1>b DEF ExecutionsAreTracked
<1>c. ASSUME UNCHANGED <<executions, crossed, running>>, due' \subseteq due PROVE ExecutionsAreTracked'
  BY <1>0, <1>c DEF ExecutionsAreTracked, Busy
<1>1. CASE UNCHANGED launcherVars
  BY <1>c, <1>1
<1>2. ASSUME NEW now \in BOOLEAN, Authenticated(now) PROVE ExecutionsAreTracked'
  BY <1>b, <1>2, CrossedByReset DEF Authenticated, Reset
<1>3. CASE OpenTab \/ Refresh
  BY <1>c, <1>3 DEF OpenTab, Refresh
<1>4. CASE RenderActions
  BY <1>c, <1>4 DEF RenderActions
<1>5. ASSUME NEW kind \in {"unavailable", "error"}, RenderError(kind) PROVE ExecutionsAreTracked'
  BY <1>c, <1>5 DEF RenderError
<1>6. ASSUME NEW kind \in {"unauthorized", "offline"}, LoadExpelled(kind) PROVE ExecutionsAreTracked'
  <2>1. CASE shown
    BY <1>b, <1>6, <2>1, CrossedByReset DEF LoadExpelled
  <2>2. CASE ~shown
    BY <1>c, <1>6, <2>2 DEF LoadExpelled
  <2>3. QED
    BY <2>1, <2>2
<1>7. ASSUME NEW v \in Views, Click(v) PROVE ExecutionsAreTracked'
  <2>1. \A w \in Busy : w.action = v.action => w.action \in crossed
    BY <1>0, <1>7 DEF Click, ExecutionsAreTracked, Busy
  <2>2. \A w \in Busy' : w \in Busy \/ w = v
    BY <1>7 DEF Click, Busy
  <2>3. executions'[v.action] = "executing" /\ v \in running' /\ v \notin due'
    BY <1>a, <1>7, ViewFacts DEF Click
  <2>4. \A w \in Busy : w.action # v.action => executions'[w.action] = executions[w.action]
    BY <1>a, <1>7 DEF Click
  <2>5. QED
    BY <1>0, <1>7, <2>1, <2>2, <2>3, <2>4 DEF Click, ExecutionsAreTracked, Busy
<1>8. ASSUME NEW v \in Views, IdleTimer(v) PROVE ExecutionsAreTracked'
  <2>1. \A w \in Busy' : w.action = v.action => w.action \in crossed'
    BY <1>0, <1>8 DEF IdleTimer, ExecutionsAreTracked, Busy
  <2>2. \A w \in Busy' : w.action # v.action => executions'[w.action] = executions[w.action]
    BY <1>a, <1>8 DEF IdleTimer, Feedback
  <2>3. QED
    BY <1>0, <1>8, <2>1, <2>2 DEF IdleTimer, ExecutionsAreTracked, Busy
<1>9. ASSUME NEW v \in Views, ReloadTimer(v) PROVE ExecutionsAreTracked'
  BY <1>c, <1>9 DEF ReloadTimer
<1>10. ASSUME NEW v \in Views, NEW state \in {"success", "error"}, RunAnswered(v, state)
       PROVE  ExecutionsAreTracked'
  <2>1. v \in Busy /\ Busy' \subseteq Busy /\ v \notin running' /\ UNCHANGED crossed
    BY <1>10 DEF RunAnswered, Busy
  <2>2. executions'[v.action] = state
    BY <1>a, <1>10, ViewFacts DEF RunAnswered, Feedback
  <2>3. \A w \in Busy : w.action # v.action => executions'[w.action] = executions[w.action]
    BY <1>a, <1>10 DEF RunAnswered, Feedback
  <2>4. \A w \in Views : w # v => (w \in running' <=> w \in running) /\ (w \in due' <=> w \in due)
    BY <1>10 DEF RunAnswered
  <2>5. QED
    BY <1>0, <1>a, <2>1, <2>2, <2>3, <2>4 DEF ExecutionsAreTracked, Busy
<1>11. ASSUME NEW v \in Views, RunOffline(v) PROVE ExecutionsAreTracked'
  <2>1. CASE shown
    BY <1>b, <1>11, <2>1, CrossedByReset DEF RunOffline, Reset
  <2>2. CASE ~shown
    <3>1. v \in Busy /\ Busy' \subseteq Busy /\ v \notin running' /\ UNCHANGED crossed
      BY <1>11, <2>2 DEF RunOffline, Busy
    <3>a. executions' = [executions EXCEPT ![v.action] = "error"]
      BY <1>11, <2>2 DEF RunOffline, Feedback
    <3>2. executions'[v.action] = "error"
      BY <1>a, <3>a, ViewFacts
    <3>3. \A w \in Busy : w.action # v.action => executions'[w.action] = executions[w.action]
      BY <1>a, <3>a
    <3>4. \A w \in Views : w # v => (w \in running' <=> w \in running) /\ (w \in due' <=> w \in due)
      BY <1>11, <2>2 DEF RunOffline
    <3>5. QED
      BY <1>0, <1>a, <3>1, <3>2, <3>3, <3>4 DEF ExecutionsAreTracked, Busy
  <2>3. QED
    BY <2>1, <2>2
<1>12. ASSUME NEW v \in Views, RunUnauthorized(v) PROVE ExecutionsAreTracked'
  <2>1. CASE shown
    BY <1>b, <1>12, <2>1, CrossedByReset DEF RunUnauthorized, Reset
  <2>2. CASE ~shown
    BY <1>0, <1>12, <2>2 DEF RunUnauthorized, ExecutionsAreTracked, Busy
  <2>3. QED
    BY <2>1, <2>2
<1>13. QED
  BY <1>1, <1>2, <1>3, <1>4, <1>5, <1>6, <1>7, <1>8, <1>9, <1>10, <1>11, <1>12
     DEF LauncherNext, SignIn, SignOut, CatalogueEnds, RunEnds

LEMMA LauncherInvariance == LauncherSpec => []LauncherInv
<1>1. LauncherInv /\ [LauncherNext]_launcherVars => LauncherInv'
  BY LauncherTypeStep, PageStep, TrackedStep DEF LauncherInv
<1>2. QED
  BY InitLauncherInv, <1>1, PTL DEF LauncherSpec

(* Every variable of the launcher keeps its type.                            *)
THEOREM LauncherTypeCorrect == LauncherSpec => []LauncherTypeOK
<1>1. LauncherInv => LauncherTypeOK
  BY DEF LauncherInv
<1>2. QED
  BY LauncherInvariance, <1>1, PTL

(* A button that displays a request or a result has the request or the timer *)
(* that will end it, whatever renderings, resets and answers overlap.        *)
THEOREM FeedbackHasItsTimer == LauncherSpec => []FeedbackIsTimed
<1>1. LauncherInv => FeedbackIsTimed
  BY DEF LauncherInv
<1>2. QED
  BY LauncherInvariance, <1>1, PTL

(* The flag that turns loads away is up only while a load is in flight.      *)
THEOREM LoadingIsTakenDown == LauncherSpec => []LoadingEnds
<1>1. LauncherInv => LoadingEnds
  BY DEF LauncherInv
<1>2. QED
  BY LauncherInvariance, <1>1, PTL

(* An action has one request in flight unless one of its requests or timers  *)
(* has outlived a reset.                                                     *)
THEOREM RequestsAreSingle == LauncherSpec => []OneRequest
<1>1. LauncherInv => OneRequest
  BY DEF LauncherInv, ExecutionsAreTracked, Busy, OneRequest
<1>2. QED
  BY LauncherInvariance, <1>1, PTL

-----------------------------------------------------------------------------
(* WebAuth: one page by itself. *)

(* The countdown runs once, exactly while there is a pairing, and then the   *)
(* code is asked for.                                                        *)
Tidy(g) ==
    /\ g.ticking = (IF g.pairing THEN 1 ELSE 0)
    /\ g.countdown <=> g.pairing
    /\ g.pairing => g.form = "code"

Usable(g) == Tidy(g) /\ (g.status = "unpaired" /\ g.form = "code" => g.pairing)

LEMMA ClearedPage ==
    ASSUME NEW g \in Page, Tidy(g)
    PROVE  /\ ClearTransientState(g) \in Page
           /\ ClearTransientState(g) = [g EXCEPT !.pairing = FALSE, !.countdown = FALSE, !.ticking = 0]
<1>1. (IF g.countdown THEN g.ticking - 1 ELSE g.ticking) = 0
  BY DEF Tidy, Page
<1>2. ClearTransientState(g) = [g EXCEPT !.pairing = FALSE, !.countdown = FALSE, !.ticking = 0]
  BY <1>1 DEF ClearTransientState
<1>3. [g EXCEPT !.pairing = FALSE, !.countdown = FALSE, !.ticking = 0] \in Page
  BY Zenon, 0 \in Nat DEF Page
<1>4. QED
  BY <1>2, <1>3

LEMMA NamePage ==
    ASSUME NEW g \in Page, Tidy(g)
    PROVE  /\ ShowNameStep(g) \in Page /\ Usable(ShowNameStep(g))
           /\ ShowNameStep(g).status = g.status /\ ShowNameStep(g).busy = g.busy
           /\ ~ShowNameStep(g).pairing
<1> DEFINE h == ClearTransientState(g)
<1>1. h \in Page /\ h = [g EXCEPT !.pairing = FALSE, !.countdown = FALSE, !.ticking = 0]
  BY ClearedPage
<1>2. /\ h.status = g.status /\ h.busy = g.busy /\ h.pairing = FALSE /\ h.countdown = FALSE
      /\ h.ticking = 0
  BY <1>1 DEF Page
<1> HIDE DEF h
<1>3. QED
  BY <1>1, <1>2 DEF ShowNameStep, Page, Tidy, Usable, h

(* However the authentication turns out, the view stays usable.              *)
LEMMA UpdatedPage ==
    ASSUME NEW g \in Page, Tidy(g),
           NEW outcome \in {"checking", "unpaired", "authenticated", "offline"},
           outcome # "unpaired" \/ Usable(g)
    PROVE  /\ Update(g, outcome) \in Page /\ Usable(Update(g, outcome))
           /\ Update(g, outcome).status = outcome /\ Update(g, outcome).busy = g.busy
           /\ Update(g, outcome).pairing => g.pairing
<1>1. CASE outcome = "unpaired" /\ g.status # "unpaired"
  <2> DEFINE h == ShowNameStep(g)
  <2>1. /\ h \in Page /\ Tidy(h) /\ Usable(h) /\ h.busy = g.busy /\ h.pairing = FALSE
        /\ h.status = g.status
    BY NamePage DEF Page, Usable
  <2>2. Update(g, outcome) = [h EXCEPT !.status = outcome]
    BY <1>1 DEF Update
  <2> HIDE DEF h
  <2>3. h.form # "code"
    BY <2>1, <1>1, NamePage DEF ShowNameStep, ClearTransientState, h, Page
  <2>4. QED
    BY <2>1, <2>2, <2>3 DEF Page, Tidy, Usable
<1>2. CASE ~(outcome = "unpaired" /\ g.status # "unpaired")
  <2>1. Update(g, outcome) = [g EXCEPT !.status = outcome]
    BY <1>2 DEF Update
  <2>2. QED
    BY <1>2, <2>1 DEF Page, Tidy, Usable
<1>3. QED
  BY <1>1, <1>2

-----------------------------------------------------------------------------
(* WebAuth: pages and requests. *)

PaysFor(c, p) == calls[c] # NoCall /\ calls[c].page = p /\ calls[c].pays

(* A pairing request keeps its form busy, and finds no pairing while it is   *)
(* the first; a closed page has no request.                                  *)
PairingInv ==
    \A p \in Pages :
        /\ Usable(page[p])
        /\ pairCall[p] # "none" => page[p].busy
        /\ pairCall[p] = "start" => ~page[p].pairing
        /\ page[p].status = "closed" => pairCall[p] = "none"

(* A form is busy for one request: one of the pairing, or the validation of  *)
(* the token that the pairing has brought.                                   *)
BusyInv ==
    \A p \in Pages :
        /\ page[p].busy => pairCall[p] # "none" \/ \E c \in Calls : PaysFor(c, p)
        /\ \A c \in Calls : PaysFor(c, p) => /\ page[p].busy /\ pairCall[p] = "none"
                                            /\ \A b \in Calls : PaysFor(b, p) => b = c

CallInv ==
    \A c \in Calls : calls[c] # NoCall =>
        /\ page[calls[c].page].status # "closed"
        /\ calls[c].kind = "status" => calls[c].token \in Tokens
        /\ calls[c].body => calls[c].kind = "status"

AuthInv == TypeOK /\ PairingInv /\ BusyInv /\ CallInv

LEMMA InitAuthInv == Init => AuthInv
<1> SUFFICES ASSUME Init PROVE AuthInv
  OBVIOUS
<1>1. Closed \in Page
  BY Zenon, 0 \in Nat DEF Closed, Page
<1>2. TypeOK
  BY <1>1 DEF Init, TypeOK
<1>3. Usable(Closed) /\ ~Closed.busy
  BY DEF Usable, Tidy, Closed
<1>4. PairingInv /\ BusyInv /\ CallInv
  BY <1>3 DEF Init, PairingInv, BusyInv, CallInv, PaysFor, Closed
<1>5. QED
  BY <1>2, <1>4 DEF AuthInv

(* A request that is over.                                                   *)
LEMMA Finished ==
    ASSUME AuthInv, NEW c \in Calls, calls[c] # NoCall, NEW g \in Page, Usable(g),
           g.busy = Caller(c).busy, g.pairing => Caller(c).pairing, g.status # "closed",
           Finish(c, g), UNCHANGED pairCall
    PROVE  /\ page' \in [Pages -> Page] /\ calls' \in [Calls -> Call \cup {NoCall}]
           /\ PairingInv' /\ BusyInv' /\ CallInv'
<1> DEFINE p == calls[c].page
           h == IF calls[c].pays THEN Idle(g) ELSE g
<1>1. p \in Pages /\ page \in [Pages -> Page] /\ calls \in [Calls -> Call \cup {NoCall}]
  BY DEF AuthInv, TypeOK, Call
<1>2. /\ h \in Page /\ Usable(h) /\ (h.pairing => page[p].pairing) /\ h.status # "closed"
      /\ h.busy = (page[p].busy /\ ~calls[c].pays)
  BY <1>1 DEF Idle, Usable, Tidy, Page, Caller, AuthInv, TypeOK, Call
<1>3. page' = [page EXCEPT ![p] = h] /\ calls' = [calls EXCEPT ![c] = NoCall]
  BY DEF Finish
<1> HIDE DEF h
<1>4. /\ page' \in [Pages -> Page] /\ calls' \in [Calls -> Call \cup {NoCall}]
  BY <1>1, <1>2, <1>3
<1>5. page'[p] = h /\ \A q \in Pages \ {p} : page'[q] = page[q]
  BY <1>1, <1>3
<1>6. \A b \in Calls : calls'[b] # NoCall => b # c /\ calls'[b] = calls[b]
  BY <1>1, <1>3
<1>7. \A b \in Calls \ {c} : calls'[b] = calls[b]
  BY <1>1, <1>3
<1>8. PaysFor(c, p) => /\ pairCall[p] = "none" /\ \A b \in Calls : PaysFor(b, p) => b = c
  BY <1>1 DEF AuthInv, BusyInv
<1>9. PairingInv'
  <2> SUFFICES ASSUME NEW q \in Pages
               PROVE  /\ Usable(page'[q])
                      /\ pairCall[q] # "none" => page'[q].busy
                      /\ pairCall[q] = "start" => ~page'[q].pairing
                      /\ page'[q].status = "closed" => pairCall[q] = "none"
    BY DEF PairingInv
  <2>1. CASE q # p
    BY <1>5, <2>1 DEF AuthInv, PairingInv
  <2>2. CASE q = p
    BY <1>2, <1>5, <1>8, <2>2 DEF AuthInv, PairingInv, PaysFor
  <2>3. QED
    BY <2>1, <2>2
<1>10. BusyInv'
  <2> SUFFICES ASSUME NEW q \in Pages
               PROVE  /\ page'[q].busy => pairCall[q] # "none" \/ \E b \in Calls : PaysFor(b, q)'
                      /\ \A b \in Calls : PaysFor(b, q)' =>
                            /\ page'[q].busy /\ pairCall[q] = "none"
                            /\ \A a \in Calls : PaysFor(a, q)' => a = b
    BY DEF BusyInv
  <2>1. \A b \in Calls : PaysFor(b, q)' => PaysFor(b, q) /\ b # c
    BY <1>6 DEF PaysFor
  <2>2. \A b \in Calls : PaysFor(b, q) /\ b # c => PaysFor(b, q)'
    BY <1>7 DEF PaysFor
  <2>3. CASE q # p
    <3>1. ~PaysFor(c, q)
      BY <2>3 DEF PaysFor
    <3>2. QED
      BY <1>5, <2>1, <2>2, <2>3, <3>1 DEF AuthInv, BusyInv
  <2>4. CASE q = p
    <3>1. CASE calls[c].pays
      <4>1. ~page'[q].busy /\ \A b \in Calls : ~PaysFor(b, q)'
        BY <1>2, <1>5, <1>8, <2>1, <2>4, <3>1 DEF PaysFor
      <4>2. QED
        BY <4>1
    <3>2. CASE ~calls[c].pays
      <4>1. page'[q].busy = page[q].busy /\ ~PaysFor(c, q)
        BY <1>1, <1>2, <1>5, <2>4, <3>2 DEF PaysFor, Page
      <4>2. QED
        BY <2>1, <2>2, <4>1 DEF AuthInv, BusyInv
    <3>3. QED
      BY <3>1, <3>2
  <2>5. QED
    BY <2>3, <2>4
<1>11. CallInv'
  <2> SUFFICES ASSUME NEW b \in Calls, calls'[b] # NoCall
               PROVE  /\ page'[calls'[b].page].status # "closed"
                      /\ calls'[b].kind = "status" => calls'[b].token \in Tokens
                      /\ calls'[b].body => calls'[b].kind = "status"
    BY DEF CallInv
  <2>1. calls'[b] = calls[b] /\ calls[b].page \in Pages
    BY <1>1, <1>6 DEF Call
  <2>2. QED
    BY <1>2, <1>5, <2>1 DEF AuthInv, CallInv
<1>12. QED
  BY <1>4, <1>9, <1>10, <1>11

(* A step of one page that sends no authenticated request.                   *)
LEMMA PairingPageStep ==
    ASSUME AuthInv, NEW p \in Pages, NEW h \in Page, Usable(h), h.status # "closed",
           NEW next \in {"none", "start", "complete"},
           page' = [page EXCEPT ![p] = h], pairCall' = [pairCall EXCEPT ![p] = next], calls' = calls,
           h.busy <=> (next # "none" \/ \E c \in Calls : PaysFor(c, p)),
           \A c \in Calls : PaysFor(c, p) => next = "none",
           next = "start" => ~h.pairing
    PROVE  /\ page' \in [Pages -> Page] /\ calls' \in [Calls -> Call \cup {NoCall}]
           /\ pairCall' \in [Pages -> {"none", "start", "complete"}]
           /\ PairingInv' /\ BusyInv' /\ CallInv'
<1>1. /\ page \in [Pages -> Page] /\ calls \in [Calls -> Call \cup {NoCall}]
      /\ pairCall \in [Pages -> {"none", "start", "complete"}]
  BY DEF AuthInv, TypeOK
<1>2. /\ page' \in [Pages -> Page] /\ calls' \in [Calls -> Call \cup {NoCall}]
      /\ pairCall' \in [Pages -> {"none", "start", "complete"}]
  BY <1>1
<1>3. /\ page'[p] = h /\ pairCall'[p] = next
      /\ \A q \in Pages \ {p} : page'[q] = page[q] /\ pairCall'[q] = pairCall[q]
  BY <1>1
<1>4. \A b \in Calls, q \in Pages : PaysFor(b, q)' <=> PaysFor(b, q)
  BY DEF PaysFor
<1>5. PairingInv'
  BY <1>3 DEF AuthInv, PairingInv
<1>6. BusyInv'
  <2> SUFFICES ASSUME NEW q \in Pages
               PROVE  /\ page'[q].busy => pairCall'[q] # "none" \/ \E b \in Calls : PaysFor(b, q)
                      /\ \A b \in Calls : PaysFor(b, q) =>
                            /\ page'[q].busy /\ pairCall'[q] = "none"
                            /\ \A a \in Calls : PaysFor(a, q) => a = b
    BY <1>4 DEF BusyInv
  <2>1. CASE q = p
    BY <1>3, <2>1 DEF AuthInv, BusyInv
  <2>2. CASE q # p
    BY <1>3, <2>2 DEF AuthInv, BusyInv
  <2>3. QED
    BY <2>1, <2>2
<1>7. CallInv'
  <2>1. \A b \in Calls : calls[b] # NoCall => calls[b].page \in Pages
    BY <1>1 DEF Call
  <2>2. QED
    BY <1>3, <2>1 DEF AuthInv, CallInv
<1>8. QED
  BY <1>2, <1>5, <1>6, <1>7

(* A step of one page that sends one; it pays if it takes over the busy form *)
(* from the pairing request it answers.                                      *)
LEMMA SendPageStep ==
    ASSUME AuthInv, NEW p \in Pages, NEW h \in Page, Usable(h), h.status # "closed",
           NEW kind \in {"status", "other"}, NEW token \in Tokens \cup {NoToken}, NEW pays \in BOOLEAN,
           page' = [page EXCEPT ![p] = h], Send(p, kind, token, pays),
           h.busy = page[p].busy, h.pairing => page[p].pairing,
           kind = "status" => token \in Tokens,
           \/ ~pays /\ UNCHANGED pairCall
           \/ pays /\ pairCall[p] # "none" /\ pairCall' = [pairCall EXCEPT ![p] = "none"]
    PROVE  /\ page' \in [Pages -> Page] /\ calls' \in [Calls -> Call \cup {NoCall}]
           /\ pairCall' \in [Pages -> {"none", "start", "complete"}]
           /\ PairingInv' /\ BusyInv' /\ CallInv'
<1> DEFINE r == [page |-> p, kind |-> kind, token |-> token, pays |-> pays, body |-> FALSE]
<1>1. /\ page \in [Pages -> Page] /\ calls \in [Calls -> Call \cup {NoCall}]
      /\ pairCall \in [Pages -> {"none", "start", "complete"}]
  BY DEF AuthInv, TypeOK
<1>2. PICK n \in Calls : calls[n] = NoCall /\ calls' = [calls EXCEPT ![n] = r]
  BY DEF Send
<1>3. r \in Call /\ r # NoCall
  <2>1. r \in Call
    BY Zenon DEF Call
  <2>2. QED
    BY <2>1, NoCallAssumption
<1>4. r.page = p /\ r.kind = kind /\ r.token = token /\ r.pays = pays /\ r.body = FALSE
  OBVIOUS
<1> HIDE DEF r
<1>5. /\ page' \in [Pages -> Page] /\ calls' \in [Calls -> Call \cup {NoCall}]
      /\ pairCall' \in [Pages -> {"none", "start", "complete"}]
  BY <1>1, <1>2, <1>3
<1>6. /\ page'[p] = h /\ calls'[n] = r
      /\ \A q \in Pages \ {p} : page'[q] = page[q] /\ pairCall'[q] = pairCall[q]
      /\ \A b \in Calls \ {n} : calls'[b] = calls[b]
      /\ pairCall'[p] = (IF pays THEN "none" ELSE pairCall[p])
  BY <1>1, <1>2
<1>7. \A b \in Calls, q \in Pages : PaysFor(b, q)' <=> PaysFor(b, q) \/ (b = n /\ q = p /\ pays)
  BY <1>2, <1>3, <1>4, <1>6 DEF PaysFor
<1>8. PairingInv'
  <2> SUFFICES ASSUME NEW q \in Pages
               PROVE  /\ Usable(page'[q])
                      /\ pairCall'[q] # "none" => page'[q].busy
                      /\ pairCall'[q] = "start" => ~page'[q].pairing
                      /\ page'[q].status = "closed" => pairCall'[q] = "none"
    BY DEF PairingInv
  <2>1. CASE q = p
    BY <1>6, <2>1 DEF AuthInv, PairingInv
  <2>2. CASE q # p
    BY <1>6, <2>2 DEF AuthInv, PairingInv
  <2>3. QED
    BY <2>1, <2>2
<1>9. BusyInv'
  <2> SUFFICES ASSUME NEW q \in Pages
               PROVE  /\ page'[q].busy => pairCall'[q] # "none" \/ \E b \in Calls : PaysFor(b, q)'
                      /\ \A b \in Calls : PaysFor(b, q)' =>
                            /\ page'[q].busy /\ pairCall'[q] = "none"
                            /\ \A a \in Calls : PaysFor(a, q)' => a = b
    BY DEF BusyInv
  <2>1. CASE q # p
    BY <1>6, <1>7, <2>1 DEF AuthInv, BusyInv
  <2>2. CASE q = p /\ ~pays
    BY <1>6, <1>7, <2>2 DEF AuthInv, BusyInv
  <2>3. CASE q = p /\ pays
    <3>1. page[p].busy /\ \A b \in Calls : ~PaysFor(b, p)
      BY <2>3 DEF AuthInv, BusyInv, PairingInv
    <3>2. \A b \in Calls : PaysFor(b, p)' <=> b = n
      BY <1>7, <2>3, <3>1
    <3>3. QED
      BY <1>6, <2>3, <3>1, <3>2
  <2>4. QED
    BY <2>1, <2>2, <2>3
<1>10. CallInv'
  <2> SUFFICES ASSUME NEW b \in Calls, calls'[b] # NoCall
               PROVE  /\ page'[calls'[b].page].status # "closed"
                      /\ calls'[b].kind = "status" => calls'[b].token \in Tokens
                      /\ calls'[b].body => calls'[b].kind = "status"
    BY DEF CallInv
  <2>1. CASE b = n
    BY <1>4, <1>6, <2>1
  <2>2. CASE b # n
    <3>1. calls'[b] = calls[b] /\ calls[b] # NoCall /\ calls[b].page \in Pages
      BY <1>1, <1>6, <2>2 DEF Call
    <3>2. QED
      BY <1>6, <3>1 DEF AuthInv, CallInv
  <2>3. QED
    BY <2>1, <2>2
<1>11. QED
  BY <1>5, <1>8, <1>9, <1>10

(* An opening page, a retry, or the validation of a new token.               *)
LEMMA BootstrapStep ==
    ASSUME AuthInv, NEW p \in Pages, NEW g \in Page, Tidy(g), g.busy = page[p].busy,
           g.pairing => page[p].pairing,
           NEW token \in Tokens \cup {NoToken}, NEW pays \in BOOLEAN, Bootstrap(p, g, token, pays),
           \/ ~pays /\ Usable(g) /\ UNCHANGED pairCall
           \/ /\ pays /\ token # NoToken
              /\ pairCall[p] # "none" /\ pairCall' = [pairCall EXCEPT ![p] = "none"]
    PROVE  /\ page' \in [Pages -> Page] /\ calls' \in [Calls -> Call \cup {NoCall}]
           /\ pairCall' \in [Pages -> {"none", "start", "complete"}]
           /\ PairingInv' /\ BusyInv' /\ CallInv'
<1>1. CASE token = NoToken
  <2> DEFINE h == Update(g, "unpaired")
  <2>1. ~pays /\ Usable(g) /\ UNCHANGED pairCall
    BY <1>1
  <2>2. /\ h \in Page /\ Usable(h) /\ h.status = "unpaired" /\ h.busy = g.busy
        /\ h.pairing => g.pairing
    BY <2>1, UpdatedPage
  <2>3. page' = [page EXCEPT ![p] = h] /\ UNCHANGED calls
    BY <1>1 DEF Bootstrap
  <2> HIDE DEF h
  <2>4. pairCall[p] \in {"none", "start", "complete"} /\ pairCall' = [pairCall EXCEPT ![p] = pairCall[p]]
    BY <2>1 DEF AuthInv, TypeOK
  <2>5. /\ h.busy <=> (pairCall[p] # "none" \/ \E c \in Calls : PaysFor(c, p))
        /\ \A c \in Calls : PaysFor(c, p) => pairCall[p] = "none"
        /\ pairCall[p] = "start" => ~h.pairing
    BY <2>2 DEF AuthInv, BusyInv, PairingInv
  <2>6. QED
    BY <2>2, <2>3, <2>4, <2>5, PairingPageStep
<1>2. CASE token # NoToken
  <2> DEFINE h == Update(g, "checking")
  <2>1. /\ h \in Page /\ Usable(h) /\ h.status = "checking" /\ h.busy = g.busy
        /\ h.pairing => g.pairing
    BY UpdatedPage
  <2>2. page' = [page EXCEPT ![p] = h] /\ Send(p, "status", token, pays)
    BY <1>2 DEF Bootstrap
  <2> HIDE DEF h
  <2>3. token \in Tokens
    BY <1>2
  <2>4. QED
    BY <2>1, <2>2, <2>3, SendPageStep
<1>3. QED
  BY <1>1, <1>2

(* The end of a page is the end of its requests.                             *)
LEMMA CloseStep ==
    ASSUME AuthInv, NEW p \in Pages, ClosePage(p)
    PROVE  /\ page' \in [Pages -> Page] /\ calls' \in [Calls -> Call \cup {NoCall}]
           /\ pairCall' \in [Pages -> {"none", "start", "complete"}]
           /\ PairingInv' /\ BusyInv' /\ CallInv'
<1>1. /\ page \in [Pages -> Page] /\ calls \in [Calls -> Call \cup {NoCall}]
      /\ pairCall \in [Pages -> {"none", "start", "complete"}]
  BY DEF AuthInv, TypeOK
<1>2. Closed \in Page
  BY Zenon, 0 \in Nat DEF Closed, Page
<1>3. Usable(Closed) /\ Closed.busy = FALSE
  BY DEF Usable, Tidy, Closed
<1>4. /\ page' \in [Pages -> Page] /\ calls' \in [Calls -> Call \cup {NoCall}]
      /\ pairCall' \in [Pages -> {"none", "start", "complete"}]
  BY <1>1, <1>2 DEF ClosePage
<1>5. /\ page'[p] = Closed /\ pairCall'[p] = "none"
      /\ \A q \in Pages \ {p} : page'[q] = page[q] /\ pairCall'[q] = pairCall[q]
  BY <1>1 DEF ClosePage
<1>6. \A c \in Calls : calls'[c] # NoCall => calls'[c] = calls[c] /\ calls[c].page # p
  BY DEF ClosePage
<1>7. \A c \in Calls, q \in Pages : PaysFor(c, q)' <=> PaysFor(c, q) /\ q # p
  BY DEF ClosePage, PaysFor
<1>8. PairingInv'
  BY <1>3, <1>5 DEF AuthInv, PairingInv
<1>9. BusyInv'
  <2> SUFFICES ASSUME NEW q \in Pages
               PROVE  /\ page'[q].busy => pairCall'[q] # "none" \/ \E b \in Calls : PaysFor(b, q)'
                      /\ \A b \in Calls : PaysFor(b, q)' =>
                            /\ page'[q].busy /\ pairCall'[q] = "none"
                            /\ \A a \in Calls : PaysFor(a, q)' => a = b
    BY DEF BusyInv
  <2>1. CASE q = p
    BY <1>3, <1>5, <1>7, <2>1
  <2>2. CASE q # p
    BY <1>5, <1>7, <2>2 DEF AuthInv, BusyInv
  <2>3. QED
    BY <2>1, <2>2
<1>10. CallInv'
  <2> SUFFICES ASSUME NEW c \in Calls, calls'[c] # NoCall
               PROVE  /\ page'[calls'[c].page].status # "closed"
                      /\ calls'[c].kind = "status" => calls'[c].token \in Tokens
                      /\ calls'[c].body => calls'[c].kind = "status"
    BY DEF CallInv
  <2>1. calls'[c] = calls[c] /\ calls[c].page \in Pages \ {p} /\ calls[c] # NoCall
    BY <1>1, <1>6 DEF Call
  <2>2. QED
    BY <1>5, <2>1 DEF AuthInv, CallInv
<1>11. QED
  BY <1>4, <1>8, <1>9, <1>10

-----------------------------------------------------------------------------
(* WebAuth: every step. *)

(* The answer to an authenticated request, whichever it is.                  *)
LEMMA SettleStep ==
    ASSUME AuthInv, NEW c \in Calls, Settle(c)
    PROVE  AuthInv'
<1> DEFINE g == Caller(c)
<1>1. calls[c] # NoCall
  BY DEF Settle, Refused, Accepted, Broken, ReadBody, Fail, Sent
<1>2. /\ calls[c].page \in Pages /\ calls[c] \in Call /\ g \in Page /\ Usable(g) /\ Tidy(g)
      /\ g.status # "closed"
  BY <1>1 DEF AuthInv, TypeOK, Caller, Call, CallInv, PairingInv, Usable
<1>3. /\ stored' \in Tokens \cup {NoToken} /\ UNCHANGED <<honoured, minted, pairCall>>
  BY DEF Settle, Refused, Accepted, Broken, ReadBody, Fail, AuthInv, TypeOK
<1>4. ASSUME \/ \E outcome \in {"unpaired", "authenticated", "offline"} : Finish(c, Update(g, outcome))
             \/ Finish(c, g)
      PROVE  AuthInv'
  <2>1. /\ page' \in [Pages -> Page] /\ calls' \in [Calls -> Call \cup {NoCall}]
        /\ PairingInv' /\ BusyInv' /\ CallInv'
    <3>1. CASE Finish(c, g)
      BY <1>1, <1>2, <1>3, <3>1, Finished
    <3>2. ASSUME NEW outcome \in {"unpaired", "authenticated", "offline"}, Finish(c, Update(g, outcome))
          PROVE  /\ page' \in [Pages -> Page] /\ calls' \in [Calls -> Call \cup {NoCall}]
                 /\ PairingInv' /\ BusyInv' /\ CallInv'
      <4> DEFINE h == Update(g, outcome)
      <4>1. /\ h \in Page /\ Usable(h) /\ h.status = outcome /\ h.busy = g.busy
            /\ h.pairing => g.pairing
        BY <1>2, UpdatedPage
      <4>2. Finish(c, h)
        BY <3>2
      <4> HIDE DEF h
      <4>3. QED
        BY <1>1, <1>3, <4>1, <4>2, Finished
    <3>3. QED
      BY <1>4, <3>1, <3>2
  <2>2. QED
    BY <1>3, <2>1 DEF AuthInv, TypeOK
<1>5. ASSUME calls[c].kind = "status", calls' = [calls EXCEPT ![c].body = TRUE], UNCHANGED page
      PROVE  AuthInv'
  <2> DEFINE r == [calls[c] EXCEPT !.body = TRUE]
  <2>1. r \in Call /\ r # NoCall
    <3>1. r \in Call
      BY <1>2, Zenon DEF Call
    <3>2. QED
      BY <3>1, NoCallAssumption
  <2>2. /\ r.page = calls[c].page /\ r.kind = "status" /\ r.token = calls[c].token
        /\ r.pays = calls[c].pays
    BY <1>2, <1>5 DEF Call
  <2>3. calls \in [Calls -> Call \cup {NoCall}]
    BY DEF AuthInv, TypeOK
  <2>4. calls' = [calls EXCEPT ![c] = r]
    BY <1>5, <2>3
  <2> HIDE DEF r
  <2>5. calls'[c] = r /\ (\A b \in Calls \ {c} : calls'[b] = calls[b])
    BY <2>3, <2>4
  <2>6. calls' \in [Calls -> Call \cup {NoCall}]
    BY <2>1, <2>3, <2>4
  <2>7. \A b \in Calls, q \in Pages : PaysFor(b, q)' <=> PaysFor(b, q)
    BY <1>1, <2>1, <2>2, <2>5 DEF PaysFor
  <2>8. PairingInv' /\ BusyInv'
    BY <1>3, <1>5, <2>7 DEF AuthInv, PairingInv, BusyInv
  <2>9. CallInv'
    BY <1>1, <1>5, <2>1, <2>2, <2>5 DEF AuthInv, CallInv
  <2>10. TypeOK'
    BY <1>3, <1>5, <2>6 DEF AuthInv, TypeOK
  <2>11. QED
    BY <2>8, <2>9, <2>10 DEF AuthInv
<1>6. CASE Refused(c)
  BY <1>4, <1>6 DEF Refused
<1>7. CASE Accepted(c)
  BY <1>4, <1>5, <1>7 DEF Accepted
<1>8. CASE Broken(c)
  BY <1>4, <1>8 DEF Broken
<1>9. CASE ReadBody(c)
  BY <1>4, <1>9 DEF ReadBody
<1>10. CASE Fail(c)
  BY <1>4, <1>10 DEF Fail
<1>11. QED
  BY <1>6, <1>7, <1>8, <1>9, <1>10 DEF Settle

(* The pairing view: what is submitted, and what comes of it.                *)
LEMMA PairingStep ==
    ASSUME AuthInv, NEW p \in Pages,
           SubmitName(p) \/ NameAnswered(p) \/ SubmitCode(p) \/ CodeRejected(p) \/ GoBack(p)
    PROVE  AuthInv'
<1> DEFINE g == page[p]
<1>1. /\ g \in Page /\ Usable(g) /\ Tidy(g) /\ UNCHANGED <<stored, honoured, minted, calls>>
      /\ pairCall[p] \in {"none", "start", "complete"}
  BY DEF AuthInv, TypeOK, PairingInv, Usable, SubmitName, NameAnswered, SubmitCode, CodeRejected, GoBack
<1>2. /\ g.busy => pairCall[p] # "none" \/ \E c \in Calls : PaysFor(c, p)
      /\ pairCall[p] # "none" => g.busy
      /\ \A c \in Calls : PaysFor(c, p) => g.busy /\ pairCall[p] = "none"
      /\ g.status = "closed" => pairCall[p] = "none"
  BY DEF AuthInv, BusyInv, PairingInv
<1>3. ASSUME NEW h \in Page, Usable(h), h.status = g.status, h.status # "closed",
             NEW next \in {"none", "start", "complete"},
             page' = [page EXCEPT ![p] = h], pairCall' = [pairCall EXCEPT ![p] = next],
             \A c \in Calls : ~PaysFor(c, p), h.busy <=> next # "none",
             next = "start" => ~h.pairing
      PROVE  AuthInv'
  <2>1. h.busy <=> (next # "none" \/ \E c \in Calls : PaysFor(c, p))
    BY <1>3
  <2>2. /\ page' \in [Pages -> Page] /\ calls' \in [Calls -> Call \cup {NoCall}]
        /\ pairCall' \in [Pages -> {"none", "start", "complete"}]
        /\ PairingInv' /\ BusyInv' /\ CallInv'
    BY <1>1, <1>3, <2>1, PairingPageStep
  <2>3. QED
    BY <1>1, <2>2 DEF AuthInv, TypeOK
<1>4. CASE SubmitName(p)
  <2> DEFINE h == [g EXCEPT !.busy = TRUE, !.pairing = FALSE]
  <2>1. ~g.pairing /\ ~g.busy /\ g.status = "unpaired"
    BY <1>1, <1>4 DEF SubmitName, Tidy
  <2>2. h \in Page
    BY <1>1, Zenon DEF Page
  <2>3. Usable(h) /\ h.status = g.status /\ h.busy = TRUE /\ h.pairing = FALSE
    BY <1>1, <1>4, <2>1 DEF SubmitName, Usable, Tidy, Page
  <2>4. page' = [page EXCEPT ![p] = h] /\ pairCall' = [pairCall EXCEPT ![p] = "start"]
    BY <1>4 DEF SubmitName, AuthInv, TypeOK
  <2> HIDE DEF h
  <2>5. QED
    BY <1>2, <1>3, <2>1, <2>2, <2>3, <2>4
<1>5. CASE SubmitCode(p)
  <2> DEFINE h == [g EXCEPT !.busy = TRUE]
  <2>1. ~g.busy /\ g.status = "unpaired"
    BY <1>5 DEF SubmitCode
  <2>2. h \in Page
    BY <1>1, Zenon DEF Page
  <2>3. Usable(h) /\ h.status = g.status /\ h.busy = TRUE
    BY <1>1 DEF Usable, Tidy, Page
  <2>4. page' = [page EXCEPT ![p] = h] /\ pairCall' = [pairCall EXCEPT ![p] = "complete"]
    BY <1>5 DEF SubmitCode, AuthInv, TypeOK
  <2> HIDE DEF h
  <2>5. QED
    BY <1>2, <1>3, <2>1, <2>2, <2>3, <2>4
<1>6. CASE GoBack(p)
  <2> DEFINE h == ShowNameStep(g)
  <2>1. ~g.busy /\ g.status = "unpaired" /\ UNCHANGED pairCall
    BY <1>6 DEF GoBack
  <2>2. h \in Page /\ Usable(h) /\ h.status = g.status /\ h.busy = g.busy /\ ~h.pairing
    BY <1>1, NamePage
  <2>3. page' = [page EXCEPT ![p] = h] /\ pairCall[p] = "none"
    BY <1>2, <1>6, <2>1 DEF GoBack
  <2>4. pairCall' = [pairCall EXCEPT ![p] = "none"]
    BY <2>1, <2>3 DEF AuthInv, TypeOK
  <2> HIDE DEF h
  <2>5. QED
    BY <1>2, <1>3, <2>1, <2>2, <2>3, <2>4
<1>7. CASE NameAnswered(p) \/ CodeRejected(p)
  <2>1. /\ pairCall[p] # "none" /\ pairCall' = [pairCall EXCEPT ![p] = "none"]
        /\ (\A c \in Calls : ~PaysFor(c, p)) /\ g.status # "closed"
    BY <1>2, <1>7 DEF NameAnswered, CodeRejected
  <2>2. ASSUME NEW f \in Page, Usable(f), f.status = g.status, page' = [page EXCEPT ![p] = Idle(f)]
        PROVE  AuthInv'
    <3>1. Idle(f) \in Page
      BY <2>2, Zenon DEF Idle, Page
    <3>2. Usable(Idle(f)) /\ Idle(f).status = g.status /\ Idle(f).busy = FALSE
      BY <2>2 DEF Idle, Usable, Tidy, Page
    <3>3. QED
      BY <1>3, <2>1, <2>2, <3>1, <3>2
  <2>3. CASE page' = [page EXCEPT ![p] = Idle(g)]
    BY <1>1, <2>2, <2>3
  <2>4. CASE page' = [page EXCEPT ![p] = Idle(ShowNameStep(g))]
    BY <1>1, <2>2, <2>4, NamePage
  <2>5. CASE /\ pairCall[p] = "start"
             /\ page' = [page EXCEPT ![p] = Idle(ShowCodeStep([g EXCEPT !.pairing = TRUE]))]
    <3> DEFINE e == [g EXCEPT !.pairing = TRUE]
               f == ShowCodeStep(e)
    <3>1. ~g.pairing /\ g.ticking = 0
      BY <1>1, <2>5 DEF AuthInv, PairingInv, Tidy
    <3>2. /\ e \in Page /\ e.ticking = 0 /\ e.pairing = TRUE /\ e.status = g.status
          /\ e.busy = g.busy
      <4>1. e \in Page
        BY <1>1, Zenon DEF Page
      <4>2. QED
        BY <1>1, <3>1, <4>1 DEF Page
    <3> HIDE DEF e
    <3>3. f = [e EXCEPT !.form = "code", !.countdown = TRUE, !.ticking = 1]
      BY <3>2 DEF ShowCodeStep, Page
    <3>4. [e EXCEPT !.form = "code", !.countdown = TRUE, !.ticking = 1] \in Page
      BY <3>2, 1 \in Nat, Zenon DEF Page
    <3>5. f \in Page
      BY <3>3, <3>4
    <3>6. Usable(f) /\ f.status = g.status
      BY <3>2, <3>3 DEF Usable, Tidy, Page
    <3>7. page' = [page EXCEPT ![p] = Idle(f)]
      BY <2>5 DEF e
    <3> HIDE DEF f
    <3>8. QED
      BY <2>2, <3>5, <3>6, <3>7
  <2>6. QED
    BY <1>7, <2>3, <2>4, <2>5 DEF NameAnswered, CodeRejected
<1>8. QED
  BY <1>4, <1>5, <1>6, <1>7

LEMMA TokenStep ==
    ASSUME AuthInv, NEW p \in Pages, NEW k \in Tokens, CodeAccepted(p, k)
    PROVE  AuthInv'
<1> DEFINE g == ClearTransientState(page[p])
<1>1. page[p] \in Page /\ Tidy(page[p]) /\ pairCall[p] # "none"
  BY DEF AuthInv, TypeOK, PairingInv, Usable, CodeAccepted
<1>2. g \in Page /\ Tidy(g) /\ g.busy = page[p].busy /\ ~g.pairing
  <2>1. g \in Page /\ g = [page[p] EXCEPT !.pairing = FALSE, !.countdown = FALSE, !.ticking = 0]
    BY <1>1, ClearedPage
  <2> HIDE DEF g
  <2>2. QED
    BY <1>1, <2>1 DEF Page, Tidy
<1>3. Bootstrap(p, g, k, TRUE) /\ pairCall' = [pairCall EXCEPT ![p] = "none"]
  BY DEF CodeAccepted
<1> HIDE DEF g
<1>4. k # NoToken
  BY NoTokenAssumption
<1>5. /\ page' \in [Pages -> Page] /\ calls' \in [Calls -> Call \cup {NoCall}]
      /\ pairCall' \in [Pages -> {"none", "start", "complete"}]
      /\ PairingInv' /\ BusyInv' /\ CallInv'
  BY <1>1, <1>2, <1>3, <1>4, BootstrapStep
<1>6. stored' = k /\ honoured' = honoured \cup {k} /\ minted' = minted \cup {k}
  BY DEF CodeAccepted
<1>7. QED
  BY <1>5, <1>6 DEF AuthInv, TypeOK

LEMMA UserStep ==
    ASSUME AuthInv, NEW p \in Pages,
           OpenPage(p) \/ ClosePage(p) \/ Retry(p) \/ UseDashboard(p)
    PROVE  AuthInv'
<1>1. /\ page[p] \in Page /\ Usable(page[p]) /\ Tidy(page[p]) /\ stored \in Tokens \cup {NoToken}
      /\ UNCHANGED <<stored, honoured, minted>>
  BY DEF AuthInv, TypeOK, PairingInv, Usable, OpenPage, ClosePage, Retry, UseDashboard
<1>2. SUFFICES /\ page' \in [Pages -> Page] /\ calls' \in [Calls -> Call \cup {NoCall}]
               /\ pairCall' \in [Pages -> {"none", "start", "complete"}]
               /\ PairingInv' /\ BusyInv' /\ CallInv'
  BY <1>1 DEF AuthInv, TypeOK
<1>3. CASE OpenPage(p)
  <2> DEFINE g == [Closed EXCEPT !.status = "checking"]
  <2>1. g \in Page
    BY Zenon, 0 \in Nat DEF Closed, Page
  <2>2. Usable(g) /\ Tidy(g) /\ g.busy = FALSE /\ g.pairing = FALSE
    BY DEF Closed, Usable, Tidy
  <2>3. page[p].status = "closed" /\ Bootstrap(p, g, stored, FALSE) /\ UNCHANGED pairCall
    BY <1>3 DEF OpenPage
  <2>4. page[p].busy = FALSE
    <3>1. pairCall[p] = "none" /\ \A c \in Calls : ~PaysFor(c, p)
      BY <2>3 DEF AuthInv, PairingInv, CallInv, PaysFor
    <3>2. ~page[p].busy
      BY <3>1 DEF AuthInv, BusyInv
    <3>3. QED
      BY <1>1, <3>2 DEF Page
  <2> HIDE DEF g
  <2>5. QED
    BY <1>1, <2>1, <2>2, <2>3, <2>4, BootstrapStep
<1>4. CASE ClosePage(p)
  BY <1>4, CloseStep
<1>5. CASE Retry(p)
  BY <1>1, <1>5, BootstrapStep DEF Retry
<1>6. CASE UseDashboard(p)
  <2>1. page' = [page EXCEPT ![p] = page[p]] /\ page[p].status # "closed"
    BY <1>6 DEF UseDashboard, AuthInv, TypeOK
  <2>2. QED
    BY <1>1, <1>6, <2>1, SendPageStep DEF UseDashboard
<1>7. QED
  BY <1>3, <1>4, <1>5, <1>6

LEMMA AuthStep == AuthInv /\ [Next]_vars => AuthInv'
<1> SUFFICES ASSUME AuthInv, [Next]_vars PROVE AuthInv'
  OBVIOUS
<1>1. CASE UNCHANGED vars
  BY <1>1 DEF vars, AuthInv, TypeOK, PairingInv, BusyInv, CallInv, PaysFor
<1>2. ASSUME NEW k \in honoured, Revoke(k) PROVE AuthInv'
  BY <1>2 DEF Revoke, AuthInv, TypeOK, PairingInv, BusyInv, CallInv, PaysFor
<1>3. QED
  BY <1>1, <1>2, SettleStep, PairingStep, TokenStep, UserStep DEF Next, AnswerPairing

LEMMA AuthInvariance == Spec => []AuthInv
  BY InitAuthInv, AuthStep, PTL DEF Spec

(* Every variable keeps its type: a page is never in a state that its code   *)
(* does not name, however many requests overlap on however many pages.       *)
THEOREM AuthTypeCorrect == Spec => []TypeOK
<1>1. AuthInv => TypeOK
  BY DEF AuthInv
<1>2. QED
  BY AuthInvariance, <1>1, PTL

(* Whatever answers come late, a page that asks for a pairing shows a form   *)
(* that can be used, and its countdown runs once, while there is a pairing.  *)
THEOREM PairingViewStaysUsable == Spec => []PairingViewUsable
<1>1. AuthInv => PairingViewUsable
  BY DEF AuthInv, PairingInv, BusyInv, PaysFor, PairingViewUsable, Usable, Tidy
<1>2. QED
  BY AuthInvariance, <1>1, PTL

(* A token that the Agent honours is dropped only by the refusal of another  *)
(* one, and a page that falls offline keeps what it had.                     *)
THEOREM CredentialSurvives == Spec => CredentialKept
<1> DEFINE Over(c) == calls[c] # NoCall /\ calls'[c] = NoCall
           Lost == stored \in honoured /\ stored' = NoToken
           Offline(p) == page[p].status # "offline" /\ page'[p].status = "offline" /\ stored' = NoToken
<1>1. ASSUME AuthInv, Next, Lost
      PROVE  \E c \in Calls : Over(c) /\ calls[c].token # stored
  <2>1. stored # NoToken
    BY <1>1, NoTokenAssumption DEF AuthInv, TypeOK
  <2>2. PICK c \in Calls : Refused(c)
    <3>1. ASSUME NEW c \in Calls, Settle(c), ~Refused(c) PROVE UNCHANGED stored
      BY <3>1 DEF Settle, Accepted, Broken, ReadBody, Fail
    <3>2. ASSUME NEW p \in Pages, AnswerPairing(p) PROVE stored' # NoToken
      BY <2>1, <3>2, NoTokenAssumption DEF AnswerPairing, NameAnswered, CodeRejected, CodeAccepted
    <3>3. ASSUME NEW p \in Pages, OpenPage(p) \/ ClosePage(p) \/ Retry(p) \/ UseDashboard(p)
          PROVE  UNCHANGED stored
      BY <3>3 DEF OpenPage, ClosePage, Retry, UseDashboard
    <3>4. ASSUME NEW p \in Pages, SubmitName(p) \/ SubmitCode(p) \/ GoBack(p)
          PROVE  UNCHANGED stored
      BY <3>4 DEF SubmitName, SubmitCode, GoBack
    <3>5. ASSUME NEW k \in honoured, Revoke(k) PROVE UNCHANGED stored
      BY <3>5 DEF Revoke
    <3>6. QED
      BY <1>1, <2>1, <3>1, <3>2, <3>3, <3>4, <3>5 DEF Next
  <2>3. calls[c] # NoCall /\ calls[c].token \notin honoured /\ calls'[c] = NoCall
    BY <1>1, <2>2 DEF Refused, Sent, Finish, AuthInv, TypeOK
  <2>4. QED
    BY <1>1, <2>3
<1>2. ASSUME AuthInv, Next, NEW p \in Pages, Offline(p)
      PROVE  \E c \in Calls : Over(c) /\ calls[c].token \in Tokens
  <2>1. PICK c \in Calls : Settle(c)
    <3>1. ASSUME NEW q \in Pages, AnswerPairing(q) \/ SubmitName(q) \/ SubmitCode(q) \/ GoBack(q)
          PROVE  page'[p].status # "offline"
      <4>g. page \in [Pages -> Page] /\ page[q] \in Page /\ Tidy(page[q])
        BY <1>2 DEF AuthInv, TypeOK, PairingInv, Usable
      <4>1. CASE \E k \in Tokens : CodeAccepted(q, k)
        <5>1. stored' # NoToken
          BY <4>1, NoTokenAssumption DEF CodeAccepted
        <5>2. QED
          BY <1>2, <5>1
      <4>2. CASE SubmitName(q) \/ SubmitCode(q)
        BY <1>2, <4>2, <4>g DEF SubmitName, SubmitCode, Page
      <4>3. CASE GoBack(q)
        BY <1>2, <4>3, <4>g, NamePage DEF GoBack
      <4>4. CASE NameAnswered(q) \/ CodeRejected(q)
        <5>1. \A g \in Page : Idle(g).status = g.status
          BY DEF Idle, Page
        <5>2. \A g \in Page : /\ Idle(ShowCodeStep([g EXCEPT !.pairing = TRUE])).status = g.status
          BY DEF Idle, ShowCodeStep, Page
        <5>3. ShowNameStep(page[q]) \in Page /\ ShowNameStep(page[q]).status = page[q].status
          BY <4>g, NamePage
        <5>4. \E g : page' = [page EXCEPT ![q] = g] /\ g.status = page[q].status
          BY <4>4, <4>g, <5>1, <5>2, <5>3 DEF NameAnswered, CodeRejected
        <5>5. QED
          BY <1>2, <4>g, <5>4
      <4>5. QED
        BY <3>1, <4>1, <4>2, <4>3, <4>4 DEF AnswerPairing
    <3>2. ASSUME NEW q \in Pages, OpenPage(q) \/ ClosePage(q) \/ Retry(q) \/ UseDashboard(q)
          PROVE  page'[p].status # "offline"
      <4>g. page \in [Pages -> Page] /\ page[q] \in Page /\ Tidy(page[q])
            /\ Usable(page[q])
        BY <1>2 DEF AuthInv, TypeOK, PairingInv, Usable
      <4>1. CASE ClosePage(q)
        BY <1>2, <4>1, <4>g DEF ClosePage, Closed
      <4>2. CASE UseDashboard(q)
        BY <1>2, <4>2 DEF UseDashboard
      <4>3. ASSUME NEW g \in Page, Usable(g), Bootstrap(q, g, stored, FALSE)
            PROVE  page'[p].status # "offline"
        <5>1. /\ Update(g, "unpaired").status = "unpaired"
              /\ Update(g, "checking").status = "checking"
          BY <4>3, UpdatedPage DEF Usable
        <5>2. QED
          BY <1>2, <4>3, <4>g, <5>1 DEF Bootstrap
      <4>4. CASE OpenPage(q)
        <5>1. [Closed EXCEPT !.status = "checking"] \in Page
          BY Zenon, 0 \in Nat DEF Closed, Page
        <5>2. Usable([Closed EXCEPT !.status = "checking"])
          BY DEF Closed, Usable, Tidy
        <5>3. QED
          BY <4>3, <4>4, <5>1, <5>2 DEF OpenPage
      <4>5. CASE Retry(q)
        BY <4>3, <4>5, <4>g DEF Retry
      <4>6. QED
        BY <3>2, <4>1, <4>2, <4>4, <4>5
    <3>3. ASSUME NEW k \in honoured, Revoke(k) PROVE page'[p].status # "offline"
      BY <1>2, <3>3 DEF Revoke
    <3>4. QED
      BY <1>2, <3>1, <3>2, <3>3 DEF Next
  <2>2. calls[c] # NoCall
    BY <2>1 DEF Settle, Refused, Accepted, Broken, ReadBody, Fail, Sent
  <2>3. /\ page \in [Pages -> Page] /\ calls \in [Calls -> Call \cup {NoCall}]
        /\ calls[c] \in Call /\ Caller(c) \in Page /\ Usable(Caller(c)) /\ Tidy(Caller(c))
        /\ calls[c].token \in Tokens \cup {NoToken} /\ calls[c].page \in Pages
    BY <1>2, <2>2 DEF AuthInv, TypeOK, Call, Caller, PairingInv, Usable
  <2>4. ASSUME NEW g \in Page, Finish(c, g)
        PROVE  Over(c) /\ (g.status # "offline" => calls[c].page # p \/ page'[p].status # "offline")
    <3>1. Idle(g).status = g.status
      BY DEF Idle, Page
    <3>2. QED
      BY <2>2, <2>3, <2>4, <3>1 DEF Finish
  <2>5. ASSUME NEW g, Finish(c, g) PROVE calls[c].page = p
    BY <1>2, <2>3, <2>5 DEF Finish
  <2>6. \A outcome \in {"unpaired", "authenticated", "offline"} :
            Update(Caller(c), outcome) \in Page /\ Update(Caller(c), outcome).status = outcome
    BY <2>3, UpdatedPage
  <2>7. CASE Refused(c)
    BY <1>2, <2>4, <2>5, <2>6, <2>7 DEF Refused
  <2>8. CASE Accepted(c)
    <3>1. calls[c].kind # "status"
      BY <1>2, <2>8 DEF Accepted
    <3>2. Finish(c, Caller(c))
      BY <2>8, <3>1 DEF Accepted
    <3>3. QED
      BY <1>2, <2>3, <2>4, <2>5, <3>2 DEF Caller
  <2>9. CASE Broken(c)
    <3>1. CASE calls[c].kind = "status"
      <4>1. calls[c].token \in Tokens
        BY <1>2, <2>2, <3>1 DEF AuthInv, CallInv
      <4>2. QED
        BY <2>4, <2>6, <2>9, <3>1, <4>1 DEF Broken
    <3>2. CASE calls[c].kind # "status"
      BY <1>2, <2>3, <2>4, <2>5, <2>9, <3>2 DEF Broken, Caller
    <3>3. QED
      BY <3>1, <3>2
  <2>10. CASE ReadBody(c)
    <3>1. calls[c].token \in Tokens
      BY <1>2, <2>2, <2>10 DEF ReadBody, AuthInv, CallInv
    <3>2. QED
      BY <2>4, <2>6, <2>10, <3>1 DEF ReadBody
  <2>11. CASE Fail(c)
    <3>1. CASE calls[c].token # NoToken
      BY <2>3, <2>4, <2>6, <2>11, <3>1 DEF Fail
    <3>2. CASE calls[c].token = NoToken
      BY <1>2, <2>3, <2>4, <2>5, <2>11, <3>2 DEF Fail, Caller
    <3>3. QED
      BY <3>1, <3>2
  <2>12. QED
    BY <2>1, <2>7, <2>8, <2>9, <2>10, <2>11 DEF Settle
<1>3. AuthInv /\ [Next]_vars
        => [/\ Lost => \E c \in Calls : calls[c] # NoCall /\ calls'[c] = NoCall /\ calls[c].token # stored
            /\ \A p \in Pages : Offline(p) =>
                 \E c \in Calls : calls[c] # NoCall /\ calls'[c] = NoCall /\ calls[c].token \in Tokens]_vars
  BY <1>1, <1>2
<1>4. QED
  BY AuthInvariance, <1>3, PTL DEF Spec, CredentialKept

-----------------------------------------------------------------------------
(* WebAuth: what a page that is checking waits for. *)

Checks(c, p) == calls[c] # NoCall /\ calls[c].page = p /\ calls[c].kind = "status"

(* The steps of the pairing view change no status and send nothing.          *)
LEMMA StatusKept ==
    ASSUME AuthInv, NEW q \in Pages,
           SubmitName(q) \/ SubmitCode(q) \/ GoBack(q) \/ NameAnswered(q) \/ CodeRejected(q)
    PROVE  (\A p \in Pages : page'[p].status = page[p].status) /\ UNCHANGED calls
<1>1. page \in [Pages -> Page] /\ page[q] \in Page /\ Tidy(page[q])
  BY DEF AuthInv, TypeOK, PairingInv, Usable
<1>2. ShowNameStep(page[q]).status = page[q].status /\ ShowNameStep(page[q]) \in Page
  BY <1>1, NamePage
<1>3. \A g \in Page : /\ Idle(g).status = g.status
                      /\ Idle(ShowCodeStep([g EXCEPT !.pairing = TRUE])).status = g.status
                      /\ [g EXCEPT !.busy = TRUE, !.pairing = FALSE].status = g.status
                      /\ [g EXCEPT !.busy = TRUE].status = g.status
  BY DEF Idle, ShowCodeStep, Page
<1>4. \E g : page' = [page EXCEPT ![q] = g] /\ g.status = page[q].status
  <2>1. CASE SubmitName(q)
    <3>1. page' = [page EXCEPT ![q] = [page[q] EXCEPT !.busy = TRUE, !.pairing = FALSE]]
      BY <2>1 DEF SubmitName
    <3>2. QED
      BY <1>1, <1>3, <3>1
  <2>2. CASE SubmitCode(q)
    <3>1. page' = [page EXCEPT ![q] = [page[q] EXCEPT !.busy = TRUE]]
      BY <2>2 DEF SubmitCode
    <3>2. QED
      BY <1>1, <1>3, <3>1
  <2>3. CASE GoBack(q)
    BY <1>2, <2>3 DEF GoBack
  <2>4. CASE NameAnswered(q) \/ CodeRejected(q)
    <3>1. PICK g : /\ page' = [page EXCEPT ![q] = g]
                   /\ \/ g = Idle(page[q])
                      \/ g = Idle(ShowCodeStep([page[q] EXCEPT !.pairing = TRUE]))
                      \/ g = Idle(ShowNameStep(page[q]))
      BY <2>4 DEF NameAnswered, CodeRejected
    <3>2. g.status = page[q].status
      BY <1>1, <1>2, <1>3, <3>1
    <3>3. QED
      BY <3>1, <3>2
  <2>5. QED
    BY <2>1, <2>2, <2>3, <2>4
<1>5. UNCHANGED calls
  BY DEF SubmitName, SubmitCode, GoBack, NameAnswered, CodeRejected
<1>6. QED
  BY <1>1, <1>4, <1>5

(* A bootstrap that begins to check sends what it will wait for.             *)
LEMMA BootstrapSends ==
    ASSUME AuthInv, NEW q \in Pages, NEW g \in Page, Tidy(g), NEW token \in Tokens \cup {NoToken},
           NEW pays \in BOOLEAN, token # NoToken \/ Usable(g), Bootstrap(q, g, token, pays)
    PROVE  /\ page'[q].status = "checking" => \E c \in Calls : Checks(c, q)'
           /\ \A p \in Pages \ {q} : page'[p] = page[p]
           /\ \A c \in Calls : calls[c] # NoCall => calls'[c] = calls[c]
<1>1. page \in [Pages -> Page] /\ calls \in [Calls -> Call \cup {NoCall}]
  BY DEF AuthInv, TypeOK
<1>2. CASE token = NoToken
  <2>1. Update(g, "unpaired").status = "unpaired"
    BY <1>2, UpdatedPage
  <2>2. QED
    BY <1>1, <1>2, <2>1 DEF Bootstrap
<1>3. CASE token # NoToken
  <2> DEFINE r == [page |-> q, kind |-> "status", token |-> token, pays |-> pays, body |-> FALSE]
  <2>1. PICK n \in Calls : calls[n] = NoCall /\ calls' = [calls EXCEPT ![n] = r]
    BY <1>3 DEF Bootstrap, Send
  <2>2. r # NoCall
    <3>1. r \in Call
      BY Zenon DEF Call
    <3>2. QED
      BY <3>1, NoCallAssumption
  <2>3. Checks(n, q)'
    BY <1>1, <2>1, <2>2 DEF Checks
  <2>4. \A p \in Pages \ {q} : page'[p] = page[p]
    BY <1>1, <1>3 DEF Bootstrap
  <2>5. QED
    BY <1>1, <2>1, <2>3, <2>4
<1>4. QED
  BY <1>2, <1>3

LEMMA SettledServed ==
    ASSUME AuthInv, ChecksAreServed, NEW c \in Calls, Settle(c)
    PROVE  ChecksAreServed'
<1>1. calls[c] # NoCall
  BY DEF Settle, Refused, Accepted, Broken, ReadBody, Fail, Sent
<1>2. /\ page \in [Pages -> Page] /\ calls \in [Calls -> Call \cup {NoCall}]
      /\ calls[c] \in Call /\ Caller(c) \in Page /\ Usable(Caller(c)) /\ Tidy(Caller(c))
      /\ calls[c].page \in Pages
  BY <1>1 DEF AuthInv, TypeOK, Call, Caller, PairingInv, Usable
<1>3. \A outcome \in {"unpaired", "authenticated", "offline"} :
          Update(Caller(c), outcome) \in Page /\ Update(Caller(c), outcome).status = outcome
  BY <1>2, UpdatedPage
<1>4. ASSUME NEW g \in Page, Finish(c, g),
             g.status # "checking" \/ (g = Caller(c) /\ calls[c].kind # "status")
      PROVE  ChecksAreServed'
  <2> SUFFICES ASSUME NEW p \in Pages, page'[p].status = "checking"
               PROVE  \E b \in Calls : Checks(b, p)'
    BY DEF ChecksAreServed, Checks
  <2>1. \A b \in Calls \ {c} : calls'[b] = calls[b]
    BY <1>2, <1>4 DEF Finish
  <2>2. page'[p].status = (IF p = calls[c].page THEN g.status ELSE page[p].status)
    <3>1. Idle(g).status = g.status
      BY DEF Idle, Page
    <3>2. QED
      BY <1>2, <1>4, <3>1 DEF Finish
  <2>3. page[p].status = "checking" /\ ~Checks(c, p)
    BY <1>4, <2>2 DEF Caller, Checks
  <2>4. PICK b \in Calls \ {c} : Checks(b, p)
    BY <2>3 DEF ChecksAreServed, Checks
  <2>5. QED
    BY <2>1, <2>4 DEF Checks
<1>5. CASE Refused(c)
  BY <1>3, <1>4, <1>5 DEF Refused
<1>6. CASE Accepted(c) /\ calls[c].kind = "status"
  <2>1. calls' = [calls EXCEPT ![c] = [calls[c] EXCEPT !.body = TRUE]] /\ UNCHANGED page
    BY <1>6 DEF Accepted
  <2>2. [calls[c] EXCEPT !.body = TRUE] \in Call
    BY <1>2 DEF Call
  <2>3. calls'[c] # NoCall /\ calls'[c].page = calls[c].page /\ calls'[c].kind = calls[c].kind
    BY <1>2, <2>1, <2>2, NoCallAssumption DEF Call
  <2>4. \A b \in Calls, p \in Pages : Checks(b, p) => Checks(b, p)'
    BY <1>2, <2>1, <2>3 DEF Checks
  <2>5. QED
    BY <2>1, <2>4 DEF ChecksAreServed, Checks
<1>7. CASE Accepted(c) /\ calls[c].kind # "status"
  BY <1>2, <1>4, <1>7 DEF Accepted
<1>8. CASE Broken(c)
  BY <1>2, <1>3, <1>4, <1>8 DEF Broken
<1>9. CASE ReadBody(c)
  BY <1>3, <1>4, <1>9 DEF ReadBody
<1>10. CASE Fail(c)
  <2>1. calls[c].token = NoToken => calls[c].kind # "status"
    BY <1>1, NoTokenAssumption DEF AuthInv, CallInv
  <2>2. QED
    BY <1>2, <1>3, <1>4, <1>10, <2>1 DEF Fail
<1>11. QED
  BY <1>5, <1>6, <1>7, <1>8, <1>9, <1>10 DEF Settle

LEMMA ServedStep == AuthInv /\ ChecksAreServed /\ [Next]_vars => ChecksAreServed'
<1> SUFFICES ASSUME AuthInv, ChecksAreServed, [Next]_vars PROVE ChecksAreServed'
  OBVIOUS
<1>1. /\ page \in [Pages -> Page] /\ calls \in [Calls -> Call \cup {NoCall}]
      /\ stored \in Tokens \cup {NoToken}
      /\ \A p \in Pages : page[p] \in Page /\ Tidy(page[p]) /\ Usable(page[p])
  BY DEF AuthInv, TypeOK, PairingInv, Usable
<1>2. ASSUME \A p \in Pages : page'[p].status = page[p].status, UNCHANGED calls
      PROVE  ChecksAreServed'
  BY <1>2 DEF ChecksAreServed
<1>3. ASSUME NEW q \in Pages, NEW g \in Page, Tidy(g), NEW token \in Tokens \cup {NoToken},
             NEW pays \in BOOLEAN, token # NoToken \/ Usable(g), Bootstrap(q, g, token, pays)
      PROVE  ChecksAreServed'
  <2> SUFFICES ASSUME NEW p \in Pages, page'[p].status = "checking"
               PROVE  \E c \in Calls : Checks(c, p)'
    BY DEF ChecksAreServed, Checks
  <2>1. CASE p = q
    BY <1>3, <2>1, BootstrapSends
  <2>2. CASE p # q
    <3>1. page[p].status = "checking"
      BY <1>3, <2>2, BootstrapSends
    <3>2. PICK c \in Calls : Checks(c, p)
      BY <3>1 DEF ChecksAreServed, Checks
    <3>3. calls'[c] = calls[c]
      BY <1>3, <3>2, BootstrapSends DEF Checks
    <3>4. QED
      BY <3>2, <3>3 DEF Checks
  <2>3. QED
    BY <2>1, <2>2
<1>4. ASSUME NEW q \in Pages, OpenPage(q) PROVE ChecksAreServed'
  <2>1. [Closed EXCEPT !.status = "checking"] \in Page
    BY Zenon, 0 \in Nat DEF Closed, Page
  <2>2. Usable([Closed EXCEPT !.status = "checking"]) /\ Tidy([Closed EXCEPT !.status = "checking"])
    BY DEF Closed, Usable, Tidy
  <2>3. QED
    BY <1>1, <1>3, <1>4, <2>1, <2>2 DEF OpenPage
<1>5. ASSUME NEW q \in Pages, ClosePage(q) PROVE ChecksAreServed'
  <2> SUFFICES ASSUME NEW p \in Pages, page'[p].status = "checking"
               PROVE  \E c \in Calls : Checks(c, p)'
    BY DEF ChecksAreServed, Checks
  <2>1. p # q /\ page[p].status = "checking"
    BY <1>1, <1>5 DEF ClosePage, Closed
  <2>2. PICK c \in Calls : Checks(c, p)
    BY <2>1 DEF ChecksAreServed, Checks
  <2>3. calls'[c] = calls[c]
    BY <1>5, <2>1, <2>2 DEF ClosePage, Checks
  <2>4. QED
    BY <2>2, <2>3 DEF Checks
<1>6. ASSUME NEW q \in Pages, Retry(q) PROVE ChecksAreServed'
  BY <1>1, <1>3, <1>6 DEF Retry
<1>7. ASSUME NEW q \in Pages, UseDashboard(q) PROVE ChecksAreServed'
  <2>1. UNCHANGED page /\ \A c \in Calls : calls[c] # NoCall => calls'[c] = calls[c]
    BY <1>1, <1>7 DEF UseDashboard, Send
  <2>2. QED
    BY <2>1 DEF ChecksAreServed
<1>8. ASSUME NEW q \in Pages, NEW k \in Tokens, CodeAccepted(q, k) PROVE ChecksAreServed'
  <2> DEFINE g == ClearTransientState(page[q])
  <2>1. g \in Page /\ g = [page[q] EXCEPT !.pairing = FALSE, !.countdown = FALSE, !.ticking = 0]
    BY <1>1, ClearedPage
  <2>2. Bootstrap(q, g, k, TRUE) /\ k # NoToken
    BY <1>8, NoTokenAssumption DEF CodeAccepted
  <2> HIDE DEF g
  <2>3. Tidy(g)
    BY <1>1, <2>1 DEF Tidy, Page
  <2>4. QED
    BY <1>3, <2>1, <2>2, <2>3
<1>9. ASSUME NEW q \in Pages,
             SubmitName(q) \/ SubmitCode(q) \/ GoBack(q) \/ NameAnswered(q) \/ CodeRejected(q)
      PROVE  ChecksAreServed'
  BY <1>2, <1>9, StatusKept
<1>10. (UNCHANGED vars \/ \E k \in honoured : Revoke(k)) => ChecksAreServed'
  BY <1>2 DEF vars, Revoke
<1>11. QED
  BY <1>4, <1>5, <1>6, <1>7, <1>8, <1>9, <1>10, SettledServed DEF Next, AnswerPairing

(* Whatever other answers, pages and resets come between, a page that is     *)
(* checking has a status check in flight, which can still end the wait.      *)
THEOREM NoCheckIsForgotten == Spec => []ChecksAreServed
<1>1. Init => ChecksAreServed
  BY DEF Init, ChecksAreServed, Closed
<1>2. QED
  BY <1>1, InitAuthInv, AuthStep, ServedStep, PTL DEF Spec
=============================================================================
