---------------------------- MODULE AppsLauncher ----------------------------
(***************************************************************************)
(* The apps launcher of the web client: js/components/apps-launcher.js     *)
(* with js/services/actions-catalog.js and action-execution.js, under the  *)
(* authentication state that shows and hides it (js/app.js).               *)
(*                                                                         *)
(* Everything runs on the page's one thread, but every request and every   *)
(* timer ends in a callback of its own.  A callback keeps the view (the    *)
(* button) it was made for, and that view may no longer be in the page     *)
(* when it runs.  A new rendering makes new views; the number of a         *)
(* rendering is used again once nothing refers to its views.               *)
(***************************************************************************)
EXTENDS FiniteSets, Naturals

CONSTANTS Actions,      \* ids of the actions the server may offer
          Renderings,   \* bound of the model: numbers of renderings
          MaxLoads      \* bound of the model: catalogue requests in flight

ASSUME MaxLoadsAssumption == MaxLoads \in Nat \ {0}

VARIABLES shown,        \* the device is authenticated and the shell visible
          loaded, loading,
          status,       \* catalogState.status
          gridShown,    \* the grid is visible and holds the buttons of views
          refreshShown, \* the refresh button is visible
          loads,        \* catalogue requests in flight
          views,        \* actionViews
          face,         \* the state each view's button displays
          executions,   \* the execution state of each action
          running,      \* views whose request is in flight
          due,          \* views whose timer back to idle is set
          reload,       \* views whose timer to load the catalogue again is set
          crossed       \* history: actions whose request or timer outlived a reset

catalogVars == <<loaded, loading, status, gridShown, refreshShown>>
launcherVars == <<shown, catalogVars, loads, views, face, executions, running, due, reload, crossed>>

Views == [action : Actions, rendering : Renderings]
States == {"idle", "executing", "success", "error"}
Statuses == {"not-loaded", "loading", "available", "empty", "unavailable", "offline", "error"}

LauncherTypeOK ==
    /\ shown \in BOOLEAN /\ loaded \in BOOLEAN /\ loading \in BOOLEAN
    /\ status \in Statuses
    /\ gridShown \in BOOLEAN /\ refreshShown \in BOOLEAN
    /\ loads \in 0..MaxLoads
    /\ views \subseteq Views /\ running \subseteq Views
    /\ due \subseteq Views /\ reload \subseteq Views
    /\ face \in [Views -> States]
    /\ executions \in [Actions -> States]
    /\ crossed \subseteq Actions

AllIdle == [a \in Actions |-> "idle"]

LauncherInit ==
    /\ shown = FALSE
    /\ loaded = FALSE /\ loading = FALSE
    /\ status = "not-loaded"
    /\ gridShown = FALSE /\ refreshShown = FALSE
    /\ loads = 0
    /\ views = {} /\ running = {} /\ due = {} /\ reload = {}
    /\ face = [v \in Views |-> "idle"]
    /\ executions = AllIdle
    /\ crossed = {}

-----------------------------------------------------------------------------
Cross == crossed' = crossed \cup {v.action : v \in running \cup (due \ views)}

(* reset(), except for the executions. *)
Reset ==
    /\ loaded' = FALSE /\ loading' = FALSE
    /\ status' = "not-loaded"
    /\ gridShown' = FALSE
    /\ views' = {}
    /\ Cross
    /\ UNCHANGED refreshShown

(* renderAuth resets the launcher when the device becomes authenticated and  *)
(* when it no longer is.                                                     *)
Authenticated(now) ==
    /\ shown = ~now /\ shown' = now
    /\ Reset
    /\ due' = due \ views
    /\ executions' = AllIdle
    /\ UNCHANGED <<loads, face, running, reload>>

SignIn == Authenticated(TRUE)
SignOut == Authenticated(FALSE)

-----------------------------------------------------------------------------
(* The catalogue. *)

BeginLoad ==
    /\ ~loading
    /\ loads < MaxLoads
    /\ loading' = TRUE
    /\ status' = "loading"
    /\ gridShown' = FALSE /\ refreshShown' = FALSE
    /\ loads' = loads + 1
    /\ UNCHANGED <<loaded, views>>

(* The Apps and Sistema tabs load what is not loaded yet. *)
OpenTab ==
    /\ shown /\ ~loaded
    /\ BeginLoad
    /\ UNCHANGED <<shown, face, executions, running, due, reload, crossed>>

Refresh ==
    /\ shown /\ refreshShown
    /\ BeginLoad
    /\ UNCHANGED <<shown, face, executions, running, due, reload, crossed>>

(* The timer set for an action the server did not find. It was set right     *)
(* after the view's other timer with the same delay and runs after it.       *)
ReloadTimer(v) ==
    /\ v \in reload /\ v \notin due
    /\ reload' = reload \ {v}
    /\ IF loading THEN UNCHANGED <<catalogVars, loads, views>> ELSE BeginLoad
    /\ UNCHANGED <<shown, face, executions, running, due, crossed>>

(* Mutant: no finally. *)
LoadEndsBusy ==
    /\ loads > 0
    /\ loads' = loads - 1
    /\ UNCHANGED loading

LoadEnds ==
    /\ loads > 0
    /\ loads' = loads - 1
    /\ loading' = FALSE

Unreferenced(n) == \A v \in views \cup running \cup due \cup reload : v.rendering # n

(* renderActions: the old views lose their timers, the new ones are idle.    *)
RenderActions ==
    /\ LoadEnds
    /\ loaded' = TRUE
    /\ refreshShown' = TRUE
    /\ \E offered \in SUBSET Actions, n \in Renderings :
         /\ Unreferenced(n)
         /\ views' = [action : offered, rendering : {n}]
         /\ gridShown' = (offered # {})
         /\ status' = IF offered = {} THEN "empty" ELSE "available"
         /\ face' = [v \in Views |-> IF v.rendering = n THEN "idle" ELSE face[v]]
    /\ due' = due \ views
    /\ UNCHANGED <<shown, executions, running, reload, crossed>>

(* renderError: the views leave the page and stay in actionViews.            *)
RenderError(kind) ==
    /\ LoadEnds
    /\ status' = kind
    /\ gridShown' = FALSE /\ refreshShown' = TRUE
    /\ UNCHANGED <<shown, loaded, views, face, executions, running, due, reload, crossed>>

(* authenticatedFetch hides the page on a 401 and on a network failure, and  *)
(* only then does the promise of load() end.                                 *)
LoadExpelled(kind) ==
    /\ loads > 0 /\ loads' = loads - 1
    /\ shown' = FALSE
    /\ loading' = FALSE /\ gridShown' = FALSE
    /\ status' = IF kind = "offline" THEN "offline" ELSE IF shown THEN "not-loaded" ELSE status
    /\ refreshShown' = (refreshShown \/ kind = "offline")
    /\ IF shown
          THEN loaded' = FALSE /\ views' = {} /\ due' = due \ views /\ executions' = AllIdle /\ Cross
          ELSE UNCHANGED <<loaded, views, due, executions, crossed>>
    /\ UNCHANGED <<face, running, reload>>

-----------------------------------------------------------------------------
(* The actions. *)

(* Mutant: the view's own state is all that is asked. *)
ClickUnguarded(v) ==
    /\ shown /\ gridShown
    /\ v \in views /\ face[v] = "idle"
    /\ executions' = [executions EXCEPT ![v.action] = "executing"]
    /\ face' = [face EXCEPT ![v] = "executing"]
    /\ due' = due \ {v}
    /\ running' = running \cup {v}
    /\ UNCHANGED <<shown, catalogVars, loads, views, reload, crossed>>

Click(v) ==
    /\ shown /\ gridShown
    /\ v \in views /\ face[v] = "idle"
    /\ executions[v.action] = "idle"
    /\ executions' = [executions EXCEPT ![v.action] = "executing"]
    /\ face' = [face EXCEPT ![v] = "executing"]
    /\ due' = due \ {v}
    /\ running' = running \cup {v}
    /\ UNCHANGED <<shown, catalogVars, loads, views, reload, crossed>>

(* setExecutionState, but for the timer. *)
Feedback(v, before, state) ==
    /\ executions' = [before EXCEPT ![v.action] = state]
    /\ face' = [face EXCEPT ![v] = state]

(* Mutant: setExecutionState comes after scheduleIdle and stops the timer. *)
RunAnsweredUntimed(v, state) ==
    /\ v \in running /\ running' = running \ {v}
    /\ Feedback(v, executions, state)
    /\ UNCHANGED <<shown, catalogVars, loads, views, due, reload, crossed>>

(* The answer is that the action started, that it did not, or that it is     *)
(* unknown, which also loads the catalogue again later.                      *)
RunAnswered(v, state) ==
    /\ v \in running /\ running' = running \ {v}
    /\ Feedback(v, executions, state)
    /\ due' = due \cup {v}
    /\ \/ UNCHANGED reload
       \/ state = "error" /\ reload' = reload \cup {v}
    /\ UNCHANGED <<shown, catalogVars, loads, views, crossed>>

(* The request fails or times out: the launcher is reset before the error is *)
(* displayed.                                                                *)
RunOffline(v) ==
    /\ v \in running /\ running' = running \ {v}
    /\ shown' = FALSE
    /\ IF shown
          THEN Reset /\ Feedback(v, AllIdle, "error") /\ due' = (due \ views) \cup {v}
          ELSE /\ Feedback(v, executions, "error") /\ due' = due \cup {v}
               /\ UNCHANGED <<catalogVars, views, crossed>>
    /\ UNCHANGED <<loads, reload>>

RunUnauthorized(v) ==
    /\ v \in running
    /\ running' = running \ {v}
    /\ shown' = FALSE
    /\ IF shown
          THEN Reset /\ due' = due \ views /\ executions' = AllIdle
          ELSE UNCHANGED <<catalogVars, views, due, executions, crossed>>
    /\ UNCHANGED <<loads, face, reload>>

IdleTimer(v) ==
    /\ v \in due
    /\ due' = due \ {v}
    /\ Feedback(v, executions, "idle")
    /\ UNCHANGED <<shown, catalogVars, loads, views, running, reload, crossed>>

-----------------------------------------------------------------------------
CatalogueEnds ==
    \/ RenderActions
    \/ \E kind \in {"unavailable", "error"} : RenderError(kind)
    \/ \E kind \in {"unauthorized", "offline"} : LoadExpelled(kind)

RunEnds(v) ==
    \/ \E state \in {"success", "error"} : RunAnswered(v, state)
    \/ RunOffline(v)
    \/ RunUnauthorized(v)

LauncherNext ==
    \/ SignIn \/ SignOut
    \/ OpenTab \/ Refresh
    \/ CatalogueEnds
    \/ \E v \in Views : Click(v) \/ RunEnds(v) \/ IdleTimer(v) \/ ReloadTimer(v)

LauncherSpec == LauncherInit /\ [][LauncherNext]_launcherVars

-----------------------------------------------------------------------------
(* A button that displays a request has one in flight, and one that displays *)
(* a result has the timer that takes it back: no order of answers, timers,   *)
(* renderings and resets loses it (apps-launcher.js 103-144).                *)
FeedbackIsTimed ==
    \A v \in views :
        /\ face[v] = "executing" => v \in running
        /\ face[v] \in {"success", "error"} => v \in due

(* The flag that turns every load away is only up while a request is in      *)
(* flight that will take it down, although reset() takes it down early and   *)
(* the requests of several sessions overlap (apps-launcher.js 35-60).        *)
LoadingEnds == loading => loads > 0

(* web/README.md 53: a second tap is blocked while the request lasts, for as  *)
(* long as no request or timer of the action outlives a reset: reset()        *)
(* forgets the execution, and what outlives it writes into the next one's.    *)
OneRequest ==
    \A v, w \in running : v.action = w.action /\ v.action \notin crossed => v = w

(* web/README.md 53: the feedback returns to its normal state by itself.  An *)
(* action that is neither idle nor executing has a timer that will make it   *)
(* idle; without one it ignores every tap from then on.                      *)
FeedbackReturns ==
    \A a \in Actions :
        executions[a] \in {"success", "error"} => \E v \in due : v.action = a
=============================================================================
