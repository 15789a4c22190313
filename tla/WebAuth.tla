------------------------------- MODULE WebAuth -------------------------------
(***************************************************************************)
(* Signing in on the web client: js/state/auth.js, the services            *)
(* auth-bootstrap.js, authenticated-fetch.js and pairing.js, the pairing   *)
(* view (js/components/pairing-view.js) and renderAuth of js/app.js.       *)
(*                                                                         *)
(* A page runs on one thread, but each of its requests ends in a callback  *)
(* that may come late, after the page or another page of the same browser  *)
(* has lost its token or stored a new one.  The token is in localStorage,  *)
(* which the pages share; all else dies when a page is closed or loaded    *)
(* again.  The Agent may revoke a device at any time.                      *)
(*                                                                         *)
(* A token stands for the device it was minted for.  Names, codes, texts   *)
(* and the time on the countdown are left out.                             *)
(***************************************************************************)
EXTENDS Naturals

CONSTANTS Pages,        \* pages of one browser that show PCPanel
          Tokens,       \* tokens the Agent may mint
          Calls,        \* bound of the model: authenticated requests in flight
          NoToken,
          NoCall

ASSUME NoTokenAssumption == NoToken \notin Tokens

VARIABLES stored,       \* localStorage["pcpanel.deviceToken"]
          honoured,     \* tokens of devices that the Agent authorizes
          minted,       \* tokens ever minted
          page,         \* authentication state and pairing view of each page
          pairCall,     \* the pairing request of each page
          calls         \* authenticated requests in flight

vars == <<stored, honoured, minted, page, pairCall, calls>>

(* form: which form is displayed; pairing: the variable of that name is not  *)
(* null; countdown: there is a handle in countdownTimer; ticking: intervals  *)
(* that run.                                                                 *)
Page == [status : {"closed", "checking", "unpaired", "authenticated", "offline"},
         form : {"name", "code"}, pairing : BOOLEAN, busy : BOOLEAN,
         countdown : BOOLEAN, ticking : Nat]

Call == [page : Pages, kind : {"status", "other"}, token : Tokens \cup {NoToken}, pays : BOOLEAN,
         body : BOOLEAN]

ASSUME NoCallAssumption == NoCall \notin Call

TypeOK ==
    /\ stored \in Tokens \cup {NoToken}
    /\ honoured \subseteq minted /\ minted \subseteq Tokens
    /\ page \in [Pages -> Page]
    /\ pairCall \in [Pages -> {"none", "start", "complete"}]
    /\ calls \in [Calls -> Call \cup {NoCall}]

Closed == [status |-> "closed", form |-> "name", pairing |-> FALSE, busy |-> FALSE,
           countdown |-> FALSE, ticking |-> 0]

Init ==
    /\ stored = NoToken
    /\ honoured = {} /\ minted = {}
    /\ page = [p \in Pages |-> Closed]
    /\ pairCall = [p \in Pages |-> "none"]
    /\ calls = [c \in Calls |-> NoCall]

-----------------------------------------------------------------------------
(* What the functions of the pairing view and of auth.js make of a page. *)

(* Mutant: the interval goes on. *)
ForgetPairing(g) == [g EXCEPT !.pairing = FALSE, !.countdown = FALSE]

ClearTransientState(g) ==
    [g EXCEPT !.pairing = FALSE, !.countdown = FALSE,
              !.ticking = IF g.countdown THEN g.ticking - 1 ELSE g.ticking]

ShowNameStep(g) == [ClearTransientState(g) EXCEPT !.form = "name"]

ShowCodeStep(g) == [g EXCEPT !.form = "code", !.countdown = TRUE, !.ticking = @ + 1]

(* update() and renderAuth(): the view is reset on the way into "unpaired".  *)
Update(g, status) ==
    IF status = "unpaired" /\ g.status # "unpaired"
       THEN [ShowNameStep(g) EXCEPT !.status = status]
       ELSE [g EXCEPT !.status = status]

Idle(g) == [g EXCEPT !.busy = FALSE]

(* A request is sent with the token that is stored at the time.              *)
Send(p, kind, token, pays) ==
    \E c \in Calls :
        /\ calls[c] = NoCall
        /\ calls' = [calls EXCEPT ![c] = [page |-> p, kind |-> kind, token |-> token,
                                          pays |-> pays, body |-> FALSE]]

(* bootstrapAuthentication: of page p, which is in state g by now.           *)
Bootstrap(p, g, token, pays) ==
    IF token = NoToken
       THEN page' = [page EXCEPT ![p] = Update(g, "unpaired")] /\ UNCHANGED calls
       ELSE page' = [page EXCEPT ![p] = Update(g, "checking")] /\ Send(p, "status", token, pays)

-----------------------------------------------------------------------------
(* The page and its user. *)

OpenPage(p) ==
    /\ page[p].status = "closed"
    /\ Bootstrap(p, [Closed EXCEPT !.status = "checking"], stored, FALSE)
    /\ UNCHANGED <<stored, honoured, minted, pairCall>>

ClosePage(p) ==
    /\ page[p].status # "closed"
    /\ page' = [page EXCEPT ![p] = Closed]
    /\ pairCall' = [pairCall EXCEPT ![p] = "none"]
    /\ calls' = [c \in Calls |-> IF calls[c] # NoCall /\ calls[c].page = p THEN NoCall ELSE calls[c]]
    /\ UNCHANGED <<stored, honoured, minted>>

(* The button that is shown when the page is offline. *)
Retry(p) ==
    /\ page[p].status = "offline"
    /\ Bootstrap(p, page[p], stored, FALSE)
    /\ UNCHANGED <<stored, honoured, minted, pairCall>>

(* The launcher loads its catalogue or starts an action. *)
UseDashboard(p) ==
    /\ page[p].status = "authenticated"
    /\ Send(p, "other", stored, FALSE)
    /\ UNCHANGED <<stored, honoured, minted, page, pairCall>>

Revoke(k) ==
    /\ honoured' = honoured \ {k}
    /\ UNCHANGED <<stored, minted, page, pairCall, calls>>

-----------------------------------------------------------------------------
(* Authenticated requests.  A token that the Agent refuses is refused for    *)
(* ever after, so it may be taken to judge a request when its answer comes;  *)
(* only what it accepted must be kept, until the body has been read.         *)

Sent(c) == calls[c] # NoCall /\ ~calls[c].body

(* The request is over, for its page and for the pairing that waited for it. *)
Finish(c, g) ==
    /\ page' = [page EXCEPT ![calls[c].page] = IF calls[c].pays THEN Idle(g) ELSE g]
    /\ calls' = [calls EXCEPT ![c] = NoCall]

Caller(c) == page[calls[c].page]

(* 401: the token that is stored now is removed, whichever was sent. *)
Refused(c) ==
    /\ Sent(c) /\ calls[c].token \notin honoured
    /\ stored' = NoToken
    /\ Finish(c, Update(Caller(c), "unpaired"))
    /\ UNCHANGED <<honoured, minted, pairCall>>

(* 200: only a status check is interested in the body. *)
Accepted(c) ==
    /\ Sent(c) /\ calls[c].token \in honoured
    /\ IF calls[c].kind = "status"
          THEN calls' = [calls EXCEPT ![c].body = TRUE] /\ UNCHANGED page
          ELSE Finish(c, Caller(c))
    /\ UNCHANGED <<stored, honoured, minted, pairCall>>

(* Mutant: an error of the server is left to somebody else. *)
BrokenIgnored(c) ==
    /\ Sent(c)
    /\ Finish(c, Caller(c))
    /\ UNCHANGED <<stored, honoured, minted, pairCall>>

(* Any other answer. *)
Broken(c) ==
    /\ Sent(c)
    /\ Finish(c, IF calls[c].kind = "status" THEN Update(Caller(c), "offline") ELSE Caller(c))
    /\ UNCHANGED <<stored, honoured, minted, pairCall>>

ReadBody(c) ==
    /\ calls[c] # NoCall /\ calls[c].body
    /\ \E status \in {"authenticated", "offline"} : Finish(c, Update(Caller(c), status))
    /\ UNCHANGED <<stored, honoured, minted, pairCall>>

(* Mutant: a failure drops the credential as well. *)
FailAndForget(c) ==
    /\ Sent(c)
    /\ stored' = NoToken
    /\ Finish(c, Update(Caller(c), "offline"))
    /\ UNCHANGED <<honoured, minted, pairCall>>

(* The network fails, or no headers come within five seconds. *)
Fail(c) ==
    /\ Sent(c)
    /\ Finish(c, IF calls[c].token # NoToken THEN Update(Caller(c), "offline") ELSE Caller(c))
    /\ UNCHANGED <<stored, honoured, minted, pairCall>>

-----------------------------------------------------------------------------
(* The pairing view. *)

SubmitName(p) ==
    /\ page[p].status = "unpaired" /\ page[p].form = "name" /\ ~page[p].busy
    /\ page' = [page EXCEPT ![p].busy = TRUE, ![p].pairing = FALSE]
    /\ pairCall' = [pairCall EXCEPT ![p] = "start"]
    /\ UNCHANGED <<stored, honoured, minted, calls>>

NameAnswered(p) ==
    /\ pairCall[p] = "start"
    /\ \/ page' = [page EXCEPT ![p] = Idle(ShowCodeStep([page[p] EXCEPT !.pairing = TRUE]))]
       \/ page' = [page EXCEPT ![p] = Idle(page[p])]
    /\ pairCall' = [pairCall EXCEPT ![p] = "none"]
    /\ UNCHANGED <<stored, honoured, minted, calls>>

SubmitCode(p) ==
    /\ page[p].status = "unpaired" /\ page[p].form = "code" /\ ~page[p].busy /\ page[p].pairing
    /\ page' = [page EXCEPT ![p].busy = TRUE]
    /\ pairCall' = [pairCall EXCEPT ![p] = "complete"]
    /\ UNCHANGED <<stored, honoured, minted, calls>>

(* The code was right: the token is stored and validated in one go, and the  *)
(* form stays busy until the validation is over.                             *)
CodeAccepted(p, k) ==
    /\ pairCall[p] = "complete"
    /\ k \notin minted
    /\ minted' = minted \cup {k}
    /\ honoured' = honoured \cup {k}
    /\ stored' = k
    /\ pairCall' = [pairCall EXCEPT ![p] = "none"]
    /\ Bootstrap(p, ClearTransientState(page[p]), k, TRUE)

(* Expired, exhausted or used: back to the name. Other errors, an answer     *)
(* that is lost or a token that cannot be stored: the code may be tried again. *)
CodeRejected(p) ==
    /\ pairCall[p] = "complete"
    /\ \E g \in {ShowNameStep(page[p]), page[p]} : page' = [page EXCEPT ![p] = Idle(g)]
    /\ pairCall' = [pairCall EXCEPT ![p] = "none"]
    /\ UNCHANGED <<stored, honoured, minted, calls>>

GoBack(p) ==
    /\ page[p].status = "unpaired" /\ page[p].form = "code" /\ ~page[p].busy
    /\ page' = [page EXCEPT ![p] = ShowNameStep(page[p])]
    /\ UNCHANGED <<stored, honoured, minted, pairCall, calls>>

-----------------------------------------------------------------------------
Settle(c) == Refused(c) \/ Accepted(c) \/ Broken(c) \/ ReadBody(c) \/ Fail(c)
AnswerPairing(p) == NameAnswered(p) \/ CodeRejected(p) \/ \E k \in Tokens : CodeAccepted(p, k)

Next ==
    \/ \E c \in Calls : Settle(c)
    \/ \E p \in Pages : AnswerPairing(p)
    \/ \E p \in Pages : OpenPage(p) \/ ClosePage(p) \/ Retry(p) \/ UseDashboard(p)
    \/ \E p \in Pages : SubmitName(p) \/ SubmitCode(p) \/ GoBack(p)
    \/ \E k \in honoured : Revoke(k)

Spec == Init /\ [][Next]_vars

(* The browser ends every request, with an answer or an error; users and the *)
(* Agent owe nothing.                                                        *)
FairSpec ==
    /\ Spec
    /\ \A c \in Calls : WF_vars(Settle(c))
    /\ \A p \in Pages : WF_vars(AnswerPairing(p))

-----------------------------------------------------------------------------
(* A token the Agent honours gets lost, with no other in its place, only     *)
(* through a 401 for a request that was sent with another token; and a page  *)
(* that becomes offline, and says "sua credencial foi mantida" (app.js:84),  *)
(* still has a token unless the request that failed was sent with one that   *)
(* is gone (web/README.md:47, authenticated-fetch.js).                       *)
CredentialKept ==
    [][/\ stored \in honoured /\ stored' = NoToken
             => \E c \in Calls : calls[c] # NoCall /\ calls'[c] = NoCall /\ calls[c].token # stored
       /\ \A p \in Pages :
             page[p].status # "offline" /\ page'[p].status = "offline" /\ stored' = NoToken
                => \E c \in Calls : calls[c] # NoCall /\ calls'[c] = NoCall /\ calls[c].token \in Tokens]_vars

(* Whatever came late, a page that asks for a pairing shows a form that can  *)
(* be used now or once the request it waits for is over, and the countdown   *)
(* runs once, exactly while there is a pairing.                              *)
PairingViewUsable ==
    \A p \in Pages : LET g == page[p] IN
        /\ g.status = "unpaired" /\ g.form = "code" => g.pairing
        /\ g.ticking = (IF g.pairing THEN 1 ELSE 0)
        /\ g.countdown <=> g.pairing
        /\ g.busy => pairCall[p] # "none" \/ \E c \in Calls : calls[c] # NoCall /\ calls[c].page = p /\ calls[c].pays

(* A page is "checking" only while one of its status checks is in flight,    *)
(* whatever other requests, other pages and resets do meanwhile: what the    *)
(* page waits for can still come (auth-bootstrap.js 17-38).                  *)
ChecksAreServed ==
    \A p \in Pages :
        page[p].status = "checking"
            => \E c \in Calls : calls[c] # NoCall /\ calls[c].page = p /\ calls[c].kind = "status"

(* A page does not go on "checking", nor a form busy, for ever.              *)
WaitsEnd ==
    \A p \in Pages : /\ page[p].status = "checking" ~> page[p].status # "checking"
                     /\ page[p].busy ~> ~page[p].busy
=============================================================================
