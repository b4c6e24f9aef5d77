------------------------------- MODULE Login -------------------------------
(***************************************************************************)
(* Sign-in, step-up and sign-out of one browser: plugin/auth/endpoints.go  *)
(* over contrib/oauth, contrib/oidc and the ceremony store of authstate.   *)
(*                                                                         *)
(* The browser has several tabs, so requests of different kinds are in     *)
(* flight together; a request carries the cookies the browser held when it *)
(* was sent, and a response changes them when it arrives.  The browser has *)
(* one transaction cookie, which the tabs overwrite.  The provider keeps a *)
(* single sign-on session of its own and answers from it, silently, an     *)
(* authorization request that does not ask for a prompt.                   *)
(*                                                                         *)
(* The session store is the one of Session.tla, reduced to which tokens    *)
(* live and for which account.                                             *)
(***************************************************************************)
EXTENDS Integers, FiniteSets

CONSTANTS
    Requests,     \* requests of the browser that may be in flight
    Accounts,     \* accounts the provider knows and admission resolves
    None,         \* no cookie, no account, no transaction
    Keep,         \* a response that leaves a cookie alone
    MaxTxns,      \* bound on authorization requests begun
    MaxSessions,  \* bound on sessions established
    MaxLogouts    \* bound on sign-outs

Txns == 1 .. MaxTxns
SessionIds == 1 .. MaxSessions

ASSUME LoginAssumption ==
    /\ MaxTxns \in Nat /\ MaxSessions \in Nat /\ MaxLogouts \in Nat
    /\ None \notin Accounts /\ None \notin Txns /\ None \notin SessionIds
    /\ Keep \notin Txns /\ Keep \notin SessionIds /\ Keep \notin BOOLEAN /\ Keep # None

VARIABLES
    browser,     \* the cookies: session token, transaction, reconfirm mark
    live,        \* the server's session records: the account of each token
    ceremonies,  \* transactions the ceremony store holds
    asked,       \* the authorization requests and what the provider answered
    sso,         \* whom the provider's own session names
    req,         \* the state of each request
    begun, established, logouts,
    wary,        \* history: a reconfirm logout that no sign-in has followed yet
    proofs       \* history: the transaction each session was established by

counters == <<begun, established, logouts>>
vars == <<browser, live, ceremonies, asked, sso, req, counters, wary, proofs>>

-----------------------------------------------------------------------------
Unasked ==
    [stage |-> "new", stepUp |-> FALSE, prompt |-> FALSE, account |-> None,
     silent |-> FALSE, wary |-> FALSE]
NoCookies == [token |-> None, txn |-> None, mark |-> FALSE]
Quiet == [token |-> Keep, txn |-> Keep, mark |-> Keep]
Idle == [kind |-> "none", pc |-> "idle", cookies |-> NoCookies, state |-> None,
         view |-> None, out |-> Quiet, wary |-> FALSE]

Init ==
    /\ browser = NoCookies
    /\ live = [s \in SessionIds |-> None]
    /\ ceremonies = {}
    /\ asked = [t \in Txns |-> Unasked]
    /\ sso = None
    /\ req = [r \in Requests |-> Idle]
    /\ begun = 0 /\ established = 0 /\ logouts = 0
    /\ wary = FALSE
    /\ proofs = [s \in SessionIds |-> None]

Become(r, q) == req' = [req EXCEPT ![r] = q]
Responds(r, out) == Become(r, [req[r] EXCEPT !.pc = "respond", !.out = out])

\* Session: whom a token signs in, None when it names no live record.
SignedIn(token) == IF token = None THEN None ELSE live[token]

-----------------------------------------------------------------------------
(* The browser and the provider.                                           *)

\* A tab asks for the login path, as a step-up or not, or for the logout path.
Ask(r, kind) ==
    /\ req[r].pc = "idle"
    /\ kind = "logout" => logouts < MaxLogouts
    /\ logouts' = IF kind = "logout" THEN logouts + 1 ELSE logouts
    /\ Become(r, [Idle EXCEPT !.kind = kind, !.pc = "sent", !.cookies = browser,
                              !.wary = wary])
    /\ UNCHANGED <<browser, live, ceremonies, asked, sso, begun, established, wary, proofs>>

\* The provider answers an authorization request: silently from its own session,
\* or after asking somebody, who may be anybody it knows, or with an error.
ProviderAnswers(t) ==
    /\ asked[t].stage = "asked"
    /\ \/ /\ sso # None /\ ~asked[t].prompt
          /\ asked' = [asked EXCEPT ![t].stage = "answered", ![t].account = sso,
                                    ![t].silent = TRUE]
          /\ UNCHANGED sso
       \/ /\ sso = None \/ asked[t].prompt
          /\ \E a \in Accounts :
                /\ asked' = [asked EXCEPT ![t].stage = "answered", ![t].account = a]
                /\ sso' = a
       \/ /\ asked' = [asked EXCEPT ![t].stage = "answered", ![t].account = None]
          /\ UNCHANGED sso
    /\ UNCHANGED <<browser, live, ceremonies, req, counters, wary, proofs>>

\* The redirect back reaches the callback path; a reload sends it again.
Callback(r, t) ==
    /\ req[r].pc = "idle"
    /\ asked[t].stage = "answered"
    /\ Become(r, [Idle EXCEPT !.kind = "callback", !.pc = "sent", !.cookies = browser,
                              !.state = t])
    /\ UNCHANGED <<browser, live, ceremonies, asked, sso, counters, wary, proofs>>

-----------------------------------------------------------------------------
(* handleLogin.                                                            *)

\* An authenticated browser that did not ask for a step-up goes to its landing
\* page.
LoginShortcut(r) ==
    /\ req[r].pc = "sent" /\ req[r].kind = "login"
    /\ SignedIn(req[r].cookies.token) # None
    /\ Responds(r, Quiet)
    /\ UNCHANGED <<browser, live, ceremonies, asked, sso, counters, wary, proofs>>

\* Mutant: the mark is spent by the request that reads it.
BeginsSpending(r, stepUp) ==
    LET t == begun + 1
        marked == req[r].cookies.mark
    IN  /\ begun < MaxTxns /\ begun' = t
        /\ ceremonies' = ceremonies \cup {t}
        /\ asked' = [asked EXCEPT ![t] =
                [Unasked EXCEPT !.stage = "asked", !.stepUp = stepUp,
                                !.prompt = stepUp \/ marked, !.wary = req[r].wary]]
        /\ Responds(r, [Quiet EXCEPT !.txn = t, !.mark = FALSE])

\* BeginAuthorization: a transaction goes into the ceremony store, its key into
\* the cookie and its state into the URL.  A step-up and a pending mark ask the
\* provider for a prompt.
Begins(r, stepUp) ==
    LET t == begun + 1
        marked == req[r].cookies.mark
    IN  /\ begun < MaxTxns /\ begun' = t
        /\ ceremonies' = ceremonies \cup {t}
        /\ asked' = [asked EXCEPT ![t] =
                [Unasked EXCEPT !.stage = "asked", !.stepUp = stepUp,
                                !.prompt = stepUp \/ marked, !.wary = req[r].wary]]
        /\ Responds(r, [Quiet EXCEPT !.txn = t])

\* pendingStepUp: a step-up of a browser that is not signed in is a login.
LoginBegins(r) ==
    LET signedIn == SignedIn(req[r].cookies.token) # None IN
    /\ req[r].pc = "sent" /\ req[r].kind \in {"login", "stepup"}
    /\ req[r].kind = "login" => ~signedIn
    /\ Begins(r, req[r].kind = "stepup" /\ signedIn)
    /\ UNCHANGED <<browser, live, sso, established, logouts, wary, proofs>>

\* Discovery or the ceremony store fails.
LoginFails(r) ==
    /\ req[r].pc = "sent" /\ req[r].kind \in {"login", "stepup"}
    /\ Responds(r, Quiet)
    /\ UNCHANGED <<browser, live, ceremonies, asked, sso, counters, wary, proofs>>

-----------------------------------------------------------------------------
(* handleCallback.  The cookie names the transaction and whether it is a   *)
(* step-up; every way out expires it.                                      *)

TxnCookie(r) == req[r].cookies.txn
Spent == [Quiet EXCEPT !.txn = None]

\* No cookie, or the provider reports an error: the ceremony is left to expire.
CallbackRejected(r) ==
    /\ req[r].pc = "sent" /\ req[r].kind = "callback"
    /\ TxnCookie(r) = None \/ asked[req[r].state].account = None
    /\ Responds(r, Spent)
    /\ UNCHANGED <<browser, live, ceremonies, asked, sso, counters, wary, proofs>>

\* Mutant: the ceremony stays in the store until the exchange has succeeded.
TakesPeeking(r) ==
    /\ req[r].pc = "sent" /\ req[r].kind = "callback"
    /\ TxnCookie(r) # None /\ asked[req[r].state].account # None
    /\ UNCHANGED ceremonies
    /\ IF TxnCookie(r) \in ceremonies /\ TxnCookie(r) = req[r].state
       THEN Become(r, [req[r] EXCEPT !.pc = "exchange",
                                     !.view = SignedIn(req[r].cookies.token)])
       ELSE Responds(r, Spent)

\* Take: the ceremony leaves the store whether or not its state matches; if it
\* was there and the state matches, the code is exchanged.  The session has been
\* read by then.
Takes(r) ==
    /\ req[r].pc = "sent" /\ req[r].kind = "callback"
    /\ TxnCookie(r) # None /\ asked[req[r].state].account # None
    /\ ceremonies' = ceremonies \ {TxnCookie(r)}
    /\ IF TxnCookie(r) \in ceremonies /\ TxnCookie(r) = req[r].state
       THEN Become(r, [req[r] EXCEPT !.pc = "exchange",
                                     !.view = SignedIn(req[r].cookies.token)])
       ELSE Responds(r, Spent)

CallbackTakes(r) ==
    /\ Takes(r)
    /\ UNCHANGED <<browser, live, asked, sso, counters, wary, proofs>>

\* The token endpoint refuses, or the ID token or the admission fails.
ExchangeFails(r) ==
    /\ req[r].pc = "exchange"
    /\ Responds(r, Spent)
    /\ UNCHANGED <<browser, live, ceremonies, asked, sso, counters, wary, proofs>>

\* establish: the record the request came with is revoked, whether or not it
\* still lives, and one under a new token takes its place.
Establishes(r, account, out) ==
    LET s == established + 1
        old == req[r].cookies.token
    IN  /\ established < MaxSessions /\ established' = s
        /\ live' = [i \in SessionIds |->
                IF i = s THEN account ELSE IF i = old THEN None ELSE live[i]]
        /\ proofs' = [proofs EXCEPT ![s] = TxnCookie(r)]
        /\ Responds(r, [out EXCEPT !.token = s])

\* A sign-in, which also expires the reconfirm mark.
SignInCompletes(r) ==
    /\ req[r].pc = "exchange" /\ ~asked[TxnCookie(r)].stepUp
    /\ Establishes(r, asked[TxnCookie(r)].account, [Spent EXCEPT !.mark = FALSE])
    /\ UNCHANGED <<browser, ceremonies, asked, sso, begun, logouts, wary>>

\* Mutant: any successful login completes a step-up.
SameIdentityNot(r) == req[r].view # None

\* completeStepUp asks for a session, and for its identity.
SameIdentity(r) == req[r].view # None /\ asked[TxnCookie(r)].account = req[r].view

\* completeStepUp: the session the request read goes on under a new token.
StepUpCompletes(r) ==
    /\ req[r].pc = "exchange" /\ asked[TxnCookie(r)].stepUp
    /\ SameIdentity(r)
    /\ Establishes(r, req[r].view, Spent)
    /\ UNCHANGED <<browser, ceremonies, asked, sso, begun, logouts, wary>>

StepUpRefused(r) ==
    /\ req[r].pc = "exchange" /\ asked[TxnCookie(r)].stepUp
    /\ ~SameIdentity(r)
    /\ Responds(r, Spent)
    /\ UNCHANGED <<browser, live, ceremonies, asked, sso, counters, wary, proofs>>

-----------------------------------------------------------------------------
(* handleLogout, and responses.                                            *)

\* endSession, and then the mark; a global logout sends the browser to the
\* provider instead.
LogoutHandled(r, global) ==
    LET old == req[r].cookies.token IN
    /\ req[r].pc = "sent" /\ req[r].kind = "logout"
    /\ live' = [s \in SessionIds |-> IF s = old THEN None ELSE live[s]]
    /\ Responds(r, [Quiet EXCEPT !.token = None, !.mark = IF global THEN Keep ELSE TRUE])
    /\ UNCHANGED <<browser, ceremonies, asked, sso, counters, wary, proofs>>

Applied(old, new) == IF new = Keep THEN old ELSE new

\* The response reaches the browser.  A reconfirm logout that arrives makes it
\* wary, a completed sign-in ends that, and a global logout may reach the
\* provider's end session endpoint.
Arrives(r) ==
    LET out == req[r].out IN
    /\ req[r].pc = "respond"
    /\ browser' = [token |-> Applied(browser.token, out.token),
                   txn |-> Applied(browser.txn, out.txn),
                   mark |-> Applied(browser.mark, out.mark)]
    /\ wary' = CASE req[r].kind = "logout" /\ out.mark = TRUE -> TRUE
                 [] req[r].kind = "callback" /\ out.mark = FALSE -> FALSE
                 [] OTHER -> wary
    /\ sso' \in IF req[r].kind = "logout" /\ out.mark = Keep THEN {sso, None} ELSE {sso}
    /\ Become(r, Idle)
    /\ UNCHANGED <<live, ceremonies, asked, counters, proofs>>

\* The response is lost: the tab was closed, or the connection.
Lost(r) ==
    /\ req[r].pc = "respond"
    /\ Become(r, Idle)
    /\ UNCHANGED <<browser, live, ceremonies, asked, sso, counters, wary, proofs>>

\* The browser drops the transaction cookie, or the mark, which lasts an hour.
CookieExpires ==
    /\ \/ browser' = [browser EXCEPT !.txn = None] /\ UNCHANGED wary
       \/ browser' = [browser EXCEPT !.mark = FALSE] /\ wary' = FALSE
    /\ UNCHANGED <<live, ceremonies, asked, sso, req, counters, proofs>>

\* A ceremony reaches its expiry, and a session its own.
CeremonyExpires(t) ==
    /\ t \in ceremonies
    /\ ceremonies' = ceremonies \ {t}
    /\ UNCHANGED <<browser, live, asked, sso, req, counters, wary, proofs>>

SessionExpires(s) ==
    /\ live[s] # None
    /\ live' = [live EXCEPT ![s] = None]
    /\ UNCHANGED <<browser, ceremonies, asked, sso, req, counters, wary, proofs>>

Next ==
    \/ \E r \in Requests :
          \/ \E kind \in {"login", "stepup", "logout"} : Ask(r, kind)
          \/ \E t \in Txns : Callback(r, t)
          \/ LoginShortcut(r) \/ LoginBegins(r) \/ LoginFails(r)
          \/ CallbackRejected(r) \/ CallbackTakes(r) \/ ExchangeFails(r)
          \/ SignInCompletes(r) \/ StepUpCompletes(r) \/ StepUpRefused(r)
          \/ \E global \in BOOLEAN : LogoutHandled(r, global)
          \/ Arrives(r) \/ Lost(r)
    \/ CookieExpires
    \/ \E t \in Txns : ProviderAnswers(t) \/ CeremonyExpires(t)
    \/ \E s \in SessionIds : SessionExpires(s)

Spec == Init /\ [][Next]_vars

-----------------------------------------------------------------------------
(* Properties.                                                             *)

Cookies == [token : SessionIds \cup {None}, txn : Txns \cup {None}, mark : BOOLEAN]
Headers == [token : SessionIds \cup {None, Keep}, txn : Txns \cup {None, Keep},
            mark : BOOLEAN \cup {Keep}]
Authorizations ==
    [stage : {"new", "asked", "answered"}, stepUp : BOOLEAN, prompt : BOOLEAN,
     account : Accounts \cup {None}, silent : BOOLEAN, wary : BOOLEAN]
RequestRecords ==
    [kind : {"none", "login", "stepup", "callback", "logout"},
     pc : {"idle", "sent", "exchange", "respond"}, cookies : Cookies,
     state : Txns \cup {None}, view : Accounts \cup {None}, out : Headers, wary : BOOLEAN]

\* Every variable stays in its type, and a callback that exchanges a code has
\* taken its ceremony out of the store.
TypeOK ==
    /\ browser \in Cookies
    /\ live \in [SessionIds -> Accounts \cup {None}]
    /\ ceremonies \subseteq 1 .. begun
    /\ asked \in [Txns -> Authorizations]
    /\ sso \in Accounts \cup {None}
    /\ req \in [Requests -> RequestRecords]
    /\ begun \in 0 .. MaxTxns /\ established \in 0 .. MaxSessions
    /\ logouts \in 0 .. MaxLogouts
    /\ wary \in BOOLEAN /\ proofs \in [SessionIds -> Txns \cup {None}]
    /\ \A r \in Requests :
          req[r].pc = "exchange" => TxnCookie(r) \in 1 .. begun /\ TxnCookie(r) \notin ceremonies

\* One authorization establishes one session at most, however often its callback
\* is sent and however those callbacks interleave.
SingleUse ==
    \A s1, s2 \in 1 .. established : proofs[s1] = proofs[s2] => s1 = s2

\* Whoever a session names is whom the provider authenticated for the very
\* transaction that established it: a step-up is no way to another account.
ProvenIdentity ==
    \A s \in 1 .. established : live[s] # None => asked[proofs[s]].account = live[s]

\* After a reconfirm logout no sign-in that begins before another has completed
\* is answered silently from the provider's session, whichever tabs, prefetches
\* and abandoned logins come first.
ReconfirmHolds ==
    \A s \in 1 .. established : LET by == asked[proofs[s]] IN by.wary => ~by.silent

\* A step-up re-proves a session that lives: it never turns into a login.
StepUpNeedsSession ==
    [][\A r \in Requests :
          req[r].pc = "exchange" /\ asked[TxnCookie(r)].stepUp /\ established' # established
              /\ proofs'[established'] = TxnCookie(r)
              => SignedIn(req[r].cookies.token) # None]_vars

=============================================================================
