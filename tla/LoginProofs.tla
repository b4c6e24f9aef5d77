---------------------------- MODULE LoginProofs ----------------------------
(* Theorems about sign-in, for every number of tabs, accounts,             *)
(* authorization requests and sessions.                                    *)
EXTENDS Login, TLAPS

Exchanging(r) == req[r].pc = "exchange"

(* A ceremony that was taken is in one place: with the callback that       *)
(* exchanges its code, or in the session that it established.              *)
OnceInv ==
    /\ \A s \in 1 .. established :
          /\ proofs[s] \in 1 .. begun /\ proofs[s] \notin ceremonies
          /\ \A r \in Requests : Exchanging(r) => proofs[s] # TxnCookie(r)
    /\ \A r1, r2 \in Requests :
          Exchanging(r1) /\ Exchanging(r2) /\ TxnCookie(r1) = TxnCookie(r2) => r1 = r2
    /\ SingleUse

(* What the provider answered a transaction that is being redeemed, or has *)
(* been, does not change any more.                                         *)
AnswerInv ==
    /\ \A t \in Txns : asked[t].stage # "new" => t <= begun
    /\ \A r \in Requests : req[r].kind = "callback" /\ req[r].pc \in {"sent", "exchange"} =>
          req[r].state \in Txns /\ asked[req[r].state].stage = "answered"
    /\ \A r \in Requests : Exchanging(r) =>
          req[r].kind = "callback" /\ TxnCookie(r) = req[r].state
    /\ \A s \in 1 .. established : asked[proofs[s]].stage = "answered"
    /\ ProvenIdentity

(* The mark is in the browser, in every request and in every question to   *)
(* the provider as long as the reconfirm logout is unanswered.             *)
MarkInv ==
    /\ wary => browser.mark
    /\ \A r \in Requests :
          /\ req[r].wary => req[r].cookies.mark
          /\ req[r].pc = "respond" /\ req[r].out.mark = FALSE => req[r].kind = "callback"
    /\ \A t \in Txns :
          /\ asked[t].wary => asked[t].prompt
          /\ asked[t].silent => ~asked[t].prompt

LoginInv == TypeOK /\ OnceInv /\ AnswerInv /\ MarkInv

-----------------------------------------------------------------------------
(* Types.                                                                  *)

LEMMA IdleType == Idle \in RequestRecords
BY LoginAssumption DEF Idle, RequestRecords, NoCookies, Cookies, Quiet, Headers

LEMMA QuietType == Quiet \in Headers /\ Spent \in Headers
BY DEF Quiet, Spent, Headers

LEMMA UnaskedType == Unasked \in Authorizations
BY DEF Unasked, Authorizations

LEMMA BecomeType ==
    ASSUME NEW r \in Requests, NEW q \in RequestRecords,
           req \in [Requests -> RequestRecords], Become(r, q)
    PROVE  req' \in [Requests -> RequestRecords]
BY DEF Become

LEMMA RespondsType ==
    ASSUME NEW r \in Requests, NEW out \in Headers,
           req \in [Requests -> RequestRecords], Responds(r, out)
    PROVE  /\ req' \in [Requests -> RequestRecords]
           /\ req' = [req EXCEPT ![r] = [req[r] EXCEPT !.pc = "respond", !.out = out]]
<1>1. [req[r] EXCEPT !.pc = "respond", !.out = out] \in RequestRecords
  BY DEF RequestRecords
<1> QED
  BY <1>1, BecomeType DEF Responds, Become

(* What one request does to the types. *)
LEMMA RequestType ==
    ASSUME NEW r \in Requests, req \in [Requests -> RequestRecords]
    PROVE  /\ req[r] \in RequestRecords /\ req[r].cookies \in Cookies
           /\ req[r].out \in Headers /\ req[r].wary \in BOOLEAN
           /\ req[r].view \in Accounts \cup {None} /\ req[r].state \in Txns \cup {None}
           /\ req[r].cookies.token \in SessionIds \cup {None}
           /\ TxnCookie(r) \in Txns \cup {None} /\ req[r].cookies.mark \in BOOLEAN
BY DEF RequestRecords, Cookies, TxnCookie

(* A response that leaves the store of ceremonies alone keeps the types. *)
LEMMA RespondsTypeOK ==
    ASSUME TypeOK, NEW r \in Requests, NEW out \in Headers, Responds(r, out),
           UNCHANGED <<browser, ceremonies, asked, sso, begun, established, logouts, wary>>,
           live' \in [SessionIds -> Accounts \cup {None}],
           proofs' \in [SessionIds -> Txns \cup {None}]
    PROVE  TypeOK'
<1>1. /\ req' \in [Requests -> RequestRecords]
      /\ req' = [req EXCEPT ![r] = [req[r] EXCEPT !.pc = "respond", !.out = out]]
  BY RespondsType DEF TypeOK
<1>2. \A q \in Requests : req'[q].pc = "exchange" => req'[q] = req[q]
  BY <1>1 DEF TypeOK, RequestRecords
<1> QED
  BY <1>1, <1>2 DEF TypeOK, TxnCookie

LEMMA AskTypeOK ==
    ASSUME TypeOK, NEW r \in Requests, NEW kind \in {"login", "stepup", "logout"}, Ask(r, kind)
    PROVE  TypeOK'
<1> DEFINE q == [Idle EXCEPT !.kind = kind, !.pc = "sent", !.cookies = browser, !.wary = wary]
<1>1. q \in RequestRecords /\ q.pc = "sent"
  BY IdleType DEF TypeOK, RequestRecords
<1>2. req' = [req EXCEPT ![r] = q]
  BY DEF Ask, Become
<1> HIDE DEF q
<1>3. req' \in [Requests -> RequestRecords]
  BY <1>1, <1>2 DEF TypeOK
<1>4. \A p \in Requests : req'[p].pc = "exchange" => req'[p] = req[p]
  BY <1>1, <1>2 DEF TypeOK
<1>5. logouts' \in 0 .. MaxLogouts
  BY LoginAssumption DEF Ask, TypeOK
<1> QED
  BY <1>3, <1>4, <1>5 DEF Ask, TypeOK, TxnCookie

LEMMA CallbackTypeOK ==
    ASSUME TypeOK, NEW r \in Requests, NEW t \in Txns, Callback(r, t)
    PROVE  TypeOK'
<1> DEFINE q == [Idle EXCEPT !.kind = "callback", !.pc = "sent", !.cookies = browser, !.state = t]
<1>1. q \in RequestRecords /\ q.pc = "sent"
  BY IdleType DEF TypeOK, RequestRecords
<1>2. req' = [req EXCEPT ![r] = q]
  BY DEF Callback, Become
<1> HIDE DEF q
<1>3. req' \in [Requests -> RequestRecords]
  BY <1>1, <1>2 DEF TypeOK
<1>4. \A p \in Requests : req'[p].pc = "exchange" => req'[p] = req[p]
  BY <1>1, <1>2 DEF TypeOK
<1> QED
  BY <1>3, <1>4 DEF Callback, TypeOK, TxnCookie, counters

LEMMA BeginsTypeOK ==
    ASSUME TypeOK, NEW r \in Requests, LoginBegins(r)
    PROVE  TypeOK'
<1> DEFINE t == begun + 1
           stepUp == req[r].kind = "stepup" /\ SignedIn(req[r].cookies.token) # None
           a == [Unasked EXCEPT !.stage = "asked", !.stepUp = stepUp,
                                !.prompt = stepUp \/ req[r].cookies.mark, !.wary = req[r].wary]
           out == [Quiet EXCEPT !.txn = t]
<1>1. Begins(r, stepUp)
  BY DEF LoginBegins
<1>2. /\ begun < MaxTxns /\ begun' = t /\ ceremonies' = ceremonies \cup {t}
      /\ asked' = [asked EXCEPT ![t] = a] /\ Responds(r, out)
  BY <1>1 DEF Begins
<1>3. t \in Txns /\ t \in Nat /\ begun \in Nat
  BY <1>2, LoginAssumption DEF TypeOK, Txns
<1>4. out \in Headers
  BY <1>3, QuietType DEF Headers
<1>5. stepUp \in BOOLEAN /\ (stepUp \/ req[r].cookies.mark) \in BOOLEAN
  BY RequestType DEF TypeOK
<1>6. a \in Authorizations
  BY <1>5, UnaskedType, RequestType DEF TypeOK, Authorizations
<1> HIDE DEF t, stepUp, a, out
<1>7. /\ req' \in [Requests -> RequestRecords]
      /\ req' = [req EXCEPT ![r] = [req[r] EXCEPT !.pc = "respond", !.out = out]]
  BY <1>2, <1>4, RespondsType DEF TypeOK
<1>8. \A q \in Requests : req'[q].pc = "exchange" => req'[q] = req[q]
  BY <1>7 DEF TypeOK, RequestRecords
<1>9. asked' \in [Txns -> Authorizations]
  BY <1>2, <1>6 DEF TypeOK
<1>10. begun' \in 0 .. MaxTxns /\ ceremonies' \subseteq 1 .. begun'
  BY <1>2, <1>3, LoginAssumption DEF TypeOK, t
<1>11. \A q \in Requests : req'[q].pc = "exchange" =>
          req'[q].cookies.txn \in 1 .. begun' /\ req'[q].cookies.txn \notin ceremonies'
  BY <1>2, <1>3, <1>8 DEF TypeOK, TxnCookie, t
<1> QED
  BY <1>7, <1>9, <1>10, <1>11 DEF LoginBegins, TypeOK, TxnCookie

LEMMA TakesTypeOK ==
    ASSUME TypeOK, NEW r \in Requests, CallbackTakes(r)
    PROVE  TypeOK'
<1> DEFINE e == [req[r] EXCEPT !.pc = "exchange", !.view = SignedIn(req[r].cookies.token)]
<1>1. Takes(r) /\ UNCHANGED <<browser, live, asked, sso, counters, wary, proofs>>
  BY DEF CallbackTakes
<1>2. SignedIn(req[r].cookies.token) \in Accounts \cup {None}
  BY RequestType DEF SignedIn, TypeOK
<1>3. e \in RequestRecords /\ e.cookies = req[r].cookies /\ e.pc = "exchange"
  BY <1>2, RequestType DEF TypeOK, RequestRecords
<1>4. CASE TxnCookie(r) \in ceremonies /\ TxnCookie(r) = req[r].state
  <2>1. Become(r, e)
    BY <1>1, <1>4 DEF Takes
  <2> HIDE DEF e
  <2>2. req' \in [Requests -> RequestRecords]
    BY <1>3, <2>1, BecomeType DEF TypeOK
  <2>3. \A q \in Requests : req'[q].pc = "exchange" =>
          req'[q].cookies.txn \in 1 .. begun /\ req'[q].cookies.txn \notin ceremonies'
    BY <1>1, <1>3, <1>4, <2>1 DEF TypeOK, Become, Takes, TxnCookie
  <2> QED
    BY <1>1, <2>2, <2>3 DEF TypeOK, Takes, TxnCookie, counters
<1>5. CASE ~(TxnCookie(r) \in ceremonies /\ TxnCookie(r) = req[r].state)
  <2>1. Responds(r, Spent)
    BY <1>1, <1>5 DEF Takes
  <2>2. /\ req' \in [Requests -> RequestRecords]
        /\ req' = [req EXCEPT ![r] = [req[r] EXCEPT !.pc = "respond", !.out = Spent]]
    BY <2>1, QuietType, RespondsType DEF TypeOK
  <2>3. \A q \in Requests : req'[q].pc = "exchange" => req'[q] = req[q]
    BY <2>2 DEF TypeOK, RequestRecords
  <2> QED
    BY <1>1, <2>2, <2>3 DEF TypeOK, Takes, TxnCookie, counters
<1> QED
  BY <1>4, <1>5

LEMMA EstablishesType ==
    ASSUME TypeOK, NEW r \in Requests, Exchanging(r),
           NEW account \in Accounts \cup {None}, NEW out \in Headers,
           Establishes(r, account, out),
           UNCHANGED <<browser, ceremonies, asked, sso, begun, logouts, wary>>
    PROVE  /\ TypeOK'
           /\ established' = established + 1 /\ established' \in SessionIds
           /\ req' = [req EXCEPT ![r] = [req[r] EXCEPT !.pc = "respond",
                                            !.out = [out EXCEPT !.token = established + 1]]]
           /\ proofs' = [proofs EXCEPT ![established + 1] = TxnCookie(r)]
           /\ live' = [i \in SessionIds |-> IF i = established + 1 THEN account
                             ELSE IF i = req[r].cookies.token THEN None ELSE live[i]]
<1> DEFINE s == established + 1
           o == [out EXCEPT !.token = s]
<1>1. established < MaxSessions /\ established' = s /\ Responds(r, o)
      /\ proofs' = [proofs EXCEPT ![s] = TxnCookie(r)]
      /\ live' = [i \in SessionIds |-> IF i = s THEN account
                             ELSE IF i = req[r].cookies.token THEN None ELSE live[i]]
  BY DEF Establishes
<1>2. s \in SessionIds /\ established' \in 0 .. MaxSessions
  BY <1>1, LoginAssumption DEF TypeOK, SessionIds
<1>3. o \in Headers
  BY <1>2 DEF Headers
<1> HIDE DEF o, s
<1>4. /\ req' \in [Requests -> RequestRecords]
      /\ req' = [req EXCEPT ![r] = [req[r] EXCEPT !.pc = "respond", !.out = o]]
  BY <1>1, <1>3, RespondsType DEF TypeOK
<1>5. \A q \in Requests : req'[q].pc = "exchange" => req'[q] = req[q]
  BY <1>4 DEF TypeOK, RequestRecords
<1>6. TxnCookie(r) \in Txns \cup {None}
  BY RequestType DEF TypeOK
<1>7. proofs' \in [SessionIds -> Txns \cup {None}]
  BY <1>1, <1>6 DEF TypeOK
<1>8. live' \in [SessionIds -> Accounts \cup {None}]
  BY <1>1 DEF TypeOK
<1>9. TypeOK'
  BY <1>2, <1>4, <1>5, <1>7, <1>8 DEF TypeOK, TxnCookie
<1> QED
  BY <1>1, <1>2, <1>4, <1>9 DEF s, o

LEMMA ArrivesType ==
    ASSUME TypeOK, NEW r \in Requests, Arrives(r)
    PROVE  TypeOK'
<1>1. req[r].out \in Headers
  BY RequestType DEF TypeOK
<1>2. req' = [req EXCEPT ![r] = Idle] /\ req' \in [Requests -> RequestRecords]
  BY IdleType, BecomeType DEF Arrives, Become, TypeOK
<1>3. \A p \in Requests : req'[p].pc = "exchange" => req'[p] = req[p]
  BY <1>2, IdleType DEF TypeOK, Idle
<1>4. browser' \in Cookies
  BY <1>1 DEF Arrives, Applied, TypeOK, Headers, Cookies
<1>5. wary' \in BOOLEAN
  BY DEF Arrives, TypeOK
<1>6. sso' \in Accounts \cup {None}
  BY DEF Arrives, TypeOK
<1> QED
  BY <1>2, <1>3, <1>4, <1>5, <1>6 DEF Arrives, TypeOK, TxnCookie, counters

(* The rest of the steps, each as what it leaves of the state. *)
LEMMA AnswersType ==
    ASSUME TypeOK, NEW t \in Txns, ProviderAnswers(t)
    PROVE  /\ TypeOK'
           /\ asked[t].stage = "asked"
           /\ UNCHANGED <<browser, live, ceremonies, req, counters, wary, proofs>>
           /\ \A u \in Txns : u # t => asked'[u] = asked[u]
           /\ asked'[t].stage = "answered" /\ asked'[t].wary = asked[t].wary
           /\ asked'[t].prompt = asked[t].prompt
           /\ asked'[t].silent => asked[t].silent \/ ~asked[t].prompt
<1>1. asked[t] \in Authorizations /\ asked[t].stage = "asked"
      /\ UNCHANGED <<browser, live, ceremonies, req, counters, wary, proofs>>
  BY DEF ProviderAnswers, TypeOK
<1>2. PICK a \in Authorizations :
         /\ asked' = [asked EXCEPT ![t] = a]
         /\ a.stage = "answered" /\ a.wary = asked[t].wary /\ a.prompt = asked[t].prompt
         /\ a.silent => asked[t].silent \/ ~asked[t].prompt
         /\ sso' \in Accounts \cup {None}
  <2>1. CASE /\ sso # None /\ ~asked[t].prompt
             /\ asked' = [asked EXCEPT ![t].stage = "answered", ![t].account = sso,
                                       ![t].silent = TRUE]
             /\ UNCHANGED sso
    <3> DEFINE a == [asked[t] EXCEPT !.stage = "answered", !.account = sso, !.silent = TRUE]
    <3>1. a \in Authorizations /\ a.stage = "answered" /\ a.wary = asked[t].wary
          /\ a.prompt = asked[t].prompt
      BY <1>1 DEF Authorizations, TypeOK
    <3>2. asked' = [asked EXCEPT ![t] = a]
      BY <2>1 DEF TypeOK
    <3> QED
      BY <2>1, <3>1, <3>2 DEF TypeOK
  <2>2. CASE \E b \in Accounts :
                /\ asked' = [asked EXCEPT ![t].stage = "answered", ![t].account = b]
                /\ sso' = b
    <3>0. PICK b \in Accounts :
                /\ asked' = [asked EXCEPT ![t].stage = "answered", ![t].account = b]
                /\ sso' = b
      BY <2>2
    <3> DEFINE a == [asked[t] EXCEPT !.stage = "answered", !.account = b]
    <3>1. a \in Authorizations /\ a.stage = "answered" /\ a.wary = asked[t].wary
          /\ a.prompt = asked[t].prompt /\ a.silent = asked[t].silent
      BY <1>1 DEF Authorizations
    <3>2. asked' = [asked EXCEPT ![t] = a]
      BY <3>0 DEF TypeOK
    <3> QED
      BY <3>0, <3>1, <3>2
  <2>3. CASE /\ asked' = [asked EXCEPT ![t].stage = "answered", ![t].account = None]
             /\ UNCHANGED sso
    <3> DEFINE a == [asked[t] EXCEPT !.stage = "answered", !.account = None]
    <3>1. a \in Authorizations /\ a.stage = "answered" /\ a.wary = asked[t].wary
          /\ a.prompt = asked[t].prompt /\ a.silent = asked[t].silent
      BY <1>1 DEF Authorizations
    <3>2. asked' = [asked EXCEPT ![t] = a]
      BY <2>3 DEF TypeOK
    <3> QED
      BY <2>3, <3>1, <3>2 DEF TypeOK
  <2> QED
    BY <2>1, <2>2, <2>3 DEF ProviderAnswers
<1>3. TypeOK'
  BY <1>1, <1>2 DEF TypeOK, TxnCookie, counters
<1> QED
  BY <1>1, <1>2, <1>3 DEF TypeOK

-----------------------------------------------------------------------------
(* Steps.                                                                  *)

\* Everything the invariant speaks of but the requests, the ceremonies and the
\* records.
Elsewhere == <<browser, asked, begun, established, wary, proofs>>

(* A response, with which ceremonies and records may go.                   *)
LEMMA RespondsInv ==
    ASSUME LoginInv, NEW r \in Requests, NEW out \in Headers, Responds(r, out),
           out.mark = FALSE => req[r].kind = "callback",
           UNCHANGED <<Elsewhere, sso, logouts>>,
           ceremonies' \subseteq ceremonies,
           live' \in [SessionIds -> Accounts \cup {None}],
           \A s \in SessionIds : live'[s] \in {live[s], None}
    PROVE  LoginInv'
<1>0. TypeOK /\ OnceInv /\ AnswerInv /\ MarkInv
  BY DEF LoginInv
<1>1. /\ req' \in [Requests -> RequestRecords]
      /\ req' = [req EXCEPT ![r] = [req[r] EXCEPT !.pc = "respond", !.out = out]]
  BY <1>0, RespondsType DEF TypeOK
<1>2. /\ \A q \in Requests : q # r => req'[q] = req[q]
      /\ req'[r].pc = "respond" /\ req'[r].out = out /\ req'[r].kind = req[r].kind
      /\ req'[r].wary = req[r].wary /\ req'[r].cookies = req[r].cookies
  BY <1>0, <1>1 DEF TypeOK, RequestRecords
<1>3. TypeOK'
  BY <1>0, <1>1, <1>2 DEF TypeOK, TxnCookie, Elsewhere
<1>4. OnceInv'
  BY <1>0, <1>2 DEF OnceInv, SingleUse, Exchanging, TxnCookie, Elsewhere
<1>5. AnswerInv'
  <2>1. \A s \in 1 .. established : s \in SessionIds
    BY <1>0, LoginAssumption DEF TypeOK, SessionIds
  <2>2. ProvenIdentity'
    BY <1>0, <2>1 DEF AnswerInv, ProvenIdentity, Elsewhere
  <2> QED
    BY <1>0, <1>2, <2>2 DEF AnswerInv, Exchanging, TxnCookie, Elsewhere
<1>6. MarkInv'
  BY <1>0, <1>2 DEF MarkInv, Elsewhere
<1> QED
  BY <1>3, <1>4, <1>5, <1>6 DEF LoginInv

(* A request that the browser sends, with the cookies it holds. *)
LEMMA AskInv ==
    ASSUME LoginInv, NEW r \in Requests, NEW kind \in {"login", "stepup", "logout"}, Ask(r, kind)
    PROVE  LoginInv'
<1>0. TypeOK /\ OnceInv /\ AnswerInv /\ MarkInv
  BY DEF LoginInv
<1> DEFINE q == [Idle EXCEPT !.kind = kind, !.pc = "sent", !.cookies = browser, !.wary = wary]
<1>1. /\ q.pc = "sent" /\ q.kind = kind /\ q.wary = wary /\ q.cookies = browser
  BY IdleType DEF RequestRecords
<1>2. req' = [req EXCEPT ![r] = q]
  BY DEF Ask, Become
<1> HIDE DEF q
<1>3. req'[r] = q /\ \A p \in Requests : p # r => req'[p] = req[p]
  BY <1>0, <1>2 DEF TypeOK
<1>4. TypeOK'
  BY <1>0, AskTypeOK
<1>5. OnceInv'
  BY <1>0, <1>1, <1>3 DEF OnceInv, SingleUse, Exchanging, TxnCookie, Ask
<1>6. AnswerInv'
  BY <1>0, <1>1, <1>3 DEF AnswerInv, ProvenIdentity, Exchanging, TxnCookie, Ask
<1>7. MarkInv'
  BY <1>0, <1>1, <1>3 DEF MarkInv, Ask
<1> QED
  BY <1>4, <1>5, <1>6, <1>7 DEF LoginInv

LEMMA CallbackInv ==
    ASSUME LoginInv, NEW r \in Requests, NEW t \in Txns, Callback(r, t)
    PROVE  LoginInv'
<1>0. TypeOK /\ OnceInv /\ AnswerInv /\ MarkInv
  BY DEF LoginInv
<1> DEFINE q == [Idle EXCEPT !.kind = "callback", !.pc = "sent", !.cookies = browser, !.state = t]
<1>1. /\ q.pc = "sent" /\ q.wary = FALSE /\ q.state = t
  BY DEF Idle
<1>2. req' = [req EXCEPT ![r] = q]
  BY DEF Callback, Become
<1> HIDE DEF q
<1>3. req'[r] = q /\ \A p \in Requests : p # r => req'[p] = req[p]
  BY <1>0, <1>2 DEF TypeOK
<1>4. TypeOK'
  BY <1>0, CallbackTypeOK
<1>5. OnceInv'
  BY <1>0, <1>1, <1>3 DEF OnceInv, SingleUse, Exchanging, TxnCookie, Callback, counters
<1>6. AnswerInv'
  BY <1>0, <1>1, <1>3 DEF AnswerInv, ProvenIdentity, Exchanging, TxnCookie, Callback, counters
<1>7. MarkInv'
  BY <1>0, <1>1, <1>3 DEF MarkInv, Callback, counters
<1> QED
  BY <1>4, <1>5, <1>6, <1>7 DEF LoginInv

(* An authorization request: its transaction is new, and it asks for a     *)
(* prompt if the request came with the mark.                               *)
LEMMA BeginsInv ==
    ASSUME LoginInv, NEW r \in Requests, LoginBegins(r)
    PROVE  LoginInv'
<1>0. TypeOK /\ OnceInv /\ AnswerInv /\ MarkInv
  BY DEF LoginInv
<1> DEFINE t == begun + 1
           stepUp == req[r].kind = "stepup" /\ SignedIn(req[r].cookies.token) # None
           a == [Unasked EXCEPT !.stage = "asked", !.stepUp = stepUp,
                                !.prompt = stepUp \/ req[r].cookies.mark, !.wary = req[r].wary]
           out == [Quiet EXCEPT !.txn = t]
<1>1. Begins(r, stepUp) /\ UNCHANGED <<browser, live, sso, established, logouts, wary, proofs>>
  BY DEF LoginBegins
<1>2. /\ begun < MaxTxns /\ begun' = t /\ ceremonies' = ceremonies \cup {t}
      /\ asked' = [asked EXCEPT ![t] = a] /\ Responds(r, out)
  BY <1>1 DEF Begins
<1>3. t \in Txns /\ begun \in Nat
  BY <1>0, <1>2, LoginAssumption DEF TypeOK, Txns
<1>4. out \in Headers /\ out.mark = Keep
  BY <1>3, QuietType DEF Headers, Quiet
<1>5. /\ a.stage = "asked" /\ a.prompt = (stepUp \/ req[r].cookies.mark)
      /\ a.wary = req[r].wary /\ a.silent = FALSE
  BY DEF Unasked
<1> HIDE DEF stepUp, a, out
<1>6. /\ req' = [req EXCEPT ![r] = [req[r] EXCEPT !.pc = "respond", !.out = out]]
  BY <1>0, <1>2, <1>4, RespondsType DEF TypeOK
<1>7. /\ \A q \in Requests : q # r => req'[q] = req[q]
      /\ req'[r].pc = "respond" /\ req'[r].out = out /\ req'[r].kind = req[r].kind
      /\ req'[r].wary = req[r].wary /\ req'[r].cookies = req[r].cookies
  BY <1>0, <1>6 DEF TypeOK, RequestRecords
<1>8. asked'[t] = a /\ \A u \in Txns : u # t => asked'[u] = asked[u]
  BY <1>0, <1>2, <1>3 DEF TypeOK
<1>9. TypeOK'
  BY <1>0, BeginsTypeOK
<1>10. OnceInv'
  <2>1. \A s \in 1 .. established : proofs[s] # t
    BY <1>0, <1>3 DEF OnceInv
  <2> QED
    BY <1>0, <1>1, <1>2, <1>3, <1>7, <2>1 DEF OnceInv, SingleUse, Exchanging, TxnCookie
<1>11. AnswerInv'
  <2>1. asked[t].stage = "new"
    BY <1>0, <1>3 DEF AnswerInv, TypeOK, Authorizations
  <2>2. \A s \in 1 .. established : asked'[proofs[s]] = asked[proofs[s]]
    <3>1. \A s \in 1 .. established : proofs[s] \in Txns /\ proofs[s] # t
      BY <1>0, <1>3, LoginAssumption DEF OnceInv, TypeOK, Txns
    <3> QED
      BY <1>8, <3>1
  <2>3. \A q \in Requests : req'[q].kind = "callback" /\ req'[q].pc \in {"sent", "exchange"} =>
          asked'[req[q].state] = asked[req[q].state] /\ req'[q] = req[q]
    BY <1>0, <1>7, <1>8, <2>1 DEF AnswerInv
  <2>4. \A u \in Txns : asked'[u].stage # "new" => u <= begun'
    BY <1>0, <1>2, <1>3, <1>8 DEF AnswerInv, Txns
  <2>5. ProvenIdentity'
    BY <1>0, <1>1, <2>2 DEF AnswerInv, ProvenIdentity
  <2> QED
    BY <1>0, <1>1, <1>7, <2>2, <2>3, <2>4, <2>5 DEF AnswerInv, Exchanging, TxnCookie
<1>12. MarkInv'
  <2>1. out.mark # FALSE
    BY <1>4, LoginAssumption
  <2>2. a.wary => a.prompt
    BY <1>0, <1>5 DEF MarkInv
  <2> QED
    BY <1>0, <1>1, <1>5, <1>7, <1>8, <2>1, <2>2 DEF MarkInv
<1> QED
  BY <1>9, <1>10, <1>11, <1>12 DEF LoginInv

(* Take: the ceremony is out of the store, so nobody else exchanges it. *)
LEMMA TakesInv ==
    ASSUME LoginInv, NEW r \in Requests, CallbackTakes(r)
    PROVE  LoginInv'
<1>0. TypeOK /\ OnceInv /\ AnswerInv /\ MarkInv
  BY DEF LoginInv
<1> DEFINE e == [req[r] EXCEPT !.pc = "exchange", !.view = SignedIn(req[r].cookies.token)]
<1>1. Takes(r) /\ UNCHANGED <<browser, live, asked, sso, counters, wary, proofs>>
  BY DEF CallbackTakes
<1>2. CASE TxnCookie(r) \in ceremonies /\ TxnCookie(r) = req[r].state
  <2>1. /\ e.pc = "exchange" /\ e.kind = req[r].kind /\ e.state = req[r].state
        /\ e.wary = req[r].wary /\ e.cookies = req[r].cookies
    BY <1>0, RequestType DEF TypeOK, RequestRecords
  <2>2. req' = [req EXCEPT ![r] = e] /\ req[r].pc = "sent" /\ req[r].kind = "callback"
        /\ ceremonies' = ceremonies \ {TxnCookie(r)}
    BY <1>1, <1>2 DEF Takes, Become
  <2> HIDE DEF e
  <2>3. req'[r] = e /\ \A p \in Requests : p # r => req'[p] = req[p]
    BY <1>0, <2>2 DEF TypeOK
  <2>4. TypeOK'
    BY <1>0, TakesTypeOK
  <2>5. OnceInv'
    <3>1. \A q \in Requests : Exchanging(q) => TxnCookie(q) # TxnCookie(r)
      BY <1>0, <1>2 DEF TypeOK, Exchanging
    <3>2. \A s \in 1 .. established : proofs[s] # TxnCookie(r)
      BY <1>0, <1>2 DEF OnceInv
    <3> QED
      BY <1>0, <1>1, <2>1, <2>2, <2>3, <3>1, <3>2
         DEF OnceInv, SingleUse, Exchanging, TxnCookie, counters
  <2>6. AnswerInv'
    BY <1>0, <1>1, <1>2, <2>1, <2>2, <2>3
       DEF AnswerInv, ProvenIdentity, Exchanging, TxnCookie, counters
  <2>7. MarkInv'
    BY <1>0, <1>1, <2>1, <2>3 DEF MarkInv
  <2> QED
    BY <2>4, <2>5, <2>6, <2>7 DEF LoginInv
<1>3. CASE ~(TxnCookie(r) \in ceremonies /\ TxnCookie(r) = req[r].state)
  <2>1. Responds(r, Spent) /\ req[r].kind = "callback" /\ ceremonies' \subseteq ceremonies
    BY <1>1, <1>3 DEF Takes
  <2> QED
    BY <1>0, <1>1, <2>1, QuietType, RespondsInv DEF Elsewhere, counters, TypeOK
<1> QED
  BY <1>2, <1>3

(* A session begins: its transaction is the one whose code this callback   *)
(* alone exchanged, and its account the one the provider answered with.    *)
LEMMA EstablishesInv ==
    ASSUME LoginInv, NEW r \in Requests, Exchanging(r),
           NEW account \in Accounts \cup {None}, NEW out \in Headers,
           account = asked[TxnCookie(r)].account,
           Establishes(r, account, out),
           UNCHANGED <<browser, ceremonies, asked, sso, begun, logouts, wary>>
    PROVE  LoginInv'
<1>0. TypeOK /\ OnceInv /\ AnswerInv /\ MarkInv
  BY DEF LoginInv
<1> DEFINE n == established + 1
           o == [out EXCEPT !.token = n]
<1>1. /\ TypeOK'
      /\ established' = n /\ n \in SessionIds
      /\ req' = [req EXCEPT ![r] = [req[r] EXCEPT !.pc = "respond", !.out = o]]
      /\ proofs' = [proofs EXCEPT ![n] = TxnCookie(r)]
      /\ live' = [i \in SessionIds |-> IF i = n THEN account
                        ELSE IF i = req[r].cookies.token THEN None ELSE live[i]]
  BY <1>0, EstablishesType
<1>2. established \in Nat /\ n = established + 1 /\ 1 .. established \subseteq SessionIds
      /\ 1 .. n = (1 .. established) \cup {n} /\ n \notin 1 .. established
  BY <1>0, LoginAssumption DEF TypeOK, SessionIds
<1> HIDE DEF n, o
<1>3. /\ \A q \in Requests : q # r => req'[q] = req[q]
      /\ req'[r].pc = "respond" /\ req'[r].out = o /\ req'[r].kind = req[r].kind
      /\ req'[r].wary = req[r].wary /\ req'[r].cookies = req[r].cookies
  BY <1>0, <1>1 DEF TypeOK, RequestRecords
<1>4. /\ proofs'[n] = TxnCookie(r) /\ \A s \in 1 .. established : proofs'[s] = proofs[s]
      /\ live'[n] = account /\ \A s \in 1 .. established : live'[s] \in {live[s], None}
  BY <1>0, <1>1, <1>2 DEF TypeOK
<1>5. req[r].kind = "callback" /\ asked[TxnCookie(r)].stage = "answered"
      /\ TxnCookie(r) \in 1 .. begun /\ TxnCookie(r) \notin ceremonies
  BY <1>0 DEF AnswerInv, TypeOK, Exchanging
<1>6. OnceInv'
  <2>1. \A s \in 1 .. established : proofs[s] # TxnCookie(r)
    BY <1>0 DEF OnceInv
  <2>2. \A q \in Requests : Exchanging(q)' => q # r /\ Exchanging(q) /\ TxnCookie(q)' = TxnCookie(q)
    BY <1>3 DEF Exchanging, TxnCookie
  <2>3. \A q \in Requests : Exchanging(q)' => TxnCookie(q) # TxnCookie(r)
    BY <1>0, <2>2 DEF OnceInv
  <2>4. SingleUse'
    BY <1>0, <1>1, <1>2, <1>4, <2>1 DEF OnceInv, SingleUse
  <2>5. \A s \in 1 .. established' :
          /\ proofs'[s] \in 1 .. begun' /\ proofs'[s] \notin ceremonies'
          /\ \A q \in Requests : Exchanging(q)' => proofs'[s] # TxnCookie(q)'
    BY <1>0, <1>1, <1>2, <1>4, <1>5, <2>2, <2>3 DEF OnceInv
  <2>6. \A r1, r2 \in Requests :
          Exchanging(r1)' /\ Exchanging(r2)' /\ TxnCookie(r1)' = TxnCookie(r2)' => r1 = r2
    BY <1>0, <2>2 DEF OnceInv
  <2> QED
    BY <2>4, <2>5, <2>6 DEF OnceInv
<1>7. AnswerInv'
  <2>1. \A s \in 1 .. established' : asked[proofs'[s]].stage = "answered"
    BY <1>0, <1>1, <1>2, <1>4, <1>5 DEF AnswerInv
  <2>2. ProvenIdentity'
    BY <1>0, <1>1, <1>2, <1>4 DEF AnswerInv, ProvenIdentity
  <2> QED
    BY <1>0, <1>3, <2>1, <2>2 DEF AnswerInv, Exchanging, TxnCookie
<1>8. MarkInv'
  BY <1>0, <1>3, <1>5 DEF MarkInv
<1> QED
  BY <1>1, <1>6, <1>7, <1>8 DEF LoginInv

(* A response that arrives, or is lost. *)
LEMMA EndsInv ==
    ASSUME LoginInv, NEW r \in Requests, Arrives(r) \/ Lost(r)
    PROVE  LoginInv'
<1>0. TypeOK /\ OnceInv /\ AnswerInv /\ MarkInv
  BY DEF LoginInv
<1>1. req' = [req EXCEPT ![r] = Idle] /\ req[r].pc = "respond"
      /\ UNCHANGED <<live, ceremonies, asked, counters, proofs>>
  BY DEF Arrives, Lost, Become
<1>2. /\ \A q \in Requests : q # r => req'[q] = req[q]
      /\ req'[r].pc = "idle" /\ req'[r].wary = FALSE
  BY <1>0, <1>1 DEF TypeOK, Idle
<1>3. TypeOK'
  <2>1. CASE Arrives(r)
    BY <1>0, <2>1, ArrivesType
  <2>2. CASE Lost(r)
    <3>1. req' \in [Requests -> RequestRecords]
      BY <1>0, <1>1, IdleType DEF TypeOK
    <3> QED
      BY <1>0, <1>2, <2>2, <3>1 DEF TypeOK, TxnCookie, Lost, counters
  <2> QED
    BY <2>1, <2>2
<1>4. OnceInv'
  BY <1>0, <1>1, <1>2 DEF OnceInv, SingleUse, Exchanging, TxnCookie, counters
<1>5. AnswerInv'
  BY <1>0, <1>1, <1>2 DEF AnswerInv, ProvenIdentity, Exchanging, TxnCookie, counters
<1>6. wary' => browser'.mark
  <2>1. CASE Lost(r)
    BY <1>0, <2>1 DEF Lost, MarkInv
  <2>2. CASE Arrives(r)
    <3>1. req[r].out.mark \in BOOLEAN \cup {Keep}
      BY <1>0, RequestType DEF TypeOK, Headers
    <3>2. browser'.mark = Applied(browser.mark, req[r].out.mark)
      BY <2>2 DEF Arrives
    <3>3. wary' = CASE req[r].kind = "logout" /\ req[r].out.mark = TRUE -> TRUE
                    [] req[r].kind = "callback" /\ req[r].out.mark = FALSE -> FALSE
                    [] OTHER -> wary
      BY <2>2 DEF Arrives
    <3>4. CASE req[r].out.mark = FALSE
      BY <1>0, <1>1, <3>3, <3>4 DEF MarkInv
    <3>5. CASE req[r].out.mark = TRUE
      BY <3>2, <3>5, LoginAssumption DEF Applied
    <3>6. CASE req[r].out.mark = Keep
      <4>1. Keep # TRUE /\ Keep # FALSE
        BY LoginAssumption
      <4>2. browser'.mark = browser.mark /\ wary' = wary
        BY <3>2, <3>3, <3>6, <4>1 DEF Applied
      <4> QED
        BY <1>0, <4>2 DEF MarkInv
    <3> QED
      BY <3>1, <3>4, <3>5, <3>6
  <2> QED
    BY <2>1, <2>2
<1>7. MarkInv'
  BY <1>0, <1>1, <1>2, <1>6 DEF MarkInv
<1> QED
  BY <1>3, <1>4, <1>5, <1>7 DEF LoginInv

(* The steps of the provider and of the clocks. *)
LEMMA AnswersInv ==
    ASSUME LoginInv, NEW t \in Txns, ProviderAnswers(t)
    PROVE  LoginInv'
<1>0. TypeOK /\ OnceInv /\ AnswerInv /\ MarkInv
  BY DEF LoginInv
<1>1. /\ TypeOK'
      /\ asked[t].stage = "asked"
      /\ UNCHANGED <<browser, live, ceremonies, req, counters, wary, proofs>>
      /\ \A u \in Txns : u # t => asked'[u] = asked[u]
      /\ asked'[t].stage = "answered" /\ asked'[t].wary = asked[t].wary
      /\ asked'[t].prompt = asked[t].prompt
      /\ asked'[t].silent => asked[t].silent \/ ~asked[t].prompt
  BY <1>0, AnswersType
<1>2. OnceInv'
  BY <1>0, <1>1 DEF OnceInv, SingleUse, Exchanging, TxnCookie, counters
<1>3. AnswerInv'
  <2>1. 1 .. begun \subseteq Txns
    BY <1>0, LoginAssumption DEF TypeOK, Txns
  <2>2. \A s \in 1 .. established : proofs[s] \in Txns /\ proofs[s] # t
    BY <1>0, <1>1, <2>1 DEF OnceInv, AnswerInv
  <2>3. \A s \in 1 .. established : asked'[proofs[s]] = asked[proofs[s]]
    BY <1>1, <2>2
  <2>4. ProvenIdentity'
    BY <1>0, <1>1, <2>3 DEF AnswerInv, ProvenIdentity, counters
  <2> QED
    BY <1>0, <1>1, <2>3, <2>4 DEF AnswerInv, Exchanging, TxnCookie, counters
<1>4. MarkInv'
  BY <1>0, <1>1 DEF MarkInv
<1> QED
  BY <1>1, <1>2, <1>3, <1>4 DEF LoginInv

LEMMA ExpiryInv ==
    ASSUME LoginInv,
           \/ CookieExpires
           \/ \E t \in Txns : CeremonyExpires(t)
           \/ \E s \in SessionIds : SessionExpires(s)
    PROVE  LoginInv'
<1>0. TypeOK /\ OnceInv /\ AnswerInv /\ MarkInv
  BY DEF LoginInv
<1>1. CASE CookieExpires
  <2>1. TypeOK'
    BY <1>0, <1>1 DEF TypeOK, CookieExpires, Cookies, TxnCookie, counters
  <2>2. wary' => browser'.mark
    BY <1>0, <1>1 DEF TypeOK, CookieExpires, Cookies, MarkInv
  <2> QED
    BY <1>0, <1>1, <2>1, <2>2
       DEF LoginInv, OnceInv, AnswerInv, MarkInv, SingleUse, ProvenIdentity, Exchanging,
           TxnCookie, CookieExpires, counters
<1>2. ASSUME NEW t \in Txns, CeremonyExpires(t) PROVE LoginInv'
  BY <1>0, <1>2
     DEF LoginInv, TypeOK, OnceInv, AnswerInv, MarkInv, SingleUse, ProvenIdentity, Exchanging,
         TxnCookie, CeremonyExpires, counters
<1>3. ASSUME NEW s \in SessionIds, SessionExpires(s) PROVE LoginInv'
  <2>1. live' \in [SessionIds -> Accounts \cup {None}]
        /\ \A i \in SessionIds : live'[i] \in {live[i], None}
    BY <1>0, <1>3 DEF TypeOK, SessionExpires
  <2>2. 1 .. established \subseteq SessionIds
    BY <1>0, LoginAssumption DEF TypeOK, SessionIds
  <2>3. TypeOK'
    BY <1>0, <1>3, <2>1 DEF TypeOK, SessionExpires, TxnCookie, counters
  <2>4. ProvenIdentity'
    BY <1>0, <1>3, <2>1, <2>2 DEF AnswerInv, ProvenIdentity, SessionExpires, counters
  <2> QED
    BY <1>0, <1>3, <2>3, <2>4
       DEF LoginInv, OnceInv, AnswerInv, MarkInv, SingleUse, Exchanging, TxnCookie,
           SessionExpires, counters
<1> QED
  BY <1>1, <1>2, <1>3

LEMMA RequestInv ==
    ASSUME LoginInv, NEW r \in Requests,
           \/ LoginShortcut(r) \/ LoginFails(r) \/ CallbackRejected(r) \/ ExchangeFails(r)
           \/ SignInCompletes(r) \/ StepUpCompletes(r) \/ StepUpRefused(r)
           \/ \E global \in BOOLEAN : LogoutHandled(r, global)
    PROVE  LoginInv'
<1>0. TypeOK /\ AnswerInv
  BY DEF LoginInv
<1>1. /\ Quiet \in Headers /\ Quiet.mark # FALSE /\ Spent \in Headers /\ Spent.mark # FALSE
  BY QuietType, LoginAssumption DEF Quiet, Spent
<1>2. CASE LoginShortcut(r) \/ LoginFails(r)
  BY <1>0, <1>1, <1>2, RespondsInv DEF LoginShortcut, LoginFails, Elsewhere, counters, TypeOK
<1>3. CASE CallbackRejected(r) \/ ExchangeFails(r) \/ StepUpRefused(r)
  BY <1>0, <1>1, <1>3, RespondsInv
     DEF CallbackRejected, ExchangeFails, StepUpRefused, Elsewhere, counters, TypeOK
<1>4. ASSUME Exchanging(r)
      PROVE  asked[TxnCookie(r)].account \in Accounts \cup {None}
  <2>1. TxnCookie(r) \in Txns
    BY <1>0, <1>4, LoginAssumption DEF TypeOK, Exchanging, Txns
  <2> QED
    BY <1>0, <2>1 DEF TypeOK, Authorizations
<1>5. CASE SignInCompletes(r)
  <2>1. [Spent EXCEPT !.mark = FALSE] \in Headers
    BY <1>1 DEF Headers
  <2> QED
    BY <1>4, <1>5, <2>1, EstablishesInv DEF SignInCompletes, Exchanging
<1>6. CASE StepUpCompletes(r)
  <2>1. req[r].view = asked[TxnCookie(r)].account /\ Exchanging(r)
    BY <1>6 DEF StepUpCompletes, SameIdentity, Exchanging
  <2> QED
    BY <1>1, <1>4, <1>6, <2>1, EstablishesInv DEF StepUpCompletes
<1>7. ASSUME NEW global \in BOOLEAN, LogoutHandled(r, global) PROVE LoginInv'
  <2> DEFINE out == [Quiet EXCEPT !.token = None, !.mark = IF global THEN Keep ELSE TRUE]
  <2>1. out \in Headers /\ out.mark # FALSE
    BY <1>1, LoginAssumption DEF Headers, Quiet
  <2>2. Responds(r, out)
    BY <1>7 DEF LogoutHandled
  <2> HIDE DEF out
  <2>3. /\ live' \in [SessionIds -> Accounts \cup {None}]
        /\ \A s \in SessionIds : live'[s] \in {live[s], None}
    BY <1>0, <1>7 DEF LogoutHandled, TypeOK
  <2> QED
    BY <1>7, <2>1, <2>2, <2>3, RespondsInv DEF LogoutHandled, Elsewhere, counters
<1> QED
  BY <1>2, <1>3, <1>5, <1>6, <1>7

LEMMA LoginStep == LoginInv /\ [Next]_vars => LoginInv'
<1> SUFFICES ASSUME LoginInv, [Next]_vars PROVE LoginInv'
  OBVIOUS
<1>1. CASE UNCHANGED vars
  BY <1>1 DEF LoginInv, TypeOK, OnceInv, AnswerInv, MarkInv, SingleUse, ProvenIdentity,
              Exchanging, TxnCookie, vars, counters
<1>2. CASE Next
  BY <1>2, AskInv, CallbackInv, BeginsInv, TakesInv, EndsInv, RequestInv, AnswersInv, ExpiryInv
     DEF Next
<1> QED
  BY <1>1, <1>2

LEMMA LoginInvariant == Spec => []LoginInv
<1>1. Init => LoginInv
  <2> SUFFICES ASSUME Init PROVE LoginInv
    OBVIOUS
  <2>1. established = 0 /\ begun = 0 /\ \A s \in 1 .. established : FALSE
    BY DEF Init
  <2>2. TypeOK
    <3>1. /\ req \in [Requests -> RequestRecords] /\ asked \in [Txns -> Authorizations]
          /\ \A r \in Requests : req[r].pc = "idle"
      BY IdleType, UnaskedType DEF Init, Idle
    <3>2. /\ browser \in Cookies /\ live \in [SessionIds -> Accounts \cup {None}]
          /\ proofs \in [SessionIds -> Txns \cup {None}]
      BY DEF Init, NoCookies, Cookies
    <3>3. /\ begun \in 0 .. MaxTxns /\ established \in 0 .. MaxSessions
          /\ logouts \in 0 .. MaxLogouts
      BY LoginAssumption DEF Init
    <3> QED
      BY <3>1, <3>2, <3>3 DEF Init, TypeOK
  <2>3. OnceInv
    BY <2>1 DEF Init, OnceInv, SingleUse, Exchanging, Idle
  <2>4. AnswerInv
    BY <2>1 DEF Init, AnswerInv, ProvenIdentity, Exchanging, Idle, Unasked
  <2>5. MarkInv
    BY DEF Init, MarkInv, Idle, Unasked
  <2> QED
    BY <2>2, <2>3, <2>4, <2>5 DEF LoginInv
<1> QED
  BY <1>1, LoginStep, PTL DEF Spec

-----------------------------------------------------------------------------
(* Whatever tabs, reloads, step-ups, logouts, lost answers and expiries    *)
(* mix, cookies, records and ceremonies keep their shape, and a callback   *)
(* exchanges a code only for a ceremony it has taken from the store.       *)
THEOREM LoginTypeCorrect == Spec => []TypeOK
BY LoginInvariant, PTL DEF LoginInv

(* One authorization establishes one session at most: Take removes the     *)
(* ceremony before the exchange, so of two callbacks with the same code    *)
(* one finds nothing (endpoints.go, handleCallback).                       *)
THEOREM SingleUseCorrect == Spec => []SingleUse
<1>1. LoginInv => SingleUse
  BY DEF LoginInv, OnceInv
<1> QED
  BY <1>1, LoginInvariant, PTL

(* A session names whom the provider authenticated for the transaction     *)
(* that established it; completeStepUp compares the identities before it   *)
(* issues the new token.                                                   *)
THEOREM IdentityCorrect == Spec => []ProvenIdentity
<1>1. LoginInv => ProvenIdentity
  BY DEF LoginInv, AnswerInv
<1> QED
  BY <1>1, LoginInvariant, PTL

(* After a reconfirm logout the provider is asked for a prompt by every    *)
(* login that begins before one has completed: the mark is spent by the    *)
(* sign-in that completes, never by the request that reads it.             *)
THEOREM ReconfirmCorrect == Spec => []ReconfirmHolds
<1>1. LoginInv => ReconfirmHolds
  <2> SUFFICES ASSUME LoginInv, NEW s \in 1 .. established, asked[proofs[s]].wary
               PROVE  ~asked[proofs[s]].silent
    BY DEF ReconfirmHolds
  <2>1. proofs[s] \in Txns
    BY LoginAssumption DEF LoginInv, OnceInv, TypeOK, Txns
  <2> QED
    BY <2>1 DEF LoginInv, MarkInv
<1> QED
  BY <1>1, LoginInvariant, PTL

=============================================================================
