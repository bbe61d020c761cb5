------------------------------- MODULE SignIn -------------------------------
(***************************************************************************)
(* Sign-in by password and through an identity provider, sessions and      *)
(* their CSRF tokens, as several browser tabs use them.  A browser's tabs  *)
(* share its cookies; each page keeps the CSRF token and the person it was *)
(* told of.  Requests of a tab overlap, their answers arrive in any order, *)
(* and an answer sets or clears cookies even when its page is gone.        *)
(*                                                                         *)
(* Several server processes share the database: every request is handled   *)
(* in two steps, LookUp, which reads, and one that writes.  Tokens are     *)
(* random, so they are modelled as names nobody holds.  What people write  *)
(* is the administration of service-account secrets.                       *)
(***************************************************************************)
EXTENDS Integers, FiniteSets, Functions

CONSTANTS
    Browsers, Tabs, HomeOf,      \* HomeOf[t] is the browser of tab t
    Patient,                     \* a tab whose person keeps trying to save
    People,                      \* users of the organization, all administrators
    Subjects, Mail,              \* accounts at the provider, the verified e-mails it may report
    Sessions, Transactions,      \* rows that can be made: bounds the sign-ins
    Tokens,                      \* CSRF tokens, reused when nobody holds them
    Secrets,                     \* service-account secrets that can be issued
    Calls,                       \* requests in flight at once
    Settings,                    \* bounds how often each thing happens, see left
    None

ASSUME SignInAssumption ==
    /\ HomeOf \in [Tabs -> Browsers]
    /\ Mail \in [Subjects -> SUBSET People]
    /\ None \notin People \cup Subjects \cup Sessions \cup Transactions \cup Tokens
    /\ Settings \subseteq [haste : Nat, mishaps : Nat, logins : Nat, starts : Nat, who : SUBSET People,
                     does : SUBSET {"reload", "read", "write", "logout"},
                     tabs : SUBSET Tabs]

VARIABLES
    active,       \* users.status
    bound,        \* oidc_identities: the user each subject is bound to
    transaction,  \* oidc_login_transactions
    session,      \* sessions
    secret,       \* service_account_secrets
    jar,          \* the cookies of each browser
    tab,          \* what the page in each tab holds
    call,         \* requests in flight
    left          \* bounds: requests still sent before the browser's last one is answered,
                  \* mishaps, sign-ins by password and by provider, who signs in,
                  \* what they do once signed in, and in which tabs

rows == <<active, bound, transaction, session, secret>>
vars == <<rows, jar, tab, call, left>>

NoSession == [state |-> "none", user |-> None, csrf |-> None,
              via |-> None, subject |-> None, browser |-> None]
NoCookies == [session |-> None, csrf |-> None, oidc |-> None]
NewPage == [user |-> None, csrf |-> None, at |-> "blank", last |-> "none"]
Idle == [phase |-> "idle", kind |-> "none", tab |-> None, browser |-> None, with |-> None,
         shown |-> None, cookies |-> NoCookies, row |-> None,
         ok |-> FALSE, set |-> <<>>, user |-> None, token |-> None]

Init ==
    /\ active = People
    /\ bound = [u \in Subjects |-> None]
    /\ transaction = [x \in Transactions |-> [state |-> "none", browser |-> None]]
    /\ session = [s \in Sessions |-> NoSession]
    /\ secret = [k \in Secrets |-> [state |-> "none", by |-> None, shown |-> None]]
    /\ jar = [b \in Browsers |-> NoCookies]
    /\ tab = [t \in Tabs |-> NewPage]
    /\ call = [c \in Calls |-> Idle]
    /\ left \in Settings

-----------------------------------------------------------------------------
(* The browser. *)

InFlight(b) == {c \in Calls : call[c].phase # "idle" /\ call[c].browser = b}
Of(t) == {c \in Calls : call[c].phase # "idle" /\ call[c].tab = t}

\* A page that is left no longer hears the answers to its requests.
Left(calls, t) ==
    [c \in Calls |-> IF calls[c].tab = t THEN [calls[c] EXCEPT !.tab = None] ELSE calls[c]]

\* fetch, and navigation to the callback: the request carries the cookies the
\* browser has now.  with is the X-CSRF-Token of the page, the person who types
\* a password, or the state in the callback URL.
Sent(t, kind, with) ==
    [Idle EXCEPT !.phase = "sent", !.kind = kind, !.tab = t, !.browser = HomeOf[t],
                 !.with = with, !.shown = tab[t].user, !.cookies = jar[HomeOf[t]]]

Send(t, kind, with, calls) ==
    /\ InFlight(HomeOf[t]) = {} \/ left.haste > 0
    /\ left' = [left EXCEPT !.haste = IF InFlight(HomeOf[t]) = {} THEN @ ELSE @ - 1,
                            !.logins = IF kind = "login" THEN @ - 1 ELSE @,
                            !.starts = IF kind = "start" THEN @ - 1 ELSE @]
    /\ \E c \in Calls : call[c].phase = "idle"
    /\ LET c == CHOOSE c \in Calls : call[c].phase = "idle"
       IN  call' = [calls EXCEPT ![c] = Sent(t, kind, with)]
    /\ UNCHANGED <<rows, jar>>

\* The page is loaded, and asks who is signed in.
Load(t) ==
    /\ tab[t].user # None => "reload" \in left.does /\ (tab[t].last = "error" \/ left.haste > 0)
    /\ tab[t].at \in {"blank", "app"}
    /\ tab' = [tab EXCEPT ![t] = [NewPage EXCEPT !.at = "loading"]]
    /\ Send(t, "me", None, Left(call, t))

\* A page reads what it shows (nothing hangs on what), and takes back its last error.
Read(t) ==
    /\ tab[t].user # None /\ "read" \in left.does /\ left.haste > 0
    /\ tab' = [tab EXCEPT ![t].last = "none"]
    /\ Send(t, "read", None, call)

Write(t) ==
    /\ tab[t].user # None /\ "write" \in left.does /\ tab[t].last # "error"
    /\ Send(t, "write", tab[t].csrf, call)
    /\ UNCHANGED tab

Logout(t) ==
    /\ tab[t].user # None /\ "logout" \in left.does /\ left.logins > 0
    /\ Send(t, "logout", tab[t].csrf, call)
    /\ UNCHANGED tab

\* The sign-in page, shown once the page knows that nobody is signed in.
SignedOut(t) == tab[t].at = "app" /\ tab[t].user = None
AtLogin(t) == SignedOut(t) /\ Of(t) = {}

Login(t) ==
    /\ AtLogin(t) /\ left.logins > 0
    /\ \E p \in left.who : Send(t, "login", p, call)
    /\ UNCHANGED tab

StartSso(t) ==
    /\ AtLogin(t) /\ left.starts > 0
    /\ Send(t, "start", None, call)
    /\ UNCHANGED tab

\* The provider sends the tab back with the state it was given.  The same URL may
\* be opened again before it is answered, here or in another tab.
Return(t) ==
    /\ \E other \in Tabs :
          /\ tab[other].at \in Transactions
          /\ t = other \/ left.haste > 0
          /\ Send(t, "callback", tab[other].at, Left(call, t))
    /\ UNCHANGED tab

-----------------------------------------------------------------------------
(* The server. *)

Held ==
    {session[s].csrf : s \in Sessions} \cup {jar[b].csrf : b \in Browsers}
    \cup {tab[t].csrf : t \in Tabs}
    \cup UNION {{call[c].with, call[c].row, call[c].token, call[c].cookies.csrf}
                \cup Range(call[c].set) : c \in Calls}

\* Tokens, sessions and transactions are enough for the instance: a step that finds
\* none left is not taken.
TokenLeft == \E k \in Tokens : k \notin Held
RandomToken == CHOOSE k \in Tokens : k \notin Held

\* A session admits requests while it is neither revoked nor expired and its user is active.
Usable(s) == s # None /\ session[s].state = "live" /\ session[s].user \in active

\* What an answer carries: the cookies it sets (none for the others), and the
\* person and the token its body names.
Answered(c, ok, set, user, token) ==
    [Idle EXCEPT !.phase = "answered", !.kind = call[c].kind, !.tab = call[c].tab,
                 !.browser = call[c].browser, !.ok = ok, !.set = set,
                 !.user = user, !.token = token]

Cleared == [session |-> None, csrf |-> None]
Refused(c) == Answered(c, FALSE, <<>>, None, None)
SsoFailed(c) == Answered(c, FALSE, [oidc |-> None], None, None)

Found(c, row) == [call EXCEPT ![c].phase = "found", ![c].row = row]

SessionCalls == {"me", "read", "write", "logout"}

\* authenticate, its SELECT.  A request without a usable session has its cookies cleared.
LookUpSession(c) ==
    /\ call[c].phase = "sent" /\ call[c].kind \in SessionCalls
    /\ LET s == call[c].cookies.session
       IN  call' = IF Usable(s)
                   THEN Found(c, session[s].csrf)
                   ELSE [call EXCEPT ![c] =
                           Answered(c, FALSE, IF s = None THEN <<>> ELSE Cleared, None, None)]
    /\ UNCHANGED <<rows, jar, tab, left>>

\* Mutant: the readable cookie alone is compared.
CookieValid(c, digest) ==
    call[c].cookies.csrf = digest

\* requireCsrf: the page's header and the browser's cookie are the session's token.
CsrfValid(c, digest) ==
    /\ call[c].with # None /\ call[c].with = digest
    /\ call[c].cookies.csrf = digest

Issue(k, c) ==
    /\ secret[k].state = "none"
    /\ secret' = [secret EXCEPT ![k] =
          [state |-> "valid", by |-> session[call[c].cookies.session].user, shown |-> call[c].shown]]

Revoke(k) ==
    /\ secret[k].state = "valid"
    /\ secret' = [secret EXCEPT ![k].state = "revoked"]

\* Mutant: a cookie that is missing is not replaced.
RotatesOther(c) == call[c].cookies.csrf \notin {None, call[c].row}

\* The rest of authenticate, and the handler.  A cookie that is not the session's
\* token has the token replaced, whatever other requests know of the old one.
Rotates(c) == call[c].cookies.csrf = None \/ call[c].cookies.csrf # call[c].row

Serve(c) ==
    /\ call[c].phase = "found" /\ call[c].kind \in SessionCalls
    /\ TokenLeft
    /\ LET s == call[c].cookies.session
           token == IF Rotates(c) THEN RandomToken ELSE call[c].row
           set == IF Rotates(c) THEN [csrf |-> token] ELSE <<>>
           kept == [session EXCEPT ![s].csrf = IF Rotates(c) THEN token ELSE @]
           valid == CsrfValid(c, token)
       IN  IF call[c].kind \in {"write", "logout"} /\ ~valid
           THEN /\ session' = kept
                /\ call' = [call EXCEPT ![c] = Answered(c, FALSE, set, None, None)]
                /\ UNCHANGED secret
           ELSE CASE call[c].kind = "me" ->
                     /\ session' = kept
                     /\ call' = [call EXCEPT ![c] =
                                   Answered(c, TRUE, set, session[s].user, token)]
                     /\ UNCHANGED secret
                  [] call[c].kind = "read" ->
                     /\ session' = kept
                     /\ call' = [call EXCEPT ![c] = Answered(c, TRUE, set, None, None)]
                     /\ UNCHANGED secret
                  [] call[c].kind = "write" ->
                     /\ session' = kept
                     /\ call' = [call EXCEPT ![c] = Answered(c, TRUE, set, None, None)]
                     /\ \/ \E k \in Secrets : Issue(k, c) \/ Revoke(k)
                        \/ UNCHANGED secret
                  [] call[c].kind = "logout" ->
                     /\ session' = [kept EXCEPT ![s].state = IF @ = "live" THEN "revoked" ELSE @]
                     /\ call' = [call EXCEPT ![c] = Answered(c, TRUE, Cleared, None, None)]
                     /\ UNCHANGED secret
    /\ UNCHANGED <<active, bound, transaction, jar, tab, left>>

\* A new session row, and the answer that hands out its tokens.
Opened(p, token, x, u, b) ==
    [state |-> "live", user |-> p, csrf |-> token, via |-> x, subject |-> u, browser |-> b]

\* POST /auth/login: the active candidates are read, the password is hashed, and
\* only then the session is made.
LookUpUser(c) ==
    /\ call[c].phase = "sent" /\ call[c].kind = "login"
    /\ call' = IF call[c].with \in active
               THEN Found(c, None) ELSE [call EXCEPT ![c] = Refused(c)]
    /\ UNCHANGED <<rows, jar, tab, left>>

OpenSession(c, p, x, u) ==
    LET s == CHOOSE s \in Sessions : session[s].state = "none"
        token == RandomToken
        cookies == IF x = None THEN [session |-> s, csrf |-> token]
                   ELSE [session |-> s, csrf |-> token, oidc |-> None]
    IN  /\ TokenLeft /\ \E free \in Sessions : session[free].state = "none"
        /\ session' = [session EXCEPT ![s] = Opened(p, token, x, u, call[c].browser)]
        /\ call' = [call EXCEPT ![c] = Answered(c, TRUE, cookies, p, token)]

PasswordChecked(c) ==
    /\ call[c].phase = "found" /\ call[c].kind = "login"
    /\ \/ OpenSession(c, call[c].with, None, None)
       \/ call' = [call EXCEPT ![c] = Refused(c)] /\ UNCHANGED session
    /\ UNCHANGED <<active, bound, transaction, secret, jar, tab, left>>

\* beginOidcLogin: the row keeps the state and the transaction token; the browser
\* gets the one as a cookie and the other in the provider's URL.
Begin(c) ==
    /\ call[c].phase = "sent" /\ call[c].kind = "start"
    /\ \E free \in Transactions : transaction[free].state = "none"
    /\ LET x == CHOOSE x \in Transactions : transaction[x].state = "none"
       IN /\ transaction' = [transaction EXCEPT ![x] =
                               [state |-> "open", browser |-> call[c].browser]]
          /\ call' = [call EXCEPT ![c] = Answered(c, TRUE, [oidc |-> x], None, x)]
    /\ UNCHANGED <<active, bound, session, secret, jar, tab, left>>

\* completeOidcLogin up to the consumption of the transaction.
LookUpTransaction(c) ==
    /\ call[c].phase = "sent" /\ call[c].kind = "callback"
    /\ LET x == call[c].cookies.oidc
       IN  call' = IF x # None /\ call[c].with = x /\ transaction[x].state = "open"
                   THEN Found(c, x) ELSE [call EXCEPT ![c] = SsoFailed(c)]
    /\ UNCHANGED <<rows, jar, tab, left>>

\* Mutant: the update does not look whether the row is consumed already.
CanConsumeAgain(x) == transaction[x].state \in {"open", "consumed"}

\* consumeOidcLoginTransaction updates a row only if nobody consumed it before.
CanConsume(x) == transaction[x].state = "open"

Consume(c) ==
    /\ call[c].phase = "found" /\ call[c].kind = "callback"
    /\ LET x == call[c].row
       IN  IF CanConsume(x)
           THEN /\ transaction' = [transaction EXCEPT ![x].state = "consumed"]
                /\ call' = [call EXCEPT ![c].phase = "exchanging"]
           ELSE /\ call' = [call EXCEPT ![c] = SsoFailed(c)]
                /\ UNCHANGED transaction
    /\ UNCHANGED <<active, bound, session, secret, jar, tab, left>>

\* Mutant: the e-mail is looked up before the binding.
ResolvedByMail(u, m) ==
    CASE m # None -> IF m \in active THEN m ELSE None
      [] bound[u] \in active -> bound[u]
      [] OTHER -> None

\* resolvePreprovisionedUser: who a subject signs in as when the provider reports
\* the verified e-mail of m (None: none that is verified).
Resolved(u, m) ==
    CASE bound[u] # None -> IF bound[u] \in active THEN bound[u] ELSE None
      [] m = None \/ m \notin active -> None
      [] \E other \in Subjects : bound[other] = m -> None
      [] OTHER -> m

\* The code is exchanged, the user resolved and bound, and the session made.
Exchange(c) ==
    /\ call[c].phase = "exchanging"
    /\ \/ \E u \in Subjects : \E m \in Mail[u] \cup {None} :
             IF Resolved(u, m) = None
             THEN /\ call' = [call EXCEPT ![c] = SsoFailed(c)]
                  /\ UNCHANGED <<bound, session>>
             ELSE /\ bound' = [bound EXCEPT ![u] = IF @ = None THEN Resolved(u, m) ELSE @]
                  /\ OpenSession(c, Resolved(u, m), call[c].row, u)
       \/ /\ call' = [call EXCEPT ![c] = SsoFailed(c)]
          /\ UNCHANGED <<bound, session>>
    /\ UNCHANGED <<active, transaction, secret, jar, tab, left>>

-----------------------------------------------------------------------------
(* Answers reach the browser, or do not. *)

\* What the page makes of an answer.  A read that succeeds changes nothing the page
\* acts on: a token that its answer replaced is noticed only by the next write.
Heard(t, answer) ==
    CASE answer.kind \in {"me", "login"} /\ answer.ok ->
            [tab[t] EXCEPT !.user = answer.user, !.csrf = answer.token, !.at = "app",
                           !.last = "none"]
      [] answer.kind = "me" /\ ~answer.ok -> [tab[t] EXCEPT !.at = "app"]
      [] answer.kind = "logout" /\ answer.ok ->
            [tab[t] EXCEPT !.user = None, !.csrf = None]
      [] answer.kind = "write" /\ answer.ok -> [tab[t] EXCEPT !.last = "saved"]
      [] answer.kind = "start" /\ answer.ok -> [tab[t] EXCEPT !.at = answer.token]
      [] answer.kind = "callback" -> NewPage
      [] answer.kind = "read" /\ answer.ok -> tab[t]
      [] OTHER -> [tab[t] EXCEPT !.last = "error"]

\* Set-Cookie: what an answer names is replaced, the rest stays.
Keeping(cookies, set) == [n \in DOMAIN cookies |-> IF n \in DOMAIN set THEN set[n] ELSE cookies[n]]

Deliver(c) ==
    /\ call[c].phase = "answered"
    /\ jar' = [jar EXCEPT ![call[c].browser] = Keeping(@, call[c].set)]
    /\ tab' = IF call[c].tab = None THEN tab
              ELSE [tab EXCEPT ![call[c].tab] = Heard(call[c].tab, call[c])]
    /\ call' = [call EXCEPT ![c] = Idle]
    /\ UNCHANGED <<rows, left>>

-----------------------------------------------------------------------------
(* What goes wrong meanwhile. *)

Mishap == left.mishaps > 0 /\ left' = [left EXCEPT !.mishaps = @ - 1]

\* The request, its handler or its answer is lost; the page shows an error.
Lose(c) ==
    /\ call[c].phase # "idle" /\ Mishap
    /\ tab' = IF call[c].tab = None \/ call[c].kind = "callback" THEN tab
              ELSE [tab EXCEPT ![call[c].tab].last = "error",
                               ![call[c].tab].at = IF @ = "loading" THEN "app" ELSE @]
    /\ call' = [call EXCEPT ![c] = Idle]
    /\ UNCHANGED <<rows, jar>>

\* The readable cookie is gone, the HttpOnly one is not.
DropCsrfCookie(b) ==
    /\ jar[b].csrf # None /\ Mishap
    /\ jar' = [jar EXCEPT ![b].csrf = None]
    /\ UNCHANGED <<rows, tab, call>>

ExpireSession(s) ==
    /\ session[s].state = "live" /\ Mishap
    /\ session' = [session EXCEPT ![s].state = "expired"]
    /\ UNCHANGED <<active, bound, transaction, secret, jar, tab, call>>

ExpireTransaction(x) ==
    /\ transaction[x].state = "open" /\ Mishap
    /\ transaction' = [transaction EXCEPT ![x].state = "expired"]
    /\ UNCHANGED <<active, bound, session, secret, jar, tab, call>>

\* The operator disables a user, or enables one again.
SetUserStatus(p) ==
    /\ Mishap
    /\ active' = IF p \in active THEN active \ {p} ELSE active \cup {p}
    /\ UNCHANGED <<bound, transaction, session, secret, jar, tab, call>>

Handle(c) ==
    \/ LookUpSession(c) \/ Serve(c) \/ LookUpUser(c) \/ PasswordChecked(c)
    \/ Begin(c) \/ LookUpTransaction(c) \/ Consume(c) \/ Exchange(c) \/ Deliver(c)

Use(t) ==
    \/ Load(t) \/ Read(t) \/ Write(t) \/ Logout(t) \/ Login(t) \/ StartSso(t) \/ Return(t)

Next ==
    \/ \E t \in left.tabs : Use(t)
    \/ \E c \in Calls : Handle(c) \/ Lose(c)
    \/ \E b \in Browsers : DropCsrfCookie(b)
    \/ \E s \in Sessions : ExpireSession(s)
    \/ \E x \in Transactions : ExpireTransaction(x)
    \/ \E p \in People : SetUserStatus(p)

Spec == Init /\ [][Next]_vars

\* The server handles and the browser hears what is under way.  The patient
\* person's chance comes again and again, between the requests of other tabs.
LiveSpec ==
    /\ Spec
    /\ \A c \in Calls : WF_vars(Handle(c))
    /\ SF_vars(Write(Patient)) /\ SF_vars(Load(Patient) /\ tab[Patient].last = "error")

-----------------------------------------------------------------------------

\* One sign-in at the provider makes at most one session, and makes it in the
\* browser that began it, although its callback is opened twice, in two tabs or
\* in another browser, and two processes look the transaction up together.
SignInsAreSingleUse ==
    \A s \in Sessions : session[s].via # None =>
        /\ session[s].browser = transaction[session[s].via].browser
        /\ \A other \in Sessions \ {s} : session[other].via # session[s].via

\* A subject of the provider signs in as one user and a user has one subject, for
\* good: a later report of another e-mail moves neither the binding nor a session.
SubjectsKeepTheirUser ==
    /\ \A u, v \in Subjects : bound[u] = bound[v] /\ bound[u] # None => u = v
    /\ \A s \in Sessions : session[s].via # None => session[s].user = bound[session[s].subject]

\* What is written is written by the person the page showed when its button was
\* pressed, although another tab signed somebody else in under the same cookies
\* before the request was sent or while it was under way.
WritesAreAsShown ==
    \A k \in Secrets : secret[k].state # "none" => secret[k].by = secret[k].shown

\* A person who keeps trying, and reloads a page that failed, saves in the end or
\* finds themself signed out: no exchange of tokens between the tabs goes on
\* refusing them once requests no longer overlap.
WriteEventuallyAccepted ==
    tab[Patient].user # None /\ {"write", "reload"} \subseteq left.does
       ~> tab[Patient].last = "saved" \/ SignedOut(Patient)
=============================================================================
