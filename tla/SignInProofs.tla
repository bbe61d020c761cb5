----------------------------- MODULE SignInProofs -----------------------------
(***************************************************************************)
(* Proofs about SignIn, for any number of browsers, tabs, people, subjects,*)
(* sessions, transactions and requests in flight, and any bounds.          *)
(***************************************************************************)
EXTENDS SignIn, TLAPS

-----------------------------------------------------------------------------
(* Types.                                                                  *)

SessionRow ==
    [state : {"none", "live", "expired", "revoked"}, user : People \cup {None},
     csrf : Tokens \cup {None}, via : Transactions \cup {None},
     subject : Subjects \cup {None}, browser : Browsers \cup {None}]

TransactionRow ==
    [state : {"none", "open", "consumed", "expired"}, browser : Browsers \cup {None}]

SecretRow ==
    [state : {"none", "valid", "revoked"}, by : People \cup {None}, shown : People \cup {None}]

Cookies ==
    [session : Sessions \cup {None}, csrf : Tokens \cup {None}, oidc : Transactions \cup {None}]

Page ==
    [user : People \cup {None}, csrf : Tokens \cup {None},
     at : {"blank", "loading", "app"} \cup Transactions, last : {"none", "saved", "error"}]

Bounds ==
    [haste : Int, mishaps : Int, logins : Int, starts : Int, who : SUBSET People,
     does : SUBSET {"reload", "read", "write", "logout"}, tabs : SUBSET Tabs]

\* The cookies an answer may set.
SetFits(set) ==
    /\ DOMAIN set \subseteq DOMAIN NoCookies
    /\ "session" \in DOMAIN set => set["session"] \in Sessions \cup {None}
    /\ "csrf" \in DOMAIN set => set["csrf"] \in Tokens \cup {None}
    /\ "oidc" \in DOMAIN set => set["oidc"] \in Transactions \cup {None}

\* What a page sends along with a request of each kind.
WithFits(kind, with) ==
    /\ kind \in SessionCalls \cup {"login", "start", "callback"}
    /\ kind \in SessionCalls => with \in Tokens \cup {None}
    /\ kind = "login" => with \in People

CallFits(r) ==
    /\ DOMAIN r = DOMAIN Idle
    /\ r.phase \in {"idle", "sent", "found", "exchanging", "answered"}
    /\ r.tab \in Tabs \cup {None} /\ r.browser \in Browsers \cup {None}
    /\ r.phase # "idle" => r.browser \in Browsers
    /\ r.shown \in People \cup {None} /\ r.user \in People \cup {None}
    /\ r.cookies \in Cookies /\ SetFits(r.set)
    /\ r.phase \in {"sent", "found"} => WithFits(r.kind, r.with)
    /\ r.phase = "found" /\ r.kind \in SessionCalls =>
          r.row \in Tokens \cup {None} /\ r.cookies.session \in Sessions
    /\ r.phase = "found" /\ r.kind = "callback" => r.row \in Transactions
    /\ r.phase = "exchanging" => r.kind = "callback" /\ r.row \in Transactions
    /\ r.phase = "answered" /\ r.kind \in {"me", "login"} => r.token \in Tokens \cup {None}
    /\ r.phase = "answered" /\ r.kind = "start" /\ r.ok => r.token \in Transactions

CallsFit == DOMAIN call = Calls /\ \A c \in Calls : CallFits(call[c])

TypeInv ==
    /\ active \in SUBSET People
    /\ bound \in [Subjects -> People \cup {None}]
    /\ transaction \in [Transactions -> TransactionRow]
    /\ session \in [Sessions -> SessionRow]
    /\ secret \in [Secrets -> SecretRow]
    /\ jar \in [Browsers -> Cookies]
    /\ tab \in [Tabs -> Page]
    /\ CallsFit
    /\ left \in Bounds

-----------------------------------------------------------------------------
(* Cookies and requests.                                                   *)

\* A cookie jar that takes what a response sets is a cookie jar.
LEMMA KeepingFits ==
    ASSUME NEW set, SetFits(set), NEW j \in Cookies
    PROVE  Keeping(j, set) \in Cookies
<1> DEFINE m == [x \in {"session", "csrf", "oidc"} |-> IF x \in DOMAIN set THEN set[x] ELSE j[x]]
<1>1. DOMAIN j = {"session", "csrf", "oidc"}
  BY DEF Cookies
<1>2. Keeping(j, set) = m
  BY <1>1 DEF Keeping
<1>3. m = [session |-> m["session"], csrf |-> m["csrf"], oidc |-> m["oidc"]]
  OBVIOUS
<1>4. /\ m["session"] \in Sessions \cup {None} /\ m["csrf"] \in Tokens \cup {None}
      /\ m["oidc"] \in Transactions \cup {None}
  BY DEF SetFits, Cookies
<1> HIDE DEF m
<1> QED BY <1>2, <1>3, <1>4 DEF Cookies

\* The sets of cookies that answers carry.
LEMMA SetsFit ==
    /\ SetFits(<<>>) /\ SetFits(Cleared) /\ SetFits([oidc |-> None])
    /\ \A k \in Tokens : SetFits([csrf |-> k])
    /\ \A x \in Transactions : SetFits([oidc |-> x])
    /\ \A s \in Sessions, k \in Tokens :
          /\ SetFits([session |-> s, csrf |-> k])
          /\ SetFits([session |-> s, csrf |-> k, oidc |-> None])
<1>1. SetFits(<<>>) /\ SetFits(Cleared) /\ SetFits([oidc |-> None])
  BY DEF SetFits, NoCookies, Cleared
<1>2. \A k \in Tokens : SetFits([csrf |-> k])
  BY DEF SetFits, NoCookies
<1>3. \A x \in Transactions : SetFits([oidc |-> x])
  BY DEF SetFits, NoCookies
<1>4. ASSUME NEW s \in Sessions, NEW k \in Tokens
      PROVE  SetFits([session |-> s, csrf |-> k]) /\ SetFits([session |-> s, csrf |-> k, oidc |-> None])
  BY DEF SetFits, NoCookies
<1> QED BY <1>1, <1>2, <1>3, <1>4

\* A request that is not under way fits.
LEMMA IdleFits == CallFits(Idle)
BY SetsFit DEF CallFits, Idle, Cookies, NoCookies

\* Replacing one request keeps the others.
LEMMA OneCall ==
    ASSUME CallsFit, NEW c \in Calls, NEW r, CallFits(r), call' = [call EXCEPT ![c] = r]
    PROVE  CallsFit'
BY DEF CallsFit, CallFits, SetFits, WithFits, SessionCalls, Idle, NoCookies, Cookies

\* Requests that do not change keep fitting.
LEMMA SameCalls == ASSUME CallsFit, UNCHANGED call PROVE CallsFit'
BY DEF CallsFit, CallFits, SetFits, WithFits, SessionCalls, Idle, NoCookies, Cookies

\* An answer is a request that fits.
LEMMA AnswerFits ==
    ASSUME NEW c \in Calls, CallFits(call[c]), call[c].phase # "idle",
           NEW ok, NEW set, SetFits(set), NEW user \in People \cup {None}, NEW token,
           call[c].kind \in {"me", "login"} => token \in Tokens \cup {None},
           call[c].kind = "start" /\ ok => token \in Transactions
    PROVE  CallFits(Answered(c, ok, set, user, token))
<1> DEFINE r == Answered(c, ok, set, user, token)
<1>1. /\ DOMAIN r = DOMAIN Idle
      /\ r.phase = "answered" /\ r.kind = call[c].kind /\ r.tab = call[c].tab
      /\ r.browser = call[c].browser /\ r.ok = ok /\ r.set = set /\ r.user = user /\ r.token = token
      /\ r.shown = None /\ r.cookies = NoCookies
  BY DEF Answered, Idle
<1>2. NoCookies \in Cookies
  BY DEF NoCookies, Cookies
<1> HIDE DEF r
<1>3. CallFits(r)
  BY <1>1, <1>2 DEF CallFits
<1> QED BY <1>3 DEF r

\* A request past its look-up fits.
LEMMA FoundFits ==
    ASSUME NEW c \in Calls, CallFits(call[c]), call[c].phase = "sent", NEW row,
           call[c].kind \in SessionCalls =>
              row \in Tokens \cup {None} /\ call[c].cookies.session \in Sessions,
           call[c].kind = "callback" => row \in Transactions
    PROVE  CallFits([call[c] EXCEPT !.phase = "found", !.row = row])
BY DEF CallFits, Idle, WithFits

\* A request that is sent fits.
LEMMA SentFits ==
    ASSUME TypeInv, NEW t \in Tabs, NEW kind, NEW with, WithFits(kind, with)
    PROVE  CallFits(Sent(t, kind, with))
<1> DEFINE r == Sent(t, kind, with)
<1>1. HomeOf[t] \in Browsers
  BY SignInAssumption
<1>2. tab[t].user \in People \cup {None} /\ jar[HomeOf[t]] \in Cookies
  BY <1>1 DEF TypeInv, Page
<1>3. /\ DOMAIN r = DOMAIN Idle
      /\ r.phase = "sent" /\ r.kind = kind /\ r.tab = t /\ r.browser = HomeOf[t] /\ r.with = with
      /\ r.shown = tab[t].user /\ r.cookies = jar[HomeOf[t]] /\ r.set = <<>> /\ r.user = None
  BY DEF Sent, Idle
<1> HIDE DEF r
<1>4. CallFits(r)
  BY <1>1, <1>2, <1>3, SetsFit DEF CallFits
<1> QED BY <1>4 DEF r

\* So do the requests a page leaves behind.
LEMMA LeftFits ==
    ASSUME CallsFit, NEW t
    PROVE  DOMAIN Left(call, t) = Calls /\ \A c \in Calls : CallFits(Left(call, t)[c])
<1> SUFFICES ASSUME NEW c \in Calls PROVE CallFits(Left(call, t)[c])
  BY DEF Left
<1>1. CallFits(call[c])
  BY DEF CallsFit
<1>2. CallFits([call[c] EXCEPT !.tab = None])
  BY <1>1 DEF CallFits, Idle
<1> QED BY <1>1, <1>2 DEF Left

\* A request that is sent takes an idle place.
LEMMA SendFits ==
    ASSUME TypeInv, NEW t \in Tabs, NEW kind, NEW with, WithFits(kind, with),
           Send(t, kind, with, call) \/ Send(t, kind, with, Left(call, t))
    PROVE  CallsFit' /\ left' \in Bounds /\ UNCHANGED <<rows, jar>>
<1> DEFINE c == CHOOSE c \in Calls : call[c].phase = "idle"
<1>1. c \in Calls /\ call[c].phase = "idle"
  BY DEF Send
<1>2. CallFits(Sent(t, kind, with))
  BY SentFits
<1>3. left' \in Bounds /\ UNCHANGED <<rows, jar>>
  <2>1. left \in Bounds
    BY DEF TypeInv
  <2> DEFINE h == IF InFlight(HomeOf[t]) = {} THEN left.haste ELSE left.haste - 1
             l == IF kind = "login" THEN left.logins - 1 ELSE left.logins
             n == IF kind = "start" THEN left.starts - 1 ELSE left.starts
  <2>2. left' = [left EXCEPT !.haste = h, !.logins = l, !.starts = n]
    BY DEF Send
  <2>4. h \in Int /\ l \in Int /\ n \in Int
    <3>1. left.haste \in Int /\ left.logins \in Int /\ left.starts \in Int
      BY <2>1 DEF Bounds
    <3> QED BY <3>1
  <2> HIDE DEF h, l, n
  <2>3. UNCHANGED <<rows, jar>>
    BY DEF Send
  <2> QED BY <2>1, <2>2, <2>3, <2>4 DEF Bounds
<1>4. CASE Send(t, kind, with, call)
  <2>1. call' = [call EXCEPT ![c] = Sent(t, kind, with)]
    BY <1>4 DEF Send
  <2> HIDE DEF c
  <2>2. CallsFit'
    BY <1>1, <1>2, <2>1, OneCall DEF TypeInv
  <2> QED BY <1>3, <2>2
<1>5. CASE Send(t, kind, with, Left(call, t))
  <2>1. call' = [Left(call, t) EXCEPT ![c] = Sent(t, kind, with)]
    BY <1>5 DEF Send
  <2> HIDE DEF c
  <2>2. DOMAIN Left(call, t) = Calls /\ \A d \in Calls : CallFits(Left(call, t)[d])
    BY LeftFits DEF TypeInv
  <2>3. DOMAIN call' = Calls /\ \A d \in Calls : CallFits(call'[d])
    BY <1>1, <1>2, <2>1, <2>2
  <2>4. CallsFit'
    BY <2>3 DEF CallsFit, CallFits, SetFits, WithFits, SessionCalls, Idle, NoCookies, Cookies
  <2> QED BY <1>3, <2>4
<1> QED BY <1>4, <1>5

\* What a tab does keeps the types.
LEMMA UseTyped == ASSUME TypeInv, NEW t \in Tabs, t \in left.tabs, Use(t) PROVE TypeInv'
<1>1. NewPage \in Page /\ [NewPage EXCEPT !.at = "loading"] \in Page
  BY DEF NewPage, Page
<1>2. tab[t] \in Page /\ tab[t].csrf \in Tokens \cup {None}
  BY DEF TypeInv, Page
<1>3. ASSUME NEW kind, NEW with, WithFits(kind, with), tab' \in [Tabs -> Page],
             Send(t, kind, with, call) \/ Send(t, kind, with, Left(call, t))
      PROVE  TypeInv'
  <2>1. CallsFit' /\ left' \in Bounds /\ UNCHANGED <<rows, jar>>
    BY <1>3, SendFits
  <2>2. UNCHANGED <<active, bound, transaction, session, secret, jar>>
    BY <2>1 DEF rows
  <2> QED BY <1>3, <2>1, <2>2 DEF TypeInv, Bounds, Page, Cookies, SecretRow, SessionRow, TransactionRow
<1>4. CASE Load(t)
  <2>1. tab' \in [Tabs -> Page]
    BY <1>1, <1>4 DEF Load, TypeInv
  <2>2. WithFits("me", None)
    BY DEF WithFits, SessionCalls
  <2> QED BY <1>3, <1>4, <2>1, <2>2 DEF Load
<1>5. CASE Read(t)
  <2>1. WithFits("read", None)
    BY DEF WithFits, SessionCalls
  <2>2. [tab[t] EXCEPT !.last = "none"] \in Page
    BY <1>2 DEF Page
  <2>3. tab' \in [Tabs -> Page]
    BY <1>5, <2>2 DEF Read, TypeInv
  <2> QED BY <1>3, <1>5, <2>1, <2>3 DEF Read
<1>6. CASE Write(t)
  <2>1. WithFits("write", tab[t].csrf)
    BY <1>2 DEF WithFits, SessionCalls
  <2> QED BY <1>3, <1>6, <2>1 DEF Write, TypeInv
<1>7. CASE Logout(t)
  <2>1. WithFits("logout", tab[t].csrf)
    BY <1>2 DEF WithFits, SessionCalls
  <2> QED BY <1>3, <1>7, <2>1 DEF Logout, TypeInv
<1>8. CASE Login(t)
  <2>1. PICK p \in left.who : Send(t, "login", p, call)
    BY <1>8 DEF Login
  <2>2. WithFits("login", p)
    BY <2>1 DEF WithFits, SessionCalls, TypeInv, Bounds
  <2> QED BY <1>3, <1>8, <2>1, <2>2 DEF Login, TypeInv
<1>9. CASE StartSso(t)
  <2>1. WithFits("start", None)
    BY DEF WithFits, SessionCalls
  <2> QED BY <1>3, <1>9, <2>1 DEF StartSso, TypeInv
<1>10. CASE Return(t)
  <2>1. PICK other \in Tabs : Send(t, "callback", tab[other].at, Left(call, t))
    BY <1>10 DEF Return
  <2>2. WithFits("callback", tab[other].at)
    BY DEF WithFits, SessionCalls
  <2> QED BY <1>3, <1>10, <2>1, <2>2 DEF Return, TypeInv
<1> QED BY <1>4, <1>5, <1>6, <1>7, <1>8, <1>9, <1>10 DEF Use

-----------------------------------------------------------------------------
(* What the handlers do.                                                   *)

ServedToken(c) == IF Rotates(c) THEN RandomToken ELSE call[c].row

\* A random token is held nowhere.
LEMMA FreshToken == TokenLeft => RandomToken \in Tokens /\ RandomToken \notin Held
BY DEF TokenLeft, RandomToken

\* The row of a session after a request under it, and the answer to the request.
RowServed(c, csrf, state) ==
    LET s == call[c].cookies.session
    IN  /\ csrf \in {ServedToken(c), session[s].csrf} /\ state \in {"revoked", session[s].state}
        /\ session' = [session EXCEPT ![s] = [session[s] EXCEPT !.csrf = csrf, !.state = state]]
        /\ csrf # session[s].csrf => Rotates(c)
        /\ session[s].state = "none" => state = "none"

AnswerServed(c, ok, set, user, body) ==
    /\ call' = [call EXCEPT ![c] = Answered(c, ok, set, user, body)]
    /\ set = <<>> \/ set = Cleared \/ set = [csrf |-> ServedToken(c)]
    /\ \/ user = None /\ body = None
       \/ /\ call[c].kind = "me" /\ user = session[call[c].cookies.session].user
          /\ body = ServedToken(c)

SecretServed(c) ==
    \/ UNCHANGED secret
    \/ call[c].kind = "write" /\ CsrfValid(c, ServedToken(c)) /\ \E k \in Secrets : Issue(k, c)
    \/ \E k \in Secrets : Revoke(k)

\* A request under a session replaces the token of its session at most, and issues
\* or revokes a secret only with the token of the session as the page holds it.
LEMMA ServeDoes ==
    ASSUME TypeInv, NEW c \in Calls, Serve(c)
    PROVE  /\ call[c].phase = "found" /\ call[c].kind \in SessionCalls /\ TokenLeft
           /\ call[c].cookies.session \in Sessions /\ ServedToken(c) \in Tokens \cup {None}
           /\ \E csrf, state : RowServed(c, csrf, state)
           /\ \E ok, set, user, body : AnswerServed(c, ok, set, user, body)
           /\ SecretServed(c)
           /\ UNCHANGED <<active, bound, transaction, jar, tab, left>>
<1> DEFINE s == call[c].cookies.session
           token == ServedToken(c)
           csrf == IF Rotates(c) THEN token ELSE session[s].csrf
           kept == [session EXCEPT ![s].csrf = csrf]
           set == IF Rotates(c) THEN [csrf |-> token] ELSE <<>>
           Same == session' = kept
           Left0(ok, sent, user, body) == call' = [call EXCEPT ![c] = Answered(c, ok, sent, user, body)]
<1>1. /\ call[c].phase = "found" /\ call[c].kind \in SessionCalls /\ TokenLeft
      /\ UNCHANGED <<active, bound, transaction, jar, tab, left>>
  BY DEF Serve
<1>2. s \in Sessions /\ token \in Tokens \cup {None}
  BY <1>1, FreshToken DEF TypeInv, CallsFit, CallFits, ServedToken
<1>3. session[s] \in SessionRow /\ session \in [Sessions -> SessionRow]
  BY <1>2 DEF TypeInv
<1>4. kept = [session EXCEPT ![s].csrf = csrf, ![s].state = session[s].state]
  BY <1>2, <1>3 DEF SessionRow
<1>5. \/ kept = session' /\ Left0(FALSE, set, None, None) /\ UNCHANGED secret
      \/ call[c].kind = "me" /\ kept = session' /\ Left0(TRUE, set, session[s].user, token)
         /\ UNCHANGED secret
      \/ /\ kept = session' /\ Left0(TRUE, set, None, None)
         /\ \/ UNCHANGED secret
            \/ /\ call[c].kind = "write" /\ CsrfValid(c, token)
               /\ \E k \in Secrets : Issue(k, c) \/ Revoke(k)
      \/ /\ session' = [kept EXCEPT ![s].state = IF @ = "live" THEN "revoked" ELSE @]
         /\ Left0(TRUE, Cleared, None, None) /\ UNCHANGED secret
  <2>1. Serve(c) => \/ call[c].kind \in {"write", "logout"} /\ ~CsrfValid(c, token)
                    \/ call[c].kind \in {"me", "read"}
                    \/ call[c].kind \in {"write", "logout"} /\ CsrfValid(c, token)
    BY <1>1 DEF SessionCalls
  <2>2. CASE call[c].kind \in {"write", "logout"} /\ ~CsrfValid(c, token)
    BY <2>2 DEF Serve, ServedToken
  <2>3. CASE call[c].kind = "me"
    BY <2>3 DEF Serve, ServedToken
  <2>4. CASE call[c].kind = "read"
    BY <2>4 DEF Serve, ServedToken
  <2>5. CASE call[c].kind = "write" /\ CsrfValid(c, token)
    BY <2>5 DEF Serve, ServedToken
  <2>6. CASE call[c].kind = "logout" /\ CsrfValid(c, token)
    BY <2>6 DEF Serve, ServedToken
  <2> QED BY <2>1, <2>2, <2>3, <2>4, <2>5, <2>6
<1>6. \E new, state : RowServed(c, new, state)
  <2> DEFINE state == IF session[s].state = "live" THEN "revoked" ELSE session[s].state
  <2>1. csrf \in {token, session[s].csrf} /\ (csrf # session[s].csrf => Rotates(c))
    OBVIOUS
  <2>2. CASE session' = kept
    <3>1. session' = [session EXCEPT ![s] = [session[s] EXCEPT !.csrf = csrf, !.state = session[s].state]]
      BY <1>2, <1>3, <2>2 DEF SessionRow
    <3>2. RowServed(c, csrf, session[s].state)
      BY <2>1, <3>1 DEF RowServed
    <3> QED BY <3>2
  <2>3. CASE session' = [kept EXCEPT ![s].state = IF @ = "live" THEN "revoked" ELSE @]
    <3>1. session' = [session EXCEPT ![s] = [session[s] EXCEPT !.csrf = csrf, !.state = state]]
      BY <1>2, <1>3, <2>3 DEF SessionRow
    <3>2. RowServed(c, csrf, state)
      BY <2>1, <3>1 DEF RowServed
    <3> QED BY <3>2
  <2> QED BY <1>5, <2>2, <2>3
<1>7. \E ok, new, user, body : AnswerServed(c, ok, new, user, body)
  BY <1>5 DEF AnswerServed
<1>8. SecretServed(c)
  BY <1>5 DEF SecretServed
<1> QED BY <1>1, <1>2, <1>6, <1>7, <1>8

\* A session is made in a row that was free, with a token nobody holds.
SessionMade(c, p, x, u, s, token, set) ==
    /\ s \in Sessions /\ token \in Tokens
    /\ session[s].state = "none" /\ token \notin Held
    /\ session' = [session EXCEPT ![s] = Opened(p, token, x, u, call[c].browser)]
    /\ call' = [call EXCEPT ![c] = Answered(c, TRUE, set, p, token)]
    /\ \/ set = [session |-> s, csrf |-> token]
       \/ set = [session |-> s, csrf |-> token, oidc |-> None]

\* What a new session changes, with its row and token named.
LEMMA OpenSessionDoes ==
    ASSUME NEW c, NEW p, NEW x, NEW u, OpenSession(c, p, x, u)
    PROVE  \E s, token, set : SessionMade(c, p, x, u, s, token, set)
<1> DEFINE s == CHOOSE s \in Sessions : session[s].state = "none"
           set == IF x = None THEN [session |-> s, csrf |-> RandomToken]
                  ELSE [session |-> s, csrf |-> RandomToken, oidc |-> None]
<1>1. s \in Sessions /\ session[s].state = "none"
  BY DEF OpenSession
<1>2. RandomToken \in Tokens /\ RandomToken \notin Held
  BY FreshToken DEF OpenSession
<1>3. /\ session' = [session EXCEPT ![s] = Opened(p, RandomToken, x, u, call[c].browser)]
      /\ call' = [call EXCEPT ![c] = Answered(c, TRUE, set, p, RandomToken)]
  BY DEF OpenSession
<1>4. SessionMade(c, p, x, u, s, RandomToken, set)
  BY <1>1, <1>2, <1>3 DEF SessionMade
<1> HIDE DEF s, set
<1> QED BY <1>1, <1>2, <1>4

\* Who a subject signs in as is an active person.
LEMMA ResolvedIsActive ==
    ASSUME TypeInv, NEW u \in Subjects, NEW m \in Mail[u] \cup {None}, Resolved(u, m) # None
    PROVE  Resolved(u, m) \in active /\ Resolved(u, m) \in People
BY DEF Resolved, TypeInv

-----------------------------------------------------------------------------
(* The handlers keep the types.                                            *)

\* The look-up of a session keeps the types.
LEMMA LookUpSessionTyped ==
    ASSUME TypeInv, NEW c \in Calls, LookUpSession(c) PROVE TypeInv'
<1> DEFINE s == call[c].cookies.session
<1>1. CallFits(call[c]) /\ call[c].phase = "sent" /\ call[c].kind \in SessionCalls
  BY DEF LookUpSession, TypeInv, CallsFit
<1>2. CASE Usable(s)
  <2>1. s \in Sessions /\ session[s].csrf \in Tokens \cup {None}
    BY <1>1, <1>2 DEF Usable, TypeInv, CallFits, Cookies, SessionRow
  <2>2. call' = [call EXCEPT ![c] = [call[c] EXCEPT !.phase = "found", !.row = session[s].csrf]]
    BY <1>2 DEF LookUpSession, Found
  <2>3. CallFits([call[c] EXCEPT !.phase = "found", !.row = session[s].csrf])
    BY <1>1, <2>1, FoundFits DEF SessionCalls
  <2>4. CallsFit'
    BY <2>2, <2>3, OneCall DEF TypeInv
  <2> QED BY <2>4 DEF LookUpSession, rows, TypeInv, Bounds, Page, Cookies, SecretRow, SessionRow, TransactionRow
<1>3. CASE ~Usable(s)
  <2>1. PICK set : /\ call' = [call EXCEPT ![c] = Answered(c, FALSE, set, None, None)]
                   /\ set \in {<<>>, Cleared}
    BY <1>3 DEF LookUpSession
  <2>2. CallFits(Answered(c, FALSE, set, None, None))
    BY <1>1, <2>1, SetsFit, AnswerFits
  <2>3. CallsFit'
    BY <2>1, <2>2, OneCall DEF TypeInv
  <2> QED BY <2>3 DEF LookUpSession, rows, TypeInv, Bounds, Page, Cookies, SecretRow, SessionRow, TransactionRow
<1> QED BY <1>2, <1>3

\* The handling of a request under a session keeps the types.
LEMMA ServeTyped ==
    ASSUME TypeInv, NEW c \in Calls, Serve(c) PROVE TypeInv'
<1> DEFINE s == call[c].cookies.session
<1>1. CallFits(call[c]) /\ call[c].phase = "found" /\ call[c].kind \in SessionCalls
  BY DEF Serve, TypeInv, CallsFit
<1>2. s \in Sessions /\ ServedToken(c) \in Tokens \cup {None} /\ session[s] \in SessionRow
  BY ServeDoes DEF TypeInv
<1>3. session' \in [Sessions -> SessionRow]
  <2>1. PICK csrf, state : RowServed(c, csrf, state)
    BY ServeDoes
  <2>2. csrf \in Tokens \cup {None} /\ state \in {"none", "live", "expired", "revoked"}
    BY <1>2, <2>1 DEF RowServed, SessionRow
  <2>3. [session[s] EXCEPT !.csrf = csrf, !.state = state] \in SessionRow
    BY <1>2, <2>2 DEF SessionRow
  <2> QED BY <2>1, <2>3 DEF RowServed, TypeInv
<1>4. CallsFit'
  <2>1. PICK ok, set, user, body : AnswerServed(c, ok, set, user, body)
    BY ServeDoes
  <2>2. SetFits([csrf |-> ServedToken(c)])
    BY <1>2 DEF SetFits, NoCookies
  <2>3. SetFits(set)
    BY <2>1, <2>2, SetsFit DEF AnswerServed
  <2>4. user \in People \cup {None} /\ body \in Tokens \cup {None}
    BY <1>2, <2>1 DEF AnswerServed, SessionRow
  <2>5. CallFits(Answered(c, ok, set, user, body))
    BY <1>1, <2>3, <2>4, AnswerFits DEF SessionCalls
  <2> QED BY <2>1, <2>5, OneCall DEF TypeInv, AnswerServed
<1>5. secret' \in [Secrets -> SecretRow]
  <2>1. CASE UNCHANGED secret
    BY <2>1 DEF TypeInv, SecretRow
  <2>2. ASSUME NEW k \in Secrets, Issue(k, c) PROVE secret' \in [Secrets -> SecretRow]
    <3>1. session[s].user \in People \cup {None} /\ call[c].shown \in People \cup {None}
      BY <1>1, <1>2 DEF TypeInv, SessionRow, CallFits
    <3> QED BY <2>2, <3>1 DEF Issue, TypeInv, SecretRow
  <2>3. ASSUME NEW k \in Secrets, Revoke(k) PROVE secret' \in [Secrets -> SecretRow]
    BY <2>3 DEF Revoke, TypeInv, SecretRow
  <2> QED BY <2>1, <2>2, <2>3, ServeDoes DEF SecretServed
<1>6. UNCHANGED <<active, bound, transaction, jar, tab, left>>
  BY ServeDoes
<1> QED BY <1>3, <1>4, <1>5, <1>6 DEF TypeInv, Bounds, Page, Cookies, TransactionRow

\* A handler that only answers.
LEMMA AnswerTyped ==
    ASSUME TypeInv, NEW c \in Calls, call[c].phase # "idle",
           NEW ok, NEW set, SetFits(set), NEW user \in People \cup {None}, NEW token,
           call[c].kind \in {"me", "login"} => token \in Tokens \cup {None},
           call[c].kind = "start" /\ ok => token \in Transactions,
           call' = [call EXCEPT ![c] = Answered(c, ok, set, user, token)]
    PROVE  CallsFit'
<1>1. CallFits(call[c])
  BY DEF TypeInv, CallsFit
<1>2. CallFits(Answered(c, ok, set, user, token))
  BY <1>1, AnswerFits
<1> QED BY <1>2, OneCall DEF TypeInv

\* A new session is of its type.
LEMMA OpenSessionTyped ==
    ASSUME TypeInv, NEW c \in Calls, call[c].phase # "idle", NEW p \in People,
           call[c].kind # "start",
           NEW x \in Transactions \cup {None}, NEW u \in Subjects \cup {None},
           OpenSession(c, p, x, u)
    PROVE  CallsFit' /\ session' \in [Sessions -> SessionRow]
<1>1. PICK s, token, set : SessionMade(c, p, x, u, s, token, set)
  BY OpenSessionDoes
<1>2. SetFits(set)
  BY <1>1, SetsFit DEF SessionMade
<1>3. CallsFit'
  BY <1>1, <1>2, AnswerTyped DEF SessionMade
<1>4. call[c].browser \in Browsers
  BY DEF TypeInv, CallsFit, CallFits
<1>5. Opened(p, token, x, u, call[c].browser) \in SessionRow
  BY <1>1, <1>4 DEF Opened, SessionRow, SessionMade
<1>6. session' \in [Sessions -> SessionRow]
  BY <1>1, <1>5 DEF TypeInv, SessionMade
<1> QED BY <1>3, <1>6

\* A sign-in by password keeps the types.
LEMMA PasswordTyped ==
    ASSUME TypeInv, NEW c \in Calls, LookUpUser(c) \/ PasswordChecked(c) PROVE TypeInv'
<1>1. CallFits(call[c])
  BY DEF TypeInv, CallsFit
<1>2. ASSUME call[c].phase # "idle", call' = [call EXCEPT ![c] = Refused(c)], call[c].kind = "login"
      PROVE  CallsFit'
  BY <1>2, AnswerTyped, SetsFit DEF Refused
<1>3. CASE LookUpUser(c)
  <2>1. CASE call[c].with \in active
    <3>1. call' = [call EXCEPT ![c] = [call[c] EXCEPT !.phase = "found", !.row = None]]
      BY <1>3, <2>1 DEF LookUpUser, Found
    <3>2. CallFits([call[c] EXCEPT !.phase = "found", !.row = None])
      BY <1>1, <1>3, FoundFits DEF LookUpUser, SessionCalls
    <3>3. CallsFit'
      BY <3>1, <3>2, OneCall DEF TypeInv
    <3> QED BY <1>3, <3>3 DEF LookUpUser, rows, TypeInv, Bounds, Page, Cookies, SecretRow, SessionRow, TransactionRow
  <2>2. CASE call[c].with \notin active
    <3>1. CallsFit'
      BY <1>2, <1>3, <2>2 DEF LookUpUser
    <3> QED BY <1>3, <3>1 DEF LookUpUser, rows, TypeInv, Bounds, Page, Cookies, SecretRow, SessionRow, TransactionRow
  <2> QED BY <2>1, <2>2
<1>4. CASE PasswordChecked(c)
  <2>1. call[c].phase = "found" /\ call[c].kind = "login" /\ call[c].with \in People
    BY <1>1, <1>4 DEF PasswordChecked, CallFits, WithFits
  <2>2. CallsFit' /\ session' \in [Sessions -> SessionRow]
    <3>1. CASE OpenSession(c, call[c].with, None, None)
      BY <2>1, <3>1, OpenSessionTyped
    <3>2. CASE call' = [call EXCEPT ![c] = Refused(c)] /\ UNCHANGED session
      BY <1>2, <2>1, <3>2 DEF TypeInv, SessionRow
    <3> QED BY <1>4, <3>1, <3>2 DEF PasswordChecked
  <2> QED BY <1>4, <2>2 DEF PasswordChecked, TypeInv, Bounds, Page, Cookies, SecretRow, TransactionRow
<1> QED BY <1>3, <1>4

\* The start of a sign-in with the provider keeps the types.
LEMMA BeginTyped == ASSUME TypeInv, NEW c \in Calls, Begin(c) PROVE TypeInv'
<1> DEFINE x == CHOOSE x \in Transactions : transaction[x].state = "none"
<1>1. call[c].browser \in Browsers /\ call[c].phase = "sent" /\ call[c].kind = "start"
  BY DEF Begin, TypeInv, CallsFit, CallFits
<1>2. x \in Transactions
  BY DEF Begin
<1>3. /\ transaction' = [transaction EXCEPT ![x] = [state |-> "open", browser |-> call[c].browser]]
      /\ call' = [call EXCEPT ![c] = Answered(c, TRUE, [oidc |-> x], None, x)]
  BY DEF Begin
<1> HIDE DEF x
<1>4. [state |-> "open", browser |-> call[c].browser] \in TransactionRow
  BY <1>1 DEF TransactionRow
<1>5. transaction' \in [Transactions -> TransactionRow]
  BY <1>2, <1>3, <1>4 DEF TypeInv
<1>6. CallsFit'
  BY <1>1, <1>2, <1>3, AnswerTyped, SetsFit
<1> QED BY <1>5, <1>6 DEF Begin, TypeInv, Bounds, Page, Cookies, SecretRow, SessionRow

\* Its callback keeps the types.
LEMMA CallbackTyped ==
    ASSUME TypeInv, NEW c \in Calls, LookUpTransaction(c) \/ Consume(c) \/ Exchange(c)
    PROVE  TypeInv'
<1>1. CallFits(call[c])
  BY DEF TypeInv, CallsFit
<1>2. ASSUME call[c].phase # "idle", call' = [call EXCEPT ![c] = SsoFailed(c)], call[c].kind = "callback"
      PROVE  CallsFit'
  BY <1>2, AnswerTyped, SetsFit DEF SsoFailed
<1>3. CASE LookUpTransaction(c)
  <2> DEFINE x == call[c].cookies.oidc
  <2>1. CASE x # None /\ call[c].with = x /\ transaction[x].state = "open"
    <3>1. call' = [call EXCEPT ![c] = [call[c] EXCEPT !.phase = "found", !.row = x]]
      BY <1>3, <2>1 DEF LookUpTransaction, Found
    <3>2. x \in Transactions
      BY <1>1, <2>1 DEF CallFits, Cookies
    <3>3. CallFits([call[c] EXCEPT !.phase = "found", !.row = x])
      BY <1>1, <1>3, <3>2, FoundFits DEF LookUpTransaction, SessionCalls
    <3>4. CallsFit'
      BY <3>1, <3>3, OneCall DEF TypeInv
    <3> QED BY <1>3, <3>4 DEF LookUpTransaction, rows, TypeInv, Bounds, Page, Cookies, SecretRow, SessionRow, TransactionRow
  <2>2. CASE ~(x # None /\ call[c].with = x /\ transaction[x].state = "open")
    <3>1. CallsFit'
      BY <1>2, <1>3, <2>2 DEF LookUpTransaction
    <3> QED BY <1>3, <3>1 DEF LookUpTransaction, rows, TypeInv, Bounds, Page, Cookies, SecretRow, SessionRow, TransactionRow
  <2> QED BY <2>1, <2>2
<1>4. CASE Consume(c)
  <2>1. call[c].phase = "found" /\ call[c].kind = "callback" /\ call[c].row \in Transactions
    BY <1>1, <1>4 DEF Consume, CallFits
  <2>2. CASE CanConsume(call[c].row)
    <3>1. transaction' \in [Transactions -> TransactionRow]
      BY <1>4, <2>1, <2>2 DEF Consume, TypeInv, TransactionRow
    <3>2. call' = [call EXCEPT ![c] = [call[c] EXCEPT !.phase = "exchanging"]]
      BY <1>4, <2>2 DEF Consume
    <3>3. CallFits([call[c] EXCEPT !.phase = "exchanging"])
      BY <1>1, <2>1 DEF CallFits, Idle, WithFits
    <3>4. CallsFit'
      BY <3>2, <3>3, OneCall DEF TypeInv
    <3> QED BY <1>4, <3>1, <3>4 DEF Consume, TypeInv, Bounds, Page, Cookies, SecretRow, SessionRow
  <2>3. CASE ~CanConsume(call[c].row)
    <3>1. CallsFit' /\ UNCHANGED transaction
      BY <1>2, <1>4, <2>1, <2>3 DEF Consume
    <3> QED BY <1>4, <3>1 DEF Consume, TypeInv, Bounds, Page, Cookies, SecretRow, SessionRow, TransactionRow
  <2> QED BY <2>2, <2>3
<1>5. CASE Exchange(c)
  <2>1. call[c].phase = "exchanging" /\ call[c].kind = "callback" /\ call[c].row \in Transactions
    BY <1>1, <1>5 DEF Exchange, CallFits
  <2>2. CallsFit' /\ session' \in [Sessions -> SessionRow] /\ bound' \in [Subjects -> People \cup {None}]
    <3>1. CASE call' = [call EXCEPT ![c] = SsoFailed(c)] /\ UNCHANGED <<bound, session>>
      BY <1>2, <2>1, <3>1 DEF TypeInv, SessionRow
    <3>2. ASSUME NEW u \in Subjects, NEW m \in Mail[u] \cup {None}, Resolved(u, m) # None,
                 bound' = [bound EXCEPT ![u] = IF @ = None THEN Resolved(u, m) ELSE @],
                 OpenSession(c, Resolved(u, m), call[c].row, u)
          PROVE  CallsFit' /\ session' \in [Sessions -> SessionRow] /\ bound' \in [Subjects -> People \cup {None}]
      <4>1. Resolved(u, m) \in People
        BY <3>2, ResolvedIsActive
      <4>2. CallsFit' /\ session' \in [Sessions -> SessionRow]
        BY <2>1, <3>2, <4>1, OpenSessionTyped
      <4>3. bound' \in [Subjects -> People \cup {None}]
        BY <3>2, <4>1 DEF TypeInv
      <4> QED BY <4>2, <4>3
    <3> QED BY <1>5, <3>1, <3>2 DEF Exchange
  <2> QED BY <1>5, <2>2 DEF Exchange, TypeInv, Bounds, Page, Cookies, SecretRow, TransactionRow
<1> QED BY <1>3, <1>4, <1>5

\* A response that arrives keeps the types.
LEMMA DeliverTyped == ASSUME TypeInv, NEW c \in Calls, Deliver(c) PROVE TypeInv'
<1>1. CallFits(call[c]) /\ call[c].phase = "answered"
  BY DEF Deliver, TypeInv, CallsFit
<1>2. jar' \in [Browsers -> Cookies]
  <2>1. call[c].browser \in Browsers /\ SetFits(call[c].set) /\ jar[call[c].browser] \in Cookies
    BY <1>1 DEF CallFits, TypeInv
  <2>2. Keeping(jar[call[c].browser], call[c].set) \in Cookies
    BY <2>1, KeepingFits
  <2> QED BY <2>1, <2>2 DEF Deliver, TypeInv
<1>3. tab' \in [Tabs -> Page]
  <2>1. CASE call[c].tab = None
    BY <2>1 DEF Deliver, TypeInv, Page
  <2>2. CASE call[c].tab # None
    <3>1. call[c].tab \in Tabs /\ tab[call[c].tab] \in Page
      BY <1>1, <2>2 DEF CallFits, TypeInv
    <3>2. NewPage \in Page
      BY DEF NewPage, Page
    <3>3. Heard(call[c].tab, call[c]) \in Page
      <4>1. call[c].user \in People \cup {None}
        BY <1>1 DEF CallFits
      <4>2. call[c].kind \in {"me", "login"} => call[c].token \in Tokens \cup {None}
        BY <1>1 DEF CallFits
      <4>3. call[c].kind = "start" /\ call[c].ok => call[c].token \in Transactions
        BY <1>1 DEF CallFits
      <4> DEFINE k == call[c].kind
                 p == tab[call[c].tab]
      <4>4. CASE k \in {"me", "login"} /\ call[c].ok
        BY <3>1, <4>1, <4>2, <4>4 DEF Heard, Page
      <4>5. CASE k = "me" /\ ~call[c].ok
        BY <3>1, <4>5 DEF Heard, Page
      <4>6. CASE k = "logout" /\ call[c].ok
        BY <3>1, <4>6 DEF Heard, Page
      <4>7. CASE k = "write" /\ call[c].ok
        BY <3>1, <4>7 DEF Heard, Page
      <4>8. CASE k = "start" /\ call[c].ok
        BY <3>1, <4>3, <4>8 DEF Heard, Page
      <4>9. CASE k = "callback"
        BY <3>2, <4>9 DEF Heard
      <4>10. CASE k = "read" /\ call[c].ok
        BY <3>1, <4>10 DEF Heard
      <4>11. CASE /\ ~(k \in {"me", "login"} /\ call[c].ok) /\ ~(k = "me" /\ ~call[c].ok)
                  /\ ~(k = "logout" /\ call[c].ok) /\ ~(k = "write" /\ call[c].ok)
                  /\ ~(k = "start" /\ call[c].ok) /\ k # "callback" /\ ~(k = "read" /\ call[c].ok)
        <5>1. Heard(call[c].tab, call[c]) = [p EXCEPT !.last = "error"]
          BY <4>11 DEF Heard
        <5> QED BY <3>1, <5>1 DEF Page
      <4> QED BY <4>4, <4>5, <4>6, <4>7, <4>8, <4>9, <4>10, <4>11
    <3> QED BY <2>2, <3>1, <3>3 DEF Deliver, TypeInv
  <2> QED BY <2>1, <2>2
<1>4. CallsFit'
  BY IdleFits, OneCall DEF Deliver, TypeInv
<1> QED BY <1>2, <1>3, <1>4 DEF Deliver, rows, TypeInv, Bounds, SecretRow, SessionRow, TransactionRow

\* What goes wrong meanwhile keeps the types.
LEMMA MishapTyped ==
    ASSUME TypeInv,
           \/ \E c \in Calls : Lose(c)
           \/ \E b \in Browsers : DropCsrfCookie(b)
           \/ \E s \in Sessions : ExpireSession(s)
           \/ \E x \in Transactions : ExpireTransaction(x)
           \/ \E p \in People : SetUserStatus(p)
    PROVE  TypeInv'
<1>1. Mishap => left' \in Bounds
  <2>1. left \in Bounds /\ (Mishap => left' = [left EXCEPT !.mishaps = left.mishaps - 1])
    BY DEF TypeInv, Mishap
  <2>2. left.mishaps - 1 \in Int
    BY <2>1 DEF Bounds
  <2> QED BY <2>1, <2>2 DEF Bounds
<1>2. ASSUME NEW c \in Calls, Lose(c) PROVE TypeInv'
  <2>1. CallsFit'
    BY <1>2, IdleFits, OneCall DEF Lose, TypeInv
  <2>2. tab' \in [Tabs -> Page]
    <3>1. CASE call[c].tab = None \/ call[c].kind = "callback"
      BY <1>2, <3>1 DEF Lose, TypeInv, Page
    <3>2. CASE ~(call[c].tab = None \/ call[c].kind = "callback")
      <4> DEFINE t == call[c].tab
                 at == IF tab[t].at = "loading" THEN "app" ELSE tab[t].at
      <4>1. t \in Tabs /\ tab[t] \in Page /\ tab \in [Tabs -> Page]
        BY <3>2 DEF TypeInv, CallsFit, CallFits
      <4>2. tab' = [tab EXCEPT ![t] = [tab[t] EXCEPT !.last = "error", !.at = at]]
        BY <1>2, <3>2, <4>1 DEF Lose, Page
      <4>3. [tab[t] EXCEPT !.last = "error", !.at = at] \in Page
        BY <4>1 DEF Page
      <4> QED BY <4>1, <4>2, <4>3
    <3> QED BY <3>1, <3>2
  <2> QED BY <1>1, <1>2, <2>1, <2>2 DEF Lose, rows, TypeInv, Cookies, SecretRow, SessionRow, TransactionRow
<1>3. ASSUME NEW b \in Browsers, DropCsrfCookie(b) PROVE TypeInv'
  <2>1. jar' \in [Browsers -> Cookies]
    BY <1>3 DEF DropCsrfCookie, TypeInv, Cookies
  <2> QED BY <1>1, <1>3, <2>1, SameCalls DEF DropCsrfCookie, rows, TypeInv, Page, SecretRow, SessionRow, TransactionRow
<1>4. ASSUME NEW s \in Sessions, ExpireSession(s) PROVE TypeInv'
  <2>1. session' \in [Sessions -> SessionRow]
    BY <1>4 DEF ExpireSession, TypeInv, SessionRow
  <2> QED BY <1>1, <1>4, <2>1, SameCalls DEF ExpireSession, TypeInv, Page, Cookies, SecretRow, TransactionRow
<1>5. ASSUME NEW x \in Transactions, ExpireTransaction(x) PROVE TypeInv'
  <2>1. transaction' \in [Transactions -> TransactionRow]
    BY <1>5 DEF ExpireTransaction, TypeInv, TransactionRow
  <2> QED BY <1>1, <1>5, <2>1, SameCalls DEF ExpireTransaction, TypeInv, Page, Cookies, SecretRow, SessionRow
<1>6. ASSUME NEW p \in People, SetUserStatus(p) PROVE TypeInv'
  <2>1. active' \in SUBSET People
    BY <1>6 DEF SetUserStatus, TypeInv
  <2> QED BY <1>1, <1>6, <2>1, SameCalls DEF SetUserStatus, TypeInv, Page, Cookies, SecretRow, SessionRow, TransactionRow
<1> QED BY <1>2, <1>3, <1>4, <1>5, <1>6

\* The types hold at first.
LEMMA InitTyped == ASSUME Init PROVE TypeInv
<1>1. NoCookies \in Cookies /\ NewPage \in Page /\ NoSession \in SessionRow
  BY DEF NoCookies, Cookies, NewPage, Page, NoSession, SessionRow
<1>2. CallsFit
  BY IdleFits DEF Init, CallsFit
<1>3. left \in Bounds
  <2>1. left \in Settings /\ \A n \in Nat : n \in Int
    BY DEF Init
  <2> QED BY <2>1, SignInAssumption DEF Bounds
<1>4. [state |-> "none", browser |-> None] \in TransactionRow
  BY DEF TransactionRow
<1>5. [state |-> "none", by |-> None, shown |-> None] \in SecretRow
  BY DEF SecretRow
<1> QED BY <1>1, <1>2, <1>3, <1>4, <1>5 DEF Init, TypeInv

\* Every step keeps the types.
LEMMA NextTyped == ASSUME TypeInv, [Next]_vars PROVE TypeInv'
<1>1. ASSUME NEW c \in Calls, Handle(c) PROVE TypeInv'
  BY <1>1, LookUpSessionTyped, ServeTyped, PasswordTyped, BeginTyped, CallbackTyped, DeliverTyped
     DEF Handle
<1>2. ASSUME NEW t \in left.tabs, Use(t) PROVE TypeInv'
  <2>1. t \in Tabs
    BY DEF TypeInv, Bounds
  <2> QED BY <1>2, <2>1, UseTyped
<1>3. CASE UNCHANGED vars
  BY <1>3, SameCalls DEF vars, rows, TypeInv, Bounds, Page, Cookies, SecretRow, SessionRow, TransactionRow
<1>4. CASE Next
  BY <1>1, <1>2, <1>4, MishapTyped DEF Next
<1> QED BY <1>3, <1>4

\* Every row, cookie, page and request is of its type, and a request whose session
\* was found names a session row.
THEOREM Typed == Spec => []TypeInv
<1>1. Init => TypeInv
  BY InitTyped
<1>2. TypeInv /\ [Next]_vars => TypeInv'
  BY NextTyped
<1> QED BY <1>1, <1>2, PTL DEF Spec

-----------------------------------------------------------------------------
(* Subjects and their users.                                               *)

\* A session keeps whose it is and where it came from.
SessionsKept ==
    \A s \in Sessions :
        /\ session'[s].user = session[s].user /\ session'[s].via = session[s].via
        /\ session'[s].subject = session[s].subject /\ session'[s].browser = session[s].browser
        /\ session[s].state # "none" => session'[s].state # "none"

\* Only a password or an exchanged code makes a session, only the latter a binding.
LEMMA WhoMakesSessions ==
    ASSUME TypeInv, [Next]_vars
    PROVE  \/ UNCHANGED bound /\ SessionsKept
           \/ \E c \in Calls : PasswordChecked(c) \/ Exchange(c)
<1>1. UNCHANGED session => SessionsKept
  BY DEF SessionsKept
<1>2. ASSUME NEW c \in Calls, Serve(c) PROVE UNCHANGED bound /\ SessionsKept
  <2>1. PICK csrf, state : RowServed(c, csrf, state)
    BY <1>2, ServeDoes
  <2>2. session \in [Sessions -> SessionRow]
    BY DEF TypeInv
  <2> DEFINE s == call[c].cookies.session
  <2>3. session' = [session EXCEPT ![s] = [session[s] EXCEPT !.csrf = csrf, !.state = state]]
    BY <2>1 DEF RowServed
  <2>4. session[s].state # "none" => state # "none"
    BY <2>1 DEF RowServed
  <2> HIDE DEF s
  <2>5. SessionsKept
    BY <2>2, <2>3, <2>4 DEF SessionsKept, SessionRow
  <2> QED BY <1>2, <2>5, ServeDoes
<1>3. ASSUME NEW c \in Calls, Handle(c), ~PasswordChecked(c), ~Exchange(c)
      PROVE  UNCHANGED bound /\ SessionsKept
  BY <1>1, <1>2, <1>3 DEF Handle, LookUpSession, LookUpUser, Begin, LookUpTransaction, Consume,
     Deliver, rows
<1>4. ASSUME NEW t, Use(t) PROVE UNCHANGED bound /\ SessionsKept
  BY <1>1, <1>4 DEF Use, Load, Read, Write, Logout, Login, StartSso, Return, Send, rows
<1>5. ASSUME NEW s \in Sessions, ExpireSession(s) PROVE UNCHANGED bound /\ SessionsKept
  BY <1>5 DEF ExpireSession, SessionsKept, TypeInv, SessionRow
<1>6. ASSUME \/ \E c \in Calls : Lose(c)
             \/ \E b \in Browsers : DropCsrfCookie(b)
             \/ \E x \in Transactions : ExpireTransaction(x)
             \/ \E p \in People : SetUserStatus(p)
             \/ UNCHANGED vars
      PROVE  UNCHANGED bound /\ SessionsKept
  BY <1>1, <1>6 DEF Lose, DropCsrfCookie, ExpireTransaction, SetUserStatus, vars, rows
<1> QED BY <1>3, <1>4, <1>5, <1>6 DEF Next

\* The bindings are one to one, and the session of a subject is of the user it is
\* bound to.
BindingInv ==
    /\ \A u, v \in Subjects : bound[u] = bound[v] /\ bound[u] # None => u = v
    /\ \A s \in Sessions : session[s].via # None =>
          /\ session[s].subject \in Subjects /\ bound[session[s].subject] # None
          /\ session[s].user = bound[session[s].subject]

\* A sign-in by password binds no subject.
LEMMA PasswordKeepsBindings ==
    ASSUME TypeInv, BindingInv, NEW c \in Calls, PasswordChecked(c) PROVE BindingInv'
<1>1. UNCHANGED bound
  BY DEF PasswordChecked
<1>2. CASE OpenSession(c, call[c].with, None, None)
  <2>1. PICK s, token, set :
           SessionMade(c, call[c].with, None, None, s, token, set)
    BY <1>2, OpenSessionDoes
  <2>2. session' = [session EXCEPT ![s] = Opened(call[c].with, token, None, None, call[c].browser)]
    BY <2>1 DEF SessionMade
  <2>3. session'[s].via = None /\ \A r \in Sessions \ {s} : session'[r] = session[r]
    BY <2>1, <2>2 DEF Opened, TypeInv, SessionMade
  <2> QED BY <1>1, <2>3 DEF BindingInv
<1>3. CASE UNCHANGED session
  BY <1>1, <1>3 DEF BindingInv
<1> QED BY <1>2, <1>3 DEF PasswordChecked

\* A callback binds a subject only to the user it is of.
LEMMA ExchangeKeepsBindings ==
    ASSUME TypeInv, BindingInv, NEW c \in Calls, Exchange(c) PROVE BindingInv'
<1>1. CASE UNCHANGED <<bound, session>>
  BY <1>1 DEF BindingInv
<1>2. ASSUME NEW u \in Subjects, NEW m \in Mail[u] \cup {None}, Resolved(u, m) # None,
             bound' = [bound EXCEPT ![u] = IF @ = None THEN Resolved(u, m) ELSE @],
             OpenSession(c, Resolved(u, m), call[c].row, u)
      PROVE  BindingInv'
  <2> DEFINE p == Resolved(u, m)
  <2>1. bound \in [Subjects -> People \cup {None}]
    BY DEF TypeInv
  <2>2. bound[u] # None => p = bound[u]
    BY <1>2 DEF Resolved
  <2>3. bound[u] = None => \A other \in Subjects : bound[other] # p
    BY <1>2 DEF Resolved
  <2>4. p # None /\ bound' = [bound EXCEPT ![u] = IF bound[u] = None THEN p ELSE bound[u]]
    BY <1>2
  <2>5. PICK s, token, set : SessionMade(c, p, call[c].row, u, s, token, set)
    BY <1>2, OpenSessionDoes
  <2>6. session' = [session EXCEPT ![s] = Opened(p, token, call[c].row, u, call[c].browser)]
    BY <2>5 DEF SessionMade
  <2>7. /\ session'[s].user = p /\ session'[s].subject = u
        /\ \A r \in Sessions \ {s} : session'[r] = session[r]
    BY <2>5, <2>6 DEF Opened, TypeInv, SessionMade
  <2> HIDE DEF p
  <2>8. bound'[u] = p /\ \A v \in Subjects \ {u} : bound'[v] = bound[v]
    BY <2>1, <2>2, <2>4
  <2>9. \A v \in Subjects : bound[v] # None => bound'[v] = bound[v]
    BY <2>1, <2>4
  <2>10. \A v, w \in Subjects : bound'[v] = bound'[w] /\ bound'[v] # None => v = w
    BY <2>2, <2>3, <2>8 DEF BindingInv
  <2>11. ASSUME NEW r \in Sessions, session'[r].via # None
         PROVE  /\ session'[r].subject \in Subjects /\ bound'[session'[r].subject] # None
                /\ session'[r].user = bound'[session'[r].subject]
    <3>1. CASE r = s
      BY <2>4, <2>7, <2>8, <3>1
    <3>2. CASE r # s
      BY <2>7, <2>9, <2>11, <3>2 DEF BindingInv
    <3> QED BY <3>1, <3>2
  <2> QED BY <2>10, <2>11 DEF BindingInv
<1> QED BY <1>1, <1>2 DEF Exchange

\* Every step keeps the bindings.
LEMMA NextKeepsBindings == ASSUME TypeInv, BindingInv, [Next]_vars PROVE BindingInv'
<1>1. CASE UNCHANGED bound /\ SessionsKept
  BY <1>1 DEF BindingInv, SessionsKept
<1> QED BY <1>1, WhoMakesSessions, PasswordKeepsBindings, ExchangeKeepsBindings

\* A subject of the provider is one user for good, whatever e-mail it reports
\* later and however many sign-ins of several subjects are exchanged together.
THEOREM SubjectsAreBoundOnce == Spec => []SubjectsKeepTheirUser
<1>1. Init => BindingInv
  BY DEF Init, BindingInv, NoSession
<1>2. TypeInv /\ BindingInv /\ [Next]_vars => BindingInv'
  BY NextKeepsBindings
<1>3. BindingInv => SubjectsKeepTheirUser
  BY DEF BindingInv, SubjectsKeepTheirUser
<1> QED BY <1>1, <1>2, <1>3, Typed, PTL DEF Spec

-----------------------------------------------------------------------------
(* A sign-in makes one session, in the browser that began it.              *)

\* A transaction cookie of browser b is of a transaction that b began.
BegunIn(x, b, rows0) == x # None => rows0[x].state # "none" /\ rows0[x].browser = b

CallOwns(r, rows0) ==
    /\ r.phase # "idle" => BegunIn(r.cookies.oidc, r.browser, rows0)
    /\ r.phase # "idle" /\ "oidc" \in DOMAIN r.set => BegunIn(r.set["oidc"], r.browser, rows0)
    /\ r.phase \in {"found", "exchanging"} /\ r.kind = "callback" =>
          BegunIn(r.row, r.browser, rows0)

CookiesOwned ==
    /\ \A b \in Browsers : BegunIn(jar[b].oidc, b, transaction)
    /\ \A c \in Calls : CallOwns(call[c], transaction)

\* Who exchanges the code of a transaction consumed it, alone and before any session.
Exchanging(c) == call[c].phase = "exchanging"
ExchangesAlone ==
    \A c \in Calls : Exchanging(c) =>
        /\ transaction[call[c].row].state = "consumed"
        /\ \A d \in Calls : Exchanging(d) /\ call[d].row = call[c].row => d = c
        /\ \A s \in Sessions : session[s].via # call[c].row

SessionsOfSignIns ==
    \A s \in Sessions : session[s].via # None =>
        /\ transaction[session[s].via].state = "consumed"
        /\ transaction[session[s].via].browser = session[s].browser
        /\ \A r \in Sessions : session[r].via = session[s].via => r = s

\* A transaction that was begun keeps its browser, and a consumed one stays so.
TransactionsKept ==
    \A x \in Transactions : transaction[x].state # "none" =>
        /\ transaction'[x].state # "none" /\ transaction'[x].browser = transaction[x].browser
        /\ transaction[x].state = "consumed" => transaction'[x].state = "consumed"

\* No step undoes a sign-in transaction.
LEMMA KeepTransactions == ASSUME TypeInv, [Next]_vars PROVE TransactionsKept
<1>1. UNCHANGED transaction => TransactionsKept
  BY DEF TransactionsKept
<1>2. transaction \in [Transactions -> TransactionRow]
  BY DEF TypeInv
<1>3. ASSUME NEW c \in Calls, Begin(c) PROVE TransactionsKept
  <2> DEFINE x == CHOOSE x \in Transactions : transaction[x].state = "none"
  <2>1. x \in Transactions /\ transaction[x].state = "none"
    BY <1>3 DEF Begin
  <2>2. transaction' = [transaction EXCEPT ![x] = [state |-> "open", browser |-> call[c].browser]]
    BY <1>3 DEF Begin
  <2> HIDE DEF x
  <2> QED BY <1>2, <2>1, <2>2 DEF TransactionsKept
<1>4. ASSUME NEW c \in Calls, Consume(c) PROVE TransactionsKept
  BY <1>1, <1>2, <1>4 DEF Consume, TransactionsKept, TransactionRow
<1>5. ASSUME NEW c \in Calls, Handle(c), ~Begin(c), ~Consume(c) PROVE TransactionsKept
  <2>1. Serve(c) => UNCHANGED transaction
    BY DEF Serve
  <2> QED BY <1>1, <1>5, <2>1 DEF Handle, LookUpSession, LookUpUser, PasswordChecked,
     LookUpTransaction, Exchange, Deliver, rows
<1>6. ASSUME NEW t, Use(t) PROVE TransactionsKept
  BY <1>1, <1>6 DEF Use, Load, Read, Write, Logout, Login, StartSso, Return, Send, rows
<1>7. ASSUME NEW x \in Transactions, ExpireTransaction(x) PROVE TransactionsKept
  BY <1>2, <1>7 DEF ExpireTransaction, TransactionsKept, TransactionRow
<1>8. ASSUME \/ \E c \in Calls : Lose(c)
             \/ \E b \in Browsers : DropCsrfCookie(b)
             \/ \E s \in Sessions : ExpireSession(s)
             \/ \E p \in People : SetUserStatus(p)
             \/ UNCHANGED vars
      PROVE  TransactionsKept
  BY <1>1, <1>8 DEF Lose, DropCsrfCookie, ExpireSession, SetUserStatus, vars, rows
<1> QED BY <1>3, <1>4, <1>5, <1>6, <1>7, <1>8 DEF Next

\* A transaction stays begun in its browser.
LEMMA BegunStays ==
    ASSUME TransactionsKept, NEW x \in Transactions \cup {None}, NEW b, BegunIn(x, b, transaction)
    PROVE  BegunIn(x, b, transaction')
BY SignInAssumption DEF TransactionsKept, BegunIn

\* A request keeps owning its transaction.
LEMMA OwnsStays ==
    ASSUME TransactionsKept, NEW r, CallFits(r), CallOwns(r, transaction)
    PROVE  CallOwns(r, transaction')
<1>1. /\ r.cookies.oidc \in Transactions \cup {None}
      /\ "oidc" \in DOMAIN r.set => r.set["oidc"] \in Transactions \cup {None}
      /\ r.phase \in {"found", "exchanging"} /\ r.kind = "callback" =>
            r.row \in Transactions \cup {None}
  BY DEF CallFits, Cookies, SetFits
<1> QED BY <1>1, BegunStays DEF CallOwns

\* A change of one request that owns its transaction keeps the ownership of all.
LEMMA OwnsOneCall ==
    ASSUME TypeInv, CookiesOwned, TransactionsKept, UNCHANGED jar, NEW c \in Calls, NEW r,
           CallOwns(r, transaction'), call' = [call EXCEPT ![c] = r]
    PROVE  CookiesOwned'
<1>1. ASSUME NEW b \in Browsers PROVE BegunIn(jar'[b].oidc, b, transaction')
  <2>1. jar[b].oidc \in Transactions \cup {None}
    BY DEF TypeInv, Cookies
  <2> QED BY <2>1, BegunStays DEF CookiesOwned
<1>2. ASSUME NEW d \in Calls PROVE CallOwns(call'[d], transaction')
  <2>1. CallFits(call[d]) /\ CallOwns(call[d], transaction) /\ DOMAIN call = Calls
    BY DEF TypeInv, CallsFit, CookiesOwned
  <2>2. CallOwns(call[d], transaction')
    BY <2>1, OwnsStays
  <2> QED BY <2>1, <2>2
<1> QED BY <1>1, <1>2 DEF CookiesOwned

\* An answer owns what it sets.
LEMMA AnswerOwns ==
    ASSUME NEW c, NEW ok, NEW set, NEW user, NEW body, NEW rows0,
           "oidc" \in DOMAIN set => BegunIn(set["oidc"], call[c].browser, rows0)
    PROVE  CallOwns(Answered(c, ok, set, user, body), rows0)
<1> DEFINE r == Answered(c, ok, set, user, body)
<1>1. r.phase = "answered" /\ r.browser = call[c].browser /\ r.set = set /\ r.cookies.oidc = None
  BY DEF Answered, Idle, NoCookies
<1> HIDE DEF r
<1>2. CallOwns(r, rows0)
  BY <1>1 DEF CallOwns, BegunIn
<1> QED BY <1>2 DEF r

\* Which responses set the cookie of a sign-in.
LEMMA SetsOwn ==
    /\ "oidc" \notin DOMAIN <<>> /\ "oidc" \notin DOMAIN Cleared
    /\ [oidc |-> None]["oidc"] = None
    /\ \A k : "oidc" \notin DOMAIN [csrf |-> k]
    /\ \A s, k : "oidc" \notin DOMAIN [session |-> s, csrf |-> k]
    /\ \A s, k : [session |-> s, csrf |-> k, oidc |-> None]["oidc"] = None
    /\ \A x : [oidc |-> x]["oidc"] = x
BY DEF Cleared

\* What people do in a tab keeps the ownership.
LEMMA UseOwns ==
    ASSUME TypeInv, CookiesOwned, NEW t \in Tabs, Use(t) PROVE CookiesOwned'
<1>1. PICK kind, with : Send(t, kind, with, call) \/ Send(t, kind, with, Left(call, t))
  BY DEF Use, Load, Read, Write, Logout, Login, StartSso, Return
<1>2. UNCHANGED <<jar, transaction>>
  BY <1>1 DEF Send, rows
<1>3. CallOwns(Sent(t, kind, with), transaction)
  <2> DEFINE r == Sent(t, kind, with)
  <2>1. r.phase = "sent" /\ r.browser = HomeOf[t] /\ r.cookies = jar[HomeOf[t]] /\ r.set = <<>>
    BY DEF Sent, Idle
  <2>2. BegunIn(jar[HomeOf[t]].oidc, HomeOf[t], transaction)
    BY SignInAssumption DEF CookiesOwned
  <2> HIDE DEF r
  <2>3. CallOwns(r, transaction)
    BY <2>1, <2>2, SetsOwn DEF CallOwns
  <2> QED BY <2>3 DEF r
<1>4. ASSUME NEW c \in Calls PROVE CallOwns(Left(call, t)[c], transaction)
  <2>1. CallOwns(call[c], transaction) /\ CallFits(call[c])
    BY DEF CookiesOwned, TypeInv, CallsFit
  <2>2. CallOwns([call[c] EXCEPT !.tab = None], transaction)
    BY <2>1 DEF CallOwns, CallFits, Idle
  <2> QED BY <2>1, <2>2 DEF Left
<1>5. DOMAIN call = Calls /\ DOMAIN Left(call, t) = Calls
  BY DEF TypeInv, CallsFit, Left
<1>6. PICK c \in Calls : \/ call' = [call EXCEPT ![c] = Sent(t, kind, with)]
                         \/ call' = [Left(call, t) EXCEPT ![c] = Sent(t, kind, with)]
  BY <1>1 DEF Send
<1>7. \A d \in Calls : CallOwns(call'[d], transaction)
  BY <1>3, <1>4, <1>5, <1>6 DEF CookiesOwned
<1> QED BY <1>2, <1>7 DEF CookiesOwned

\* So does every step of a handler.
LEMMA HandlersOwn ==
    ASSUME TypeInv, CookiesOwned, TransactionsKept, NEW c \in Calls, Handle(c), ~Deliver(c)
    PROVE  CookiesOwned'
<1>1. CallFits(call[c]) /\ CallOwns(call[c], transaction) /\ CallOwns(call[c], transaction')
  BY OwnsStays DEF CookiesOwned, TypeInv, CallsFit
<1>2. ASSUME NEW ok, NEW set, NEW user, NEW body, UNCHANGED jar,
             call' = [call EXCEPT ![c] = Answered(c, ok, set, user, body)],
             "oidc" \in DOMAIN set => BegunIn(set["oidc"], call[c].browser, transaction')
      PROVE  CookiesOwned'
  BY <1>2, AnswerOwns, OwnsOneCall
<1>3. ASSUME NEW row, UNCHANGED jar, call' = Found(c, row), call[c].phase = "sent",
             call[c].kind = "callback" => BegunIn(row, call[c].browser, transaction')
      PROVE  CookiesOwned'
  <2>1. call' = [call EXCEPT ![c] = [call[c] EXCEPT !.phase = "found", !.row = row]]
    BY <1>3 DEF Found
  <2>2. CallOwns([call[c] EXCEPT !.phase = "found", !.row = row], transaction')
    BY <1>1, <1>3 DEF CallOwns, CallFits, Idle
  <2> QED BY <1>3, <2>1, <2>2, OwnsOneCall
<1>4. CASE LookUpSession(c)
  <2>1. UNCHANGED jar /\ call[c].phase = "sent" /\ call[c].kind # "callback"
    BY <1>4 DEF LookUpSession, SessionCalls
  <2>2. \/ call' = Found(c, session[call[c].cookies.session].csrf)
        \/ call' = [call EXCEPT ![c] = Answered(c, FALSE, <<>>, None, None)]
        \/ call' = [call EXCEPT ![c] = Answered(c, FALSE, Cleared, None, None)]
    BY <1>4 DEF LookUpSession
  <2>3. CASE call' = Found(c, session[call[c].cookies.session].csrf)
    BY <1>3, <2>1, <2>3
  <2>4. CASE call' = [call EXCEPT ![c] = Answered(c, FALSE, <<>>, None, None)]
    BY <1>2, <2>1, <2>4, SetsOwn
  <2>5. CASE call' = [call EXCEPT ![c] = Answered(c, FALSE, Cleared, None, None)]
    BY <1>2, <2>1, <2>5, SetsOwn
  <2> QED BY <2>2, <2>3, <2>4, <2>5
<1>5. CASE Serve(c)
  <2>1. PICK ok, set, user, body : AnswerServed(c, ok, set, user, body)
    BY <1>5, ServeDoes
  <2>2. UNCHANGED jar
    BY <1>5, ServeDoes
  <2>3. "oidc" \notin DOMAIN set
    BY <2>1, SetsOwn DEF AnswerServed
  <2> QED BY <1>2, <2>1, <2>2, <2>3 DEF AnswerServed
<1>6. CASE LookUpUser(c)
  BY <1>2, <1>3, <1>6, SetsOwn DEF LookUpUser, Refused
<1>7. ASSUME NEW p, NEW x, NEW u, OpenSession(c, p, x, u), UNCHANGED jar PROVE CookiesOwned'
  <2>1. PICK s, token, set : SessionMade(c, p, x, u, s, token, set)
    BY <1>7, OpenSessionDoes
  <2>2. "oidc" \in DOMAIN set => BegunIn(set["oidc"], call[c].browser, transaction')
    BY <2>1, SetsOwn DEF SessionMade, BegunIn
  <2> QED BY <1>2, <1>7, <2>1, <2>2 DEF SessionMade
<1>8. CASE PasswordChecked(c)
  <2>1. UNCHANGED jar
    BY <1>8 DEF PasswordChecked
  <2>2. CASE OpenSession(c, call[c].with, None, None)
    BY <1>7, <2>1, <2>2
  <2>3. CASE call' = [call EXCEPT ![c] = Answered(c, FALSE, <<>>, None, None)]
    BY <1>2, <2>1, <2>3, SetsOwn
  <2> QED BY <1>8, <2>2, <2>3 DEF PasswordChecked, Refused
<1>9. CASE Begin(c)
  <2> DEFINE x == CHOOSE x \in Transactions : transaction[x].state = "none"
  <2>1. x \in Transactions /\ UNCHANGED jar
    BY <1>9 DEF Begin
  <2>2. /\ transaction' = [transaction EXCEPT ![x] = [state |-> "open", browser |-> call[c].browser]]
        /\ call' = [call EXCEPT ![c] = Answered(c, TRUE, [oidc |-> x], None, x)]
    BY <1>9 DEF Begin
  <2> HIDE DEF x
  <2>3. BegunIn(x, call[c].browser, transaction')
    BY <2>1, <2>2 DEF BegunIn, TypeInv
  <2> QED BY <1>2, <2>1, <2>2, <2>3, SetsOwn
<1>10. ASSUME call' = [call EXCEPT ![c] = SsoFailed(c)], UNCHANGED jar PROVE CookiesOwned'
  <2>1. BegunIn(None, call[c].browser, transaction')
    BY DEF BegunIn
  <2> QED BY <1>2, <1>10, <2>1, SetsOwn DEF SsoFailed
<1>11. CASE LookUpTransaction(c)
  <2>1. UNCHANGED jar /\ call[c].phase = "sent"
    BY <1>11 DEF LookUpTransaction, SessionCalls
  <2>2. \/ call' = Found(c, call[c].cookies.oidc)
        \/ call' = [call EXCEPT ![c] = SsoFailed(c)]
    BY <1>11 DEF LookUpTransaction
  <2>3. BegunIn(call[c].cookies.oidc, call[c].browser, transaction')
    BY <1>1, <2>1 DEF CallOwns
  <2> QED BY <1>3, <1>10, <2>1, <2>2, <2>3
<1>12. CASE Consume(c)
  <2>1. CASE call' = [call EXCEPT ![c].phase = "exchanging"]
    <3>1. call' = [call EXCEPT ![c] = [call[c] EXCEPT !.phase = "exchanging"]]
      BY <2>1
    <3>2. CallOwns([call[c] EXCEPT !.phase = "exchanging"], transaction')
      BY <1>1, <1>12 DEF CallOwns, CallFits, Idle, Consume
    <3> QED BY <1>12, <3>1, <3>2, OwnsOneCall DEF Consume
  <2> QED BY <1>10, <1>12, <2>1 DEF Consume
<1>13. CASE Exchange(c)
  BY <1>7, <1>10, <1>13 DEF Exchange
<1> QED BY <1>4, <1>5, <1>6, <1>8, <1>9, <1>11, <1>12, <1>13 DEF Handle

\* Every step keeps the ownership of cookies.
LEMMA NextOwns ==
    ASSUME TypeInv, CookiesOwned, TransactionsKept, [Next]_vars PROVE CookiesOwned'
<1>1. ASSUME NEW b \in Browsers PROVE BegunIn(jar[b].oidc, b, transaction')
  <2>1. jar[b].oidc \in Transactions \cup {None}
    BY DEF TypeInv, Cookies
  <2> QED BY <2>1, BegunStays DEF CookiesOwned
<1>2. ASSUME NEW d \in Calls PROVE CallOwns(call[d], transaction')
  BY OwnsStays DEF TypeInv, CallsFit, CookiesOwned
<1>3. CallOwns(Idle, transaction')
  BY DEF CallOwns, Idle
<1>4. ASSUME NEW c \in Calls, Deliver(c) PROVE CookiesOwned'
  <2> DEFINE b == call[c].browser
             set == call[c].set
  <2>1. b \in Browsers /\ SetFits(set) /\ call[c].phase = "answered"
    BY <1>4 DEF Deliver, TypeInv, CallsFit, CallFits
  <2>2. /\ jar' = [jar EXCEPT ![b] = Keeping(jar[b], set)]
        /\ call' = [call EXCEPT ![c] = Idle]
    BY <1>4 DEF Deliver
  <2>3. "oidc" \in DOMAIN set => BegunIn(set["oidc"], b, transaction')
    BY <1>2, <2>1 DEF CallOwns
  <2>4. jar[b] \in Cookies /\ DOMAIN jar = Browsers /\ DOMAIN call = Calls
    BY <2>1 DEF TypeInv, CallsFit
  <2> HIDE DEF b, set
  <2>5. Keeping(jar[b], set).oidc = IF "oidc" \in DOMAIN set THEN set["oidc"] ELSE jar[b].oidc
    <3>1. "oidc" \in DOMAIN jar[b]
      BY <2>4 DEF Cookies
    <3> QED BY <3>1 DEF Keeping
  <2>6. BegunIn(Keeping(jar[b], set).oidc, b, transaction')
    BY <1>1, <2>1, <2>3, <2>5
  <2>7. \A e \in Browsers : BegunIn(jar'[e].oidc, e, transaction')
    BY <1>1, <2>2, <2>4, <2>6
  <2>8. \A d \in Calls : CallOwns(call'[d], transaction')
    BY <1>2, <1>3, <2>2, <2>4
  <2> QED BY <2>7, <2>8 DEF CookiesOwned
<1>5. ASSUME NEW c \in Calls, Lose(c) PROVE CookiesOwned'
  <2>1. UNCHANGED jar /\ call' = [call EXCEPT ![c] = Idle] /\ DOMAIN call = Calls
    BY <1>5 DEF Lose, TypeInv, CallsFit
  <2> QED BY <1>1, <1>2, <1>3, <2>1 DEF CookiesOwned
<1>6. ASSUME NEW b \in Browsers, DropCsrfCookie(b) PROVE CookiesOwned'
  <2>1. UNCHANGED call /\ jar' = [jar EXCEPT ![b].csrf = None] /\ jar \in [Browsers -> Cookies]
    BY <1>6 DEF DropCsrfCookie, TypeInv
  <2>2. \A e \in Browsers : jar'[e].oidc = jar[e].oidc
    BY <2>1 DEF Cookies
  <2> QED BY <1>1, <1>2, <2>1, <2>2 DEF CookiesOwned
<1>7. UNCHANGED <<jar, call>> => CookiesOwned'
  BY <1>1, <1>2 DEF CookiesOwned
<1>8. ASSUME \/ \E s \in Sessions : ExpireSession(s)
             \/ \E x \in Transactions : ExpireTransaction(x)
             \/ \E p \in People : SetUserStatus(p)
             \/ UNCHANGED vars
      PROVE  CookiesOwned'
  BY <1>7, <1>8 DEF ExpireSession, ExpireTransaction, SetUserStatus, vars
<1>9. ASSUME NEW t \in left.tabs, Use(t) PROVE CookiesOwned'
  <2>1. t \in Tabs
    BY DEF TypeInv, Bounds
  <2> QED BY <1>9, <2>1, UseOwns
<1> QED BY <1>4, <1>5, <1>6, <1>8, <1>9, HandlersOwn DEF Next

\* Nobody begins to exchange a code but who consumes its transaction.
NoneBegins ==
    \A d \in Calls : call'[d].phase = "exchanging" =>
        call[d].phase = "exchanging" /\ call'[d].row = call[d].row

\* Only the step that consumes a transaction begins an exchange.
LEMMA WhoExchanges ==
    ASSUME TypeInv, [Next]_vars
    PROVE  NoneBegins \/ \E c \in Calls : Consume(c)
<1>1. DOMAIN call = Calls
  BY DEF TypeInv, CallsFit
<1>2. ASSUME NEW c \in Calls, NEW r, r.phase # "exchanging", call' = [call EXCEPT ![c] = r]
      PROVE  NoneBegins
  BY <1>1, <1>2 DEF NoneBegins
<1>3. ASSUME NEW c, NEW ok, NEW set, NEW user, NEW body
      PROVE  Answered(c, ok, set, user, body).phase = "answered"
  BY DEF Answered, Idle
<1>4. ASSUME NEW c \in Calls, NEW ok, NEW set, NEW user, NEW body,
             call' = [call EXCEPT ![c] = Answered(c, ok, set, user, body)]
      PROVE  NoneBegins
  BY <1>2, <1>3, <1>4
<1>5. ASSUME NEW c \in Calls, NEW row, call' = Found(c, row) PROVE NoneBegins
  <2>1. call' = [call EXCEPT ![c] = [call[c] EXCEPT !.phase = "found", !.row = row]]
    BY <1>5 DEF Found
  <2>2. DOMAIN call[c] = DOMAIN Idle
    BY DEF TypeInv, CallsFit, CallFits
  <2>3. [call[c] EXCEPT !.phase = "found", !.row = row].phase = "found"
    BY <2>2 DEF Idle
  <2> QED BY <1>2, <2>1, <2>3
<1>6. ASSUME NEW c \in Calls, NEW p, NEW x, NEW u, OpenSession(c, p, x, u) PROVE NoneBegins
  <2>1. PICK s, token, set : SessionMade(c, p, x, u, s, token, set)
    BY <1>6, OpenSessionDoes
  <2>2. call' = [call EXCEPT ![c] = Answered(c, TRUE, set, p, token)]
    BY <2>1 DEF SessionMade
  <2> QED BY <1>4, <2>2
<1>7. ASSUME NEW c \in Calls, Handle(c), ~Consume(c) PROVE NoneBegins
  <2>1. LookUpSession(c) => NoneBegins
    BY <1>4, <1>5 DEF LookUpSession
  <2>2. Serve(c) => NoneBegins
    BY <1>4, ServeDoes DEF AnswerServed
  <2> DEFINE Refuses == call' = [call EXCEPT ![c] = Refused(c)]
             Fails == call' = [call EXCEPT ![c] = SsoFailed(c)]
             Opens == \E p, x, u : OpenSession(c, p, x, u)
             Finds == \E row : call' = Found(c, row)
             Answers == \E ok, set, user, body :
                           call' = [call EXCEPT ![c] = Answered(c, ok, set, user, body)]
  <2>9. Answers => NoneBegins
    BY <1>4
  <2>10. (Refuses => Answers) /\ (Fails => Answers)
    BY DEF Refused, SsoFailed
  <2>11. (Opens => NoneBegins) /\ (Finds => NoneBegins)
    BY <1>5, <1>6
  <2>12. /\ LookUpUser(c) => Finds \/ Refuses
         /\ PasswordChecked(c) => Opens \/ Refuses
         /\ Begin(c) => Answers
         /\ LookUpTransaction(c) => Finds \/ Fails
         /\ Exchange(c) => Opens \/ Fails
    <3>1. LookUpUser(c) => Finds \/ Refuses
      BY DEF LookUpUser
    <3>2. PasswordChecked(c) => Opens \/ Refuses
      BY DEF PasswordChecked
    <3>3. Begin(c) => Answers
      <4> DEFINE x == CHOOSE x \in Transactions : transaction[x].state = "none"
      <4>1. Begin(c) => call' = [call EXCEPT ![c] = Answered(c, TRUE, [oidc |-> x], None, x)]
        BY DEF Begin
      <4> HIDE DEF x
      <4> QED BY <4>1
    <3>4. LookUpTransaction(c) => Finds \/ Fails
      BY DEF LookUpTransaction
    <3>5. Exchange(c) => Opens \/ Fails
      BY DEF Exchange
    <3> QED BY <3>1, <3>2, <3>3, <3>4, <3>5
  <2> HIDE DEF Refuses, Fails, Opens, Finds, Answers
  <2>8. Deliver(c) => NoneBegins
    BY <1>2 DEF Deliver, Idle
  <2> QED BY <1>7, <2>1, <2>2, <2>8, <2>9, <2>10, <2>11, <2>12 DEF Handle
<1>8. ASSUME NEW t, Use(t) PROVE NoneBegins
  <2>1. PICK kind, with : Send(t, kind, with, call) \/ Send(t, kind, with, Left(call, t))
    BY <1>8 DEF Use, Load, Read, Write, Logout, Login, StartSso, Return
  <2>2. Sent(t, kind, with).phase = "sent"
    BY DEF Sent, Idle
  <2>3. PICK c \in Calls : \/ call' = [call EXCEPT ![c] = Sent(t, kind, with)]
                           \/ call' = [Left(call, t) EXCEPT ![c] = Sent(t, kind, with)]
    BY <2>1 DEF Send
  <2>4. ASSUME NEW d \in Calls
        PROVE  Left(call, t)[d].phase = call[d].phase /\ Left(call, t)[d].row = call[d].row
    <3>1. DOMAIN call[d] = DOMAIN Idle
      BY DEF TypeInv, CallsFit, CallFits
    <3> QED BY <3>1 DEF Left, Idle
  <2>5. DOMAIN Left(call, t) = Calls
    BY DEF Left
  <2> QED BY <1>1, <2>2, <2>3, <2>4, <2>5 DEF NoneBegins
<1>9. UNCHANGED call => NoneBegins
  BY DEF NoneBegins
<1>10. ASSUME NEW c \in Calls, Lose(c) PROVE NoneBegins
  BY <1>2, <1>10 DEF Lose, Idle
<1>11. ASSUME \/ \E b \in Browsers : DropCsrfCookie(b)
              \/ \E s \in Sessions : ExpireSession(s)
              \/ \E x \in Transactions : ExpireTransaction(x)
              \/ \E p \in People : SetUserStatus(p)
              \/ UNCHANGED vars
       PROVE  NoneBegins
  BY <1>9, <1>11 DEF DropCsrfCookie, ExpireSession, ExpireTransaction, SetUserStatus, vars
<1> QED BY <1>7, <1>8, <1>10, <1>11 DEF Next

ExchangeInv == ExchangesAlone /\ SessionsOfSignIns

\* Without it, no exchange gains a rival.
LEMMA ExchangeFrame ==
    ASSUME TypeInv, ExchangeInv, TransactionsKept, SessionsKept, NoneBegins PROVE ExchangeInv'
<1>1. ASSUME NEW c \in Calls, Exchanging(c) PROVE call[c].row \in Transactions
  BY <1>1 DEF Exchanging, TypeInv, CallsFit, CallFits
<1>2. ExchangesAlone'
  BY <1>1 DEF ExchangeInv, ExchangesAlone, Exchanging, TransactionsKept, SessionsKept, NoneBegins
<1>3. \A s \in Sessions : session[s].via # None => session[s].via \in Transactions
  BY DEF TypeInv, SessionRow
<1>4. SessionsOfSignIns'
  BY <1>3 DEF ExchangeInv, SessionsOfSignIns, TransactionsKept, SessionsKept
<1> QED BY <1>2, <1>4 DEF ExchangeInv

\* A transaction that is consumed had no exchange.
LEMMA ConsumeExchanges ==
    ASSUME TypeInv, ExchangeInv, TransactionsKept, SessionsKept, NEW c \in Calls, Consume(c)
    PROVE  ExchangeInv'
<1>1. DOMAIN call = Calls /\ call[c].row \in Transactions /\ DOMAIN call[c] = DOMAIN Idle
  BY DEF Consume, TypeInv, CallsFit, CallFits
<1>2. CASE CanConsume(call[c].row)
  <2> DEFINE x == call[c].row
  <2>1. transaction[x].state = "open" /\ transaction'[x].state = "consumed"
    BY <1>1, <1>2 DEF CanConsume, Consume, TypeInv, TransactionRow
  <2>2. /\ call' = [call EXCEPT ![c] = [call[c] EXCEPT !.phase = "exchanging"]]
        /\ call'[c].row = x /\ \A d \in Calls \ {c} : call'[d] = call[d]
    BY <1>1, <1>2 DEF Consume, Idle
  <2>3. \A s \in Sessions : session[s].via # x
    BY <1>1, <2>1, SignInAssumption DEF ExchangeInv, SessionsOfSignIns
  <2>4. \A d \in Calls : Exchanging(d) => call[d].row # x /\ call[d].row \in Transactions
    BY <2>1 DEF ExchangeInv, ExchangesAlone, TypeInv, CallsFit, CallFits, Exchanging
  <2>5. \A s \in Sessions : session'[s].via = session[s].via
    BY DEF SessionsKept
  <2> HIDE DEF x
  <2>6. ExchangesAlone'
    <3> SUFFICES ASSUME NEW d \in Calls, call'[d].phase = "exchanging"
                 PROVE  /\ transaction'[call'[d].row].state = "consumed"
                        /\ \A e \in Calls : call'[e].phase = "exchanging" /\ call'[e].row = call'[d].row => e = d
                        /\ \A s \in Sessions : session'[s].via # call'[d].row
      BY DEF ExchangesAlone, Exchanging
    <3>1. CASE d = c
      BY <2>1, <2>2, <2>3, <2>4, <2>5, <3>1 DEF Exchanging
    <3>2. CASE d # c
      <4>1. call'[d] = call[d] /\ Exchanging(d) /\ call[d].row # x /\ call[d].row \in Transactions
        BY <2>2, <2>4, <3>2 DEF Exchanging
      <4>2. transaction'[call[d].row].state = "consumed"
        BY <4>1 DEF ExchangeInv, ExchangesAlone, TransactionsKept
      <4>3. \A e \in Calls : call'[e].phase = "exchanging" /\ call'[e].row = call[d].row => e = d
        BY <2>2, <4>1 DEF ExchangeInv, ExchangesAlone, Exchanging
      <4> QED BY <2>5, <4>1, <4>2, <4>3 DEF ExchangeInv, ExchangesAlone
    <3> QED BY <3>1, <3>2
  <2>7. \A s \in Sessions : session[s].via # None => session[s].via \in Transactions
    BY DEF TypeInv, SessionRow
  <2>8. SessionsOfSignIns'
    BY <2>7 DEF ExchangeInv, SessionsOfSignIns, TransactionsKept, SessionsKept
  <2> QED BY <2>6, <2>8 DEF ExchangeInv
<1>3. CASE ~CanConsume(call[c].row)
  <2>1. SsoFailed(c).phase = "answered"
    BY DEF SsoFailed, Answered, Idle
  <2>2. NoneBegins
    BY <1>1, <1>3, <2>1 DEF Consume, NoneBegins
  <2> QED BY <2>2, ExchangeFrame
<1> QED BY <1>2, <1>3

\* A session that is made under no transaction, or under the one just exchanged.
LEMMA MadeExchanges ==
    ASSUME TypeInv, CookiesOwned, ExchangeInv, UNCHANGED transaction, NEW c \in Calls,
           NEW p, NEW x, NEW u, x # None => Exchanging(c) /\ call[c].row = x,
           OpenSession(c, p, x, u)
    PROVE  ExchangeInv'
<1>1. PICK s, token, set : SessionMade(c, p, x, u, s, token, set)
  BY OpenSessionDoes
<1>2. /\ session' = [session EXCEPT ![s] = Opened(p, token, x, u, call[c].browser)]
      /\ call' = [call EXCEPT ![c] = Answered(c, TRUE, set, p, token)]
  BY <1>1 DEF SessionMade
<1>3. /\ session'[s].via = x /\ session'[s].browser = call[c].browser
      /\ \A r \in Sessions \ {s} : session'[r] = session[r]
  BY <1>1, <1>2 DEF Opened, TypeInv, SessionMade
<1>4. call'[c].phase = "answered" /\ \A d \in Calls \ {c} : call'[d] = call[d]
  BY <1>2 DEF TypeInv, CallsFit, Answered, Idle
<1>5. \A d \in Calls : Exchanging(d) => call[d].row \in Transactions /\ call[d].row # None
  BY SignInAssumption DEF Exchanging, TypeInv, CallsFit, CallFits
<1>6. x # None => /\ transaction[x].state = "consumed" /\ transaction[x].browser = call[c].browser
                  /\ \A r \in Sessions : session[r].via # x
                  /\ \A d \in Calls \ {c} : Exchanging(d) => call[d].row # x
  <2> SUFFICES ASSUME x # None, Exchanging(c), call[c].row = x
               PROVE  /\ transaction[x].state = "consumed" /\ transaction[x].browser = call[c].browser
                      /\ \A r \in Sessions : session[r].via # x
                      /\ \A d \in Calls \ {c} : Exchanging(d) => call[d].row # x
    OBVIOUS
  <2>1. call[c].kind = "callback"
    BY DEF Exchanging, TypeInv, CallsFit, CallFits
  <2>2. transaction[x].browser = call[c].browser
    BY <2>1 DEF Exchanging, CookiesOwned, CallOwns, BegunIn
  <2> QED BY <2>2 DEF ExchangeInv, ExchangesAlone
<1>7. ExchangesAlone'
  <2> SUFFICES ASSUME NEW d \in Calls, call'[d].phase = "exchanging"
               PROVE  /\ transaction[call'[d].row].state = "consumed"
                      /\ \A e \in Calls : call'[e].phase = "exchanging" /\ call'[e].row = call'[d].row => e = d
                      /\ \A r \in Sessions : session'[r].via # call'[d].row
    BY DEF ExchangesAlone, Exchanging
  <2>1. d # c /\ call'[d] = call[d] /\ Exchanging(d)
    BY <1>4 DEF Exchanging
  <2>2. transaction[call[d].row].state = "consumed" /\ \A r \in Sessions : session[r].via # call[d].row
    BY <2>1 DEF ExchangeInv, ExchangesAlone
  <2>3. \A e \in Calls : call'[e].phase = "exchanging" /\ call'[e].row = call[d].row => e = d
    BY <1>4, <2>1 DEF ExchangeInv, ExchangesAlone, Exchanging
  <2>4. call[d].row # x
    BY <1>5, <1>6, <2>1
  <2> QED BY <1>3, <2>1, <2>2, <2>3, <2>4
<1>8. SessionsOfSignIns'
  BY <1>3, <1>6 DEF ExchangeInv, SessionsOfSignIns
<1> QED BY <1>7, <1>8 DEF ExchangeInv

\* Every step keeps that exchanges are alone.
LEMMA NextKeepsExchange ==
    ASSUME TypeInv, CookiesOwned, ExchangeInv, [Next]_vars PROVE ExchangeInv'
<1>1. TransactionsKept
  BY KeepTransactions
<1>2. ASSUME NEW c \in Calls, Consume(c) PROVE ExchangeInv'
  <2>1. SessionsKept
    BY <1>2 DEF Consume, SessionsKept
  <2> QED BY <1>1, <1>2, <2>1, ConsumeExchanges
<1>3. ASSUME NEW c \in Calls, PasswordChecked(c) \/ Exchange(c), NoneBegins PROVE ExchangeInv'
  <2>1. UNCHANGED transaction
    BY <1>3 DEF PasswordChecked, Exchange
  <2>2. CASE UNCHANGED session
    BY <1>1, <1>3, <2>2, ExchangeFrame DEF SessionsKept
  <2>3. ASSUME NEW p, NEW x, NEW u, OpenSession(c, p, x, u),
               x # None => Exchanging(c) /\ call[c].row = x
        PROVE  ExchangeInv'
    BY <2>1, <2>3, MadeExchanges
  <2>4. PasswordChecked(c) => UNCHANGED session \/ OpenSession(c, call[c].with, None, None)
    BY DEF PasswordChecked
  <2>5. Exchange(c) => \/ UNCHANGED session
                       \/ Exchanging(c) /\ \E p, u : OpenSession(c, p, call[c].row, u)
    BY DEF Exchange, Exchanging
  <2>6. CASE PasswordChecked(c)
    <3>1. CASE OpenSession(c, call[c].with, None, None)
      BY <2>3, <3>1
    <3> QED BY <2>2, <2>4, <2>6, <3>1
  <2>7. CASE Exchange(c)
    <3>1. CASE Exchanging(c) /\ \E p, u : OpenSession(c, p, call[c].row, u)
      <4>1. PICK p, u : OpenSession(c, p, call[c].row, u)
        BY <3>1
      <4> QED BY <2>3, <3>1, <4>1
    <3> QED BY <2>2, <2>5, <2>7, <3>1
  <2> QED BY <1>3, <2>6, <2>7
<1>4. CASE NoneBegins /\ SessionsKept
  BY <1>1, <1>4, ExchangeFrame
<1> QED BY <1>2, <1>3, <1>4, WhoMakesSessions, WhoExchanges

\* However often and wherever the provider's answer is opened, it signs in once,
\* and in the browser that set out for the provider.
THEOREM SignInsAreUsedOnce == Spec => []SignInsAreSingleUse
<1>1. Init => CookiesOwned /\ ExchangeInv
  BY DEF Init, CookiesOwned, CallOwns, BegunIn, ExchangeInv, ExchangesAlone, Exchanging,
     SessionsOfSignIns, NoSession, NoCookies, Idle
<1>2. TypeInv /\ CookiesOwned /\ ExchangeInv /\ [Next]_vars => CookiesOwned' /\ ExchangeInv'
  BY NextOwns, KeepTransactions, NextKeepsExchange
<1>3. ExchangeInv => SignInsAreSingleUse
  BY DEF ExchangeInv, SessionsOfSignIns, SignInsAreSingleUse
<1> QED BY <1>1, <1>2, <1>3, Typed, PTL DEF Spec

-----------------------------------------------------------------------------
(* Who a token stands for.                                                 *)

\* A request, or its answer, ties a token to a person: the page that sent it, the
\* session it was looked up under, or the person an answer names.
CallClaims(r, rows0, k, p) ==
    \/ /\ r.phase \in {"sent", "found"} /\ r.kind \in SessionCalls
       /\ r.with = k /\ r.shown = p
    \/ /\ r.phase = "found" /\ r.kind \in SessionCalls
       /\ r.row = k /\ rows0[r.cookies.session].user = p
    \/ /\ r.phase = "answered" /\ r.kind \in {"me", "login"}
       /\ r.token = k /\ r.user = p

Claims(k, p) ==
    \/ \E s \in Sessions : session[s].csrf = k /\ session[s].user = p
    \/ \E t \in Tabs : tab[t].csrf = k /\ tab[t].user = p
    \/ \E c \in Calls : CallClaims(call[c], session, k, p)

\* A token stands for one person, wherever it is.
OneOwner == \A k \in Tokens : \A p, q : Claims(k, p) /\ Claims(k, q) => p = q

\* A session a request was looked up under is a row that is not made anew.
FoundStands ==
    \A c \in Calls : call[c].phase = "found" /\ call[c].kind \in SessionCalls =>
        session[call[c].cookies.session].state # "none"

UsersKept ==
    \A s \in Sessions : session[s].state # "none" =>
        session'[s].user = session[s].user /\ session'[s].state # "none"

\* No step gives a session or a page to another person.
LEMMA KeepUsers == ASSUME TypeInv, [Next]_vars PROVE UsersKept
<1>1. SessionsKept => UsersKept
  BY DEF SessionsKept, UsersKept
<1>2. UNCHANGED session => UsersKept
  BY DEF UsersKept
<1>3. ASSUME NEW c, NEW p, NEW x, NEW u, OpenSession(c, p, x, u) PROVE UsersKept
  <2>1. PICK s, token, set : SessionMade(c, p, x, u, s, token, set)
    BY <1>3, OpenSessionDoes
  <2> QED BY <2>1 DEF SessionMade, UsersKept, TypeInv
<1>4. ASSUME NEW c \in Calls, PasswordChecked(c) \/ Exchange(c) PROVE UsersKept
  <2>1. PasswordChecked(c) => UNCHANGED session \/ \E p, x, u : OpenSession(c, p, x, u)
    BY DEF PasswordChecked
  <2>2. Exchange(c) => UNCHANGED session \/ \E p, x, u : OpenSession(c, p, x, u)
    BY DEF Exchange
  <2> QED BY <1>2, <1>3, <1>4, <2>1, <2>2
<1> QED BY <1>1, <1>4, WhoMakesSessions

\* Every token that stands for somebody is held by somebody.
LEMMA ClaimedIsHeld ==
    ASSUME TypeInv, NEW k \in Tokens, NEW p, Claims(k, p) PROVE k \in Held
<1>1. CASE \E s \in Sessions : session[s].csrf = k
  BY <1>1 DEF Held
<1>2. CASE \E t \in Tabs : tab[t].csrf = k
  BY <1>2 DEF Held
<1>3. CASE \E c \in Calls : CallClaims(call[c], session, k, p)
  <2>1. PICK c \in Calls : CallClaims(call[c], session, k, p)
    BY <1>3
  <2>2. k \in {call[c].with, call[c].row, call[c].token, call[c].cookies.csrf} \cup Range(call[c].set)
    BY <2>1 DEF CallClaims
  <2> QED BY <2>2 DEF Held
<1> QED BY <1>1, <1>2, <1>3 DEF Claims

\* A request that is not touched claims nothing new.
LEMMA UntouchedClaims ==
    ASSUME TypeInv, FoundStands, UsersKept, NEW d \in Calls, NEW k, NEW p,
           CallClaims(call[d], session', k, p)
    PROVE  CallClaims(call[d], session, k, p)
<1>1. call[d].phase = "found" /\ call[d].kind \in SessionCalls =>
         session'[call[d].cookies.session].user = session[call[d].cookies.session].user
  BY DEF TypeInv, CallsFit, CallFits, FoundStands, UsersKept
<1> QED BY <1>1 DEF CallClaims

\* A step that gives one fresh token to one person leaves every token its person.
OnlyFresh(fresh, owner) ==
    \A k \in Tokens : \A p : Claims(k, p)' => Claims(k, p) \/ (k = fresh /\ p = owner)

\* If all that is new holds a fresh token for one owner, tokens keep their owners.
LEMMA OneOwnerKept ==
    ASSUME TypeInv, OneOwner, NEW fresh, NEW owner, fresh \in Tokens => fresh \notin Held,
           OnlyFresh(fresh, owner)
    PROVE  OneOwner'
<1> SUFFICES ASSUME NEW k \in Tokens, NEW p, NEW q, Claims(k, p)', Claims(k, q)' PROVE p = q
  BY DEF OneOwner
<1>1. Claims(k, p) \/ (k = fresh /\ p = owner)
  BY DEF OnlyFresh
<1>2. Claims(k, q) \/ (k = fresh /\ q = owner)
  BY DEF OnlyFresh
<1>3. k = fresh => ~Claims(k, p) /\ ~Claims(k, q)
  BY ClaimedIsHeld
<1> QED BY <1>1, <1>2, <1>3 DEF OneOwner

\* To see this of a change of one request, it is enough to look at that request.
LEMMA OneCallClaims ==
    ASSUME TypeInv, FoundStands, UsersKept, NEW c \in Calls, NEW r,
           call' = [call EXCEPT ![c] = r], NEW fresh, NEW owner,
           \A s \in Sessions : \A k \in Tokens : \A p :
              session'[s].csrf = k /\ session'[s].user = p => Claims(k, p) \/ (k = fresh /\ p = owner),
           \A t \in Tabs : \A k \in Tokens : \A p :
              tab'[t].csrf = k /\ tab'[t].user = p => Claims(k, p),
           \A k \in Tokens : \A p :
              CallClaims(r, session', k, p) => Claims(k, p) \/ (k = fresh /\ p = owner)
    PROVE  OnlyFresh(fresh, owner)
<1> SUFFICES ASSUME NEW k \in Tokens, NEW p, Claims(k, p)'
             PROVE  Claims(k, p) \/ (k = fresh /\ p = owner)
  BY DEF OnlyFresh
<1>1. \/ \E s \in Sessions : session'[s].csrf = k /\ session'[s].user = p
      \/ \E t \in Tabs : tab'[t].csrf = k /\ tab'[t].user = p
      \/ \E d \in Calls : CallClaims(call'[d], session', k, p)
  BY DEF Claims
<1>2. ASSUME NEW d \in Calls, CallClaims(call'[d], session', k, p)
      PROVE  Claims(k, p) \/ (k = fresh /\ p = owner)
  <2>1. DOMAIN call = Calls
    BY DEF TypeInv, CallsFit
  <2>2. CASE d = c
    <3>1. call'[d] = r
      BY <2>1, <2>2
    <3>2. CallClaims(r, session', k, p)
      BY <1>2, <3>1
    <3> QED BY <3>2
  <2>3. CASE d # c
    <3>1. call'[d] = call[d]
      BY <2>1, <2>3
    <3>2. CallClaims(call[d], session, k, p)
      BY <1>2, <3>1, UntouchedClaims
    <3> QED BY <3>2 DEF Claims
  <2> QED BY <2>2, <2>3
<1> QED BY <1>1, <1>2

\* Sessions and pages that stay as they are claim nothing new.
LEMMA SameClaims ==
    /\ UNCHANGED session => \A s \in Sessions : \A k \in Tokens : \A p :
                               session'[s].csrf = k /\ session'[s].user = p => Claims(k, p)
    /\ UNCHANGED tab => \A t \in Tabs : \A k \in Tokens : \A p :
                           tab'[t].csrf = k /\ tab'[t].user = p => Claims(k, p)
BY DEF Claims

\* A request that is answered without naming anybody, or found under a session,
\* gives no token away.
LEMMA QuietCall ==
    ASSUME TypeInv, FoundStands, UsersKept, OneOwner, NEW c \in Calls, NEW r,
           call' = [call EXCEPT ![c] = r], UNCHANGED <<session, tab>>,
           \A k \in Tokens : \A p : CallClaims(r, session, k, p) => Claims(k, p)
    PROVE  OneOwner'
<1>1. None \notin Tokens
  BY SignInAssumption
<1>2. \A k \in Tokens : \A p :
         CallClaims(r, session', k, p) => Claims(k, p) \/ (k = None /\ p = None)
  OBVIOUS
<1>3. OnlyFresh(None, None)
  BY <1>2, SameClaims, OneCallClaims
<1> QED BY <1>1, <1>3, OneOwnerKept

\* Only the answers that name a person hand a token to a page.
LEMMA AnswerClaims ==
    ASSUME NEW c, NEW ok, NEW set, NEW user, NEW body, NEW rows0, NEW k, NEW p,
           CallClaims(Answered(c, ok, set, user, body), rows0, k, p)
    PROVE  call[c].kind \in {"me", "login"} /\ body = k /\ user = p
<1> DEFINE r == Answered(c, ok, set, user, body)
<1>1. r.phase = "answered" /\ r.kind = call[c].kind /\ r.token = body /\ r.user = user
  BY DEF Answered, Idle
<1> HIDE DEF r
<1>2. CallClaims(r, rows0, k, p)
  BY DEF r
<1> QED BY <1>1, <1>2 DEF CallClaims

\* An answer that hands out no token keeps the owners.
LEMMA QuietAnswer ==
    ASSUME TypeInv, FoundStands, UsersKept, OneOwner, NEW c \in Calls,
           NEW ok, NEW set, NEW user, NEW body,
           body = None \/ call[c].kind \notin {"me", "login"},
           call' = [call EXCEPT ![c] = Answered(c, ok, set, user, body)],
           UNCHANGED <<session, tab>>
    PROVE  OneOwner'
<1>1. \A k \in Tokens : k # None
  BY SignInAssumption
<1>2. \A k \in Tokens : \A p :
         CallClaims(Answered(c, ok, set, user, body), session, k, p) => Claims(k, p)
  BY <1>1, AnswerClaims
<1> QED BY <1>2, QuietCall

\* So does a look-up.
LEMMA QuietFound ==
    ASSUME TypeInv, FoundStands, UsersKept, OneOwner, NEW c \in Calls, NEW row,
           call[c].phase = "sent", call' = Found(c, row), UNCHANGED <<session, tab>>,
           call[c].kind \in SessionCalls =>
              call[c].cookies.session \in Sessions /\ row = session[call[c].cookies.session].csrf
    PROVE  OneOwner'
<1> DEFINE r == [call[c] EXCEPT !.phase = "found", !.row = row]
<1>1. call' = [call EXCEPT ![c] = r]
  BY DEF Found
<1>2. /\ r.phase = "found" /\ r.row = row /\ r.kind = call[c].kind /\ r.with = call[c].with
      /\ r.shown = call[c].shown /\ r.cookies = call[c].cookies
  BY DEF TypeInv, CallsFit, CallFits, Idle
<1> HIDE DEF r
<1>3. ASSUME NEW k \in Tokens, NEW p, CallClaims(r, session, k, p) PROVE Claims(k, p)
  BY <1>2, <1>3 DEF CallClaims, Claims
<1> QED BY <1>1, <1>3, QuietCall

\* So does the handling of a request, which hands out the token of its own session.
LEMMA ServeClaims ==
    ASSUME TypeInv, FoundStands, UsersKept, OneOwner, NEW c \in Calls, Serve(c) PROVE OneOwner'
<1> DEFINE s == call[c].cookies.session
           fresh == IF Rotates(c) THEN RandomToken ELSE None
           owner == session[s].user
<1>1. /\ call[c].phase = "found" /\ call[c].kind \in SessionCalls /\ TokenLeft /\ s \in Sessions
      /\ UNCHANGED tab
  BY ServeDoes
<1>2. fresh \in Tokens => fresh \notin Held
  BY <1>1, FreshToken, SignInAssumption
<1>3. ~Rotates(c) => \A k \in Tokens : k = ServedToken(c) => Claims(k, owner)
  BY <1>1 DEF ServedToken, Claims, CallClaims
<1>4. Rotates(c) => fresh = ServedToken(c)
  BY DEF ServedToken
<1>5. PICK csrf, state : RowServed(c, csrf, state)
  BY ServeDoes
<1>6. PICK ok, set, user, body : AnswerServed(c, ok, set, user, body)
  BY ServeDoes
<1>7. /\ session' = [session EXCEPT ![s] = [session[s] EXCEPT !.csrf = csrf, !.state = state]]
      /\ csrf # session[s].csrf => Rotates(c) /\ csrf = ServedToken(c)
  BY <1>5 DEF RowServed
<1>8. session'[s].csrf = csrf /\ session'[s].user = owner /\ \A r \in Sessions \ {s} : session'[r] = session[r]
  BY <1>1, <1>7 DEF TypeInv, SessionRow
<1>9. call' = [call EXCEPT ![c] = Answered(c, ok, set, user, body)]
  BY <1>6 DEF AnswerServed
<1>10. body = None \/ (user = owner /\ body = ServedToken(c))
  <2>1. \/ user = None /\ body = None
        \/ call[c].kind = "me" /\ user = session[s].user /\ body = ServedToken(c)
    BY <1>6 DEF AnswerServed
  <2> QED BY <2>1
<1> HIDE DEF s, fresh, owner
<1>11. ASSUME NEW r \in Sessions, NEW k \in Tokens, NEW p, session'[r].csrf = k, session'[r].user = p
       PROVE  Claims(k, p) \/ (k = fresh /\ p = owner)
  <2>1. CASE r = s /\ csrf # session[s].csrf
    BY <1>4, <1>7, <1>8, <1>11, <2>1
  <2>2. CASE r = s /\ csrf = session[s].csrf
    BY <1>1, <1>8, <1>11, <2>2 DEF Claims, owner
  <2>3. CASE r # s
    BY <1>8, <1>11, <2>3 DEF Claims
  <2> QED BY <2>1, <2>2, <2>3
<1>12. ASSUME NEW k \in Tokens, NEW p, CallClaims(Answered(c, ok, set, user, body), session', k, p)
       PROVE  Claims(k, p) \/ (k = fresh /\ p = owner)
  <2>1. body = k /\ user = p
    BY <1>12, AnswerClaims
  <2>2. k = ServedToken(c) /\ p = owner
    BY <1>10, <2>1, SignInAssumption
  <2> QED BY <1>3, <1>4, <2>2
<1>13. OnlyFresh(fresh, owner)
  BY <1>1, <1>9, <1>11, <1>12, SameClaims, OneCallClaims
<1> QED BY <1>2, <1>13, OneOwnerKept

\* So does a new session, whose token is fresh.
LEMMA MadeClaims ==
    ASSUME TypeInv, FoundStands, UsersKept, OneOwner, UNCHANGED tab, NEW c \in Calls,
           NEW p, NEW x, NEW u, OpenSession(c, p, x, u)
    PROVE  OneOwner'
<1>1. PICK s, token, set : SessionMade(c, p, x, u, s, token, set)
  BY OpenSessionDoes
<1>2. /\ token \notin Held
      /\ session' = [session EXCEPT ![s] = Opened(p, token, x, u, call[c].browser)]
      /\ call' = [call EXCEPT ![c] = Answered(c, TRUE, set, p, token)]
  BY <1>1 DEF SessionMade
<1>3. /\ session'[s].csrf = token /\ session'[s].user = p
      /\ \A r \in Sessions \ {s} : session'[r] = session[r]
  BY <1>1, <1>2 DEF Opened, TypeInv, SessionMade
<1>4. \A r \in Sessions : \A k \in Tokens : \A q :
         session'[r].csrf = k /\ session'[r].user = q => Claims(k, q) \/ (k = token /\ q = p)
  BY <1>3 DEF Claims
<1>5. ASSUME NEW k \in Tokens, NEW q, CallClaims(Answered(c, TRUE, set, p, token), session', k, q)
      PROVE  Claims(k, q) \/ (k = token /\ q = p)
  <2> DEFINE ok == TRUE
  <2>1. CallClaims(Answered(c, ok, set, p, token), session', k, q)
    BY <1>5
  <2> HIDE DEF ok
  <2>2. token = k /\ p = q
    BY <2>1, AnswerClaims
  <2> QED BY <2>2
<1>6. OnlyFresh(token, p)
  BY <1>2, <1>4, <1>5, SameClaims, OneCallClaims
<1> QED BY <1>2, <1>6, OneOwnerKept

\* So does every step of a handler.
LEMMA HandlersClaim ==
    ASSUME TypeInv, FoundStands, UsersKept, OneOwner, NEW c \in Calls, Handle(c), ~Deliver(c)
    PROVE  OneOwner'
<1>1. ASSUME NEW p, NEW x, NEW u, OpenSession(c, p, x, u), UNCHANGED tab PROVE OneOwner'
  BY <1>1, MadeClaims
<1>2. CASE LookUpSession(c)
  <2> DEFINE s == call[c].cookies.session
  <2>1. UNCHANGED <<session, tab>> /\ call[c].phase = "sent"
    BY <1>2 DEF LookUpSession, rows
  <2>2. CASE Usable(s)
    <3>1. s \in Sessions
      BY <2>1, <2>2 DEF Usable, TypeInv, CallsFit, CallFits, Cookies
    <3>2. call' = Found(c, session[s].csrf)
      BY <1>2, <2>2 DEF LookUpSession
    <3> QED BY <2>1, <3>1, <3>2, QuietFound
  <2>3. CASE ~Usable(s)
    <3>1. PICK set : call' = [call EXCEPT ![c] = Answered(c, FALSE, set, None, None)]
      BY <1>2, <2>3 DEF LookUpSession
    <3> DEFINE ok == FALSE
    <3>2. call' = [call EXCEPT ![c] = Answered(c, ok, set, None, None)]
      BY <3>1
    <3> HIDE DEF ok
    <3> QED BY <2>1, <3>2, QuietAnswer
  <2> QED BY <2>2, <2>3
<1>3. ASSUME call' = [call EXCEPT ![c] = Refused(c)], UNCHANGED <<session, tab>> PROVE OneOwner'
  <2> DEFINE ok == FALSE
             set == <<>>
  <2>1. call' = [call EXCEPT ![c] = Answered(c, ok, set, None, None)]
    BY <1>3 DEF Refused
  <2> HIDE DEF ok, set
  <2> QED BY <1>3, <2>1, QuietAnswer
<1>4. ASSUME call' = [call EXCEPT ![c] = SsoFailed(c)], UNCHANGED <<session, tab>> PROVE OneOwner'
  <2> DEFINE ok == FALSE
             set == [oidc |-> None]
  <2>1. call' = [call EXCEPT ![c] = Answered(c, ok, set, None, None)]
    BY <1>4 DEF SsoFailed
  <2> HIDE DEF ok, set
  <2> QED BY <1>4, <2>1, QuietAnswer
<1>5. CASE LookUpUser(c)
  <2>1. UNCHANGED <<session, tab>> /\ call[c].phase = "sent" /\ call[c].kind \notin SessionCalls
    BY <1>5 DEF LookUpUser, rows, SessionCalls
  <2>2. CASE call' = Found(c, None)
    BY <2>1, <2>2, QuietFound
  <2>3. CASE call' = [call EXCEPT ![c] = Refused(c)]
    BY <1>3, <2>1, <2>3
  <2> QED BY <1>5, <2>2, <2>3 DEF LookUpUser
<1>6. CASE PasswordChecked(c)
  BY <1>1, <1>3, <1>6 DEF PasswordChecked
<1>7. CASE Begin(c)
  <2> DEFINE x == CHOOSE x \in Transactions : transaction[x].state = "none"
             ok == TRUE
             set == [oidc |-> x]
  <2>1. /\ call' = [call EXCEPT ![c] = Answered(c, ok, set, None, x)]
        /\ UNCHANGED <<session, tab>> /\ call[c].kind = "start"
    BY <1>7 DEF Begin
  <2>2. call[c].kind \notin {"me", "login"}
    BY <2>1
  <2> HIDE DEF x, ok, set
  <2> QED BY <2>1, <2>2, QuietAnswer
<1>8. CASE LookUpTransaction(c)
  <2>1. UNCHANGED <<session, tab>> /\ call[c].phase = "sent" /\ call[c].kind \notin SessionCalls
    BY <1>8 DEF LookUpTransaction, rows, SessionCalls
  <2>2. CASE call' = Found(c, call[c].cookies.oidc)
    <3> DEFINE x == call[c].cookies.oidc
    <3>1. call' = Found(c, x)
      BY <2>2
    <3> HIDE DEF x
    <3> QED BY <2>1, <3>1, QuietFound
  <2>3. CASE call' = [call EXCEPT ![c] = SsoFailed(c)]
    BY <1>4, <2>1, <2>3
  <2> QED BY <1>8, <2>2, <2>3 DEF LookUpTransaction
<1>9. CASE Consume(c)
  <2>1. UNCHANGED <<session, tab>>
    BY <1>9 DEF Consume
  <2>2. CASE call' = [call EXCEPT ![c].phase = "exchanging"]
    <3> DEFINE r == [call[c] EXCEPT !.phase = "exchanging"]
    <3>1. call' = [call EXCEPT ![c] = r]
      BY <2>2
    <3>2. r.phase = "exchanging"
      BY DEF TypeInv, CallsFit, CallFits, Idle
    <3> HIDE DEF r
    <3>3. \A k, p : ~CallClaims(r, session, k, p)
      BY <3>2 DEF CallClaims
    <3> QED BY <2>1, <3>1, <3>3, QuietCall
  <2> QED BY <1>4, <1>9, <2>1, <2>2 DEF Consume
<1>10. CASE Exchange(c)
  BY <1>1, <1>4, <1>10 DEF Exchange
<1> QED BY <1>2, <1>5, <1>6, <1>7, <1>8, <1>9, <1>10, ServeClaims DEF Handle

\* A page that hears an answer shows the person the answer's token stands for.
LEMMA DeliverClaims ==
    ASSUME TypeInv, FoundStands, UsersKept, OneOwner, NEW c \in Calls, Deliver(c)
    PROVE  OneOwner'
<1>1. /\ UNCHANGED session /\ call' = [call EXCEPT ![c] = Idle] /\ call[c].phase = "answered"
      /\ CallFits(call[c])
  BY DEF Deliver, rows, TypeInv, CallsFit
<1>2. \A k, p : ~CallClaims(Idle, session', k, p)
  BY DEF CallClaims, Idle
<1>3. ASSUME NEW t \in Tabs, NEW k \in Tokens, NEW p, tab'[t].csrf = k, tab'[t].user = p
      PROVE  Claims(k, p)
  <2>1. CASE tab'[t] = tab[t]
    BY <1>3, <2>1 DEF Claims
  <2>2. CASE tab'[t] # tab[t]
    <3> DEFINE h == Heard(t, call[c])
    <3>1. call[c].tab = t /\ tab'[t] = h /\ tab[t] \in Page
      BY <2>2 DEF Deliver, TypeInv
    <3>2. \/ /\ call[c].kind \in {"me", "login"}
             /\ h.user = call[c].user /\ h.csrf = call[c].token
          \/ h.csrf = None
          \/ h.csrf = tab[t].csrf /\ h.user = tab[t].user
      BY <3>1 DEF Heard, Page, NewPage
    <3> HIDE DEF h
    <3>3. k # None
      BY SignInAssumption
    <3> QED BY <1>1, <1>3, <3>1, <3>2, <3>3 DEF Claims, CallClaims
  <2> QED BY <2>1, <2>2
<1>4. \A s \in Sessions : \A k \in Tokens : \A p :
         session'[s].csrf = k /\ session'[s].user = p => Claims(k, p) \/ (k = None /\ p = None)
  BY <1>1, SameClaims
<1>5. OnlyFresh(None, None)
  BY <1>1, <1>2, <1>3, <1>4, OneCallClaims
<1> QED BY <1>5, OneOwnerKept, SignInAssumption

\* So does a request that is lost.
LEMMA LoseClaims ==
    ASSUME TypeInv, FoundStands, UsersKept, OneOwner, NEW c \in Calls, Lose(c)
    PROVE  OneOwner'
<1>1. UNCHANGED session /\ call' = [call EXCEPT ![c] = Idle]
  BY DEF Lose, rows
<1>2. \A k, p : ~CallClaims(Idle, session', k, p)
  BY DEF CallClaims, Idle
<1>3. \A t \in Tabs : tab'[t].csrf = tab[t].csrf /\ tab'[t].user = tab[t].user
  BY DEF Lose, TypeInv, Page
<1>4. \A t \in Tabs : \A k \in Tokens : \A p : tab'[t].csrf = k /\ tab'[t].user = p => Claims(k, p)
  BY <1>3 DEF Claims
<1>5. \A s \in Sessions : \A k \in Tokens : \A p :
         session'[s].csrf = k /\ session'[s].user = p => Claims(k, p) \/ (k = None /\ p = None)
  BY <1>1, SameClaims
<1>6. OnlyFresh(None, None)
  BY <1>1, <1>2, <1>4, <1>5, OneCallClaims
<1> QED BY <1>6, OneOwnerKept, SignInAssumption

\* A page sends the token it shows its person under.
LEMMA UseClaims ==
    ASSUME TypeInv, FoundStands, OneOwner, NEW t \in Tabs, Use(t) PROVE OneOwner'
<1>1. PICK kind, with :
         /\ Send(t, kind, with, call) \/ Send(t, kind, with, Left(call, t))
         /\ kind \in SessionCalls => with = None \/ with = tab[t].csrf
  BY DEF Use, Load, Read, Write, Logout, Login, StartSso, Return, SessionCalls
<1>2. PICK c \in Calls : \/ call' = [call EXCEPT ![c] = Sent(t, kind, with)]
                         \/ call' = [Left(call, t) EXCEPT ![c] = Sent(t, kind, with)]
  BY <1>1 DEF Send
<1>3. UNCHANGED session
  BY <1>1 DEF Send, rows
<1>4. \A k \in Tokens : k # None
  BY SignInAssumption
<1>5. ASSUME NEW u \in Tabs, NEW k \in Tokens, NEW p, tab'[u].csrf = k, tab'[u].user = p
      PROVE  Claims(k, p)
  <2>1. CASE Read(t)
    <3>1. tab'[u].csrf = tab[u].csrf /\ tab'[u].user = tab[u].user
      BY <2>1 DEF Read, TypeInv, Page
    <3> QED BY <1>5, <3>1 DEF Claims
  <2>2. CASE ~Read(t)
    <3>1. tab'[u] = tab[u] \/ tab'[u].csrf = None
      BY <2>2 DEF Use, Load, Write, Logout, Login, StartSso, Return, NewPage, TypeInv
    <3> QED BY <1>4, <1>5, <3>1 DEF Claims
  <2> QED BY <2>1, <2>2
<1>6. ASSUME NEW k \in Tokens, NEW p, CallClaims(Sent(t, kind, with), session, k, p)
      PROVE  Claims(k, p)
  <2> DEFINE r == Sent(t, kind, with)
  <2>1. r.phase = "sent" /\ r.kind = kind /\ r.with = with /\ r.shown = tab[t].user
    BY DEF Sent, Idle
  <2>2. CallClaims(r, session, k, p)
    BY <1>6
  <2> HIDE DEF r
  <2>3. with = k /\ tab[t].user = p /\ kind \in SessionCalls
    BY <2>1, <2>2 DEF CallClaims
  <2> QED BY <1>1, <1>4, <2>3 DEF Claims
<1>7. ASSUME NEW d \in Calls, NEW k, NEW p, CallClaims(Left(call, t)[d], session, k, p)
      PROVE  CallClaims(call[d], session, k, p)
  <2> DEFINE r == Left(call, t)[d]
  <2>1. DOMAIN call[d] = DOMAIN Idle
    BY DEF TypeInv, CallsFit, CallFits
  <2>2. /\ r.phase = call[d].phase /\ r.kind = call[d].kind /\ r.with = call[d].with
        /\ r.shown = call[d].shown /\ r.row = call[d].row /\ r.cookies = call[d].cookies
        /\ r.token = call[d].token /\ r.user = call[d].user
    BY <2>1 DEF Left, Idle
  <2>3. CallClaims(r, session, k, p)
    BY <1>7
  <2> HIDE DEF r
  <2> QED BY <2>2, <2>3 DEF CallClaims
<1>8. DOMAIN call = Calls /\ DOMAIN Left(call, t) = Calls
  BY DEF TypeInv, CallsFit, Left
<1>9. ASSUME NEW d \in Calls, NEW k \in Tokens, NEW p, CallClaims(call'[d], session, k, p)
      PROVE  Claims(k, p)
  <2>1. \/ call'[d] = Sent(t, kind, with) \/ call'[d] = call[d] \/ call'[d] = Left(call, t)[d]
    BY <1>2, <1>8
  <2>2. CASE call'[d] = Sent(t, kind, with)
    BY <1>6, <1>9, <2>2
  <2>3. CASE call'[d] = call[d]
    BY <1>9, <2>3 DEF Claims
  <2>4. CASE call'[d] = Left(call, t)[d]
    <3>1. CallClaims(call[d], session, k, p)
      BY <1>7, <1>9, <2>4
    <3> QED BY <3>1 DEF Claims
  <2> QED BY <2>1, <2>2, <2>3, <2>4
<1>10. ASSUME NEW k \in Tokens, NEW p, Claims(k, p)' PROVE Claims(k, p)
  <2>1. \/ \E s \in Sessions : session[s].csrf = k /\ session[s].user = p
        \/ \E u \in Tabs : tab'[u].csrf = k /\ tab'[u].user = p
        \/ \E d \in Calls : CallClaims(call'[d], session, k, p)
    BY <1>3, <1>10 DEF Claims
  <2>2. (\E s \in Sessions : session[s].csrf = k /\ session[s].user = p) => Claims(k, p)
    BY DEF Claims
  <2> QED BY <1>5, <1>9, <2>1, <2>2
<1> QED BY <1>10 DEF OneOwner

\* Every step keeps that a token stands for one person.
LEMMA NextOneOwner ==
    ASSUME TypeInv, FoundStands, OneOwner, [Next]_vars PROVE OneOwner'
<1>1. UsersKept
  BY KeepUsers
<1>2. ASSUME NEW t \in left.tabs, Use(t) PROVE OneOwner'
  <2>1. t \in Tabs
    BY DEF TypeInv, Bounds
  <2> QED BY <1>2, <2>1, UseClaims
<1>3. ASSUME UNCHANGED <<tab, call>>, SessionsKept,
             \A s \in Sessions : session'[s].csrf = session[s].csrf
      PROVE  OneOwner'
  <2>1. ASSUME NEW k \in Tokens, NEW p, Claims(k, p)' PROVE Claims(k, p)
    <3>1. \/ \E s \in Sessions : session'[s].csrf = k /\ session'[s].user = p
          \/ \E t \in Tabs : tab[t].csrf = k /\ tab[t].user = p
          \/ \E d \in Calls : CallClaims(call[d], session', k, p)
      BY <1>3, <2>1 DEF Claims
    <3>2. \A d \in Calls : CallClaims(call[d], session', k, p) => CallClaims(call[d], session, k, p)
      BY <1>1, UntouchedClaims
    <3> QED BY <1>3, <3>1, <3>2 DEF Claims, SessionsKept
  <2> QED BY <2>1 DEF OneOwner
<1>4. ASSUME NEW s \in Sessions, ExpireSession(s) PROVE OneOwner'
  <2>1. SessionsKept /\ \A r \in Sessions : session'[r].csrf = session[r].csrf
    BY <1>4 DEF ExpireSession, SessionsKept, TypeInv, SessionRow
  <2> QED BY <1>3, <1>4, <2>1 DEF ExpireSession
<1>5. UNCHANGED <<session, tab, call>> => OneOwner'
  BY <1>3 DEF SessionsKept
<1>6. ASSUME \/ \E b \in Browsers : DropCsrfCookie(b)
             \/ \E x \in Transactions : ExpireTransaction(x)
             \/ \E p \in People : SetUserStatus(p)
             \/ UNCHANGED vars
      PROVE  OneOwner'
  BY <1>5, <1>6 DEF DropCsrfCookie, ExpireTransaction, SetUserStatus, vars, rows
<1> QED BY <1>1, <1>2, <1>4, <1>6, HandlersClaim, DeliverClaims, LoseClaims DEF Next

-----------------------------------------------------------------------------
(* Sessions that requests were found under stand.                          *)

\* To see that what was found still stands, it is enough to look at the request that changed.
LEMMA OneCallStands ==
    ASSUME TypeInv, FoundStands, UsersKept, NEW c \in Calls, NEW r,
           call' = [call EXCEPT ![c] = r],
           r.phase = "found" /\ r.kind \in SessionCalls => session'[r.cookies.session].state # "none"
    PROVE  FoundStands'
<1>1. DOMAIN call = Calls
  BY DEF TypeInv, CallsFit
<1>2. ASSUME NEW d \in Calls, call'[d].phase = "found", call'[d].kind \in SessionCalls
      PROVE  session'[call'[d].cookies.session].state # "none"
  <2>1. CASE d = c
    BY <1>1, <1>2, <2>1
  <2>2. CASE d # c
    <3>1. call'[d] = call[d]
      BY <1>1, <2>2
    <3>2. call[d].cookies.session \in Sessions
      BY <1>2, <3>1 DEF TypeInv, CallsFit, CallFits
    <3> QED BY <1>2, <3>1, <3>2 DEF FoundStands, UsersKept
  <2> QED BY <2>1, <2>2
<1> QED BY <1>2 DEF FoundStands, SessionCalls

\* No handler takes away what another request found.
LEMMA HandlersStand ==
    ASSUME TypeInv, FoundStands, UsersKept, NEW c \in Calls, Handle(c) PROVE FoundStands'
<1> DEFINE Answers == \E ok, set, user, body :
                         call' = [call EXCEPT ![c] = Answered(c, ok, set, user, body)]
           Finds == call[c].kind \notin SessionCalls /\ \E row : call' = Found(c, row)
<1>1. ASSUME NEW r, r.phase # "found", call' = [call EXCEPT ![c] = r] PROVE FoundStands'
  BY <1>1, OneCallStands
<1>2. Answers => FoundStands'
  <2> SUFFICES ASSUME NEW ok, NEW set, NEW user, NEW body,
                      call' = [call EXCEPT ![c] = Answered(c, ok, set, user, body)]
               PROVE  FoundStands'
    OBVIOUS
  <2>1. Answered(c, ok, set, user, body).phase = "answered"
    BY DEF Answered, Idle
  <2> QED BY <1>1, <2>1
<1>3. ASSUME NEW row, call' = Found(c, row),
             call[c].kind \in SessionCalls => session'[call[c].cookies.session].state # "none"
      PROVE  FoundStands'
  <2> DEFINE r == [call[c] EXCEPT !.phase = "found", !.row = row]
  <2>1. call' = [call EXCEPT ![c] = r]
    BY <1>3 DEF Found
  <2>2. r.kind = call[c].kind /\ r.cookies = call[c].cookies
    BY DEF TypeInv, CallsFit, CallFits, Idle
  <2> HIDE DEF r
  <2> QED BY <1>3, <2>1, <2>2, OneCallStands
<1>4. Finds => FoundStands'
  BY <1>3
<1>5. CASE LookUpSession(c)
  <2> DEFINE s == call[c].cookies.session
  <2>1. CASE Usable(s)
    <3>1. call' = Found(c, session[s].csrf) /\ session'[s].state = "live"
      BY <1>5, <2>1 DEF LookUpSession, Usable, rows
    <3> QED BY <1>3, <3>1
  <2>2. CASE ~Usable(s)
    <3>1. Answers
      BY <1>5, <2>2 DEF LookUpSession
    <3> QED BY <1>2, <3>1
  <2> QED BY <2>1, <2>2
<1>6. CASE Serve(c)
  <2>1. Answers
    BY <1>6, ServeDoes DEF AnswerServed
  <2> QED BY <1>2, <2>1
<1>7. (\E p, x, u : OpenSession(c, p, x, u)) => Answers
  <2> SUFFICES ASSUME NEW p, NEW x, NEW u, OpenSession(c, p, x, u) PROVE Answers
    OBVIOUS
  <2>1. PICK s, token, set : SessionMade(c, p, x, u, s, token, set)
    BY OpenSessionDoes
  <2> QED BY <2>1 DEF SessionMade
<1>8. (call' = [call EXCEPT ![c] = Refused(c)] => Answers) /\ (call' = [call EXCEPT ![c] = SsoFailed(c)] => Answers)
  BY DEF Refused, SsoFailed
<1>9. CASE LookUpUser(c)
  <2>1. Finds \/ call' = [call EXCEPT ![c] = Refused(c)]
    BY <1>9 DEF LookUpUser, SessionCalls
  <2> HIDE DEF Finds, Answers
  <2> QED BY <1>2, <1>4, <1>8, <2>1
<1>10. CASE PasswordChecked(c)
  <2>1. (\E p, x, u : OpenSession(c, p, x, u)) \/ call' = [call EXCEPT ![c] = Refused(c)]
    BY <1>10 DEF PasswordChecked
  <2> HIDE DEF Answers
  <2> QED BY <1>2, <1>7, <1>8, <2>1
<1>11. CASE Begin(c)
  <2> DEFINE x == CHOOSE x \in Transactions : transaction[x].state = "none"
  <2>1. call' = [call EXCEPT ![c] = Answered(c, TRUE, [oidc |-> x], None, x)]
    BY <1>11 DEF Begin
  <2> HIDE DEF x
  <2>2. Answers
    BY <2>1
  <2> QED BY <1>2, <2>2
<1>12. CASE LookUpTransaction(c)
  <2>1. Finds \/ call' = [call EXCEPT ![c] = SsoFailed(c)]
    BY <1>12 DEF LookUpTransaction, SessionCalls
  <2> HIDE DEF Finds, Answers
  <2> QED BY <1>2, <1>4, <1>8, <2>1
<1>13. CASE Consume(c)
  <2>1. CASE call' = [call EXCEPT ![c].phase = "exchanging"]
    <3> DEFINE r == [call[c] EXCEPT !.phase = "exchanging"]
    <3>1. call' = [call EXCEPT ![c] = r]
      BY <2>1
    <3>2. r.phase = "exchanging"
      BY DEF TypeInv, CallsFit, CallFits, Idle
    <3> HIDE DEF r
    <3> QED BY <1>1, <3>1, <3>2
  <2>2. CASE call' = [call EXCEPT ![c] = SsoFailed(c)]
    <3> HIDE DEF Answers
    <3> QED BY <1>2, <1>8, <2>2
  <2> QED BY <1>13, <2>1, <2>2 DEF Consume
<1>14. CASE Exchange(c)
  <2>1. (\E p, x, u : OpenSession(c, p, x, u)) \/ call' = [call EXCEPT ![c] = SsoFailed(c)]
    BY <1>14 DEF Exchange
  <2> HIDE DEF Answers
  <2> QED BY <1>2, <1>7, <1>8, <2>1
<1>15. CASE Deliver(c)
  BY <1>1, <1>15 DEF Deliver, Idle
<1> QED BY <1>5, <1>6, <1>9, <1>10, <1>11, <1>12, <1>13, <1>14, <1>15 DEF Handle

\* Every step keeps what was found standing.
LEMMA NextStands == ASSUME TypeInv, FoundStands, [Next]_vars PROVE FoundStands'
<1>1. UsersKept
  BY KeepUsers
<1>2. ASSUME NEW t, Use(t) PROVE FoundStands'
  <2>1. PICK kind, with : Send(t, kind, with, call) \/ Send(t, kind, with, Left(call, t))
    BY <1>2 DEF Use, Load, Read, Write, Logout, Login, StartSso, Return
  <2>2. Sent(t, kind, with).phase = "sent"
    BY DEF Sent, Idle
  <2>3. PICK c \in Calls : \/ call' = [call EXCEPT ![c] = Sent(t, kind, with)]
                           \/ call' = [Left(call, t) EXCEPT ![c] = Sent(t, kind, with)]
    BY <2>1 DEF Send
  <2>4. UNCHANGED session
    BY <2>1 DEF Send, rows
  <2>5. ASSUME NEW d \in Calls
        PROVE  /\ Left(call, t)[d].phase = call[d].phase /\ Left(call, t)[d].kind = call[d].kind
               /\ Left(call, t)[d].cookies = call[d].cookies
    <3>1. DOMAIN call[d] = DOMAIN Idle
      BY DEF TypeInv, CallsFit, CallFits
    <3> QED BY <3>1 DEF Left, Idle
  <2>6. DOMAIN call = Calls /\ DOMAIN Left(call, t) = Calls
    BY DEF TypeInv, CallsFit, Left
  <2> QED BY <2>2, <2>3, <2>4, <2>5, <2>6 DEF FoundStands, SessionCalls
<1>3. ASSUME NEW c \in Calls, Lose(c) PROVE FoundStands'
  BY <1>1, <1>3, OneCallStands DEF Lose, Idle
<1>4. UNCHANGED call => FoundStands'
  BY <1>1 DEF FoundStands, UsersKept, TypeInv, CallsFit, CallFits, SessionCalls
<1>5. ASSUME \/ \E b \in Browsers : DropCsrfCookie(b)
             \/ \E s \in Sessions : ExpireSession(s)
             \/ \E x \in Transactions : ExpireTransaction(x)
             \/ \E p \in People : SetUserStatus(p)
             \/ UNCHANGED vars
      PROVE  FoundStands'
  BY <1>4, <1>5 DEF DropCsrfCookie, ExpireSession, ExpireTransaction, SetUserStatus, vars
<1> QED BY <1>1, <1>2, <1>3, <1>5, HandlersStand DEF Next

\* What is written is written by the session whose token the page held, and that
\* token stands for one person.
LEMMA NextWrites ==
    ASSUME TypeInv, OneOwner, WritesAreAsShown, [Next]_vars PROVE WritesAreAsShown'
<1>1. UNCHANGED secret => WritesAreAsShown'
  BY DEF WritesAreAsShown
<1>2. ASSUME NEW c \in Calls, Serve(c) PROVE WritesAreAsShown'
  <2>1. ASSUME NEW k \in Secrets, Issue(k, c), call[c].kind = "write", CsrfValid(c, ServedToken(c))
        PROVE  WritesAreAsShown'
    <3> DEFINE with == call[c].with
               s == call[c].cookies.session
    <3>1. call[c].phase = "found" /\ call[c].kind \in SessionCalls /\ TokenLeft /\ s \in Sessions
      BY <1>2, ServeDoes
    <3>2. with \in Tokens /\ with = ServedToken(c)
      BY <2>1, <3>1 DEF CsrfValid, TypeInv, CallsFit, CallFits, WithFits
    <3>3. Claims(with, call[c].shown)
      BY <3>1 DEF Claims, CallClaims
    <3>4. with \in Held
      BY <3>2, <3>3, ClaimedIsHeld
    <3>5. with = call[c].row
      BY <3>1, <3>2, <3>4, FreshToken DEF ServedToken
    <3>6. Claims(with, session[s].user)
      BY <3>1, <3>5 DEF Claims, CallClaims
    <3>7. session[s].user = call[c].shown
      BY <3>2, <3>3, <3>6 DEF OneOwner
    <3> QED BY <2>1, <3>7 DEF Issue, WritesAreAsShown, TypeInv
  <2>2. ASSUME NEW k \in Secrets, Revoke(k) PROVE WritesAreAsShown'
    BY <2>2 DEF Revoke, WritesAreAsShown, TypeInv, SecretRow
  <2> QED BY <1>1, <1>2, <2>1, <2>2, ServeDoes DEF SecretServed
<1>3. ASSUME NEW c \in Calls, Handle(c), ~Serve(c) PROVE WritesAreAsShown'
  BY <1>1, <1>3 DEF Handle, LookUpSession, LookUpUser, PasswordChecked, Begin,
     LookUpTransaction, Consume, Exchange, Deliver, rows
<1>4. ASSUME NEW t, Use(t) PROVE WritesAreAsShown'
  BY <1>1, <1>4 DEF Use, Load, Read, Write, Logout, Login, StartSso, Return, Send, rows
<1>5. ASSUME \/ \E c \in Calls : Lose(c)
             \/ \E b \in Browsers : DropCsrfCookie(b)
             \/ \E s \in Sessions : ExpireSession(s)
             \/ \E x \in Transactions : ExpireTransaction(x)
             \/ \E p \in People : SetUserStatus(p)
             \/ UNCHANGED vars
      PROVE  WritesAreAsShown'
  BY <1>1, <1>5 DEF Lose, DropCsrfCookie, ExpireSession, ExpireTransaction, SetUserStatus, vars, rows
<1> QED BY <1>2, <1>3, <1>4, <1>5 DEF Next

\* Nobody writes under somebody else's name, however requests, answers, sign-ins and
\* sign-outs of any number of tabs and browsers overlap.
THEOREM WritesNameTheirPerson == Spec => []WritesAreAsShown
<1>1. Init => FoundStands /\ OneOwner /\ WritesAreAsShown
  <2> SUFFICES ASSUME Init PROVE FoundStands /\ OneOwner /\ WritesAreAsShown
    OBVIOUS
  <2>1. \A k \in Tokens : k # None
    BY SignInAssumption
  <2>2. \A k \in Tokens : \A p : ~Claims(k, p)
    BY <2>1 DEF Init, Claims, CallClaims, NoSession, NewPage, Idle
  <2> QED BY <2>2 DEF Init, FoundStands, OneOwner, WritesAreAsShown, Idle
<1>2. TypeInv /\ FoundStands /\ OneOwner /\ WritesAreAsShown /\ [Next]_vars
      => FoundStands' /\ OneOwner' /\ WritesAreAsShown'
  BY NextStands, NextOneOwner, NextWrites
<1> QED BY <1>1, <1>2, Typed, PTL DEF Spec
===============================================================================
