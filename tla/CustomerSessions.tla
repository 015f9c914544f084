-------------------------- MODULE CustomerSessions --------------------------
(***************************************************************************)
(* One customer account, its sessions and the tabs that use them           *)
(* (customer-auth.service.ts, customer-auth.controller.ts and, in the      *)
(* browser, auth-provider.tsx).                                            *)
(*                                                                         *)
(* The tabs of a browser share its refresh cookie.  A request carries the  *)
(* cookie as it is when it leaves; the server reads, then writes; the      *)
(* answer sets or clears the cookie and only then reaches the tab, and     *)
(* answers arrive in any order or not at all.  A refresh token is a number *)
(* that no other token has.                                                *)
(***************************************************************************)
EXTENDS Integers, FiniteSets

CONSTANTS
    Tabs, Browsers,
    browserOf,      \* [Tabs -> Browsers]
    Links,          \* requests for a new password
    Resetters,      \* requests that set a new password
    Registered,     \* does the account start with a password?
    MaxTokens,      \* bound: refresh tokens ever made
    MaxPasswords    \* bound: passwords ever set

SessionsAssumption ==
    /\ browserOf \in [Tabs -> Browsers]
    /\ Registered \in BOOLEAN /\ IsFiniteSet(Tabs)
    /\ {MaxTokens, MaxPasswords} \subseteq Nat \ {0}

VARIABLES
    account,    \* the Customer row: its password's number, 0 before register
    session,    \* the CustomerSession rows, by the first token of each
    tokens,     \* the tokens made so far
    cookie,     \* [Browsers -> a token, 0 without cookie]
    tab,        \* [Tabs -> what the tab shows and waits for]
    link,       \* [Links -> the PasswordResetRequest row and its token]
    resetter,   \* [Resetters -> the link being used, after it was read]
    made        \* history: [1..MaxTokens -> the token it was given for, its session]

sessionVars == <<account, session, tokens, cookie, tab, link, resetter, made>>
-----------------------------------------------------------------------------
(* Rows and requests.                                                      *)

NoSession == [token |-> 0, live |-> FALSE, expired |-> FALSE, verified |-> 0, born |-> 0]
Stored(s) == session[s] # NoSession
\* refreshTokenHash is unique: at most one session has a token.
SessionOf(t) == {s \in DOMAIN session : Stored(s) /\ session[s].token = t}
Valid(s) == session[s].live /\ ~session[s].expired

Idle == [call |-> "none", step |-> "none", sent |-> 0, read |-> {}, result |-> 0]
call(name, t) == [Idle EXCEPT !.call = name, !.step = "SENT",
                              !.sent = cookie[browserOf[t]]]
Busy(t) == tab[t].request # Idle
Step(t, name, step) == tab[t].request.call = name /\ tab[t].request.step = step
Request(t) == tab[t].request
\* The bound: every request that is under way may still make a token.
TokensLeft == tokens + Cardinality({t \in Tabs : Busy(t)}) < MaxTokens

NoLink == [made |-> FALSE, used |-> FALSE, expired |-> FALSE, mailed |-> FALSE, sets |-> 0]
Open(l) == link[l].made /\ ~link[l].used /\ ~link[l].expired

Init ==
    /\ account = IF Registered THEN [password |-> 1] ELSE [password |-> 0]
    /\ session = [s \in 1..MaxTokens |-> NoSession]
    /\ tokens = 0
    /\ cookie = [b \in Browsers |-> 0]
    /\ tab = [t \in Tabs |-> [status |-> "loading", request |-> Idle]]
    /\ link = [l \in Links |-> NoLink]
    /\ resetter = [r \in Resetters |-> {}]
    /\ made = [n \in 1..MaxTokens |-> [from |-> 0, session |-> n]]
-----------------------------------------------------------------------------
(* The browser: auth-provider.tsx.                                         *)

SetRequest(t, r) == tab' = [tab EXCEPT ![t].request = r]

\* refreshSession, on mount, after a 401 or from the verification page; the
\* promise in refreshPromiseRef keeps a second one of this tab from leaving.
RefreshSession(t) ==
    /\ ~Busy(t) /\ TokensLeft
    /\ SetRequest(t, call("refresh", t))
    /\ UNCHANGED <<account, session, tokens, cookie, link, resetter, made>>

Login(t) ==
    /\ ~Busy(t) /\ tab[t].status = "anonymous" /\ TokensLeft
    /\ SetRequest(t, call("login", t))
    /\ UNCHANGED <<account, session, tokens, cookie, link, resetter, made>>

Logout(t) ==
    /\ ~Busy(t) /\ tab[t].status = "authenticated"
    /\ SetRequest(t, call("logout", t))
    /\ UNCHANGED <<account, session, tokens, cookie, link, resetter, made>>

\* The answer reaches the browser: withRefreshCookie or clearCookie, then
\* persistSession or clearSession.  A failed refresh leaves the cookie alone.
afterAnswer(t, r) ==
    CASE r.call = "logout" -> "anonymous"
      [] r.result > 0      -> "authenticated"
      [] r.call = "refresh" -> "anonymous"
      [] OTHER              -> tab[t].status      \* a login that failed
cookieAfter(b, r) ==
    CASE r.call = "logout" -> 0
      [] r.result > 0      -> r.result
      [] OTHER             -> cookie[b]

Answer(t) ==
    /\ Busy(t) /\ Request(t).step = "DONE"
    /\ cookie' = [cookie EXCEPT ![browserOf[t]] = cookieAfter(browserOf[t], Request(t))]
    /\ tab' = [tab EXCEPT ![t] = [status |-> afterAnswer(t, Request(t)), request |-> Idle]]
    /\ UNCHANGED <<account, session, tokens, link, resetter, made>>

\* The request or its answer is lost, or the server answers with an error:
\* refreshSession's catch and logout's finally clear the session all the same.
lostStatus(t, r) == IF r.call \in {"refresh", "logout"} THEN "anonymous" ELSE tab[t].status

Lose(t) ==
    /\ Busy(t) /\ Request(t).step \in {"SENT", "DONE"}
    /\ tab' = [tab EXCEPT ![t] = [status |-> lostStatus(t, Request(t)), request |-> Idle]]
    /\ UNCHANGED <<account, session, tokens, cookie, link, resetter, made>>
-----------------------------------------------------------------------------
(* The server: customer-auth.service.ts.                                   *)

Done(t, result) == SetRequest(t, [Request(t) EXCEPT !.step = "DONE", !.result = result])

\* register: the account and its first session.  The unique e-mail lets one
\* request create it; the address counts as verified from the start.
Register(t) ==
    /\ ~Busy(t) /\ tab[t].status = "anonymous"
    /\ account.password = 0 /\ ~Registered /\ TokensLeft
    /\ ~\E l \in Links : link[l].made   \* an address with a history is refused
    /\ account' = [password |-> 1]
    /\ tokens' = tokens + 1
    /\ session' = [session EXCEPT ![tokens + 1] = [token |-> tokens + 1, live |-> TRUE,
                        expired |-> FALSE, verified |-> 1, born |-> 1]]
    /\ SetRequest(t, [call("register", t) EXCEPT !.step = "DONE", !.result = tokens + 1])
    /\ UNCHANGED <<cookie, link, resetter, made>>

\* login: the password is compared with the hash that was read.
ReadForLogin(t) ==
    /\ Step(t, "login", "SENT")
    /\ \/ account.password > 0
          /\ SetRequest(t, [Request(t) EXCEPT !.step = "READ", !.read = {account.password}])
       \/ Done(t, 0)
    /\ UNCHANGED <<account, session, tokens, cookie, link, resetter, made>>

\* issueSession.
IssueSession(t) ==
    /\ Step(t, "login", "READ")
    /\ tokens' = tokens + 1
    /\ session' = [session EXCEPT ![tokens + 1] =
                     [token |-> tokens + 1, live |-> TRUE, expired |-> FALSE,
                      verified |-> CHOOSE p \in Request(t).read : TRUE,
                      born |-> account.password]]
    /\ Done(t, tokens + 1)
    /\ UNCHANGED <<account, cookie, link, resetter, made>>

\* refresh: the session of the token is read and must be valid.
ReadForRefresh(t) ==
    /\ Step(t, "refresh", "SENT")
    /\ LET found == {s \in SessionOf(Request(t).sent) : Valid(s)} IN
         IF found = {} THEN Done(t, 0)
         ELSE SetRequest(t, [Request(t) EXCEPT !.step = "READ", !.read = found])
    /\ UNCHANGED <<account, session, tokens, cookie, link, resetter, made>>

\* The update that rotates the token asks again for the token and its validity.
rotatable_Read(s, token) == Valid(s)
rotatable(s, token) == session[s].token = token /\ Valid(s)

Rotate(t) ==
    /\ Step(t, "refresh", "READ")
    /\ LET token == Request(t).sent
           found == {s \in Request(t).read : rotatable(s, token)} IN
         IF found = {} THEN Done(t, 0) /\ UNCHANGED <<session, tokens, made>>
         ELSE /\ tokens' = tokens + 1
              /\ session' = [s \in DOMAIN session |-> IF s \in found
                               THEN [session[s] EXCEPT !.token = tokens + 1] ELSE session[s]]
              /\ made' = [made EXCEPT ![tokens + 1] =
                            [from |-> token, session |-> made[token].session]]
              /\ Done(t, tokens + 1)
    /\ UNCHANGED <<account, cookie, link, resetter>>

\* logout revokes the session that has the token, if one still has it.
Revoke(t) ==
    /\ Step(t, "logout", "SENT")
    /\ session' = [s \in DOMAIN session |-> IF s \in SessionOf(Request(t).sent)
                     THEN [session[s] EXCEPT !.live = FALSE] ELSE session[s]]
    /\ Done(t, 0)
    /\ UNCHANGED <<account, tokens, cookie, link, resetter, made>>

allRevoked_But(ss) == ss
allRevoked(ss) == [s \in DOMAIN ss |-> [ss[s] EXCEPT !.live = FALSE]]

\* logoutAll, with the access token of a session.
LogoutAll(t) ==
    /\ ~Busy(t) /\ tab[t].status = "authenticated"
    /\ session' = allRevoked(session)
    /\ cookie' = [cookie EXCEPT ![browserOf[t]] = 0]
    /\ UNCHANGED <<account, tokens, tab, link, resetter, made>>

\* forgotPassword: one transaction uses up the open requests and writes a new
\* one; two of them may not see each other's.
ForgotPassword(l) ==
    /\ ~link[l].made
    /\ \E seen \in SUBSET {k \in Links : Open(k)} :
          link' = [k \in Links |->
                     IF k = l THEN [NoLink EXCEPT !.made = TRUE]
                     ELSE IF k \in seen THEN [link[k] EXCEPT !.used = TRUE] ELSE link[k]]
    /\ UNCHANGED <<account, session, tokens, cookie, tab, resetter, made>>

ExpireLink(l) ==
    /\ Open(l) /\ link' = [link EXCEPT ![l].expired = TRUE]
    /\ UNCHANGED <<account, session, tokens, cookie, tab, resetter, made>>

\* resetPassword: the request is read, the password hashed, and one transaction
\* claims the request, sets the password and revokes every session.
ReadForReset(r, l) ==
    /\ resetter[r] = {} /\ Open(l) /\ account.password < MaxPasswords
    /\ resetter' = [resetter EXCEPT ![r] = {l}]
    /\ UNCHANGED <<account, session, tokens, cookie, tab, link, made>>

claimable(l) == Open(l)

ResetPassword(r) ==
    /\ resetter[r] # {}
    /\ LET l == CHOOSE k \in resetter[r] : TRUE IN
         IF ~claimable(l) THEN UNCHANGED <<account, session, link>>
         ELSE /\ link' = [link EXCEPT ![l].used = TRUE, ![l].sets = @ + 1]
              /\ account' = [account EXCEPT !.password = @ + 1]
              /\ session' = allRevoked(session)
    /\ resetter' = [resetter EXCEPT ![r] = {}]
    /\ UNCHANGED <<tokens, cookie, tab, made>>

ExpireSession(s) ==
    /\ Stored(s) /\ Valid(s)
    /\ session' = [session EXCEPT ![s].expired = TRUE]
    /\ UNCHANGED <<account, tokens, cookie, tab, link, resetter, made>>

\* cleanupExpiredSecurityRecords: expired sessions at once, revoked ones after
\* thirty days.
Cleanup ==
    /\ \E s \in DOMAIN session : Stored(s) /\ session[s].expired
    /\ \E old \in SUBSET {s \in DOMAIN session : Stored(s) /\ ~session[s].live} :
          session' = [s \in DOMAIN session |->
                        IF session[s].expired \/ s \in old THEN NoSession ELSE session[s]]
    /\ UNCHANGED <<account, tokens, cookie, tab, link, resetter, made>>

ServerStep(t) == \/ ReadForLogin(t) \/ IssueSession(t) \/ ReadForRefresh(t)
                 \/ Rotate(t) \/ Revoke(t)

Next ==
    \/ \E t \in Tabs : \/ RefreshSession(t) \/ Login(t) \/ Logout(t) \/ Register(t)
                       \/ LogoutAll(t) \/ ServerStep(t) \/ Answer(t) \/ Lose(t)
    \/ \E l \in Links : ForgotPassword(l) \/ ExpireLink(l)
    \/ \E r \in Resetters : ResetPassword(r) \/ \E l \in Links : ReadForReset(r, l)
    \/ \E s \in DOMAIN session : ExpireSession(s)
    \/ Cleanup

Spec == Init /\ [][Next]_sessionVars

\* The server handles what reaches it, and fetch ends with an answer or throws.
FairSpec == Spec /\ \A t \in Tabs : /\ WF_sessionVars(ServerStep(t))
                                    /\ WF_sessionVars(Answer(t) \/ Lose(t))
-----------------------------------------------------------------------------
(* Properties.                                                             *)

TypeOK ==
    /\ tokens \in 0..MaxTokens
    /\ \A b \in Browsers : cookie[b] \in 0..tokens
    /\ \A s \in DOMAIN session : Stored(s) =>
          /\ session[s].token \in 1..tokens /\ made[session[s].token].session = s
          /\ session[s].verified \in 1..account.password
    /\ \A t \in Tabs : tab[t].status \in {"loading", "anonymous", "authenticated"}
    /\ \A r \in Resetters : Cardinality(resetter[r]) <= 1

\* A refresh token is exchanged for one new token at most, whatever two tabs,
\* or a request sent twice, do with the same cookie (docs/BACKEND.md, 'Los
\* refresh tokens se rotan').
ExchangedOnce ==
    \A m, n \in 1..tokens : m # n /\ made[m].from > 0 => made[m].from # made[n].from

\* No session survives a change of password, whoever rotates it meanwhile.
NoOldSession ==
    \A s \in DOMAIN session : Stored(s) /\ Valid(s) => session[s].born = account.password

\* A recovery link sets one password (its mail says 'solo puede utilizarse una
\* vez'), also when two requests with it were both found valid.
LinkSetsOnce == \A l \in Links : link[l].sets <= 1

\* Both: what a recovery link does, it does once and to every session there is,
\* also to one that a refresh is about to write.  (A login that compared the old
\* password and opens its session later is not among them: that session is born
\* after the change.)
NoSessionOutlivesReset == NoOldSession /\ LinkSetsOnce

Asking(t) == tab[t].status = "loading" /\ Busy(t)
Answered(t) == tab[t].status # "loading" /\ ~Busy(t)

\* A tab that waits for its first refresh learns who it is, also when the
\* request or its answer is lost.
TabsSettle == \A t \in Tabs : Asking(t) ~> Answered(t)

\* A session that was signed out is revoked when its browser is told so
\* ('sesiones revocables', docs/BACKEND.md).
LogoutRevokes ==
    \A t \in Tabs : Step(t, "logout", "DONE") /\ Request(t).sent > 0 =>
        ~session[made[Request(t).sent].session].live

=============================================================================
