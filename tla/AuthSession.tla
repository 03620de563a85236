------------------------------ MODULE AuthSession ------------------------------
(***************************************************************************)
(* The session of a browser with the backend: the Firebase identity its    *)
(* tabs follow (hooks/useAuthSession, store/authStore), the two cookies    *)
(* they share, the recovery of a request that was refused (services/api/   *)
(* client), the sign-out (services/auth/terminalAccount), and the sessions *)
(* of the backend with their single-use refresh tokens (internal/auth).    *)
(*                                                                         *)
(* A tab has one call at a time under recovery: further ones share its     *)
(* refresh and its exchange (sessionRefreshPromise).                       *)
(* A token is the session it belongs to.  Cookies travel with a request    *)
(* when it is sent and are set when its answer arrives.                    *)
(***************************************************************************)
EXTENDS Partial

CONSTANTS
  Page,           \* tabs of the browser
  Person,         \* Firebase users
  MaxServed,      \* bound: sessions the backend opens
  MaxAuthSteps    \* bound: sign-ins, calls, sign-outs, expiries, lost requests

\* A session is its number; what an absent one is, is neither that, nor a call, nor cookies.
ASSUME NothingIsNoToken ==
  /\ Nothing \notin Nat \union {"call", "logout"}
  /\ Nothing \notin [access : Nat \union {Nothing}, refresh : Nat \union {Nothing}]

VARIABLES
  identity,   \* Firebase's current user
  pages,      \* each tab: user, backend (backendSessionAtom), resolved, call
  jar,        \* cookies: access (session, or Nothing when absent or expired), refresh
  wire,       \* requests and answers on their way
  sessions,   \* the backend's: user, live, from (the session it was rotated from)
  signedOut,  \* history: the session of the cookies when the browser signed out
  authSteps

authVars == <<identity, pages, jar, wire, sessions, signedOut, authSteps>>
AuthStep == authSteps < MaxAuthSteps /\ authSteps' = authSteps + 1
UserOf(s) == IF s = Nothing THEN Nothing ELSE sessions[s].user

(***************************************************************************)
(* internal/auth: rotation, exchange and revocation.                       *)
(***************************************************************************)
Opened(user, from) == Append(sessions, [user |-> user, live |-> TRUE, from |-> from])
Revoked(ss, which) == [s \in DOMAIN ss |-> [ss[s] EXCEPT !.live = @ /\ s \notin which]]
FamilyOf(user) == {s \in DOMAIN sessions : sessions[s].user = user}
NoCookies == [access |-> Nothing, refresh |-> Nothing]
Cookies(s) == [access |-> s, refresh |-> s]
AnyToken(s) == s # Nothing
Rotatable(s) == s # Nothing /\ sessions[s].live

(* Result of a request: the sessions after it, whether it succeeded, and the *)
(* cookies its answer sets (Nothing: it sets none).                        *)
Does(ss, ok, set) == [sessions |-> ss, ok |-> ok, set |-> set]
Refresh(r) ==
  IF Rotatable(r.refresh)
  THEN Does(Revoked(Opened(UserOf(r.refresh), r.refresh), {r.refresh}), TRUE,
            Cookies(Len(sessions) + 1))
  ELSE Does(Revoked(sessions, IF r.refresh = Nothing THEN {} ELSE FamilyOf(UserOf(r.refresh))),
            FALSE, IF r.refresh = Nothing THEN Nothing ELSE NoCookies)
ReusesAccess(r) == r.access # Nothing /\ UserOf(r.access) = r.token
EnsureGoogleSession(r) ==
  LET mine == UserOf(r.refresh) = r.token
      after == IF Rotatable(r.refresh) THEN {r.refresh} ELSE FamilyOf(UserOf(r.refresh))
  IN  IF ReusesAccess(r) THEN Does(sessions, TRUE, Nothing)
      ELSE Does(Revoked(Opened(r.token, IF mine /\ Rotatable(r.refresh) THEN r.refresh ELSE Nothing),
                        IF r.refresh = Nothing THEN {} ELSE after),
                TRUE, Cookies(Len(sessions) + 1))
Logout(r) ==
  IF r.access = Nothing THEN Does(sessions, FALSE, Nothing)
  ELSE Does(Revoked(sessions, {r.access}), TRUE, NoCookies)
Serve(r) == Does(sessions, r.access # Nothing, Nothing)

Served(r) ==
  CASE r.op = "refresh" -> Refresh(r)
    [] r.op = "session" -> EnsureGoogleSession(r)
    [] r.op = "logout" -> Logout(r)
    [] r.op = "call" -> Serve(r)
BackendServes(r) ==
  /\ r.at = "sent"
  /\ Len(sessions) < MaxServed \/ r.op \in {"logout", "call"}
  /\ LET does == Served(r)
     IN  /\ sessions' = does.sessions
         /\ wire' = (wire \ {r}) \union {[r EXCEPT !.at = IF does.ok THEN "ok" ELSE "401", !.set = does.set]}
  /\ UNCHANGED <<identity, pages, jar, signedOut, authSteps>>
(* The connection fails, before the backend or after it. *)
ConnectionFails(r) ==
  /\ r.at # "lost"
  /\ AuthStep
  /\ wire' = (wire \ {r}) \union {[r EXCEPT !.at = "lost", !.set = Nothing]}
  /\ UNCHANGED <<identity, pages, jar, sessions, signedOut>>

(***************************************************************************)
(* Requests of a tab.  A call is recovered once: refresh, else exchange,   *)
(* then asked again; the exchange of an auth event stands alone.           *)
(***************************************************************************)
Sent(p, op, why, token) ==
  [page |-> p, op |-> op, why |-> why, token |-> token, access |-> jar'.access,
   refresh |-> jar'.refresh, at |-> "sent", set |-> Nothing]
Arrives(r) ==
  /\ r \in wire
  /\ r.at # "sent"
  /\ jar' = IF r.set = Nothing THEN jar ELSE r.set
Sends(r, op, why, token) == wire' = (wire \ {r}) \union {Sent(r.page, op, why, token)}
CallEnds(r, ended) ==
  /\ wire' = wire \ {r}
  /\ pages' = [pages EXCEPT ![r.page].call = Nothing]
  /\ IF pages[r.page].call = "logout" /\ ended
     THEN identity' = Nothing /\ signedOut' = jar'.refresh
     ELSE UNCHANGED <<identity, signedOut>>

Ask(p, op) ==
  /\ AuthStep
  /\ pages[p].call = Nothing
  /\ pages[p].user # Nothing
  /\ pages[p].backend \/ op = "logout"
  /\ pages' = [pages EXCEPT ![p].call = op]
  /\ UNCHANGED jar
  /\ wire' = wire \union {Sent(p, op, "first", Nothing)}
  /\ UNCHANGED <<identity, sessions, signedOut>>
(* withSessionRefresh: the first refusal starts the recovery. *)
AskedAnswers(r) ==
  /\ r.op \in {"call", "logout"}
  /\ Arrives(r)
  /\ IF r.at = "401" /\ r.why = "first"
     THEN Sends(r, "refresh", "recovery", Nothing) /\ UNCHANGED <<identity, pages, signedOut>>
     ELSE CallEnds(r, r.at # "lost")
  /\ UNCHANGED <<sessions, authSteps>>
(* recoverBackendSession: whatever failed, the original refusal is thrown. *)
RecoveryAnswers(r) ==
  /\ r.why = "recovery"
  /\ Arrives(r)
  /\ IF r.at = "ok"
     THEN Sends(r, pages[r.page].call, "again", Nothing) /\ UNCHANGED <<identity, pages, signedOut>>
     ELSE IF r.op = "refresh" /\ identity # Nothing
     THEN Sends(r, "session", "recovery", identity) /\ UNCHANGED <<identity, pages, signedOut>>
     ELSE CallEnds(r, TRUE)
  /\ UNCHANGED <<sessions, authSteps>>

(***************************************************************************)
(* useAuthSession: Firebase tells a tab, which exchanges its token.        *)
(***************************************************************************)
AuthEvent(p) ==
  /\ pages[p].user # identity
  /\ pages' = [pages EXCEPT ![p].user = identity, ![p].backend = FALSE,
                            ![p].resolved = identity = Nothing]
  /\ UNCHANGED jar
  /\ wire' = IF identity = Nothing THEN wire
             ELSE wire \union {Sent(p, "session", "event", identity)}
  /\ UNCHANGED <<identity, sessions, signedOut, authSteps>>
ExchangeAnswers(r) ==
  /\ r.why = "event"
  /\ Arrives(r)
  /\ wire' = wire \ {r}
  /\ pages' = [pages EXCEPT ![r.page].backend = r.at = "ok", ![r.page].resolved = TRUE]
  /\ UNCHANGED <<identity, sessions, signedOut, authSteps>>
(* The sign-in button is there in a tab that knows of nobody. *)
SignIn(p, u) ==
  /\ pages[p].user = Nothing
  /\ AuthStep
  /\ identity # u
  /\ identity' = u
  /\ signedOut' = Nothing
  /\ UNCHANGED <<pages, jar, wire, sessions>>
AccessExpires ==
  /\ AuthStep
  /\ jar.access # Nothing
  /\ jar' = [jar EXCEPT !.access = Nothing]
  /\ UNCHANGED <<identity, pages, wire, sessions, signedOut>>

AuthInit ==
  /\ identity = Nothing
  /\ pages = [p \in Page |-> [user |-> Nothing, backend |-> FALSE, resolved |-> TRUE, call |-> Nothing]]
  /\ jar = NoCookies
  /\ wire = {}
  /\ sessions = <<>>
  /\ signedOut = Nothing
  /\ authSteps = 0

AuthNext ==
  \/ \E r \in wire : BackendServes(r) \/ ConnectionFails(r) \/ AskedAnswers(r)
                     \/ RecoveryAnswers(r) \/ ExchangeAnswers(r)
  \/ \E p \in Page : AuthEvent(p) \/ \E op \in {"call", "logout"} : Ask(p, op)
                      \/ \E u \in Person : SignIn(p, u)
  \/ AccessExpires

AuthSpec == AuthInit /\ [][AuthNext]_authVars

(* A refresh token makes at most one descendant, however many tabs present  *)
(* it at once (session.go:105-160), and a token of one user never makes a   *)
(* session of another, whatever cookies an account switch left behind       *)
(* (service.go:112-155).                                                    *)
TokensAreSingleUse ==
  /\ \A s, t \in DOMAIN sessions :
       sessions[s].from = sessions[t].from /\ sessions[s].from # Nothing => s = t
  /\ \A s \in DOMAIN sessions : sessions[s].from # Nothing => UserOf(sessions[s].from) = sessions[s].user

(* An exchange that succeeds leaves its answer, or the access cookie it was *)
(* sent with, on the user of the token (handler.go:53-54).                  *)
ExchangesKeepTheIdentity ==
  \A r \in wire :
    r.op = "session" /\ r.at = "ok" =>
      UserOf(IF r.set = Nothing THEN r.access ELSE r.set.access) = r.token

(* "A backend cookie belongs to the previous Firebase identity until the    *)
(* new identity completes its own exchange. Never let user-scoped stores    *)
(* treat that transition window as an authenticated backend session"        *)
(* (store/authStore.ts:42-44).                                              *)
BackendSessionIsTheirs ==
  \A p \in Page : pages[p].backend /\ jar.access # Nothing => UserOf(jar.access) = pages[p].user

(* "Fail closed: do not present the browser as signed out while its         *)
(* HttpOnly backend session may still authorize real execution"             *)
(* (services/auth/terminalAccount.ts:28-30).                                   *)
SignedOutIsRevoked == signedOut # Nothing => ~ sessions[signedOut].live
================================================================================
