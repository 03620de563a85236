---------------------------- MODULE WorkspaceProofs ----------------------------
(***************************************************************************)
(* What is proved of the parts of the workspace: the sessions of a browser *)
(* with the backend (AuthSession), its trade journal (Journal), its Pine   *)
(* scripts (PineScripts), saved layouts and chart tabs (ChartTabs),        *)
(* preferences (Preferences) and indicators (Indicators), the dialogs of a *)
(* drawing (SettingsDialog); at the end, that the workspace as a whole     *)
(* (MCSpec) is its tabs, layouts, preferences and indicators.              *)
(***************************************************************************)
EXTENDS MCWorkspace, SequenceTheorems, FunctionTheorems, FiniteSetTheorems

(***************************************************************************)
(* AuthSession.  Every token that travels, or lies in the jar, is a        *)
(* session of the backend; a session that another was rotated from is no   *)
(* longer live, which is why a second tab that presents it opens nothing.  *)
(***************************************************************************)
Somebody == Person \union {Nothing}
TokenOf(ss) == {Nothing} \union DOMAIN ss
JarOf(ss) == [access : TokenOf(ss), refresh : TokenOf(ss)]
Request(ss) ==
  {r \in [page : Page, op : {"refresh", "session", "logout", "call"},
           why : {"first", "recovery", "again", "event"}, token : Somebody,
           access : TokenOf(ss), refresh : TokenOf(ss),
           at : {"sent", "ok", "401", "lost"}, set : {Nothing} \union JarOf(ss)] :
     r.why = "event" => r.op = "session"}
Session == [user : Somebody, live : BOOLEAN, from : Nat \union {Nothing}]
TabState ==
  [user : Somebody, backend : BOOLEAN, resolved : BOOLEAN, call : {Nothing, "call", "logout"}]

AuthTypeOK ==
  /\ identity \in Somebody
  /\ pages \in [Page -> TabState]
  /\ jar \in JarOf(sessions)
  /\ wire \subseteq Request(sessions)
  /\ sessions \in Seq(Session)

\* A tab has one call under recovery, and one request for it.
OneCallPerTab ==
  /\ \A r \in wire : r.why # "event" => pages[r.page].call # Nothing
  /\ \A q, r \in wire :
       q.page = r.page /\ q.why # "event" /\ r.why # "event" => q = r

Descended(ss) ==
  /\ \A s, t \in DOMAIN ss : ss[s].from = ss[t].from /\ ss[s].from # Nothing => s = t
  /\ \A s \in DOMAIN ss :
       ss[s].from # Nothing =>
         /\ ss[s].from \in DOMAIN ss
         /\ ~ ss[ss[s].from].live
         /\ ss[ss[s].from].user = ss[s].user

UserIn(ss, s) == IF s = Nothing THEN Nothing ELSE ss[s].user
IdentityKept(ss, r) ==
  r.op = "session" /\ r.at = "ok" =>
    UserIn(ss, IF r.set = Nothing THEN r.access ELSE r.set.access) = r.token

AuthInv ==
  /\ AuthTypeOK
  /\ OneCallPerTab
  /\ Descended(sessions)
  /\ \A r \in wire : IdentityKept(sessions, r)

\* The sessions only grow, and keep their users.
Grows(ss, tt) ==
  /\ ss \in Seq(Session)
  /\ tt \in Seq(Session)
  /\ DOMAIN ss \subseteq DOMAIN tt
  /\ \A s \in DOMAIN ss : tt[s].user = ss[s].user

(* Revoking sessions keeps whom they belong to and what they descend from.  *)
LEMMA RevokingKeeps ==
  ASSUME NEW ss \in Seq(Session), NEW which, Descended(ss)
  PROVE  /\ Descended(Revoked(ss, which))
         /\ Grows(ss, Revoked(ss, which))
         /\ Len(Revoked(ss, which)) = Len(ss)
<1> DEFINE tt == Revoked(ss, which)
<1>1. tt \in Seq(Session) /\ DOMAIN tt = DOMAIN ss /\ Len(tt) = Len(ss)
 <2>1. ASSUME NEW s \in DOMAIN ss
       PROVE  [ss[s] EXCEPT !.live = @ /\ s \notin which] \in Session
  <3>1. ss[s] \in Session
    OBVIOUS
  <3> QED BY <3>1 DEF Session
 <2>2. DOMAIN ss = 1..Len(ss) /\ Len(ss) \in Nat
   OBVIOUS
 <2>3. tt \in [1..Len(ss) -> Session]
   BY <2>1, <2>2 DEF Revoked
 <2> QED BY <2>2, <2>3 DEF Revoked
<1>2. ASSUME NEW s \in DOMAIN ss
      PROVE  /\ tt[s].user = ss[s].user
             /\ tt[s].from = ss[s].from
             /\ ~ ss[s].live => ~ tt[s].live
 <2>1. ss[s] \in Session
   OBVIOUS
 <2>2. tt[s] = [ss[s] EXCEPT !.live = @ /\ s \notin which]
   BY DEF Revoked
 <2> QED BY <2>1, <2>2 DEF Session
<1> HIDE DEF tt
<1>3. Descended(tt)
  BY <1>1, <1>2 DEF Descended
<1>4. Grows(ss, tt)
  BY <1>1, <1>2 DEF Grows
<1> QED BY <1>1, <1>3, <1>4 DEF tt

(* A session opened on its own, or rotated from a live one of the same user *)
(* that is revoked with it, keeps every token single-use.                   *)
LEMMA OpeningKeeps ==
  ASSUME sessions \in Seq(Session), Descended(sessions),
         NEW user \in Somebody, NEW from \in TokenOf(sessions), NEW which \in SUBSET DOMAIN sessions,
         from # Nothing =>
           sessions[from].live /\ sessions[from].user = user /\ from \in which
  PROVE  LET tt == Revoked(Opened(user, from), which)
         IN  /\ Descended(tt)
             /\ Grows(sessions, tt)
             /\ Len(sessions) + 1 \in DOMAIN tt
             /\ tt[Len(sessions) + 1].user = user
<1> DEFINE new == [user |-> user, live |-> TRUE, from |-> from]
           n == Len(sessions)
           tt == Revoked(Append(sessions, new), which)
<1>1. new \in Session /\ n \in Nat /\ DOMAIN sessions = 1..n
  BY DEF Session, TokenOf
<1>2. /\ Append(sessions, new) \in Seq(Session)
      /\ DOMAIN Append(sessions, new) = 1..(n + 1)
      /\ Append(sessions, new)[n + 1] = new
      /\ \A s \in 1..n : Append(sessions, new)[s] = sessions[s]
  BY <1>1
<1>3. DOMAIN tt = 1..(n + 1)
  BY <1>2 DEF Revoked
<1>4. ASSUME NEW s \in 1..n
      PROVE  /\ tt[s] \in Session
             /\ tt[s].user = sessions[s].user
             /\ tt[s].from = sessions[s].from
             /\ ~ sessions[s].live \/ s \in which => ~ tt[s].live
 <2>1. sessions[s] \in Session
   BY <1>1
 <2>2. s \in 1..(n + 1)
   BY <1>1
 <2>3. tt[s] = [sessions[s] EXCEPT !.live = @ /\ s \notin which]
   BY <1>2, <2>2 DEF Revoked
 <2> QED BY <2>1, <2>3 DEF Session
<1>5. tt[n + 1] \in Session /\ tt[n + 1].user = user /\ tt[n + 1].from = from
 <2>1. n + 1 \in 1..(n + 1)
   BY <1>1
 <2>2. tt[n + 1] = [new EXCEPT !.live = @ /\ n + 1 \notin which]
   BY <1>2, <2>1 DEF Revoked
 <2> QED BY <1>1, <2>2 DEF Session
<1> HIDE DEF tt, new
<1>6. tt \in Seq(Session)
 <2>1. \A s \in 1..(n + 1) : s = n + 1 \/ s \in 1..n
   BY <1>1
 <2>2. \A s \in 1..(n + 1) : tt[s] \in Session
   BY <1>4, <1>5, <2>1
 <2>3. tt \in [1..(n + 1) -> Session]
   BY <1>3, <2>2 DEF tt, Revoked
 <2> QED BY <1>1, <2>3
<1>7. ASSUME NEW s \in 1..n, sessions[s].from = from, from # Nothing
      PROVE  FALSE
  BY <1>1, <1>7 DEF Descended
<1>8. Descended(tt)
 <2>1. ASSUME NEW s \in DOMAIN tt, NEW t \in DOMAIN tt,
              tt[s].from = tt[t].from, tt[s].from # Nothing
       PROVE  s = t
  <3>1. CASE s \in 1..n /\ t \in 1..n
    BY <1>1, <1>4, <2>1, <3>1 DEF Descended
  <3>2. CASE s = n + 1 /\ t \in 1..n
    BY <1>4, <1>5, <1>7, <2>1, <3>2
  <3>3. CASE s \in 1..n /\ t = n + 1
    BY <1>4, <1>5, <1>7, <2>1, <3>3
  <3> QED BY <1>1, <1>3, <3>1, <3>2, <3>3
 <2>2. ASSUME NEW s \in DOMAIN tt, tt[s].from # Nothing
       PROVE  /\ tt[s].from \in DOMAIN tt
              /\ ~ tt[tt[s].from].live
              /\ tt[tt[s].from].user = tt[s].user
  <3>1. CASE s \in 1..n
   <4> DEFINE f == sessions[s].from
   <4>1. tt[s].from = f /\ tt[s].user = sessions[s].user
     BY <1>4, <3>1
   <4>2. f \in 1..n /\ ~ sessions[f].live /\ sessions[f].user = sessions[s].user
     BY <1>1, <2>2, <3>1, <4>1 DEF Descended
   <4>3. f \in DOMAIN tt /\ ~ tt[f].live /\ tt[f].user = sessions[f].user
     BY <1>1, <1>3, <1>4, <4>2
   <4> QED BY <4>1, <4>2, <4>3
  <3>2. CASE s = n + 1
   <4>1. tt[s].from = from /\ from \in 1..n /\ from \in which
     BY <1>1, <1>5, <2>2, <3>2 DEF TokenOf
   <4>2. sessions[from].user = user /\ from # Nothing
     BY <2>2, <4>1
   <4>3. from \in DOMAIN tt /\ ~ tt[from].live /\ tt[from].user = user
     BY <1>1, <1>3, <1>4, <4>1, <4>2
   <4> QED BY <1>5, <3>2, <4>1, <4>3
  <3> QED BY <1>1, <1>3, <3>1, <3>2
 <2> QED BY <2>1, <2>2 DEF Descended
<1>9. Grows(sessions, tt)
 <2>1. DOMAIN sessions \subseteq DOMAIN tt
   BY <1>1, <1>3
 <2> QED BY <1>1, <1>4, <1>6, <2>1 DEF Grows
<1>10. n + 1 \in DOMAIN tt
  BY <1>1, <1>3
<1> QED BY <1>5, <1>8, <1>9, <1>10 DEF Opened, tt, new

(* What the backend does with a request: every operation of it leaves the   *)
(* descent of the sessions intact, answers with cookies of its own, and an  *)
(* exchange that succeeds leaves the user of its token signed in.           *)
LEMMA ServedKeeps ==
  ASSUME AuthTypeOK, Descended(sessions), NEW r \in Request(sessions)
  PROVE  LET does == Served(r)
         IN  /\ Descended(does.sessions)
             /\ Grows(sessions, does.sessions)
             /\ does.ok \in BOOLEAN
             /\ does.set \in {Nothing} \union JarOf(does.sessions)
             /\ r.op = "session" /\ does.ok =>
                  UserIn(does.sessions, IF does.set = Nothing THEN r.access ELSE does.set.access)
                    = r.token
<1> DEFINE n == Len(sessions)
           Good(does) ==
             /\ Descended(does.sessions)
             /\ Grows(sessions, does.sessions)
             /\ does.ok \in BOOLEAN
             /\ does.set \in {Nothing} \union JarOf(does.sessions)
             /\ r.op = "session" /\ does.ok =>
                  UserIn(does.sessions, IF does.set = Nothing THEN r.access ELSE does.set.access)
                    = r.token
<1>1. sessions \in Seq(Session) /\ n \in Nat /\ DOMAIN sessions = 1..n
  BY DEF AuthTypeOK
<1>2. Grows(sessions, sessions)
  BY <1>1 DEF Grows
<1>3. /\ r.access \in TokenOf(sessions)
      /\ r.refresh \in TokenOf(sessions)
      /\ r.token \in Somebody
      /\ r.op \in {"refresh", "session", "logout", "call"}
  BY DEF Request
<1>4. ASSUME NEW ss, Grows(sessions, ss)
      PROVE  NoCookies \in JarOf(ss)
  BY DEF NoCookies, JarOf, TokenOf
<1>5. ASSUME NEW ss, Grows(sessions, ss), n + 1 \in DOMAIN ss
      PROVE  /\ Cookies(n + 1) \in JarOf(ss)
             /\ Cookies(n + 1) # Nothing
             /\ Cookies(n + 1).access = n + 1
             /\ n + 1 # Nothing
 <2>1. n + 1 \in Nat /\ n + 1 \in TokenOf(ss)
   BY <1>1, <1>5 DEF TokenOf
 <2>2. Cookies(n + 1) \in [access : Nat \union {Nothing}, refresh : Nat \union {Nothing}]
   BY <2>1 DEF Cookies
 <2> QED BY <2>1, <2>2, NothingIsNoToken DEF Cookies, JarOf
<1>6. CASE r.op = "refresh"
 <2>1. CASE Rotatable(r.refresh)
  <3> DEFINE ss == Revoked(Opened(UserOf(r.refresh), r.refresh), {r.refresh})
  <3>1. r.refresh \in 1..n /\ sessions[r.refresh] \in Session /\ r.refresh # Nothing
    BY <1>1, <1>3, <2>1 DEF Rotatable, TokenOf
  <3>2. /\ UserOf(r.refresh) \in Somebody
        /\ sessions[r.refresh].live
        /\ sessions[r.refresh].user = UserOf(r.refresh)
        /\ {r.refresh} \in SUBSET DOMAIN sessions
    BY <1>1, <2>1, <3>1 DEF Rotatable, UserOf, Session
  <3>3. Descended(ss) /\ Grows(sessions, ss) /\ n + 1 \in DOMAIN ss
    BY <1>1, <1>3, <3>2, OpeningKeeps
  <3>4. Served(r) = Does(ss, TRUE, Cookies(n + 1))
    BY <1>6, <2>1 DEF Served, Refresh
  <3> HIDE DEF ss
  <3> QED BY <1>5, <1>6, <3>3, <3>4 DEF Does
 <2>2. CASE ~ Rotatable(r.refresh)
  <3> DEFINE lost == IF r.refresh = Nothing THEN {} ELSE FamilyOf(UserOf(r.refresh))
             ss == Revoked(sessions, lost)
  <3>1. Descended(ss) /\ Grows(sessions, ss)
    BY <1>1, RevokingKeeps
  <3>2. Served(r) = Does(ss, FALSE, IF r.refresh = Nothing THEN Nothing ELSE NoCookies)
    BY <1>6, <2>2 DEF Served, Refresh
  <3> HIDE DEF ss
  <3> QED BY <1>4, <1>6, <3>1, <3>2 DEF Does
 <2> QED BY <2>1, <2>2
<1>7. CASE r.op = "session"
 <2>1. CASE ReusesAccess(r)
  <3>1. Served(r) = Does(sessions, TRUE, Nothing)
    BY <1>7, <2>1 DEF Served, EnsureGoogleSession
  <3>2. UserIn(sessions, r.access) = r.token
    BY <2>1 DEF ReusesAccess, UserOf, UserIn
  <3> QED BY <1>2, <3>1, <3>2 DEF Does
 <2>2. CASE ~ ReusesAccess(r)
  <3> DEFINE mine == UserOf(r.refresh) = r.token
             after == IF Rotatable(r.refresh) THEN {r.refresh} ELSE FamilyOf(UserOf(r.refresh))
             from == IF mine /\ Rotatable(r.refresh) THEN r.refresh ELSE Nothing
             which == IF r.refresh = Nothing THEN {} ELSE after
             ss == Revoked(Opened(r.token, from), which)
  <3>1. from \in TokenOf(sessions)
    BY <1>3 DEF TokenOf
  <3>2. which \in SUBSET DOMAIN sessions
   <4>1. r.refresh # Nothing => r.refresh \in DOMAIN sessions
     BY <1>3 DEF TokenOf
   <4> QED BY <4>1 DEF FamilyOf
  <3>3. from # Nothing => sessions[from].live /\ sessions[from].user = r.token /\ from \in which
    BY DEF Rotatable, UserOf
  <3>4. /\ Descended(ss)
        /\ Grows(sessions, ss)
        /\ n + 1 \in DOMAIN ss
        /\ ss[n + 1].user = r.token
   <4> HIDE DEF from, which
   <4> QED BY <1>1, <1>3, <3>1, <3>2, <3>3, OpeningKeeps
  <3>5. Served(r) = Does(ss, TRUE, Cookies(n + 1))
    BY <1>7, <2>2 DEF Served, EnsureGoogleSession
  <3>6. UserIn(ss, n + 1) = r.token
    BY <1>5, <3>4 DEF UserIn
  <3> HIDE DEF ss
  <3> QED BY <1>5, <1>7, <3>4, <3>5, <3>6 DEF Does
 <2> QED BY <2>1, <2>2
<1>8. CASE r.op = "logout"
 <2>1. CASE r.access = Nothing
  <3>1. Served(r) = Does(sessions, FALSE, Nothing)
    BY <1>8, <2>1 DEF Served, Logout
  <3> QED BY <1>2, <1>8, <3>1 DEF Does
 <2>2. CASE r.access # Nothing
  <3> DEFINE ss == Revoked(sessions, {r.access})
  <3>1. Descended(ss) /\ Grows(sessions, ss)
    BY <1>1, RevokingKeeps
  <3>2. Served(r) = Does(ss, TRUE, NoCookies)
    BY <1>8, <2>2 DEF Served, Logout
  <3> HIDE DEF ss
  <3> QED BY <1>4, <1>8, <3>1, <3>2 DEF Does
 <2> QED BY <2>1, <2>2
<1>9. CASE r.op = "call"
 <2>1. Served(r) = Does(sessions, r.access # Nothing, Nothing)
   BY <1>9 DEF Served, Serve
 <2> QED BY <1>2, <1>9, <2>1 DEF Does
<1> QED BY <1>3, <1>6, <1>7, <1>8, <1>9

(* What was said of tokens stays true when the sessions grow.               *)
LEMMA GrowingKeeps ==
  ASSUME NEW ss, NEW tt, Grows(ss, tt)
  PROVE  /\ TokenOf(ss) \subseteq TokenOf(tt)
         /\ JarOf(ss) \subseteq JarOf(tt)
         /\ Request(ss) \subseteq Request(tt)
         /\ \A r \in Request(ss) : IdentityKept(ss, r) => IdentityKept(tt, r)
<1>1. TokenOf(ss) \subseteq TokenOf(tt)
  BY DEF Grows, TokenOf
<1>2. JarOf(ss) \subseteq JarOf(tt)
  BY <1>1 DEF JarOf
<1>3. Request(ss) \subseteq Request(tt)
  BY <1>1, <1>2 DEF Request
<1>4. ASSUME NEW t \in TokenOf(ss)
      PROVE  UserIn(ss, t) = UserIn(tt, t)
  BY DEF UserIn, TokenOf, Grows
<1>5. ASSUME NEW r \in Request(ss), IdentityKept(ss, r)
      PROVE  IdentityKept(tt, r)
 <2>1. r.access \in TokenOf(ss) /\ r.set \in {Nothing} \union JarOf(ss)
   BY DEF Request
 <2>2. r.set # Nothing => r.set.access \in TokenOf(ss)
   BY <2>1 DEF JarOf
 <2> QED BY <1>4, <1>5, <2>1, <2>2 DEF IdentityKept
<1> QED BY <1>1, <1>2, <1>3, <1>5

(* A request that changes hands in the same tab: the old one is gone, the    *)
(* new one carries what the jar holds.                                      *)
LEMMA SentIsRequest ==
  ASSUME NEW ss, NEW p \in Page, NEW op \in {"refresh", "session", "logout", "call"},
         NEW why \in {"first", "recovery", "again", "event"}, NEW token \in Somebody,
         why = "event" => op = "session", jar' \in JarOf(ss)
  PROVE  LET new == Sent(p, op, why, token)
         IN  /\ new \in Request(ss)
             /\ new.page = p /\ new.why = why /\ new.op = op /\ new.at = "sent"
             /\ IdentityKept(ss, new)
<1>1. jar'.access \in TokenOf(ss) /\ jar'.refresh \in TokenOf(ss)
  BY DEF JarOf
<1> QED BY <1>1 DEF Sent, Request, IdentityKept

LEMMA ServingKeepsInv ==
  ASSUME AuthInv, NEW r \in wire, BackendServes(r)
  PROVE  AuthInv'
<1> DEFINE does == Served(r)
           new == [r EXCEPT !.at = IF does.ok THEN "ok" ELSE "401", !.set = does.set]
<1>1. r \in Request(sessions) /\ AuthTypeOK /\ Descended(sessions)
  BY DEF AuthInv, AuthTypeOK
<1>2. /\ Descended(does.sessions)
      /\ Grows(sessions, does.sessions)
      /\ does.ok \in BOOLEAN
      /\ does.set \in {Nothing} \union JarOf(does.sessions)
      /\ r.op = "session" /\ does.ok =>
           UserIn(does.sessions, IF does.set = Nothing THEN r.access ELSE does.set.access)
             = r.token
  BY <1>1, ServedKeeps
<1>3. /\ sessions' = does.sessions
      /\ wire' = (wire \ {r}) \union {new}
      /\ UNCHANGED <<identity, pages, jar>>
  BY DEF BackendServes
<1> HIDE DEF does
<1>4. /\ TokenOf(sessions) \subseteq TokenOf(sessions')
      /\ JarOf(sessions) \subseteq JarOf(sessions')
      /\ Request(sessions) \subseteq Request(sessions')
      /\ \A q \in Request(sessions) : IdentityKept(sessions, q) => IdentityKept(sessions', q)
  BY <1>2, <1>3, GrowingKeeps
<1>5. /\ new \in Request(sessions')
      /\ new.page = r.page /\ new.why = r.why /\ new.op = r.op /\ new.token = r.token
      /\ new.access = r.access /\ new.set = does.set
      /\ new.at = IF does.ok THEN "ok" ELSE "401"
 <2>1. r \in Request(sessions')
   BY <1>1, <1>4
 <2>2. does.set \in {Nothing} \union JarOf(sessions')
   BY <1>2, <1>3
 <2>3. (IF does.ok THEN "ok" ELSE "401") \in {"sent", "ok", "401", "lost"}
   OBVIOUS
 <2> QED BY <2>1, <2>2, <2>3 DEF Request
<1>6. IdentityKept(sessions', new)
  BY <1>2, <1>3, <1>5 DEF IdentityKept
<1> HIDE DEF new
<1>7. AuthTypeOK'
  BY <1>1, <1>2, <1>3, <1>4, <1>5 DEF AuthTypeOK, Grows
<1>8. OneCallPerTab'
  BY <1>3, <1>5 DEF AuthInv, OneCallPerTab
<1>9. \A q \in wire' : IdentityKept(sessions', q)
 <2>1. \A q \in wire \ {r} : IdentityKept(sessions', q)
   BY <1>1, <1>4 DEF AuthInv, AuthTypeOK
 <2> QED BY <1>3, <1>6, <2>1
<1> QED BY <1>2, <1>3, <1>7, <1>8, <1>9 DEF AuthInv

(* The steps of the browser leave the backend's sessions alone, so it is    *)
(* enough to look at the requests and the tabs.                             *)
Sound(q) == q \in wire \/ (q \in Request(sessions) /\ IdentityKept(sessions, q))

LEMMA BrowserKeepsInv ==
  ASSUME AuthInv, UNCHANGED sessions,
         identity' \in Somebody, pages' \in [Page -> TabState], jar' \in JarOf(sessions),
         \A q \in wire' : Sound(q),
         OneCallPerTab'
  PROVE  AuthInv'
BY DEF AuthInv, AuthTypeOK, Sound

(* Requests of a tab that is not the one of r are not touched.              *)
LEMMA ReplacingKeepsOneCall ==
  ASSUME AuthInv, NEW r \in wire, NEW new,
         wire' = (wire \ {r}) \union {new}, UNCHANGED pages,
         new.page = r.page, r.why # "event" \/ new.why = "event"
  PROVE  OneCallPerTab'
BY DEF AuthInv, OneCallPerTab

LEMMA BrowserStepsKeepInv ==
  ASSUME AuthInv, NEW r \in wire,
         ConnectionFails(r) \/ AskedAnswers(r) \/ RecoveryAnswers(r) \/ ExchangeAnswers(r)
  PROVE  AuthInv'
<1>1. /\ r \in Request(sessions) /\ jar \in JarOf(sessions) /\ pages \in [Page -> TabState]
      /\ identity \in Somebody
  BY DEF AuthInv, AuthTypeOK
<1>2. r.page \in Page /\ pages[r.page] \in TabState
  BY <1>1 DEF Request
<1>3. ASSUME Arrives(r)
      PROVE  jar' \in JarOf(sessions)
  BY <1>1, <1>3 DEF Arrives, Request
\* Sending on the same call.
<1>4. ASSUME Arrives(r), NEW op \in {"refresh", "session", "logout", "call"},
             NEW why \in {"recovery", "again"}, NEW token \in Somebody,
             Sends(r, op, why, token), r.why # "event", UNCHANGED <<identity, pages, sessions>>
      PROVE  AuthInv'
 <2> DEFINE new == Sent(r.page, op, why, token)
 <2>1. /\ new \in Request(sessions)
       /\ new.page = r.page
       /\ IdentityKept(sessions, new)
   BY <1>2, <1>3, <1>4, SentIsRequest
 <2>2. wire' = (wire \ {r}) \union {new}
   BY <1>4 DEF Sends
 <2> HIDE DEF new
 <2>3. OneCallPerTab'
   BY <1>4, <2>1, <2>2, ReplacingKeepsOneCall
 <2>9. \A q \in wire' : Sound(q)
   BY <1>1, <1>3, <1>4, <2>1, <2>2, <2>3 DEF Sound
 <2> QED BY <1>1, <1>3, <1>4, <2>1, <2>2, <2>3, <2>9, BrowserKeepsInv
\* The call of the tab ends.
<1>5. ASSUME Arrives(r), r.why # "event", NEW ended, CallEnds(r, ended), UNCHANGED sessions
      PROVE  AuthInv'
 <2>1. /\ wire' = wire \ {r}
       /\ pages' = [pages EXCEPT ![r.page].call = Nothing]
       /\ identity' \in Somebody
   BY <1>1, <1>5 DEF CallEnds, Somebody
 <2>2. pages' \in [Page -> TabState]
   BY <1>1, <1>2, <2>1 DEF TabState
 <2>3. \A p \in Page \ {r.page} : pages'[p] = pages[p]
   BY <1>1, <2>1
 <2>4. \A q \in wire' : q.why # "event" => q.page # r.page
   BY <1>5, <2>1 DEF AuthInv, OneCallPerTab
 <2>5. \A q \in wire' : q \in wire /\ q.page \in Page
   BY <2>1 DEF AuthInv, AuthTypeOK, Request
 <2>6. OneCallPerTab'
   BY <2>3, <2>4, <2>5 DEF AuthInv, OneCallPerTab
 <2>9. \A q \in wire' : Sound(q)
   BY <1>3, <1>5, <2>1, <2>2, <2>5, <2>6 DEF Sound
 <2> QED BY <1>3, <1>5, <2>1, <2>2, <2>5, <2>6, <2>9, BrowserKeepsInv
<1>6. CASE ConnectionFails(r)
 <2> DEFINE new == [r EXCEPT !.at = "lost", !.set = Nothing]
 <2>1. /\ new \in Request(sessions)
       /\ new.page = r.page /\ new.why = r.why
       /\ IdentityKept(sessions, new)
   BY <1>1 DEF Request, IdentityKept
 <2>2. wire' = (wire \ {r}) \union {new} /\ UNCHANGED <<identity, pages, jar, sessions>>
   BY <1>6 DEF ConnectionFails
 <2> HIDE DEF new
 <2>3. OneCallPerTab'
   BY <2>1, <2>2 DEF AuthInv, OneCallPerTab
 <2>9. \A q \in wire' : Sound(q)
   BY <1>1, <2>1, <2>2, <2>3 DEF Sound
 <2> QED BY <1>1, <2>1, <2>2, <2>3, <2>9, BrowserKeepsInv
<1>7. CASE AskedAnswers(r)
 <2>1. Arrives(r) /\ UNCHANGED sessions /\ r.op \in {"call", "logout"}
   BY <1>7 DEF AskedAnswers
 <2>2. CASE r.at = "401" /\ r.why = "first"
   BY <1>4, <1>7, <2>1, <2>2 DEF AskedAnswers, Somebody
 <2>3. CASE ~ (r.at = "401" /\ r.why = "first")
  <3>1. CallEnds(r, r.at # "lost")
    BY <1>7, <2>3 DEF AskedAnswers
  <3>2. r.why # "event"
    BY <1>1, <2>1 DEF Request
  <3> QED BY <1>5, <2>1, <3>1, <3>2
 <2> QED BY <2>2, <2>3
<1>8. CASE RecoveryAnswers(r)
 <2>1. Arrives(r) /\ UNCHANGED sessions /\ r.why = "recovery"
   BY <1>8 DEF RecoveryAnswers
 <2>2. pages[r.page].call \in {"call", "logout"}
   BY <1>2, <2>1 DEF AuthInv, OneCallPerTab, TabState
 <2>3. CASE r.at = "ok"
   BY <1>4, <1>8, <2>1, <2>2, <2>3 DEF RecoveryAnswers, Somebody
 <2>4. CASE r.at # "ok" /\ r.op = "refresh" /\ identity # Nothing
   BY <1>1, <1>4, <1>8, <2>1, <2>4 DEF RecoveryAnswers
 <2>5. CASE r.at # "ok" /\ ~ (r.op = "refresh" /\ identity # Nothing)
   BY <1>5, <1>8, <2>1, <2>5 DEF RecoveryAnswers
 <2> QED BY <2>3, <2>4, <2>5
<1>9. CASE ExchangeAnswers(r)
 <2>1. /\ Arrives(r) /\ UNCHANGED <<identity, sessions>>
       /\ wire' = wire \ {r}
       /\ pages' = [pages EXCEPT ![r.page].backend = r.at = "ok", ![r.page].resolved = TRUE]
   BY <1>9 DEF ExchangeAnswers
 <2>2. pages' \in [Page -> TabState]
   BY <1>1, <1>2, <2>1 DEF TabState
 <2>3. \A p \in Page : pages'[p].call = pages[p].call
   BY <1>1, <1>2, <2>1 DEF TabState
 <2>4. \A q \in wire' : q \in wire /\ q.page \in Page
   BY <2>1 DEF AuthInv, AuthTypeOK, Request
 <2>5. OneCallPerTab'
   BY <2>3, <2>4 DEF AuthInv, OneCallPerTab
 <2>9. \A q \in wire' : Sound(q)
   BY <1>1, <1>3, <2>1, <2>2, <2>4, <2>5 DEF Sound
 <2> QED BY <1>1, <1>3, <2>1, <2>2, <2>4, <2>5, <2>9, BrowserKeepsInv
<1> QED BY <1>6, <1>7, <1>8, <1>9

LEMMA TabStepsKeepInv ==
  ASSUME AuthInv, NEW p \in Page,
         \/ AuthEvent(p)
         \/ \E op \in {"call", "logout"} : Ask(p, op)
         \/ \E u \in Person : SignIn(p, u)
  PROVE  AuthInv'
<1>1. /\ jar \in JarOf(sessions) /\ pages \in [Page -> TabState] /\ pages[p] \in TabState
      /\ identity \in Somebody
      /\ \A q \in wire : q.page \in Page
  BY DEF AuthInv, AuthTypeOK, Request
<1>2. CASE AuthEvent(p)
 <2> DEFINE new == Sent(p, "session", "event", identity)
 <2>1. /\ pages' = [pages EXCEPT ![p].user = identity, ![p].backend = FALSE,
                                 ![p].resolved = identity = Nothing]
       /\ UNCHANGED <<identity, jar, sessions>>
       /\ wire' = IF identity = Nothing THEN wire ELSE wire \union {new}
   BY <1>2 DEF AuthEvent
 <2>2. pages' \in [Page -> TabState]
   BY <1>1, <2>1 DEF TabState
 <2>3. \A x \in Page : pages'[x].call = pages[x].call
   BY <1>1, <2>1 DEF TabState
 <2>4. new \in Request(sessions) /\ new.why = "event" /\ IdentityKept(sessions, new)
   BY <1>1, <2>1, SentIsRequest
 <2> HIDE DEF new
 <2>5. OneCallPerTab'
   BY <1>1, <2>1, <2>3, <2>4 DEF AuthInv, OneCallPerTab
 <2>9. \A q \in wire' : Sound(q)
   BY <1>1, <2>1, <2>2, <2>4, <2>5 DEF Sound
 <2> QED BY <1>1, <2>1, <2>2, <2>4, <2>5, <2>9, BrowserKeepsInv
<1>3. ASSUME NEW op \in {"call", "logout"}, Ask(p, op)
      PROVE  AuthInv'
 <2> DEFINE new == Sent(p, op, "first", Nothing)
 <2>1. /\ pages[p].call = Nothing
       /\ pages' = [pages EXCEPT ![p].call = op]
       /\ UNCHANGED <<identity, jar, sessions>>
       /\ wire' = wire \union {new}
   BY <1>3 DEF Ask
 <2>2. pages' \in [Page -> TabState] /\ pages'[p].call = op
   BY <1>1, <2>1 DEF TabState
 <2>3. \A x \in Page \ {p} : pages'[x] = pages[x]
   BY <1>1, <2>1
 <2>4. new \in Request(sessions) /\ new.page = p /\ IdentityKept(sessions, new)
   BY <1>1, <2>1, SentIsRequest DEF Somebody
 <2> HIDE DEF new
 <2>5. \A q \in wire : q.why # "event" => q.page # p
   BY <2>1 DEF AuthInv, OneCallPerTab
 <2>6. OneCallPerTab'
  <3>1. op # Nothing
    BY NothingIsNoToken
  <3> QED BY <1>1, <2>1, <2>2, <2>3, <2>4, <2>5, <3>1 DEF AuthInv, OneCallPerTab
 <2>9. \A q \in wire' : Sound(q)
   BY <1>1, <2>1, <2>2, <2>4, <2>6 DEF Sound
 <2> QED BY <1>1, <2>1, <2>2, <2>4, <2>6, <2>9, BrowserKeepsInv
<1>4. ASSUME NEW u \in Person, SignIn(p, u)
      PROVE  AuthInv'
 <2>1. identity' \in Somebody /\ UNCHANGED <<pages, jar, wire, sessions>>
   BY <1>4 DEF SignIn, Somebody
 <2>2. OneCallPerTab'
   BY <2>1 DEF AuthInv, OneCallPerTab
 <2>3. \A q \in wire' : Sound(q)
   BY <2>1 DEF Sound
 <2> QED BY <1>1, <2>1, <2>2, <2>3, BrowserKeepsInv
<1> QED BY <1>2, <1>3, <1>4

(* Every step of the tabs, the wire and the backend keeps the invariant.    *)
LEMMA AuthInvariant == AuthSpec => []AuthInv
<1>1. AuthInit => AuthInv
 <2> SUFFICES ASSUME AuthInit PROVE AuthInv
   OBVIOUS
 <2>1. sessions = <<>> /\ wire = {} /\ jar = NoCookies
   BY DEF AuthInit
 <2>2. sessions \in Seq(Session) /\ DOMAIN sessions = {}
   BY <2>1
 <2>3. AuthTypeOK
   BY <2>1, <2>2 DEF AuthInit, AuthTypeOK, NoCookies, JarOf, TokenOf, Somebody, TabState
 <2> QED BY <2>1, <2>2, <2>3 DEF AuthInv, OneCallPerTab, Descended
<1>2. AuthInv /\ [AuthNext]_authVars => AuthInv'
 <2> SUFFICES ASSUME AuthInv, [AuthNext]_authVars PROVE AuthInv'
   OBVIOUS
 <2>1. ASSUME NEW r \in wire, BackendServes(r) PROVE AuthInv'
   BY <2>1, ServingKeepsInv
 <2>2. ASSUME NEW r \in wire,
              ConnectionFails(r) \/ AskedAnswers(r) \/ RecoveryAnswers(r) \/ ExchangeAnswers(r)
       PROVE  AuthInv'
   BY <2>2, BrowserStepsKeepInv
 <2>3. ASSUME NEW p \in Page,
              \/ AuthEvent(p)
              \/ \E op \in {"call", "logout"} : Ask(p, op)
              \/ \E u \in Person : SignIn(p, u)
       PROVE  AuthInv'
   BY <2>3, TabStepsKeepInv
 <2>4. CASE AccessExpires
  <3>1. jar' = [jar EXCEPT !.access = Nothing] /\ UNCHANGED <<identity, pages, wire, sessions>>
    BY <2>4 DEF AccessExpires
  <3>2. jar' \in JarOf(sessions)
    BY <3>1 DEF AuthInv, AuthTypeOK, JarOf, TokenOf
  <3>9. \A q \in wire' : Sound(q)
    BY <3>1, <3>2 DEF Sound
  <3> QED BY <3>1, <3>2, <3>9, BrowserKeepsInv DEF AuthInv, AuthTypeOK, OneCallPerTab
 <2>5. CASE UNCHANGED authVars
   BY <2>5 DEF authVars, AuthInv, AuthTypeOK, OneCallPerTab
 <2> QED BY <2>1, <2>2, <2>3, <2>4, <2>5 DEF AuthNext
<1> QED BY <1>1, <1>2, PTL DEF AuthSpec

(* A refresh token makes at most one descendant, however many tabs present  *)
(* it at once, and a token of one user never makes a session of another     *)
(* (session.go:105-160, service.go:112-155).                                *)
THEOREM SingleUse == AuthSpec => []TokensAreSingleUse
<1>1. AuthInv => TokensAreSingleUse
 <2> SUFFICES ASSUME AuthInv PROVE TokensAreSingleUse
   OBVIOUS
 <2>1. Descended(sessions) /\ sessions \in Seq(Session)
   BY DEF AuthInv, AuthTypeOK
 <2> QED BY <2>1 DEF Descended, TokensAreSingleUse, UserOf
<1> QED BY <1>1, AuthInvariant, PTL

(* An exchange that succeeds leaves its answer, or the access cookie it was *)
(* sent with, on the user of the token (handler.go:53-54).                  *)
THEOREM IdentityKeptByExchanges == AuthSpec => []ExchangesKeepTheIdentity
<1>1. AuthInv => ExchangesKeepTheIdentity
  BY DEF AuthInv, IdentityKept, UserIn, ExchangesKeepTheIdentity, UserOf
<1> QED BY <1>1, AuthInvariant, PTL

(***************************************************************************)
(* Journal.  What was stored is on the disk or on a server; while a load    *)
(* holds rows it is among those or on a server; and once the rows are sent  *)
(* everything is on a server, so that the disk may be cleared.              *)
(***************************************************************************)
JournalRows == Partially(EntryId, Nat)
Load == [at : {"reading", "flushing", "listed", "caching", "filling"}, rows : JournalRows]
EntryOp == [op : {"create", "update", "attach", "delete"}, id : EntryId, version : Nat]

JournalTypeOK ==
  /\ journal \in [entries : JournalRows, source : Trader \union {Nothing, "local"}, error : BOOLEAN,
                  user : Trader \union {Nothing}, used : SUBSET EntryId, kept : SUBSET EntryId]
  /\ journalDisk \in JournalRows
  /\ journalDb \in [Trader -> JournalRows]
  /\ journalRun \in [load : {Nothing} \union Load, ops : SUBSET EntryOp]

AtServer(i) == \E u \in Trader : i \in DOMAIN journalDb[u]
RowsAreCarried ==
  /\ journalRun.load # Nothing /\ journalRun.load.at = "flushing" =>
       \A i \in journal.kept : i \in DOMAIN journalRun.load.rows \/ AtServer(i)
  /\ journalRun.load # Nothing /\ journalRun.load.at \in {"listed", "caching", "filling"} =>
       \A i \in journal.kept : AtServer(i)

JournalInv == JournalTypeOK /\ OfflineEntriesSurvive /\ RowsAreCarried

(* JournalRows under Put, Drop and an edit.                                        *)
LEMMA RowsChange ==
  ASSUME NEW f \in JournalRows, NEW i \in EntryId, NEW v \in Nat
  PROVE  /\ Put(f, i, v) \in JournalRows
         /\ DOMAIN Put(f, i, v) = DOMAIN f \union {i}
         /\ Drop(f, {i}) \in JournalRows
         /\ DOMAIN Drop(f, {i}) = DOMAIN f \ {i}
         /\ i \in DOMAIN f => [f EXCEPT ![i] = v] \in JournalRows
<1>1. f \in Partially(EntryId, Nat)
  BY DEF JournalRows
<1>2. Put(f, i, v) \in Partially(EntryId, Nat) /\ DOMAIN Put(f, i, v) = DOMAIN f \union {i}
  BY <1>1, PutPartial DEF Put
<1>3. Drop(f, {i}) \in Partially(EntryId, Nat) /\ DOMAIN Drop(f, {i}) = DOMAIN f \ {i}
 <2>1. \A ks : /\ Drop(f, ks) \in Partially(EntryId, Nat)
                /\ DOMAIN Drop(f, ks) = DOMAIN f \ ks
   BY <1>1, DropPartial DEF Drop
 <2> QED BY <2>1
<1>4. i \in DOMAIN f => [f EXCEPT ![i] = v] \in Partially(EntryId, Nat)
  BY <1>1, EntryChanged
<1> QED BY <1>2, <1>3, <1>4 DEF JournalRows

LEMMA RowsAre ==
  ASSUME NEW f \in JournalRows
  PROVE  \A i \in DOMAIN f : i \in EntryId /\ f[i] \in Nat
<1>1. f \in Partially(EntryId, Nat)
  BY DEF JournalRows
<1> QED BY <1>1, PartialIs

(* Parts of the step that several actions share: nothing that was stored    *)
(* leaves, and the load moves on or not.                                    *)
LEMMA KeepingKeepsInv ==
  ASSUME JournalInv, JournalTypeOK', journal'.kept \subseteq journal.kept,
         \A i \in journal'.kept : i \in DOMAIN journalDisk => i \in DOMAIN journalDisk' \/ AtServer(i)',
         \A i \in journal'.kept : AtServer(i) => AtServer(i)',
         RowsAreCarried'
  PROVE  JournalInv'
BY DEF JournalInv, OfflineEntriesSurvive, AtServer

LEMMA JournalLoadsKeepInv ==
  ASSUME JournalInv,
         LoadJournal \/ ReadLocal \/ FlushOne \/ ListRemote \/ ListShown
         \/ CacheCleared \/ CacheFilled \/ LoadFallsBack
  PROVE  JournalInv'
<1> DEFINE load == journalRun.load
<1>1. /\ JournalTypeOK
      /\ journal \in [entries : JournalRows, source : Trader \union {Nothing, "local"}, error : BOOLEAN,
                      user : Trader \union {Nothing}, used : SUBSET EntryId, kept : SUBSET EntryId]
      /\ journalDisk \in JournalRows
      /\ journalDb \in [Trader -> JournalRows]
      /\ journalRun \in [load : {Nothing} \union Load, ops : SUBSET EntryOp]
      /\ load # Nothing => load \in Load
      /\ journal.user # Nothing => journal.user \in Trader
  BY DEF JournalInv, JournalTypeOK
<1>2. None \in JournalRows /\ DOMAIN None = {}
  BY NonePartial DEF JournalRows
<1>3. CASE LoadJournal
 <2> DEFINE new == [at |-> "reading", rows |-> None]
 <2>1. /\ journal' = [journal EXCEPT !.source = SourceNow, !.error = FALSE]
       /\ journalRun' = [journalRun EXCEPT !.load = new]
       /\ UNCHANGED <<journalDisk, journalDb>>
   BY <1>3 DEF LoadJournal
 <2>2. new \in Load /\ new.at = "reading"
   BY <1>2 DEF Load
 <2> HIDE DEF new
 <2>3. SourceNow \in Trader \union {Nothing, "local"}
   BY <1>1 DEF SourceNow
 <2>4. JournalTypeOK' /\ journalRun'.load = new /\ journal'.kept = journal.kept
   BY <1>1, <2>1, <2>2, <2>3 DEF JournalTypeOK
 <2> QED BY <2>1, <2>2, <2>4, KeepingKeepsInv DEF RowsAreCarried, AtServer
<1>4. CASE ReadLocal
 <2>1. UNCHANGED <<journalDisk, journalDb>>
   BY <1>4 DEF ReadLocal
 <2>2. CASE journal.user = Nothing
  <3>1. /\ journal' = [journal EXCEPT !.entries = journalDisk]
        /\ journalRun' = [journalRun EXCEPT !.load = Nothing]
    BY <1>4, <2>2 DEF ReadLocal
  <3>2. JournalTypeOK' /\ journalRun'.load = Nothing /\ journal'.kept = journal.kept
    BY <1>1, <2>1, <3>1 DEF JournalTypeOK
  <3> QED BY <2>1, <3>2, KeepingKeepsInv DEF RowsAreCarried, AtServer
 <2>3. CASE journal.user # Nothing
  <3> DEFINE new == [at |-> "flushing", rows |-> journalDisk]
  <3>1. journal' = journal /\ journalRun' = [journalRun EXCEPT !.load = new]
    BY <1>4, <2>3 DEF ReadLocal
  <3>2. new \in Load /\ new.at = "flushing" /\ new.rows = journalDisk
    BY <1>1 DEF Load
  <3> HIDE DEF new
  <3>3. JournalTypeOK' /\ journalRun'.load = new
    BY <1>1, <2>1, <3>1, <3>2 DEF JournalTypeOK
  <3>4. RowsAreCarried'
    BY <2>1, <3>1, <3>2, <3>3 DEF RowsAreCarried, AtServer, JournalInv, OfflineEntriesSurvive
  <3> QED BY <2>1, <3>1, <3>3, <3>4, KeepingKeepsInv DEF AtServer
 <2> QED BY <2>2, <2>3
<1>5. CASE FlushOne
 <2>1. PICK i \in DOMAIN load.rows :
            /\ journalDb' = [journalDb EXCEPT ![journal.user] = Put(@, i, load.rows[i])]
            /\ journalRun' = [journalRun EXCEPT !.load.rows = Drop(@, {i})]
   BY <1>5 DEF FlushOne
 <2>2. /\ load # Nothing /\ load.at = "flushing" /\ journal.user \in Trader
       /\ UNCHANGED <<journal, journalDisk>>
   BY <1>1, <1>5 DEF FlushOne
 <2> DEFINE u == journal.user
            row == Put(journalDb[u], i, load.rows[i])
            rest == Drop(load.rows, {i})
            new == [load EXCEPT !.rows = rest]
 <2>3. load.rows \in JournalRows /\ journalDb[u] \in JournalRows /\ i \in EntryId /\ load.rows[i] \in Nat
  <3>1. load.rows \in JournalRows /\ journalDb[u] \in JournalRows
    BY <1>1, <2>2 DEF Load
  <3> QED BY <3>1, RowsAre
 <2>4. row \in JournalRows /\ DOMAIN row = DOMAIN journalDb[u] \union {i}
   BY <2>3, RowsChange
 <2>5. rest \in JournalRows /\ DOMAIN rest = DOMAIN load.rows \ {i}
   BY <2>3, RowsChange
 <2>6. journalDb' = [journalDb EXCEPT ![u] = row]
   BY <1>1, <2>1, <2>2
 <2>7. journalRun' = [journalRun EXCEPT !.load = new]
   BY <1>1, <2>1, <2>2
 <2> HIDE DEF row, rest
 <2>8. new \in Load /\ new.at = "flushing" /\ new.rows = rest
   BY <1>1, <2>2, <2>5 DEF Load
 <2> HIDE DEF new
 <2>9. JournalTypeOK' /\ journalRun'.load = new
   BY <1>1, <2>2, <2>4, <2>6, <2>7, <2>8 DEF JournalTypeOK
 <2>10. \A j : AtServer(j) \/ j = i => AtServer(j)'
   BY <1>1, <2>2, <2>4, <2>6 DEF AtServer
 <2>11. RowsAreCarried'
   BY <2>2, <2>5, <2>8, <2>9, <2>10 DEF RowsAreCarried, JournalInv
 <2> QED BY <2>2, <2>9, <2>10, <2>11, KeepingKeepsInv
<1>6. CASE ListRemote
 <2> DEFINE new == [at |-> "listed", rows |-> journalDb[journal.user]]
 <2>1. /\ journalRun' = [journalRun EXCEPT !.load = new]
       /\ load # Nothing /\ load.at = "flushing" /\ load.rows = None
       /\ journal.user \in Trader
       /\ UNCHANGED <<journal, journalDisk, journalDb>>
   BY <1>1, <1>6 DEF ListRemote
 <2>2. new \in Load /\ new.at = "listed"
   BY <1>1, <2>1 DEF Load
 <2> HIDE DEF new
 <2>3. JournalTypeOK' /\ journalRun'.load = new
   BY <1>1, <2>1, <2>2 DEF JournalTypeOK
 <2>4. RowsAreCarried'
   BY <1>2, <2>1, <2>2, <2>3 DEF RowsAreCarried, AtServer, JournalInv
 <2> QED BY <2>1, <2>3, <2>4, KeepingKeepsInv DEF AtServer
<1>7. CASE ListShown
 <2> DEFINE new == [load EXCEPT !.at = "caching"]
 <2>1. /\ journal' = [journal EXCEPT !.entries = load.rows]
       /\ journalRun' = [journalRun EXCEPT !.load.at = "caching"]
       /\ load # Nothing /\ load.at = "listed" /\ load \in Load
       /\ UNCHANGED <<journalDisk, journalDb>>
   BY <1>1, <1>7 DEF ListShown
 <2>2. new \in Load /\ new.at = "caching" /\ journalRun' = [journalRun EXCEPT !.load = new]
   BY <1>1, <2>1 DEF Load
 <2> HIDE DEF new
 <2>3. JournalTypeOK' /\ journalRun'.load = new /\ journal'.kept = journal.kept
   BY <1>1, <2>1, <2>2 DEF JournalTypeOK, Load
 <2>4. RowsAreCarried'
   BY <2>1, <2>2, <2>3 DEF RowsAreCarried, AtServer, JournalInv
 <2> QED BY <2>1, <2>3, <2>4, KeepingKeepsInv DEF AtServer
<1>8. CASE CacheCleared
 <2> DEFINE new == [load EXCEPT !.at = "filling"]
 <2>1. /\ journalDisk' = None
       /\ journalRun' = [journalRun EXCEPT !.load.at = "filling"]
       /\ load # Nothing /\ load.at = "caching" /\ load \in Load
       /\ UNCHANGED <<journal, journalDb>>
   BY <1>1, <1>8 DEF CacheCleared
 <2>2. new \in Load /\ new.at = "filling" /\ journalRun' = [journalRun EXCEPT !.load = new]
   BY <1>1, <2>1 DEF Load
 <2> HIDE DEF new
 <2>3. JournalTypeOK' /\ journalRun'.load = new
   BY <1>1, <1>2, <2>1, <2>2 DEF JournalTypeOK
 <2>4. RowsAreCarried' /\ \A i \in journal'.kept : AtServer(i)'
   BY <2>1, <2>2, <2>3 DEF RowsAreCarried, AtServer, JournalInv
 <2> QED BY <2>1, <2>3, <2>4, KeepingKeepsInv
<1>9. CASE CacheFilled
 <2> DEFINE filled == [i \in DOMAIN journalDisk \union DOMAIN load.rows |->
                         IF i \in DOMAIN load.rows THEN load.rows[i] ELSE journalDisk[i]]
 <2>1. /\ journalDisk' = filled
       /\ journalRun' = [journalRun EXCEPT !.load = Nothing]
       /\ load # Nothing /\ load.rows \in JournalRows
       /\ UNCHANGED <<journal, journalDb>>
   BY <1>1, <1>9 DEF CacheFilled, Load
 <2>2. filled \in JournalRows /\ DOMAIN filled = DOMAIN journalDisk \union DOMAIN load.rows
   BY <1>1, <2>1, LaidOver DEF JournalRows
 <2> HIDE DEF filled
 <2>3. JournalTypeOK' /\ journalRun'.load = Nothing
   BY <1>1, <2>1, <2>2 DEF JournalTypeOK
 <2> QED BY <2>1, <2>2, <2>3, KeepingKeepsInv DEF RowsAreCarried, AtServer
<1>10. CASE LoadFallsBack
 <2>1. /\ journal' = [journal EXCEPT !.entries = journalDisk, !.error = TRUE]
       /\ journalRun' = [journalRun EXCEPT !.load = Nothing]
       /\ UNCHANGED <<journalDisk, journalDb>>
   BY <1>10 DEF LoadFallsBack
 <2>2. JournalTypeOK' /\ journalRun'.load = Nothing /\ journal'.kept = journal.kept
   BY <1>1, <2>1 DEF JournalTypeOK
 <2> QED BY <2>1, <2>2, KeepingKeepsInv DEF RowsAreCarried, AtServer
<1> QED BY <1>3, <1>4, <1>5, <1>6, <1>7, <1>8, <1>9, <1>10

LEMMA JournalChangesKeepInv ==
  ASSUME JournalInv, AddEntry \/ UpdateEntry \/ AttachScreenshot \/ RemoveEntry
  PROVE  JournalInv'
<1>1. /\ JournalTypeOK
      /\ journal \in [entries : JournalRows, source : Trader \union {Nothing, "local"}, error : BOOLEAN,
                      user : Trader \union {Nothing}, used : SUBSET EntryId, kept : SUBSET EntryId]
      /\ journalDisk \in JournalRows
      /\ journalRun \in [load : {Nothing} \union Load, ops : SUBSET EntryOp]
      /\ journal.entries \in JournalRows
      /\ UNCHANGED journalDb
  BY DEF JournalInv, JournalTypeOK, AddEntry, UpdateEntry, AttachScreenshot, RemoveEntry
<1>2. ASSUME NEW i \in DOMAIN journal.entries
      PROVE  i \in EntryId /\ journal.entries[i] \in Nat
  BY <1>1, RowsAre
<1>3. ASSUME NEW op \in {"create", "update", "attach", "delete"}, NEW i \in EntryId,
             NEW v \in Nat
      PROVE  /\ EntrySent(op, i, v) \in [load : {Nothing} \union Load, ops : SUBSET EntryOp]
             /\ EntrySent(op, i, v).load = journalRun.load
 <2>1. [op |-> op, id |-> i, version |-> v] \in EntryOp
   BY DEF EntryOp
 <2> QED BY <1>1, <2>1 DEF EntrySent
<1>4. ASSUME NEW i \in EntryId, NEW v \in Nat
      PROVE  /\ Put(journalDisk, i, v) \in JournalRows
             /\ DOMAIN Put(journalDisk, i, v) = DOMAIN journalDisk \union {i}
             /\ Put(journal.entries, i, v) \in JournalRows
             /\ Drop(journal.entries, {i}) \in JournalRows
             /\ Drop(journalDisk, {i}) \in JournalRows
             /\ DOMAIN Drop(journalDisk, {i}) = DOMAIN journalDisk \ {i}
  BY <1>1, RowsChange
<1>5. CASE AddEntry
 <2>1. PICK i \in EntryId \ journal.used :
            /\ journal' = [journal EXCEPT !.entries = Put(@, i, 1), !.used = @ \union {i},
                             !.kept = IF journalRun.load = Nothing THEN @ \union {i} ELSE @]
            /\ journalDisk' = Put(journalDisk, i, 1)
            /\ journalRun' = EntrySent("create", i, 1)
   BY <1>5 DEF AddEntry
 <2>2. /\ journalDisk' \in JournalRows /\ Put(journal.entries, i, 1) \in JournalRows
       /\ DOMAIN journalDisk' = DOMAIN journalDisk \union {i}
   BY <1>4, <2>1
 <2>3. /\ journal' \in [entries : JournalRows, source : Trader \union {Nothing, "local"}, error : BOOLEAN,
                        user : Trader \union {Nothing}, used : SUBSET EntryId,
                        kept : SUBSET EntryId]
       /\ journal'.kept = IF journalRun.load = Nothing THEN journal.kept \union {i}
                          ELSE journal.kept
   BY <1>1, <2>1, <2>2
 <2>4. JournalTypeOK' /\ journalRun'.load = journalRun.load
   BY <1>1, <1>3, <2>1, <2>2, <2>3 DEF JournalTypeOK
 <2> QED BY <1>1, <2>2, <2>3, <2>4
         DEF JournalInv, OfflineEntriesSurvive, RowsAreCarried, AtServer
\* An edit of an entry, with or without a screenshot.
<1>6. ASSUME NEW op \in {"update", "attach"}, NEW i \in DOMAIN journal.entries,
             journal' = [journal EXCEPT !.entries[i] = @ + 1],
             journalDisk' = Put(journalDisk, i, journal.entries[i] + 1),
             journalRun' = EntrySent(op, i, journal.entries[i] + 1)
      PROVE  JournalInv'
 <2> DEFINE v == journal.entries[i] + 1
            edited == [journal.entries EXCEPT ![i] = v]
 <2>1. i \in EntryId /\ v \in Nat
   BY <1>2
 <2>2. edited \in JournalRows
   BY <1>1, <2>1, RowsChange
 <2>3. journal' = [journal EXCEPT !.entries = edited]
   BY <1>1, <1>6
 <2> HIDE DEF edited
 <2>4. /\ journal' \in [entries : JournalRows, source : Trader \union {Nothing, "local"}, error : BOOLEAN,
                        user : Trader \union {Nothing}, used : SUBSET EntryId,
                        kept : SUBSET EntryId]
       /\ journal'.kept = journal.kept
   BY <1>1, <2>2, <2>3
 <2>5. journalDisk' \in JournalRows /\ DOMAIN journalDisk' = DOMAIN journalDisk \union {i}
   BY <1>4, <1>6, <2>1
 <2>6. JournalTypeOK' /\ journalRun'.load = journalRun.load
   BY <1>1, <1>3, <1>6, <2>1, <2>4, <2>5 DEF JournalTypeOK
 <2> QED BY <1>1, <2>4, <2>5, <2>6, KeepingKeepsInv DEF RowsAreCarried, AtServer, JournalInv
<1>7. CASE UpdateEntry
  BY <1>6, <1>7 DEF UpdateEntry
<1>8. CASE AttachScreenshot
  BY <1>6, <1>8 DEF AttachScreenshot
<1>9. CASE RemoveEntry
 <2>1. PICK i \in DOMAIN journal.entries :
            /\ journal' = [journal EXCEPT !.entries = Drop(@, {i}), !.kept = @ \ {i}]
            /\ journalDisk' = IF journal.user = Nothing THEN Drop(journalDisk, {i})
                              ELSE journalDisk
            /\ journalRun' = EntrySent("delete", i, journal.entries[i])
   BY <1>9 DEF RemoveEntry
 <2>2. i \in EntryId /\ journal.entries[i] \in Nat
   BY <1>2
 <2>3. journalDisk' \in JournalRows /\ DOMAIN journalDisk \ {i} \subseteq DOMAIN journalDisk'
   BY <1>1, <1>4, <2>1, <2>2
 <2>4. /\ journal' \in [entries : JournalRows, source : Trader \union {Nothing, "local"}, error : BOOLEAN,
                        user : Trader \union {Nothing}, used : SUBSET EntryId,
                        kept : SUBSET EntryId]
       /\ journal'.kept = journal.kept \ {i}
   BY <1>1, <1>4, <2>1, <2>2
 <2>5. JournalTypeOK' /\ journalRun'.load = journalRun.load
   BY <1>1, <1>3, <2>1, <2>2, <2>3, <2>4 DEF JournalTypeOK
 <2> QED BY <1>1, <2>3, <2>4, <2>5, KeepingKeepsInv DEF RowsAreCarried, AtServer, JournalInv
<1> QED BY <1>5, <1>7, <1>8, <1>9

LEMMA JournalAnswersKeepInv ==
  ASSUME JournalInv, NEW o \in journalRun.ops, OpLands(o) \/ OpFails(o)
  PROVE  JournalInv'
<1>1. /\ JournalTypeOK
      /\ journal \in [entries : JournalRows, source : Trader \union {Nothing, "local"}, error : BOOLEAN,
                      user : Trader \union {Nothing}, used : SUBSET EntryId, kept : SUBSET EntryId]
      /\ journalDisk \in JournalRows
      /\ journalDb \in [Trader -> JournalRows]
      /\ journalRun \in [load : {Nothing} \union Load, ops : SUBSET EntryOp]
      /\ journal.entries \in JournalRows
      /\ o \in EntryOp
  BY DEF JournalInv, JournalTypeOK
<1>2. o.id \in EntryId /\ o.version \in Nat /\ o.op \in {"create", "update", "attach", "delete"}
  BY <1>1 DEF EntryOp
<1>3. ASSUME NEW f \in JournalRows
      PROVE  /\ Put(f, o.id, o.version) \in JournalRows
             /\ DOMAIN Put(f, o.id, o.version) = DOMAIN f \union {o.id}
             /\ Drop(f, {o.id}) \in JournalRows
             /\ DOMAIN Drop(f, {o.id}) = DOMAIN f \ {o.id}
             /\ o.id \in DOMAIN f => [f EXCEPT ![o.id] = o.version] \in JournalRows
  BY <1>2, RowsChange
<1>4. CASE OpLands(o)
 <2> DEFINE u == journal.user
            db == CASE o.op = "create" -> Put(journalDb[u], o.id, o.version)
                    [] o.op = "update" -> IF o.id \in DOMAIN journalDb[u]
                                          THEN Put(journalDb[u], o.id, o.version)
                                          ELSE journalDb[u]
                    [] o.op = "attach" -> journalDb[u]
                    [] o.op = "delete" -> Drop(journalDb[u], {o.id})
            entries == IF o.op = "attach" /\ o.id \in DOMAIN journal.entries
                       THEN [journal.entries EXCEPT ![o.id] = o.version] ELSE journal.entries
            rest == IF o.op = "delete" THEN journal.kept \ {o.id} ELSE journal.kept
 <2>1. u \in Trader /\ journalDb[u] \in JournalRows
   BY <1>1, <1>4 DEF OpLands
 <2>2. db \in JournalRows /\ (\A j \in DOMAIN journalDb[u] : j \in DOMAIN db \/ (o.op = "delete" /\ j = o.id))
   BY <1>2, <1>3, <2>1
 <2>3. /\ journalDisk' = CASE o.op = "delete" -> Drop(journalDisk, {o.id})
                           [] o.op = "attach" -> Put(journalDisk, o.id, o.version)
                           [] OTHER -> journalDisk
       /\ journalRun' = [journalRun EXCEPT !.ops = @ \ {o}]
   BY <1>4 DEF OpLands
 <2>4. journalDb' = [journalDb EXCEPT ![u] = db]
   BY <1>1, <1>4, <2>1 DEF OpLands
 <2>5. journal' = [journal EXCEPT !.kept = rest, !.entries = entries]
   BY <1>1, <1>4 DEF OpLands
 <2>6. entries \in JournalRows /\ rest \in SUBSET EntryId
   BY <1>1, <1>3
 <2>7. /\ journalDisk' \in JournalRows
       /\ \A j \in DOMAIN journalDisk : j \in DOMAIN journalDisk' \/ (o.op = "delete" /\ j = o.id)
   BY <1>1, <1>2, <1>3, <2>3
 <2> HIDE DEF db, entries
 <2>8. /\ JournalTypeOK'
       /\ journalRun'.load = journalRun.load
       /\ journal'.kept = rest
   BY <1>1, <2>1, <2>2, <2>3, <2>4, <2>5, <2>6, <2>7 DEF JournalTypeOK
 <2>9. ASSUME NEW j, AtServer(j), ~ (o.op = "delete" /\ j = o.id)
       PROVE  AtServer(j)'
  <3>1. PICK v \in Trader : j \in DOMAIN journalDb[v]
    BY <2>9 DEF AtServer
  <3>2. j \in DOMAIN journalDb'[v]
    BY <1>1, <2>1, <2>2, <2>4, <2>9, <3>1
  <3> QED BY <3>2 DEF AtServer
 <2>10. RowsAreCarried'
   BY <1>1, <2>8, <2>9 DEF RowsAreCarried, JournalInv
 <2> QED BY <2>7, <2>8, <2>9, <2>10, KeepingKeepsInv
<1>5. CASE OpFails(o)
 <2> DEFINE entries == IF o.op = "delete" THEN Put(journal.entries, o.id, o.version)
                       ELSE journal.entries
 <2>1. /\ journal' = [journal EXCEPT !.error = TRUE, !.entries = entries]
       /\ journalRun' = [journalRun EXCEPT !.ops = @ \ {o}]
       /\ UNCHANGED <<journalDisk, journalDb>>
   BY <1>1, <1>5 DEF OpFails
 <2>2. entries \in JournalRows
   BY <1>1, <1>3
 <2> HIDE DEF entries
 <2>3. JournalTypeOK' /\ journalRun'.load = journalRun.load /\ journal'.kept = journal.kept
   BY <1>1, <2>1, <2>2 DEF JournalTypeOK
 <2> QED BY <2>1, <2>3, KeepingKeepsInv DEF RowsAreCarried, AtServer, JournalInv
<1> QED BY <1>4, <1>5

(* An entry that was stored while no load was under way, and that nobody    *)
(* removed, is in the local copy or in a journal on the server, whichever   *)
(* request fails (journalStore.ts:55, 62).                                  *)
THEOREM EntriesSurvive == JournalSpec => []OfflineEntriesSurvive
<1>1. JournalInit => JournalInv
 <2> SUFFICES ASSUME JournalInit PROVE JournalInv
   OBVIOUS
 <2>1. None \in JournalRows
   BY NonePartial DEF JournalRows
 <2> QED BY <2>1
         DEF JournalInit, JournalInv, JournalTypeOK, OfflineEntriesSurvive, RowsAreCarried
<1>2. JournalInv /\ [JournalNext]_journalVars => JournalInv'
 <2> SUFFICES ASSUME JournalInv, [JournalNext]_journalVars PROVE JournalInv'
   OBVIOUS
 <2>1. ASSUME NEW u \in Trader \union {Nothing}, SetSession(u) PROVE JournalInv'
  <3>1. /\ journal' = [journal EXCEPT !.user = u]
        /\ UNCHANGED <<journalDisk, journalDb, journalRun>>
    BY <2>1 DEF SetSession
  <3>2. JournalTypeOK' /\ journal'.kept = journal.kept
    BY <3>1 DEF JournalInv, JournalTypeOK
  <3> QED BY <3>1, <3>2, KeepingKeepsInv DEF RowsAreCarried, AtServer, JournalInv
 <2>2. CASE LoadJournal \/ ReadLocal \/ FlushOne \/ ListRemote \/ ListShown
            \/ CacheCleared \/ CacheFilled \/ LoadFallsBack
   BY <2>2, JournalLoadsKeepInv
 <2>3. CASE AddEntry \/ UpdateEntry \/ AttachScreenshot \/ RemoveEntry
   BY <2>3, JournalChangesKeepInv
 <2>4. ASSUME NEW o \in journalRun.ops, OpLands(o) \/ OpFails(o) PROVE JournalInv'
   BY <2>4, JournalAnswersKeepInv
 <2>5. CASE UNCHANGED journalVars
   BY <2>5 DEF journalVars, JournalInv, JournalTypeOK, OfflineEntriesSurvive, RowsAreCarried,
               AtServer
 <2> QED BY <2>1, <2>2, <2>3, <2>4, <2>5 DEF JournalNext
<1>3. JournalInv => OfflineEntriesSurvive
  BY DEF JournalInv
<1> QED BY <1>1, <1>2, <1>3, PTL DEF JournalSpec

(***************************************************************************)
(* PineScripts.  A text belongs to a script when it was typed with it in    *)
(* the editor, in a draft, or for a script that has left the list (gone).   *)
(* What the editor and the operations under way hold belongs where it is    *)
(* going, and the script they name is in the list or has left it.           *)
(***************************************************************************)
Text == Nat \union {Nothing}
ScriptOrDraft == ScriptId \union {Nothing}
ScriptRow == [source : Text, favorite : BOOLEAN]
PineStage == {"compile", "define", "put", "saved", "add", "publish", "load", "delete", "star",
              "starred"}
PineKind == {"save", "run", "publish", "load", "delete", "star"}
PineTask == [kind : PineKind, stage : PineStage, id : ScriptOrDraft, source : Text, favorite : BOOLEAN]
Unnamed == {"compile", "define"}

Belongs(texts, past, id, source) ==
  source \in Nat =>
    /\ source <= Len(texts)
    /\ source \in 1..Len(texts) => texts[source] \in {id, Nothing} \union past
RowsBelong(texts, past, f) ==
  /\ f \in Partially(ScriptId, ScriptRow)
  /\ \A id \in DOMAIN f : Belongs(texts, past, id, f[id].source)
TextsBelong(texts, past, f) ==
  /\ f \in Partially(ScriptId, Text)
  /\ \A id \in DOMAIN f : Belongs(texts, past, id, f[id])
TaskBelongs(texts, past, known, t) ==
  /\ t \in PineTask
  /\ t.stage \notin Unnamed => t.id \in ScriptId
  /\ Belongs(texts, past, t.id, t.source)
  /\ t.id \in known \union {Nothing}
TasksBelong(texts, past, known, f) ==
  /\ f \in Partially(Nat, PineTask)
  /\ \A n \in DOMAIN f : TaskBelongs(texts, past, known, f[n])
EditorBelongs(texts, past, known, e) ==
  /\ e \in [id : ScriptOrDraft, source : Text]
  /\ Belongs(texts, past, e.id, e.source)
  /\ e.id \in known \union {Nothing}

KnownScripts == DOMAIN scripts \union gone
PineInv ==
  /\ typedFor \in Seq(ScriptOrDraft)
  /\ backend \in BOOLEAN
  /\ pineSteps \in Nat
  /\ RowsBelong(typedFor, gone, scripts)
  /\ RowsBelong(typedFor, gone, storedScripts)
  /\ TextsBelong(typedFor, gone, charted)
  /\ TextsBelong(typedFor, gone, published)
  /\ TasksBelong(typedFor, gone, KnownScripts, tasks)
  /\ EditorBelongs(typedFor, gone, KnownScripts, pine)

(* Typing more and letting scripts go takes nothing away.                   *)
LEMMA BelongingGrows ==
  ASSUME NEW S, NEW texts \in Seq(S), NEW more \in Seq(S), Len(texts) <= Len(more),
         \A i \in 1..Len(texts) : more[i] = texts[i],
         NEW past, NEW left2, past \subseteq left2,
         NEW known, NEW known2, known \subseteq known2
  PROVE  /\ \A id, s : Belongs(texts, past, id, s) => Belongs(more, left2, id, s)
         /\ \A f : RowsBelong(texts, past, f) => RowsBelong(more, left2, f)
         /\ \A f : TextsBelong(texts, past, f) => TextsBelong(more, left2, f)
         /\ \A f : TasksBelong(texts, past, known, f) => TasksBelong(more, left2, known2, f)
         /\ \A e : EditorBelongs(texts, past, known, e) => EditorBelongs(more, left2, known2, e)
<1>1. ASSUME NEW id, NEW s, Belongs(texts, past, id, s)
      PROVE  Belongs(more, left2, id, s)
 <2>1. Len(texts) \in Nat /\ Len(more) \in Nat
   OBVIOUS
 <2>2. CASE s \in Nat /\ s \in 1..Len(texts)
   BY <1>1, <2>1, <2>2 DEF Belongs
 <2>3. CASE s \in Nat /\ s \notin 1..Len(texts)
   BY <1>1, <2>1, <2>3 DEF Belongs
 <2>4. CASE s \notin Nat
   BY <2>4 DEF Belongs
 <2> QED BY <2>2, <2>3, <2>4
<1>2. ASSUME NEW t, TaskBelongs(texts, past, known, t)
      PROVE  TaskBelongs(more, left2, known2, t)
  BY <1>1, <1>2 DEF TaskBelongs
<1> QED BY <1>1, <1>2 DEF RowsBelong, TextsBelong, TasksBelong, EditorBelongs

LEMMA RowsBelongPut ==
  ASSUME NEW texts, NEW past, NEW f, RowsBelong(texts, past, f), NEW id \in ScriptId,
         NEW row \in ScriptRow, Belongs(texts, past, id, row.source)
  PROVE  RowsBelong(texts, past, Put(f, id, row))
<1>1. f \in Partially(ScriptId, ScriptRow)
  BY DEF RowsBelong
<1>2. Put(f, id, row) \in Partially(ScriptId, ScriptRow)
  BY <1>1, PutPartial
<1> QED BY <1>2 DEF RowsBelong, Put

LEMMA RowsBelongDropped ==
  ASSUME NEW texts, NEW past, NEW f, RowsBelong(texts, past, f), NEW ks
  PROVE  RowsBelong(texts, past, Drop(f, ks))
<1>1. f \in Partially(ScriptId, ScriptRow)
  BY DEF RowsBelong
<1>2. Drop(f, ks) \in Partially(ScriptId, ScriptRow)
  BY <1>1, DropPartial
<1> QED BY <1>2 DEF RowsBelong, Drop

LEMMA TextsBelongKept ==
  ASSUME NEW texts, NEW past, NEW f, TextsBelong(texts, past, f), NEW id \in ScriptId,
         NEW s \in Text, Belongs(texts, past, id, s)
  PROVE  /\ TextsBelong(texts, past, Put(f, id, s))
         /\ id \in DOMAIN f => TextsBelong(texts, past, [f EXCEPT ![id] = s])
<1>1. f \in Partially(ScriptId, Text)
  BY DEF TextsBelong
<1>2. /\ Put(f, id, s) \in Partially(ScriptId, Text)
      /\ DOMAIN Put(f, id, s) = DOMAIN f \union {id}
      /\ Put(f, id, s)[id] = s
 <2>1. Put(f, id, s) \in Partially(ScriptId, Text)
   BY <1>1, PutPartial
 <2> QED BY <2>1 DEF Put
<1>3. ASSUME id \in DOMAIN f
      PROVE  TextsBelong(texts, past, [f EXCEPT ![id] = s])
 <2>1. /\ [f EXCEPT ![id] = s] \in Partially(ScriptId, Text)
       /\ DOMAIN [f EXCEPT ![id] = s] = DOMAIN f
       /\ [f EXCEPT ![id] = s][id] = s
       /\ \A x \in DOMAIN f \ {id} : [f EXCEPT ![id] = s][x] = f[x]
   BY <1>1, <1>3, EntryChanged
 <2> QED BY <2>1 DEF TextsBelong
<1>4. TextsBelong(texts, past, Put(f, id, s))
  BY <1>2 DEF TextsBelong, Put
<1> QED BY <1>3, <1>4

LEMMA TasksBelongKept ==
  ASSUME NEW texts, NEW past, NEW known, NEW f, TasksBelong(texts, past, known, f)
  PROVE  /\ \A n : TasksBelong(texts, past, known, Drop(f, {n}))
         /\ \A n \in Nat : \A t :
              TaskBelongs(texts, past, known, t) =>
                /\ TasksBelong(texts, past, known, Put(f, n, t))
                /\ n \in DOMAIN f => TasksBelong(texts, past, known, [f EXCEPT ![n] = t])
<1>1. f \in Partially(Nat, PineTask)
  BY DEF TasksBelong
<1>2. \A ks : /\ Drop(f, ks) \in Partially(Nat, PineTask)
              /\ DOMAIN Drop(f, ks) = DOMAIN f \ ks
  BY <1>1, DropPartial DEF Drop
<1>3. ASSUME NEW n \in Nat, NEW t, TaskBelongs(texts, past, known, t)
      PROVE  /\ TasksBelong(texts, past, known, Put(f, n, t))
             /\ n \in DOMAIN f => TasksBelong(texts, past, known, [f EXCEPT ![n] = t])
 <2>1. t \in PineTask
   BY <1>3 DEF TaskBelongs
 <2>2. /\ Put(f, n, t) \in Partially(Nat, PineTask)
       /\ DOMAIN Put(f, n, t) = DOMAIN f \union {n}
       /\ Put(f, n, t)[n] = t
  <3>1. Put(f, n, t) \in Partially(Nat, PineTask)
    BY <1>1, <2>1, PutPartial
  <3> QED BY <3>1 DEF Put
 <2>3. ASSUME n \in DOMAIN f
       PROVE  TasksBelong(texts, past, known, [f EXCEPT ![n] = t])
  <3>1. /\ [f EXCEPT ![n] = t] \in Partially(Nat, PineTask)
        /\ DOMAIN [f EXCEPT ![n] = t] = DOMAIN f
        /\ [f EXCEPT ![n] = t][n] = t
        /\ \A x \in DOMAIN f \ {n} : [f EXCEPT ![n] = t][x] = f[x]
    BY <1>1, <2>1, <2>3, EntryChanged
  <3> QED BY <1>3, <3>1 DEF TasksBelong
 <2>4. TasksBelong(texts, past, known, Put(f, n, t))
   BY <1>3, <2>2 DEF TasksBelong, Put
 <2> QED BY <2>3, <2>4
<1>4. ASSUME NEW n
      PROVE  TasksBelong(texts, past, known, Drop(f, {n}))
  BY <1>2 DEF TasksBelong, Drop
<1> QED BY <1>3, <1>4

LEMMA PineGrows ==
  ASSUME PineInv, UNCHANGED typedFor, gone \subseteq gone', KnownScripts \subseteq KnownScripts'
  PROVE  /\ typedFor' \in Seq(ScriptOrDraft)
         /\ RowsBelong(typedFor', gone', scripts)
         /\ RowsBelong(typedFor', gone', storedScripts)
         /\ TextsBelong(typedFor', gone', charted)
         /\ TextsBelong(typedFor', gone', published)
         /\ TasksBelong(typedFor', gone', KnownScripts', tasks)
         /\ EditorBelongs(typedFor', gone', KnownScripts', pine)
<1> DEFINE known == KnownScripts
           known2 == KnownScripts'
           left2 == gone'
<1>1. typedFor \in Seq(ScriptOrDraft) /\ Len(typedFor) <= Len(typedFor)
  BY DEF PineInv
<1>2. known \subseteq known2 /\ gone \subseteq left2
  OBVIOUS
<1> HIDE DEF known, known2, left2
<1>3. /\ \A f : RowsBelong(typedFor, gone, f) => RowsBelong(typedFor, left2, f)
      /\ \A f : TextsBelong(typedFor, gone, f) => TextsBelong(typedFor, left2, f)
      /\ \A f : TasksBelong(typedFor, gone, known, f) => TasksBelong(typedFor, left2, known2, f)
      /\ \A x : EditorBelongs(typedFor, gone, known, x)
                  => EditorBelongs(typedFor, left2, known2, x)
  BY <1>1, <1>2, BelongingGrows
<1> QED BY <1>1, <1>3 DEF PineInv, known, known2, left2

(* A task of the list that changes, moves to another stage, or goes on for  *)
(* a script it names.                                                       *)
LEMMA TaskChanges ==
  ASSUME NEW texts, NEW past, NEW known, NEW f, TasksBelong(texts, past, known, f),
         NEW n \in DOMAIN f
  PROVE  /\ f[n] \in PineTask
         /\ TaskBelongs(texts, past, known, f[n])
         /\ n \in Nat
         /\ f = [x \in DOMAIN f |-> f[x]]
         /\ \A t : TaskBelongs(texts, past, known, t)
                     => TasksBelong(texts, past, known, [f EXCEPT ![n] = t])
<1>1. /\ f \in Partially(Nat, PineTask)
      /\ TaskBelongs(texts, past, known, f[n])
      /\ f[n] \in PineTask
  BY DEF TasksBelong, TaskBelongs
<1>2. n \in Nat /\ f = [x \in DOMAIN f |-> f[x]]
  BY <1>1, PartialIs
<1>3. ASSUME NEW t, TaskBelongs(texts, past, known, t)
      PROVE  TasksBelong(texts, past, known, [f EXCEPT ![n] = t])
  BY <1>2, <1>3, TasksBelongKept
<1> QED BY <1>1, <1>2, <1>3

LEMMA TaskMoves ==
  ASSUME NEW texts, NEW past, NEW known, NEW f, TasksBelong(texts, past, known, f),
         NEW n \in DOMAIN f, NEW stage \in PineStage,
         stage \in Unnamed \/ f[n].stage \notin Unnamed
  PROVE  TasksBelong(texts, past, known, [f EXCEPT ![n].stage = stage])
<1> DEFINE t == [f[n] EXCEPT !.stage = stage]
<1>1. TaskBelongs(texts, past, known, t)
  BY TaskChanges DEF TaskBelongs, PineTask
<1>2. [f EXCEPT ![n].stage = stage] = [f EXCEPT ![n] = t]
  BY TaskChanges
<1> HIDE DEF t
<1> QED BY <1>1, <1>2, TaskChanges

LEMMA TaskNamed ==
  ASSUME NEW texts, NEW past, NEW known, NEW f, TasksBelong(texts, past, known, f),
         NEW n \in DOMAIN f, NEW stage \in PineStage,
         NEW id \in ScriptId, id \in known, Belongs(texts, past, id, f[n].source)
  PROVE  TasksBelong(texts, past, known, [f EXCEPT ![n].stage = stage, ![n].id = id])
<1> DEFINE t == [f[n] EXCEPT !.stage = stage, !.id = id]
<1>1. TaskBelongs(texts, past, known, t)
 <2>1. f[n] \in PineTask
   BY TaskChanges
 <2>2. t \in PineTask /\ t.id = id /\ t.source = f[n].source
   BY <2>1 DEF PineTask, ScriptOrDraft
 <2> HIDE DEF t
 <2> QED BY <2>2 DEF TaskBelongs
<1>2. [f EXCEPT ![n].stage = stage, ![n].id = id] = [f EXCEPT ![n] = t]
  BY TaskChanges
<1> HIDE DEF t
<1> QED BY <1>1, <1>2, TaskChanges

LEMMA TaskNamedWithStar ==
  ASSUME NEW texts, NEW past, NEW known, NEW f, TasksBelong(texts, past, known, f),
         NEW n \in DOMAIN f, NEW stage \in PineStage, NEW star \in BOOLEAN,
         NEW id \in ScriptId, id \in known, Belongs(texts, past, id, f[n].source)
  PROVE  TasksBelong(texts, past, known,
                     [f EXCEPT ![n].stage = stage, ![n].id = id, ![n].favorite = star])
<1> DEFINE t == [f[n] EXCEPT !.stage = stage, !.id = id, !.favorite = star]
<1>1. TaskBelongs(texts, past, known, t)
 <2>1. f[n] \in PineTask
   BY TaskChanges
 <2>2. t \in PineTask /\ t.id = id /\ t.source = f[n].source
   BY <2>1 DEF PineTask, ScriptOrDraft
 <2> HIDE DEF t
 <2> QED BY <2>2 DEF TaskBelongs
<1>2. [f EXCEPT ![n].stage = stage, ![n].id = id, ![n].favorite = star] = [f EXCEPT ![n] = t]
  BY TaskChanges
<1> HIDE DEF t
<1> QED BY <1>1, <1>2, TaskChanges

(* A save that is over: the editor shows the script, its indicators run it. *)
LEMMA ConcludingKeeps ==
  ASSUME PineInv, UNCHANGED typedFor, gone \subseteq gone', KnownScripts \subseteq KnownScripts',
         NEW n \in DOMAIN tasks, NEW id \in ScriptId,
         id \in KnownScripts', Belongs(typedFor', gone', id, tasks[n].source),
         SaveConcluded(n, id, tasks[n].source)
  PROVE  /\ TextsBelong(typedFor', gone', charted')
         /\ TasksBelong(typedFor', gone', KnownScripts', tasks')
         /\ EditorBelongs(typedFor', gone', KnownScripts', pine')
<1> DEFINE known == KnownScripts'
           past == gone'
           texts == typedFor'
           source == tasks[n].source
<1>1. /\ TextsBelong(texts, past, charted)
      /\ TasksBelong(texts, past, known, tasks)
  BY PineGrows
<1>2. /\ id \in known
      /\ Belongs(texts, past, id, source)
  OBVIOUS
<1>3. /\ pine' = [id |-> id, source |-> source]
      /\ charted' = IF id \in DOMAIN charted THEN [charted EXCEPT ![id] = source] ELSE charted
      /\ \/ tasks' = [tasks EXCEPT ![n].stage = "add", ![n].id = id]
         \/ tasks' = [tasks EXCEPT ![n].stage = "publish", ![n].id = id]
         \/ tasks' = Drop(tasks, {n})
  BY DEF SaveConcluded, EditorShows, Ends
<1> HIDE DEF known, past, texts, source
<1>4. source \in Text
  BY <1>1 DEF TasksBelong, TaskBelongs, PineTask, source
<1>5. TextsBelong(texts, past, charted')
  BY <1>1, <1>2, <1>3, <1>4, TextsBelongKept
<1>8. Belongs(texts, past, id, tasks[n].source)
  BY <1>2 DEF source
<1>9. "add" \in PineStage /\ "publish" \in PineStage
  BY DEF PineStage
<1>6. TasksBelong(texts, past, known, tasks')
 <2>1. CASE tasks' = [tasks EXCEPT ![n].stage = "add", ![n].id = id]
   BY <1>1, <1>2, <2>1, <1>8, <1>9, TaskNamed
 <2>2. CASE tasks' = [tasks EXCEPT ![n].stage = "publish", ![n].id = id]
   BY <1>1, <1>2, <2>2, <1>8, <1>9, TaskNamed
 <2>3. CASE tasks' = Drop(tasks, {n})
   BY <1>1, <2>3, TasksBelongKept
 <2> QED BY <1>3, <2>1, <2>2, <2>3
<1>7. EditorBelongs(texts, past, known, pine')
  BY <1>2, <1>3, <1>4 DEF EditorBelongs, ScriptOrDraft
<1> QED BY <1>5, <1>6, <1>7 DEF known, past, texts

(* An operation begins: it is for a script of the list, or a draft.         *)
LEMMA StartingKeeps ==
  ASSUME PineInv, UNCHANGED typedFor, gone \subseteq gone', KnownScripts \subseteq KnownScripts',
         NEW t, TaskBelongs(typedFor', gone', KnownScripts', t), Starts(t)
  PROVE  TasksBelong(typedFor', gone', KnownScripts', tasks')
<1> DEFINE known == KnownScripts'
           past == gone'
           texts == typedFor'
           next == tasks'
<1>1. TasksBelong(texts, past, known, tasks)
  BY PineGrows
<1>2. next = Put(tasks, pineSteps + 1, t) /\ pineSteps + 1 \in Nat
  BY DEF Starts, PineInv
<1>3. TaskBelongs(texts, past, known, t)
  OBVIOUS
<1> HIDE DEF known, past, texts, next
<1>4. TasksBelong(texts, past, known, next)
  BY <1>1, <1>2, <1>3, TasksBelongKept
<1> QED BY <1>4 DEF known, past, texts, next

LEMMA PineEditorKeepsInv ==
  ASSUME PineInv,
         \/ TypeSource \/ NewPineScript \/ SessionChanges
         \/ \E kind \in {"save", "run", "publish"} : SavesCurrent(kind)
         \/ \E id \in ScriptId : LoadPineScript(id) \/ AddCustomIndicator(id)
  PROVE  PineInv'
<1>1. /\ UNCHANGED <<scripts, storedScripts, published, gone>>
      /\ KnownScripts' = KnownScripts
      /\ pineSteps' = pineSteps + 1 /\ pineSteps' \in Nat
 <2>1. pineSteps \in Nat
   BY DEF PineInv
 <2>2. PineStep /\ UNCHANGED <<scripts, storedScripts, published, gone>>
  <3>1. CASE TypeSource \/ NewPineScript \/ SessionChanges
    BY <3>1 DEF TypeSource, NewPineScript, SessionChanges
  <3>2. ASSUME NEW kind \in {"save", "run", "publish"}, SavesCurrent(kind)
        PROVE  PineStep /\ UNCHANGED <<scripts, storedScripts, published, gone>>
    BY <3>2 DEF SavesCurrent
  <3>3. ASSUME NEW id \in ScriptId, LoadPineScript(id) \/ AddCustomIndicator(id)
        PROVE  PineStep /\ UNCHANGED <<scripts, storedScripts, published, gone>>
    BY <3>3 DEF LoadPineScript, AddCustomIndicator
  <3> QED BY <3>1, <3>2, <3>3
 <2> QED BY <2>1, <2>2 DEF PineStep, KnownScripts
<1>2. /\ EditorBelongs(typedFor, gone, KnownScripts, pine)
      /\ pine \in [id : ScriptOrDraft, source : Text]
      /\ typedFor \in Seq(ScriptOrDraft)
      /\ Len(typedFor) \in Nat
  BY DEF PineInv, EditorBelongs
<1>3. CASE TypeSource
 <2> DEFINE n == Len(typedFor)
            more == Append(typedFor, pine.id)
 <2>1. /\ more \in Seq(ScriptOrDraft)
       /\ Len(more) = n + 1
       /\ more[n + 1] = pine.id
       /\ \A i \in 1..n : more[i] = typedFor[i]
   BY <1>2
 <2>2. /\ typedFor' = more
       /\ pine' = [id |-> pine.id, source |-> n + 1]
       /\ UNCHANGED <<tasks, charted, backend>>
   BY <1>3 DEF TypeSource, EditorShows
 <2> HIDE DEF more
 <2>3. /\ \A f : RowsBelong(typedFor, gone, f) => RowsBelong(more, gone, f)
       /\ \A f : TextsBelong(typedFor, gone, f) => TextsBelong(more, gone, f)
       /\ \A f : TasksBelong(typedFor, gone, KnownScripts, f)
                   => TasksBelong(more, gone, KnownScripts, f)
  <3>1. /\ typedFor \in Seq(ScriptOrDraft)
        /\ Len(typedFor) <= Len(more)
        /\ \A i \in 1..Len(typedFor) : more[i] = typedFor[i]
    BY <1>2, <2>1
  <3> DEFINE past == gone
             known == KnownScripts
  <3>2. past \subseteq past /\ known \subseteq known
    OBVIOUS
  <3> HIDE DEF past, known
  <3>3. /\ \A f : RowsBelong(typedFor, past, f) => RowsBelong(more, past, f)
        /\ \A f : TextsBelong(typedFor, past, f) => TextsBelong(more, past, f)
        /\ \A f : TasksBelong(typedFor, past, known, f) => TasksBelong(more, past, known, f)
    BY <2>1, <3>1, <3>2, BelongingGrows
  <3> QED BY <3>3 DEF past, known
 <2>4. EditorBelongs(more, gone, KnownScripts, pine')
   BY <1>2, <2>1, <2>2 DEF EditorBelongs, Belongs, Text
 <2> QED BY <1>1, <2>1, <2>2, <2>3, <2>4 DEF PineInv
<1>4. CASE NewPineScript
 <2>1. pine' = [id |-> Nothing, source |-> 0] /\ UNCHANGED <<tasks, typedFor, charted, backend>>
   BY <1>4 DEF NewPineScript, EditorShows, DefaultSource
 <2>2. EditorBelongs(typedFor, gone, KnownScripts, pine')
   BY <1>2, <2>1 DEF EditorBelongs, Belongs, Text, ScriptOrDraft
 <2> QED BY <1>1, <2>1, <2>2 DEF PineInv
<1>5. CASE SessionChanges
  BY <1>1, <1>5 DEF SessionChanges, PineInv
<1>6. ASSUME NEW kind \in {"save", "run", "publish"}, SavesCurrent(kind)
      PROVE  PineInv'
 <2> DEFINE t == [NoTask(IF kind = "run" THEN "compile" ELSE "define") EXCEPT
                    !.kind = kind, !.id = pine.id, !.source = pine.source]
 <2>1. Starts(t) /\ UNCHANGED <<typedFor, gone, pine, charted, backend>>
   BY <1>6 DEF SavesCurrent
 <2>2. t \in PineTask /\ t.stage \in Unnamed
   BY <1>2 DEF NoTask, PineTask, PineKind, PineStage, Unnamed
 <2>3. t.id = pine.id /\ t.source = pine.source
   BY DEF NoTask
 <2> HIDE DEF t
 <2>4. TaskBelongs(typedFor', gone', KnownScripts', t)
   BY <1>1, <1>2, <2>1, <2>2, <2>3 DEF TaskBelongs, EditorBelongs
 <2>5. TasksBelong(typedFor', gone', KnownScripts', tasks')
   BY <1>1, <2>1, <2>4, StartingKeeps
 <2> QED BY <1>1, <2>1, <2>5 DEF PineInv
<1>7. ASSUME NEW id \in ScriptId, LoadPineScript(id)
      PROVE  PineInv'
 <2>1. id \in DOMAIN scripts /\ UNCHANGED <<typedFor, gone, charted, backend>>
   BY <1>7 DEF LoadPineScript
 <2>2. scripts[id] \in ScriptRow /\ Belongs(typedFor, gone, id, scripts[id].source)
   BY <2>1, PartialIs DEF PineInv, RowsBelong
 <2>3. CASE scripts[id].source # Nothing
  <3>1. pine' = [id |-> id, source |-> scripts[id].source] /\ UNCHANGED tasks
    BY <1>7, <2>3 DEF LoadPineScript, EditorShows
  <3>2. scripts[id].source \in Text
    BY <2>2 DEF ScriptRow
  <3>3. EditorBelongs(typedFor, gone, KnownScripts, pine')
    BY <2>1, <2>2, <3>1, <3>2 DEF EditorBelongs, ScriptOrDraft, KnownScripts
  <3> QED BY <1>1, <2>1, <3>1, <3>3 DEF PineInv
 <2>4. CASE scripts[id].source = Nothing
  <3> DEFINE t == [NoTask("load") EXCEPT !.id = id]
  <3>1. Starts(t) /\ UNCHANGED pine
    BY <1>7, <2>4 DEF LoadPineScript
  <3>2. t \in PineTask
    BY DEF NoTask, PineTask, PineKind, PineStage, ScriptOrDraft, Text
  <3>3. Belongs(typedFor, gone, id, Nothing)
    BY NothingIsNoNumber DEF Belongs
  <3>4. t.id = id /\ t.source = Nothing
    BY DEF NoTask
  <3> HIDE DEF t
  <3>5. TaskBelongs(typedFor', gone', KnownScripts', t)
    BY <1>1, <2>1, <3>2, <3>3, <3>4 DEF TaskBelongs, KnownScripts
  <3>6. TasksBelong(typedFor', gone', KnownScripts', tasks')
    BY <1>1, <2>1, <3>1, <3>5, StartingKeeps
  <3> QED BY <1>1, <2>1, <3>1, <3>6 DEF PineInv
 <2> QED BY <2>3, <2>4
<1>8. ASSUME NEW id \in ScriptId, AddCustomIndicator(id)
      PROVE  PineInv'
 <2>1. /\ id \in DOMAIN scripts /\ charted' = Put(charted, id, scripts[id].source)
       /\ UNCHANGED <<typedFor, gone, pine, tasks, backend>>
   BY <1>8 DEF AddCustomIndicator
 <2>2. scripts[id] \in ScriptRow /\ Belongs(typedFor, gone, id, scripts[id].source)
   BY <2>1, PartialIs DEF PineInv, RowsBelong
 <2>3. scripts[id].source \in Text /\ TextsBelong(typedFor, gone, charted)
   BY <2>2 DEF ScriptRow, PineInv
 <2>4. TextsBelong(typedFor, gone, charted')
   BY <2>1, <2>2, <2>3, TextsBelongKept
 <2> QED BY <1>1, <2>1, <2>4 DEF PineInv
<1> QED BY <1>3, <1>4, <1>5, <1>6, <1>7, <1>8

LEMMA PineListKeepsInv ==
  ASSUME PineInv,
         \/ ApplyRemotePineScripts
         \/ \E id \in ScriptId : DeletePineScript(id) \/ TogglePineFavorite(id)
  PROVE  PineInv'
<1>1. /\ RowsBelong(typedFor, gone, scripts)
      /\ RowsBelong(typedFor, gone, storedScripts)
      /\ scripts \in Partially(ScriptId, ScriptRow)
      /\ storedScripts \in Partially(ScriptId, ScriptRow)
      /\ pineSteps \in Nat
      /\ pine \in [id : ScriptOrDraft, source : Text]
  BY DEF PineInv, RowsBelong, EditorBelongs
<1>2. ASSUME NEW f \in Partially(ScriptId, ScriptRow), NEW id \in DOMAIN f
      PROVE  f[id] \in ScriptRow /\ id \in ScriptId
  BY PartialIs
<1>3. CASE ApplyRemotePineScripts
 <2> DEFINE rows == [id \in DOMAIN storedScripts |->
                       [storedScripts[id] EXCEPT !.source = Nothing]]
 <2>1. /\ scripts' = rows
       /\ gone' = gone \union (DOMAIN scripts \ DOMAIN storedScripts)
       /\ pineSteps' = pineSteps + 1
       /\ UNCHANGED <<storedScripts, pine, tasks, charted, published, typedFor, backend>>
   BY <1>3 DEF ApplyRemotePineScripts, PineStep
 <2>2. DOMAIN rows = DOMAIN storedScripts /\ rows = [x \in DOMAIN rows |-> rows[x]]
   OBVIOUS
 <2>3. ASSUME NEW id \in DOMAIN storedScripts
       PROVE  rows[id] \in ScriptRow /\ rows[id].source = Nothing
   BY <1>1, <1>2 DEF ScriptRow, Text
 <2> HIDE DEF rows
 <2>4. rows \in Partially(ScriptId, ScriptRow)
   BY <1>1, <1>2, <2>2, <2>3, PartialIs
 <2>5. RowsBelong(typedFor', gone', scripts')
   BY <2>1, <2>2, <2>3, <2>4, NothingIsNoNumber DEF RowsBelong, Belongs
 <2>6. gone \subseteq gone' /\ KnownScripts \subseteq KnownScripts'
   BY <2>1, <2>2 DEF KnownScripts
 <2> QED BY <1>1, <2>1, <2>5, <2>6, PineGrows DEF PineInv
<1>4. ASSUME NEW id \in ScriptId, DeletePineScript(id)
      PROVE  PineInv'
 <2>1. /\ id \in DOMAIN scripts
       /\ scripts' = Drop(scripts, {id})
       /\ gone' = gone \union {id}
       /\ pineSteps' = pineSteps + 1
       /\ UNCHANGED <<storedScripts, charted, published, typedFor, backend>>
   BY <1>4 DEF DeletePineScript, PineStep
 <2>2. gone \subseteq gone' /\ KnownScripts \subseteq KnownScripts' /\ id \in KnownScripts'
   BY <2>1 DEF KnownScripts, Drop
 <2>3. /\ RowsBelong(typedFor', gone', scripts)
       /\ TasksBelong(typedFor', gone', KnownScripts', tasks)
       /\ EditorBelongs(typedFor', gone', KnownScripts', pine)
   BY <2>1, <2>2, PineGrows
 <2>4. RowsBelong(typedFor', gone', scripts')
  <3> DEFINE past == gone'
             texts == typedFor'
             next == scripts'
  <3>1. RowsBelong(texts, past, scripts) /\ next = Drop(scripts, {id})
    BY <2>1, <2>3
  <3> HIDE DEF past, texts, next
  <3>2. RowsBelong(texts, past, next)
    BY <3>1, RowsBelongDropped
  <3> QED BY <3>2 DEF past, texts, next
 <2>5. EditorBelongs(typedFor', gone', KnownScripts', pine')
  <3>1. pine' = pine \/ pine' = [id |-> Nothing, source |-> 0]
    BY <1>4 DEF DeletePineScript, EditorShows, DefaultSource
  <3>2. CASE pine' = [id |-> Nothing, source |-> 0]
   <4>1. Len(typedFor') \in Nat
     BY <2>1 DEF PineInv
   <4> QED BY <3>2, <4>1 DEF EditorBelongs, Belongs, Text, ScriptOrDraft
  <3> QED BY <2>3, <3>1, <3>2
 <2>6. TasksBelong(typedFor', gone', KnownScripts', tasks')
  <3> DEFINE t == [NoTask("delete") EXCEPT !.id = id]
  <3>1. Starts(t) \/ UNCHANGED tasks
    BY <1>4 DEF DeletePineScript
  <3>2. t \in PineTask /\ t.id = id /\ t.source = Nothing
    BY DEF NoTask, PineTask, PineKind, PineStage, ScriptOrDraft, Text
  <3> HIDE DEF t
  <3>3. TaskBelongs(typedFor', gone', KnownScripts', t)
    BY <2>2, <3>2, NothingIsNoNumber DEF TaskBelongs, Belongs
  <3> QED BY <2>1, <2>2, <2>3, <3>1, <3>3, StartingKeeps
 <2> QED BY <1>1, <2>1, <2>2, <2>4, <2>5, <2>6, PineGrows DEF PineInv
<1>5. ASSUME NEW id \in ScriptId, TogglePineFavorite(id)
      PROVE  PineInv'
 <2>1. /\ id \in DOMAIN scripts
       /\ scripts' = [scripts EXCEPT ![id].favorite = ~ @]
       /\ pineSteps' = pineSteps + 1
       /\ UNCHANGED <<storedScripts, pine, charted, published, typedFor, gone, backend>>
   BY <1>5 DEF TogglePineFavorite, PineStep
 <2>2. scripts[id] \in ScriptRow /\ scripts = [x \in DOMAIN scripts |-> scripts[x]]
   BY <1>1, <1>2, <2>1, PartialIs
 <2> DEFINE row == [scripts[id] EXCEPT !.favorite = ~ @]
 <2>3. row \in ScriptRow /\ row.source = scripts[id].source
   BY <2>2 DEF ScriptRow
 <2>4. scripts' = [scripts EXCEPT ![id] = row]
   BY <2>1, <2>2
 <2> HIDE DEF row
 <2>5. /\ scripts' \in Partially(ScriptId, ScriptRow)
       /\ DOMAIN scripts' = DOMAIN scripts
       /\ \A x \in DOMAIN scripts : scripts'[x] = IF x = id THEN row ELSE scripts[x]
  <3>1. [scripts EXCEPT ![id] = row] \in Partially(ScriptId, ScriptRow)
    BY <1>1, <2>1, <2>3, EntryChanged
  <3> QED BY <2>2, <2>4, <3>1
 <2>6. RowsBelong(typedFor', gone', scripts')
   BY <1>1, <2>1, <2>3, <2>5 DEF RowsBelong
 <2>7. gone \subseteq gone' /\ KnownScripts \subseteq KnownScripts' /\ id \in KnownScripts'
   BY <2>1, <2>5 DEF KnownScripts
 <2>8. TasksBelong(typedFor', gone', KnownScripts', tasks')
  <3> DEFINE t == [NoTask("star") EXCEPT !.id = id, !.favorite = ~ scripts[id].favorite]
  <3>1. Starts(t) \/ UNCHANGED tasks
    BY <1>5 DEF TogglePineFavorite
  <3>2. t \in PineTask /\ t.id = id /\ t.source = Nothing
    BY <2>2 DEF NoTask, PineTask, PineKind, PineStage, ScriptOrDraft, Text, ScriptRow
  <3> HIDE DEF t
  <3>3. TaskBelongs(typedFor', gone', KnownScripts', t)
    BY <2>7, <3>2, NothingIsNoNumber DEF TaskBelongs, Belongs
  <3>4. CASE Starts(t)
    BY <2>1, <2>7, <3>3, <3>4, StartingKeeps
  <3>5. CASE UNCHANGED tasks
    BY <2>1, <2>7, <3>5, PineGrows
  <3> QED BY <3>1, <3>4, <3>5
 <2> QED BY <1>1, <2>1, <2>6, <2>7, <2>8, PineGrows DEF PineInv
<1> QED BY <1>3, <1>4, <1>5

LEMMA PineTasksKeepInv ==
  ASSUME PineInv, NEW n \in DOMAIN tasks,
         \/ Compiled(n) \/ Defined(n) \/ PutReachesServer(n) \/ SaveAnswers(n) \/ SaveFails(n)
         \/ AddsSaved(n) \/ Publishes(n)
         \/ LoadAnswers(n) \/ DeleteReachesServer(n) \/ StarReachesServer(n) \/ StarAnswers(n)
  PROVE  PineInv'
<1> DEFINE t == tasks[n]
<1>1. /\ UNCHANGED <<typedFor, gone, backend, pineSteps>>
      /\ TasksBelong(typedFor, gone, KnownScripts, tasks)
      /\ TaskBelongs(typedFor, gone, KnownScripts, t)
      /\ t \in PineTask
      /\ Belongs(typedFor, gone, t.id, t.source)
      /\ t.source \in Text /\ t.favorite \in BOOLEAN /\ t.id \in KnownScripts \union {Nothing}
      /\ t.stage \notin Unnamed => t.id \in ScriptId
 <2>1. UNCHANGED <<typedFor, gone, backend, pineSteps>>
   BY DEF Compiled, Defined, PutReachesServer, SaveAnswers, SaveFails, AddsSaved, Publishes,
          LoadAnswers, DeleteReachesServer, StarReachesServer, StarAnswers
 <2>2. TasksBelong(typedFor, gone, KnownScripts, tasks) /\ TaskBelongs(typedFor, gone, KnownScripts, t)
   BY DEF PineInv, TasksBelong
 <2>3. t \in PineTask
   BY <2>2 DEF TaskBelongs
 <2> QED BY <2>1, <2>2, <2>3 DEF TaskBelongs, PineTask
<1>2. ASSUME Ends(n)
      PROVE  TasksBelong(typedFor, gone, KnownScripts, tasks')
  BY <1>1, <1>2, TasksBelongKept DEF Ends
<1>3. ASSUME UNCHANGED scripts
      PROVE  KnownScripts' = KnownScripts /\ RowsBelong(typedFor', gone', scripts')
  BY <1>1, <1>3 DEF KnownScripts, PineInv
<1>4. /\ RowsBelong(typedFor, gone, scripts)
      /\ RowsBelong(typedFor, gone, storedScripts)
      /\ TextsBelong(typedFor, gone, charted)
      /\ TextsBelong(typedFor, gone, published)
      /\ EditorBelongs(typedFor, gone, KnownScripts, pine)
  BY DEF PineInv
<1>5. CASE Compiled(n)
 <2>1. /\ t.stage = "compile"
       /\ Ends(n) \/ tasks' = [tasks EXCEPT ![n].stage = "define"]
       /\ UNCHANGED <<scripts, storedScripts, pine, charted, published>>
   BY <1>5 DEF Compiled, Moves
 <2>2. "define" \in PineStage /\ "define" \in Unnamed
   BY DEF PineStage, Unnamed
 <2>3. TasksBelong(typedFor, gone, KnownScripts, tasks')
   BY <1>1, <1>2, <2>1, <2>2, TaskMoves
 <2> QED BY <1>1, <1>3, <2>1, <2>3 DEF PineInv
\* A row enters the list.
<1>6. ASSUME NEW id \in ScriptId, NEW row \in ScriptRow, Belongs(typedFor, gone, id, row.source),
             scripts' = Put(scripts, id, row)
      PROVE  /\ RowsBelong(typedFor', gone', scripts')
             /\ KnownScripts \subseteq KnownScripts' /\ id \in KnownScripts'
 <2>1. RowsBelong(typedFor, gone, Put(scripts, id, row))
   BY <1>4, <1>6, RowsBelongPut
 <2>2. DOMAIN Put(scripts, id, row) = DOMAIN scripts \union {id}
   BY DEF Put
 <2> QED BY <1>1, <1>6, <2>1, <2>2 DEF KnownScripts
\* A stage at which the script is known.
<1>7. ASSUME t.stage \in PineStage \ Unnamed
      PROVE  t.id \in ScriptId /\ t.id \in KnownScripts
  BY <1>1, <1>4, <1>7, NothingIsNoNumber DEF ScriptId
<1>8. [source |-> t.source, favorite |-> t.favorite] \in ScriptRow
  BY <1>1 DEF ScriptRow
<1>9. CASE Defined(n)
 <2>1. PICK id \in SavedScript(tasks[n]) :
         LET row == [source |-> tasks[n].source, favorite |-> FavoriteOf(id)]
         IN  /\ scripts' = Put(scripts, id, row)
             /\ IF backend
                THEN /\ tasks' = [tasks EXCEPT ![n].stage = "put", ![n].id = id,
                                               ![n].favorite = row.favorite]
                     /\ UNCHANGED <<pine, charted>>
                ELSE SaveConcluded(n, id, row.source)
   BY <1>9 DEF Defined
 <2> DEFINE row == [source |-> t.source, favorite |-> FavoriteOf(id)]
 <2>2. /\ scripts' = Put(scripts, id, row)
       /\ UNCHANGED <<storedScripts, published>>
   BY <1>9, <2>1 DEF Defined
 <2>3. id \in ScriptId /\ FavoriteOf(id) \in BOOLEAN
  <3>1. DOMAIN scripts \subseteq ScriptId
    BY <1>4, PartialIs DEF RowsBelong
  <3>2. id \in DOMAIN scripts => scripts[id] \in ScriptRow
    BY <1>4, PartialIs DEF RowsBelong
  <3> QED BY <2>1, <3>1, <3>2 DEF SavedScript, FreshScript, FavoriteOf, ScriptRow
 <2>4. Belongs(typedFor, gone, id, t.source)
  <3>1. CASE t.id \in DOMAIN scripts
    BY <1>1, <2>1, <3>1 DEF SavedScript
  <3>2. CASE t.id \notin DOMAIN scripts
   <4>1. t.id \in gone \union {Nothing}
     BY <1>1, <3>2 DEF KnownScripts
   <4> QED BY <1>1, <4>1 DEF Belongs
  <3> QED BY <3>1, <3>2
 <2>5. row \in ScriptRow /\ row.source = t.source
   BY <1>1, <2>3 DEF ScriptRow
 <2>6. /\ RowsBelong(typedFor', gone', scripts')
       /\ KnownScripts \subseteq KnownScripts' /\ id \in KnownScripts'
  <3> HIDE DEF row
  <3> QED BY <1>6, <2>2, <2>3, <2>4, <2>5
 <2>7. /\ UNCHANGED typedFor /\ gone \subseteq gone'
       /\ Belongs(typedFor', gone', id, t.source)
   BY <1>1, <2>4
 <2>8. /\ TextsBelong(typedFor', gone', charted')
       /\ TasksBelong(typedFor', gone', KnownScripts', tasks')
       /\ EditorBelongs(typedFor', gone', KnownScripts', pine')
  <3>1. CASE backend
   <4>1. /\ tasks' = [tasks EXCEPT ![n].stage = "put", ![n].id = id,
                                   ![n].favorite = FavoriteOf(id)]
         /\ UNCHANGED <<pine, charted>>
     BY <2>1, <3>1
   <4>2. /\ TasksBelong(typedFor', gone', KnownScripts', tasks)
         /\ TextsBelong(typedFor', gone', charted)
         /\ EditorBelongs(typedFor', gone', KnownScripts', pine)
     BY <2>6, <2>7, PineGrows
   <4> DEFINE known == KnownScripts'
              past == gone'
              texts == typedFor'
              next == tasks'
   <4>3. /\ TasksBelong(texts, past, known, tasks)
         /\ Belongs(texts, past, id, tasks[n].source)
         /\ id \in known
         /\ next = [tasks EXCEPT ![n].stage = "put", ![n].id = id,
                                 ![n].favorite = FavoriteOf(id)]
         /\ "put" \in PineStage
     BY <2>6, <2>7, <4>1, <4>2 DEF PineStage
   <4> HIDE DEF known, past, texts, next
   <4>4. TasksBelong(texts, past, known, next)
     BY <2>3, <4>3, TaskNamedWithStar
   <4> QED BY <4>1, <4>2, <4>4 DEF known, past, texts, next
  <3>2. CASE ~ backend
   <4>1. SaveConcluded(n, id, tasks[n].source)
     BY <2>1, <3>2
   <4> QED BY <2>3, <2>6, <2>7, <4>1, ConcludingKeeps
  <3> QED BY <3>1, <3>2
 <2> QED BY <1>1, <1>4, <2>2, <2>6, <2>8, PineGrows DEF PineInv
<1>10. CASE PutReachesServer(n)
 <2> DEFINE row == [source |-> t.source, favorite |-> t.favorite]
 <2>1. /\ t.stage = "put" /\ tasks' = [tasks EXCEPT ![n].stage = "saved"]
       /\ storedScripts' = Put(storedScripts, t.id, row)
       /\ UNCHANGED <<scripts, pine, charted, published>>
   BY <1>10 DEF PutReachesServer, Moves
 <2>2. t.id \in ScriptId /\ "put" \notin Unnamed /\ "saved" \in PineStage
   BY <1>7, <2>1 DEF PineStage, Unnamed
 <2>3. TasksBelong(typedFor, gone, KnownScripts, tasks')
   BY <1>1, <2>1, <2>2, TaskMoves
 <2>4. RowsBelong(typedFor, gone, storedScripts')
  <3>1. row \in ScriptRow /\ row.source = t.source
    BY <1>8
  <3> HIDE DEF row
  <3> QED BY <1>1, <1>4, <2>1, <2>2, <3>1, RowsBelongPut
 <2> QED BY <1>1, <1>3, <2>1, <2>3, <2>4 DEF PineInv
<1>11. CASE SaveAnswers(n)
 <2> DEFINE row == [source |-> t.source, favorite |-> t.favorite]
 <2>1. /\ t.stage = "saved" /\ scripts' = Put(scripts, t.id, row)
       /\ SaveConcluded(n, t.id, tasks[n].source)
       /\ UNCHANGED <<storedScripts, published>>
   BY <1>11 DEF SaveAnswers
 <2>2. t.id \in ScriptId
   BY <1>7, <2>1 DEF PineStage, Unnamed
 <2>3. row \in ScriptRow /\ row.source = t.source
   BY <1>8
 <2> HIDE DEF row
 <2>4. /\ RowsBelong(typedFor', gone', scripts')
       /\ KnownScripts \subseteq KnownScripts' /\ t.id \in KnownScripts'
   BY <1>1, <1>6, <2>1, <2>2, <2>3
 <2>5. /\ TextsBelong(typedFor', gone', charted')
       /\ TasksBelong(typedFor', gone', KnownScripts', tasks')
       /\ EditorBelongs(typedFor', gone', KnownScripts', pine')
   BY <1>1, <2>1, <2>2, <2>4, ConcludingKeeps
 <2> QED BY <1>1, <1>4, <2>1, <2>4, <2>5, PineGrows DEF PineInv
<1>12. CASE SaveFails(n)
 <2>1. /\ t.stage = "put"
       /\ SaveConcluded(n, t.id, tasks[n].source)
       /\ UNCHANGED <<scripts, storedScripts, published>>
   BY <1>12 DEF SaveFails
 <2>2. t.id \in ScriptId /\ t.id \in KnownScripts
   BY <1>7, <2>1 DEF PineStage, Unnamed
 <2>3. /\ TextsBelong(typedFor', gone', charted')
       /\ TasksBelong(typedFor', gone', KnownScripts', tasks')
       /\ EditorBelongs(typedFor', gone', KnownScripts', pine')
   BY <1>1, <1>3, <2>1, <2>2, ConcludingKeeps
 <2> QED BY <1>1, <1>3, <1>4, <2>1, <2>3 DEF PineInv
<1>13. CASE AddsSaved(n)
 <2>1. /\ t.stage = "add" /\ charted' = Put(charted, t.id, t.source) /\ Ends(n)
       /\ UNCHANGED <<scripts, storedScripts, pine, published>>
   BY <1>13 DEF AddsSaved
 <2>2. t.id \in ScriptId
   BY <1>7, <2>1 DEF PineStage, Unnamed
 <2>3. TextsBelong(typedFor, gone, charted')
   BY <1>1, <1>4, <2>1, <2>2, TextsBelongKept
 <2> QED BY <1>1, <1>2, <1>3, <2>1, <2>3 DEF PineInv
<1>14. CASE Publishes(n)
 <2>1. /\ t.stage = "publish" /\ Ends(n)
       /\ published' = IF t.id \in DOMAIN storedScripts
                       THEN Put(published, t.id, storedScripts[t.id].source) ELSE published
       /\ UNCHANGED <<scripts, storedScripts, pine, charted>>
   BY <1>14 DEF Publishes
 <2>2. t.id \in ScriptId
   BY <1>7, <2>1 DEF PineStage, Unnamed
 <2>3. TextsBelong(typedFor, gone, published')
  <3>1. CASE t.id \in DOMAIN storedScripts
   <4>1. storedScripts[t.id] \in ScriptRow
     BY <1>4, <3>1, PartialIs DEF RowsBelong
   <4>2. storedScripts[t.id].source \in Text
     BY <4>1 DEF ScriptRow
   <4>3. Belongs(typedFor, gone, t.id, storedScripts[t.id].source)
     BY <1>4, <3>1 DEF RowsBelong
   <4> QED BY <1>4, <2>1, <2>2, <3>1, <4>2, <4>3, TextsBelongKept
  <3>2. CASE t.id \notin DOMAIN storedScripts
    BY <1>4, <2>1, <3>2
  <3> QED BY <3>1, <3>2
 <2> QED BY <1>1, <1>2, <1>3, <2>1, <2>3 DEF PineInv
<1>15. CASE LoadAnswers(n)
 <2>1. /\ t.stage = "load" /\ Ends(n)
       /\ UNCHANGED <<storedScripts, charted, published>>
   BY <1>15 DEF LoadAnswers
 <2>2. t.id \in ScriptId
   BY <1>7, <2>1 DEF PineStage, Unnamed
 <2>3. CASE t.id \in DOMAIN storedScripts
  <3>1. /\ pine' = [id |-> t.id, source |-> storedScripts[t.id].source]
        /\ scripts' = Put(scripts, t.id, storedScripts[t.id])
    BY <1>15, <2>3 DEF LoadAnswers, EditorShows
  <3>2. storedScripts[t.id] \in ScriptRow
    BY <1>4, <2>3, PartialIs DEF RowsBelong
  <3>3. storedScripts[t.id].source \in Text
    BY <3>2 DEF ScriptRow
  <3>4. Belongs(typedFor, gone, t.id, storedScripts[t.id].source)
    BY <1>4, <2>3 DEF RowsBelong
  <3>5. /\ RowsBelong(typedFor', gone', scripts')
        /\ KnownScripts \subseteq KnownScripts' /\ t.id \in KnownScripts'
    BY <1>6, <2>2, <3>1, <3>2, <3>4
  <3>6. EditorBelongs(typedFor', gone', KnownScripts', pine')
    BY <1>1, <2>2, <3>1, <3>3, <3>4, <3>5 DEF EditorBelongs, ScriptOrDraft
  <3>7. TasksBelong(typedFor', gone', KnownScripts', tasks')
   <4> DEFINE known == KnownScripts'
              next == tasks'
   <4>1. TasksBelong(typedFor, gone, known, tasks) /\ next = Drop(tasks, {n})
     BY <1>1, <2>1, <3>5, PineGrows DEF Ends
   <4> HIDE DEF known, next
   <4>2. TasksBelong(typedFor, gone, known, next)
     BY <4>1, TasksBelongKept
   <4> QED BY <1>1, <4>2 DEF known, next
  <3> QED BY <1>1, <1>4, <2>1, <3>5, <3>6, <3>7 DEF PineInv
 <2>4. CASE t.id \notin DOMAIN storedScripts
  <3>1. UNCHANGED <<pine, scripts>>
    BY <1>15, <2>4 DEF LoadAnswers
  <3> QED BY <1>1, <1>2, <1>3, <2>1, <3>1 DEF PineInv
 <2> QED BY <2>3, <2>4
<1>16. CASE DeleteReachesServer(n)
 <2>1. /\ t.stage = "delete" /\ Ends(n)
       /\ storedScripts' \in {storedScripts, Drop(storedScripts, {t.id})}
       /\ UNCHANGED <<scripts, pine, charted, published>>
   BY <1>16 DEF DeleteReachesServer
 <2>2. t.id \in ScriptId
   BY <1>7, <2>1 DEF PineStage, Unnamed
 <2>3. RowsBelong(typedFor, gone, storedScripts')
   BY <1>4, <2>1, <2>2, RowsBelongDropped
 <2> QED BY <1>1, <1>2, <1>3, <2>1, <2>3 DEF PineInv
<1>17. CASE StarReachesServer(n)
 <2>1. t.stage = "star" /\ UNCHANGED <<scripts, pine, charted, published>>
   BY <1>17 DEF StarReachesServer
 <2>2. t.id \in ScriptId
   BY <1>7, <2>1 DEF PineStage, Unnamed
 <2>3. CASE t.id \in DOMAIN storedScripts
  <3> DEFINE old == storedScripts[t.id]
             row == [old EXCEPT !.favorite = t.favorite]
             new == [t EXCEPT !.stage = "starred", !.source = old.source]
  <3>1. /\ storedScripts' = [storedScripts EXCEPT ![t.id].favorite = t.favorite]
        /\ tasks' = [tasks EXCEPT ![n].stage = "starred", ![n].source = old.source]
    BY <1>17, <2>3 DEF StarReachesServer
  <3>2. old \in ScriptRow /\ storedScripts = [x \in DOMAIN storedScripts |-> storedScripts[x]]
    BY <1>4, <2>3, PartialIs DEF RowsBelong
  <3>3. old.source \in Text /\ row \in ScriptRow /\ row.source = old.source
    BY <1>1, <3>2 DEF ScriptRow
  <3>4. Belongs(typedFor, gone, t.id, old.source)
    BY <1>4, <2>3 DEF RowsBelong
  <3>5. storedScripts' = [storedScripts EXCEPT ![t.id] = row]
    BY <3>1, <3>2
  <3>6. RowsBelong(typedFor, gone, storedScripts')
   <4> HIDE DEF row, old
   <4>1. storedScripts \in Partially(ScriptId, ScriptRow)
     BY <1>4 DEF RowsBelong
   <4>2. [storedScripts EXCEPT ![t.id] = row] \in Partially(ScriptId, ScriptRow)
     BY <2>3, <3>3, <4>1, EntryChanged
   <4>3. /\ DOMAIN storedScripts' = DOMAIN storedScripts
         /\ \A x \in DOMAIN storedScripts :
              storedScripts'[x] = IF x = t.id THEN row ELSE storedScripts[x]
     BY <3>2, <3>5
   <4> QED BY <1>4, <3>3, <3>4, <3>5, <4>2, <4>3 DEF RowsBelong
  <3>7. /\ new \in PineTask /\ new.id = t.id /\ new.source = old.source
        /\ new.stage \notin Unnamed
    BY <1>1, <3>3 DEF PineTask, PineStage, Unnamed
  <3>8. tasks' = [tasks EXCEPT ![n] = new]
    BY <1>1, <3>1, TaskChanges
  <3> HIDE DEF new, old
  <3>9. TaskBelongs(typedFor, gone, KnownScripts, new)
    BY <1>1, <2>2, <3>4, <3>7 DEF TaskBelongs
  <3>10. TasksBelong(typedFor, gone, KnownScripts, tasks')
    BY <1>1, <3>8, <3>9, TaskChanges
  <3> QED BY <1>1, <1>3, <2>1, <3>6, <3>10 DEF PineInv
 <2>4. CASE t.id \notin DOMAIN storedScripts
  <3>1. Ends(n) /\ UNCHANGED storedScripts
    BY <1>17, <2>4 DEF StarReachesServer
  <3> QED BY <1>1, <1>2, <1>3, <2>1, <3>1 DEF PineInv
 <2> QED BY <2>3, <2>4
<1>18. CASE StarAnswers(n)
 <2> DEFINE row == [source |-> t.source, favorite |-> t.favorite]
 <2>1. /\ t.stage = "starred" /\ Ends(n) /\ scripts' = Put(scripts, t.id, row)
       /\ UNCHANGED <<storedScripts, pine, charted, published>>
   BY <1>18 DEF StarAnswers
 <2>2. t.id \in ScriptId
   BY <1>7, <2>1 DEF PineStage, Unnamed
 <2>3. row \in ScriptRow /\ row.source = t.source
   BY <1>8
 <2> HIDE DEF row
 <2>4. /\ RowsBelong(typedFor', gone', scripts')
       /\ KnownScripts \subseteq KnownScripts'
   BY <1>1, <1>6, <2>1, <2>2, <2>3
 <2>5. /\ TasksBelong(typedFor', gone', KnownScripts', tasks')
       /\ EditorBelongs(typedFor', gone', KnownScripts', pine)
  <3> DEFINE known == KnownScripts'
             next == tasks'
  <3>1. /\ TasksBelong(typedFor, gone, known, tasks) /\ next = Drop(tasks, {n})
        /\ EditorBelongs(typedFor, gone, known, pine)
    BY <1>1, <2>1, <2>4, PineGrows DEF Ends
  <3> HIDE DEF known, next
  <3>2. TasksBelong(typedFor, gone, known, next)
    BY <3>1, TasksBelongKept
  <3> QED BY <1>1, <3>1, <3>2 DEF known, next
 <2> QED BY <1>1, <1>4, <2>1, <2>4, <2>5 DEF PineInv
<1> QED BY <1>5, <1>9, <1>10, <1>11, <1>12, <1>13, <1>14, <1>15, <1>16, <1>17, <1>18

(* The source of one script never ends up in another: each text in the      *)
(* list, at the server, on a chart or in the public store was typed with    *)
(* that script in the editor, in a draft, or for a script that past the     *)
(* list (savePineScriptAtom works on the id and source it was called with). *)
THEOREM SourcesBelong == PineSpec => []SourceBelongs
<1>1. PineInit => PineInv
 <2> SUFFICES ASSUME PineInit PROVE PineInv
   OBVIOUS
 <2>1. /\ scripts = None /\ storedScripts = None /\ charted = None /\ published = None
       /\ tasks = None /\ typedFor = <<>> /\ gone = {} /\ backend \in BOOLEAN /\ pineSteps = 0
       /\ pine = [id |-> Nothing, source |-> 0]
   BY DEF PineInit, DefaultSource
 <2>2. /\ None \in Partially(ScriptId, ScriptRow) /\ None \in Partially(ScriptId, Text)
       /\ None \in Partially(Nat, PineTask) /\ DOMAIN None = {}
   BY NonePartial
 <2>3. typedFor \in Seq(ScriptOrDraft) /\ Len(typedFor) = 0
   BY <2>1
 <2>4. EditorBelongs(typedFor, gone, KnownScripts, pine)
   BY <2>1, <2>3 DEF EditorBelongs, Belongs, ScriptOrDraft, Text
 <2> QED BY <2>1, <2>2, <2>3, <2>4 DEF PineInv, RowsBelong, TextsBelong, TasksBelong
<1>2. PineInv /\ [PineNext]_pineVars => PineInv'
 <2> SUFFICES ASSUME PineInv, [PineNext]_pineVars PROVE PineInv'
   OBVIOUS
 <2>1. CASE \/ TypeSource \/ NewPineScript \/ SessionChanges
            \/ \E kind \in {"save", "run", "publish"} : SavesCurrent(kind)
            \/ \E id \in ScriptId : LoadPineScript(id) \/ AddCustomIndicator(id)
   BY <2>1, PineEditorKeepsInv
 <2>2. CASE \/ ApplyRemotePineScripts
            \/ \E id \in ScriptId : DeletePineScript(id) \/ TogglePineFavorite(id)
   BY <2>2, PineListKeepsInv
 <2>3. ASSUME NEW n \in DOMAIN tasks,
              \/ Compiled(n) \/ Defined(n) \/ PutReachesServer(n) \/ SaveAnswers(n)
              \/ SaveFails(n) \/ AddsSaved(n) \/ Publishes(n) \/ LoadAnswers(n)
              \/ DeleteReachesServer(n) \/ StarReachesServer(n) \/ StarAnswers(n)
       PROVE  PineInv'
   BY <2>3, PineTasksKeepInv
 <2>4. CASE UNCHANGED pineVars
   BY <2>4 DEF pineVars, PineInv, KnownScripts
 <2> QED BY <2>1, <2>2, <2>3, <2>4 DEF PineNext
<1>3. PineInv => SourceBelongs
 <2> SUFFICES ASSUME PineInv PROVE SourceBelongs
   OBVIOUS
 <2>1. typedFor \in Seq(ScriptOrDraft) /\ DOMAIN typedFor = 1..Len(typedFor)
       /\ \A i \in 1..Len(typedFor) : i \in Nat
   BY DEF PineInv
 <2>2. ASSUME NEW id, NEW source, Belongs(typedFor, gone, id, source), source \in DOMAIN typedFor
       PROVE  typedFor[source] \in {id, Nothing} \union gone
   BY <2>1, <2>2 DEF Belongs
 <2> QED BY <2>2 DEF PineInv, SourceBelongs, RowsBelong, TextsBelong
<1> QED BY <1>1, <1>2, <1>3, PTL DEF PineSpec


(***************************************************************************)
(* Saved layouts.  The server's log is the reference: an answer that was    *)
(* not heard yet tells of one of its commits and of what that did to the    *)
(* rows before it, which the browser does to its own rows when it hears.    *)
(***************************************************************************)
IsCall(call) ==
  /\ call = [op |-> call.op, id |-> call.id, row |-> call.row, at |-> call.at, n |-> call.n,
             act |-> call.act]
  /\ call.op \in {"create", "update", "delete", "list"}
(* log is passed so that the commits that follow leave an answer true. *)
TellsOf(call, log) ==
  call.n # 0 =>
    /\ call.n \in 1..Len(log)
    /\ call.op # "list" =>
         /\ call.n - 1 \in 1..Len(log)
         /\ log[call.n] = RowsAfter(log[call.n - 1], call, call.id)
         /\ call.op = "update" => call.id \in DOMAIN log[call.n - 1]
LayoutsTypeOK ==
  /\ saved = [rows |-> saved.rows, active |-> saved.active, heard |-> saved.heard,
              crossed |-> saved.crossed]
  /\ served = [log |-> served.log, last |-> served.last]
  /\ \E S : served.log \in Seq(S)
  /\ saved.heard \in 1..Len(served.log)
  /\ \A call \in calls : IsCall(call)
LayoutsInv ==
  /\ LayoutsTypeOK
  /\ \A call \in calls : TellsOf(call, served.log)
  /\ LayoutsFollowServer

LEMMA LayoutsStart == LayoutsInit => LayoutsInv
<1> SUFFICES ASSUME LayoutsInit PROVE LayoutsInv
  OBVIOUS
<1>1. PICK t \in Snapshot : served = [log |-> <<Put(None, 1, Row(t, TRUE))>>, last |-> 1]
  BY DEF LayoutsInit
<1>2. /\ saved = [rows |-> ServerRows, active |-> Nothing, heard |-> 1, crossed |-> FALSE]
      /\ calls = {}
  BY DEF LayoutsInit
<1>3. PICK rows : rows = Put(None, 1, Row(t, TRUE))
  OBVIOUS
<1>4. /\ served.log = <<rows>> /\ served = [log |-> served.log, last |-> served.last]
  BY <1>1, <1>3
<1>5. Len(<<rows>>) = 1 /\ <<rows>>[1] = rows /\ <<rows>> \in Seq({rows})
  OBVIOUS
<1>6. /\ saved = [rows |-> saved.rows, active |-> saved.active, heard |-> saved.heard,
                  crossed |-> saved.crossed]
      /\ saved.heard = 1 /\ saved.rows = ServerRows
  BY <1>2
<1>7. /\ \E S : served.log \in Seq(S)
      /\ saved.heard \in 1..Len(served.log)
      /\ \A call \in calls : IsCall(call)
 <2>1. \E S : <<rows>> \in Seq(S)
   BY <1>5
 <2> QED BY <1>2, <1>4, <1>5, <1>6, <2>1
<1>8. LayoutsTypeOK
  BY <1>4, <1>6, <1>7 DEF LayoutsTypeOK
<1> QED BY <1>2, <1>4, <1>5, <1>6, <1>8 DEF LayoutsInv, LayoutsFollowServer, ServerRows

LEMMA LogGrows ==
  ASSUME NEW S, NEW old \in Seq(S), NEW rows, NEW new, new = Append(old, rows)
  PROVE  /\ \E T : new \in Seq(T)
         /\ Len(new) = Len(old) + 1 /\ new[Len(old) + 1] = rows
         /\ \A i \in 1..Len(old) : new[i] = old[i]
<1>1. old \in Seq(S \union {rows}) /\ rows \in S \union {rows}
  OBVIOUS
<1>2. Append(old, rows) \in Seq(S \union {rows})
  BY <1>1
<1> QED BY <1>2

LEMMA ServeCallKeeps ==
  ASSUME LayoutsInv, NEW call \in calls, ServeCall(call)
  PROVE  LayoutsInv'
<1> DEFINE id == IF call.op = "create" THEN served.last + 1 ELSE call.id
           rows == RowsAfter(ServerRows, call, id)
           log == IF Commits(call) THEN Append(served.log, rows) ELSE served.log
           n == IF Commits(call) \/ call.op = "list" THEN Len(log) ELSE 0
           answer == [op |-> call.op, id |-> id, row |-> call.row, at |-> "answered",
                      act |-> call.act, n |-> n]
<1>1. /\ served' = [log |-> log, last |-> IF call.op = "create" THEN id ELSE served.last]
      /\ calls' = (calls \ {call}) \union (IF call.at = "sent" THEN {answer} ELSE {})
      /\ UNCHANGED saved
  BY DEF ServeCall
<1>2. PICK S : served.log \in Seq(S)
  BY DEF LayoutsInv, LayoutsTypeOK
<1>3. IsCall(call) /\ TellsOf(call, served.log) /\ saved.heard \in 1..Len(served.log)
  BY DEF LayoutsInv, LayoutsTypeOK
<1>4. Len(served.log) \in Nat /\ Len(served.log) > 0
  BY <1>2, <1>3
<1>5. /\ \E T : log \in Seq(T)
      /\ Len(log) \in Nat /\ Len(log) >= Len(served.log)
      /\ \A i \in 1..Len(served.log) : log[i] = served.log[i]
      /\ Commits(call) => Len(log) = Len(served.log) + 1 /\ log[Len(log)] = rows
 <2>1. CASE Commits(call)
  <3>1. log = Append(served.log, rows)
    BY <2>1
  <3> HIDE DEF rows, log
  <3>2. /\ \E T : log \in Seq(T)
        /\ Len(log) = Len(served.log) + 1 /\ log[Len(served.log) + 1] = rows
        /\ \A i \in 1..Len(served.log) : log[i] = served.log[i]
    BY ONLY <1>2, <3>1, LogGrows
  <3> QED BY <1>4, <3>2
 <2>2. CASE ~ Commits(call)
   BY <1>2, <1>4, <2>2
 <2> QED BY <2>1, <2>2
<1> HIDE DEF log
<1>6. /\ answer.op = call.op /\ answer.row = call.row /\ answer.id = id /\ answer.n = n
      /\ IsCall(answer)
 <2> HIDE DEF id, n
 <2> QED BY <1>3 DEF IsCall
<1>7. TellsOf(answer, log)
 <2>1. CASE call.op = "list"
  <3>1. ~ Commits(call) /\ n = Len(log)
    BY <2>1 DEF Commits
  <3> HIDE DEF id, n, answer
  <3>2. n \in 1..Len(log) /\ answer.op = "list"
    BY <1>4, <1>5, <1>6, <2>1, <3>1
  <3> QED BY <1>6, <3>2 DEF TellsOf
 <2>2. CASE call.op # "list" /\ ~ Commits(call)
  <3>1. n = 0
    BY <2>2
  <3> QED BY <1>6, <3>1 DEF TellsOf
 <2>3. CASE call.op # "list" /\ Commits(call)
  <3>1. n = Len(served.log) + 1 /\ n - 1 \in 1..Len(log) /\ n \in 1..Len(log)
    BY <1>4, <1>5, <2>3
  <3>2. log[n] = rows /\ log[n - 1] = ServerRows
    BY <1>4, <1>5, <2>3, <3>1 DEF ServerRows
  <3>3. rows = RowsAfter(ServerRows, answer, id)
    BY <1>6 DEF RowsAfter
  <3>4. call.op = "update" => id \in DOMAIN ServerRows
    BY <2>3 DEF Commits
  <3> HIDE DEF id, n, rows, answer
  <3> QED BY <1>6, <3>1, <3>2, <3>3, <3>4 DEF TellsOf
 <2> QED BY <2>1, <2>2, <2>3
<1>8. ASSUME NEW c \in calls PROVE TellsOf(c, log)
 <2>1. TellsOf(c, served.log)
   BY <1>8 DEF LayoutsInv
 <2>2. 1..Len(served.log) \subseteq 1..Len(log)
   BY <1>4, <1>5
 <2> QED BY <1>5, <2>1, <2>2 DEF TellsOf
<1>9. \A c \in calls' : (c \in calls \/ c = answer) /\ IsCall(c)
  BY <1>1, <1>6 DEF LayoutsInv, LayoutsTypeOK
<1> HIDE DEF answer
<1>10. /\ served'.log = log /\ served' = [log |-> served'.log, last |-> served'.last]
  BY <1>1
<1>11. LayoutsTypeOK'
  BY <1>1, <1>3, <1>4, <1>5, <1>9, <1>10 DEF LayoutsInv, LayoutsTypeOK
<1>12. LayoutsFollowServer'
  BY <1>1, <1>3, <1>5, <1>10 DEF LayoutsInv, LayoutsFollowServer
<1> QED BY <1>7, <1>8, <1>9, <1>10, <1>11, <1>12 DEF LayoutsInv

LEMMA HearAnswerKeeps ==
  ASSUME LayoutsInv, NEW call \in calls, HearAnswer(call)
  PROVE  LayoutsInv'
<1>1. calls' = calls \ {call} /\ UNCHANGED served
  BY DEF HearAnswer
<1>2. IsCall(call) /\ TellsOf(call, served.log) /\ saved.heard \in 1..Len(served.log)
  BY DEF LayoutsInv, LayoutsTypeOK
<1>3. SUFFICES /\ saved' = [rows |-> saved'.rows, active |-> saved'.active, heard |-> saved'.heard,
                            crossed |-> saved'.crossed]
               /\ saved'.heard \in 1..Len(served.log)
               /\ saved'.crossed \/ saved'.rows = served.log[saved'.heard]
  BY <1>1 DEF LayoutsInv, LayoutsTypeOK, LayoutsFollowServer
<1>4. CASE call.n = 0
  BY <1>4 DEF HearAnswer, LayoutsInv, LayoutsTypeOK, LayoutsFollowServer
<1>5. CASE call.n # 0 /\ call.op = "list"
 <2>1. \E active : saved' = [rows |-> served.log[call.n], active |-> active, heard |-> call.n,
                             crossed |-> FALSE]
   BY <1>5 DEF HearAnswer, HearsList
 <2> QED BY <1>2, <1>5, <2>1 DEF TellsOf
<1>6. CASE call.n # 0 /\ call.op # "list"
 <2> DEFINE mine == RowsAfter(saved.rows, call, call.id)
 <2>1. HearsWrite(call)
   BY <1>6 DEF HearAnswer
 <2>2. /\ call.n \in 1..Len(served.log)
       /\ call.n - 1 \in 1..Len(served.log)
       /\ served.log[call.n] = RowsAfter(served.log[call.n - 1], call, call.id)
       /\ call.op = "update" => call.id \in DOMAIN served.log[call.n - 1]
   BY <1>2, <1>6 DEF TellsOf
 <2>3. \E rows, active :
         /\ saved' = Heard(call, rows, active)
         /\ (call.op = "update" =>
               call.id \in DOMAIN saved.rows /\ ~ KeepsFlag(saved.rows, call.id, call.row)) => rows = mine
  <3>1. CASE call.op = "create"
    BY <2>1, <3>1 DEF HearsWrite, RowsAfter
  <3>2. CASE call.op = "update"
   <4>1. saved' = Heard(call, ReplaceLocal(saved.rows, call.id, call.row), saved.active)
     BY <2>1, <3>2 DEF HearsWrite
   <4>2. ASSUME call.id \in DOMAIN saved.rows, ~ KeepsFlag(saved.rows, call.id, call.row)
         PROVE  ReplaceLocal(saved.rows, call.id, call.row) = mine
    <5>1. DOMAIN saved.rows \union {call.id} = DOMAIN saved.rows
      BY <4>2
    <5>2. mine = WithRow(saved.rows, call.id, call.row)
      BY <3>2 DEF RowsAfter
    <5> HIDE DEF mine
    <5> QED BY <4>2, <5>1, <5>2 DEF ReplaceLocal, WithRow
   <4> HIDE DEF mine
   <4> QED BY <3>2, <4>1, <4>2
  <3>3. CASE call.op = "delete"
    BY <2>1, <3>3 DEF HearsWrite, RowsAfter
  <3> QED BY <1>2, <1>6, <3>1, <3>2, <3>3 DEF IsCall
 <2>4. PICK rows, active :
         /\ saved' = Heard(call, rows, active)
         /\ (call.op = "update" =>
               call.id \in DOMAIN saved.rows /\ ~ KeepsFlag(saved.rows, call.id, call.row)) => rows = mine
   BY <2>3
 <2>5. /\ saved' = [rows |-> rows, active |-> active, heard |-> call.n,
                    crossed |-> \/ saved.crossed \/ call.n # saved.heard + 1
                                \/ call.op = "update" /\ KeepsFlag(saved.rows, call.id, call.row)]
   BY <2>4 DEF Heard
 <2>6. ASSUME ~ saved.crossed, call.n = saved.heard + 1,
              ~ (call.op = "update" /\ KeepsFlag(saved.rows, call.id, call.row))
       PROVE  rows = served.log[call.n]
  <3>1. saved.rows = served.log[call.n - 1]
    BY <1>2, <2>6 DEF LayoutsInv, LayoutsFollowServer
  <3>2. rows = RowsAfter(saved.rows, call, call.id)
   <4> HIDE DEF mine
   <4>1. rows = mine
     BY <2>2, <2>4, <2>6, <3>1
   <4> QED BY <4>1 DEF mine
  <3> QED BY <2>2, <2>6, <3>1, <3>2
 <2>7. /\ saved'.rows = rows /\ saved'.heard = call.n
       /\ saved' = [rows |-> saved'.rows, active |-> saved'.active, heard |-> saved'.heard,
                    crossed |-> saved'.crossed]
   BY <2>5
 <2>8. saved'.crossed = (\/ saved.crossed \/ call.n # saved.heard + 1
                         \/ call.op = "update" /\ KeepsFlag(saved.rows, call.id, call.row))
   BY ONLY <2>5, Zenon
 <2> QED BY <2>2, <2>6, <2>7, <2>8
<1> QED BY <1>4, <1>5, <1>6

LEMMA LayoutsStay ==
  ASSUME LayoutsInv, saved' = saved \/ \E id : saved' = [saved EXCEPT !.active = id],
         UNCHANGED served,
         \A c \in calls' : c \in calls \/ (IsCall(c) /\ TellsOf(c, served.log))
  PROVE  LayoutsInv'
<1>1. /\ saved' = [rows |-> saved'.rows, active |-> saved'.active, heard |-> saved'.heard,
                   crossed |-> saved'.crossed]
      /\ saved'.rows = saved.rows /\ saved'.heard = saved.heard
  BY DEF LayoutsInv, LayoutsTypeOK
<1>2. saved'.crossed = saved.crossed
  BY Zenon DEF LayoutsInv, LayoutsTypeOK
<1>3. LayoutsTypeOK' /\ LayoutsFollowServer'
  BY <1>1, <1>2 DEF LayoutsInv, LayoutsTypeOK, LayoutsFollowServer
<1> QED BY <1>3 DEF LayoutsInv

LEMMA CallsKeep ==
  ASSUME LayoutsInv, NEW op \in {"create", "update", "delete", "list"}, NEW id, NEW row,
         Calls(op, id, row)
  PROVE  LayoutsInv'
<1> DEFINE c == [op |-> op, id |-> id, row |-> row, at |-> "sent", n |-> 0, act |-> layoutSteps']
<1>1. calls' = calls \union {c} /\ UNCHANGED <<saved, served>>
  BY DEF Calls
<1>2. IsCall(c) /\ c.n = 0
  BY DEF IsCall
<1>3. TellsOf(c, served.log)
  BY <1>2 DEF TellsOf
<1> HIDE DEF c
<1> QED BY <1>1, <1>2, <1>3, LayoutsStay

LEMMA GiveUpKeeps ==
  ASSUME LayoutsInv, NEW call \in calls, GiveUp(call)
  PROVE  LayoutsInv'
<1> DEFINE c == [call EXCEPT !.at = "abandoned"]
<1>1. IsCall(call) /\ TellsOf(call, served.log)
  BY DEF LayoutsInv, LayoutsTypeOK
<1>2. /\ c = [op |-> call.op, id |-> call.id, row |-> call.row, at |-> "abandoned", n |-> call.n,
              act |-> call.act]
      /\ IsCall(c)
  BY <1>1 DEF IsCall
<1>3. TellsOf(c, served.log)
  BY <1>1, <1>2 DEF TellsOf, RowsAfter
<1>4. \A d \in calls' : d \in calls \/ d = c
  BY DEF GiveUp
<1>5. UNCHANGED <<saved, served>>
  BY DEF GiveUp
<1> HIDE DEF c
<1> QED BY <1>2, <1>3, <1>4, <1>5, LayoutsStay

LEMMA LayoutsKeep == LayoutsInv /\ [LayoutsNext]_layoutVars => LayoutsInv'
<1> SUFFICES ASSUME LayoutsInv, [LayoutsNext]_layoutVars PROVE LayoutsInv'
  OBVIOUS
<1>1. ASSUME NEW call \in calls, ServeCall(call) \/ HearAnswer(call) \/ GiveUp(call) PROVE LayoutsInv'
  BY <1>1, ServeCallKeeps, HearAnswerKeeps, GiveUpKeeps
<1>2. ASSUME NEW call \in calls, NeverArrives(call) PROVE LayoutsInv'
  BY <1>2, LayoutsStay DEF NeverArrives
<1>3. ASSUME NEW s \in Snapshot, Draws(s) PROVE LayoutsInv'
  BY <1>3, LayoutsStay DEF Draws
<1>4. ASSUME NEW id \in 1..MaxLayouts, LoadLayout(id) PROVE LayoutsInv'
  BY <1>4, LayoutsStay DEF LoadLayout
<1>5. CASE LoadDefaultLayout
  BY <1>5, LayoutsStay DEF LoadDefaultLayout
<1>6. CASE AskForLayouts
  BY <1>6, CallsKeep DEF AskForLayouts
<1>7. CASE CreateCurrentLayout
  BY <1>7, CallsKeep DEF CreateCurrentLayout
<1>8. CASE OverwriteActiveLayout
  BY <1>8, CallsKeep DEF OverwriteActiveLayout
<1>9. CASE MakeActiveLayoutDefault
  BY <1>9, CallsKeep DEF MakeActiveLayoutDefault
<1>10. CASE AskToDelete
  BY <1>10, LayoutsStay DEF AskToDelete
<1>11. ASSUME NEW accepted \in BOOLEAN, DeleteActiveLayout(accepted) PROVE LayoutsInv'
  BY <1>11, LayoutsStay, CallsKeep DEF DeleteActiveLayout
<1>12. CASE UNCHANGED layoutVars
  BY <1>12, LayoutsStay DEF layoutVars
<1> QED
  BY <1>1, <1>2, <1>3, <1>4, <1>5, <1>6, <1>7, <1>8, <1>9, <1>10, <1>11, <1>12 DEF LayoutsNext

THEOREM LayoutsAreTheServers == LayoutsSpec => []LayoutsFollowServer
<1>1. LayoutsInv => LayoutsFollowServer
  BY DEF LayoutsInv
<1> QED BY <1>1, LayoutsStart, LayoutsKeep, PTL DEF LayoutsSpec

(***************************************************************************)
(* ChartTabs.  What is not dirty came from the server: its revision is not *)
(* past the server's, and at the same revision its content is the same.    *)
(* A request that is not superseded was sent as the user who is signed in. *)
(***************************************************************************)
IsDocument(d) ==
  /\ d = [tasks |-> d.tasks, active |-> d.active, revision |-> d.revision]
  /\ d.revision \in Nat
IsPending(p) == p = [uid |-> p.uid, doc |-> p.doc] /\ IsDocument(p.doc)
IsDrain(d) ==
  /\ d = [generation |-> d.generation, current |-> d.current, at |-> d.at, as |-> d.as,
          latest |-> d.latest, expected |-> d.expected]
  /\ d.generation \in Nat /\ IsPending(d.current) /\ IsDocument(d.latest)
  /\ d.as \in TabUser \union {Nothing}
IsQueue(q) ==
  /\ q = [timer |-> q.timer, pending |-> q.pending, drain |-> q.drain, uid |-> q.uid,
          revision |-> q.revision, generation |-> q.generation]
  /\ q.generation \in Nat
  /\ q.pending # Nothing => IsPending(q.pending)
  /\ q.drain # Nothing => IsDrain(q.drain) /\ q.drain.generation <= q.generation
IsTabs(t) ==
  /\ t = [doc |-> t.doc, ready |-> t.ready, dirty |-> t.dirty, status |-> t.status, stale |-> t.stale,
          restore |-> t.restore, holder |-> t.holder]
  /\ t.dirty \in BOOLEAN /\ IsDocument(t.doc)
  /\ t.holder \in TabUser \union {Nothing}
IsStored(s) == DOMAIN s = TabUser /\ s = [u \in TabUser |-> s[u]] /\ \A u \in TabUser : IsDocument(s[u])
IsKept(k) ==
  /\ k = [pending |-> k.pending, conflict |-> k.conflict]
  /\ \A u \in DOMAIN k.pending : IsDocument(k.pending[u])
IsLogin(l) ==
  /\ l = [uid |-> l.uid, ready |-> l.ready, boot |-> l.boot]
  /\ l.uid \in TabUser \union {Nothing} /\ l.boot \in {Nothing, l.uid}

(* A request of the queue's generation was sent as the user signed in now. *)
QueueIsTheirs(q, uid) ==
  /\ q.uid \in {Nothing, uid}
  /\ q.drain # Nothing /\ q.drain.generation = q.generation => q.drain.as \in {Nothing, uid}
CleanIsServed(t, s) ==
  t.holder # Nothing /\ ~ t.dirty =>
    /\ t.doc.revision <= s[t.holder].revision
    /\ t.doc.revision = s[t.holder].revision =>
         s[t.holder].tasks = <<>> \/ SameContent(t.doc, s[t.holder])

TabsInv ==
  /\ IsTabs(tabs) /\ IsQueue(sync) /\ IsStored(stored) /\ IsKept(kept) /\ IsLogin(login)
  /\ QueueIsTheirs(sync, login.uid)
  /\ CleanIsServed(tabs, stored)

(* Editing a document leaves it a document.                                 *)
LEMMA EditsAreDocuments ==
  ASSUME NEW d, IsDocument(d), NEW id, NEW other, NEW edge, NEW work
  PROVE  /\ IsDocument(UpdateChartTask(d, id, work))
         /\ IsDocument(AddChartTask(d, work))
         /\ IsDocument(ActivateChartTask(d, id))
         /\ IsDocument(CloseChartTask(d, id))
         /\ IsDocument(MoveChartTask(d, id, other, edge))
         /\ IsDocument(CreateInitialChartTaskTabs(work))
         /\ IsDocument(NormalizeChartTaskTabs(d, work))
<1>1. IsDocument(UpdateChartTask(d, id, work))
  BY DEF UpdateChartTask, IsDocument
<1>2. IsDocument(AddChartTask(d, work))
  BY DEF AddChartTask, IsDocument
<1>3. IsDocument(ActivateChartTask(d, id))
  BY DEF ActivateChartTask, IsDocument
<1>4. IsDocument(CloseChartTask(d, id))
  BY DEF CloseChartTask, IsDocument
<1>5. IsDocument(MoveChartTask(d, id, other, edge))
  BY DEF MoveChartTask, IsDocument
<1>6. IsDocument(CreateInitialChartTaskTabs(work))
  BY DEF CreateInitialChartTaskTabs, IsDocument
<1>7. IsDocument(NormalizeChartTaskTabs(d, work))
  BY <1>6 DEF NormalizeChartTaskTabs
<1> QED BY <1>1, <1>2, <1>3, <1>4, <1>5, <1>6, <1>7

LEMMA TabsStart == TabsInit => TabsInv
<1> SUFFICES ASSUME TabsInit PROVE TabsInv
  OBVIOUS
<1>1. PICK w \in Arrangement :
        tabs = [doc |-> CreateInitialChartTaskTabs(<<w, Nothing>>), ready |-> TRUE, dirty |-> TRUE,
                status |-> "pending", stale |-> TRUE, restore |-> FALSE, holder |-> Nothing]
  BY DEF TabsInit
<1>2. IsDocument(CreateInitialChartTaskTabs(<<w, Nothing>>))
  BY DEF CreateInitialChartTaskTabs, IsDocument
<1>3. IsTabs(tabs) /\ CleanIsServed(tabs, stored)
  BY <1>1, <1>2 DEF IsTabs, CleanIsServed
<1>4. IsStored(stored)
  BY DEF TabsInit, IsStored, IsDocument
<1>5. IsKept(kept)
  BY NonePartial DEF TabsInit, IsKept
<1>6. IsQueue(sync) /\ IsLogin(login) /\ QueueIsTheirs(sync, login.uid)
  BY DEF TabsInit, IsQueue, IsLogin, QueueIsTheirs
<1> QED BY <1>3, <1>4, <1>5, <1>6 DEF TabsInv

LEMMA LocalEditsAreDirty ==
  ASSUME NEW t, IsTabs(t), NEW doc, IsDocument(doc), NEW s
  PROVE  IsTabs(SetLocalDocument(t, doc)) /\ CleanIsServed(SetLocalDocument(t, doc), s)
<1> DEFINE r == SetLocalDocument(t, doc)
<1>1. r = [t EXCEPT !.doc = doc, !.dirty = TRUE, !.status = "pending", !.stale = TRUE]
  BY DEF SetLocalDocument
<1> HIDE DEF r
<1>2. IsTabs(r) /\ CleanIsServed(r, s)
  BY <1>1 DEF IsTabs, CleanIsServed
<1> QED BY <1>2 DEF r

LEMMA QueueResets ==
  ASSUME NEW q, IsQueue(q), NEW uid
  PROVE  IsQueue(ResetQueue(q)) /\ QueueIsTheirs(ResetQueue(q), uid)
<1> DEFINE r == ResetQueue(q)
<1> DEFINE g == q.generation + 1
<1>1. r = [q EXCEPT !.generation = g, !.timer = FALSE, !.pending = Nothing, !.uid = Nothing,
                    !.revision = Nothing]
  BY DEF ResetQueue
<1>2. q.drain # Nothing => IsDrain(q.drain) /\ q.drain.generation <= q.generation
  BY DEF IsQueue
<1>3. q.drain # Nothing => q.drain.generation \in Nat
  BY <1>2 DEF IsDrain
<1>4. q.generation \in Nat
  BY DEF IsQueue
<1> HIDE DEF r
<1>a. g \in Nat /\ g > q.generation
  BY <1>4
<1> HIDE DEF g
<1>b. /\ r = [timer |-> r.timer, pending |-> r.pending, drain |-> r.drain, uid |-> r.uid,
              revision |-> r.revision, generation |-> r.generation]
      /\ r.pending = Nothing /\ r.drain = q.drain /\ r.uid = Nothing /\ r.generation = g
  BY <1>1 DEF IsQueue
<1>5. IsQueue(r)
  BY <1>b, <1>2, <1>3, <1>4, <1>a DEF IsQueue
<1>6. QueueIsTheirs(r, uid)
  BY <1>b, <1>2, <1>3, <1>4, <1>a DEF QueueIsTheirs
<1> QED BY <1>5, <1>6 DEF r

LEMMA QueueTakes ==
  ASSUME NEW q, IsQueue(q), NEW uid, QueueIsTheirs(q, uid), NEW doc, IsDocument(doc)
  PROVE  IsQueue(Enqueue(q, uid, doc)) /\ QueueIsTheirs(Enqueue(q, uid, doc), uid)
<1>1. ~ (q.uid # Nothing /\ q.uid # uid)
  BY DEF QueueIsTheirs
<1>2. Enqueue(q, uid, doc) =
        [q EXCEPT !.uid = uid, !.pending = [uid |-> uid, doc |-> doc],
                  !.revision = IF @ = Nothing THEN doc.revision ELSE @,
                  !.timer = @ \/ q.drain = Nothing]
  BY <1>1 DEF Enqueue
<1>3. IsPending([uid |-> uid, doc |-> doc])
  BY DEF IsPending
<1> QED BY <1>2, <1>3 DEF IsQueue, QueueIsTheirs

LEMMA QueueSends ==
  ASSUME IsLogin(login), NEW q, IsQueue(q), q.pending # Nothing, q.uid \in {Nothing, login.uid}
  PROVE  IsQueue(Dispatch(q)) /\ QueueIsTheirs(Dispatch(q), login.uid)
<1> DEFINE d == [generation |-> q.generation, current |-> q.pending, at |-> "put", as |-> login.uid,
                 latest |-> q.pending.doc,
                 expected |-> IF q.revision = Nothing THEN q.pending.doc.revision ELSE q.revision]
<1>1. IsDrain(d) /\ d.generation = q.generation /\ d.as = login.uid
  BY DEF IsDrain, IsQueue, IsPending, IsLogin
<1>2. Dispatch(q) = [q EXCEPT !.pending = Nothing, !.drain = d]
  BY DEF Dispatch
<1> DEFINE r == Dispatch(q)
<1> HIDE DEF d
<1>3. r = [timer |-> q.timer, pending |-> Nothing, drain |-> d, uid |-> q.uid,
           revision |-> q.revision, generation |-> q.generation]
  BY <1>2 DEF IsQueue
<1>4. q.generation \in Nat
  BY DEF IsQueue
<1> HIDE DEF r
<1>5. IsQueue(r)
  BY <1>1, <1>3, <1>4 DEF IsQueue
<1>6. QueueIsTheirs(r, login.uid)
  BY <1>1, <1>3 DEF QueueIsTheirs
<1> QED BY <1>5, <1>6 DEF r

LEMMA QueueRests ==
  ASSUME NEW q, IsQueue(q), NEW uid, q.uid \in {Nothing, uid}
  PROVE  IsQueue(FlushFinished(q)) /\ QueueIsTheirs(FlushFinished(q), uid)
<1> DEFINE r == FlushFinished(q)
<1>1. PICK on : r = [q EXCEPT !.drain = Nothing, !.timer = on]
  BY DEF FlushFinished
<1>2. r = [timer |-> on, pending |-> q.pending, drain |-> Nothing, uid |-> q.uid,
           revision |-> q.revision, generation |-> q.generation]
  BY <1>1 DEF IsQueue
<1> HIDE DEF r
<1>3. IsQueue(r)
  BY <1>2 DEF IsQueue
<1>4. QueueIsTheirs(r, uid)
  BY <1>2 DEF QueueIsTheirs
<1> QED BY <1>3, <1>4 DEF r

LEMMA QueueRetains ==
  ASSUME NEW q, IsQueue(q), NEW doc, IsDocument(doc)
  PROVE  IsQueue(Retain(q, doc)) /\ Retain(q, doc).uid = q.uid
<1>1. IsPending([uid |-> q.drain.current.uid, doc |-> doc])
  BY DEF IsPending
<1> QED BY <1>1 DEF Retain, IsQueue

LEMMA KeptTakes ==
  ASSUME NEW k, IsKept(k), NEW u, NEW doc, IsDocument(doc)
  PROVE  IsKept([k EXCEPT !.pending = Put(@, u, doc)]) /\ IsKept([k EXCEPT !.conflict = Put(@, u, doc)])
BY DEF IsKept, Put

LEMMA KeptForgets ==
  ASSUME NEW k, IsKept(k), NEW u
  PROVE  /\ IsKept([k EXCEPT !.pending = Drop(@, {u})])
         /\ IsKept([k EXCEPT !.pending = Drop(@, {u}), !.conflict = Drop(@, {u})])
<1> DEFINE f == Drop(k.pending, {u})
           r == [k EXCEPT !.pending = Drop(@, {u})]
           s == [k EXCEPT !.pending = Drop(@, {u}), !.conflict = Drop(@, {u})]
<1>1. /\ r = [k EXCEPT !.pending = f]
      /\ s = [k EXCEPT !.pending = f, !.conflict = Drop(k.conflict, {u})]
  BY DEF IsKept
<1>2. \A x \in DOMAIN f : IsDocument(f[x])
  BY DEF IsKept, Drop
<1> HIDE DEF f, r, s
<1>3. IsKept(r) /\ IsKept(s)
  BY <1>1, <1>2 DEF IsKept
<1> QED BY <1>3 DEF r, s

(* A version of the server's document that is another's, or the next one.   *)
LEMMA NextVersionKeeps ==
  ASSUME IsTabs(tabs), IsStored(stored), CleanIsServed(tabs, stored),
         NEW u \in TabUser, NEW doc, IsDocument(doc), doc.revision = stored[u].revision + 1
  PROVE  /\ IsStored([stored EXCEPT ![u] = doc])
         /\ CleanIsServed(tabs, [stored EXCEPT ![u] = doc])
<1> DEFINE s == [stored EXCEPT ![u] = doc]
<1>1. /\ DOMAIN s = TabUser /\ s = [v \in TabUser |-> s[v]]
      /\ \A v \in TabUser : s[v] = IF v = u THEN doc ELSE stored[v]
  BY DEF IsStored
<1>2. \A v \in TabUser : stored[v].revision \in Nat
  BY DEF IsStored, IsDocument
<1> HIDE DEF s
<1>3. IsStored(s)
  BY <1>1 DEF IsStored
<1>4. tabs.doc.revision \in Nat /\ tabs.holder \in TabUser \union {Nothing}
  BY DEF IsTabs, IsDocument
<1>5. ASSUME tabs.holder # Nothing, ~ tabs.dirty, tabs.holder = u
      PROVE  tabs.doc.revision < s[tabs.holder].revision
  BY <1>1, <1>2, <1>4, <1>5 DEF CleanIsServed
<1>6. CleanIsServed(tabs, s)
  BY <1>1, <1>2, <1>4, <1>5 DEF CleanIsServed
<1> QED BY <1>3, <1>6 DEF s

(* The document is edited, or only looked at.                               *)
LEMMA EditingKeeps ==
  ASSUME TabsInv, NEW next, IsDocument(next), Edited(next)
  PROVE  TabsInv'
<1>1. /\ tabs' = SetLocalDocument(tabs, next) /\ UNCHANGED <<sync, kept, login, stored>>
  BY DEF Edited, UNCHANGEDQueue
<1>2. IsTabs(tabs') /\ CleanIsServed(tabs', stored)
  BY <1>1, LocalEditsAreDirty DEF TabsInv
<1> QED BY <1>1, <1>2 DEF TabsInv

LEMMA ShownIsKept ==
  ASSUME TabsInv, IsTabs(tabs'), tabs'.doc = tabs.doc, tabs'.dirty = tabs.dirty,
         tabs'.holder = tabs.holder
  PROVE  CleanIsServed(tabs', stored)
BY DEF TabsInv, CleanIsServed

LEMMA ArrangingKeeps ==
  ASSUME TabsInv, NEW w, Arranges(w)
  PROVE  TabsInv'
<1>1. /\ tabs' = [tabs EXCEPT !.stale = TRUE] /\ UNCHANGED <<sync, kept, login, stored>>
  BY DEF Arranges, UNCHANGEDQueue
<1>2. IsTabs(tabs') /\ tabs'.doc = tabs.doc /\ tabs'.dirty = tabs.dirty /\ tabs'.holder = tabs.holder
  BY <1>1 DEF TabsInv, IsTabs
<1> QED BY <1>1, <1>2, ShownIsKept DEF TabsInv

LEMMA EffectsOfTabsKeep ==
  ASSUME TabsInv, RunTabEffects
  PROVE  TabsInv'
<1> DEFINE user == login.uid
           live == login.ready /\ tabs.ready
           old == IF user # Nothing /\ tabs.restore /\ live THEN At(kept.pending, user) ELSE Nothing
           quiet == [tabs EXCEPT !.stale = FALSE, !.restore = @ /\ ~ live]
           sends == live /\ user # Nothing /\ tabs.dirty
<1>1. /\ UNCHANGED <<login, stored>>
      /\ tabs' = IF old # Nothing THEN SetLocalDocument(quiet, old)
                 ELSE IF live /\ CaptureActiveTask # tabs.doc THEN SetLocalDocument(quiet, CaptureActiveTask)
                 ELSE quiet
      /\ sync' = IF sends THEN Enqueue(sync, user, tabs.doc) ELSE sync
      /\ kept' = IF sends THEN [kept EXCEPT !.pending = Put(@, user, tabs.doc)] ELSE kept
  BY DEF RunTabEffects
<1>2. old # Nothing => IsDocument(old)
  BY DEF At, TabsInv, IsKept
<1>3. /\ IsTabs(quiet) /\ quiet.doc = tabs.doc /\ quiet.dirty = tabs.dirty
      /\ quiet.holder = tabs.holder
 <2>1. PICK on : quiet = [tabs EXCEPT !.stale = FALSE, !.restore = on]
   OBVIOUS
 <2> HIDE DEF quiet
 <2> QED BY <2>1 DEF TabsInv, IsTabs
<1>4. IsDocument(tabs.doc) /\ IsDocument(CaptureActiveTask)
  BY EditsAreDocuments DEF TabsInv, IsTabs, CaptureActiveTask
<1>5. IsQueue(sync') /\ QueueIsTheirs(sync', login.uid) /\ IsKept(kept')
  BY <1>1, <1>4, QueueTakes, KeptTakes DEF TabsInv
<1> HIDE DEF old, quiet, live
<1>6. IsTabs(tabs') /\ CleanIsServed(tabs', stored)
  BY <1>1, <1>2, <1>3, <1>4, LocalEditsAreDirty DEF TabsInv, CleanIsServed
<1> QED BY <1>1, <1>5, <1>6 DEF TabsInv

LEMMA FlushKeeps ==
  ASSUME TabsInv, Flush
  PROVE  TabsInv'
<1> DEFINE q == [sync EXCEPT !.timer = FALSE]
<1>1. /\ sync' = IF q.drain = Nothing /\ q.pending # Nothing THEN Dispatch(q) ELSE q
      /\ UNCHANGED <<tabs, kept, login, stored>>
  BY DEF Flush
<1>a. q = [sync EXCEPT !.timer = FALSE]
  OBVIOUS
<1> HIDE DEF q
<1>b. IsQueue(q) /\ q.drain = sync.drain /\ q.uid = sync.uid /\ q.generation = sync.generation
  BY <1>a DEF TabsInv, IsQueue
<1>2. IsQueue(q) /\ QueueIsTheirs(q, login.uid)
  BY <1>b DEF TabsInv, QueueIsTheirs
<1>3. IsQueue(sync') /\ QueueIsTheirs(sync', login.uid)
  BY <1>1, <1>2, QueueSends DEF TabsInv, QueueIsTheirs
<1> QED BY <1>1, <1>3 DEF TabsInv

(***************************************************************************)
(* The answers.                                                            *)
(***************************************************************************)
LEMMA AcknowledgingServes ==
  ASSUME IsTabs(tabs), IsLogin(login), NEW answer, IsDocument(answer), NEW s,
         login.uid # Nothing, s[login.uid] = answer
  PROVE  LET t == AcknowledgeChartTaskTabs(tabs, answer)
         IN  IsTabs(t) /\ CleanIsServed(t, s)
<1> DEFINE t == AcknowledgeChartTaskTabs(tabs, answer)
           same == SameContent(tabs.doc, answer)
           doc == [tabs.doc EXCEPT !.revision = answer.revision]
           status == IF same THEN "saved" ELSE "pending"
           dirty == ~ same
<1>1. t = [tabs EXCEPT !.doc = doc, !.dirty = dirty, !.stale = TRUE, !.status = status,
                       !.holder = login.uid]
  BY DEF AcknowledgeChartTaskTabs, IsTabs
<1>2. /\ IsDocument(doc) /\ doc.revision = answer.revision /\ answer.revision \in Nat
      /\ doc.tasks = tabs.doc.tasks /\ doc.active = tabs.doc.active
  BY DEF IsTabs, IsDocument
<1>3. SameContent(doc, answer) <=> same
  BY <1>2 DEF SameContent
<1>4. dirty \in BOOLEAN /\ (~ dirty => SameContent(doc, answer))
  BY <1>3
<1>5. login.uid \in TabUser \union {Nothing}
  BY DEF IsLogin
<1> HIDE DEF t, doc, status, same, dirty
<1>6. /\ t = [doc |-> t.doc, ready |-> t.ready, dirty |-> t.dirty, status |-> t.status,
              stale |-> t.stale, restore |-> t.restore, holder |-> t.holder]
      /\ t.doc = doc /\ t.dirty = dirty /\ t.holder = login.uid
  BY <1>1 DEF IsTabs
<1>7. IsTabs(t)
  BY <1>2, <1>4, <1>5, <1>6 DEF IsTabs
<1>8. CleanIsServed(t, s)
  BY <1>2, <1>4, <1>6 DEF CleanIsServed
<1> QED BY <1>7, <1>8 DEF t

LEMMA AdoptingServes ==
  ASSUME IsTabs(tabs), IsLogin(login), NEW s, login.uid # Nothing, IsDocument(s[login.uid])
  PROVE  LET t == AdoptConflicted(tabs, s[login.uid])
         IN  IsTabs(t) /\ CleanIsServed(t, s)
<1> DEFINE t == AdoptConflicted(tabs, s[login.uid])
           doc == NormalizeChartTaskTabs(s[login.uid], shown)
<1>1. t = [tabs EXCEPT !.doc = doc, !.dirty = FALSE, !.status = "conflict", !.stale = TRUE,
                       !.holder = login.uid]
  BY DEF AdoptConflicted
<1>2. IsDocument(doc)
  BY EditsAreDocuments
<1>3. /\ s[login.uid].revision \in Nat
      /\ \/ s[login.uid].tasks = <<>> /\ doc.revision = 0
         \/ doc = s[login.uid]
  BY DEF NormalizeChartTaskTabs, CreateInitialChartTaskTabs, IsDocument
<1>4. login.uid \in TabUser \union {Nothing}
  BY DEF IsLogin
<1> HIDE DEF t, doc
<1>5. /\ t = [doc |-> t.doc, ready |-> t.ready, dirty |-> t.dirty, status |-> t.status,
              stale |-> t.stale, restore |-> t.restore, holder |-> t.holder]
      /\ t.doc = doc /\ t.dirty = FALSE /\ t.holder = login.uid
  BY <1>1 DEF IsTabs
<1>6. IsTabs(t)
  BY <1>2, <1>4, <1>5 DEF IsTabs
<1>7. CleanIsServed(t, s)
  BY <1>3, <1>5 DEF CleanIsServed, SameContent
<1> QED BY <1>6, <1>7 DEF t

LEMMA PutAnswersKeep ==
  ASSUME TabsInv, NEW fault \in {"ok", "lost", "down"}, PutAnswers(fault)
  PROVE  TabsInv'
<1> DEFINE d == sync.drain
           fits == d.as # Nothing /\ fault # "down" /\ d.expected = stored[d.as].revision
           doc == [d.current.doc EXCEPT !.revision = d.expected + 1]
           conflict == d.as # Nothing /\ fault = "ok" /\ ~ fits
           more == [sync EXCEPT !.revision = doc.revision]
           latest == LatestOf(sync)
           old == Superseded(sync)
<1>1. /\ d # Nothing /\ UNCHANGED login
      /\ stored' = IF fits THEN [stored EXCEPT ![d.as] = doc] ELSE stored
  BY DEF PutAnswers
<1>2. /\ IsDrain(d) /\ IsDocument(d.current.doc) /\ d.as \in TabUser \union {Nothing}
      /\ d.generation \in Nat
  BY <1>1 DEF TabsInv, IsQueue, IsDrain, IsPending
<1>3. fits => d.as \in TabUser /\ IsDocument(doc) /\ doc.revision = stored[d.as].revision + 1
  BY <1>2 DEF IsDocument, TabsInv, IsStored
<1>4. IsStored(stored') /\ CleanIsServed(tabs, stored')
  BY <1>1, <1>3, NextVersionKeeps DEF TabsInv
<1>5. IsQueue(sync) /\ QueueIsTheirs(sync, login.uid) /\ sync.uid \in {Nothing, login.uid}
  BY DEF TabsInv, QueueIsTheirs
<1>6. ~ old /\ fits => login.uid = d.as
  BY <1>1, <1>3, <1>5 DEF Superseded, QueueIsTheirs
<1>7. IsQueue(more) /\ more.pending = sync.pending /\ more.uid = sync.uid
 <2>1. PICK v : more = [sync EXCEPT !.revision = v]
   OBVIOUS
 <2> HIDE DEF more
 <2> QED BY <2>1, <1>5 DEF IsQueue
<1>8. IsDocument(latest)
  BY <1>2, <1>5 DEF LatestOf, IsQueue, IsPending
<1>9. CASE old
 <2>1. sync' = FlushFinished(sync) /\ UNCHANGED <<tabs, shown, kept>>
   BY <1>9 DEF PutAnswers
 <2> QED BY <1>1, <1>4, <1>5, <2>1, QueueRests DEF TabsInv
<1>10. CASE ~ old /\ fits /\ fault = "ok" /\ sync.pending # Nothing
 <2>1. sync' = Dispatch(more) /\ UNCHANGED <<tabs, shown, kept>>
   BY <1>10 DEF PutAnswers
 <2>2. IsQueue(sync') /\ QueueIsTheirs(sync', login.uid)
   BY <1>5, <1>7, <1>10, <2>1, QueueSends DEF TabsInv
 <2> QED BY <1>1, <1>4, <2>1, <2>2 DEF TabsInv
<1>11. CASE ~ old /\ fits /\ fault = "ok" /\ sync.pending = Nothing
 <2>1. /\ sync' = FlushFinished(more) /\ kept' = [kept EXCEPT !.pending = Drop(@, {d.current.uid})]
       /\ tabs' = AcknowledgeChartTaskTabs(tabs, doc)
   BY <1>11 DEF PutAnswers
 <2>2. stored'[login.uid] = doc /\ login.uid # Nothing
   BY <1>1, <1>3, <1>6, <1>11 DEF TabsInv, IsStored
 <2>3. IsTabs(tabs') /\ CleanIsServed(tabs', stored')
   BY <1>3, <1>11, <2>1, <2>2, AcknowledgingServes DEF TabsInv
 <2> HIDE DEF more
 <2>4. IsKept(kept')
   BY <2>1, KeptForgets DEF TabsInv
 <2>5. IsQueue(sync') /\ QueueIsTheirs(sync', login.uid)
   BY <1>5, <1>7, <2>1, QueueRests
 <2> QED BY <1>1, <1>4, <2>3, <2>4, <2>5 DEF TabsInv
<1>12. CASE ~ old /\ conflict
 <2> DEFINE as == login.uid
            drain == [d EXCEPT !.at = "get", !.as = as, !.latest = latest]
 <2>1. /\ sync' = [sync EXCEPT !.pending = Nothing, !.drain.at = "get", !.drain.as = login.uid,
                               !.drain.latest = latest]
       /\ kept' = [kept EXCEPT !.conflict = Put(@, d.current.uid, latest)]
       /\ UNCHANGED <<tabs, shown>>
   BY <1>12 DEF PutAnswers
 <2>2. drain = [d EXCEPT !.at = "get", !.as = as, !.latest = latest]
   OBVIOUS
 <2>3. sync' = [sync EXCEPT !.pending = Nothing, !.drain = drain]
   BY <1>5, <2>1 DEF IsQueue
 <2> HIDE DEF drain, latest, as
 <2>4. /\ drain = [generation |-> drain.generation, current |-> drain.current, at |-> drain.at,
                   as |-> drain.as, latest |-> drain.latest, expected |-> drain.expected]
       /\ drain.generation = d.generation /\ drain.current = d.current /\ drain.as = as
       /\ drain.latest = latest
   BY <1>2, <2>2 DEF IsDrain
 <2>5. IsDrain(drain)
   BY <1>2, <1>8, <2>4 DEF IsDrain, TabsInv, IsLogin, as
 <2>6. /\ sync' = [timer |-> sync'.timer, pending |-> sync'.pending, drain |-> sync'.drain,
                   uid |-> sync'.uid, revision |-> sync'.revision, generation |-> sync'.generation]
       /\ sync'.pending = Nothing /\ sync'.drain = drain /\ sync'.uid = sync.uid
       /\ sync'.generation = sync.generation
   BY <1>5, <2>3 DEF IsQueue
 <2>7. IsQueue(sync') /\ QueueIsTheirs(sync', login.uid)
   BY <1>1, <1>5, <2>4, <2>5, <2>6 DEF IsQueue, QueueIsTheirs, as
 <2>8. IsKept(kept')
   BY <1>8, <2>1, KeptTakes DEF TabsInv
 <2> QED BY <1>1, <1>4, <2>1, <2>7, <2>8 DEF TabsInv
<1>13. CASE ~ old /\ ~ conflict /\ ~ (fits /\ fault = "ok")
 <2>1. /\ sync' = FlushFinished(Retain(sync, latest))
       /\ kept' = [kept EXCEPT !.pending = Put(@, d.current.uid, latest)]
       /\ tabs' = [tabs EXCEPT !.status = "error"]
   BY <1>13 DEF PutAnswers
 <2>2. IsTabs(tabs') /\ tabs'.doc = tabs.doc /\ tabs'.dirty = tabs.dirty /\ tabs'.holder = tabs.holder
   BY <2>1 DEF TabsInv, IsTabs
 <2>3. CleanIsServed(tabs', stored')
   BY <1>4, <2>2 DEF CleanIsServed
 <2> HIDE DEF latest
 <2>4. IsKept(kept')
   BY <1>8, <2>1, KeptTakes DEF TabsInv
 <2>a. IsQueue(Retain(sync, latest)) /\ Retain(sync, latest).uid = sync.uid
   BY <1>5, <1>8, QueueRetains
 <2>5. IsQueue(sync') /\ QueueIsTheirs(sync', login.uid)
   BY <1>5, <2>1, <2>a, QueueRests
 <2> QED BY <1>1, <1>4, <2>2, <2>3, <2>4, <2>5 DEF TabsInv
<1> HIDE DEF old, conflict
<1> QED BY <1>9, <1>10, <1>11, <1>12, <1>13

LEMMA GetAnswersKeep ==
  ASSUME TabsInv, NEW fails \in BOOLEAN, RefreshAnswers(fails)
  PROVE  TabsInv'
<1> DEFINE d == sync.drain
           old == Superseded(sync)
<1>1. d # Nothing /\ UNCHANGED <<login, stored>>
  BY DEF RefreshAnswers
<1>2. IsDrain(d) /\ IsDocument(d.latest) /\ d.as \in TabUser \union {Nothing}
  BY <1>1 DEF TabsInv, IsQueue, IsDrain
<1>3. IsQueue(sync) /\ QueueIsTheirs(sync, login.uid) /\ sync.uid \in {Nothing, login.uid}
  BY DEF TabsInv, QueueIsTheirs
<1>4. CASE fails
 <2>1. /\ sync' = FlushFinished(Retain(sync, d.latest))
       /\ kept' = [kept EXCEPT !.pending = Put(@, d.current.uid, d.latest)]
       /\ tabs' = [tabs EXCEPT !.status = "error"]
   BY <1>4 DEF RefreshAnswers
 <2>2. IsTabs(tabs') /\ tabs'.doc = tabs.doc /\ tabs'.dirty = tabs.dirty /\ tabs'.holder = tabs.holder
   BY <2>1 DEF TabsInv, IsTabs
 <2>3. IsQueue(Retain(sync, d.latest)) /\ Retain(sync, d.latest).uid = sync.uid
   BY <1>2, <1>3, QueueRetains
 <2>4. IsQueue(sync') /\ QueueIsTheirs(sync', login.uid)
   BY <1>3, <2>1, <2>3, QueueRests
 <2>5. IsKept(kept')
   BY <1>2, <2>1, KeptTakes DEF TabsInv
 <2> QED BY <1>1, <2>2, <2>4, <2>5, ShownIsKept DEF TabsInv
<1>5. CASE ~ fails /\ old
 <2>1. sync' = FlushFinished(sync) /\ UNCHANGED <<tabs, kept>>
   BY <1>5 DEF RefreshAnswers
 <2> QED BY <1>1, <1>3, <2>1, QueueRests DEF TabsInv
<1>6. CASE ~ fails /\ ~ old
 <2> DEFINE more == [sync EXCEPT !.revision = stored[d.as].revision]
 <2>1. /\ sync' = FlushFinished(more) /\ d.as # Nothing
       /\ kept' = [kept EXCEPT !.pending = Drop(@, {d.current.uid})]
       /\ tabs' = AdoptConflicted(tabs, stored[d.as])
   BY <1>6 DEF RefreshAnswers
 <2>2. d.as = login.uid /\ d.as \in TabUser
   BY <1>1, <1>2, <1>3, <1>6, <2>1 DEF Superseded, QueueIsTheirs
 <2>3. IsDocument(stored[login.uid])
   BY <2>2 DEF TabsInv, IsStored
 <2>4. IsTabs(tabs') /\ CleanIsServed(tabs', stored)
   BY <2>1, <2>2, <2>3, AdoptingServes DEF TabsInv
 <2>5. IsQueue(more) /\ more.uid = sync.uid
  <3>1. PICK v : more = [sync EXCEPT !.revision = v]
    OBVIOUS
  <3> HIDE DEF more
  <3> QED BY <3>1, <1>3 DEF IsQueue
 <2> HIDE DEF more
 <2>6. IsQueue(sync') /\ QueueIsTheirs(sync', login.uid)
   BY <1>3, <2>1, <2>5, QueueRests
 <2>7. IsKept(kept')
   BY <2>1, KeptForgets DEF TabsInv
 <2> QED BY <1>1, <2>4, <2>6, <2>7 DEF TabsInv
<1> HIDE DEF old
<1> QED BY <1>4, <1>5, <1>6

(***************************************************************************)
(* Identities.                                                             *)
(***************************************************************************)
LEMMA SigningInKeeps ==
  ASSUME TabsInv, NEW u \in TabUser, SignsIn(u)
  PROVE  TabsInv'
<1>1. /\ login' = [uid |-> u, ready |-> FALSE, boot |-> u]
      /\ tabs' = [tabs EXCEPT !.stale = TRUE] /\ UNCHANGED stored
      /\ \/ login.uid # Nothing /\ sync' = ResetQueue(sync) /\ Forgotten(login.uid)
         \/ login.uid = Nothing /\ UNCHANGED <<sync, kept>>
  BY DEF SignsIn
<1>2. IsTabs(tabs') /\ tabs'.doc = tabs.doc /\ tabs'.dirty = tabs.dirty /\ tabs'.holder = tabs.holder
  BY <1>1 DEF TabsInv, IsTabs
<1>3. IsLogin(login') /\ login'.uid = u
  BY <1>1 DEF IsLogin
<1>4. CASE login.uid # Nothing
 <2>1. IsQueue(sync') /\ QueueIsTheirs(sync', u)
   BY <1>1, <1>4, QueueResets DEF TabsInv
 <2>2. IsKept(kept')
  <3>1. kept' = [kept EXCEPT !.pending = Drop(@, {login.uid}), !.conflict = Drop(@, {login.uid})]
    BY <1>1, <1>4 DEF Forgotten
  <3> QED BY <3>1, KeptForgets DEF TabsInv
 <2> QED BY <1>1, <1>2, <1>3, <2>1, <2>2, ShownIsKept DEF TabsInv
<1>5. CASE login.uid = Nothing
 <2>1. QueueIsTheirs(sync, u)
   BY <1>5 DEF TabsInv, QueueIsTheirs
 <2> QED BY <1>1, <1>2, <1>3, <1>5, <2>1, ShownIsKept DEF TabsInv
<1> QED BY <1>4, <1>5

LEMMA SigningOutKeeps ==
  ASSUME TabsInv, NEW w, SignsOut(w)
  PROVE  TabsInv'
<1> DEFINE doc == CreateInitialChartTaskTabs(<<w, Nothing>>)
<1>1. /\ login' = [uid |-> Nothing, ready |-> TRUE, boot |-> Nothing]
      /\ sync' = ResetQueue(sync) /\ Forgotten(login.uid) /\ UNCHANGED stored
      /\ tabs' = ResetChartTaskTabs(tabs, <<w, Nothing>>)
  BY DEF SignsOut
<1>2. IsDocument(doc)
  BY DEF CreateInitialChartTaskTabs, IsDocument
<1>3. tabs' = [tabs EXCEPT !.doc = doc, !.ready = TRUE, !.dirty = FALSE, !.status = "idle",
                           !.stale = TRUE, !.restore = FALSE, !.holder = Nothing]
  BY <1>1 DEF ResetChartTaskTabs
<1> HIDE DEF doc
<1>4. IsTabs(tabs') /\ tabs'.holder = Nothing
  BY <1>2, <1>3 DEF TabsInv, IsTabs
<1>5. CleanIsServed(tabs', stored)
  BY <1>4 DEF CleanIsServed
<1>6. IsLogin(login') /\ login'.uid = Nothing
  BY <1>1 DEF IsLogin
<1>7. IsQueue(sync') /\ QueueIsTheirs(sync', Nothing)
  BY <1>1, QueueResets DEF TabsInv
<1>8. IsKept(kept')
  BY <1>1, KeptForgets DEF TabsInv, Forgotten
<1> QED BY <1>1, <1>4, <1>5, <1>6, <1>7, <1>8 DEF TabsInv

LEMMA ReloadingKeeps ==
  ASSUME TabsInv, Reloads
  PROVE  TabsInv'
<1>1. PICK w \in Arrangement :
        tabs' = [tabs EXCEPT !.doc = CreateInitialChartTaskTabs(<<w, Nothing>>), !.ready = FALSE,
                             !.dirty = FALSE, !.status = "idle", !.stale = TRUE, !.restore = FALSE,
                             !.holder = Nothing]
  BY DEF Reloads
<1> DEFINE doc == CreateInitialChartTaskTabs(<<w, Nothing>>)
<1>2. IsDocument(doc)
  BY DEF CreateInitialChartTaskTabs, IsDocument
<1>3. tabs' = [tabs EXCEPT !.doc = doc, !.ready = FALSE, !.dirty = FALSE, !.status = "idle",
                           !.stale = TRUE, !.restore = FALSE, !.holder = Nothing]
  BY <1>1
<1> HIDE DEF doc
<1>4. IsTabs(tabs') /\ tabs'.holder = Nothing
  BY <1>2, <1>3 DEF TabsInv, IsTabs
<1>5. CleanIsServed(tabs', stored)
  BY <1>4 DEF CleanIsServed
<1>6. /\ sync' = [timer |-> FALSE, pending |-> Nothing, drain |-> Nothing, uid |-> Nothing,
                  revision |-> Nothing, generation |-> sync.generation + 1]
      /\ login' = [login EXCEPT !.ready = FALSE, !.boot = login.uid]
      /\ UNCHANGED <<kept, stored>>
  BY DEF Reloads
<1>7. sync.generation + 1 \in Nat
  BY DEF TabsInv, IsQueue
<1>8. IsQueue(sync') /\ QueueIsTheirs(sync', login'.uid)
  BY <1>6, <1>7 DEF IsQueue, QueueIsTheirs
<1>9. IsLogin(login')
  BY <1>6 DEF TabsInv, IsLogin
<1> QED BY <1>4, <1>5, <1>6, <1>8, <1>9 DEF TabsInv

LEMMA BootstrapKeeps ==
  ASSUME TabsInv, NEW ok \in BOOLEAN, BootstrapAnswers(ok)
  PROVE  TabsInv'
<1>1. /\ login.boot # Nothing /\ login' = [login EXCEPT !.ready = TRUE, !.boot = Nothing]
      /\ tabs' = IF ok THEN HydrateChartTaskTabs(tabs, stored[login.boot], login.uid)
                 ELSE [tabs EXCEPT !.stale = TRUE, !.restore = TRUE]
      /\ UNCHANGED <<sync, kept, stored>>
  BY DEF BootstrapAnswers
<1>2. IsLogin(login') /\ login'.uid = login.uid
  BY <1>1 DEF TabsInv, IsLogin
<1>3. login.boot = login.uid /\ login.uid \in TabUser
  BY <1>1 DEF TabsInv, IsLogin
<1>4. IsTabs(tabs') /\ CleanIsServed(tabs', stored)
 <2> DEFINE server == stored[login.uid]
            first == CreateInitialChartTaskTabs(shown)
 <2>1. IsDocument(server) /\ IsDocument(first)
   BY <1>3 DEF TabsInv, IsStored, CreateInitialChartTaskTabs, IsDocument
 <2>2. CASE ok /\ server.tasks # <<>>
  <3>1. tabs' = [tabs EXCEPT !.doc = server, !.ready = TRUE, !.dirty = FALSE, !.status = "idle",
                             !.stale = TRUE, !.restore = TRUE, !.holder = login.uid]
    BY <1>1, <1>3, <2>2 DEF HydrateChartTaskTabs
  <3>2. tabs'.doc = server /\ tabs'.holder = login.uid /\ IsTabs(tabs')
    BY <1>3, <2>1, <3>1 DEF TabsInv, IsTabs
  <3>3. server.revision \in Nat
    BY <2>1 DEF IsDocument
  <3> QED BY <3>2, <3>3 DEF CleanIsServed, SameContent
 <2>3. CASE ok /\ server.tasks = <<>>
  <3>1. tabs' = [tabs EXCEPT !.doc = first, !.ready = TRUE, !.dirty = TRUE, !.status = "pending",
                             !.stale = TRUE, !.restore = TRUE, !.holder = login.uid]
    BY <1>1, <1>3, <2>3 DEF HydrateChartTaskTabs
  <3> HIDE DEF first
  <3>2. tabs'.dirty = TRUE /\ IsTabs(tabs')
    BY <1>3, <2>1, <3>1 DEF TabsInv, IsTabs
  <3> QED BY <3>2 DEF CleanIsServed
 <2>4. CASE ~ ok
  <3>1. tabs' = [tabs EXCEPT !.stale = TRUE, !.restore = TRUE]
    BY <1>1, <2>4
  <3>2. /\ IsTabs(tabs') /\ tabs'.doc = tabs.doc /\ tabs'.dirty = tabs.dirty
        /\ tabs'.holder = tabs.holder
    BY <3>1 DEF TabsInv, IsTabs
  <3> QED BY <3>2, ShownIsKept
 <2> QED BY <2>2, <2>3, <2>4
<1> QED BY <1>1, <1>2, <1>4 DEF TabsInv

LEMMA ElsewhereKeeps ==
  ASSUME TabsInv, NEW u \in TabUser, NEW w, ElsewhereSaves(u, w)
  PROVE  TabsInv'
<1> DEFINE doc == [tasks |-> <<Task(1, <<w, u>>)>>, active |-> 1, revision |-> stored[u].revision + 1]
<1>1. stored' = [stored EXCEPT ![u] = doc] /\ UNCHANGED <<tabs, sync, kept, login>>
  BY DEF ElsewhereSaves, TabsInv, IsStored
<1>2. stored[u].revision \in Nat
  BY DEF TabsInv, IsStored, IsDocument
<1>3. IsDocument(doc) /\ doc.revision = stored[u].revision + 1
  BY <1>2 DEF IsDocument
<1> HIDE DEF doc
<1>4. IsStored(stored') /\ CleanIsServed(tabs, stored')
  BY <1>1, <1>3, NextVersionKeeps DEF TabsInv
<1> QED BY <1>1, <1>4 DEF TabsInv

LEMMA TabsKeep == TabsInv /\ [TabsNext]_tabVars => TabsInv'
<1> SUFFICES ASSUME TabsInv, [TabsNext]_tabVars PROVE TabsInv'
  OBVIOUS
<1>1. IsDocument(tabs.doc) /\ IsDocument(CaptureActiveTask)
  BY EditsAreDocuments DEF TabsInv, IsTabs, CaptureActiveTask
<1>2. ASSUME NEW w \in Arrangement, Arranges(w) PROVE TabsInv'
  BY <1>2, ArrangingKeeps
<1>3. ASSUME NEW w \in Arrangement, SignsOut(w) PROVE TabsInv'
  BY <1>3, SigningOutKeeps
<1>4. ASSUME NEW w \in Arrangement, NEW u \in TabUser, ElsewhereSaves(u, w) PROVE TabsInv'
  BY <1>4, ElsewhereKeeps
<1>5. CASE AddNewChartTask
 <2> DEFINE next == AddChartTask(CaptureActiveTask, shown)
 <2>1. Edited(next) /\ IsDocument(next)
   BY <1>1, <1>5, EditsAreDocuments DEF AddNewChartTask
 <2> QED BY <2>1, EditingKeeps
<1>6. ASSUME NEW id, ActivateTask(id) PROVE TabsInv'
 <2> DEFINE next == ActivateChartTask(CaptureActiveTask, id)
 <2>1. Edited(next) /\ IsDocument(next)
   BY <1>1, <1>6, EditsAreDocuments DEF ActivateTask
 <2> QED BY <2>1, EditingKeeps
<1>7. ASSUME NEW id, CloseTask(id) PROVE TabsInv'
 <2> DEFINE next == CloseChartTask(CaptureActiveTask, id)
 <2>1. Edited(next) /\ IsDocument(next)
   BY <1>1, <1>7, EditsAreDocuments DEF CloseTask
 <2> QED BY <2>1, EditingKeeps
<1>8. ASSUME NEW source, NEW target, NEW edge, MoveTask(source, target, edge) PROVE TabsInv'
 <2> DEFINE next == MoveChartTask(CaptureActiveTask, source, target, edge)
 <2>1. Edited(next) /\ IsDocument(next)
   BY <1>1, <1>8, EditsAreDocuments DEF MoveTask
 <2> QED BY <2>1, EditingKeeps
<1>9. ASSUME NEW id, NEW d, ArrowMoves(id, d) PROVE TabsInv'
  BY <1>8, <1>9 DEF ArrowMoves
<1>10. CASE RunTabEffects
  BY <1>10, EffectsOfTabsKeep
<1>11. CASE Flush
  BY <1>11, FlushKeeps
<1>12. ASSUME NEW fault \in {"ok", "lost", "down"}, PutAnswers(fault) PROVE TabsInv'
  BY <1>12, PutAnswersKeep
<1>13. ASSUME NEW fails \in BOOLEAN, RefreshAnswers(fails) PROVE TabsInv'
  BY <1>13, GetAnswersKeep
<1>14. ASSUME NEW u \in TabUser, SignsIn(u) PROVE TabsInv'
  BY <1>14, SigningInKeeps
<1>15. CASE Reloads
  BY <1>15, ReloadingKeeps
<1>16. ASSUME NEW ok \in BOOLEAN, BootstrapAnswers(ok) PROVE TabsInv'
  BY <1>16, BootstrapKeeps
<1>17. CASE UNCHANGED tabVars
  BY <1>17 DEF tabVars, TabsInv
<1> QED
  BY <1>2, <1>3, <1>4, <1>5, <1>6, <1>7, <1>8, <1>9, <1>10, <1>11, <1>12, <1>13, <1>14, <1>15,
     <1>16, <1>17 DEF TabsNext

LEMMA CleanTabsAreStored == TabsInv => SavedIsStored
<1> SUFFICES ASSUME TabsInv PROVE SavedIsStored
  OBVIOUS
<1>1. CleanIsServed(tabs, stored)
  BY DEF TabsInv
<1> QED BY <1>1 DEF CleanIsServed, SavedIsStored

THEOREM TabsAreStored == TabsSpec => []SavedIsStored
<1> QED BY CleanTabsAreStored, TabsStart, TabsKeep, PTL DEF TabsSpec

(***************************************************************************)
(* Preferences.  The last word on a key: what is pending, else the last    *)
(* batch that has it, else the server's document.                          *)
(***************************************************************************)
Value == Choice \union {InitialChoice}
PatchOf(section) == Partially(PatchKeys(section), Value)
Batch(section) == [patch : PatchOf(section), of : Nat, sent : BOOLEAN]
SettingsQueue(section) ==
  [pending : PatchOf(section), timer : BOOLEAN, writes : Seq(Batch(section)), generation : Nat]
IsDocumentOf(d) ==
  /\ DOMAIN d = Section /\ d = [section \in Section |-> d[section]]
  /\ \A section \in Section : d[section] \in [PatchKeys(section) -> Value]

PreferencesTypeOK ==
  /\ IsDocumentOf(prefs) /\ IsDocumentOf(document)
  /\ fetched = Nothing \/ IsDocumentOf(fetched)
  /\ DOMAIN writer = Section /\ writer = [section \in Section |-> writer[section]]
  /\ \A section \in Section : writer[section] \in SettingsQueue(section)
  /\ crossed \subseteq Section

(* What the batches that are left make of a key is value. *)
BatchesGive(batches, key, start, value) ==
  /\ \A i \in 1..Len(batches) :
       (key \in DOMAIN batches[i].patch
          /\ \A j \in 1..Len(batches) : j > i => key \notin DOMAIN batches[j].patch)
         => batches[i].patch[key] = value
  /\ (\A i \in 1..Len(batches) : key \notin DOMAIN batches[i].patch) => start = value
LastWord(section, key, q, server, pref) ==
  IF key \in DOMAIN q.pending THEN q.pending[key] = pref[key]
  ELSE BatchesGive(q.writes, key, server[key], pref[key])
IsCurrentQueue(q) == \A i \in 1..Len(q.writes) : q.writes[i].of = q.generation
QueueLeadsTo(section, q, server, pref) ==
  IsCurrentQueue(q) /\ \A key \in PatchKeys(section) : LastWord(section, key, q, server, pref)

PreferencesInv ==
  /\ PreferencesTypeOK
  /\ \A section \in Section \ crossed :
       QueueLeadsTo(section, writer[section], document[section], prefs[section])

LEMMA QuietQueue ==
  ASSUME NEW section \in Section
  PROVE  Quiet \in SettingsQueue(section) /\ Quiet.writes = <<>> /\ Quiet.pending = None
<1>1. None \in PatchOf(section)
  BY NonePartial DEF PatchOf
<1>2. <<>> \in Seq(Batch(section))
  OBVIOUS
<1> QED BY <1>1, <1>2 DEF Quiet, SettingsQueue

LEMMA NothingPending ==
  ASSUME NEW section \in Section, NEW q, q.pending = None, q.writes = <<>>, NEW server, NEW pref
  PROVE  QueueLeadsTo(section, q, server, pref)
           <=> \A key \in PatchKeys(section) : server[key] = pref[key]
BY NonePartial DEF QueueLeadsTo, IsCurrentQueue, LastWord, BatchesGive

LEMMA PreferencesStart == PreferencesInit => PreferencesInv
<1> SUFFICES ASSUME PreferencesInit PROVE PreferencesInv
  OBVIOUS
<1>1. IsDocumentOf(prefs) /\ IsDocumentOf(document) /\ prefs = document
  BY DEF PreferencesInit, AllAt, IsDocumentOf, Value
<1>2. PreferencesTypeOK
  BY <1>1, QuietQueue DEF PreferencesInit, PreferencesTypeOK
<1>3. ASSUME NEW section \in Section
      PROVE  QueueLeadsTo(section, writer[section], document[section], prefs[section])
  BY <1>1, QuietQueue, NothingPending DEF PreferencesInit
<1> QED BY <1>2, <1>3 DEF PreferencesInv

LEMMA PatchesOver ==
  ASSUME NEW section \in Section, NEW low \in PatchOf(section), NEW high \in PatchOf(section)
  PROVE  Over(low, high) \in PatchOf(section)
BY LaidOver DEF Over, PatchOf

LEMMA DocumentOver ==
  ASSUME NEW section \in Section, NEW d \in [PatchKeys(section) -> Value], NEW patch \in PatchOf(section)
  PROVE  Over(d, patch) \in [PatchKeys(section) -> Value]
<1>1. DOMAIN patch \subseteq PatchKeys(section) /\ \A key \in DOMAIN patch : patch[key] \in Value
  BY PartialIs DEF PatchOf
<1> QED BY <1>1 DEF Over

(***************************************************************************)
(* What the steps of a queue do to the last word.                          *)
(***************************************************************************)
LEMMA QueueIs ==
  ASSUME NEW section \in Section, NEW q \in SettingsQueue(section)
  PROVE  /\ q.pending \in PatchOf(section) /\ q.timer \in BOOLEAN
         /\ q.writes \in Seq(Batch(section)) /\ q.generation \in Nat
         /\ Len(q.writes) \in Nat
         /\ \A i \in 1..Len(q.writes) : q.writes[i] \in Batch(section) /\ q.writes[i].patch \in PatchOf(section)
<1>1. /\ q.pending \in PatchOf(section) /\ q.timer \in BOOLEAN
      /\ q.writes \in Seq(Batch(section)) /\ q.generation \in Nat
  BY DEF SettingsQueue
<1>2. Len(q.writes) \in Nat /\ \A i \in 1..Len(q.writes) : q.writes[i] \in Batch(section)
  BY <1>1
<1> QED BY <1>1, <1>2 DEF Batch

LEMMA DispatchKeeps ==
  ASSUME NEW section \in Section, NEW q \in SettingsQueue(section), NEW server, NEW pref
  PROVE  /\ Dispatched(q) \in SettingsQueue(section)
         /\ QueueLeadsTo(section, q, server, pref)
              => QueueLeadsTo(section, Dispatched(q), server, pref)
<1> DEFINE r == Dispatched(q)
           b == [patch |-> q.pending, of |-> q.generation, sent |-> FALSE]
<1>1. /\ q.pending \in PatchOf(section) /\ q.timer \in BOOLEAN
      /\ q.writes \in Seq(Batch(section)) /\ q.generation \in Nat /\ Len(q.writes) \in Nat
  BY QueueIs
<1>2. CASE q.pending = None
 <2>1. r = [q EXCEPT !.timer = FALSE]
   BY <1>2 DEF Dispatched
 <2> HIDE DEF r
 <2>2. r \in SettingsQueue(section) /\ r.pending = q.pending /\ r.writes = q.writes /\ r.generation = q.generation
   BY <1>1, <2>1 DEF SettingsQueue
 <2>3. r \in SettingsQueue(section)
         /\ (QueueLeadsTo(section, q, server, pref) => QueueLeadsTo(section, r, server, pref))
   BY <2>2 DEF QueueLeadsTo, IsCurrentQueue, LastWord
 <2> QED BY <2>3 DEF r
<1>3. CASE q.pending # None
 <2>1. r = [q EXCEPT !.pending = None, !.timer = FALSE, !.writes = Append(q.writes, b)]
   BY <1>3 DEF Dispatched, SettingsQueue
 <2>2. b \in Batch(section) /\ b.patch = q.pending /\ b.of = q.generation
   BY <1>1 DEF Batch
 <2>3. None \in PatchOf(section) /\ DOMAIN None = {}
   BY NonePartial DEF PatchOf
 <2> DEFINE ws == Append(q.writes, b)
 <2> HIDE DEF r, b
 <2>4. /\ ws \in Seq(Batch(section)) /\ Len(ws) = Len(q.writes) + 1
       /\ \A i \in 1..Len(q.writes) : ws[i] = q.writes[i]
       /\ ws[Len(q.writes) + 1] = b
   BY <1>1, <2>2
 <2> HIDE DEF ws
 <2>5. /\ r \in SettingsQueue(section) /\ r.pending = None /\ r.writes = ws /\ r.generation = q.generation
   BY <1>1, <2>1, <2>3, <2>4 DEF SettingsQueue, ws
 <2>6. ASSUME QueueLeadsTo(section, q, server, pref)
       PROVE  QueueLeadsTo(section, r, server, pref)
  <3>1. IsCurrentQueue(r)
    BY <1>1, <2>2, <2>4, <2>5, <2>6 DEF QueueLeadsTo, IsCurrentQueue
  <3>2. ASSUME NEW key \in PatchKeys(section)
        PROVE  BatchesGive(ws, key, server[key], pref[key])
   <4>1. LastWord(section, key, q, server, pref)
     BY <2>6 DEF QueueLeadsTo
   <4>2. CASE key \in DOMAIN q.pending
    <5>1. q.pending[key] = pref[key]
      BY <4>1, <4>2 DEF LastWord
    <5>2. \A i \in 1..Len(q.writes) : Len(q.writes) + 1 > i
      BY <1>1
    <5>3. \A i \in 1..Len(ws) : i \in 1..Len(q.writes) \/ i = Len(q.writes) + 1
      BY <1>1, <2>4
    <5>4. Len(q.writes) + 1 \in 1..Len(ws)
      BY <1>1, <2>4
    <5> QED BY <2>2, <2>4, <4>2, <5>1, <5>2, <5>3, <5>4 DEF BatchesGive
   <4>3. CASE key \notin DOMAIN q.pending
    <5>1. BatchesGive(q.writes, key, server[key], pref[key])
      BY <4>1, <4>3 DEF LastWord
    <5>2. \A i \in 1..Len(ws) : i \in 1..Len(q.writes) \/ (i = Len(q.writes) + 1 /\ key \notin DOMAIN ws[i].patch)
      BY <1>1, <2>2, <2>4, <4>3
    <5>3. \A i \in 1..Len(q.writes) : i \in 1..Len(ws) /\ ws[i] = q.writes[i]
      BY <1>1, <2>4
    <5> QED BY <5>1, <5>2, <5>3 DEF BatchesGive
   <4> QED BY <4>2, <4>3
  <3> QED BY <2>3, <2>5, <3>1, <3>2 DEF QueueLeadsTo, LastWord
 <2> QED BY <2>5, <2>6 DEF r
<1> QED BY <1>2, <1>3

(* A batch leaves the queue: what it held has landed, or it was failed.     *)
LEMMA LandingKeeps ==
  ASSUME NEW section \in Section, NEW q \in SettingsQueue(section), q.writes # <<>>,
         NEW server \in [PatchKeys(section) -> Value], NEW pref
  PROVE  LET r == [q EXCEPT !.writes = Tail(@)]
             landed == Over(server, q.writes[1].patch)
         IN  /\ r \in SettingsQueue(section)
             /\ landed \in [PatchKeys(section) -> Value]
             /\ QueueLeadsTo(section, q, server, pref) => QueueLeadsTo(section, r, landed, pref)
<1> DEFINE r == [q EXCEPT !.writes = Tail(@)]
           ws == Tail(q.writes)
           patch == q.writes[1].patch
           landed == Over(server, patch)
<1>1. /\ q.writes \in Seq(Batch(section)) /\ Len(q.writes) \in Nat
      /\ \A i \in 1..Len(q.writes) : q.writes[i] \in Batch(section) /\ q.writes[i].patch \in PatchOf(section)
  BY QueueIs
<1>2. Len(q.writes) >= 1
  BY <1>1
<1>3. /\ ws \in Seq(Batch(section)) /\ Len(ws) = Len(q.writes) - 1
      /\ \A i \in 1..Len(ws) : ws[i] = q.writes[i + 1]
  BY <1>1, <1>2
<1>4. r = [q EXCEPT !.writes = ws]
  BY DEF SettingsQueue
<1>5. patch \in PatchOf(section)
  BY <1>1, <1>2
<1>6. landed \in [PatchKeys(section) -> Value]
  BY <1>5, DocumentOver
<1>7. \A key \in PatchKeys(section) : landed[key] = IF key \in DOMAIN patch THEN patch[key] ELSE server[key]
  BY DEF Over
<1> HIDE DEF r, ws, landed, patch
<1>8. r \in SettingsQueue(section) /\ r.pending = q.pending /\ r.writes = ws /\ r.generation = q.generation
  BY <1>3, <1>4 DEF SettingsQueue
<1>9. ASSUME QueueLeadsTo(section, q, server, pref)
      PROVE  QueueLeadsTo(section, r, landed, pref)
 <2>1. IsCurrentQueue(r)
  <3>1. \A i \in 1..Len(ws) : i + 1 \in 1..Len(q.writes)
    BY <1>1, <1>2, <1>3
  <3> QED BY <1>3, <1>8, <1>9, <3>1 DEF QueueLeadsTo, IsCurrentQueue
 <2>2. ASSUME NEW key \in PatchKeys(section), key \notin DOMAIN q.pending
       PROVE  BatchesGive(ws, key, landed[key], pref[key])
  <3>1. BatchesGive(q.writes, key, server[key], pref[key])
    BY <1>9, <2>2 DEF QueueLeadsTo, LastWord
  <3>2. ASSUME NEW i \in 1..Len(ws), key \in DOMAIN ws[i].patch,
               \A j \in 1..Len(ws) : j > i => key \notin DOMAIN ws[j].patch
        PROVE  ws[i].patch[key] = pref[key]
   <4>1. i + 1 \in 1..Len(q.writes)
     BY <1>1, <1>2, <1>3
   <4>2. ASSUME NEW j \in 1..Len(q.writes), j > i + 1
         PROVE  key \notin DOMAIN q.writes[j].patch
    <5>1. j - 1 \in 1..Len(ws) /\ j - 1 > i /\ (j - 1) + 1 = j
      BY <1>1, <1>3, <4>2
    <5> QED BY <1>3, <3>2, <5>1
   <4> QED BY <1>3, <3>1, <3>2, <4>1, <4>2 DEF BatchesGive
  <3>3. ASSUME \A i \in 1..Len(ws) : key \notin DOMAIN ws[i].patch
        PROVE  landed[key] = pref[key]
   <4>1. \A j \in 1..Len(q.writes) : j > 1 => key \notin DOMAIN q.writes[j].patch
    <5> SUFFICES ASSUME NEW j \in 1..Len(q.writes), j > 1
                 PROVE  key \notin DOMAIN q.writes[j].patch
      OBVIOUS
    <5>1. j - 1 \in 1..Len(ws) /\ (j - 1) + 1 = j
      BY <1>1, <1>3
    <5> QED BY <1>3, <3>3, <5>1
   <4>2. 1 \in 1..Len(q.writes)
     BY <1>1, <1>2
   <4>3. CASE key \in DOMAIN patch
     BY <1>7, <2>2, <3>1, <4>1, <4>2, <4>3 DEF BatchesGive, patch
   <4>4. CASE key \notin DOMAIN patch
    <5>1. \A j \in 1..Len(q.writes) : j = 1 \/ j > 1
      BY <1>1
    <5>2. \A j \in 1..Len(q.writes) : key \notin DOMAIN q.writes[j].patch
      BY <4>1, <4>4, <5>1 DEF patch
    <5> QED BY <1>7, <2>2, <3>1, <4>4, <5>2 DEF BatchesGive
   <4> QED BY <4>3, <4>4
  <3> QED BY <3>2, <3>3 DEF BatchesGive
 <2>3. ASSUME NEW key \in PatchKeys(section)
       PROVE  LastWord(section, key, r, landed, pref)
   BY <1>8, <1>9, <2>2 DEF QueueLeadsTo, LastWord
 <2> QED BY <2>1, <2>3 DEF QueueLeadsTo
<1> QED BY <1>6, <1>8, <1>9 DEF r, landed, patch

LEMMA SendingKeeps ==
  ASSUME NEW section \in Section, NEW q \in SettingsQueue(section), q.writes # <<>>,
         NEW server, NEW pref
  PROVE  LET r == [q EXCEPT !.writes = IF q.writes[1].of = q.generation THEN [@ EXCEPT ![1].sent = TRUE]
                                       ELSE Tail(@)]
         IN  /\ r \in SettingsQueue(section)
             /\ QueueLeadsTo(section, q, server, pref) => QueueLeadsTo(section, r, server, pref)
<1> DEFINE ws == IF q.writes[1].of = q.generation THEN [q.writes EXCEPT ![1].sent = TRUE] ELSE Tail(q.writes)
           r == [q EXCEPT !.writes = ws]
<1>1. /\ q.writes \in Seq(Batch(section)) /\ Len(q.writes) \in Nat
      /\ \A i \in 1..Len(q.writes) : q.writes[i] \in Batch(section)
  BY QueueIs
<1>2. Len(q.writes) >= 1 /\ 1 \in 1..Len(q.writes)
  BY <1>1
<1>3. CASE q.writes[1].of = q.generation
 <2> DEFINE b == [q.writes[1] EXCEPT !.sent = TRUE]
 <2>1. ws = [q.writes EXCEPT ![1] = b]
   BY <1>3
 <2>2. b \in Batch(section) /\ b.patch = q.writes[1].patch /\ b.of = q.writes[1].of
   BY <1>1, <1>2 DEF Batch
 <2> HIDE DEF ws, b
 <2>3. /\ ws \in Seq(Batch(section)) /\ Len(ws) = Len(q.writes)
       /\ \A i \in 1..Len(q.writes) : ws[i].patch = q.writes[i].patch /\ ws[i].of = q.writes[i].of
   BY <1>1, <1>2, <2>1, <2>2
 <2> HIDE DEF r
 <2>a. r = [q EXCEPT !.writes = ws]
   BY DEF r
 <2>4. r \in SettingsQueue(section) /\ r.pending = q.pending /\ r.writes = ws /\ r.generation = q.generation
   BY <2>3, <2>a DEF SettingsQueue
 <2>5. QueueLeadsTo(section, q, server, pref) => QueueLeadsTo(section, r, server, pref)
   BY <2>3, <2>4 DEF QueueLeadsTo, IsCurrentQueue, LastWord, BatchesGive
 <2> QED BY <2>4, <2>5 DEF r, ws
<1>4. CASE q.writes[1].of # q.generation
 <2>1. ws = Tail(q.writes) /\ ws \in Seq(Batch(section))
   BY <1>1, <1>2, <1>4
 <2>2. ~ QueueLeadsTo(section, q, server, pref)
   BY <1>2, <1>4 DEF QueueLeadsTo, IsCurrentQueue
 <2> HIDE DEF ws
 <2>3. r \in SettingsQueue(section)
   BY <2>1 DEF SettingsQueue
 <2> QED BY <2>2, <2>3 DEF ws
<1> QED BY <1>3, <1>4

LEMMA EnqueuedKeeps ==
  ASSUME NEW section \in Section, NEW q \in SettingsQueue(section), NEW patch \in PatchOf(section),
         NEW server, NEW pref, NEW next, \A key \in DOMAIN patch : next[key] = patch[key],
         \A key \in PatchKeys(section) \ DOMAIN patch : next[key] = pref[key]
  PROVE  /\ Enqueued(q, patch) \in SettingsQueue(section)
         /\ QueueLeadsTo(section, q, server, pref)
              => QueueLeadsTo(section, Enqueued(q, patch), server, next)
<1> DEFINE r == Enqueued(q, patch)
           pending == Over(q.pending, patch)
<1>1. q.pending \in PatchOf(section) /\ q.writes \in Seq(Batch(section))
  BY QueueIs
<1>2. /\ pending \in PatchOf(section) /\ DOMAIN pending = DOMAIN q.pending \union DOMAIN patch
      /\ \A key \in DOMAIN pending : pending[key] = IF key \in DOMAIN patch THEN patch[key] ELSE q.pending[key]
 <2>1. pending \in PatchOf(section)
   BY <1>1, PatchesOver
 <2>2. pending = [key \in DOMAIN q.pending \union DOMAIN patch |->
                    IF key \in DOMAIN patch THEN patch[key] ELSE q.pending[key]]
   BY DEF Over
 <2> QED BY <2>1, <2>2
<1>3. r = [q EXCEPT !.pending = pending, !.timer = TRUE]
  BY DEF Enqueued
<1> HIDE DEF r, pending
<1>4. r \in SettingsQueue(section) /\ r.pending = pending /\ r.writes = q.writes /\ r.generation = q.generation
  BY <1>2, <1>3 DEF SettingsQueue
<1>5. QueueLeadsTo(section, q, server, pref) => QueueLeadsTo(section, r, server, next)
  BY <1>2, <1>4 DEF QueueLeadsTo, IsCurrentQueue, LastWord
<1> QED BY <1>4, <1>5 DEF r

LEMMA CancelledIs ==
  ASSUME NEW section \in Section, NEW q \in SettingsQueue(section)
  PROVE  /\ CancelPending(q) \in SettingsQueue(section)
         /\ CancelPending(q).pending = None /\ CancelPending(q).writes = q.writes
<1> DEFINE g == q.generation + 1
           r == CancelPending(q)
<1>1. q.generation \in Nat
  BY QueueIs
<1>2. g \in Nat
  BY <1>1
<1>3. r = [q EXCEPT !.pending = None, !.timer = FALSE, !.generation = g]
  BY DEF CancelPending
<1>4. None \in PatchOf(section)
  BY NonePartial DEF PatchOf
<1> HIDE DEF g, r
<1>5. r \in SettingsQueue(section) /\ r.pending = None /\ r.writes = q.writes
  BY <1>2, <1>3, <1>4 DEF SettingsQueue
<1> QED BY <1>5 DEF r

LEMMA SectionChanges ==
  ASSUME PreferencesInv, NEW section \in Section, NEW q \in SettingsQueue(section),
         NEW d \in [PatchKeys(section) -> Value], NEW p \in [PatchKeys(section) -> Value],
         writer' = [writer EXCEPT ![section] = q], document' = [document EXCEPT ![section] = d],
         prefs' = [prefs EXCEPT ![section] = p], fetched' = fetched \/ fetched' = document,
         crossed \subseteq crossed', crossed' \subseteq Section,
         section \notin crossed' => QueueLeadsTo(section, q, d, p)
  PROVE  PreferencesInv'
<1>1. PreferencesTypeOK
  BY DEF PreferencesInv
<1>2. /\ DOMAIN writer' = Section /\ writer' = [s \in Section |-> writer'[s]]
      /\ DOMAIN document' = Section /\ document' = [s \in Section |-> document'[s]]
      /\ DOMAIN prefs' = Section /\ prefs' = [s \in Section |-> prefs'[s]]
      /\ \A s \in Section : /\ writer'[s] = IF s = section THEN q ELSE writer[s]
                            /\ document'[s] = IF s = section THEN d ELSE document[s]
                            /\ prefs'[s] = IF s = section THEN p ELSE prefs[s]
  BY <1>1 DEF PreferencesTypeOK, IsDocumentOf
<1>3. IsDocumentOf(document') /\ IsDocumentOf(prefs')
  BY <1>1, <1>2 DEF PreferencesTypeOK, IsDocumentOf
<1>4. PreferencesTypeOK'
  BY <1>1, <1>2, <1>3 DEF PreferencesTypeOK
<1>5. ASSUME NEW s \in Section \ crossed'
      PROVE  QueueLeadsTo(s, writer'[s], document'[s], prefs'[s])
  BY <1>2 DEF PreferencesInv
<1> QED BY <1>4, <1>5 DEF PreferencesInv

LEMMA SectionIs ==
  ASSUME PreferencesInv, NEW section \in Section
  PROVE  /\ writer[section] \in SettingsQueue(section)
         /\ document[section] \in [PatchKeys(section) -> Value]
         /\ prefs[section] \in [PatchKeys(section) -> Value]
         /\ document = [document EXCEPT ![section] = document[section]]
         /\ prefs = [prefs EXCEPT ![section] = prefs[section]]
         /\ writer = [writer EXCEPT ![section] = writer[section]]
         /\ crossed \subseteq Section
         /\ section \notin crossed =>
              QueueLeadsTo(section, writer[section], document[section], prefs[section])
BY DEF PreferencesInv, PreferencesTypeOK, IsDocumentOf

LEMMA QueueStepsKeep ==
  ASSUME PreferencesInv, NEW section \in Section,
         TimerFires(section) \/ SendBatch(section) \/ BatchLands(section) \/ BatchFails(section)
  PROVE  PreferencesInv'
<1> DEFINE q == writer[section]
<1>1. CASE TimerFires(section)
 <2> DEFINE r == Dispatched(q)
 <2>1. /\ writer' = [writer EXCEPT ![section] = r]
       /\ UNCHANGED <<prefs, document, fetched, crossed>>
   BY <1>1 DEF TimerFires
 <2>2. /\ r \in SettingsQueue(section)
       /\ section \notin crossed => QueueLeadsTo(section, r, document[section], prefs[section])
   BY SectionIs, DispatchKeeps
 <2> HIDE DEF r
 <2> QED BY <2>1, <2>2, SectionIs, SectionChanges
<1>2. CASE SendBatch(section)
 <2> DEFINE r == [q EXCEPT !.writes = IF q.writes[1].of = q.generation THEN [@ EXCEPT ![1].sent = TRUE]
                                      ELSE Tail(@)]
 <2>1. /\ q.writes # <<>> /\ writer' = [writer EXCEPT ![section] = r]
       /\ UNCHANGED <<prefs, document, fetched, crossed>>
   BY <1>2, SectionIs DEF SendBatch, SettingsQueue
 <2>2. /\ r \in SettingsQueue(section)
       /\ section \notin crossed => QueueLeadsTo(section, r, document[section], prefs[section])
   BY <2>1, SectionIs, SendingKeeps
 <2> HIDE DEF r
 <2> QED BY <2>1, <2>2, SectionIs, SectionChanges
<1>3. ASSUME BatchLands(section) \/ BatchFails(section)
      PROVE  PreferencesInv'
 <2> DEFINE r == [q EXCEPT !.writes = Tail(@)]
            landed == Over(document[section], q.writes[1].patch)
 <2>1. /\ q.writes # <<>> /\ writer' = [writer EXCEPT ![section] = r]
       /\ UNCHANGED <<prefs, fetched>>
       /\ \/ document' = [document EXCEPT ![section] = landed] /\ crossed' = crossed
          \/ document' = document /\ crossed' = crossed \union {section}
   BY <1>3, SectionIs DEF BatchLands, BatchFails, Answered, SettingsQueue
 <2>2. /\ r \in SettingsQueue(section) /\ landed \in [PatchKeys(section) -> Value]
       /\ section \notin crossed => QueueLeadsTo(section, r, landed, prefs[section])
   BY <2>1, SectionIs, LandingKeeps
 <2> HIDE DEF r, landed
 <2>3. CASE document' = [document EXCEPT ![section] = landed] /\ crossed' = crossed
   BY <2>1, <2>2, <2>3, SectionIs, SectionChanges
 <2>4. CASE document' = document /\ crossed' = crossed \union {section}
  <3>1. document' = [document EXCEPT ![section] = document[section]]
    BY <2>4, SectionIs
  <3>2. crossed \subseteq crossed' /\ crossed' \subseteq Section /\ section \in crossed'
    BY <2>4, SectionIs
  <3>3. prefs' = [prefs EXCEPT ![section] = prefs[section]]
    BY <2>1, SectionIs
  <3> QED BY <2>1, <2>2, <3>1, <3>2, <3>3, SectionIs, SectionChanges
 <2> QED BY <2>1, <2>3, <2>4
<1> QED BY <1>1, <1>2, <1>3

LEMMA ChoosingKeeps ==
  ASSUME PreferencesInv, NEW section \in Section, NEW key \in PatchKeys(section), NEW value \in Choice,
         Choose(section, key, value), UNCHANGED <<document, fetched, crossed>>
  PROVE  PreferencesInv'
<1> DEFINE p == [prefs[section] EXCEPT ![key] = value]
           patch == IF section = "chart" THEN Put(None, key, value) ELSE p
           q == Enqueued(writer[section], patch)
<1>1. p \in [PatchKeys(section) -> Value]
  BY SectionIs DEF Value
<1>2. prefs' = [prefs EXCEPT ![section] = p] /\ prefs'[section] = p
  BY SectionIs DEF Choose, PreferencesInv, PreferencesTypeOK, IsDocumentOf
<1>3. writer' = [writer EXCEPT ![section] = q]
  BY <1>2, SectionIs DEF Choose, PreferencesInv, PreferencesTypeOK
<1>4. /\ patch \in PatchOf(section)
      /\ \A k \in DOMAIN patch : p[k] = patch[k]
      /\ \A k \in PatchKeys(section) \ DOMAIN patch : p[k] = prefs[section][k]
 <2>1. CASE section = "chart"
  <3>1. Put(None, key, value) \in PatchOf(section)
    BY NonePartial, PutPartial DEF PatchOf, Value
  <3>2. DOMAIN Put(None, key, value) = {key} /\ Put(None, key, value)[key] = value
    BY NonePartial DEF Put
  <3> QED BY <2>1, <3>1, <3>2, SectionIs
 <2>2. CASE section # "chart"
  <3>1. p \in PatchOf(section)
    BY <1>1 DEF PatchOf, Partially
  <3> QED BY <1>1, <2>2, <3>1
 <2> QED BY <2>1, <2>2
<1> HIDE DEF p, patch
<1>5. /\ q \in SettingsQueue(section)
      /\ section \notin crossed => QueueLeadsTo(section, q, document[section], p)
  BY <1>4, SectionIs, EnqueuedKeeps
<1> HIDE DEF q
<1> QED BY <1>1, <1>2, <1>3, <1>5, SectionIs, SectionChanges

(***************************************************************************)
(* The choices, and the panels of a layout.                                *)
(***************************************************************************)
LEMMA ChoicesKeep ==
  ASSUME PreferencesInv, NEW value \in Choice,
         \/ SetSymbol(value) \/ SetChartTimeZone(value) \/ SetTheme(value)
         \/ SetPanel(value) \/ ToggleSmc(value)
  PROVE  PreferencesInv'
<1>1. /\ "symbol" \in PatchKeys("chart") /\ "zone" \in PatchKeys("chart") /\ "theme" \in PatchKeys("ui")
      /\ "panels" \in PatchKeys("ui") /\ "overlays" \in PatchKeys("smc")
      /\ "chart" \in Section /\ "ui" \in Section /\ "smc" \in Section
  BY DEF PatchKeys, Section
<1>2. CASE SetSymbol(value)
  BY <1>1, <1>2, ChoosingKeeps DEF SetSymbol
<1>3. CASE SetChartTimeZone(value)
  BY <1>1, <1>3, ChoosingKeeps DEF SetChartTimeZone
<1>4. CASE SetTheme(value)
  BY <1>1, <1>4, ChoosingKeeps DEF SetTheme
<1>5. CASE SetPanel(value)
  BY <1>1, <1>5, ChoosingKeeps DEF SetPanel
<1>6. CASE ToggleSmc(value)
  BY <1>1, <1>6, ChoosingKeeps DEF ToggleSmc
<1> QED BY <1>2, <1>3, <1>4, <1>5, <1>6

LEMMA ApplySavedPanelsKeeps ==
  ASSUME PreferencesInv, NEW value \in Choice, ApplySavedPanels(value)
  PROVE  PreferencesInv'
<1> DEFINE p == [prefs["ui"] EXCEPT !["panels"] = value]
<1>1. "ui" \in Section
  BY DEF Section
<1>2. prefs' = [prefs EXCEPT !["ui"] = p] /\ crossed' = crossed \union {"ui"}
      /\ UNCHANGED <<writer, document, fetched>>
  BY <1>1, SectionIs DEF ApplySavedPanels
<1>3. p \in [PatchKeys("ui") -> Value]
  BY <1>1, SectionIs DEF Value
<1>4. crossed \subseteq crossed' /\ crossed' \subseteq Section /\ "ui" \in crossed'
  BY <1>1, <1>2, SectionIs
<1>5. /\ writer' = [writer EXCEPT !["ui"] = writer["ui"]]
      /\ document' = [document EXCEPT !["ui"] = document["ui"]]
  BY <1>1, <1>2, SectionIs
<1> HIDE DEF p
<1> QED BY <1>1, <1>2, <1>3, <1>4, <1>5, SectionIs, SectionChanges

(***************************************************************************)
(* The bootstrap, the reload and the sign-out.                             *)
(***************************************************************************)
LEMMA ApplyRemoteSettingsKeeps ==
  ASSUME PreferencesInv, ApplyRemoteSettings
  PROVE  PreferencesInv'
<1> DEFINE symbol == ResolveCurrentChartSymbol
           again == marked /\ symbol # fetched.chart.symbol
           Next(s) == IF s = "chart" THEN [fetched["chart"] EXCEPT !["symbol"] = symbol] ELSE fetched[s]
           Again(s) == Enqueued(CancelPending(writer[s]), Put(None, "symbol", symbol))
           Queue(s) == IF s = "chart" /\ again THEN Again(s) ELSE CancelPending(writer[s])
<1>1. PreferencesTypeOK /\ fetched # Nothing /\ IsDocumentOf(fetched) /\ "chart" \in Section
      /\ "symbol" \in PatchKeys("chart")
  BY DEF PreferencesInv, PreferencesTypeOK, ApplyRemoteSettings, Section, PatchKeys
<1>2. symbol \in Value
  BY <1>1 DEF ResolveCurrentChartSymbol, PreferencesTypeOK, IsDocumentOf
<1>3. DOMAIN prefs' = Section /\ prefs' = [s \in Section |-> prefs'[s]]
      /\ \A s \in Section : prefs'[s] = Next(s)
  BY <1>1 DEF ApplyRemoteSettings, IsDocumentOf
<1>4. /\ writer' = [s \in Section |-> Queue(s)] /\ document' = document /\ fetched' = Nothing
      /\ crossed' = {s \in Section : writer[s].writes # <<>> \/ fetched[s] # document[s]}
  BY DEF ApplyRemoteSettings
<1>5. ASSUME NEW s \in Section
      PROVE  Next(s) \in [PatchKeys(s) -> Value]
  BY <1>1, <1>2 DEF IsDocumentOf
<1>6. ASSUME NEW s \in Section
      PROVE  /\ CancelPending(writer[s]) \in SettingsQueue(s)
             /\ CancelPending(writer[s]).pending = None
             /\ CancelPending(writer[s]).writes = writer[s].writes
  BY SectionIs, CancelledIs
<1>7. again => Put(None, "symbol", symbol) \in PatchOf("chart")
  BY <1>1, <1>2, NonePartial, PutPartial DEF PatchOf
<1>8. DOMAIN Put(None, "symbol", symbol) = {"symbol"} /\ Put(None, "symbol", symbol)["symbol"] = symbol
  BY NonePartial DEF Put
<1>9. ~ again => symbol = fetched["chart"]["symbol"]
  BY DEF ResolveCurrentChartSymbol
<1> HIDE DEF symbol, again
<1>10. ASSUME NEW s \in Section
       PROVE  /\ Queue(s) \in SettingsQueue(s)
              /\ s \notin crossed' => QueueLeadsTo(s, Queue(s), document[s], Next(s))
 <2>1. ASSUME s \notin crossed'
       PROVE  QueueLeadsTo(s, CancelPending(writer[s]), document[s], fetched[s])
  <3>1. writer[s].writes = <<>> /\ fetched[s] = document[s]
    BY <1>4, <2>1
  <3> QED BY <1>6, <3>1, NothingPending
 <2>2. CASE s = "chart" /\ again
  <3>1. /\ \A key \in DOMAIN Put(None, "symbol", symbol) :
              Next(s)[key] = Put(None, "symbol", symbol)[key]
        /\ \A key \in PatchKeys(s) \ DOMAIN Put(None, "symbol", symbol) : Next(s)[key] = fetched[s][key]
    BY <1>1, <1>8, <2>2 DEF IsDocumentOf
  <3> HIDE DEF Next
  <3>2. /\ Again(s) \in SettingsQueue(s)
        /\ QueueLeadsTo(s, CancelPending(writer[s]), document[s], fetched[s])
              => QueueLeadsTo(s, Again(s), document[s], Next(s))
    BY <1>6, <1>7, <2>2, <3>1, EnqueuedKeeps
  <3> QED BY <2>1, <2>2, <3>2
 <2>3. CASE ~ (s = "chart" /\ again)
  <3>1. Next(s) = fetched[s]
    BY <1>1, <1>9, <2>3 DEF IsDocumentOf
  <3>2. Queue(s) = CancelPending(writer[s])
    BY <2>3
  <3> QED BY <1>6, <2>1, <3>1, <3>2
 <2> QED BY <2>2, <2>3
<1> HIDE DEF Next, Queue
<1>11. PreferencesTypeOK'
 <2>1. IsDocumentOf(prefs') /\ IsDocumentOf(document')
   BY <1>1, <1>3, <1>4, <1>5 DEF PreferencesTypeOK, IsDocumentOf
 <2>2. DOMAIN writer' = Section /\ writer' = [s \in Section |-> writer'[s]]
       /\ \A s \in Section : writer'[s] \in SettingsQueue(s)
   BY <1>4, <1>10
 <2> QED BY <1>4, <2>1, <2>2 DEF PreferencesTypeOK
<1>12. ASSUME NEW s \in Section \ crossed'
       PROVE  QueueLeadsTo(s, writer'[s], document'[s], prefs'[s])
  BY <1>3, <1>4, <1>10
<1> QED BY <1>11, <1>12 DEF PreferencesInv

(* A page that starts again and a sign-out that is over hold types only:    *)
(* what they leave is fetched, and every section counts as crossed.         *)
LEMMA StartingAgainKeeps ==
  ASSUME PreferencesInv, ReloadPage \/ ResetToDefaults
  PROVE  PreferencesInv'
<1>1. PreferencesTypeOK
  BY DEF PreferencesInv
<1>2. IsDocumentOf(prefs') /\ crossed' = Section
 <2>1. CASE ReloadPage
   BY <1>1, <2>1 DEF ReloadPage, PreferencesTypeOK
 <2>2. CASE ResetToDefaults
   BY <2>2 DEF ResetToDefaults, IsDocumentOf, AllAt, Value
 <2> QED BY <2>1, <2>2
<1>3. /\ DOMAIN writer' = Section /\ writer' = [s \in Section |-> writer'[s]]
      /\ \A s \in Section : writer'[s] \in SettingsQueue(s)
 <2>1. CASE ReloadPage
   BY <2>1, QuietQueue DEF ReloadPage
 <2>2. CASE ResetToDefaults
  <3>1. \A s \in Section : CancelPending(writer[s]) \in SettingsQueue(s)
    BY SectionIs, CancelledIs
  <3>2. writer' = [s \in Section |-> CancelPending(writer[s])]
    BY <2>2 DEF ResetToDefaults
  <3> QED BY <3>1, <3>2
 <2> QED BY <2>1, <2>2
<1>4. IsDocumentOf(document') /\ (fetched' = Nothing \/ IsDocumentOf(fetched'))
 <2>1. CASE ReloadPage
  <3>1. PICK lost \in SUBSET {s \in Section : writer[s].writes # <<>> /\ writer[s].writes[1].sent} :
          document' = [s \in Section |-> IF s \in lost THEN Over(document[s], writer[s].writes[1].patch)
                                         ELSE document[s]]
    BY <2>1 DEF ReloadPage
  <3>2. ASSUME NEW s \in Section, s \in lost
        PROVE  Over(document[s], writer[s].writes[1].patch) \in [PatchKeys(s) -> Value]
   <4>1. writer[s].writes # <<>> /\ writer[s] \in SettingsQueue(s)
     BY <3>2, SectionIs
   <4>2. writer[s].writes[1].patch \in PatchOf(s)
    <5>1. 1 \in 1..Len(writer[s].writes)
      BY <4>1, QueueIs
    <5> QED BY <4>1, <5>1, QueueIs
   <4> QED BY <4>2, SectionIs, DocumentOver
  <3>3. IsDocumentOf(document')
    BY <3>1, <3>2, SectionIs DEF IsDocumentOf
  <3>4. fetched' = document
    BY <2>1 DEF ReloadPage
  <3> QED BY <1>1, <3>3, <3>4 DEF PreferencesTypeOK
 <2>2. CASE ResetToDefaults
   BY <1>1, <2>2 DEF ResetToDefaults, PreferencesTypeOK
 <2> QED BY <2>1, <2>2
<1>5. PreferencesTypeOK'
  BY <1>2, <1>3, <1>4 DEF PreferencesTypeOK
<1> QED BY <1>2, <1>5 DEF PreferencesInv

LEMMA SignOutKeeps ==
  ASSUME PreferencesInv, StartSignOut \/ QueueFlushed \/ FinalWrite \/ FinalWriteFails \/ FetchSettings
  PROVE  PreferencesInv'
<1>1. "chart" \in Section /\ "symbol" \in PatchKeys("chart")
  BY DEF Section, PatchKeys
<1>2. CASE StartSignOut
 <2> DEFINE q == Dispatched(writer["chart"])
 <2>1. /\ q \in SettingsQueue("chart")
       /\ "chart" \notin crossed => QueueLeadsTo("chart", q, document["chart"], prefs["chart"])
   BY <1>1, SectionIs, DispatchKeeps
 <2>2. /\ writer' = [writer EXCEPT !["chart"] = q]
       /\ UNCHANGED <<prefs, document, fetched, crossed>>
   BY <1>2 DEF StartSignOut
 <2> HIDE DEF q
 <2> QED BY <1>1, <2>1, <2>2, SectionIs, SectionChanges
<1>3. CASE FinalWrite
 <2> DEFINE d == [document["chart"] EXCEPT !["symbol"] = prefs["chart"]["symbol"]]
            q == writer["chart"]
 <2>1. /\ document' = [document EXCEPT !["chart"] = d]
       /\ UNCHANGED <<prefs, writer, fetched, crossed>>
   BY <1>1, <1>3, SectionIs DEF FinalWrite
 <2>2. /\ d \in [PatchKeys("chart") -> Value]
       /\ \A key \in PatchKeys("chart") : d[key] = prefs["chart"][key] \/ d[key] = document["chart"][key]
   BY <1>1, SectionIs
 <2> HIDE DEF d
 <2>3. "chart" \notin crossed => QueueLeadsTo("chart", q, d, prefs["chart"])
  <3> SUFFICES ASSUME QueueLeadsTo("chart", q, document["chart"], prefs["chart"])
               PROVE  QueueLeadsTo("chart", q, d, prefs["chart"])
    BY <1>1, SectionIs
  <3>1. ASSUME NEW key \in PatchKeys("chart")
        PROVE  LastWord("chart", key, q, d, prefs["chart"])
   <4>1. LastWord("chart", key, q, document["chart"], prefs["chart"])
     BY <3>1 DEF QueueLeadsTo
   <4>2. d[key] = prefs["chart"][key] \/ d[key] = document["chart"][key]
     BY <2>2
   <4>3. BatchesGive(q.writes, key, document["chart"][key], prefs["chart"][key])
           => BatchesGive(q.writes, key, d[key], prefs["chart"][key])
     BY <4>2 DEF BatchesGive
   <4> HIDE DEF q
   <4> QED BY <4>1, <4>3 DEF LastWord
  <3> QED BY <3>1 DEF QueueLeadsTo
 <2>4. /\ q \in SettingsQueue("chart") /\ prefs["chart"] \in [PatchKeys("chart") -> Value]
       /\ writer' = [writer EXCEPT !["chart"] = q]
       /\ prefs' = [prefs EXCEPT !["chart"] = prefs["chart"]]
       /\ fetched' = fetched /\ crossed' = crossed /\ crossed \subseteq Section
   BY <1>1, <2>1, SectionIs
 <2> HIDE DEF q
 <2> QED BY <1>1, <2>1, <2>2, <2>3, <2>4, SectionChanges
<1>4. CASE QueueFlushed \/ FinalWriteFails \/ FetchSettings
 <2>1. UNCHANGED <<prefs, writer, document, crossed>> /\ (fetched' = fetched \/ fetched' = document)
   BY <1>4 DEF QueueFlushed, FinalWriteFails, FetchSettings
 <2>2. /\ prefs' = [prefs EXCEPT !["chart"] = prefs["chart"]]
       /\ document' = [document EXCEPT !["chart"] = document["chart"]]
       /\ writer' = [writer EXCEPT !["chart"] = writer["chart"]]
   BY <1>1, <2>1, SectionIs
 <2>3. /\ crossed \subseteq crossed' /\ crossed' \subseteq Section
       /\ "chart" \notin crossed' =>
            QueueLeadsTo("chart", writer["chart"], document["chart"], prefs["chart"])
   BY <1>1, <2>1, SectionIs
 <2>4. /\ writer["chart"] \in SettingsQueue("chart")
       /\ document["chart"] \in [PatchKeys("chart") -> Value]
       /\ prefs["chart"] \in [PatchKeys("chart") -> Value]
   BY <1>1, SectionIs
 <2>5. fetched' = fetched \/ fetched' = document
   BY <2>1
 <2> QED BY <1>1, <2>2, <2>3, <2>4, <2>5, SectionChanges
<1> QED BY <1>2, <1>3, <1>4

LEMMA PreferencesKeep == PreferencesInv /\ [PreferencesNext]_preferenceVars => PreferencesInv'
<1> SUFFICES ASSUME PreferencesInv, [PreferencesNext]_preferenceVars
             PROVE  PreferencesInv'
  OBVIOUS
<1>1. CASE UNCHANGED preferenceVars
  BY <1>1 DEF preferenceVars, PreferencesInv, PreferencesTypeOK
<1>2. ASSUME NEW section \in Section,
             TimerFires(section) \/ SendBatch(section) \/ BatchLands(section) \/ BatchFails(section)
      PROVE  PreferencesInv'
  BY <1>2, QueueStepsKeep
<1>3. ASSUME NEW value \in Choice,
             \/ SetSymbol(value) \/ SetChartTimeZone(value) \/ SetTheme(value)
             \/ SetPanel(value) \/ ToggleSmc(value) \/ ApplySavedPanels(value)
      PROVE  PreferencesInv'
  BY <1>3, ChoicesKeep, ApplySavedPanelsKeeps
<1>4. CASE FetchSettings \/ ApplyRemoteSettings \/ ReloadPage \/ StartSignOut \/ QueueFlushed
             \/ FinalWrite \/ FinalWriteFails \/ ResetToDefaults
  BY <1>4, SignOutKeeps, ApplyRemoteSettingsKeeps, StartingAgainKeeps
<1> QED BY <1>1, <1>2, <1>3, <1>4 DEF PreferencesNext

(* The settings of a section reach the server: once its queue is quiet and  *)
(* no bootstrap is open, the document holds the last choice of every key    *)
(* (createSettingsMutationQueue).                                           *)
THEOREM SettingsReachTheServer == PreferencesSpec => []SettingsLand
<1>1. PreferencesInv => SettingsLand
 <2> SUFFICES ASSUME PreferencesInv, NEW section \in Section \ crossed,
                     writer[section].pending = None, writer[section].writes = <<>>
              PROVE  document[section] = prefs[section]
   BY DEF SettingsLand
 <2>1. \A key \in PatchKeys(section) : document[section][key] = prefs[section][key]
   BY NothingPending DEF PreferencesInv
 <2> QED BY <2>1, SectionIs
<1> QED BY <1>1, PreferencesStart, PreferencesKeep, PTL DEF PreferencesSpec

(***************************************************************************)
(* Indicators.  What a pass is made of: the sets of calls, put in some     *)
(* order.                                                                  *)
(***************************************************************************)
LEMMA SetToSeqIs ==
  ASSUME NEW S, IsFiniteSet(S)
  PROVE  /\ SetToSeq(S) \in Seq(S)
         /\ Len(SetToSeq(S)) = Cardinality(S) /\ Cardinality(S) \in Nat
         /\ \A x \in S : \E i \in 1..Len(SetToSeq(S)) : SetToSeq(S)[i] = x
         /\ \A i, j \in 1..Len(SetToSeq(S)) : SetToSeq(S)[i] = SetToSeq(S)[j] => i = j
<1> DEFINE n == Cardinality(S)
           s == SetToSeq(S)
<1>1. n \in Nat /\ ExistsBijection(1..n, S)
  BY FS_CardinalityType
<1>2. \E f \in [1..n -> S] : IsInjective(f)
  BY <1>1 DEF ExistsBijection, Bijection, Injection, IsInjective
<1>3. s \in [1..n -> S] /\ IsInjective(s)
  BY <1>2 DEF SetToSeq
<1> HIDE DEF s
<1>4. s \in Injection(1..n, S)
  BY <1>3 DEF Injection, IsInjective
<1>5. s \in Surjection(1..n, S)
 <2>1. IsFiniteSet(1..n) /\ Cardinality(1..n) = n
   BY <1>1, FS_Interval
 <2> QED BY <1>4, <2>1, FS_Injection
<1>6. s \in Seq(S) /\ Len(s) = n
  BY <1>1, <1>3
<1>7. \A x \in S : \E i \in 1..n : s[i] = x
  BY <1>5 DEF Surjection
<1> QED BY <1>1, <1>3, <1>6, <1>7 DEF s, IsInjective

LEMMA ImageIsFinite ==
  ASSUME NEW S, IsFiniteSet(S), NEW f, DOMAIN f = S, f = [x \in S |-> f[x]]
  PROVE  IsFiniteSet({f[x] : x \in S})
<1>1. f \in Surjection(S, {f[x] : x \in S})
  BY DEF Surjection
<1> QED BY <1>1, FS_Surjection

(***************************************************************************)
(* Undisturbed, at most one pass runs; what is queued is what the registry *)
(* says, and what is not queued is what the pass will leave at the server. *)
(***************************************************************************)
IndicatorId == 1..MaxIndicators
PassCalls == IF passes = <<>> THEN <<>> ELSE passes[1].left
IsTable(f) == f = [id \in DOMAIN f |-> f[id]] /\ DOMAIN f \subseteq IndicatorId
(* A call that says of its indicator what the registry says. *)
Right(call) == IF call.op = "delete" THEN call.id \notin DOMAIN registry
               ELSE call.id \in DOMAIN registry /\ call.row = registry[call.id]
IsSettled(id) == /\ id \in DOMAIN registry <=> id \in DOMAIN indicatorPresets
                 /\ id \in DOMAIN registry => indicatorPresets[id] = registry[id]
Called(id) == \E i \in 1..Len(PassCalls) : PassCalls[i].id = id

OutboxIsRight ==
  /\ outbox = [ups |-> outbox.ups, dels |-> outbox.dels, timer |-> outbox.timer]
  /\ IsTable(outbox.ups) /\ IsFiniteSet(DOMAIN outbox.ups)
  /\ outbox.dels \subseteq IndicatorId /\ IsFiniteSet(outbox.dels)
  /\ outbox.dels \intersect DOMAIN registry = {}
  /\ \A id \in DOMAIN outbox.ups : id \in DOMAIN registry /\ outbox.ups[id] = registry[id]
  /\ ~ outbox.timer => outbox.dels = {} /\ DOMAIN outbox.ups = {}
OnePass ==
  /\ passes = <<>> \/ (passes = <<passes[1]>> /\ passes[1].left # <<>>
                         /\ passes[1] = [left |-> passes[1].left, ups |-> passes[1].ups, dels |-> passes[1].dels])
  /\ Len(PassCalls) \in Nat /\ PassCalls = [i \in 1..Len(PassCalls) |-> PassCalls[i]]
  /\ \A i \in 1..Len(PassCalls) : PassCalls[i].id \in IndicatorId
  /\ \A i, j \in 1..Len(PassCalls) : PassCalls[i].id = PassCalls[j].id => i = j
RestIsSent ==
  \A id \in IndicatorId \ (DOMAIN outbox.ups \union outbox.dels) :
    IF Called(id) THEN \A i \in 1..Len(PassCalls) : PassCalls[i].id = id => Right(PassCalls[i])
    ELSE IsSettled(id)
IndicatorsFollow ==
  /\ IsTable(registry) /\ IsFiniteSet(DOMAIN registry)
  /\ IsTable(indicatorPresets) /\ IsFiniteSet(DOMAIN indicatorPresets)
  /\ OutboxIsRight /\ OnePass /\ RestIsSent
IndicatorsInv == disturbed \in BOOLEAN /\ (~ disturbed => IndicatorsFollow)

LEMMA IndicatorsStart == IndicatorsInit => IndicatorsInv
<1> SUFFICES ASSUME IndicatorsInit PROVE IndicatorsInv
  OBVIOUS
<1>1. /\ registry = None /\ indicatorPresets = None /\ passes = <<>> /\ disturbed = FALSE
      /\ outbox = [ups |-> None, dels |-> {}, timer |-> FALSE]
  BY DEF IndicatorsInit
<1>2. None = [id \in {} |-> None[id]] /\ DOMAIN None = {}
  BY DEF None
<1>3. PassCalls = <<>> /\ Len(PassCalls) = 0 /\ PassCalls = [i \in 1..0 |-> PassCalls[i]] /\ 1..0 = {}
  BY <1>1 DEF PassCalls
<1>4. /\ IsTable(registry) /\ IsFiniteSet(DOMAIN registry)
      /\ IsTable(indicatorPresets) /\ IsFiniteSet(DOMAIN indicatorPresets)
  BY <1>1, <1>2, FS_EmptySet DEF IsTable
<1>5. OutboxIsRight
  BY <1>1, <1>2, FS_EmptySet DEF OutboxIsRight, IsTable
<1>6. OnePass
  BY <1>1, <1>3 DEF OnePass
<1>7. RestIsSent
  BY <1>1, <1>2 DEF RestIsSent, IsSettled, Called, PassCalls
<1> QED BY <1>1, <1>4, <1>5, <1>6, <1>7 DEF IndicatorsInv, IndicatorsFollow

(* A change of the registry queues all that is in it, and what left it.     *)
LEMMA CommitKeeps ==
  ASSUME IndicatorsFollow, NEW rows, NEW removed, IsTable(rows), IsFiniteSet(DOMAIN rows),
         removed \subseteq DOMAIN registry, DOMAIN registry \ removed \subseteq DOMAIN rows,
         DOMAIN rows \intersect removed = {},
         registry' = rows,
         NEW before, before = IF removed = {} THEN outbox ELSE Deleted(outbox, removed),
         outbox' = Upserted(before, rows), UNCHANGED <<passes, indicatorPresets>>
  PROVE  IndicatorsFollow'
<1> DEFINE dels == (outbox.dels \union removed) \ DOMAIN rows
<1>1. OutboxIsRight /\ IsTable(registry) /\ IsFiniteSet(DOMAIN registry)
  BY DEF IndicatorsFollow
<1>2. rows = [id \in DOMAIN rows |-> rows[id]] /\ DOMAIN rows \subseteq IndicatorId
  BY DEF IsTable
<1>3. outbox' = [ups |-> rows, dels |-> dels, timer |-> TRUE]
 <2>1. CASE removed = {}
  <3>1. DOMAIN outbox.ups \union DOMAIN rows = DOMAIN rows
    BY <1>1, <2>1 DEF OutboxIsRight
  <3>2. before = outbox
    BY <2>1
  <3> QED BY <1>2, <2>1, <3>1, <3>2 DEF Upserted
 <2>2. CASE removed # {}
  <3> DEFINE o == Deleted(outbox, removed)
  <3>1. /\ o.ups = [id \in DOMAIN outbox.ups \ removed |-> outbox.ups[id]]
        /\ o.dels = outbox.dels \union removed
    BY DEF Deleted, Drop
  <3>2. DOMAIN o.ups \union DOMAIN rows = DOMAIN rows
    BY <1>1, <3>1 DEF OutboxIsRight
  <3>a. before = o
    BY <2>2
  <3> HIDE DEF o
  <3>3. outbox' = Upserted(o, rows)
    BY <3>a
  <3> QED BY <1>2, <3>1, <3>2, <3>3 DEF Upserted
 <2> QED BY <2>1, <2>2
<1>4. outbox'.ups = rows /\ outbox'.dels = dels /\ outbox'.timer = TRUE
  BY <1>3
<1>5. dels \subseteq IndicatorId /\ IsFiniteSet(dels)
 <2>1. IsFiniteSet(removed)
   BY <1>1, FS_Subset
 <2>2. IsFiniteSet(outbox.dels \union removed)
   BY <1>1, <2>1, FS_Union DEF OutboxIsRight
 <2>3. IsFiniteSet(dels)
   BY <2>2, FS_Subset
 <2>4. outbox.dels \subseteq IndicatorId /\ removed \subseteq IndicatorId
   BY <1>1 DEF OutboxIsRight, IsTable
 <2> QED BY <2>3, <2>4
<1> HIDE DEF dels
<1>6. OutboxIsRight'
 <2>1. dels \intersect DOMAIN rows = {}
   BY DEF dels
 <2> QED BY <1>3, <1>4, <1>5, <2>1 DEF OutboxIsRight
<1>7. OnePass' /\ (PassCalls' = PassCalls) /\ (IsTable(registry) /\ IsTable(indicatorPresets))'
      /\ IsFiniteSet(DOMAIN registry') /\ IsFiniteSet(DOMAIN indicatorPresets')
  BY DEF IndicatorsFollow, OnePass, PassCalls, IsTable
<1>8. ASSUME NEW id \in IndicatorId, id \notin DOMAIN rows, id \notin dels
      PROVE  IF Called(id)' THEN \A i \in 1..Len(PassCalls') : PassCalls'[i].id = id => Right(PassCalls[i])'
             ELSE IsSettled(id)'
 <2>1. id \notin DOMAIN registry /\ id \notin outbox.dels
   BY <1>8 DEF dels
 <2>2. id \notin DOMAIN outbox.ups
   BY <1>1, <2>1 DEF OutboxIsRight
 <2>3. IF Called(id) THEN \A i \in 1..Len(PassCalls) : PassCalls[i].id = id => Right(PassCalls[i])
       ELSE IsSettled(id)
   BY <2>1, <2>2 DEF IndicatorsFollow, RestIsSent
 <2>4. Called(id)' = Called(id)
   BY <1>7 DEF Called
 <2>5. CASE Called(id)
   BY <1>7, <1>8, <2>1, <2>3, <2>4, <2>5 DEF Right
 <2>6. CASE ~ Called(id)
   BY <1>8, <2>1, <2>3, <2>4, <2>6 DEF IsSettled
 <2> QED BY <2>5, <2>6
<1>9. RestIsSent'
  BY <1>4, <1>8 DEF RestIsSent
<1> QED BY <1>6, <1>7, <1>9 DEF IndicatorsFollow

LEMMA OneMore ==
  ASSUME IndicatorsFollow, NEW id \in FreshIndicator, NEW row, CommitIndicators(Put(registry, id, row), {})
  PROVE  IndicatorsFollow'
<1> DEFINE rows == Put(registry, id, row)
<1>1. DOMAIN rows = DOMAIN registry \union {id} /\ rows = [i \in DOMAIN rows |-> rows[i]]
  BY DEF Put
<1>2. IsTable(registry) /\ IsFiniteSet(DOMAIN registry) /\ id \in IndicatorId
  BY DEF IndicatorsFollow, FreshIndicator, IndicatorId
<1>3. IsFiniteSet(DOMAIN registry \union {id})
  BY <1>2, FS_AddElement
<1>4. IsTable(rows) /\ IsFiniteSet(DOMAIN rows)
  BY <1>1, <1>2, <1>3 DEF IsTable
<1>5. registry' = rows /\ UNCHANGED <<passes, indicatorPresets>> /\ outbox' = Upserted(outbox, rows)
  BY DEF CommitIndicators
<1>6. outbox = IF {} = {} THEN outbox ELSE Deleted(outbox, {})
  OBVIOUS
<1> HIDE DEF rows
<1> QED BY <1>1, <1>4, <1>5, <1>6, CommitKeeps

LEMMA SomeLess ==
  ASSUME IndicatorsFollow, NEW removed, removed \subseteq DOMAIN registry,
         CommitIndicators(Drop(registry, removed), removed)
  PROVE  IndicatorsFollow'
<1> DEFINE rows == Drop(registry, removed)
<1>1. DOMAIN rows = DOMAIN registry \ removed /\ rows = [i \in DOMAIN rows |-> rows[i]]
  BY DEF Drop
<1>2. IsTable(registry) /\ IsFiniteSet(DOMAIN registry)
  BY DEF IndicatorsFollow
<1>3. IsFiniteSet(DOMAIN registry \ removed)
  BY <1>2, FS_Subset
<1>4. IsTable(rows) /\ IsFiniteSet(DOMAIN rows)
  BY <1>1, <1>2, <1>3 DEF IsTable
<1>5. registry' = rows /\ UNCHANGED <<passes, indicatorPresets>>
      /\ outbox' = Upserted(IF removed = {} THEN outbox ELSE Deleted(outbox, removed), rows)
  BY DEF CommitIndicators
<1> HIDE DEF rows
<1> QED BY <1>1, <1>4, <1>5, CommitKeeps

(* The settings or the scope of some change, or nothing does.               *)
LEMMA SameOnes ==
  ASSUME IndicatorsFollow, NEW rows, rows = [id \in DOMAIN registry |-> rows[id]],
         registry' = rows, outbox' = Upserted(outbox, rows), UNCHANGED <<passes, indicatorPresets>>
  PROVE  IndicatorsFollow'
<1>1. DOMAIN rows = DOMAIN registry /\ IsTable(registry) /\ IsFiniteSet(DOMAIN registry)
  BY DEF IndicatorsFollow
<1>2. IsTable(rows) /\ IsFiniteSet(DOMAIN rows)
  BY <1>1 DEF IsTable
<1>3. outbox = IF {} = {} THEN outbox ELSE Deleted(outbox, {})
  OBVIOUS
<1> QED BY <1>1, <1>2, <1>3, CommitKeeps

LEMMA UpdateKeeps ==
  ASSUME IndicatorsFollow, NEW id, id \in SelectIndicatorsForChart(context), NEW s, NEW on,
         UpdateIndicator(id, s, on)
  PROVE  IndicatorsFollow'
<1> DEFINE rows == [registry EXCEPT ![id].settings = s, ![id].shown = on]
<1>1. rows = [i \in DOMAIN registry |-> rows[i]]
  BY DEF IndicatorsFollow, IsTable
<1>2. registry' = rows /\ outbox' = Upserted(outbox, rows) /\ UNCHANGED <<passes, indicatorPresets>>
  BY DEF UpdateIndicator, CommitIndicators
<1> HIDE DEF rows
<1> QED BY <1>1, <1>2, SameOnes

LEMMA ChangesKeep ==
  ASSUME IndicatorsFollow,
         \/ \E kind \in IndicatorKind : AddIndicator(kind) \/ ToggleIndicator(kind) \/ CustomArrives(kind)
         \/ \E id \in 1..MaxIndicators : RemoveIndicator(id) \/ ToggleVisibility(id)
         \/ ClearIndicators \/ SaveSettings
         \/ \E layout : AdoptLayout(layout)
  PROVE  IndicatorsFollow'
<1>1. ASSUME NEW kind \in IndicatorKind, AddIndicator(kind)
      PROVE  IndicatorsFollow'
  BY <1>1, OneMore DEF AddIndicator
<1>2. ASSUME NEW kind \in IndicatorKind, ToggleIndicator(kind)
      PROVE  IndicatorsFollow'
 <2> DEFINE matches == {id \in SelectIndicatorsForChart(context) : registry[id].kind = kind}
 <2>1. matches \subseteq DOMAIN registry
   BY DEF SelectIndicatorsForChart
 <2>2. \/ CommitIndicators(Drop(registry, matches), matches)
       \/ \E id \in FreshIndicator : CommitIndicators(Put(registry, id, BindIndicatorToChart(kind, Nothing)), {})
   BY <1>2 DEF ToggleIndicator
 <2> HIDE DEF matches
 <2> QED BY <2>1, <2>2, OneMore, SomeLess
<1>3. ASSUME NEW kind \in IndicatorKind, CustomArrives(kind)
      PROVE  IndicatorsFollow'
 <2>1. \/ CommitIndicators(registry, {})
       \/ \E id \in FreshIndicator : CommitIndicators(Put(registry, id, BindIndicatorToChart(kind, Nothing)), {})
   BY <1>3 DEF CustomArrives
 <2>2. CASE CommitIndicators(registry, {})
  <3>1. registry = [id \in DOMAIN registry |-> registry[id]]
    BY DEF IndicatorsFollow, IsTable
  <3>2. registry' = registry /\ outbox' = Upserted(outbox, registry) /\ UNCHANGED <<passes, indicatorPresets>>
    BY <2>2 DEF CommitIndicators
  <3> QED BY <3>1, <3>2, SameOnes
 <2> QED BY <2>1, <2>2, OneMore
<1>4. ASSUME NEW id \in 1..MaxIndicators, RemoveIndicator(id)
      PROVE  IndicatorsFollow'
  BY <1>4, SomeLess DEF RemoveIndicator, SelectIndicatorsForChart
<1>5. ASSUME NEW id \in 1..MaxIndicators, ToggleVisibility(id)
      PROVE  IndicatorsFollow'
  BY <1>5, UpdateKeeps DEF ToggleVisibility
<1>6. CASE ClearIndicators
  BY <1>6, SomeLess DEF ClearIndicators, SelectIndicatorsForChart
<1>7. CASE SaveSettings
  BY <1>7, UpdateKeeps DEF SaveSettings
<1>8. ASSUME NEW layout, AdoptLayout(layout)
      PROVE  IndicatorsFollow'
 <2> DEFINE moved == [id \in SelectIndicatorsForLayout(context[1]) |-> [registry[id] EXCEPT !.scope[1] = layout]]
            rows == MergeIndicatorLayoutRegistry(registry, moved, context[1])
 <2>1. DOMAIN rows = DOMAIN registry
  <3>1. DOMAIN moved = SelectIndicatorsForLayout(context[1])
    OBVIOUS
  <3>2. DOMAIN rows = {id \in DOMAIN registry : id \notin DOMAIN moved /\ registry[id].scope[1] # context[1]}
                        \union DOMAIN moved
    BY DEF MergeIndicatorLayoutRegistry
  <3> QED BY <3>1, <3>2 DEF SelectIndicatorsForLayout
 <2>2. rows = [id \in DOMAIN rows |-> rows[id]]
   BY DEF MergeIndicatorLayoutRegistry
 <2>3. registry' = rows /\ outbox' = Upserted(outbox, registry') /\ UNCHANGED <<passes, indicatorPresets>>
   BY <1>8 DEF AdoptLayout
 <2> HIDE DEF rows
 <2> QED BY <2>1, <2>2, <2>3, SameOnes
<1> QED BY <1>1, <1>2, <1>3, <1>4, <1>5, <1>6, <1>7, <1>8

(***************************************************************************)
(* The passes.                                                             *)
(***************************************************************************)
LEMMA TailIs ==
  ASSUME NEW s, Len(s) \in Nat, Len(s) >= 1, s = [i \in 1..Len(s) |-> s[i]]
  PROVE  /\ Tail(s) = [i \in 1..Len(s) - 1 |-> s[i + 1]]
         /\ Len(Tail(s)) = Len(s) - 1
<1>1. s \in Seq({s[i] : i \in 1..Len(s)})
  OBVIOUS
<1>2. /\ Len(Tail(s)) = Len(s) - 1 /\ Tail(s) \in Seq({s[i] : i \in 1..Len(s)})
      /\ \A i \in 1..Len(s) - 1 : Tail(s)[i] = s[i + 1]
  BY <1>1
<1> DEFINE t == Tail(s)
<1> HIDE DEF t
<1>a. t \in Seq({s[i] : i \in 1..Len(s)})
  BY <1>2 DEF t
<1>3. t = [i \in 1..Len(t) |-> t[i]]
  BY <1>a
<1>b. Len(t) = Len(s) - 1 /\ \A i \in 1..Len(s) - 1 : t[i] = s[i + 1]
  BY <1>2 DEF t
<1>c. t = [i \in 1..Len(s) - 1 |-> s[i + 1]] /\ Len(t) = Len(s) - 1
  BY <1>3, <1>b
<1> QED BY <1>c DEF t

LEMMA PassSendsKeeps ==
  ASSUME IndicatorsFollow, NEW p \in DOMAIN passes, PassSends(p)
  PROVE  IndicatorsFollow'
<1> DEFINE unsent == passes[1].left
           call == unsent[1]
<1>1. passes = <<passes[1]>> /\ unsent # <<>> /\ p = 1 /\ PassCalls = unsent
      /\ passes[1] = [left |-> unsent, ups |-> passes[1].ups, dels |-> passes[1].dels]
 <2>1. passes # <<>>
   OBVIOUS
 <2> QED BY <2>1 DEF IndicatorsFollow, OnePass, PassCalls
<1>2. /\ Len(unsent) \in Nat /\ unsent = [i \in 1..Len(unsent) |-> unsent[i]] /\ Len(unsent) >= 1
      /\ \A i \in 1..Len(unsent) : unsent[i].id \in IndicatorId
      /\ \A i, j \in 1..Len(unsent) : unsent[i].id = unsent[j].id => i = j
 <2>1. Len(unsent) \in Nat /\ unsent = [i \in 1..Len(unsent) |-> unsent[i]]
   BY <1>1 DEF IndicatorsFollow, OnePass
 <2>2. unsent \in Seq({unsent[i] : i \in 1..Len(unsent)})
   BY <2>1
 <2>3. Len(unsent) # 0
   BY <1>1, <2>2
 <2> QED BY <1>1, <2>1, <2>3 DEF IndicatorsFollow, OnePass
<1>3. passes' = IF Len(unsent) = 1 THEN RemoveAt(passes, 1) ELSE [passes EXCEPT ![1].left = Tail(unsent)]
 <2>1. passes' = IF Len(passes[p].left) = 1 THEN RemoveAt(passes, p) ELSE [passes EXCEPT ![p].left = Tail(@)]
   BY DEF PassSends
 <2>2. [passes EXCEPT ![1].left = Tail(@)] = [passes EXCEPT ![1].left = Tail(unsent)]
   OBVIOUS
 <2> QED BY <1>1, <2>1, <2>2
<1>a. call = unsent[1]
  OBVIOUS
<1>b. PassSends(1)
  BY <1>1
<1> HIDE DEF call
<1>7. indicatorPresets' = IF call.op = "delete" THEN Drop(indicatorPresets, {call.id})
                          ELSE Put(indicatorPresets, call.id, call.row)
  BY <1>b DEF PassSends, call
<1> HIDE DEF unsent
<1>4. /\ Tail(unsent) = [i \in 1..Len(unsent) - 1 |-> unsent[i + 1]]
      /\ Len(Tail(unsent)) = Len(unsent) - 1
  BY <1>2, TailIs
<1>5. PassCalls' = Tail(unsent) /\ OnePass'
 <2>1. CASE Len(unsent) = 1
  <3>1. passes' = RemoveAt(passes, 1)
    BY <1>3, <2>1
  <3>2. passes = <<passes[1]>>
    BY <1>1
  <3> DEFINE first == passes[1]
  <3> HIDE DEF first
  <3>a. passes = <<first>>
    BY <3>2 DEF first
  <3>b. RemoveAt(<<first>>, 1) = <<>>
    BY DEF RemoveAt
  <3>3. RemoveAt(passes, 1) = <<>>
    BY <3>a, <3>b
  <3>4. Tail(unsent) = <<>>
    BY <1>2, <1>4, <2>1
  <3>5. PassCalls' = <<>> /\ Len(PassCalls') = 0 /\ PassCalls' = [i \in 1..0 |-> PassCalls'[i]] /\ 1..0 = {}
    BY <3>1, <3>3 DEF PassCalls
  <3> QED BY <3>1, <3>3, <3>4, <3>5 DEF OnePass
 <2>2. CASE Len(unsent) # 1
  <3> DEFINE pass == [passes[1] EXCEPT !.left = Tail(unsent)]
  <3> DEFINE ups == passes[1].ups
             dels == passes[1].dels
             first == passes[1]
  <3>a. first = [left |-> unsent, ups |-> ups, dels |-> dels]
    BY <1>1
  <3>b. [first EXCEPT !.left = Tail(unsent)] = [left |-> Tail(unsent), ups |-> ups, dels |-> dels]
   <4> DEFINE rest == Tail(unsent)
   <4> HIDE DEF first, ups, dels, rest
   <4>1. first \in [left : {unsent}, ups : {ups}, dels : {dels}]
     BY <3>a
   <4>2. [first EXCEPT !.left = rest] = [left |-> rest, ups |-> ups, dels |-> dels]
     BY <4>1
   <4> QED BY <4>2 DEF rest
  <3>1. pass = [left |-> Tail(unsent), ups |-> ups, dels |-> dels]
    BY <3>b
  <3> HIDE DEF ups, dels
  <3>2. passes' = [passes EXCEPT ![1] = pass]
    BY <1>3, <2>2
  <3> HIDE DEF pass
  <3>3. passes' = <<pass>>
    BY <1>1, <3>2
  <3>4. passes' # <<>> /\ passes'[1] = pass
    BY <3>3
  <3>5. PassCalls' = Tail(unsent)
    BY <3>1, <3>4 DEF PassCalls
  <3>6. Len(unsent) - 1 \in Nat /\ Len(unsent) - 1 >= 1
    BY <1>2, <2>2
  <3>7. Tail(unsent) # <<>>
   <4>1. Len(Tail(unsent)) # 0 /\ Len(<<>>) = 0
     BY <1>4, <3>6
   <4> QED BY <4>1
  <3>8. \A i \in 1..Len(unsent) - 1 : i + 1 \in 1..Len(unsent) /\ Tail(unsent)[i] = unsent[i + 1]
    BY <1>2, <1>4
  <3>9. /\ \A i \in 1..Len(unsent) - 1 : Tail(unsent)[i].id \in IndicatorId
        /\ \A i, j \in 1..Len(unsent) - 1 : Tail(unsent)[i].id = Tail(unsent)[j].id => i = j
    BY <1>2, <3>8
  <3>10. /\ passes' = <<passes'[1]>> /\ passes'[1].left # <<>>
         /\ passes'[1] = [left |-> passes'[1].left, ups |-> passes'[1].ups, dels |-> passes'[1].dels]
    BY <3>1, <3>3, <3>4, <3>7
  <3>11. /\ Len(PassCalls') \in Nat /\ PassCalls' = [i \in 1..Len(PassCalls') |-> PassCalls'[i]]
         /\ Len(PassCalls') = Len(unsent) - 1
    BY <1>4, <3>5, <3>6
  <3> QED BY <3>5, <3>9, <3>10, <3>11 DEF OnePass
 <2> QED BY <2>1, <2>2
<1>6. UNCHANGED <<registry, outbox>> /\ OutboxIsRight' /\ IsTable(registry)' /\ IsFiniteSet(DOMAIN registry')
  BY DEF PassSends, IndicatorsFollow, OutboxIsRight, IsTable
<1>c. 1 \in 1..Len(unsent) /\ call.id \in IndicatorId
  BY <1>2, <1>a
<1>8. IsTable(indicatorPresets)' /\ IsFiniteSet(DOMAIN indicatorPresets')
 <2>1. IsTable(indicatorPresets) /\ IsFiniteSet(DOMAIN indicatorPresets)
   BY DEF IndicatorsFollow
 <2>2. IsTable(indicatorPresets)'
   BY <1>7, <1>c, <2>1 DEF IsTable, Drop, Put
 <2>3. \/ DOMAIN indicatorPresets' = DOMAIN indicatorPresets \ {call.id}
       \/ DOMAIN indicatorPresets' = DOMAIN indicatorPresets \union {call.id}
   BY <1>7 DEF Drop, Put
 <2> QED BY <2>1, <2>2, <2>3, FS_AddElement, FS_RemoveElement
<1>9. ASSUME NEW id \in IndicatorId, id \notin DOMAIN outbox.ups \union outbox.dels
      PROVE  IF Called(id)' THEN \A i \in 1..Len(PassCalls') : PassCalls'[i].id = id => Right(PassCalls[i])'
             ELSE IsSettled(id)'
 <2>1. IF Called(id) THEN \A i \in 1..Len(unsent) : unsent[i].id = id => Right(unsent[i])
       ELSE IsSettled(id)
   BY <1>1, <1>9 DEF IndicatorsFollow, RestIsSent
 <2>2. \A i \in 1..Len(unsent) - 1 : i + 1 \in 1..Len(unsent) /\ PassCalls'[i] = unsent[i + 1]
   BY <1>2, <1>4, <1>5
 <2>3. Len(PassCalls') = Len(unsent) - 1
   BY <1>4, <1>5
 <2>4. CASE Called(id)'
  <3>1. \E i \in 1..Len(unsent) : unsent[i].id = id
    BY <2>2, <2>3, <2>4 DEF Called
  <3>2. \A i \in 1..Len(unsent) : unsent[i].id = id => Right(unsent[i])
    BY <1>1, <2>1, <3>1 DEF Called
  <3>3. \A i \in 1..Len(PassCalls') : PassCalls'[i].id = id => Right(PassCalls'[i])
    BY <2>2, <2>3, <3>2
  <3>4. \A i : Right(PassCalls[i])' <=> Right(PassCalls'[i])
    BY <1>6 DEF Right
  <3> QED BY <2>4, <3>3, <3>4
 <2>5. CASE ~ Called(id)' /\ call.id = id
  <3>1. Right(call)
    BY <1>1, <1>a, <1>c, <2>1, <2>5 DEF Called
  <3> QED BY <1>6, <1>7, <2>5, <3>1 DEF Right, IsSettled, Drop, Put
 <2>6. CASE ~ Called(id)' /\ call.id # id
  <3>1. ~ Called(id)
   <4> SUFFICES ASSUME NEW i \in 1..Len(unsent), unsent[i].id = id
                PROVE  FALSE
     BY <1>1 DEF Called
   <4>1. i # 1
     BY <1>a, <2>6
   <4>2. i - 1 \in 1..Len(unsent) - 1 /\ (i - 1) + 1 = i
     BY <1>2, <4>1
   <4> QED BY <2>2, <2>3, <2>6, <4>2 DEF Called
  <3> QED BY <1>6, <1>7, <2>1, <2>6, <3>1 DEF IsSettled, Drop, Put
 <2> QED BY <2>4, <2>5, <2>6
<1>10. RestIsSent'
  BY <1>6, <1>9 DEF RestIsSent
<1> QED BY <1>5, <1>6, <1>8, <1>10 DEF IndicatorsFollow

(* The calls of a pass: one for each indicator that is queued, as it is     *)
(* queued.                                                                 *)
LEMMA CallsOfPass ==
  ASSUME NEW ups, NEW dels, IsFiniteSet(DOMAIN ups), IsFiniteSet(dels), dels \intersect DOMAIN ups = {}
  PROVE  LET todo == SetToSeq({[op |-> "delete", id |-> id, row |-> Nothing] : id \in dels})
                       \o SetToSeq({[op |-> "save", id |-> id, row |-> ups[id]] : id \in DOMAIN ups})
         IN  /\ Len(todo) \in Nat /\ todo = [i \in 1..Len(todo) |-> todo[i]]
             /\ \A i \in 1..Len(todo) :
                  \/ todo[i].op = "delete" /\ todo[i].id \in dels
                  \/ todo[i].op = "save" /\ todo[i].id \in DOMAIN ups /\ todo[i].row = ups[todo[i].id]
             /\ \A id \in dels \union DOMAIN ups : \E i \in 1..Len(todo) : todo[i].id = id
             /\ \A i, j \in 1..Len(todo) : todo[i].id = todo[j].id => i = j
<1> DEFINE Deletes == {[op |-> "delete", id |-> id, row |-> Nothing] : id \in dels}
           Saves == {[op |-> "save", id |-> id, row |-> ups[id]] : id \in DOMAIN ups}
           a == SetToSeq(Deletes)
           b == SetToSeq(Saves)
           todo == a \o b
<1>1. IsFiniteSet(Deletes) /\ IsFiniteSet(Saves)
 <2> DEFINE f == [id \in dels |-> [op |-> "delete", id |-> id, row |-> Nothing]]
            g == [id \in DOMAIN ups |-> [op |-> "save", id |-> id, row |-> ups[id]]]
 <2>1. /\ DOMAIN f = dels /\ f = [id \in dels |-> f[id]]
       /\ DOMAIN g = DOMAIN ups /\ g = [id \in DOMAIN ups |-> g[id]]
   OBVIOUS
 <2>2. Deletes = {f[id] : id \in dels} /\ Saves = {g[id] : id \in DOMAIN ups}
   OBVIOUS
 <2> HIDE DEF f, g, Deletes, Saves
 <2> QED BY <2>1, <2>2, ImageIsFinite
<1>2. /\ \A call \in Deletes : call.op = "delete" /\ call.id \in dels
      /\ \A c, d \in Deletes : c.id = d.id => c = d
      /\ \A id \in dels : \E call \in Deletes : call.id = id
 <2>1. \A call \in Deletes : call = [op |-> "delete", id |-> call.id, row |-> Nothing] /\ call.id \in dels
   OBVIOUS
 <2>2. \A id \in dels : [op |-> "delete", id |-> id, row |-> Nothing] \in Deletes
   OBVIOUS
 <2> HIDE DEF Deletes
 <2>3. \A c, d \in Deletes : c.id = d.id => c = d
   BY <2>1
 <2>4. \A call \in Deletes : call.op = "delete" /\ call.id \in dels
   BY <2>1
 <2>5. \A id \in dels : \E call \in Deletes : call.id = id
   BY <2>2
 <2> QED BY <2>3, <2>4, <2>5
<1>3. /\ \A call \in Saves : call.op = "save" /\ call.id \in DOMAIN ups /\ call.row = ups[call.id]
      /\ \A c, d \in Saves : c.id = d.id => c = d
      /\ \A id \in DOMAIN ups : \E call \in Saves : call.id = id
 <2>1. \A call \in Saves : call = [op |-> "save", id |-> call.id, row |-> ups[call.id]] /\ call.id \in DOMAIN ups
   OBVIOUS
 <2>2. \A id \in DOMAIN ups : [op |-> "save", id |-> id, row |-> ups[id]] \in Saves
   OBVIOUS
 <2> HIDE DEF Saves
 <2>3. \A c, d \in Saves : c.id = d.id => c = d
   BY <2>1
 <2>4. \A call \in Saves : call.op = "save" /\ call.id \in DOMAIN ups /\ call.row = ups[call.id]
   BY <2>1
 <2>5. \A id \in DOMAIN ups : \E call \in Saves : call.id = id
   BY <2>2
 <2> QED BY <2>3, <2>4, <2>5
<1> HIDE DEF Deletes, Saves
<1>4. /\ a \in Seq(Deletes) /\ Len(a) \in Nat
      /\ \A call \in Deletes : \E i \in 1..Len(a) : a[i] = call
      /\ \A i, j \in 1..Len(a) : a[i] = a[j] => i = j
  BY <1>1, SetToSeqIs
<1>5. /\ b \in Seq(Saves) /\ Len(b) \in Nat
      /\ \A call \in Saves : \E i \in 1..Len(b) : b[i] = call
      /\ \A i, j \in 1..Len(b) : b[i] = b[j] => i = j
  BY <1>1, SetToSeqIs
<1> HIDE DEF a, b
<1>6. \A i \in 1..Len(a) : a[i] \in Deletes
  BY <1>4
<1>7. \A i \in 1..Len(b) : b[i] \in Saves
  BY <1>5
<1>8. /\ Len(todo) = Len(a) + Len(b)
      /\ todo = [i \in 1..Len(todo) |-> todo[i]]
      /\ \A i \in 1..Len(a) + Len(b) : todo[i] = IF i <= Len(a) THEN a[i] ELSE b[i - Len(a)]
 <2>1. a \in Seq(Deletes \union Saves) /\ b \in Seq(Deletes \union Saves)
   BY <1>4, <1>5
 <2> DEFINE all == Deletes \union Saves
 <2> HIDE DEF all
 <2>2. a \in Seq(all) /\ b \in Seq(all)
   BY <2>1 DEF all
 <2>3. todo \in Seq(all) /\ Len(todo) = Len(a) + Len(b)
       /\ \A i \in 1..Len(a) + Len(b) : todo[i] = IF i <= Len(a) THEN a[i] ELSE b[i - Len(a)]
   BY <2>2
 <2> HIDE DEF todo
 <2>4. todo = [i \in 1..Len(todo) |-> todo[i]]
   BY <2>3
 <2> QED BY <2>3, <2>4
<1> HIDE DEF todo
<1>9. \A i \in 1..Len(todo) :
        \/ i \in 1..Len(a) /\ todo[i] = a[i]
        \/ i - Len(a) \in 1..Len(b) /\ todo[i] = b[i - Len(a)]
  BY <1>4, <1>5, <1>8
<1>10. /\ \A i \in 1..Len(a) : i \in 1..Len(todo) /\ todo[i] = a[i]
       /\ \A i \in 1..Len(b) : i + Len(a) \in 1..Len(todo) /\ todo[i + Len(a)] = b[i]
 <2>1. ASSUME NEW i \in 1..Len(a)
       PROVE  i \in 1..Len(todo) /\ todo[i] = a[i]
  <3>1. i \in 1..Len(a) + Len(b) /\ i <= Len(a)
    BY <1>4, <1>5
  <3> QED BY <1>8, <3>1
 <2>2. ASSUME NEW i \in 1..Len(b)
       PROVE  i + Len(a) \in 1..Len(todo) /\ todo[i + Len(a)] = b[i]
  <3>1. /\ i + Len(a) \in 1..Len(a) + Len(b) /\ ~ (i + Len(a) <= Len(a))
        /\ (i + Len(a)) - Len(a) = i
    BY <1>4, <1>5
  <3> QED BY <1>8, <3>1
 <2> QED BY <2>1, <2>2
<1>11. Len(todo) \in Nat /\ todo = [i \in 1..Len(todo) |-> todo[i]]
  BY <1>4, <1>5, <1>8
<1>12. ASSUME NEW i \in 1..Len(todo)
       PROVE  \/ todo[i].op = "delete" /\ todo[i].id \in dels
              \/ todo[i].op = "save" /\ todo[i].id \in DOMAIN ups /\ todo[i].row = ups[todo[i].id]
  BY <1>2, <1>3, <1>6, <1>7, <1>9
<1>13. ASSUME NEW id \in dels \union DOMAIN ups
       PROVE  \E i \in 1..Len(todo) : todo[i].id = id
 <2>1. CASE id \in dels
  <3>1. PICK call \in Deletes : call.id = id
    BY <1>2, <2>1
  <3>2. PICK i \in 1..Len(a) : a[i] = call
    BY <1>4
  <3> QED BY <1>10, <3>1, <3>2
 <2>2. CASE id \in DOMAIN ups
  <3>1. PICK call \in Saves : call.id = id
    BY <1>3, <2>2
  <3>2. PICK i \in 1..Len(b) : b[i] = call
    BY <1>5
  <3> QED BY <1>10, <3>1, <3>2
 <2> QED BY <2>1, <2>2
<1>14. ASSUME NEW i \in 1..Len(todo), NEW j \in 1..Len(todo), todo[i].id = todo[j].id
       PROVE  i = j
 <2>1. CASE i \in 1..Len(a) /\ todo[i] = a[i] /\ j \in 1..Len(a) /\ todo[j] = a[j]
   BY <1>2, <1>4, <1>6, <1>14, <2>1
 <2>2. CASE i \in 1..Len(a) /\ todo[i] = a[i] /\ j - Len(a) \in 1..Len(b) /\ todo[j] = b[j - Len(a)]
   BY <1>2, <1>3, <1>6, <1>7, <1>14, <2>2
 <2>3. CASE i - Len(a) \in 1..Len(b) /\ todo[i] = b[i - Len(a)] /\ j \in 1..Len(a) /\ todo[j] = a[j]
   BY <1>2, <1>3, <1>6, <1>7, <1>14, <2>3
 <2>4. CASE /\ i - Len(a) \in 1..Len(b) /\ todo[i] = b[i - Len(a)]
            /\ j - Len(a) \in 1..Len(b) /\ todo[j] = b[j - Len(a)]
  <3>1. b[i - Len(a)] = b[j - Len(a)]
    BY <1>3, <1>7, <1>14, <2>4
  <3>2. i - Len(a) = j - Len(a)
    BY <1>5, <2>4, <3>1
  <3> QED BY <1>4, <3>2
 <2> QED BY <1>9, <2>1, <2>2, <2>3, <2>4
<1> QED BY <1>11, <1>12, <1>13, <1>14 DEF todo, a, b, Deletes, Saves

LEMMA ScheduledPassKeeps ==
  ASSUME IndicatorsFollow, passes = <<>>, ScheduledPass
  PROVE  IndicatorsFollow'
<1> DEFINE todo == SetToSeq({[op |-> "delete", id |-> id, row |-> Nothing] : id \in outbox.dels})
                     \o SetToSeq({[op |-> "save", id |-> id, row |-> outbox.ups[id]] : id \in DOMAIN outbox.ups})
           pass == [left |-> todo, ups |-> outbox.ups, dels |-> outbox.dels]
<1>1. /\ outbox' = [ups |-> None, dels |-> {}, timer |-> FALSE]
      /\ passes' = IF todo = <<>> THEN passes ELSE Append(passes, pass)
      /\ UNCHANGED <<registry, indicatorPresets>>
  BY DEF ScheduledPass
<1>2. /\ OutboxIsRight /\ IsTable(registry) /\ IsFiniteSet(DOMAIN registry) /\ IsTable(indicatorPresets)
      /\ outbox.dels \intersect DOMAIN outbox.ups = {}
  BY DEF IndicatorsFollow, OutboxIsRight
<1>3. /\ Len(todo) \in Nat /\ todo = [i \in 1..Len(todo) |-> todo[i]]
      /\ \A i \in 1..Len(todo) :
           \/ todo[i].op = "delete" /\ todo[i].id \in outbox.dels
           \/ todo[i].op = "save" /\ todo[i].id \in DOMAIN outbox.ups /\ todo[i].row = outbox.ups[todo[i].id]
      /\ \A id \in outbox.dels \union DOMAIN outbox.ups : \E i \in 1..Len(todo) : todo[i].id = id
      /\ \A i, j \in 1..Len(todo) : todo[i].id = todo[j].id => i = j
  BY <1>2, CallsOfPass DEF OutboxIsRight
<1> HIDE DEF todo
<1>4. OutboxIsRight'
  BY <1>1, FS_EmptySet, NonePartial DEF OutboxIsRight, IsTable, None
<1>5. PassCalls' = todo /\ OnePass'
 <2>1. CASE todo = <<>>
  <3>1. passes' = <<>> /\ PassCalls' = todo
    BY <1>1, <2>1 DEF PassCalls
  <3>2. 1..Len(todo) = {}
    BY <2>1
  <3> QED BY <1>3, <3>1, <3>2 DEF OnePass
 <2>2. CASE todo # <<>>
  <3>1. passes' = <<pass>>
    BY <1>1, <2>2
  <3>2. /\ pass.left = todo
        /\ pass = [left |-> pass.left, ups |-> pass.ups, dels |-> pass.dels]
    OBVIOUS
  <3> HIDE DEF pass
  <3>3. passes' # <<>> /\ passes'[1] = pass
    BY <3>1
  <3>4. PassCalls' = todo
    BY <3>2, <3>3 DEF PassCalls
  <3>5. \A i \in 1..Len(todo) : todo[i].id \in IndicatorId
    BY <1>2, <1>3 DEF OutboxIsRight, IsTable
  <3> QED BY <1>3, <2>2, <3>1, <3>2, <3>3, <3>4, <3>5 DEF OnePass
 <2> QED BY <2>1, <2>2
<1>6. ASSUME NEW id \in IndicatorId
      PROVE  IF Called(id)' THEN \A i \in 1..Len(PassCalls') : PassCalls'[i].id = id => Right(PassCalls[i])'
             ELSE IsSettled(id)'
 <2>1. CASE Called(id)'
  <3>1. \A i \in 1..Len(todo) : Right(todo[i])
    BY <1>2, <1>3 DEF Right, OutboxIsRight
  <3>2. \A i \in 1..Len(todo) : Right(PassCalls[i])'
    BY <1>1, <1>5, <3>1 DEF Right
  <3> QED BY <1>5, <2>1, <3>2
 <2>2. CASE ~ Called(id)'
  <3>1. id \notin outbox.dels \union DOMAIN outbox.ups
    BY <1>3, <1>5, <2>2 DEF Called
  <3>2. PassCalls = <<>> /\ 1..Len(<<>>) = {}
    BY DEF PassCalls
  <3>3. ~ Called(id)
    BY <3>2 DEF Called
  <3>4. IsSettled(id)
    BY <3>1, <3>3 DEF IndicatorsFollow, RestIsSent
  <3> QED BY <1>1, <2>2, <3>4 DEF IsSettled
 <2> QED BY <2>1, <2>2
<1>7. RestIsSent'
  BY <1>6 DEF RestIsSent
<1>8. /\ (IsTable(registry) /\ IsTable(indicatorPresets))'
      /\ IsFiniteSet(DOMAIN registry') /\ IsFiniteSet(DOMAIN indicatorPresets')
  BY <1>1, <1>2 DEF IsTable, IndicatorsFollow
<1> QED BY <1>4, <1>5, <1>7, <1>8 DEF IndicatorsFollow

(* What the server has replaces the registry, and nothing is queued.        *)
LEMMA ApplyRemoteKeeps ==
  ASSUME IndicatorsFollow, passes = <<>>, ApplyRemoteIndicators
  PROVE  IndicatorsFollow'
<1>1. /\ outbox' = [ups |-> None, dels |-> {}, timer |-> FALSE] /\ passes' = <<>>
      /\ registry' = indicatorPresets /\ indicatorPresets' = indicatorPresets
  BY DEF ApplyRemoteIndicators
<1>2. OutboxIsRight'
  BY <1>1, FS_EmptySet DEF OutboxIsRight, IsTable, None
<1>3. PassCalls' = <<>> /\ Len(PassCalls') = 0 /\ PassCalls' = [i \in 1..0 |-> PassCalls'[i]] /\ 1..0 = {}
  BY <1>1 DEF PassCalls
<1>4. OnePass'
  BY <1>1, <1>3 DEF OnePass
<1>5. RestIsSent'
  BY <1>1, <1>3 DEF RestIsSent, IsSettled, Called
<1>6. /\ (IsTable(registry) /\ IsTable(indicatorPresets))'
      /\ IsFiniteSet(DOMAIN registry') /\ IsFiniteSet(DOMAIN indicatorPresets')
  BY <1>1 DEF IndicatorsFollow, IsTable
<1> QED BY <1>2, <1>4, <1>5, <1>6 DEF IndicatorsFollow

LEMMA IndicatorsKeep == IndicatorsInv /\ [IndicatorsNext]_indicatorVars => IndicatorsInv'
<1> SUFFICES ASSUME IndicatorsInv, [IndicatorsNext]_indicatorVars
             PROVE  IndicatorsInv'
  OBVIOUS
<1>1. ASSUME UNCHANGED <<registry, outbox, passes, indicatorPresets, disturbed>>
      PROVE  IndicatorsInv'
  BY <1>1 DEF IndicatorsInv, IndicatorsFollow, IsTable, OutboxIsRight, OnePass, RestIsSent, Called, PassCalls,
              Right, IsSettled
<1>2. ASSUME disturbed' = disturbed, IndicatorsFollow => IndicatorsFollow'
      PROVE  IndicatorsInv'
  BY <1>2 DEF IndicatorsInv
<1>3. ASSUME \/ \E kind \in IndicatorKind : AddIndicator(kind) \/ ToggleIndicator(kind) \/ CustomArrives(kind)
             \/ \E id \in 1..MaxIndicators : RemoveIndicator(id) \/ ToggleVisibility(id)
             \/ ClearIndicators \/ SaveSettings
             \/ \E pane \in Pane : AdoptLayout(pane[1])
      PROVE  IndicatorsInv'
 <2>1. disturbed' = disturbed
   BY <1>3 DEF AddIndicator, ToggleIndicator, CustomArrives, RemoveIndicator, ToggleVisibility, ClearIndicators,
               SaveSettings, AdoptLayout, UpdateIndicator, CommitIndicators
 <2>2. IndicatorsFollow => IndicatorsFollow'
   BY <1>3, ChangesKeep
 <2> QED BY <1>2, <2>1, <2>2
<1>4. CASE ScheduledPass
 <2>1. disturbed' = (disturbed \/ passes # <<>>)
   BY <1>4 DEF ScheduledPass
 <2> QED BY <1>4, <2>1, ScheduledPassKeeps DEF IndicatorsInv
<1>5. ASSUME NEW p \in DOMAIN passes, PassSends(p)
      PROVE  IndicatorsInv'
  BY <1>2, <1>5, PassSendsKeeps DEF PassSends
<1>6. ASSUME disturbed' = TRUE
      PROVE  IndicatorsInv'
  BY <1>6 DEF IndicatorsInv
<1>7. ASSUME NEW p \in DOMAIN passes, PassFails(p)
      PROVE  IndicatorsInv'
  BY <1>6, <1>7 DEF PassFails
<1>8. ASSUME NEW incoming, ApplySavedLayout(incoming)
      PROVE  IndicatorsInv'
  BY <1>6, <1>8 DEF ApplySavedLayout
<1>9. CASE ApplyRemoteIndicators
 <2>1. disturbed' = (disturbed \/ passes # <<>>)
   BY <1>9 DEF ApplyRemoteIndicators
 <2> QED BY <1>9, <2>1, ApplyRemoteKeeps DEF IndicatorsInv
<1>10. ASSUME \/ \E kind \in IndicatorKind : AsksForCustom(kind)
              \/ \E id \in 1..MaxIndicators : OpenSettings(id)
              \/ \E pane \in Pane : SwitchChart(pane)
              \/ OpenBrowser \/ TypeQuery \/ CloseBrowser \/ \E tab \in {"store", "favorites"} : SelectTab(tab)
              \/ \E q \in browser.asked : StoreAnswers(q)
              \/ DefinitionArrives \/ CloseSettings
              \/ UpdateVisible \/ ResetDefaults \/ \E s \in Settings : UpdateStyleValue(s)
       PROVE  UNCHANGED <<registry, outbox, passes, indicatorPresets, disturbed>>
  BY <1>10 DEF AsksForCustom, OpenSettings, SwitchChart, OpenBrowser, TypeQuery, CloseBrowser, SelectTab, Viewed,
               StoreAnswers, DefinitionArrives, CloseSettings, UpdateVisible, ResetDefaults, UpdateStyleValue,
               Draft, UNCHANGEDButEditor
<1>11. CASE UNCHANGED indicatorVars
  BY <1>1, <1>11 DEF indicatorVars
<1> QED BY <1>1, <1>3, <1>4, <1>5, <1>7, <1>8, <1>9, <1>10, <1>11 DEF IndicatorsNext

(* The indicators of every pane reach the server: neither a removal nor a   *)
(* setting is lost between the queue, its timer and the pass that sends it  *)
(* (scheduleIndicatorSync, queueIndicatorDelete).                           *)
THEOREM IndicatorsReachTheServer == IndicatorsSpec => []IndicatorsLand
<1>1. IndicatorsInv => IndicatorsLand
 <2> SUFFICES ASSUME IndicatorsFollow, ~ outbox.timer, passes = <<>>
              PROVE  indicatorPresets = registry
   BY DEF IndicatorsInv, IndicatorsLand
 <2>1. outbox.dels = {} /\ DOMAIN outbox.ups = {}
   BY DEF IndicatorsFollow, OutboxIsRight
 <2>2. \A id : ~ Called(id)
  <3>1. PassCalls = <<>> /\ 1..Len(<<>>) = {}
    BY DEF PassCalls
  <3> QED BY <3>1 DEF Called
 <2>3. \A id \in IndicatorId : IsSettled(id)
   BY <2>1, <2>2 DEF IndicatorsFollow, RestIsSent
 <2>4. IsTable(registry) /\ IsTable(indicatorPresets)
   BY DEF IndicatorsFollow
 <2>5. DOMAIN registry = DOMAIN indicatorPresets
       /\ \A id \in DOMAIN registry : indicatorPresets[id] = registry[id]
   BY <2>3, <2>4 DEF IsSettled, IsTable
 <2> QED BY <2>4, <2>5 DEF IsTable
<1> QED BY <1>1, IndicatorsStart, IndicatorsKeep, PTL DEF IndicatorsSpec

(***************************************************************************)
(* SettingsDialog.  No field of a drawing is kept undefined, so that a     *)
(* patch back to a snapshot gives the snapshot; and a command of the       *)
(* history holds, for each field it sets, what the field was before.       *)
(***************************************************************************)
Whole(x) == x = [f \in DOMAIN x |-> x[f]] /\ \A f \in DOMAIN x : x[f] # Nothing
TakesBack(c) ==
  /\ Whole(c.was) /\ DOMAIN c.before = DOMAIN c.after
  /\ \A f \in DOMAIN c.before : c.before[f] = FieldOf(c.was, f)
History(s) == s \in Seq({s[i] : i \in 1..Len(s)}) /\ \A i \in 1..Len(s) : TakesBack(s[i])
CanvasWhole == \A d \in DOMAIN canvas : d # Nothing /\ Whole(canvas[d])
SnapshotHeld ==
  /\ dialog = [id |-> dialog.id, snapshot |-> dialog.snapshot, opened |-> dialog.opened,
               pop |-> dialog.pop, naming |-> dialog.naming]
  /\ dialog.id # Nothing => dialog.snapshot = dialog.opened /\ Whole(dialog.opened)
HistoryTakesBack == History(edits.undo) /\ History(edits.redo)
SettingsInv == CanvasWhole /\ SnapshotHeld /\ HistoryTakesBack

LEMMA PatchedIs ==
  ASSUME NEW x, NEW p
  PROVE  /\ Whole(Patched(x, p))
         /\ DOMAIN Patched(x, p) = {f \in DOMAIN x \union DOMAIN p :
                                      (IF f \in DOMAIN p THEN p[f] ELSE x[f]) # Nothing}
         /\ \A f \in DOMAIN Patched(x, p) : Patched(x, p)[f] = IF f \in DOMAIN p THEN p[f] ELSE x[f]
<1> DEFINE all == [f \in DOMAIN x \union DOMAIN p |-> IF f \in DOMAIN p THEN p[f] ELSE x[f]]
           ks == {f \in DOMAIN all : all[f] = Nothing}
<1>1. Patched(x, p) = [f \in DOMAIN all \ ks |-> all[f]]
  BY DEF Patched, Drop
<1>2. /\ DOMAIN all = DOMAIN x \union DOMAIN p
      /\ \A f \in DOMAIN x \union DOMAIN p : all[f] = IF f \in DOMAIN p THEN p[f] ELSE x[f]
  OBVIOUS
<1> HIDE DEF all
<1>3. DOMAIN Patched(x, p) = DOMAIN all \ ks /\ \A f \in DOMAIN all \ ks : Patched(x, p)[f] = all[f]
  BY <1>1
<1>4. Whole(Patched(x, p))
  BY <1>1, <1>3 DEF Whole
<1> QED BY <1>2, <1>3, <1>4

LEMMA SameFields ==
  ASSUME NEW x, NEW y, Whole(x), Whole(y), \A f : FieldOf(x, f) = FieldOf(y, f)
  PROVE  x = y
<1>1. DOMAIN x = DOMAIN y
  BY DEF Whole, FieldOf
<1>2. \A f \in DOMAIN x : x[f] = y[f]
  BY <1>1 DEF FieldOf
<1> QED BY <1>1, <1>2 DEF Whole

LEMMA PatchedField ==
  ASSUME NEW x, NEW p, NEW f
  PROVE  FieldOf(Patched(x, p), f) = IF f \in DOMAIN p THEN p[f] ELSE FieldOf(x, f)
<1> DEFINE y == Patched(x, p)
<1>2. /\ \A g : g \in DOMAIN y <=> g \in DOMAIN x \union DOMAIN p /\ (IF g \in DOMAIN p THEN p[g] ELSE x[g]) # Nothing
      /\ \A g \in DOMAIN y : y[g] = IF g \in DOMAIN p THEN p[g] ELSE x[g]
 <2>1. /\ DOMAIN y = {g \in DOMAIN x \union DOMAIN p : (IF g \in DOMAIN p THEN p[g] ELSE x[g]) # Nothing}
       /\ \A g \in DOMAIN y : y[g] = IF g \in DOMAIN p THEN p[g] ELSE x[g]
   BY PatchedIs
 <2> HIDE DEF y
 <2> QED BY <2>1
<1> HIDE DEF y
<1>3. FieldOf(y, f) = IF f \in DOMAIN p THEN p[f] ELSE FieldOf(x, f)
  BY <1>2 DEF FieldOf
<1> QED BY <1>3 DEF y

(* Cancel: whatever the drawing has become, the snapshot comes back. *)
LEMMA RevertGivesSnapshot ==
  ASSUME NEW x, NEW s, Whole(s)
  PROVE  Patched(x, BuildRevert(x, s)) = s
<1> DEFINE p == BuildRevert(x, s)
<1>1. DOMAIN p = DOMAIN x \union DOMAIN s /\ \A f \in DOMAIN p : p[f] = FieldOf(s, f)
  BY DEF BuildRevert, KeysOf
<1> HIDE DEF p
<1>2. ASSUME NEW f
      PROVE  FieldOf(Patched(x, p), f) = FieldOf(s, f)
  BY <1>1, PatchedField DEF FieldOf
<1> QED BY <1>2, PatchedIs, SameFields DEF p

(* Undo: a command whose change is on the canvas takes it back. *)
LEMMA CommandTakesBack ==
  ASSUME NEW c, TakesBack(c)
  PROVE  Patched(Patched(c.was, c.after), c.before) = c.was
<1> DEFINE x == Patched(c.was, c.after)
           y == Patched(x, c.before)
<1>1. \A f : FieldOf(x, f) = IF f \in DOMAIN c.after THEN c.after[f] ELSE FieldOf(c.was, f)
  BY PatchedField
<1>2. \A f : FieldOf(y, f) = IF f \in DOMAIN c.before THEN c.before[f] ELSE FieldOf(x, f)
  BY PatchedField
<1>3. Whole(y)
  BY PatchedIs
<1> HIDE DEF x, y
<1>4. \A f : FieldOf(y, f) = FieldOf(c.was, f)
  BY <1>1, <1>2 DEF TakesBack
<1>5. y = c.was
  BY <1>3, <1>4, SameFields DEF TakesBack
<1> QED BY <1>5 DEF x, y

LEMMA CommitTakesBack ==
  ASSUME NEW d, NEW x, NEW s, Whole(s)
  PROVE  TakesBack(Command(d, BuildCommit(x, s), s))
BY DEF TakesBack, Command, BuildCommit

LEMMA HistoryPushed ==
  ASSUME NEW s, History(s), NEW c, TakesBack(c)
  PROVE  History(Append(s, c))
<1> DEFINE A == {s[i] : i \in 1..Len(s)}
           t == Append(s, c)
           B == {t[i] : i \in 1..Len(t)}
<1>1. s \in Seq(A) /\ \A i \in 1..Len(s) : TakesBack(s[i])
  BY DEF History
<1>2. t \in Seq(A \union {c}) /\ Len(t) = Len(s) + 1 /\ Len(s) \in Nat
      /\ \A i \in 1..Len(t) : t[i] = IF i <= Len(s) THEN s[i] ELSE c
 <2> HIDE DEF A
 <2> QED BY <1>1, AppendProperties
<1>3. \A i \in 1..Len(t) : TakesBack(t[i]) /\ t[i] \in B
 <2> HIDE DEF t
 <2> QED BY <1>1, <1>2
<1>4. t \in Seq(B)
 <2>1. t = [i \in 1..Len(t) |-> t[i]] /\ Len(t) \in Nat
  <3> HIDE DEF t, A
  <3> QED BY <1>2
 <2>2. \A i \in 1..Len(t) : t[i] \in B
   BY <1>3
 <2> HIDE DEF t, B
 <2>3. t \in [1..Len(t) -> B]
   BY <2>1, <2>2
 <2> QED BY <2>1, <2>3
<1> QED BY <1>3, <1>4 DEF History

LEMMA HistoryPopped ==
  ASSUME NEW s, History(s), s # <<>>
  PROVE  History(Front(s)) /\ TakesBack(Last(s))
<1> DEFINE A == {s[i] : i \in 1..Len(s)}
           t == Front(s)
           B == {t[i] : i \in 1..Len(t)}
<1>1. s \in Seq(A) /\ \A i \in 1..Len(s) : TakesBack(s[i])
  BY DEF History
<1>2. Len(s) \in Nat \ {0}
 <2> HIDE DEF A
 <2> QED BY <1>1, EmptySeq
<1>3. /\ t \in Seq(A) /\ Len(t) = Len(s) - 1 /\ Len(t) \in Nat
      /\ \A i \in 1..Len(t) : t[i] = s[i]
 <2> HIDE DEF A
 <2>1. t = SubSeq(s, 1, Len(s) - 1)
   BY DEF Front
 <2>2. PICK n \in Nat : n = Len(s) - 1 /\ n <= Len(s)
   BY <1>2
 <2>3. t = SubSeq(s, 1, n)
   BY <2>1, <2>2
 <2> HIDE DEF t
 <2>4. t \in Seq(A) /\ Len(t) = n /\ \A i \in 1..n : t[i] = s[i]
   BY <1>1, <1>2, <2>2, <2>3, SubSeqProperties
 <2> QED BY <2>2, <2>4
<1>4. t = [i \in 1..Len(t) |-> t[i]] /\ Len(t) \in Nat
 <2> HIDE DEF A, t
 <2> QED BY <1>3
<1>5. \A i \in 1..Len(t) : TakesBack(t[i]) /\ t[i] \in B
 <2>1. \A i \in 1..Len(t) : TakesBack(t[i])
  <3> HIDE DEF t
  <3> QED BY <1>1, <1>2, <1>3
 <2> QED BY <2>1
<1>6. t \in Seq(B)
 <2> HIDE DEF t, B
 <2>1. t \in [1..Len(t) -> B]
   BY <1>4, <1>5
 <2> QED BY <1>4, <2>1
<1>7. TakesBack(Last(s))
  BY <1>1, <1>2 DEF Last
<1> QED BY <1>5, <1>6, <1>7 DEF History

LEMMA NoHistory == History(<<>>)
<1>1. Len(<<>>) = 0
  OBVIOUS
<1> QED BY <1>1 DEF History

(* What an input may do: patch one drawing; open, keep or close the dialog.  *)
LEMMA PatchKeeps ==
  ASSUME CanvasWhole, NEW k, NEW p, canvas' = [canvas EXCEPT ![k] = Patched(@, p)]
  PROVE  CanvasWhole'
<1>1. \A x : Whole(Patched(x, p))
  BY PatchedIs
<1>2. ASSUME NEW d \in DOMAIN canvas'
      PROVE  d # Nothing /\ Whole(canvas'[d])
 <2>1. d \in DOMAIN canvas /\ canvas'[d] = IF d = k THEN Patched(canvas[k], p) ELSE canvas[d]
   OBVIOUS
 <2> QED BY <1>1, <2>1 DEF CanvasWhole
<1> QED BY <1>2 DEF CanvasWhole

LEMMA EditKeeps ==
  ASSUME CanvasWhole, HistoryTakesBack, NEW p, Edit(p)
  PROVE  CanvasWhole' /\ HistoryTakesBack'
<1>1. CanvasWhole'
  BY PatchKeeps DEF Edit
<1> QED BY <1>1 DEF Edit, HistoryTakesBack

LEMMA DialogStays ==
  ASSUME SnapshotHeld,
         \/ dialog' = dialog \/ dialog' = Closed
         \/ \E b : dialog' = [dialog EXCEPT !.pop = b] \/ dialog' = [dialog EXCEPT !.naming = b]
                   \/ dialog' = [dialog EXCEPT !.naming = TRUE, !.pop = b]
  PROVE  SnapshotHeld'
<1>1. CASE dialog' = dialog
  BY <1>1 DEF SnapshotHeld
<1>2. CASE dialog' = Closed
  BY <1>2 DEF SnapshotHeld, Closed
<1>3. ASSUME NEW b, dialog' = [dialog EXCEPT !.pop = b] \/ dialog' = [dialog EXCEPT !.naming = b]
                    \/ dialog' = [dialog EXCEPT !.naming = TRUE, !.pop = b]
      PROVE  SnapshotHeld'
 <2>1. PICK n, q : dialog' = [id |-> dialog.id, snapshot |-> dialog.snapshot, opened |-> dialog.opened,
                              pop |-> q, naming |-> n]
   BY <1>3 DEF SnapshotHeld
 <2> QED BY <2>1 DEF SnapshotHeld
<1> QED BY <1>1, <1>2, <1>3

LEMMA ControlsKeep ==
  ASSUME SettingsInv,
         \/ PatchLevel \/ AddLevel \/ RemoveLevel \/ ChoosePreset \/ ToggleVisible
         \/ \E v \in Tint : ToggleFill(v) \/ EditCoordinates(v) \/ PatchText(v) \/ (\E f \in StyleField : PatchStyle(f, v))
                            \/ PatchFib(v) \/ PatchInput(v) \/ PatchRisk(v)
         \/ ToggleStat("percent")
         \/ \E p \in {3, 6} : SetEntryPrice(p) \/ \E i \in 2..3 : SetLevelPrice(i, p)
         \/ \E n \in TemplateName : ApplyTemplate(n)
  PROVE  SettingsInv'
<1>1. PICK p : Edit(p)
  BY DEF PatchLevel, AddLevel, RemoveLevel, ChoosePreset, EditLevels, ToggleVisible, ToggleFill,
         EditCoordinates, PatchText, PatchStyle, PatchFib, PatchInput, PatchRisk, ToggleStat,
         SetEntryPrice, SetLevelPrice, ApplyTemplate
<1>2. dialog' = dialog
  BY DEF PatchLevel, AddLevel, RemoveLevel, ChoosePreset, EditLevels, ToggleVisible, ToggleFill,
         EditCoordinates, PatchText, PatchStyle, PatchFib, PatchInput, PatchRisk, ToggleStat,
         SetEntryPrice, SetLevelPrice, ApplyTemplate
<1> QED BY <1>1, <1>2, EditKeeps, DialogStays DEF SettingsInv

LEMMA PickerKeeps ==
  ASSUME SettingsInv, (\E v \in Tint : PickColor(v) \/ MixColor(v)) \/ AddCustomColor \/ TogglePopover
  PROVE  SettingsInv'
<1>1. CASE (\E v \in Tint : PickColor(v)) \/ AddCustomColor
 <2>1. PICK p : Edit(p)
   BY <1>1 DEF PickColor, AddCustomColor
 <2>2. dialog' = [dialog EXCEPT !.pop = FALSE]
   BY <1>1 DEF PickColor, AddCustomColor, ClosePopover
 <2> QED BY <2>1, <2>2, EditKeeps, DialogStays DEF SettingsInv
<1>2. CASE (\E v \in Tint : MixColor(v)) \/ TogglePopover
 <2>1. canvas' = canvas /\ edits' = edits
   BY <1>2 DEF MixColor, TogglePopover
 <2>2. dialog' = dialog \/ dialog' = [dialog EXCEPT !.pop = ~ dialog.pop]
   BY <1>2 DEF MixColor, TogglePopover
 <2> QED BY <2>1, <2>2, DialogStays DEF SettingsInv, CanvasWhole, HistoryTakesBack
<1> QED BY <1>1, <1>2

LEMMA DialogKeeps ==
  ASSUME SettingsInv, (\E d : OpenDialog(d)) \/ CancelDialog \/ PressEscape \/ AskName
                      \/ \E n \in TemplateName : SaveTemplate(n)
  PROVE  SettingsInv'
<1>1. CASE \E d : OpenDialog(d)
 <2>1. PICK d : OpenDialog(d)
   BY <1>1
 <2>2. canvas' = canvas /\ edits' = edits
   BY <2>1 DEF OpenDialog
 <2>3. dialog' = [id |-> d, snapshot |-> canvas[d], opened |-> canvas[d], pop |-> FALSE, naming |-> FALSE]
   BY <2>1 DEF OpenDialog, Closed
 <2>4. Whole(canvas[d])
   BY <2>1 DEF OpenDialog, SettingsInv, CanvasWhole
 <2> QED BY <2>2, <2>3, <2>4 DEF SettingsInv, CanvasWhole, HistoryTakesBack, SnapshotHeld
<1>2. CASE DialogCancel
 <2>1. CanvasWhole'
   BY <1>2, PatchKeeps DEF DialogCancel, SettingsInv
 <2> QED BY <1>2, <2>1, DialogStays DEF DialogCancel, SettingsInv, HistoryTakesBack
<1>3. CASE (PressEscape /\ ~ DialogCancel) \/ AskName \/ \E n \in TemplateName : SaveTemplate(n)
 <2>1. canvas' = canvas /\ edits' = edits
   BY <1>3 DEF PressEscape, AskName, SaveTemplate
 <2>2. dialog' = [dialog EXCEPT !.naming = FALSE] \/ dialog' = [dialog EXCEPT !.naming = TRUE, !.pop = FALSE]
   BY <1>3 DEF PressEscape, AskName, SaveTemplate
 <2> QED BY <2>1, <2>2, DialogStays DEF SettingsInv, CanvasWhole, HistoryTakesBack
<1> QED BY <1>1, <1>2, <1>3 DEF CancelDialog, PressEscape

LEMMA OkKeeps ==
  ASSUME SettingsInv, Ok
  PROVE  SettingsInv'
<1> DEFINE c == Command(dialog.id, BuildCommit(canvas[dialog.id], dialog.snapshot), dialog.opened)
<1>1. canvas' = canvas /\ dialog' = Closed /\ (edits' = edits \/ edits' = Executed(edits, c))
  BY DEF Ok
<1>2. TakesBack(c)
 <2>1. dialog.snapshot = dialog.opened /\ Whole(dialog.opened)
   BY DEF Ok, SettingsInv, SnapshotHeld, CanvasWhole
 <2> QED BY <2>1, CommitTakesBack
<1> HIDE DEF c
<1>3. HistoryTakesBack'
 <2>1. CASE edits' = edits
   BY <2>1 DEF SettingsInv, HistoryTakesBack
 <2>2. CASE edits' = Executed(edits, c)
  <3>1. edits'.undo = Append(edits.undo, c) /\ edits'.redo = <<>>
    BY <2>2 DEF Executed
  <3> QED BY <1>2, <3>1, HistoryPushed, NoHistory DEF SettingsInv, HistoryTakesBack
 <2> QED BY <1>1, <2>1, <2>2
<1> QED BY <1>1, <1>3, DialogStays DEF SettingsInv, CanvasWhole

LEMMA ToolbarKeeps ==
  ASSUME SettingsInv, NEW d, NEW v, ToolbarColor(d, v) \/ ToolbarFill(d, v) \/ ToolbarWidth(d, v)
  PROVE  SettingsInv'
<1>1. CASE ToolbarColor(d, v) \/ ToolbarFill(d, v)
 <2>1. PICK p : ApplyPatch(d, p)
   BY <1>1 DEF ToolbarColor, ToolbarFill
 <2>2. canvas' = [canvas EXCEPT ![d] = Patched(@, p)] /\ dialog' = dialog /\ d \in DOMAIN canvas
   BY <2>1 DEF ApplyPatch
 <2> DEFINE c == Command(d, BuildCommit(Patched(canvas[d], p), canvas[d]), canvas[d])
 <2>3. TakesBack(c)
   BY <2>2, CommitTakesBack DEF SettingsInv, CanvasWhole
 <2>4. edits' = Executed(edits, c)
   BY <2>1 DEF ApplyPatch
 <2> HIDE DEF c
 <2>5. edits'.undo = Append(edits.undo, c) /\ edits'.redo = <<>>
   BY <2>4 DEF Executed
 <2>6. HistoryTakesBack'
   BY <2>3, <2>5, HistoryPushed, NoHistory DEF SettingsInv, HistoryTakesBack
 <2> QED BY <2>2, <2>6, PatchKeeps, DialogStays DEF SettingsInv
<1>2. CASE ToolbarWidth(d, v)
 <2>1. canvas' = [canvas EXCEPT ![d] = Patched(@, Put(None, "lineWidth", v))] /\ dialog' = dialog /\ edits' = edits
   BY <1>2 DEF ToolbarWidth
 <2> QED BY <2>1, PatchKeeps, DialogStays DEF SettingsInv, HistoryTakesBack
<1> QED BY <1>1, <1>2

LEMMA UndoRedoKeep ==
  ASSUME SettingsInv, UndoSettings \/ RedoSettings
  PROVE  SettingsInv'
<1>1. CASE UndoSettings
 <2> DEFINE c == Last(edits.undo)
 <2>1. /\ edits.undo # <<>> /\ dialog' = dialog /\ canvas' = [canvas EXCEPT ![c.id] = Patched(@, c.before)]
       /\ edits' = [undo |-> Front(edits.undo), redo |-> Append(edits.redo, c)]
   BY <1>1 DEF UndoSettings
 <2>2. CanvasWhole'
   BY <2>1, PatchKeeps DEF SettingsInv
 <2>3. HistoryTakesBack'
   BY <2>1, HistoryPopped, HistoryPushed DEF SettingsInv, HistoryTakesBack
 <2> QED BY <2>1, <2>2, <2>3, DialogStays DEF SettingsInv
<1>2. CASE RedoSettings
 <2> DEFINE c == Last(edits.redo)
 <2>1. /\ edits.redo # <<>> /\ dialog' = dialog /\ canvas' = [canvas EXCEPT ![c.id] = Patched(@, c.after)]
       /\ edits' = [undo |-> Append(edits.undo, c), redo |-> Front(edits.redo)]
   BY <1>2 DEF RedoSettings
 <2>2. CanvasWhole'
   BY <2>1, PatchKeeps DEF SettingsInv
 <2>3. HistoryTakesBack'
   BY <2>1, HistoryPopped, HistoryPushed DEF SettingsInv, HistoryTakesBack
 <2> QED BY <2>1, <2>2, <2>3, DialogStays DEF SettingsInv
<1> QED BY <1>1, <1>2

LEMMA SettingsStart ==
  ASSUME SettingsInit
  PROVE  SettingsInv
<1>1. 1 # Nothing /\ <<2>> # Nothing /\ <<4, 8, 2>> # Nothing
 <2>1. <<2>> \in Seq(Nat) /\ <<4, 8, 2>> \in Seq(Nat)
   OBVIOUS
 <2>2. \A q \in Seq(Nat) : q # Nothing
   BY SettingsConstants
 <2>3. 1 # Nothing
   BY NothingIsNoNumber
 <2> QED BY <2>1, <2>2, <2>3
<1>2. Whole([color |-> 1, points |-> <<4, 8, 2>>]) /\ Whole([color |-> 1, points |-> <<2>>])
 <2>1. ASSUME NEW q, q # Nothing
       PROVE  Whole([color |-> 1, points |-> q])
   BY <1>1, <2>1 DEF Whole
 <2> QED BY <1>1, <2>1
<1>3. CanvasWhole
  BY <1>2, SettingsConstants DEF SettingsInit, CanvasWhole
<1>4. SnapshotHeld
  BY DEF SettingsInit, SnapshotHeld, Closed
<1> QED BY <1>3, <1>4, NoHistory DEF SettingsInit, HistoryTakesBack, SettingsInv

LEMMA SettingsKeep ==
  ASSUME SettingsInv, [SettingsNext]_settingVars
  PROVE  SettingsInv'
<1>1. CASE UNCHANGED settingVars
  BY <1>1 DEF settingVars, SettingsInv, CanvasWhole, SnapshotHeld, HistoryTakesBack
<1>2. CASE (\E call \in tintPresets.saving : TemplateSaved(call) \/ TemplateNotSaved(call))
           \/ (\E id \in tintPresets.deleting, finished \in BOOLEAN : TemplateDeleted(id, finished))
           \/ (\E n \in TemplateName : DeleteTemplate(n))
 <2>1. canvas' = canvas /\ edits' = edits /\ dialog' = dialog
   BY <1>2 DEF TemplateSaved, TemplateNotSaved, TemplateDeleted, DeleteTemplate, UNCHANGEDButPresets
 <2> QED BY <2>1 DEF SettingsInv, CanvasWhole, SnapshotHeld, HistoryTakesBack
<1>3. CASE SettingsNext
  BY <1>2, <1>3, ControlsKeep, PickerKeeps, DialogKeeps, OkKeeps, ToolbarKeeps, UndoRedoKeep DEF SettingsNext
<1> QED BY <1>1, <1>3

(* What a dialog did can be taken back whole, whatever was patched, added   *)
(* or removed meanwhile: Cancel gives the drawing as it was when the dialog *)
(* opened (buildDrawingSettingsRevert), undoing the newest command as it    *)
(* was before OK or the toolbar (buildDrawingSettingsCommit).               *)
THEOREM SettingsTakenBack == SettingsSpec => []SettingsCanBeTakenBack
<1>1. SettingsInv => SettingsCanBeTakenBack
 <2> SUFFICES ASSUME SettingsInv PROVE SettingsCanBeTakenBack
   OBVIOUS
 <2>1. ASSUME dialog.id \in DOMAIN canvas
       PROVE  Patched(canvas[dialog.id], BuildRevert(canvas[dialog.id], dialog.snapshot)) = dialog.opened
   BY <2>1, RevertGivesSnapshot DEF SettingsInv, CanvasWhole, SnapshotHeld
 <2>2. ASSUME NEW c, c = Last(edits.undo), edits.undo # <<>>, canvas[c.id] = Patched(c.was, c.after)
       PROVE  Patched(canvas[c.id], c.before) = c.was
  <3>1. TakesBack(c)
    BY <2>2, HistoryPopped DEF SettingsInv, HistoryTakesBack
  <3> QED BY <2>2, <3>1, CommandTakesBack
 <2> QED BY <2>1, <2>2 DEF SettingsCanBeTakenBack
<1> QED BY <1>1, SettingsStart, SettingsKeep, PTL DEF SettingsSpec

(***************************************************************************)
(* The parts side by side: a step of the workspace is a step of each part, *)
(* or leaves it alone.                                                     *)
(***************************************************************************)
LEMMA PartsStepAlone ==
  [MCNext]_mcVars => /\ [TabsNext]_tabVars /\ [LayoutsNext]_layoutVars
                     /\ [PreferencesNext]_preferenceVars /\ [IndicatorsNext]_indicatorVars
<1> SUFFICES ASSUME [MCNext]_mcVars
             PROVE  /\ [TabsNext]_tabVars /\ [LayoutsNext]_layoutVars
                    /\ [PreferencesNext]_preferenceVars /\ [IndicatorsNext]_indicatorVars
  OBVIOUS
<1>1. CASE UNCHANGED mcVars
  BY <1>1 DEF mcVars
<1>2. CASE MCNext
  BY <1>2 DEF MCNext
<1> QED BY <1>1, <1>2

LEMMA PartsOfWorkspace == MCSpec => TabsSpec /\ LayoutsSpec /\ PreferencesSpec /\ IndicatorsSpec
<1>1. MCInit => TabsInit /\ LayoutsInit /\ PreferencesInit /\ IndicatorsInit
  BY DEF MCInit
<1> QED BY <1>1, PartsStepAlone, PTL DEF MCSpec, TabsSpec, LayoutsSpec, PreferencesSpec, IndicatorsSpec

(* What the browser calls saved is the server's: the document of the chart  *)
(* tabs (chartTaskTabsSyncQueue.ts), and the rows of the saved layouts at    *)
(* the last commit heard of, unless since the last bootstrap an answer was  *)
(* lost, overtaken or took back a default flag (layoutStore.ts 125-313).    *)
THEOREM SavedIsKept == MCSpec => []SavedIsAtTheServer
<1>1. SavedIsStored /\ LayoutsFollowServer => SavedIsAtTheServer
  BY DEF SavedIsAtTheServer
<1> QED BY <1>1, PartsOfWorkspace, TabsAreStored, LayoutsAreTheServers, PTL

(* What the user chose ends up at the server: the settings of every section *)
(* (createSettingsMutationQueue) and the indicators of every pane           *)
(* (scheduleIndicatorSync).                                                 *)
THEOREM ChoicesReachTheServer == MCSpec => []ChoicesLand
<1>1. SettingsLand /\ IndicatorsLand => ChoicesLand
  BY DEF ChoicesLand
<1> QED BY <1>1, PartsOfWorkspace, SettingsReachTheServer, IndicatorsReachTheServer, PTL
==============================================================================
