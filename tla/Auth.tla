-------------------------------- MODULE Auth --------------------------------
(***************************************************************************)
(* Who a request is served as (internal/auth, Store.UpsertUser, and the    *)
(* group lookup of the reverse proxy, apache/group_lookup.lua).            *)
(*                                                                         *)
(* Two listeners share the users table and the secret of the sessions.     *)
(* Behind the proxy every request carries the groups of its user, out of a *)
(* cache that each worker of Apache keeps; the other listener takes a      *)
(* session cookie, which a login at the OIDC provider or any request       *)
(* behind the proxy issues.  Groups change in the directory meanwhile, and *)
(* requests of several tabs of one browser interleave statement by         *)
(* statement.                                                              *)
(***************************************************************************)
EXTENDS Integers, Sequences, SequencesExt

CONSTANTS
  User, Request, Worker,   \* people, requests under way at once, Apache workers
  Memberships,             \* sets of groups that a user may have
  CacheTTL, SessionTTL,    \* TVZ_LDAP_CACHE_TTL and jwt_ttl
  MaxTime, MaxChanges, MaxLogins   \* bounds

ASSUME AuthAssumption ==
  /\ {CacheTTL, SessionTTL} \subseteq Nat \ {0}
  /\ {MaxTime, MaxChanges, MaxLogins} \subseteq Nat
  /\ User # {}
  /\ \A gs \in Memberships : IsFiniteSet(gs)

VARIABLES
  now,       \* the time
  groups,    \* the groups of each user at the directory
  held,      \* history: the roles the directory gave each user at each time
  cache,     \* the Lua table of each worker: user to groups and time
  users,     \* the table: user to role
  session,   \* the cookie teamviz_token
  login,     \* the cookies teamviz_oauth_state and teamviz_oauth_verifier
  codes,     \* the logins for which the provider has a code it can exchange
  req,       \* the requests
  count      \* how often the bounded things happened

vars == <<now, groups, held, cache, users, session, login, codes, req, count>>

-----------------------------------------------------------------------------
(* Roles.                                                                   *)

Role  == {"readonly", "normal", "admin"}
Level == [none |-> 0, readonly |-> 1, normal |-> 2, admin |-> 3]

\* What the documentation means: the highest role that a group of the user gives.
Highest(gs) == CHOOSE role \in Role \cup {"none"} :
  /\ role = "none" \/ role \in gs
  /\ \A g \in gs \cap Role : Level[g] <= Level[role]

\* A mutant of Mapped: no recognised group gives read-only access.
MappedOpen(list) ==
  FoldLeft(LAMBDA role, g : IF g \in Role /\ Level[g] > Level[role] THEN g ELSE role,
           "readonly", list)

\* mapGroupsToRole: one pass over the list; "none" is the ok = false.
Mapped(list) ==
  FoldLeft(LAMBDA role, g :
             IF g = "admin" THEN "admin"
             ELSE IF g = "normal" /\ role # "admin" THEN "normal"
             ELSE IF g = "readonly" /\ role = "none" THEN "readonly"
             ELSE role,
           "none", list)

\* roleSatisfies.
Satisfies(role, min) == Level[role] >= Level[min]

\* The orders in which the provider may claim groups; map_groups of the proxy
\* sorts those it has an entry for.
Claims(gs)   == SetToSeqs(gs)
MapGroups(gs) ==
  LET entry(g) == IF g \in gs THEN <<g>> ELSE <<>>
  IN entry("admin") \o entry("normal") \o entry("readonly")

-----------------------------------------------------------------------------
NoToken  == [none |-> TRUE]
Token    == [user : User, role : Role, exp : 1..(MaxTime + SessionTTL)]
NoEntry  == [none |-> TRUE]
Keep     == [keep |-> TRUE]      \* an answer without Set-Cookie

Status == {"", "served", "forbidden", "denied", "unauthorized", "failed", "left"}

\* A request: where its handler is, what it brought, what was found out.
Free == [pc |-> "free"]
RequestState ==
  [pc : {"proxy", "session", "callback", "insert", "update", "fetch", "select", "answered"},
   via : {"proxy", "session", "callback", "logout"}, user : User,
   token : Token \cup {NoToken},      \* the session cookie it brought
   login : 0..MaxLogins, code : 0..MaxLogins,   \* the login cookies, and its code
   role : Role \cup {"none"},         \* User.Role
   start : 0..MaxTime,
   known : BOOLEAN,                   \* history: it started with the user in the table
   status : Status,
   reply : Token \cup {NoToken, Keep}]  \* what the answer makes of the session cookie

TypeOK ==
  /\ now \in 0..MaxTime
  /\ groups \in [User -> Memberships]
  /\ held \in [User -> [0..MaxTime -> SUBSET (Role \cup {"none"})]]
  /\ cache \in [Worker -> [User -> {NoEntry} \cup
       [list : {MapGroups(gs) : gs \in Memberships \cup {{}}}, ts : 0..now]]]
  /\ users \in [User -> Role \cup {"none"}]
  /\ session \in Token \cup {NoToken}
  /\ login \in 0..MaxLogins /\ codes \subseteq 1..MaxLogins
  /\ req \in [Request -> {Free} \cup RequestState]
  /\ count \in [changes : 0..MaxChanges, logins : 0..MaxLogins]

Init ==
  /\ now = 0
  /\ groups \in [User -> Memberships]
  /\ held = [u \in User |-> [t \in 0..MaxTime |-> IF t = 0 THEN {Highest(groups[u])} ELSE {}]]
  /\ cache = [w \in Worker |-> [u \in User |-> NoEntry]]
  /\ users = [u \in User |-> "none"]
  /\ session = NoToken /\ login = 0 /\ codes = {}
  /\ req = [r \in Request |-> Free]
  /\ count = [changes |-> 0, logins |-> 0]

-----------------------------------------------------------------------------
(* The world.                                                               *)

\* A request takes at most one unit of time: the server's timeouts end it.
Tick ==
  /\ now < MaxTime
  /\ \A r \in Request : req[r] # Free => req[r].start = now
  /\ now' = now + 1
  /\ held' = [u \in User |-> [held[u] EXCEPT ![now + 1] = {Highest(groups[u])}]]
  /\ UNCHANGED <<groups, cache, users, session, login, codes, req, count>>

ChangeGroups(u) == \E gs \in Memberships \ {groups[u]} :
  /\ count.changes < MaxChanges
  /\ count' = [count EXCEPT !.changes = @ + 1]
  /\ groups' = [groups EXCEPT ![u] = gs]
  /\ held' = [held EXCEPT ![u][now] = @ \cup {Highest(gs)}]
  /\ UNCHANGED <<now, cache, users, session, login, codes, req>>

\* The cookies of a login last five minutes.
LoginExpires ==
  /\ login # 0 /\ login' = 0
  /\ UNCHANGED <<now, groups, held, cache, users, session, codes, req, count>>

-----------------------------------------------------------------------------
(* Requests.                                                                *)

At(r, pc) == req[r] # Free /\ req[r].pc = pc

\* A request of u without cookies.
NewRequest(via, u) ==
  [pc |-> via, via |-> via, user |-> u, token |-> NoToken, login |-> 0, code |-> 0,
   role |-> "none", start |-> now, known |-> FALSE, status |-> "", reply |-> Keep]

Arrives(r, request) ==
  /\ req[r] = Free
  /\ req' = [req EXCEPT ![r] = request]
  /\ UNCHANGED <<now, groups, held, cache, users, session, login, codes, count>>

\* A request to the API: behind the proxy, or to the other listener.
SendProxy(r, u) ==
  Arrives(r, [NewRequest("proxy", u) EXCEPT !.token = session, !.known = users[u] # "none"])
SendSession(r) ==
  LET u == IF session = NoToken THEN CHOOSE u \in User : TRUE ELSE session.user
  IN Arrives(r, [NewRequest("session", u) EXCEPT !.token = session])

\* LoginHandler: its answer sets both cookies, and the provider will come back
\* with a code made for them.
Login ==
  /\ count.logins < MaxLogins
  /\ count' = [count EXCEPT !.logins = @ + 1]
  /\ login' = count'.logins
  /\ codes' = codes \cup {count'.logins}
  /\ UNCHANGED <<now, groups, held, cache, users, session, req>>

\* The provider redirects a user who logged in there; a reload does so again.
SendCallback(r, u) == \E n \in 1..count.logins :
  Arrives(r, [NewRequest("callback", u) EXCEPT !.login = login, !.code = n])

\* LogoutHandler: no authentication is asked for.
SendLogout(r, u) ==
  Arrives(r, [NewRequest("logout", u) EXCEPT !.pc = "answered", !.status = "left",
                                           !.reply = NoToken])

\* The answer reaches the browser: its Set-Cookie headers take effect.
Deliver(r) ==
  /\ At(r, "answered")
  /\ session' = IF req[r].reply = Keep THEN session ELSE req[r].reply
  /\ login' = IF req[r].via = "callback" /\ req[r].reply # Keep THEN 0 ELSE login
  /\ req' = [req EXCEPT ![r] = Free]
  /\ UNCHANGED <<now, groups, held, cache, users, codes, count>>

\* The handler is done: what the request brought no longer matters.
Answered(request, status, reply) ==
  [request EXCEPT !.pc = "answered", !.status = status, !.reply = reply,
                  !.token = NoToken, !.login = 0, !.code = 0]
Answers(r, status, reply) == req' = [req EXCEPT ![r] = Answered(@, status, reply)]

-----------------------------------------------------------------------------
(* Identification.                                                          *)

\* A mutant of Fresh: entries live for ever.
FreshEver(entry) == entry # NoEntry
Fresh(entry) == entry # NoEntry /\ now - entry.ts < CacheTTL

\* Unmapped users are refused, others go on to the table.
Identified(r, role) ==
  IF role = "none" THEN Answers(r, "denied", Keep)
  ELSE req' = [req EXCEPT ![r].role = role, ![r].pc = "select"]

\* fixup, then AuthFromRequest: the groups out of the cache of some worker ...
ProxyCached(r) == \E w \in Worker :
  LET entry == cache[w][req[r].user] IN
  /\ At(r, "proxy") /\ Fresh(entry)
  /\ Identified(r, Mapped(entry.list))
  /\ UNCHANGED <<now, groups, held, cache, users, session, login, codes, count>>

\* ... or out of the directory; a query that fails looks like no groups, and
\* is cached as such.
ProxyLookup(r) == \E w \in Worker, fails \in BOOLEAN :
  LET u == req[r].user IN
  /\ At(r, "proxy") /\ ~Fresh(cache[w][u])
  /\ LET list == MapGroups(IF fails THEN {} ELSE groups[u]) IN
       /\ cache' = [cache EXCEPT ![w][u] = [list |-> list, ts |-> now]]
       /\ Identified(r, Mapped(list))
  /\ held' = IF fails THEN [held EXCEPT ![u][now] = @ \cup {"none"}] ELSE held
  /\ UNCHANGED <<now, groups, users, session, login, codes, count>>

\* A mutant of Valid: the expiry is not looked at.
ValidEver(token) == token # NoToken
\* ValidateToken.
Valid(token) == token # NoToken /\ now < token.exp

\* The cookie of the session says who the user is.
TakeSession(r) ==
  /\ At(r, "session")
  /\ IF Valid(req[r].token) THEN Identified(r, req[r].token.role)
                           ELSE Answers(r, "unauthorized", Keep)
  /\ UNCHANGED <<now, groups, held, cache, users, session, login, codes, count>>

\* CallbackHandler: a code that does not come with the cookies of its login ...
RefuseState(r) ==
  /\ At(r, "callback") /\ req[r].login # req[r].code
  /\ Answers(r, "failed", Keep)
  /\ UNCHANGED <<now, groups, held, cache, users, session, login, codes, count>>

\* ... is not exchanged, others once; the ID token claims the groups.  A user
\* without a role is denied, and loses the session of an earlier login.
Exchange(r) ==
  /\ At(r, "callback") /\ req[r].login = req[r].code
  /\ IF req[r].code \notin codes THEN Answers(r, "failed", Keep)
     ELSE \E list \in Claims(groups[req[r].user]) :
            IF Mapped(list) # "none" THEN Identified(r, Mapped(list))
                                     ELSE Answers(r, "denied", NoToken)
  /\ codes' = codes \ {req[r].code}
  /\ UNCHANGED <<now, groups, held, cache, users, session, login, count>>

-----------------------------------------------------------------------------
(* UpsertUser, then the token and the role check.                           *)

\* A mutant of AfterSelect: the user is inserted without looking.
AfterSelectBlind(u) == "insert"
AfterSelect(u) == IF users[u] = "none" THEN "insert" ELSE "update"

Select(r) ==
  /\ At(r, "select")
  /\ req' = [req EXCEPT ![r].pc = AfterSelect(req[r].user)]
  /\ UNCHANGED <<now, groups, held, cache, users, session, login, codes, count>>

\* The username is unique: the later of two first requests fails, which the
\* middleware answers with 401 and the callback with 500.
Insert(r) ==
  LET u == req[r].user IN
  /\ At(r, "insert")
  /\ IF users[u] = "none"
     THEN /\ users' = [users EXCEPT ![u] = req[r].role]
          /\ req' = [req EXCEPT ![r].pc = "fetch"]
     ELSE /\ UNCHANGED users
          /\ Answers(r, IF req[r].via = "callback" THEN "failed" ELSE "unauthorized", Keep)
  /\ UNCHANGED <<now, groups, held, cache, session, login, codes, count>>

\* A mutant of Expiry: one unit too many.
ExpiryLate == now + SessionTTL + 1
Expiry == now + SessionTTL

\* A mutant of Reply: every use of a session renews it.
ReplySliding(r, role) == [user |-> req[r].user, role |-> role, exp |-> Expiry]

\* tokenForUser behind the proxy, IssueToken after a login; a session request
\* keeps its token.  The role is the identity's, not the row's.
Reply(r, role) ==
  LET old == req[r].token
      own == Valid(old) /\ old.user = req[r].user /\ old.role = role
  IN IF req[r].via = "session" \/ (req[r].via = "proxy" /\ own) THEN Keep
     ELSE [user |-> req[r].user, role |-> role, exp |-> Expiry]

\* The end of the middleware, and RequireRole of some route; a callback
\* redirects to the page.
Finishes(r, role) == \E min \in Role :
  LET status == IF req[r].via = "callback" THEN "left"
                ELSE IF Satisfies(role, min) THEN "served" ELSE "forbidden"
  IN req' = [req EXCEPT ![r] = [Answered(@, status, Reply(r, req[r].role)) EXCEPT !.role = role]]

Update(r) ==
  /\ At(r, "update")
  /\ users' = [users EXCEPT ![req[r].user] = req[r].role]
  /\ Finishes(r, req[r].role)
  /\ UNCHANGED <<now, groups, held, cache, session, login, codes, count>>

\* The row is read back: another request may have updated it since.
Fetch(r) ==
  /\ At(r, "fetch")
  /\ Finishes(r, users[req[r].user])
  /\ UNCHANGED <<now, groups, held, cache, users, session, login, codes, count>>

Handle(r) ==
  \/ ProxyCached(r) \/ ProxyLookup(r) \/ TakeSession(r) \/ RefuseState(r) \/ Exchange(r)
  \/ Select(r) \/ Insert(r) \/ Update(r) \/ Fetch(r)

Next ==
  \/ Tick \/ LoginExpires \/ Login
  \/ \E u \in User : ChangeGroups(u)
  \/ \E r \in Request, u \in User : SendProxy(r, u) \/ SendCallback(r, u) \/ SendLogout(r, u)
  \/ \E r \in Request : SendSession(r) \/ Deliver(r) \/ Handle(r)

Spec == Init /\ [][Next]_vars

-----------------------------------------------------------------------------
(* What authentication promises.                                            *)

\* The directory gave the user this role at some time of an interval.
Held(u, role, from, to) == \E t \in 0..MaxTime : from <= t /\ t <= to /\ role \in held[u][t]

\* Every answer is given under a role, or for want of one, that the directory
\* said within the life of a cache entry (and of a session, where one was
\* used) before the request, whatever the caches and cookies still hold.
RoleIsRecent(r) ==
  req[r] # Free /\ req[r].status \in {"served", "forbidden", "denied"} =>
    LET age == CASE req[r].via = "callback" -> 0
                 [] req[r].via = "proxy"    -> CacheTTL
                 [] req[r].via = "session"  -> CacheTTL + SessionTTL - 1
    IN Held(req[r].user, req[r].role, req[r].start - age, now)
RolesAreRecent == \A r \in Request : RoleIsRecent(r)

\* A session ends SessionTTL after its user was identified: no request, renewal
\* or other listener prolongs it or changes what it says.
SessionsAreRecent ==
  LET issued == session.exp - SessionTTL IN
  session # NoToken =>
    Held(session.user, session.role, issued - CacheTTL, issued)

\* Nothing is stored about a user whom the directory never gave a role.
OnlyMembersAreKnown ==
  \A u \in User : users[u] # "none" => Held(u, users[u], 0, now)

\* A user of the proxy who is in the table is never asked to log in: only
\* first requests can fail each other.
KnownMembersAreServed ==
  \A r \in Request :
    req[r] # Free /\ req[r].via = "proxy" /\ req[r].known => req[r].status # "unauthorized"
=============================================================================
