------------------------------- MODULE Gateway -------------------------------
(* The gateway (gateway/internal/gateway): which configurations it starts     *)
(* with, how a request is routed, the login flow and its cookies, admission   *)
(* and authorization, the in-memory sessions, and the proxying of a request   *)
(* to the Pod of an AgentRun or to a local run.  Browsers, the identity       *)
(* provider and the cluster act between the steps of a request.               *)
EXTENDS Naturals, Sequences, FiniteSets

CONSTANTS
  GwBrowsers,  \* browsers; each is signed in at the provider as its own user
  GwConfigs,   \* configurations, valid or not
  GwRuns,      \* AgentRuns: names, never reused
  GwLocalRuns, \* those that are runs of the local controller instead
  GwKeys,      \* access keys
  GwClaims,    \* claims a user may have: sets of objects, an object a set of values
  GwTargets,   \* the addresses a browser opens
  GwMaxFlows,  \* bound on logins
  GwMaxAge,    \* session lifetime
  GwLoginAge,  \* lifetime of a login
  GwHorizon    \* bound on the clock

ASSUME GatewayBounds == {GwMaxFlows, GwMaxAge, GwLoginAge, GwHorizon} \subseteq Nat
ASSUME GatewayKeys == GwKeys \subseteq STRING /\ "none" \notin GwKeys \* "none" stands for no key

VARIABLES
  gConf, gClock,
  gFlows,     \* logins: at the provider, identified by their state
  gSessions,  \* sessions: flow -> principal and expiry, in memory
  gDead,      \* history: sessions that ended
  gJar,       \* the cookies of a browser
  gReq,       \* the request of a browser that is being served
  gRuns       \* the AgentRuns of the cluster

gatewayVars == <<gConf, gClock, gFlows, gSessions, gDead, gJar, gReq, gRuns>>

NoFlow == 0
NoSession == [user |-> "none", claims |-> {}, expires |-> 0]
EmptyJar == [session |-> NoFlow, login |-> NoFlow, app |-> {}]
Idle == [at |-> "idle", user |-> "none", claims |-> {}, key |-> "none", run |-> "none", owner |-> "none", flow |-> NoFlow, local |-> FALSE, byPath |-> FALSE]
NoRun == [exists |-> FALSE, key |-> "none", owner |-> "none", ready |-> FALSE]

-----------------------------------------------------------------------------
(* Configuration.                                                             *)

Predicates(rule) ==
  Cardinality({p \in {"authenticated", "owner", "values", "where"} :
    CASE p = "authenticated" -> rule.authenticated
      [] p = "owner" -> rule.owner
      [] p = "values" -> rule.values # {}
      [] OTHER -> rule.where # {}})

\* A rule names exactly one predicate; only the rules of runs know an owner.
validateAuthorizationRule(rule, allowOwner) == Predicates(rule) = 1 /\ (rule.owner => allowOwner)

\* An admission policy: the rules of protocol/eligibility.
PolicyValid(rules) == \A rule \in rules : validateAuthorizationRule(rule, FALSE)

validateCommonAuthenticated(c) ==
  /\ \A rule \in c.rules : validateAuthorizationRule(rule, TRUE)
  /\ c.admits => PolicyValid(c.admission)

\* BUG: any absolute path will do.
validOAuthCallbackPath_Absolute(path) == Len(path) >= 1

\* The callback must not shadow, or be shadowed by, the path of a run.
validOAuthCallbackPath(path) == Len(path) >= 2 /\ path[1] = "oauth2" /\ path[2] # ""

ConfigValidate(c) ==
  /\ c.routing = "path" => /\ c.auth # "none" => c.secure
                           /\ ~c.cookieDomain /\ validOAuthCallbackPath(c.callback)
  /\ c.routing = "subdomain" => c.base = <<>>
  /\ c.auth # "none" => validateCommonAuthenticated(c)
  /\ c.auth = "none" => ~c.admits /\ ~c.enrich

GatewayInit ==
  /\ gConf \in {c \in GwConfigs : ConfigValidate(c)}
  /\ gClock = 0 /\ gFlows = <<>> /\ gDead = {}
  /\ gSessions = [f \in 1..GwMaxFlows |-> NoSession]
  /\ gJar = [b \in GwBrowsers |-> EmptyJar]
  /\ gReq = [b \in GwBrowsers |-> Idle]
  /\ gRuns = [r \in GwRuns |-> NoRun]

-----------------------------------------------------------------------------
(* Routing.  A target has a host (a domain and the labels before it) and a    *)
(* path (its segments); ambiguous escapes and backslashes make it unclean.    *)

RouteNotFound == [kind |-> "notfound", key |-> "none"]
RouteDashboard == [kind |-> "dashboard", key |-> "none"]
reservedGatewayPath(key) == key \in {"healthz", "oauth2"}
validAccessKey(key) == key \notin {"", ".", ".."}

\* <<"below", rest>>, or nothing.
pathBelowBase(path, base) ==
  IF Len(path) > Len(base) /\ SubSeq(path, 1, Len(base)) = base THEN {SubSeq(path, Len(base) + 1, Len(path))} ELSE {}

ParsePathAtBase(target, base) ==
  LET below == pathBelowBase(target.path, base)
      rest == CHOOSE p \in below : TRUE
  IN IF ~target.clean \/ below = {} THEN RouteNotFound
     ELSE IF rest = <<"">> THEN RouteDashboard
     ELSE IF Len(rest) < 2 \/ ~validAccessKey(rest[1]) \/ reservedGatewayPath(rest[1])
             \/ \E i \in 1..Len(rest) : rest[i] \in {".", ".."} \/ (i > 1 /\ i < Len(rest) /\ rest[i] = "")
     THEN RouteNotFound
     ELSE [kind |-> "run", key |-> rest[1]]

ParseHost(target) ==
  CASE target.domain = "base" /\ target.labels = <<>> -> RouteDashboard
    [] target.domain = "base" /\ Len(target.labels) = 1 -> [kind |-> "run", key |-> target.labels[1]]
    [] OTHER -> RouteNotFound

\* Local runs have hosts of their own, or a prefix of the path; empty segments
\* before the run's are skipped.
ParseLocalRoute(target) ==
  LET below == pathBelowBase(target.path, <<"agents">>)
      rest == CHOOSE p \in below : TRUE
      first == {i \in 1..Len(rest) : rest[i] # "" /\ \A j \in 1..(i - 1) : rest[j] = ""}
  IN IF ~gConf.local THEN RouteNotFound
     ELSE IF target.domain = "local"
     THEN IF Len(target.labels) \in {1, 2} THEN [kind |-> "local", key |-> target.labels[Len(target.labels)]] ELSE RouteNotFound
     ELSE IF ~target.clean \/ below = {} THEN RouteNotFound
     ELSE IF rest = <<"">> THEN RouteDashboard
     ELSE IF first = {} THEN RouteNotFound ELSE [kind |-> "local", key |-> rest[CHOOSE i \in first : TRUE]]

parseRoute(target) ==
  LET local == ParseLocalRoute(target) IN
  IF local # RouteNotFound THEN local
  ELSE IF gConf.routing = "path" THEN ParsePathAtBase(target, gConf.base) ELSE ParseHost(target)

\* The gateway's own endpoints: login, callback and logout.
HandlePublic(target) ==
  gConf.auth # "none" /\ target.path \in {gConf.base \o p : p \in {<<"oauth2", "login">>, gConf.callback, <<"oauth2", "logout">>}}

requestMatchesPublicOrigin(target) == target.domain = "base" /\ target.labels = <<>>

redirectLocalDashboardRoot(target) ==
  /\ gConf.local /\ target.clean /\ target.path = <<"agents">> /\ target.domain # "local"
  /\ gConf.routing = "path" => requestMatchesPublicOrigin(target)

\* What a request means: nothing outside the public origin in path mode.
ServeRoute(target) ==
  IF target.path = <<"healthz">> \/ redirectLocalDashboardRoot(target) THEN [kind |-> "own", key |-> "none"]
  ELSE IF gConf.routing = "path" /\ (~target.clean \/ pathBelowBase(target.path, gConf.base) = {} \/ ~requestMatchesPublicOrigin(target))
  THEN RouteNotFound
  ELSE IF HandlePublic(target) THEN [kind |-> "own", key |-> "none"]
  ELSE parseRoute(target)

-----------------------------------------------------------------------------
(* Policies.                                                                  *)

\* An array predicate needs one object that meets every condition.
whereMatches(claims, where) == \E object \in claims : \A condition \in where : condition \cap object # {}
claimPathMatches(claims, values) == values \cap UNION claims # {}

\* One predicate of a rule.
RuleMatches(rule, claims, owned) ==
  \/ rule.authenticated
  \/ rule.owner /\ owned
  \/ rule.values # {} /\ claimPathMatches(claims, rule.values)
  \/ rule.where # {} /\ whereMatches(claims, rule.where)

evaluateAuthorization(user, claims, owner) ==
  \E rule \in gConf.rules : RuleMatches(rule, claims, user # "none" /\ user = owner)

EvaluateAdmission(claims) ==
  gConf.admits => \E rule \in gConf.admission : RuleMatches(rule, claims, FALSE)

stripSensitiveClaims(claims) == {object \ {"pid"} : object \in claims}

-----------------------------------------------------------------------------
(* Logging in.                                                                *)

Jar(b, cookies) == gJar' = [gJar EXCEPT ![b] = cookies]
Serve(b, request) == gReq' = [gReq EXCEPT ![b] = request]

\* A second login in the same browser replaces the login cookie of the first.
handleLogin(b) ==
  /\ gConf.auth # "none" /\ Len(gFlows) < GwMaxFlows
  /\ gFlows' = Append(gFlows, [browser |-> b, started |-> gClock, user |-> "none", used |-> FALSE])
  /\ Jar(b, [gJar[b] EXCEPT !.login = Len(gFlows) + 1])
  /\ UNCHANGED <<gConf, gClock, gSessions, gDead, gReq, gRuns>>

\* The user of a browser signs in at the provider, which sends a code back.
ProviderSignsIn(f, b) ==
  /\ gFlows[f].user = "none"
  /\ gFlows' = [gFlows EXCEPT ![f].user = b]
  /\ UNCHANGED <<gConf, gClock, gSessions, gDead, gJar, gReq, gRuns>>

\* BUG: the state of the callback is not compared with the cookie.
stateMatches_Any(b, f) == TRUE

\* The callback must come to the browser that holds the login cookie.
stateMatches(b, f) == gJar[b].login = f

\* The code is exchanged with the verifier of the login cookie, which a provider
\* may ignore; the nonce of an ID token must be that of the login cookie.
handleCallback(b, f) ==
  LET held == gJar[b].login IN
  /\ gReq[b].at = "idle" /\ gFlows[f].user # "none"
  /\ held # NoFlow /\ gClock < gFlows[held].started + GwLoginAge /\ stateMatches(b, f)
  /\ ~gFlows[f].used /\ (gConf.auth = "oidc" => held = f)
  /\ gFlows' = [gFlows EXCEPT ![f].used = TRUE]
  /\ Serve(b, [Idle EXCEPT !.at = "login", !.user = gFlows[f].user, !.flow = f])
  /\ UNCHANGED <<gConf, gClock, gSessions, gDead, gJar, gRuns>>

\* BUG: admission is not asked again about enriched claims.
finishLogin_Unadmitted(b, claims) ==
  /\ gReq[b].at = "login"
  /\ gSessions' = [gSessions EXCEPT ![gReq[b].flow] =
       [user |-> gReq[b].user, claims |-> stripSensitiveClaims(claims), expires |-> gClock + GwMaxAge]]
  /\ Jar(b, [gJar[b] EXCEPT !.session = gReq[b].flow, !.login = NoFlow]) /\ Serve(b, Idle)
  /\ UNCHANGED <<gConf, gClock, gFlows, gDead, gRuns>>

\* The claims are enriched, stripped and admitted before a session exists.
\* Storing it also removes the sessions that expired.
finishLogin(b, claims) ==
  LET stripped == stripSensitiveClaims(claims) IN
  /\ gReq[b].at = "login"
  /\ IF EvaluateAdmission(stripped)
     THEN /\ gSessions' = [f \in 1..GwMaxFlows |->
               IF f = gReq[b].flow THEN [user |-> gReq[b].user, claims |-> stripped, expires |-> gClock + GwMaxAge]
               ELSE IF gSessions[f].expires <= gClock THEN NoSession ELSE gSessions[f]]
          /\ Jar(b, [gJar[b] EXCEPT !.session = gReq[b].flow, !.login = NoFlow])
     ELSE Jar(b, [gJar[b] EXCEPT !.login = NoFlow]) /\ UNCHANGED gSessions
  /\ Serve(b, Idle)
  /\ UNCHANGED <<gConf, gClock, gFlows, gDead, gRuns>>

\* No session: an enrichment source cannot be read, which clears the login
\* cookie, or the code, the token or the identity is refused, which does not.
loginUnavailable(b, cleared) ==
  /\ gReq[b].at = "login" /\ Serve(b, Idle)
  /\ Jar(b, IF cleared THEN [gJar[b] EXCEPT !.login = NoFlow] ELSE gJar[b])
  /\ UNCHANGED <<gConf, gClock, gFlows, gSessions, gDead, gRuns>>

\* BUG: only the cookies are cleared.
handleLogout_CookieOnly(b) ==
  /\ gReq[b].at = "idle" /\ gJar[b].session # NoFlow
  /\ gDead' = gDead \cup {gJar[b].session}
  /\ Jar(b, [gJar[b] EXCEPT !.session = NoFlow, !.login = NoFlow])
  /\ UNCHANGED <<gConf, gClock, gFlows, gSessions, gReq, gRuns>>

\* Logout ends the session itself: another browser may hold a copy of its cookie.
handleLogout(b) ==
  /\ gReq[b].at = "idle" /\ gJar[b].session # NoFlow
  /\ gSessions' = [gSessions EXCEPT ![gJar[b].session] = NoSession] /\ gDead' = gDead \cup {gJar[b].session}
  /\ Jar(b, [gJar[b] EXCEPT !.session = NoFlow, !.login = NoFlow])
  /\ UNCHANGED <<gConf, gClock, gFlows, gReq, gRuns>>

-----------------------------------------------------------------------------
(* Serving a request.                                                         *)

lookupSession(f) == gSessions[f] # NoSession /\ gClock < gSessions[f].expires

\* A target of a run, with a cookie the browser holds or once held; the cookies
\* of the applications that the browser would send are those in its scope.
Authenticate(b, target, f) ==
  LET route == ServeRoute(target)
      local == route.kind = "local"
      request == [Idle EXCEPT !.at = "authenticated", !.key = route.key, !.local = local,
                              !.byPath = IF local THEN target.domain # "local" ELSE gConf.routing = "path"]
      session == gSessions[f]
  IN /\ gReq[b].at = "idle" /\ route.kind \in {"run", "local"}
     /\ IF gConf.auth = "none" THEN f = NoFlow /\ Serve(b, request) /\ UNCHANGED gJar
        ELSE /\ f # NoFlow
             /\ IF lookupSession(f)
                THEN Serve(b, [request EXCEPT !.flow = f, !.user = session.user, !.claims = session.claims]) /\ UNCHANGED gJar
                ELSE Jar(b, [gJar[b] EXCEPT !.session = NoFlow]) /\ UNCHANGED gReq
     /\ UNCHANGED <<gConf, gClock, gFlows, gSessions, gDead, gRuns>>

\* The runs that a key may name.
Named(b, r) == gRuns[r].exists /\ gRuns[r].key = gReq[b].key /\ (gReq[b].local <=> r \in GwLocalRuns)

\* One list of the runs; the first with the key is the one.
resolveAgentRun(b, r) ==
  /\ gReq[b].at = "authenticated" /\ ~gReq[b].local /\ Named(b, r)
  /\ IF gConf.auth = "none" \/ evaluateAuthorization(gReq[b].user, gReq[b].claims, gRuns[r].owner)
     THEN Serve(b, [gReq[b] EXCEPT !.at = "authorised", !.run = r, !.owner = gRuns[r].owner])
     ELSE Serve(b, Idle)
  /\ UNCHANGED <<gConf, gClock, gFlows, gSessions, gDead, gJar, gRuns>>

\* A local run is one document of the local controller: its owner, whether it
\* is ready, and where it is.
serveAuthorizedLocalRun(b, r) ==
  /\ gReq[b].at = "authenticated" /\ gReq[b].local /\ Named(b, r)
  /\ IF (gConf.auth = "none" \/ evaluateAuthorization(gReq[b].user, gReq[b].claims, gRuns[r].owner)) /\ gRuns[r].ready
     THEN Serve(b, [gReq[b] EXCEPT !.at = "proxied", !.run = r, !.owner = gRuns[r].owner])
     ELSE Serve(b, Idle)
  /\ UNCHANGED <<gConf, gClock, gFlows, gSessions, gDead, gJar, gRuns>>

ResolveNotFound(b) ==
  /\ gReq[b].at = "authenticated" /\ \A r \in GwRuns : ~Named(b, r)
  /\ Serve(b, Idle) /\ UNCHANGED <<gConf, gClock, gFlows, gSessions, gDead, gJar, gRuns>>

\* BUG: the run is looked up again by its access key.
resolveTargetForRun_ByKey(b, r) ==
  /\ gReq[b].at = "authorised" /\ gRuns[r].exists /\ gRuns[r].key = gReq[b].key /\ gRuns[r].ready
  /\ Serve(b, [gReq[b] EXCEPT !.at = "proxied", !.run = r])
  /\ UNCHANGED <<gConf, gClock, gFlows, gSessions, gDead, gJar, gRuns>>

\* A second list finds the Pods of that run, by its name.
resolveTargetForRun(b, r) ==
  /\ gReq[b].at = "authorised" /\ r = gReq[b].run /\ gRuns[r].ready
  /\ Serve(b, [gReq[b] EXCEPT !.at = "proxied"])
  /\ UNCHANGED <<gConf, gClock, gFlows, gSessions, gDead, gJar, gRuns>>

NoRunningPod(b) ==
  /\ gReq[b].at = "authorised" /\ ~gRuns[gReq[b].run].ready
  /\ Serve(b, Idle) /\ UNCHANGED <<gConf, gClock, gFlows, gSessions, gDead, gJar, gRuns>>

\* BUG: the path of a cookie is left to the application.
cookieIsWide_Own(byPath, asked) == asked

\* Where runs share an origin a cookie is confined to the path of its run.
\* Elsewhere the browser keeps it to the host of the run, unless the application
\* asks for the whole domain.
cookieIsWide(byPath, asked) == asked /\ ~byPath

\* The application answers, and may set a cookie: never one of the gateway's.
filterUpstreamResponseCookies(b, asked) ==
  LET r == gReq[b].run
      cookie == [wide |-> cookieIsWide(gReq[b].byPath, asked), local |-> r \in GwLocalRuns, key |-> gRuns[r].key, of |-> gRuns[r].owner]
  IN /\ gReq[b].at = "proxied" /\ Serve(b, Idle)
     /\ Jar(b, [gJar[b] EXCEPT !.app = @ \cup {cookie}])
     /\ UNCHANGED <<gConf, gClock, gFlows, gSessions, gDead, gRuns>>

\* The cookies of the browser that reach the application of a run.
filterUpstreamRequestCookies(b, r) ==
  {c \in gJar[b].app : c.wide \/ (c.key = gRuns[r].key /\ (c.local <=> r \in GwLocalRuns))}

\* The dashboard: the runs it lists, and the link to each.
serveDashboard(user, claims) ==
  {r \in GwRuns :
     /\ gRuns[r].exists /\ gRuns[r].ready /\ (r \in GwLocalRuns => gConf.local)
     /\ r \notin GwLocalRuns => gRuns[r].key # ""
     /\ (r \notin GwLocalRuns /\ gConf.routing = "path") => validAccessKey(gRuns[r].key) /\ ~reservedGatewayPath(gRuns[r].key)
     /\ gConf.auth # "none" => evaluateAuthorization(user, claims, gRuns[r].owner)}

localRunOpenURL(r) == [domain |-> "base", labels |-> <<>>, path |-> <<"agents", gRuns[r].key, "">>, clean |-> TRUE]

openURL(r) ==
  IF gConf.routing = "path"
  THEN [domain |-> "base", labels |-> <<>>, path |-> gConf.base \o <<gRuns[r].key, "">>, clean |-> TRUE]
  ELSE [domain |-> "base", labels |-> <<gRuns[r].key>>, path |-> <<"">>, clean |-> TRUE]

-----------------------------------------------------------------------------
(* The cluster, the clock and the process.                                    *)

RunCreated(r, key, owner) ==
  /\ gRuns[r] = NoRun
  /\ \A other \in GwRuns : gRuns[other].exists /\ (r \in GwLocalRuns <=> other \in GwLocalRuns) => gRuns[other].key # key
  /\ r \in GwLocalRuns => gConf.local /\ owner # "none"
  /\ gRuns' = [gRuns EXCEPT ![r] = [exists |-> TRUE, key |-> key, owner |-> owner, ready |-> TRUE]]
  /\ UNCHANGED <<gConf, gClock, gFlows, gSessions, gDead, gJar, gReq>>

\* The Pod of a deleted run may still be ready for a while.
RunDeleted(r) ==
  /\ gRuns[r].exists /\ gRuns' = [gRuns EXCEPT ![r].exists = FALSE]
  /\ UNCHANGED <<gConf, gClock, gFlows, gSessions, gDead, gJar, gReq>>

PodGone(r) ==
  /\ gRuns[r].ready /\ gRuns' = [gRuns EXCEPT ![r].ready = FALSE]
  /\ UNCHANGED <<gConf, gClock, gFlows, gSessions, gDead, gJar, gReq>>

GatewayTick ==
  /\ gClock < GwHorizon /\ gClock' = gClock + 1
  /\ gDead' = gDead \cup {f \in 1..GwMaxFlows : gSessions[f] # NoSession /\ gSessions[f].expires <= gClock + 1}
  /\ UNCHANGED <<gConf, gFlows, gSessions, gJar, gReq, gRuns>>

\* Sessions do not survive the process; cookies do.
GatewayRestart ==
  /\ \E f \in 1..GwMaxFlows : gSessions[f] # NoSession
  /\ gDead' = gDead \cup {f \in 1..GwMaxFlows : gSessions[f] # NoSession}
  /\ gSessions' = [f \in 1..GwMaxFlows |-> NoSession] /\ gReq' = [b \in GwBrowsers |-> Idle]
  /\ UNCHANGED <<gConf, gClock, gFlows, gJar, gRuns>>

GatewayNext ==
  \/ GatewayTick
  \/ GatewayRestart
  \/ \E r \in GwRuns : RunDeleted(r) \/ PodGone(r)
  \/ \E r \in GwRuns, key \in GwKeys, owner \in GwBrowsers \cup {"none"} : RunCreated(r, key, owner)
  \/ \E f \in 1..Len(gFlows), b \in GwBrowsers : ProviderSignsIn(f, b)
  \/ \E b \in GwBrowsers :
       \/ handleLogin(b)
       \/ \E f \in 1..Len(gFlows) : handleCallback(b, f)
       \/ \E claims \in GwClaims : finishLogin(b, claims)
       \/ \E cleared \in BOOLEAN : loginUnavailable(b, cleared)
       \/ handleLogout(b)
       \/ \E target \in GwTargets, f \in 0..Len(gFlows) : Authenticate(b, target, f)
       \/ \E r \in GwRuns : resolveAgentRun(b, r) \/ serveAuthorizedLocalRun(b, r) \/ resolveTargetForRun(b, r)
       \/ ResolveNotFound(b)
       \/ NoRunningPod(b)
       \/ \E asked \in BOOLEAN : filterUpstreamResponseCookies(b, asked)

GatewaySpec == GatewayInit /\ [][GatewayNext]_gatewayVars

-----------------------------------------------------------------------------
(* Properties.                                                                *)

\* A browser gets a session only from the login it started itself, for the user
\* who signed in there: concurrent logins, of one browser or of two, are never
\* mixed up (handleLogin, handleCallback).
LoginsNotMixed ==
  \A b \in GwBrowsers : gReq[b].at = "login" =>
    gFlows[gReq[b].flow].browser = b /\ gFlows[gReq[b].flow].user = gReq[b].user

\* No session exists, and no request is served, for claims that the admission
\* policy does not admit, or that still hold a sensitive value.
SessionsAdmitted ==
  \A f \in 1..GwMaxFlows : gSessions[f] # NoSession =>
    EvaluateAdmission(gSessions[f].claims) /\ "pid" \notin UNION gSessions[f].claims

\* A session that ended (logout, expiry, a restart of the gateway) authenticates
\* no request again, whoever still holds its cookie.
EndedSessionsStayEnded ==
  \A f \in gDead : ~lookupSession(f)

\* A proxied request reaches the run it was authorised for, even when runs are
\* deleted and their keys taken over between the two lists; and a user who is
\* not its owner reaches it only by a rule that does not ask for the owner.
ProxiedAsAuthorised ==
  \A b \in GwBrowsers : gReq[b].at = "proxied" /\ gConf.auth # "none" =>
    /\ gRuns[gReq[b].run].owner = gReq[b].owner
    /\ gReq[b].user = gReq[b].owner
       \/ \E rule \in gConf.rules : ~rule.owner /\ RuleMatches(rule, gReq[b].claims, FALSE)

\* The dashboard of a user lists only runs that he may open, and its link to a
\* run leads to that run, not to an endpoint of the gateway or to a run of the
\* other kind (openURL and parseRoute agree).  Local runs are listed in path mode
\* below a base path too, where their links lead nowhere.
DashboardLinksOpen ==
  \A viewer \in IF gConf.auth = "none" THEN {NoSession} ELSE {gSessions[f] : f \in {g \in 1..GwMaxFlows : lookupSession(g)}} :
  \A r \in serveDashboard(viewer.user, viewer.claims) :
    LET local == r \in GwLocalRuns IN
    /\ local /\ gConf.base = <<>> => ServeRoute(localRunOpenURL(r)) = [kind |-> "local", key |-> gRuns[r].key]
    /\ ~local => ServeRoute(openURL(r)) = [kind |-> "run", key |-> gRuns[r].key]

\* In path mode an application never receives a cookie that the application of
\* another owner's run set, unless that owner's run had the same key before it.
CookiesConfined ==
  gConf.routing = "path" => \A b \in GwBrowsers : \A r \in GwRuns : gRuns[r].exists =>
    \A c \in filterUpstreamRequestCookies(b, r) :
      c.of = gRuns[r].owner \/ \E other \in GwRuns \ {r} : gRuns[other].key = gRuns[r].key /\ gRuns[other].owner = c.of

\* Who is signed in earned it: no session comes from a mixed-up login, from claims
\* the policy does not admit, or from a session that has ended.
SessionsEarned == LoginsNotMixed /\ SessionsAdmitted /\ EndedSessionsStayEnded

\* Runs are kept apart: requests, links and cookies for one run never lead to, or
\* come from, another, while runs end and their keys pass to other owners.
RunsKeptApart == ProxiedAsAuthorised /\ DashboardLinksOpen /\ CookiesConfined
=============================================================================
