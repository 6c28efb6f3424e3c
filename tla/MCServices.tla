---------------------------- MODULE MCServices ----------------------------
(* Services that share no state, checked side by side: the local controller's *)
(* run store behind its API, the gateway, the enrichment of a login's claims  *)
(* and the credential portal.  A behaviour belongs to one part, chosen at     *)
(* first, and the others stay as they began, so that the state space is the   *)
(* sum of theirs.                                                             *)
EXTENDS MCLocalRunAPI, Gateway, ClaimEnrichment, CredentialPortal, TLC

VARIABLE part

Parts == {"workstation", "groups", "gateway", "enrichment", "portal"}
partVars == <<part, runs, gatewayVars, enrichVars, portalVars>>

-----------------------------------------------------------------------------
(* Gateway: both routings, with and without a base path, with the three kinds *)
(* of authentication; b2 and the runs y and z join where they matter.         *)

GwRule(owner, values, where) == [authenticated |-> FALSE, owner |-> owner, values |-> values, where |-> where]
OwnerRule == GwRule(TRUE, {}, {})
TeamRule == GwRule(FALSE, {}, {{"team"}, {"lead"}})
AnyTeam == GwRule(FALSE, {"team"}, {})
GwConf(routing, base, callback, auth, rules, admission, local) ==
  [routing |-> routing, base |-> base, callback |-> callback, auth |-> auth, rules |-> rules, admits |-> admission # {},
   admission |-> admission, secure |-> TRUE, cookieDomain |-> FALSE, enrich |-> auth # "none", local |-> local]
GwCallback == <<"oauth2", "callback">>
MCGwConfigs ==
  {GwConf("path", <<"nvt">>, GwCallback, "oauth2", {OwnerRule, TeamRule}, {AnyTeam}, FALSE),
   GwConf("path", <<>>, <<"k1", "">>, "oidc", {OwnerRule}, {AnyTeam}, TRUE),
   GwConf("path", <<>>, GwCallback, "oidc", {OwnerRule}, {OwnerRule}, TRUE),
   GwConf("subdomain", <<>>, GwCallback, "oidc", {OwnerRule}, {}, TRUE),
   GwConf("path", <<>>, GwCallback, "none", {}, {}, TRUE)}
MCGwClaims == {{}, {{"team", "pid"}, {"lead"}}, {{"team", "lead"}}}
GwTarget(domain, labels, path) == [domain |-> domain, labels |-> labels, path |-> path, clean |-> TRUE]
MCGwTargets ==
  {GwTarget("base", <<>>, <<"nvt", "k1", "">>), GwTarget("base", <<>>, <<"agents", "k1", "">>),
   GwTarget("base", <<"k1">>, <<"">>), GwTarget("local", <<"web", "k1">>, <<"">>)}
GatewayFocus ==
  \/ \A r \in GwRuns : gRuns[r] = NoRun
  \/ /\ \A f \in 1..Len(gFlows) : f = 1 /\ gFlows[f].browser = "b1" /\ gFlows[f].user \in {"none", "b1"}
     /\ gRuns["z"] # NoRun => gRuns["x"].key = "k1" /\ gRuns["y"] = NoRun
     /\ gReq["b2"] = Idle /\ gJar["b2"] = EmptyJar

(* Enrichment: a paginated list and an object; pages that link on, back, to   *)
(* another host, twice, or hold what must not be copied.                      *)

EnrURL(host, path, query) == [host |-> host, port |-> 443, path |-> path, query |-> query, safe |-> TRUE]
EnrSource(endpoint, claim, path, pages) == [endpoint |-> endpoint, claim |-> claim, valuePath |-> path, maxPages |-> pages]
Teams == EnrURL("api", "/teams", "none")
MCEnrConfigs == {
  [allowedHosts |-> {"api"}, sources |-> <<EnrSource(Teams, "teams", "$", 3), EnrSource(EnrURL("api", "/user", "none"), "user", "login", 1)>>],
  [allowedHosts |-> {"api"}, sources |-> <<EnrSource(Teams, "teams", "$", 2), EnrSource(Teams, "teams", "$", 1)>>]}
MCEnrClaims == {[n \in {"sub"} |-> <<"u">>], [n \in {"sub", "user"} |-> <<"u">>]}
EnrPage(items, bytes, links) ==
  [status |-> "ok", array |-> TRUE, found |-> TRUE, items |-> items, bytes |-> bytes, nodes |-> 1, links |-> links]
MCEnrPages ==
  LET second == EnrURL("api", "/teams", "p2") IN
  {EnrPage(items, bytes, links) : items \in {<<>>, <<"a">>, <<"secret">>}, bytes \in {1, 2},
     links \in {{}, {second}, {EnrURL("api", "/teams", "p3")}, {EnrURL("other", "/teams", "p2")}, {Teams}, {Teams, second}}}
  \cup {[EnrPage(<<"a">>, 1, {}) EXCEPT !.status = "redirect"], [EnrPage(<<"a">>, 1, {}) EXCEPT !.array = FALSE, !.found = FALSE]}

(* Portal: everything may happen around one enrolment; a second one runs      *)
(* beside what the first has left in the runner, without further logins.      *)

PortalFocus ==
  /\ \A u \in PtlUsers : pAsk[u] # Nobody /\ pAsk[u].kind = "upload"
                           => \A e \in PtlIDs : pEnr[e].at \in {"new", "write", "sent", "done"}
  /\ \A u \in PtlUsers : pLogin[u] # Nobody => \A e \in PtlIDs : pEnr[e].at \in {"new", "poll", "write", "sent", "done"}
  /\ \/ \E e \in PtlIDs : pEnr[e].at = "new"
     \/ /\ Cardinality(pGaveUp) <= 1 /\ pLate = {} /\ pMode # "secret"
        /\ \A u \in PtlUsers : pLogin[u] = Nobody /\ pAsk[u] = Nobody /\ pAccount[u] # "revoked" /\ pEval[u] = 1
        /\ \A e \in PtlIDs : pEnr[e].code = "unused" /\ pEnr[e].at # "lost"

-----------------------------------------------------------------------------
(* One of its initial states for a part that stays as it is.                  *)
Unchosen ==
  /\ part # "gateway" => gConf = CHOOSE c \in GwConfigs : ConfigValidate(c)
  /\ part # "enrichment" => /\ eConf = CHOOSE c \in EnrConfigs : EnrichmentValid(c)
                            /\ eClaims = CHOOSE c \in EnrClaims : TRUE
  /\ part # "portal" => pMode = CHOOSE m \in PtlModes : TRUE

ServicesInit == part \in Parts /\ Init /\ GatewayInit /\ EnrichmentInit /\ PortalInit /\ Unchosen

\* The store's Next for the workstation w with two owners, or for the scheduled
\* runs p and q with one, for fewer steps.
StoreNext(members, owners) ==
  /\ \/ \E c \in Requests : RunOf[c.snapshot] \in members /\ Create(c)
     \/ w \in members /\ \E d \in Inventories : Boot(d)
     \/ \E r \in members, o \in owners : 
          Claim(r, o, Swept[r].revision) \/ (runs[r].owner = o /\ runs[r].lease = "ahead" /\ Report(r, o)) \/ AbortRollout(r, o)
     \/ \E r \in members : Cancel(r) \/ Delete(r)
     \/ Sweep
     \/ TimePasses
  /\ w \notin members => \A r \in members : runs'[r].cursor # 1 /\ runs'[r].revision <= 6

ServicesNext ==
  /\ UNCHANGED part
  /\ \/ /\ part = "workstation" /\ StoreNext({w}, {o1, o2})
        /\ UNCHANGED <<gatewayVars, enrichVars, portalVars>>
     \/ /\ part = "groups" /\ StoreNext({p, q}, {o1})
        /\ UNCHANGED <<gatewayVars, enrichVars, portalVars>>
     \/ /\ part = "gateway" /\ GatewayNext /\ GatewayFocus'
        /\ UNCHANGED <<runs, enrichVars, portalVars>>
     \/ /\ part = "enrichment" /\ EnrichmentNext
        /\ UNCHANGED <<runs, gatewayVars, portalVars>>
     \/ /\ part = "portal" /\ PortalNext /\ PortalFocus'
        /\ UNCHANGED <<runs, gatewayVars, enrichVars>>

ServicesSpec == ServicesInit /\ [][ServicesNext]_partVars
Symmetry == Permutations(PtlIDs)
=============================================================================
