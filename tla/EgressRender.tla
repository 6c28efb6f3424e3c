---------------------------- MODULE EgressRender ----------------------------
(* From the spec of one AgentRun to its Pods: what the operator admits        *)
(* (agentrun_policy.go), the objects it renders for egressd and for the agent *)
(* (agentrun_egress.go, agentrun_agent_config.go, agentrun_pod.go), and what  *)
(* egressd accepts at boot (egressd config.go, domain_policy.go, ca.go,       *)
(* main.go).  The three were written to agree: admission mirrors the rules of *)
(* the boot, and four renderers number the routes independently.  The         *)
(* operator's environment may change between two passes.                      *)
(* A host of a grant is a record of a name and a port, with one name per case *)
(* the code tells apart: "api" and its spelling "API", its subdomain "sub",   *)
(* the name "svc" of the run's own egressd Service, an IP literal, a name     *)
(* that is no DNS name ("odd", such as a_b) and a URL.                        *)
EXTENDS Naturals, Sequences, FiniteSets, SequencesExt

CONSTANTS
  RenderSpecs,  \* specs of AgentRuns that may be submitted
  RenderEnvs,   \* environments an operator may be started with
  MaxRestarts   \* bound: restarts of the operator and losses of the egressd Pod

HostNames == {"api", "API", "sub", "svc", "ip", "odd", "url"}
Hosts == [name : HostNames, port : STRING]

\* Specs and their grants have the fields of the API types; hosts are lists.
SpecFields == {"egress", "enforcement", "transport", "policy", "tunnels", "runtimeAuth", "insecureBroker", "grants"}
GrantFields == {"provider", "materialization", "hosts", "git", "insecure", "quota", "wellFormed"}
ASSUME RenderAssumption ==
  \A s \in RenderSpecs :
    /\ DOMAIN s = SpecFields /\ s.grants \in Seq(Range(s.grants))
    /\ \A g \in Range(s.grants) : DOMAIN g = GrantFields /\ g.hosts \in Seq(Hosts)

VARIABLES
  rEnv,      \* the environment of the running operator
  rSpec,     \* the stored AgentRun spec, or NoRun
  rConfig,   \* the egressd ConfigMap
  rCAnames,  \* the permitted DNS names of the CA Secret, none if there is no Secret
  rFence,    \* Service and NetworkPolicies
  rEgressd,  \* the process: absent, created, serving, refused; its mounts
  rAgent,    \* the agent ConfigMap and Pod
  rPhase,    \* none, stored or failed
  rRestarts

renderVars == <<rEnv, rSpec, rConfig, rCAnames, rFence, rEgressd, rAgent, rPhase, rRestarts>>

Missing == [missing |-> TRUE]
CAPort == 8470
RouteBasePort == 8471
ForwardProxyPort == 8473
CapturedPort == 15002
MaxTunnels == 4096
Injectable == {"header-inject", "placeholder-file"}

(* Names and domain policies, on each side.                                   *)
Lower(n) == IF n = "API" THEN "api" ELSE n
NoName == "none"
\* A rule covers its own domain and every subdomain.
domainRuleMatches(n, rule) == n = rule \/ (n = "sub" /\ rule = "api")

normalizeEgressDomain(n) == IF n \in {"ip", "odd", "url"} THEN NoName ELSE Lower(n)
normalizeDomainName(n) == IF n \in {"ip", "odd", "url"} THEN NoName ELSE Lower(n)
normalizeProxyHost(n) == IF n = "ip" THEN n ELSE normalizeDomainName(n)

\* The operator's decision, before the objects are made.
egressDomainAllowed(p, n) ==
  LET name == normalizeEgressDomain(n)
      covered(rules) == \E r \in Range(rules) : domainRuleMatches(name, normalizeEgressDomain(r))
  IN IF name = NoName THEN p.default = "allow"
     ELSE ~covered(p.deny) /\ (covered(p.allow) \/ p.default = "allow")

\* egressd's decision, when it reads its configuration.
Decide(p, n) ==
  LET name == normalizeDomainName(n)
      covered(rules) == \E r \in Range(rules) : domainRuleMatches(name, normalizeDomainName(r))
  IN IF name = NoName THEN p.default = "allow"
     ELSE ~covered(p.deny) /\ (covered(p.allow) \/ p.default = "allow")

validateEgressDomainPolicy(p) ==
  p # Missing =>
    /\ p.default \in {"allow", "deny"}
    /\ \A rules \in {p.allow, p.deny} :
         /\ \A i \in DOMAIN rules : normalizeEgressDomain(rules[i]) # NoName
         /\ \A i, j \in DOMAIN rules : i # j => normalizeEgressDomain(rules[i]) # normalizeEgressDomain(rules[j])

-----------------------------------------------------------------------------
(* The run as the operator reads it.                                          *)

AgentRunEgressMode(s) == IF s.egress = "" THEN "direct" ELSE s.egress
AgentRunEgressTransport(s) == IF s.transport = "" THEN "redirect" ELSE s.transport
AgentRunGrantMaterialization(g) == IF g.materialization = "" THEN "file-bundle" ELSE g.materialization
AgentRunEgressEnforced(s) == s.enforcement /\ AgentRunEgressMode(s) = "mediated"
AgentRunEgressForwardProxy(s) ==
  AgentRunEgressEnforced(s) /\ AgentRunEgressTransport(s) \in {"forward-proxy", "transparent"}
AgentRunEgressTransparent(s) == AgentRunEgressEnforced(s) /\ AgentRunEgressTransport(s) = "transparent"
AgentRunLiteralZeroSecret(s) == AgentRunEgressMode(s) = "mediated" /\ AgentRunEgressEnforced(s)
\* The grants materialised in one of these ways, in the order of the spec.
GrantsBy(s, how) ==
  FlattenSeq([i \in DOMAIN s.grants |->
               IF AgentRunGrantMaterialization(s.grants[i]) \in how THEN <<s.grants[i]>> ELSE <<>>])
headerInjectGrants(s) == GrantsBy(s, {"header-inject"})
agentRunHasGitGrant(s) == \E g \in Range(headerInjectGrants(s)) : g.git
brokerCADistributed(e) == e.tls /\ e.caSecret
\* A grant's quota is a set of at most one number; 0 means no limit to egressd.
MaxRequests(g) == IF g.quota = {} THEN 0 ELSE CHOOSE q \in g.quota : TRUE

\* Every host of every grant that can be injected, with its grant.
Upstreams(s) ==
  LET injectable == GrantsBy(s, Injectable) IN
  FlattenSeq([i \in DOMAIN injectable |->
               [j \in DOMAIN injectable[i].hosts |-> <<injectable[i], injectable[i].hosts[j]>>]])

\* BUG: hosts are counted as they are spelled.
forwardProxyInjects_Spelled(s) ==
  LET entries == Upstreams(s)
      shared(h) == \E i, j \in DOMAIN entries : i # j /\ entries[i][2].name = h.name /\ entries[j][2].name = h.name
  IN [k \in DOMAIN entries |->
       [host |-> entries[k][2].name, capability |-> entries[k][1].provider, upstream |-> entries[k][2],
        insecure |-> entries[k][1].insecure, max |-> MaxRequests(entries[k][1]),
        hint |-> entries[k][1].git \/ shared(entries[k][2])]]

\* One route for every host of every grant that can be injected.
forwardProxyInjects(s) ==
  LET entries == Upstreams(s)
      shared(h) == \E i, j \in DOMAIN entries :
                     i # j /\ Lower(entries[i][2].name) = Lower(h.name) /\ Lower(entries[j][2].name) = Lower(h.name)
  IN [k \in DOMAIN entries |->
       [host |-> entries[k][2].name, capability |-> entries[k][1].provider, upstream |-> entries[k][2],
        insecure |-> entries[k][1].insecure, max |-> MaxRequests(entries[k][1]),
        hint |-> entries[k][1].git \/ shared(entries[k][2])]]

\* The names a forward proxy's CA may sign for, as the grants spell them.
forwardProxyUpstreamHosts(s) ==
  IF AgentRunEgressForwardProxy(s) THEN {i.host : i \in Range(forwardProxyInjects(s))} ELSE {}

-----------------------------------------------------------------------------
(* Admission.                                                                 *)

ValidateBrokerTLSConfig(e) == e.tls => e.caSecret
\* The ports and the denied ranges parse; unlike the rest this is not checked at start.
ExternalTCPPorts(e) == e.ports # {}
ValidateDefaultEgressMode(e) == e.defaultMode \in {"", "direct", "mediated"}

\* At creation an empty mode becomes the cluster's default; it is never read again.
ApplyDefaultEgressMode(e, s) ==
  IF s.egress # "" THEN s
  ELSE [s EXCEPT !.egress = IF e.defaultMode = "" THEN "direct" ELSE e.defaultMode]

validEgressHost(h) == h.name # "url"

\* BUG: a mediated run may bring its runtime's own credentials.
TransportAdmitted_WithRuntimeAuth(e, s) ==
  LET mode == AgentRunEgressMode(s) transport == AgentRunEgressTransport(s) IN
  /\ mode \in {"direct", "mediated"}
  /\ s.enforcement => mode = "mediated"
  /\ validateEgressDomainPolicy(s.policy)
  /\ s.tunnels <= MaxTunnels
  /\ s.tunnels # 0 => transport \in {"forward-proxy", "transparent"}
  /\ transport \in {"redirect", "forward-proxy", "transparent"}
  /\ transport # "redirect" => s.enforcement /\ mode = "mediated"
  /\ s.policy # Missing => mode = "mediated" /\ s.enforcement /\ transport # "redirect"
  /\ transport = "transparent" => e.capable
  /\ mode = "mediated" => (~e.tls => s.insecureBroker)

TransportAdmitted(e, s) ==
  LET mode == AgentRunEgressMode(s) transport == AgentRunEgressTransport(s) IN
  /\ mode \in {"direct", "mediated"}
  /\ s.enforcement => mode = "mediated"
  /\ validateEgressDomainPolicy(s.policy)
  /\ s.tunnels <= MaxTunnels
  /\ s.tunnels # 0 => transport \in {"forward-proxy", "transparent"}
  /\ transport \in {"redirect", "forward-proxy", "transparent"}
  /\ transport # "redirect" => s.enforcement /\ mode = "mediated"
  /\ s.policy # Missing => mode = "mediated" /\ s.enforcement /\ transport # "redirect"
  /\ transport = "transparent" => e.capable
  /\ mode = "mediated" => ~s.runtimeAuth /\ (~e.tls => s.insecureBroker)

GrantAdmitted(e, s, g) ==
  LET mode == AgentRunEgressMode(s) how == AgentRunGrantMaterialization(g) IN
  /\ g.wellFormed   \* bounded resources, permissions, rules and preparations, no unresolved preset
  /\ how \in {"file-bundle"} \cup Injectable
  /\ mode = "direct" => how = "file-bundle"
  /\ mode = "mediated" => how # "file-bundle"
  /\ g.git => how = "header-inject"
  /\ \A q \in g.quota : q > 0
  /\ g.insecure => ~g.git /\ e.insecureUpstreams
  /\ mode = "mediated" /\ how = "header-inject" =>
       g.hosts # <<>> /\ \A h \in Range(g.hosts) : validEgressHost(h)
  /\ AgentRunEgressForwardProxy(s) /\ how = "placeholder-file" => \A h \in Range(g.hosts) : validEgressHost(h)

\* BUG: the domain policy is left to egressd.
RoutesAdmitted_AnyDomain(s) ==
  LET injects == forwardProxyInjects(s) IN
  IF AgentRunEgressForwardProxy(s)
  THEN /\ injects # <<>>
       /\ \A i \in Range(injects) : i.host # "ip"
       /\ \A i, j \in DOMAIN injects : i # j =>
            <<injects[i].host, injects[i].capability>> # <<injects[j].host, injects[j].capability>>
  ELSE AgentRunEgressMode(s) = "mediated" => headerInjectGrants(s) # <<>>

RoutesAdmitted(s) ==
  LET injects == forwardProxyInjects(s) IN
  IF AgentRunEgressForwardProxy(s)
  THEN /\ injects # <<>>
       /\ \A i \in Range(injects) : i.host # "ip"
       /\ \A i, j \in DOMAIN injects : i # j =>
            <<injects[i].host, injects[i].capability>> # <<injects[j].host, injects[j].capability>>
       /\ s.policy # Missing => \A i \in Range(injects) : egressDomainAllowed(s.policy, i.host)
  ELSE AgentRunEgressMode(s) = "mediated" => headerInjectGrants(s) # <<>>

ValidateAgentRunEgressMode(e, s) ==
  /\ ValidateBrokerTLSConfig(e)
  /\ ExternalTCPPorts(e)
  /\ TransportAdmitted(e, s)
  /\ \A g \in Range(s.grants) : GrantAdmitted(e, s, g)
  /\ RoutesAdmitted(s)

-----------------------------------------------------------------------------
(* What is rendered for egressd.                                              *)

LeafNames == {"svc"}

RenderEgressdConfigJSON(e, s) ==
  LET enforced == AgentRunEgressEnforced(s)
      proxied == AgentRunEgressForwardProxy(s)
      mine == IF proxied THEN <<>> ELSE headerInjectGrants(s)
      routes == [i \in DOMAIN mine |->
                  [port |-> RouteBasePort + i - 1, capability |-> mine[i].provider, upstream |-> mine[i].hosts[1],
                   tls |-> enforced \/ mine[i].git, max |-> MaxRequests(mine[i])]]
  IN [broker |-> IF e.tls THEN "https" ELSE "http",
      insecureBroker |-> s.insecureBroker /\ ~brokerCADistributed(e),
      caFile |-> brokerCADistributed(e),
      routes |-> routes,
      proxied |-> proxied,
      injects |-> IF proxied THEN forwardProxyInjects(s) ELSE <<>>,
      policy |-> IF proxied THEN s.policy ELSE Missing,
      tunnels |-> IF proxied THEN s.tunnels ELSE 0,
      ca |-> IF enforced THEN "durable" ELSE IF \E r \in Range(routes) : r.tls THEN "published" ELSE "none"]

\* The ports of the Service and of both NetworkPolicies.
egressdPolicyPorts(s) ==
  {CAPort} \cup {RouteBasePort + i - 1 : i \in DOMAIN headerInjectGrants(s)}
           \cup (IF AgentRunEgressForwardProxy(s) THEN {ForwardProxyPort} ELSE {})
DesiredEgressdService(s) == egressdPolicyPorts(s)
DesiredAgentNetworkPolicy(s) == [to |-> "paired egressd", ports |-> egressdPolicyPorts(s)]
DesiredEgressdNetworkPolicy(e, s) ==
  [from |-> "paired agent", ports |-> egressdPolicyPorts(s), external |-> e.ports,
   fixtures |-> UNION {{h \in Range(g.hosts) : h.port = "443"} : g \in {x \in Range(s.grants) : x.insecure}}]

DesiredEgressdPod(e, s) == [state |-> "created", brokerCA |-> brokerCADistributed(e)]

-----------------------------------------------------------------------------
(* What is rendered for the agent.                                            *)

\* BUG: a port is counted for every grant, whether or not it has a route.
InjectMediatedEgressConfig_EveryGrant(s) ==
  LET enforced == AgentRunEgressEnforced(s)
      proxied == AgentRunEgressForwardProxy(s)
      entry(i) == [provider |-> s.grants[i].provider,
                   url |-> IF proxied \/ AgentRunGrantMaterialization(s.grants[i]) # "header-inject" THEN Missing
                           ELSE [scheme |-> IF enforced \/ s.grants[i].git THEN "https" ELSE "http",
                                 at |-> IF enforced THEN "service" ELSE "loopback",
                                 port |-> RouteBasePort + i - 1]]
  IN [grants |-> [i \in DOMAIN s.grants |-> entry(i)],
      proxy |-> IF ~proxied THEN Missing
                ELSE IF AgentRunEgressTransparent(s) THEN [at |-> "captured", port |-> CapturedPort]
                ELSE [at |-> "service", port |-> ForwardProxyPort]]

\* One entry for each grant: its base URL, if it is reached through one.
InjectMediatedEgressConfig(s) ==
  LET enforced == AgentRunEgressEnforced(s)
      proxied == AgentRunEgressForwardProxy(s)
      headers == headerInjectGrants(s)
      plain == GrantsBy(s, {"placeholder-file"})
      route(i) == [provider |-> headers[i].provider,
                   url |-> IF proxied THEN Missing
                           ELSE [scheme |-> IF enforced \/ headers[i].git THEN "https" ELSE "http",
                                 at |-> IF enforced THEN "service" ELSE "loopback",
                                 port |-> RouteBasePort + i - 1]]
  IN [grants |-> [i \in DOMAIN headers |-> route(i)]
                 \o [i \in DOMAIN plain |-> [provider |-> plain[i].provider, url |-> Missing]],
      proxy |-> IF ~proxied THEN Missing
                ELSE IF AgentRunEgressTransparent(s) THEN [at |-> "captured", port |-> CapturedPort]
                ELSE [at |-> "service", port |-> ForwardProxyPort]]

\* The Secrets the agent's Pod is given, and what it trusts and runs beside.
AgentSecrets(e, s) ==
  (IF AgentRunLiteralZeroSecret(s) THEN {} ELSE {"broker-token", "callback-token"})
  \cup (IF brokerCADistributed(e) /\ ~AgentRunLiteralZeroSecret(s) THEN {"broker-ca"} ELSE {})
  \cup (IF s.runtimeAuth THEN {"runtime-auth"} ELSE {})
  \cup (IF AgentRunEgressMode(s) = "mediated" /\ ~AgentRunEgressEnforced(s) THEN {"egress-token"} ELSE {})

AgentSidecars(s) ==
  {"docker"} \cup (IF AgentRunEgressTransparent(s) THEN {"captured", "net-init"} ELSE {})
             \cup (IF s.runtimeAuth THEN {"runtime-auth-copy"} ELSE {})
             \cup (IF AgentRunEgressMode(s) = "mediated" /\ ~AgentRunEgressEnforced(s) THEN {"egressd"} ELSE {})

AgentEgressCA(s) ==
  IF AgentRunEgressEnforced(s) THEN "operator"
  ELSE IF AgentRunEgressMode(s) = "mediated" /\ agentRunHasGitGrant(s) THEN "published" ELSE "none"

buildDesiredAgentPod(e, s) ==
  [config |-> IF AgentRunEgressMode(s) = "mediated" THEN InjectMediatedEgressConfig(s) ELSE Missing,
   secrets |-> AgentSecrets(e, s), sidecars |-> AgentSidecars(s), egressCA |-> AgentEgressCA(s),
   accountToken |-> ~AgentRunLiteralZeroSecret(s)]

-----------------------------------------------------------------------------
(* What egressd accepts at boot.                                              *)

validateUpstream(h) == h.name # "url" /\ h.port # "junk"
normalizedRouteUpstreamHost(h) == normalizeProxyHost(h.name)

ForwardProxyConfigValid(c) ==
  /\ c.tunnels <= MaxTunnels
  /\ c.policy # Missing =>
       \A i \in Range(c.injects) : Decide(c.policy, i.host) /\ Decide(c.policy, normalizedRouteUpstreamHost(i.upstream))

validateForwardProxyRouteOverlap(c) ==
  LET routed == {normalizedRouteUpstreamHost(r.upstream) : r \in Range(c.routes)} IN
  /\ \A i \in Range(c.injects) :
       /\ normalizeProxyHost(i.host) \notin {NoName, "ip"} \cup routed
       /\ validateUpstream(i.upstream)
  /\ \A i, j \in DOMAIN c.injects : i # j =>
       <<normalizeProxyHost(c.injects[i].host), c.injects[i].capability>>
         # <<normalizeProxyHost(c.injects[j].host), c.injects[j].capability>>

ConfigValid(c) ==
  /\ c.routes # <<>> \/ c.proxied
  /\ c.routes # <<>> \/ c.injects # <<>> => (c.broker = "http" => c.insecureBroker)
  /\ \A r \in Range(c.routes) : validateUpstream(r.upstream) /\ (r.tls => c.ca # "none")
  /\ c.ca # "none" =>
       LeafNames \cap ({normalizedRouteUpstreamHost(r.upstream) : r \in Range(c.routes)}
                       \cup {normalizeProxyHost(i.host) : i \in Range(c.injects)}) = {}
  /\ c.proxied => ForwardProxyConfigValid(c) /\ validateForwardProxyRouteOverlap(c) /\ c.ca # "none"

ForwardProxyUpstreamLeafNames(c) == {normalizeProxyHost(i.host) : i \in Range(c.injects)} \ {NoName}
\* A durable CA must permit exactly the names that are configured.
verifyDurableConstraints(c, names) == names = LeafNames \cup ForwardProxyUpstreamLeafNames(c)

EgressdAccepts(c, names, pod) ==
  /\ ConfigValid(c)
  /\ c.caFile => pod.brokerCA
  /\ c.ca = "durable" => verifyDurableConstraints(c, names)

-----------------------------------------------------------------------------
(* The passes of the operator, and the process.                               *)

RenderInit ==
  /\ rEnv \in RenderEnvs /\ ValidateBrokerTLSConfig(rEnv) /\ ValidateDefaultEgressMode(rEnv)
  /\ rSpec = Missing /\ rConfig = Missing /\ rCAnames = {} /\ rFence = Missing
  /\ rEgressd = [state |-> "absent", brokerCA |-> FALSE] /\ rAgent = Missing /\ rPhase = "none" /\ rRestarts = 0

RenderSubmit(s) ==
  /\ rPhase = "none"
  /\ rSpec' = ApplyDefaultEgressMode(rEnv, s) /\ rPhase' = "stored"
  /\ UNCHANGED <<rEnv, rConfig, rCAnames, rFence, rEgressd, rAgent, rRestarts>>

\* The operator starts again, with an environment that passes its start checks.
RenderRestart(e) ==
  /\ rRestarts < MaxRestarts /\ rPhase = "stored"
  /\ ValidateBrokerTLSConfig(e) /\ ValidateDefaultEgressMode(e)
  /\ rEnv' = e /\ rRestarts' = rRestarts + 1
  /\ UNCHANGED <<rSpec, rConfig, rCAnames, rFence, rEgressd, rAgent, rPhase>>

\* Until the agent's Pod exists, every pass validates first.
RenderRefuse ==
  /\ rPhase = "stored" /\ rAgent = Missing /\ ~ValidateAgentRunEgressMode(rEnv, rSpec)
  /\ rPhase' = "failed"
  /\ UNCHANGED <<rEnv, rSpec, rConfig, rCAnames, rFence, rEgressd, rAgent, rRestarts>>

Admitted == rPhase = "stored" /\ (rAgent = Missing => ValidateAgentRunEgressMode(rEnv, rSpec))
\* The configuration stays as it is while a Pod exists that was made with it.
Config == IF rConfig # Missing /\ (rAgent # Missing \/ rEgressd.state # "absent") THEN rConfig
          ELSE RenderEgressdConfigJSON(rEnv, rSpec)

\* A run without enforcement: configuration and Pod in one pass.
RenderPlain ==
  /\ Admitted /\ ~AgentRunEgressEnforced(rSpec) /\ rAgent = Missing
  /\ IF AgentRunEgressMode(rSpec) = "mediated"
     THEN rConfig' = Config /\ rEgressd' = DesiredEgressdPod(rEnv, rSpec)
     ELSE UNCHANGED <<rConfig, rEgressd>>
  /\ rAgent' = buildDesiredAgentPod(rEnv, rSpec)
  /\ UNCHANGED <<rEnv, rSpec, rCAnames, rFence, rPhase, rRestarts>>

\* An enforced run: configuration, CA, fence, egressd's Pod and Service.
RenderFence ==
  /\ Admitted /\ AgentRunEgressEnforced(rSpec) /\ ExternalTCPPorts(rEnv)
  /\ rConfig' = Config
  /\ rCAnames' = IF rCAnames = {} THEN LeafNames \cup forwardProxyUpstreamHosts(rSpec) ELSE rCAnames
  /\ rFence' = [service |-> DesiredEgressdService(rSpec), agent |-> DesiredAgentNetworkPolicy(rSpec),
                egressd |-> DesiredEgressdNetworkPolicy(rEnv, rSpec)]
  /\ rEgressd' = IF rEgressd.state = "absent" THEN DesiredEgressdPod(rEnv, rSpec) ELSE rEgressd
  /\ UNCHANGED <<rEnv, rSpec, rAgent, rPhase, rRestarts>>

\* The agent's Pod, once egressd is ready.
RenderAgent ==
  /\ Admitted /\ AgentRunEgressEnforced(rSpec) /\ rAgent = Missing /\ rEgressd.state = "serving"
  /\ rAgent' = buildDesiredAgentPod(rEnv, rSpec)
  /\ UNCHANGED <<rEnv, rSpec, rConfig, rCAnames, rFence, rEgressd, rPhase, rRestarts>>

EgressdBoots ==
  /\ rEgressd.state = "created"
  /\ rEgressd' = [rEgressd EXCEPT !.state = IF EgressdAccepts(rConfig, rCAnames, rEgressd) THEN "serving" ELSE "refused"]
  /\ UNCHANGED <<rEnv, rSpec, rConfig, rCAnames, rFence, rAgent, rPhase, rRestarts>>

\* The Pod of egressd is evicted.
EgressdLost ==
  /\ rRestarts < MaxRestarts /\ rPhase = "stored" /\ AgentRunEgressEnforced(rSpec) /\ rEgressd.state = "serving"
  /\ rEgressd' = [state |-> "absent", brokerCA |-> FALSE] /\ rRestarts' = rRestarts + 1
  /\ UNCHANGED <<rEnv, rSpec, rConfig, rCAnames, rFence, rAgent, rPhase>>

RenderNext ==
  \/ rPhase = "none" /\ \E s \in RenderSpecs : RenderSubmit(s)
  \/ \E e \in RenderEnvs : RenderRestart(e)
  \/ RenderRefuse
  \/ RenderPlain
  \/ RenderFence
  \/ RenderAgent
  \/ EgressdBoots
  \/ EgressdLost

RenderSpec == RenderInit /\ [][RenderNext]_renderVars

-----------------------------------------------------------------------------
(* Properties.                                                                *)

Running == rEgressd.state = "serving" /\ rAgent # Missing
ListenPorts == {r.port : r \in Range(rConfig.routes)} \cup (IF rConfig.proxied THEN {ForwardProxyPort} ELSE {})

\* Hosts in the form admission expects: DNS names in lower case, other than the
\* run's own Service, with a number for a port.
Canonical(s) == \A g \in Range(s.grants) : \A h \in Range(g.hosts) : h.name \in {"api", "sub"} /\ h.port # "junk"

\* A run whose hosts are canonical and that was admitted has an egressd that
\* boots, through restarts of the operator with another environment and losses of
\* the Pod: ValidateAgentRunEgressMode mirrors egressd's Validate and LoadCA
\* (agentrun_policy.go:418), so that a bad run fails instead of crash-looping.
AdmittedBoots == rSpec # Missing /\ Canonical(rSpec) => rEgressd.state # "refused"

\* Every base URL the agent was given leads to the listener of that grant's
\* capability, over the scheme the listener speaks, with a CA the agent trusts if
\* it is TLS; in an enforced run the port, like that of the proxy, is open in the
\* Service and in both NetworkPolicies.  Four renderers count the routes.
BaseURLsReachTheirRoute ==
  Running /\ rAgent.config # Missing =>
    /\ \A g \in Range(rAgent.config.grants) : g.url # Missing =>
         \E r \in Range(rConfig.routes) :
           /\ r.port = g.url.port /\ r.capability = g.provider
           /\ r.tls <=> g.url.scheme = "https"
           /\ r.tls => rAgent.egressCA # "none" /\ (rAgent.egressCA = "published" <=> rConfig.ca = "published")
    /\ rAgent.config.proxy # Missing => rConfig.proxied
    /\ AgentRunEgressEnforced(rSpec) =>
         ListenPorts \subseteq rFence.service \cap rFence.agent.ports \cap rFence.egressd.ports

\* The agent of an enforced run holds no Secret and no service account token,
\* whatever the environment was when it was admitted and when it was rendered.
ZeroSecretAgent ==
  rAgent # Missing /\ AgentRunEgressEnforced(rSpec) => rAgent.secrets = {} /\ ~rAgent.accountToken

\* When two routes of the configuration answer for the same name, neither is
\* taken without a hint naming the capability: the operator counts hosts as
\* egressd will compare them.
SharedHostNeedsHint ==
  rConfig # Missing =>
    \A i, j \in DOMAIN rConfig.injects :
      i # j /\ normalizeProxyHost(rConfig.injects[i].host) = normalizeProxyHost(rConfig.injects[j].host) =>
        rConfig.injects[i].hint /\ rConfig.injects[j].hint

\* The objects of one run agree: the agent's URLs with egressd's listeners, the
\* Service and the NetworkPolicies, its Pod with its enforcement, and the operator's
\* count of hosts with egressd's comparison of names.
RenderersAgree == BaseURLsReachTheirRoute /\ ZeroSecretAgent /\ SharedHostNeedsHint
=============================================================================
