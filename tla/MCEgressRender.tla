--------------------------- MODULE MCEgressRender ---------------------------
(* Runs and environments for EgressRender.                                    *)
EXTENDS EgressRender

Host(n) == [name |-> n, port |-> ""]
Grant(p, how, hosts) ==
  [provider |-> p, materialization |-> how, hosts |-> hosts, git |-> FALSE, insecure |-> FALSE,
   quota |-> {}, wellFormed |-> TRUE]
Header(p, hosts) == Grant(p, "header-inject", hosts)
Api == Header("p", <<Host("api")>>)

\* Every way a first grant can be written, and the grants that may follow it.
MCFirst ==
  {Api, Grant("p", "", <<>>), Grant("p", "other", <<>>), Grant("p", "placeholder-file", <<>>),
   Grant("p", "placeholder-file", <<Host("sub")>>), [Grant("p", "placeholder-file", <<>>) EXCEPT !.git = TRUE],
   Header("p", <<>>), Header("p", <<Host("API")>>), Header("p", <<Host("svc")>>), Header("p", <<Host("ip")>>),
   Header("p", <<Host("odd")>>), Header("p", <<Host("url")>>), Header("p", <<[name |-> "api", port |-> "junk"]>>),
   Header("p", <<Host("api"), Host("API")>>), Header("p", <<Host("api"), Host("sub")>>),
   [Api EXCEPT !.git = TRUE], [Api EXCEPT !.quota = {2}], [Api EXCEPT !.quota = {0}],
   [Api EXCEPT !.insecure = TRUE, !.hosts = <<[name |-> "api", port |-> "443"]>>],
   [Api EXCEPT !.insecure = TRUE, !.git = TRUE], [Api EXCEPT !.wellFormed = FALSE]}
MCSecond ==
  {Header("q", <<Host("api")>>), Header("q", <<Host("API")>>), [Header("q", <<Host("sub")>>) EXCEPT !.git = TRUE],
   Grant("q", "placeholder-file", <<Host("api")>>), Api}
MCGrants == {<<>>} \cup {<<g>> : g \in MCFirst} \cup (MCFirst \X MCSecond)
              \cup {<<Grant("o", "placeholder-file", <<>>), g[1], g[2]>> : g \in {Api} \X MCSecond}

MCPolicies ==
  {Missing, [default |-> "deny", allow |-> <<"API">>, deny |-> <<>>], [default |-> "allow", allow |-> <<>>, deny |-> <<"sub">>],
   [default |-> "deny", allow |-> <<"api">>, deny |-> <<"sub">>], [default |-> "allow", allow |-> <<"api", "API">>, deny |-> <<>>],
   [default |-> "none", allow |-> <<>>, deny |-> <<>>]}

Shape(mode, enforced, how) ==
  [egress |-> mode, enforcement |-> enforced, transport |-> how, policy |-> Missing, tunnels |-> 0,
   runtimeAuth |-> FALSE, insecureBroker |-> TRUE]
MCShapes ==
  LET base == {Shape("", FALSE, ""), Shape("direct", FALSE, ""), Shape("mediated", FALSE, ""),
               Shape("mediated", TRUE, "redirect"), Shape("mediated", TRUE, "forward-proxy"),
               Shape("mediated", TRUE, "transparent")}
      proxy == Shape("mediated", TRUE, "forward-proxy")
  IN base \cup {[s EXCEPT !.runtimeAuth = TRUE] : s \in base} \cup {[s EXCEPT !.insecureBroker = FALSE] : s \in base}
       \cup {[proxy EXCEPT !.policy = p] : p \in MCPolicies} \cup {[proxy EXCEPT !.tunnels = t] : t \in {1, 5000}}
       \cup {Shape("other", FALSE, ""), Shape("direct", TRUE, ""), Shape("mediated", FALSE, "forward-proxy"),
             Shape("mediated", TRUE, "other"), [Shape("mediated", TRUE, "") EXCEPT !.tunnels = 1]}

MCRenderSpecs == {s @@ [grants |-> g] : s \in MCShapes, g \in MCGrants}

\* The environments an operator may be started with.
Environment(tls, mode) ==
  [tls |-> tls, caSecret |-> tls, defaultMode |-> mode, capable |-> TRUE, insecureUpstreams |-> FALSE, ports |-> {443}]
MCRenderEnvs ==
  {Environment(TRUE, "mediated"), [Environment(TRUE, "") EXCEPT !.capable = FALSE],
   [Environment(TRUE, "direct") EXCEPT !.insecureUpstreams = TRUE], [Environment(TRUE, "") EXCEPT !.ports = {}]}
=============================================================================
