---------------------------- MODULE MCEgress ----------------------------
(* The egress plane: what the operator renders, the proxy's tunnels and its   *)
(* credential injection, and the CA of the local one.  They share no state:   *)
(* a behaviour belongs to one part, chosen at first, and the others stay as   *)
(* they began, so that the state space is the sum of theirs.                  *)
EXTENDS MCEgressRender, EgressTunnels, EgressInjection, LocalEgressCA, TLC

VARIABLE part

Parts == {"render", "tunnels", "injection", "localca"}
partVars == <<part, renderVars, tunnelVars, injectionVars, caVars>>

-----------------------------------------------------------------------------
(* Tunnels: two routes of one host that need a hint, two that do not and      *)
(* overlap, with and without a policy.                                        *)

MCTunnelConfigs ==
  LET shared == {[host |-> "git", capability |-> "p", hint |-> TRUE, private |-> FALSE],
                 [host |-> "git", capability |-> "q", hint |-> TRUE, private |-> FALSE]}
      api == [host |-> "api", capability |-> "p", hint |-> FALSE, private |-> FALSE]
      twice == {api, [api EXCEPT !.capability = "q", !.private = TRUE]}
  IN {[routes |-> shared \cup {[api EXCEPT !.private = TRUE]}, policy |-> TRUE, denied |-> {"api"}, unmatched |-> FALSE,
       ports |-> {443}],
      [routes |-> twice \cup shared, policy |-> FALSE, denied |-> {}, unmatched |-> TRUE, ports |-> {443}]}
Asks(h, p_, hint, sni, kind) == [host |-> h, port |-> p_, hint |-> hint, sni |-> sni, kind |-> kind]
MCTunnelRequests ==
  {Asks(h, 443, hint, "", "connect") : h \in {"api", "git", "web"}, hint \in {"none", "q"}}
  \cup {Asks("git", 443, "p", "api", "connect"), Asks("git", 443, "p", "web", "connect"),
        Asks("web", 22, "none", "", "connect"), Asks("web", 443, "none", "", "malformed"),
        Asks("none", 0, "q", "", "catalog"), Asks("none", 0, "none", "", "catalog")}
MCTunnelPrefaces ==
  {[kind |-> "tls", name |-> "git", address |-> "web", port |-> 443], [kind |-> "opaque", name |-> "", address |-> "web", port |-> 443],
   [kind |-> "malformed", name |-> "", address |-> "web", port |-> 443]}
MCTunnelAnswers == {{}, {"public"}, {"public", "private"}}

(* Injection: one path, with and without an upgrade; material that replaces,  *)
(* appends and strips headers, that expires and that does not.                *)

InjKey(upgrade) == [method |-> "GET", path |-> "repo", upgrade |-> upgrade]
MCInjKeys == {InjKey(FALSE), InjKey(TRUE)}
MCInjHeaders == {[authorization |-> "value", accept |-> "value", beta |-> "placeholder", connection |-> "value"]}
InjShape(set, append, strip, lifetime) == [set |-> set, append |-> append, strip |-> strip, lifetime |-> lifetime]
MCInjShapes ==
  {InjShape({"authorization"}, {"accept"}, {"cookie"}, 2), InjShape({"token"}, {}, {"upgrade"}, 0), InjShape({"token"}, {"token"}, {}, 0)}

-----------------------------------------------------------------------------
(* One of its initial states for a part that stays as it is.                  *)
Unchosen ==
  /\ part # "render" => rEnv = CHOOSE e \in RenderEnvs : ValidateBrokerTLSConfig(e) /\ ValidateDefaultEgressMode(e)
  /\ part # "tunnels" => tConf = CHOOSE c \in TunnelConfigs : TRUE
  /\ part # "localca" => caRun.snap = (CHOOSE n \in CANames : TRUE) /\ caFiles.key = NoCA

EgressInit == part \in Parts /\ RenderInit /\ TunnelInit /\ InjectionInit /\ LocalCAInit /\ Unchosen

EgressNext ==
  /\ UNCHANGED part
  /\ \/ /\ part = "render" /\ RenderNext
        /\ UNCHANGED <<tunnelVars, injectionVars, caVars>>
     \/ /\ part = "tunnels" /\ TunnelNext
        /\ UNCHANGED <<renderVars, injectionVars, caVars>>
     \/ /\ part = "injection" /\ InjectionNext
        /\ UNCHANGED <<renderVars, tunnelVars, caVars>>
     \/ /\ part = "localca" /\ LocalCANext
        /\ UNCHANGED <<renderVars, tunnelVars, injectionVars>>

EgressSpec == EgressInit /\ [][EgressNext]_partVars
Symmetry == Permutations(InjRequests)
=============================================================================
