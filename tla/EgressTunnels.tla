---------------------------- MODULE EgressTunnels ----------------------------
(* The forward proxy of egressd (forward_proxy.go, destination_policy.go,     *)
(* catalog.go, and the leaf certificates of ca.go) and captured before it:    *)
(* which CONNECT is refused,                                                  *)
(* tunnelled blind or terminated and injected, how connections share a        *)
(* bounded number of tunnels behind a bounded queue, and which address a      *)
(* tunnel reaches when DNS answers change.  Every connection is a goroutine;  *)
(* its steps are the channel operations and the calls that can block.         *)
EXTENDS Naturals, FiniteSets

CONSTANTS
  TunnelConns,    \* connections
  TunnelMax,      \* max_concurrent_tunnels; the queue has the same length
  TunnelConfigs,  \* forward proxy configurations
  TunnelRequests, \* what a connection may ask for
  TunnelPrefaces, \* the first bytes of a captured connection
  TunnelAnswers   \* DNS answers: sets of addresses

ASSUME TunnelMaxAssumption == TunnelMax \in Nat \ {0}

\* The routes are the entries of a configuration file.
ASSUME TunnelRoutesFinite == \A conf \in TunnelConfigs : IsFiniteSet(conf.routes)

VARIABLES
  tConf,   \* the configuration of the process
  tConn,   \* the connections
  tSlots,  \* tunnelSlots: tunnels in use
  tQueue   \* tunnelQueueSlots: connections waiting

tunnelVars == <<tConf, tConn, tSlots, tQueue>>

NoCapability == "none"
NewConn == [at |-> "new", host |-> "none", port |-> 0, hint |-> NoCapability, sni |-> "none", kind |-> "none",
            capability |-> NoCapability, addresses |-> {}, reached |-> "none"]

\* A connection holds a tunnel, or a place in the queue, while it is here.
Holding == {"leaving", "held", "resolved", "open", "releasing"}
Queueing == {"waiting", "leaving", "abandoned"}

TunnelInit ==
  /\ tConf \in TunnelConfigs
  /\ tConn = [c \in TunnelConns |-> NewConn] /\ tSlots = 0 /\ tQueue = 0

-----------------------------------------------------------------------------
(* The decision.                                                              *)

destinationAllowed(a) == a # "private"

\* The routes of a host, and those that apply without a hint.
RoutesOf(host) == {r \in tConf.routes : r.host = host}
AutoRoutes(host) == {r \in RoutesOf(host) : ~r.hint}

\* BUG: among several routes that need no hint, one is taken.
injectProxy_First(host, hint) ==
  IF RoutesOf(host) = {} THEN [found |-> FALSE, failed |-> FALSE, capability |-> NoCapability]
  ELSE IF hint # NoCapability
  THEN IF \E r \in RoutesOf(host) : r.capability = hint
       THEN [found |-> TRUE, failed |-> FALSE, capability |-> hint]
       ELSE [found |-> TRUE, failed |-> TRUE, capability |-> NoCapability]
  ELSE IF AutoRoutes(host) = {} THEN [found |-> FALSE, failed |-> FALSE, capability |-> NoCapability]
  ELSE [found |-> TRUE, failed |-> FALSE, capability |-> (CHOOSE r \in AutoRoutes(host) : TRUE).capability]

\* The capability for a host and a hint: none, one, or a refusal.
injectProxy(host, hint) ==
  IF RoutesOf(host) = {} THEN [found |-> FALSE, failed |-> FALSE, capability |-> NoCapability]
  ELSE IF hint # NoCapability
  THEN IF \E r \in RoutesOf(host) : r.capability = hint
       THEN [found |-> TRUE, failed |-> FALSE, capability |-> hint]
       ELSE [found |-> TRUE, failed |-> TRUE, capability |-> NoCapability]
  ELSE IF AutoRoutes(host) = {} THEN [found |-> FALSE, failed |-> FALSE, capability |-> NoCapability]
  ELSE IF Cardinality(AutoRoutes(host)) = 1
  THEN [found |-> TRUE, failed |-> FALSE, capability |-> (CHOOSE r \in AutoRoutes(host) : TRUE).capability]
  ELSE [found |-> TRUE, failed |-> TRUE, capability |-> NoCapability]

domainAllowed(host) == tConf.policy => host \notin tConf.denied
targetAllowed(host, port) ==
  port \in tConf.ports /\ IF tConf.policy THEN domainAllowed(host) ELSE tConf.unmatched

\* deny, inject, blind or catalog.  A target and a Host header that differ are malformed.
TunnelVerdict(q) ==
  LET found == injectProxy(q.host, q.hint) IN
  IF q.kind = "catalog"
  THEN IF \E r \in tConf.routes : r.capability = q.hint THEN "catalog" ELSE "deny"
  ELSE IF q.kind # "connect" THEN "deny"
  ELSE IF q.port \notin tConf.ports \/ ~domainAllowed(q.host) \/ found.failed THEN "deny"
  ELSE IF found.found THEN "inject"
  ELSE IF targetAllowed(q.host, q.port) THEN "blind" ELSE "deny"

SetConn(c, record) == tConn' = [tConn EXCEPT ![c] = record]
GoTo(c, at) == SetConn(c, [IF at = "done" THEN NewConn ELSE tConn[c] EXCEPT !.at = at])

ServeHTTP(c, q) ==
  LET verdict == TunnelVerdict(q) IN
  /\ tConn[c].at = "new"
  /\ IF verdict = "deny" THEN GoTo(c, "done")
     ELSE SetConn(c, [tConn[c] EXCEPT !.at = "acquire", !.host = q.host, !.port = q.port, !.hint = q.hint,
                                  !.sni = q.sni, !.kind = verdict,
                                  !.capability = IF verdict = "inject" THEN injectProxy(q.host, q.hint).capability
                                                 ELSE NoCapability])
  /\ UNCHANGED <<tConf, tSlots, tQueue>>

-----------------------------------------------------------------------------
(* captured: the redirected connections of a transparent agent.               *)

\* A CONNECT of the agent itself is copied to the forward proxy as it is.
RelayExplicit(c, q) == ServeHTTP(c, q)

\* The TLS name or the HTTP Host of the first bytes.  Opaque, late or partial
\* bytes have none ("unavailable"); malformed ones end the connection.
InspectHostname(preface) ==
  CASE preface.kind \in {"tls", "http"} /\ preface.name # "" -> preface.name
    [] preface.kind = "malformed" -> "malformed"
    [] OTHER -> "unavailable"

\* The detected name, at the port of the original destination, is asked of the
\* forward proxy like any other CONNECT, and never with a hint.
RelayTransparent(c, preface) ==
  LET detected == InspectHostname(preface) IN
  IF detected = "malformed"
  THEN tConn[c].at = "new" /\ GoTo(c, "done") /\ UNCHANGED <<tConf, tSlots, tQueue>>
  ELSE ServeHTTP(c, [host |-> IF detected = "unavailable" THEN preface.address ELSE detected,
                     port |-> preface.port, hint |-> NoCapability,
                     sni |-> IF preface.kind = "tls" THEN preface.name ELSE "", kind |-> "connect"])

-----------------------------------------------------------------------------
(* acquireTunnel.                                                             *)

\* The client went away before it was served.
AcquireCancelled(c) ==
  /\ tConn[c].at = "acquire" /\ GoTo(c, "done") /\ UNCHANGED <<tConf, tSlots, tQueue>>

AcquireTunnel(c) ==
  /\ tConn[c].at = "acquire"
  /\ IF tSlots < TunnelMax THEN tSlots' = tSlots + 1 /\ GoTo(c, "held") ELSE GoTo(c, "full") /\ UNCHANGED tSlots
  /\ UNCHANGED <<tConf, tQueue>>

EnterQueue(c) ==
  /\ tConn[c].at = "full"
  /\ IF tQueue < TunnelMax THEN tQueue' = tQueue + 1 /\ GoTo(c, "waiting") ELSE GoTo(c, "done") /\ UNCHANGED tQueue
  /\ UNCHANGED <<tConf, tSlots>>

SlotFromQueue(c) ==
  /\ tConn[c].at = "waiting" /\ tSlots < TunnelMax
  /\ tSlots' = tSlots + 1 /\ GoTo(c, "leaving")
  /\ UNCHANGED <<tConf, tQueue>>

\* The timer fires, or the client goes away, while another may be freeing a slot.
QueueGivenUp(c) ==
  /\ tConn[c].at = "waiting" /\ GoTo(c, "abandoned") /\ UNCHANGED <<tConf, tSlots, tQueue>>

\* BUG: a connection that gives up keeps its place.
LeaveQueue_OnlyAdmitted(c) ==
  /\ tConn[c].at \in {"leaving", "abandoned"}
  /\ tQueue' = IF tConn[c].at = "leaving" THEN tQueue - 1 ELSE tQueue
  /\ GoTo(c, IF tConn[c].at = "leaving" THEN "held" ELSE "done")
  /\ UNCHANGED <<tConf, tSlots>>

LeaveQueue(c) ==
  /\ tConn[c].at \in {"leaving", "abandoned"}
  /\ tQueue' = tQueue - 1 /\ GoTo(c, IF tConn[c].at = "leaving" THEN "held" ELSE "done")
  /\ UNCHANGED <<tConf, tSlots>>

-----------------------------------------------------------------------------
(* With a tunnel.                                                             *)

\* BUG: an answer with one public address is taken whole.
ResolveAllowed_Some(c, answer) ==
  /\ tConn[c].at = "held" /\ tConn[c].kind = "blind"
  /\ IF \E a \in answer : destinationAllowed(a)
     THEN SetConn(c, [tConn[c] EXCEPT !.at = "resolved", !.addresses = answer])
     ELSE GoTo(c, "releasing")
  /\ UNCHANGED <<tConf, tSlots, tQueue>>

\* One lookup; a single denied address refuses the whole answer.
ResolveAllowed(c, answer) ==
  /\ tConn[c].at = "held" /\ tConn[c].kind = "blind"
  /\ IF answer # {} /\ \A a \in answer : destinationAllowed(a)
     THEN SetConn(c, [tConn[c] EXCEPT !.at = "resolved", !.addresses = answer])
     ELSE GoTo(c, "releasing")
  /\ UNCHANGED <<tConf, tSlots, tQueue>>

\* The addresses that were checked are dialled, the name never again.
DialResolved(c, a) ==
  /\ tConn[c].at = "resolved" /\ a \in tConn[c].addresses
  /\ SetConn(c, [tConn[c] EXCEPT !.at = "open", !.reached = a])
  /\ UNCHANGED <<tConf, tSlots, tQueue>>

\* Nobody answers, or the connection cannot be hijacked.
OpenFails(c) ==
  /\ tConn[c].at = "resolved" \/ (tConn[c].at = "held" /\ tConn[c].kind = "inject")
  /\ GoTo(c, "releasing") /\ UNCHANGED <<tConf, tSlots, tQueue>>

\* The TLS of an inject route ends here, if a leaf may be minted for the name
\* the client asks for; the route stays that of the CONNECT.
GetCertificate(name) == name \in {"", "svc"} \cup {r.host : r \in tConf.routes}

ServeMITM(c) ==
  /\ tConn[c].at = "held" /\ tConn[c].kind = "inject"
  /\ GoTo(c, IF GetCertificate(tConn[c].sni) THEN "open" ELSE "releasing")
  /\ UNCHANGED <<tConf, tSlots, tQueue>>

\* The first request of a terminated connection dials its pinned upstream, with
\* one lookup: private only if the route says so.
DialInjectRoute(c, answer, a) ==
  LET private == \E r \in RoutesOf(tConn[c].host) : r.capability = tConn[c].capability /\ r.private IN
  /\ tConn[c].at = "open" /\ tConn[c].kind = "inject" /\ tConn[c].reached = "none"
  /\ private \/ \A x \in answer : destinationAllowed(x)
  /\ SetConn(c, [tConn[c] EXCEPT !.reached = a])
  /\ UNCHANGED <<tConf, tSlots, tQueue>>

\* The catalog of a capability is fetched from the broker with a deadline.
ServePublicCatalog(c) ==
  /\ tConn[c].at = "held" /\ tConn[c].kind = "catalog" /\ GoTo(c, "releasing") /\ UNCHANGED <<tConf, tSlots, tQueue>>

\* Either side closes, or the tunnel is idle for too long.
TunnelEnds(c) ==
  /\ tConn[c].at = "open" /\ GoTo(c, "releasing") /\ UNCHANGED <<tConf, tSlots, tQueue>>

ReleaseTunnel(c) ==
  /\ tConn[c].at = "releasing" /\ tSlots' = tSlots - 1 /\ GoTo(c, "done") /\ UNCHANGED <<tConf, tQueue>>

TunnelStep(c) ==
  \/ \E q \in TunnelRequests : RelayExplicit(c, q)
  \/ \E preface \in TunnelPrefaces : RelayTransparent(c, preface)
  \/ AcquireCancelled(c)
  \/ AcquireTunnel(c)
  \/ EnterQueue(c)
  \/ SlotFromQueue(c)
  \/ QueueGivenUp(c)
  \/ LeaveQueue(c)
  \/ \E answer \in TunnelAnswers : ResolveAllowed(c, answer)
  \/ \E a \in tConn[c].addresses : DialResolved(c, a)
  \/ OpenFails(c)
  \/ ServeMITM(c)
  \/ \E answer \in TunnelAnswers : \E a \in answer : DialInjectRoute(c, answer, a)
  \/ ServePublicCatalog(c)
  \/ TunnelEnds(c)
  \/ ReleaseTunnel(c)

TunnelNext == \E c \in TunnelConns : TunnelStep(c)

TunnelSpec == TunnelInit /\ [][TunnelNext]_tunnelVars

-----------------------------------------------------------------------------
(* Properties.                                                                *)

\* Whatever way a connection ends (refused, timed out or cancelled in the queue
\* while a slot is freed, failed at any step, closed), it gives back the slot and
\* the place in the queue it took, and neither is given out beyond the limit
\* (acquireTunnel and its deferred functions).
TunnelsAccounted ==
  /\ tSlots = Cardinality({c \in TunnelConns : tConn[c].at \in Holding})
  /\ tQueue = Cardinality({c \in TunnelConns : tConn[c].at \in Queueing})
  /\ tSlots <= TunnelMax /\ tQueue <= TunnelMax

\* No tunnel reaches a private address, whatever DNS answers at each lookup,
\* unless it is the pinned upstream of a route that was declared private: what is
\* dialled is what was checked (resolveAllowedAddresses, dialResolvedAddresses).
NoDeniedDestination ==
  \A c \in TunnelConns : tConn[c].reached = "private" =>
    \E r \in RoutesOf(tConn[c].host) : r.capability = tConn[c].capability /\ r.private

\* A connection is injected only for a capability its client named, or the single
\* one its host has for every client; and only to a port and a domain the
\* configuration allows, even if the client asked for the TLS name of another.
NeverGuessed ==
  \A c \in TunnelConns : tConn[c].at = "open" /\ tConn[c].kind = "inject" =>
    /\ tConn[c].port \in tConf.ports /\ domainAllowed(tConn[c].host)
    /\ \E r \in RoutesOf(tConn[c].host) :
         /\ r.capability = tConn[c].capability
         /\ r.capability = tConn[c].hint \/ (tConn[c].hint = NoCapability /\ ~r.hint /\ AutoRoutes(tConn[c].host) = {r})

\* A connection reaches only an address, and is injected only with a capability,
\* that the configuration allows it.
ReachesOnlyAllowed == NoDeniedDestination /\ NeverGuessed
=============================================================================
