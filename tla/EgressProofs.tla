---------------------------- MODULE EgressProofs ------------------------------
(* What the egress plane guarantees.  egressd as a forward proxy: for every    *)
(* number of connections and of tunnels, every configuration, every request    *)
(* and every DNS answer; as an injecting proxy: for every number of requests,   *)
(* every set of keys, headers and header material, and every limit.  The        *)
(* operator, which admits runs and renders what egressd reads: for every spec    *)
(* and every environment.  The three parts share no state.                     *)
EXTENDS EgressTunnels, EgressInjection, EgressRender, FiniteSetTheorems, WellFoundedInduction, TLAPS

(* Tunnels.  A step changes one connection, so the proof first says what a     *)
(* step does to it (its place and the two counters), then counts.             *)

(* A connection is a record with these fields; what they hold depends on the   *)
(* requests.                                                                  *)
ConnFields == {"at", "host", "port", "hint", "sni", "kind", "capability", "addresses", "reached"}
IsConn(x) == DOMAIN x = ConnFields

ConnsTyped ==
  /\ tConn = [c \in TunnelConns |-> tConn[c]]
  /\ \A c \in TunnelConns : IsConn(tConn[c])

(* The connections at some of the places.                                     *)
At(places) == {c \in TunnelConns : tConn[c].at \in places}

(* The counters.  That the sets are finite is part of the invariant: a set     *)
(* that grows by one connection at a time stays so, whatever TunnelConns is.  *)
CountInv ==
  /\ IsFiniteSet(At(Holding)) /\ IsFiniteSet(At(Queueing))
  /\ TunnelsAccounted

(* A private route of the connection's host and capability.                   *)
PrivateRoute(x) == \E r \in RoutesOf(x.host) : r.capability = x.capability /\ r.private

(* The route an injected connection was given at its CONNECT.                 *)
Routable(x) ==
  /\ x.port \in tConf.ports /\ domainAllowed(x.host)
  /\ \E r \in RoutesOf(x.host) :
       /\ r.capability = x.capability
       /\ r.capability = x.hint \/ (x.hint = NoCapability /\ ~r.hint /\ AutoRoutes(x.host) = {r})

(* What is known of a connection wherever it is: a decision taken at the       *)
(* CONNECT still holds when it is acted on, and what waits to be dialled was  *)
(* checked.                                                                   *)
ConnInv(x) ==
  /\ x.at = "new" => x = NewConn
  /\ x.kind = "inject" => Routable(x)
  /\ "private" \notin x.addresses
  /\ x.reached = "private" => PrivateRoute(x)

TunnelInv ==
  /\ tConf \in TunnelConfigs
  /\ ConnsTyped
  /\ CountInv
  /\ \A c \in TunnelConns : ConnInv(tConn[c])
-----------------------------------------------------------------------------
(* Counting.                                                                  *)

(* When one connection c changes, the number of connections at some places     *)
(* changes by what c contributes before and after.                            *)
LEMMA Recount ==
  ASSUME NEW c \in TunnelConns, NEW places, NEW new,
         ConnsTyped, tConn' = [tConn EXCEPT ![c] = new], IsFiniteSet(At(places))
  PROVE  /\ IsFiniteSet(At(places)')
         /\ Cardinality(At(places)) \in Nat
         /\ Cardinality(At(places)') =
              Cardinality(At(places)) + (IF new.at \in places THEN 1 ELSE 0)
                                      - (IF tConn[c].at \in places THEN 1 ELSE 0)
<1> DEFINE others == At(places) \ {c}
<1>1. /\ IsFiniteSet(others) /\ Cardinality(At(places)) \in Nat /\ Cardinality(others) \in Nat
      /\ Cardinality(others) = IF c \in At(places) THEN Cardinality(At(places)) - 1 ELSE Cardinality(At(places))
  BY FS_RemoveElement, FS_CardinalityType
<1>2. IsFiniteSet(others \cup {c}) /\ Cardinality(others \cup {c}) = Cardinality(others) + 1
  <2>1. c \notin others
    OBVIOUS
  <2> HIDE DEF others
  <2> QED BY <1>1, <2>1, FS_AddElement
<1>3. At(places)' = IF new.at \in places THEN others \cup {c} ELSE others
  BY DEF At, ConnsTyped
<1>4. c \in At(places) <=> tConn[c].at \in places
  BY DEF At
<1> HIDE DEF others
<1> QED BY <1>1, <1>2, <1>3, <1>4, SMT

(* What every step does: one connection moves, and each counter with it.        *)
Moves(c, new) ==
  /\ tConf' = tConf /\ tConn' = [tConn EXCEPT ![c] = new]
  /\ IsConn(new) /\ ConnInv(new)
  /\ tSlots' = tSlots + (IF new.at \in Holding THEN 1 ELSE 0) - (IF tConn[c].at \in Holding THEN 1 ELSE 0)
  /\ tQueue' = tQueue + (IF new.at \in Queueing THEN 1 ELSE 0) - (IF tConn[c].at \in Queueing THEN 1 ELSE 0)
  /\ tSlots' = tSlots \/ tSlots' <= TunnelMax
  /\ tQueue' = tQueue \/ tQueue' <= TunnelMax

(* Such a step keeps the invariant.                                            *)
LEMMA MoveKeepsInv ==
  ASSUME TunnelInv, NEW c \in TunnelConns, NEW new, Moves(c, new)
  PROVE  TunnelInv'
<1>1. ConnsTyped'
  BY DEF TunnelInv, Moves, ConnsTyped
<1>2. CountInv'
  <2>1. /\ IsFiniteSet(At(Holding)') /\ Cardinality(At(Holding)) \in Nat
        /\ Cardinality(At(Holding)') =
             Cardinality(At(Holding)) + (IF new.at \in Holding THEN 1 ELSE 0) - (IF tConn[c].at \in Holding THEN 1 ELSE 0)
    BY Recount DEF TunnelInv, CountInv, Moves
  <2>2. /\ IsFiniteSet(At(Queueing)') /\ Cardinality(At(Queueing)) \in Nat
        /\ Cardinality(At(Queueing)') =
             Cardinality(At(Queueing)) + (IF new.at \in Queueing THEN 1 ELSE 0) - (IF tConn[c].at \in Queueing THEN 1 ELSE 0)
    BY Recount DEF TunnelInv, CountInv, Moves
  <2>3. tSlots = Cardinality(At(Holding)) /\ tQueue = Cardinality(At(Queueing)) /\ tSlots <= TunnelMax /\ tQueue <= TunnelMax
    BY DEF TunnelInv, CountInv, TunnelsAccounted, At
  <2>4. /\ tSlots' = Cardinality(At(Holding)') /\ tQueue' = Cardinality(At(Queueing)')
        /\ tSlots' <= TunnelMax /\ tQueue' <= TunnelMax
    BY <2>1, <2>2, <2>3, TunnelMaxAssumption DEF Moves
  <2>5. TunnelsAccounted'
    BY <2>4 DEF TunnelsAccounted, At
  <2>6. IsFiniteSet(At(Holding))' /\ IsFiniteSet(At(Queueing))'
    BY <2>1, <2>2 DEF Holding, Queueing
  <2> QED BY <2>5, <2>6 DEF CountInv
<1>3. (\A d \in TunnelConns : ConnInv(tConn[d]))'
  <2> SUFFICES ASSUME NEW d \in TunnelConns PROVE ConnInv(tConn[d])'
    OBVIOUS
  <2>1. \A x : /\ Routable(x)' <=> Routable(x)
               /\ PrivateRoute(x)' <=> PrivateRoute(x)
    BY DEF Moves, Routable, PrivateRoute, RoutesOf, AutoRoutes, domainAllowed
  <2>2. tConn'[d] = IF d = c THEN new ELSE tConn[d]
    BY DEF Moves, TunnelInv, ConnsTyped
  <2>3. ConnInv(tConn'[d])
    BY <2>2 DEF TunnelInv, Moves
  <2> QED BY <2>1, <2>3 DEF ConnInv
<1>4. tConf' \in TunnelConfigs
  BY DEF TunnelInv, Moves
<1> QED BY <1>1, <1>2, <1>3, <1>4 DEF TunnelInv
-----------------------------------------------------------------------------
(* The steps.                                                                  *)
USE DEF Holding, Queueing

LEMMA NewConnGood == IsConn(NewConn) /\ ConnInv(NewConn) /\ ConnInv([NewConn EXCEPT !.at = "done"])
BY DEF IsConn, ConnFields, ConnInv, NewConn, NoCapability

(* Leaving a place without any decision keeps what is known of a connection.    *)
LEMMA PlaceOnly ==
  ASSUME NEW x, IsConn(x), ConnInv(x), NEW at, at # "new"
  PROVE  IsConn([x EXCEPT !.at = at]) /\ ConnInv([x EXCEPT !.at = at]) /\ [x EXCEPT !.at = at].at = at
BY DEF IsConn, ConnFields, ConnInv, Routable, PrivateRoute

LEMMA DoneGood ==
  LET done == [NewConn EXCEPT !.at = "done"] IN IsConn(done) /\ ConnInv(done) /\ done.at = "done"
BY PlaceOnly, NewConnGood

(* A verdict to inject names a route of the host, the one the client hinted at  *)
(* or the only one that needs no hint.                                         *)
LEMMA InjectVerdict ==
  ASSUME tConf \in TunnelConfigs, NEW q, TunnelVerdict(q) = "inject"
  PROVE  /\ q.port \in tConf.ports /\ domainAllowed(q.host)
         /\ \E r \in RoutesOf(q.host) :
              /\ r.capability = injectProxy(q.host, q.hint).capability
              /\ r.capability = q.hint \/ (q.hint = NoCapability /\ ~r.hint /\ AutoRoutes(q.host) = {r})
<1> DEFINE found == injectProxy(q.host, q.hint)
<1>1. q.port \in tConf.ports /\ domainAllowed(q.host) /\ ~found.failed /\ found.found
  BY DEF TunnelVerdict
<1>2. RoutesOf(q.host) # {}
  BY <1>1 DEF injectProxy
<1>3. CASE q.hint # NoCapability
  BY <1>1, <1>2, <1>3 DEF injectProxy
<1>4. CASE q.hint = NoCapability
  <2>1. /\ Cardinality(AutoRoutes(q.host)) = 1
        /\ found.capability = (CHOOSE r \in AutoRoutes(q.host) : TRUE).capability
    BY <1>1, <1>2, <1>4 DEF injectProxy
  <2>2. IsFiniteSet(AutoRoutes(q.host))
    BY TunnelRoutesFinite, FS_Subset DEF AutoRoutes, RoutesOf
  <2>3. PICK r : AutoRoutes(q.host) = {r}
    BY <2>1, <2>2, FS_Singleton
  <2>4. (CHOOSE x \in AutoRoutes(q.host) : TRUE) = r
    BY <2>3
  <2>5. r \in RoutesOf(q.host) /\ ~r.hint
    BY <2>3 DEF AutoRoutes
  <2> QED BY <1>1, <1>4, <2>1, <2>3, <2>4, <2>5
<1> QED BY <1>3, <1>4

LEMMA ServeHTTPMoves ==
  ASSUME TunnelInv, NEW c \in TunnelConns, NEW q, ServeHTTP(c, q)
  PROVE  \E new : Moves(c, new)
<1>1. IsConn(tConn[c]) /\ ConnInv(tConn[c]) /\ tConn[c] = NewConn /\ tConn[c].at = "new"
  BY DEF TunnelInv, ConnsTyped, ConnInv, ServeHTTP
<1>0. tSlots \in Nat /\ tQueue \in Nat
  BY FS_CardinalityType DEF TunnelInv, CountInv, TunnelsAccounted, At
<1>2. CASE TunnelVerdict(q) = "deny"
  <2>1. tConn' = [tConn EXCEPT ![c] = [NewConn EXCEPT !.at = "done"]]
    BY <1>2 DEF ServeHTTP, GoTo, SetConn
  <2>2. Moves(c, [NewConn EXCEPT !.at = "done"])
    BY <1>0, <1>1, <2>1, DoneGood DEF Moves, ServeHTTP
  <2> QED BY <2>2
<1>3. CASE TunnelVerdict(q) # "deny"
  <2> DEFINE verdict == TunnelVerdict(q)
             capability == IF verdict = "inject" THEN injectProxy(q.host, q.hint).capability ELSE NoCapability
             new == [tConn[c] EXCEPT !.at = "acquire", !.host = q.host, !.port = q.port, !.hint = q.hint,
                                     !.sni = q.sni, !.kind = verdict, !.capability = capability]
  <2>1. tConn' = [tConn EXCEPT ![c] = new]
    BY <1>3, Zenon DEF ServeHTTP, SetConn
  <2>f. /\ DOMAIN new = ConnFields /\ new.at = "acquire" /\ new.host = q.host /\ new.port = q.port /\ new.hint = q.hint
        /\ new.kind = verdict /\ new.capability = capability /\ new.addresses = {} /\ new.reached = "none"
    <3> HIDE DEF verdict, capability
    <3> QED BY <1>1 DEF IsConn, ConnFields, NewConn
  <2> HIDE DEF new
  <2>2. verdict = "inject" => Routable(new)
    BY <2>f, InjectVerdict DEF TunnelInv, Routable
  <2>3. IsConn(new) /\ ConnInv(new)
    BY <2>f, <2>2 DEF IsConn, ConnInv
  <2>4. new.at \notin Holding \cup Queueing
    BY <2>f
  <2>5. Moves(c, new)
    BY <1>0, <1>1, <2>1, <2>3, <2>4 DEF Moves, ServeHTTP
  <2> QED BY <2>5
<1> QED BY <1>2, <1>3

(* A step that only moves a connection on, with the counters as they must be.   *)
LEMMA GoToMoves ==
  ASSUME TunnelInv, NEW c \in TunnelConns, NEW at, at # "new", GoTo(c, at), tConf' = tConf,
         tSlots' = tSlots + (IF at \in Holding THEN 1 ELSE 0) - (IF tConn[c].at \in Holding THEN 1 ELSE 0),
         tQueue' = tQueue + (IF at \in Queueing THEN 1 ELSE 0) - (IF tConn[c].at \in Queueing THEN 1 ELSE 0),
         tSlots' = tSlots \/ tSlots' <= TunnelMax, tQueue' = tQueue \/ tQueue' <= TunnelMax
  PROVE  \E new : Moves(c, new)
<1> DEFINE new == [IF at = "done" THEN NewConn ELSE tConn[c] EXCEPT !.at = at]
<1>1. tConn' = [tConn EXCEPT ![c] = new]
  BY DEF GoTo, SetConn
<1>2. IsConn(tConn[c]) /\ ConnInv(tConn[c])
  BY DEF TunnelInv, ConnsTyped
<1>3. IsConn(new) /\ ConnInv(new) /\ new.at = at
  BY <1>2, DoneGood, PlaceOnly
<1> HIDE DEF new
<1>4. Moves(c, new)
  BY <1>1, <1>3 DEF Moves
<1> QED BY <1>4

(* One fact per action: from TunnelInv, each step is a move.                    *)
LEMMA NextMoves ==
  ASSUME TunnelInv, NEW c \in TunnelConns, TunnelStep(c)
  PROVE  \E new : Moves(c, new)
<1>0. tSlots \in Nat /\ tQueue \in Nat
  BY FS_CardinalityType DEF TunnelInv, CountInv, TunnelsAccounted, At
<1>t. IsConn(tConn[c]) /\ ConnInv(tConn[c]) /\ tConf \in TunnelConfigs
  BY DEF TunnelInv, ConnsTyped
<1>1. ASSUME NEW q \in TunnelRequests, RelayExplicit(c, q) PROVE \E new : Moves(c, new)
  BY <1>1, ServeHTTPMoves DEF RelayExplicit
<1>2. ASSUME NEW preface \in TunnelPrefaces, RelayTransparent(c, preface) PROVE \E new : Moves(c, new)
  <2>1. CASE InspectHostname(preface) = "malformed"
    <3>1. tConn[c].at = "new" /\ GoTo(c, "done") /\ UNCHANGED <<tConf, tSlots, tQueue>>
      BY <1>2, <2>1 DEF RelayTransparent
    <3> QED BY <1>0, <3>1, GoToMoves
  <2>2. CASE InspectHostname(preface) # "malformed"
    BY <1>2, <2>2, ServeHTTPMoves DEF RelayTransparent
  <2> QED BY <2>1, <2>2
<1>3. CASE AcquireCancelled(c)
  BY <1>0, <1>3, GoToMoves DEF AcquireCancelled
<1>4. CASE AcquireTunnel(c)
  <2>1. CASE tSlots < TunnelMax
    BY <1>0, <1>4, <2>1, GoToMoves, TunnelMaxAssumption DEF AcquireTunnel
  <2>2. CASE ~(tSlots < TunnelMax)
    BY <1>0, <1>4, <2>2, GoToMoves DEF AcquireTunnel
  <2> QED BY <2>1, <2>2
<1>5. CASE EnterQueue(c)
  <2>1. CASE tQueue < TunnelMax
    BY <1>0, <1>5, <2>1, GoToMoves, TunnelMaxAssumption DEF EnterQueue
  <2>2. CASE ~(tQueue < TunnelMax)
    BY <1>0, <1>5, <2>2, GoToMoves DEF EnterQueue
  <2> QED BY <2>1, <2>2
<1>6. CASE SlotFromQueue(c)
  BY <1>0, <1>6, GoToMoves, TunnelMaxAssumption DEF SlotFromQueue
<1>7. CASE QueueGivenUp(c)
  BY <1>0, <1>7, GoToMoves DEF QueueGivenUp
<1>8. CASE LeaveQueue(c)
  <2>0. tQueue <= TunnelMax
    BY DEF TunnelInv, CountInv, TunnelsAccounted
  <2>1. CASE tConn[c].at = "leaving"
    BY <1>0, <1>8, <2>0, <2>1, GoToMoves, TunnelMaxAssumption DEF LeaveQueue
  <2>2. CASE tConn[c].at = "abandoned"
    BY <1>0, <1>8, <2>0, <2>2, GoToMoves, TunnelMaxAssumption DEF LeaveQueue
  <2> QED BY <1>8, <2>1, <2>2 DEF LeaveQueue
<1>9. ASSUME NEW answer \in TunnelAnswers, ResolveAllowed(c, answer) PROVE \E new : Moves(c, new)
  <2>1. CASE answer # {} /\ \A a \in answer : destinationAllowed(a)
    <3> DEFINE new == [tConn[c] EXCEPT !.at = "resolved", !.addresses = answer]
    <3>1. tConn' = [tConn EXCEPT ![c] = new] /\ tConn[c].at = "held"
      BY <1>9, <2>1 DEF ResolveAllowed, SetConn
    <3>2. IsConn(new) /\ ConnInv(new) /\ new.at = "resolved"
      BY <1>t, <2>1 DEF IsConn, ConnFields, ConnInv, Routable, PrivateRoute, destinationAllowed
    <3> HIDE DEF new
    <3>3. Moves(c, new)
      BY <1>0, <1>9, <3>1, <3>2 DEF Moves, ResolveAllowed
    <3> QED BY <3>3
  <2>2. CASE ~(answer # {} /\ \A a \in answer : destinationAllowed(a))
    BY <1>0, <1>9, <2>2, GoToMoves DEF ResolveAllowed
  <2> QED BY <2>1, <2>2
<1>10. ASSUME NEW a \in tConn[c].addresses, DialResolved(c, a) PROVE \E new : Moves(c, new)
  <2> DEFINE new == [tConn[c] EXCEPT !.at = "open", !.reached = a]
  <2>1. tConn' = [tConn EXCEPT ![c] = new] /\ tConn[c].at = "resolved"
    BY <1>10 DEF DialResolved, SetConn
  <2>2. IsConn(new) /\ ConnInv(new) /\ new.at = "open"
    BY <1>t DEF IsConn, ConnFields, ConnInv, Routable, PrivateRoute
  <2> HIDE DEF new
  <2>3. Moves(c, new)
    BY <1>0, <1>10, <2>1, <2>2 DEF Moves, DialResolved
  <2> QED BY <2>3
<1>11. CASE OpenFails(c)
  BY <1>0, <1>11, GoToMoves DEF OpenFails
<1>12. CASE ServeMITM(c)
  BY <1>0, <1>12, GoToMoves DEF ServeMITM
<1>13. ASSUME NEW answer \in TunnelAnswers, NEW a \in answer, DialInjectRoute(c, answer, a)
       PROVE  \E new : Moves(c, new)
  <2> DEFINE new == [tConn[c] EXCEPT !.reached = a]
  <2>1. tConn' = [tConn EXCEPT ![c] = new] /\ tConn[c].at = "open"
    BY <1>13 DEF DialInjectRoute, SetConn
  <2>2. a = "private" => PrivateRoute(tConn[c])
    BY <1>13 DEF DialInjectRoute, PrivateRoute, destinationAllowed
  <2>3. IsConn(new) /\ ConnInv(new) /\ new.at = "open"
    BY <1>t, <2>1, <2>2 DEF IsConn, ConnFields, ConnInv, Routable, PrivateRoute
  <2> HIDE DEF new
  <2>4. Moves(c, new)
    BY <1>0, <1>13, <2>1, <2>3 DEF Moves, DialInjectRoute
  <2> QED BY <2>4
<1>14. CASE ServePublicCatalog(c)
  BY <1>0, <1>14, GoToMoves DEF ServePublicCatalog
<1>15. CASE TunnelEnds(c)
  BY <1>0, <1>15, GoToMoves DEF TunnelEnds
<1>16. CASE ReleaseTunnel(c)
  <2>1. tSlots <= TunnelMax
    BY DEF TunnelInv, CountInv, TunnelsAccounted
  <2> QED BY <1>0, <1>16, <2>1, GoToMoves, TunnelMaxAssumption DEF ReleaseTunnel
<1> QED BY <1>1, <1>2, <1>3, <1>4, <1>5, <1>6, <1>7, <1>8, <1>9, <1>10, <1>11, <1>12, <1>13, <1>14, <1>15, <1>16
       DEF TunnelStep
-----------------------------------------------------------------------------
LEMMA InitTunnelInv == TunnelInit => TunnelInv
<1> SUFFICES ASSUME TunnelInit PROVE TunnelInv
  OBVIOUS
<1>1. At(Holding) = {} /\ At(Queueing) = {}
  BY DEF TunnelInit, At, NewConn
<1>2. CountInv
  <2>1. /\ {c \in TunnelConns : tConn[c].at \in Holding} = {}
        /\ {c \in TunnelConns : tConn[c].at \in Queueing} = {}
    BY <1>1 DEF At
  <2>2. TunnelsAccounted
    BY <2>1, FS_EmptySet, TunnelMaxAssumption DEF TunnelInit, TunnelsAccounted
  <2> QED BY <1>1, <2>2, FS_EmptySet DEF CountInv
<1>3. ConnsTyped /\ \A c \in TunnelConns : ConnInv(tConn[c])
  BY NewConnGood DEF TunnelInit, ConnsTyped
<1> QED BY <1>2, <1>3 DEF TunnelInit, TunnelInv

LEMMA NextTunnelInv == TunnelInv /\ [TunnelNext]_tunnelVars => TunnelInv'
<1>1. ASSUME TunnelInv, TunnelNext PROVE TunnelInv'
  BY <1>1, NextMoves, MoveKeepsInv DEF TunnelNext
<1>2. ASSUME TunnelInv, UNCHANGED tunnelVars PROVE TunnelInv'
  BY <1>2 DEF tunnelVars, TunnelInv, ConnsTyped, IsConn, CountInv, TunnelsAccounted, At, ConnInv, Routable,
              PrivateRoute, RoutesOf, AutoRoutes, domainAllowed
<1> QED BY <1>1, <1>2

(* The inductive invariant of the forward proxy.                                *)
THEOREM TunnelInvariance == TunnelSpec => []TunnelInv
BY InitTunnelInv, NextTunnelInv, PTL DEF TunnelSpec

(* However many connections compete for however many tunnels, every slot and    *)
(* every place in the queue is given back and neither limit is passed           *)
(* (acquireTunnel and its deferred functions).                                 *)
THEOREM SlotsNeverLeak == TunnelSpec => []TunnelsAccounted
<1>1. TunnelInv => TunnelsAccounted
  BY DEF TunnelInv, CountInv
<1> QED BY <1>1, TunnelInvariance, PTL

(* Whatever DNS answers and clients ask, a tunnel reaches only addresses that   *)
(* were checked, or the pinned upstream of a private route, and is injected     *)
(* only with the capability the client named or its host's single one          *)
(* (resolveAllowedAddresses, dialResolvedAddresses, injectProxy).              *)
THEOREM OnlyAllowedReached == TunnelSpec => []ReachesOnlyAllowed
<1>1. TunnelInv => ReachesOnlyAllowed
  BY DEF TunnelInv, ConnInv, Routable, PrivateRoute, ReachesOnlyAllowed, NoDeniedDestination, NeverGuessed
<1> QED BY <1>1, TunnelInvariance, PTL

-----------------------------------------------------------------------------
(* Injection.  A request's step changes its own record, perhaps the cache,     *)
(* the quota's count and the reporter: one lemma says what such a step must    *)
(* respect, and one fact per action that it does.                             *)

RequestFields == {"at", "key", "headers", "material", "got", "outbound"}
MaterialFields == {"key", "stored", "arrived", "shape", "expires"}

(* Header material for a key, in the cache or held by a request: decided for    *)
(* that key, and not from the future.                                         *)
IsMaterial(m, k, clock) ==
  /\ DOMAIN m = MaterialFields /\ m.key = k
  /\ m.arrived \in Nat /\ m.stored = m.arrived /\ m.arrived <= clock

(* Material in use: when it was obtained its key had not been withdrawn for     *)
(* longer than an entry lives, and it was not about to expire.                 *)
InUse(x, clock, revoked) ==
  /\ IsMaterial(x.material, x.key, clock)
  /\ x.got \in Nat /\ x.got <= clock
  /\ x.got >= revoked[x.key] + InjTTL => x.material.arrived > revoked[x.key]
  /\ Expires(x.material) => x.got + InjMargin < x.material.expires

RequestInv(x, clock, revoked) ==
  /\ DOMAIN x = RequestFields
  /\ x.at \in {"new", "locking", "fetching", "answered", "authorised", "sending", "relaying", "done"}
  /\ x.at \in {"locking", "fetching", "answered", "authorised", "sending"} => x.key \in InjKeys
  /\ x.at = "answered" => IsMaterial(x.material, x.key, clock)
  /\ x.at \in {"authorised", "sending"} => InUse(x, clock, revoked)
  /\ x.at = "sending" => x.outbound = buildOutbound(x.key, x.headers, x.material.shape)

CacheInv(cache, clock) ==
  /\ cache = [k \in InjKeys |-> cache[k]]
  /\ \A k \in InjKeys : cache[k] = NoMaterial \/ IsMaterial(cache[k], k, clock)

(* What was let through is what was counted, up to the quota.                   *)
QuotaInv(count, passed, refused) ==
  /\ count \in Nat /\ passed \in Nat
  /\ InjQuota > 0 => /\ passed = IF count <= InjQuota THEN count ELSE InjQuota
                     /\ refused => count > InjQuota

IsReporter(rep) == rep \in [queue : Nat, batch : Nat, sending : BOOLEAN, delivered : Nat, dropped : Nat]
Reports(rep) == rep.queue + rep.batch + rep.delivered + rep.dropped

Answered == {"done", "relaying"}
AnsweredRequests == {r \in InjRequests : iReq[r].at \in Answered}

InjectionInv ==
  /\ iClock \in Nat /\ iRevoked \in [InjKeys -> Nat]
  /\ iReq = [r \in InjRequests |-> iReq[r]]
  /\ \A r \in InjRequests : RequestInv(iReq[r], iClock, iRevoked)
  /\ CacheInv(iCache, iClock)
  /\ QuotaInv(iCount, iPassed, iRefused)
  /\ IsReporter(iReporter)
  /\ IsFiniteSet(AnsweredRequests) /\ Reports(iReporter) = Cardinality(AnsweredRequests)
-----------------------------------------------------------------------------
(* Counting the answered requests.                                            *)
LEMMA RecountAnswered ==
  ASSUME NEW r \in InjRequests, NEW new,
         iReq = [q \in InjRequests |-> iReq[q]], iReq' = [iReq EXCEPT ![r] = new],
         IsFiniteSet(AnsweredRequests)
  PROVE  /\ IsFiniteSet(AnsweredRequests')
         /\ Cardinality(AnsweredRequests) \in Nat
         /\ Cardinality(AnsweredRequests') =
              Cardinality(AnsweredRequests) + (IF new.at \in Answered THEN 1 ELSE 0)
                                            - (IF iReq[r].at \in Answered THEN 1 ELSE 0)
<1> DEFINE others == AnsweredRequests \ {r}
<1>1. /\ IsFiniteSet(others) /\ Cardinality(AnsweredRequests) \in Nat /\ Cardinality(others) \in Nat
      /\ Cardinality(others) = IF r \in AnsweredRequests THEN Cardinality(AnsweredRequests) - 1
                               ELSE Cardinality(AnsweredRequests)
  BY FS_RemoveElement, FS_CardinalityType
<1>2. IsFiniteSet(others \cup {r}) /\ Cardinality(others \cup {r}) = Cardinality(others) + 1
  <2>1. r \notin others
    OBVIOUS
  <2> HIDE DEF others
  <2> QED BY <1>1, <2>1, FS_AddElement
<1>3. AnsweredRequests' = IF new.at \in Answered THEN others \cup {r} ELSE others
  BY DEF AnsweredRequests
<1>4. r \in AnsweredRequests <=> iReq[r].at \in Answered
  BY DEF AnsweredRequests
<1> HIDE DEF others
<1> QED BY <1>1, <1>2, <1>3, <1>4, SMT

(* A report is queued or counted as dropped.                                    *)
LEMMA EnqueueReportCounts ==
  ASSUME IsReporter(iReporter), EnqueueReport
  PROVE  IsReporter(iReporter)' /\ Reports(iReporter)' = Reports(iReporter) + 1
<1>1. CASE iReporter.queue < InjQueueSize
  <2>1. iReporter' = [iReporter EXCEPT !.queue = iReporter.queue + 1]
    BY <1>1 DEF EnqueueReport
  <2> QED BY <2>1 DEF IsReporter, Reports
<1>2. CASE ~(iReporter.queue < InjQueueSize)
  <2>1. iReporter' = [iReporter EXCEPT !.dropped = iReporter.dropped + 1]
    BY <1>2 DEF EnqueueReport
  <2> QED BY <2>1 DEF IsReporter, Reports
<1> QED BY <1>1, <1>2

(* What the step of a request may do.                                          *)
RequestStep(r, new) ==
  /\ iClock' = iClock /\ iRevoked' = iRevoked
  /\ iReq' = [iReq EXCEPT ![r] = new] /\ RequestInv(new, iClock, iRevoked)
  /\ CacheInv(iCache', iClock)
  /\ QuotaInv(iCount', iPassed', iRefused')
  /\ IsReporter(iReporter')
  /\ Reports(iReporter') = Reports(iReporter) + (IF new.at \in Answered THEN 1 ELSE 0)
                                              - (IF iReq[r].at \in Answered THEN 1 ELSE 0)

LEMMA RequestStepKeepsInv ==
  ASSUME InjectionInv, NEW r \in InjRequests, NEW new, RequestStep(r, new)
  PROVE  InjectionInv'
<1>1. iReq' = [q \in InjRequests |-> iReq'[q]] /\ \A q \in InjRequests : RequestInv(iReq'[q], iClock, iRevoked)
  BY DEF InjectionInv, RequestStep
<1>2. /\ IsFiniteSet(AnsweredRequests') /\ Cardinality(AnsweredRequests) \in Nat
      /\ Cardinality(AnsweredRequests') =
           Cardinality(AnsweredRequests) + (IF new.at \in Answered THEN 1 ELSE 0)
                                         - (IF iReq[r].at \in Answered THEN 1 ELSE 0)
  BY RecountAnswered DEF InjectionInv, RequestStep
<1>3. Reports(iReporter') = Cardinality(AnsweredRequests')
  BY <1>2 DEF InjectionInv, RequestStep
<1> QED BY <1>1, <1>2, <1>3 DEF InjectionInv, RequestStep
-----------------------------------------------------------------------------
(* The steps of a request.                                                     *)
LEMMA FreshGood ==
  ASSUME NEW at \in Answered, NEW clock, NEW revoked
  PROVE  RequestInv([FreshRequest EXCEPT !.at = at], clock, revoked) /\ [FreshRequest EXCEPT !.at = at].at = at
BY DEF Answered, FreshRequest, RequestInv, RequestFields

(* An answer to the workload: the request is done and reported.                 *)
LEMMA AnswerSteps ==
  ASSUME InjectionInv, NEW r \in InjRequests, iReq[r].at \notin Answered, Answer(r),
         iClock' = iClock, iRevoked' = iRevoked, CacheInv(iCache', iClock), QuotaInv(iCount', iPassed', iRefused')
  PROVE  InjectionInv'
<1> DEFINE new == [FreshRequest EXCEPT !.at = "done"]
<1>1. RequestInv(new, iClock, iRevoked) /\ new.at \in Answered
  BY FreshGood DEF Answered
<1>2. IsReporter(iReporter') /\ Reports(iReporter') = Reports(iReporter) + 1 /\ Reports(iReporter) \in Nat
  BY EnqueueReportCounts DEF Answer, InjectionInv, IsReporter, Reports
<1>3. iReq' = [iReq EXCEPT ![r] = new]
  BY DEF Answer, SetRequest
<1> HIDE DEF new
<1>4. RequestStep(r, new)
  BY <1>1, <1>2, <1>3 DEF RequestStep
<1> QED BY <1>4, RequestStepKeepsInv

(* A step that neither answers nor reports.                                     *)
LEMMA QuietSteps ==
  ASSUME InjectionInv, NEW r \in InjRequests, NEW new, SetRequest(r, new), RequestInv(new, iClock, iRevoked),
         new.at \in Answered <=> iReq[r].at \in Answered,
         iClock' = iClock, iRevoked' = iRevoked, iReporter' = iReporter,
         CacheInv(iCache', iClock), QuotaInv(iCount', iPassed', iRefused')
  PROVE  InjectionInv'
<1>1. Reports(iReporter) \in Nat
  BY DEF InjectionInv, IsReporter, Reports
<1>2. RequestStep(r, new)
  BY <1>1 DEF RequestStep, SetRequest, InjectionInv
<1> QED BY <1>2, RequestStepKeepsInv

LEMMA ServeRequestKeepsInv ==
  ASSUME InjectionInv, NEW r \in InjRequests, NEW k \in InjKeys, NEW headers, ServeRequest(r, k, headers)
  PROVE  InjectionInv'
<1> DEFINE new == [FreshRequest EXCEPT !.at = "locking", !.key = k, !.headers = headers]
<1>1. RequestInv(new, iClock, iRevoked) /\ new.at = "locking"
  BY DEF FreshRequest, RequestInv, RequestFields
<1>2. SetRequest(r, new) /\ iReq[r].at = "new" /\ UNCHANGED <<iClock, iRevoked, iCache, iCount, iPassed, iRefused, iReporter>>
  BY DEF ServeRequest, NotServing
<1> HIDE DEF new
<1> QED BY <1>1, <1>2, QuietSteps DEF InjectionInv, Answered

LEMMA CachedKeepsInv ==
  ASSUME InjectionInv, NEW r \in InjRequests, materialCached(r)
  PROVE  InjectionInv'
<1> DEFINE x == iReq[r]
           m == iCache[x.key]
           new == [x EXCEPT !.at = "authorised", !.material = m, !.got = iClock]
<1>1. /\ RequestInv(x, iClock, iRevoked) /\ x.at = "locking" /\ x.key \in InjKeys
      /\ m # NoMaterial /\ entryValid(m) /\ SetRequest(r, new)
      /\ UNCHANGED <<iClock, iRevoked, iCache, iCount, iPassed, iRefused, iReporter>>
  BY DEF materialCached, Cached, cacheKey, InjectionInv, RequestInv, NotServing
<1>2. IsMaterial(m, x.key, iClock)
  BY <1>1 DEF InjectionInv, CacheInv
<1>3. /\ DOMAIN new = RequestFields /\ new.at = "authorised" /\ new.key = x.key /\ new.material = m /\ new.got = iClock
  <2> HIDE DEF m, x
  <2> QED BY <1>1 DEF RequestInv, RequestFields
<1>4. InUse(new, iClock, iRevoked)
  <2>1. iClock >= iRevoked[x.key] + InjTTL => m.arrived > iRevoked[x.key]
    <3>1. iClock < m.arrived + InjTTL /\ m.arrived \in Nat
      BY <1>1, <1>2 DEF entryValid, IsMaterial
    <3>2. iRevoked[x.key] \in Nat /\ iClock \in Nat /\ InjTTL \in Nat
      BY <1>1, InjectionBounds DEF InjectionInv
    <3> HIDE DEF m, x
    <3> QED BY <3>1, <3>2
  <2>2. Expires(m) => iClock + InjMargin < m.expires
    BY <1>1 DEF entryValid, Usable
  <2> HIDE DEF m, x, new
  <2> QED BY <1>2, <1>3, <2>1, <2>2 DEF InUse, InjectionInv
<1> HIDE DEF new
<1>5. RequestInv(new, iClock, iRevoked)
  BY <1>1, <1>3, <1>4 DEF RequestInv
<1> QED BY <1>1, <1>3, <1>5, QuietSteps DEF InjectionInv, Answered

LEMMA MissingKeepsInv ==
  ASSUME InjectionInv, NEW r \in InjRequests, materialMissing(r)
  PROVE  InjectionInv'
<1> DEFINE x == iReq[r]
           new == [x EXCEPT !.at = "fetching"]
<1>1. /\ RequestInv(x, iClock, iRevoked) /\ x.at = "locking" /\ x.key \in InjKeys
      /\ iCache' = [iCache EXCEPT ![x.key] = NoMaterial] /\ SetRequest(r, new)
      /\ UNCHANGED <<iClock, iRevoked, iCount, iPassed, iRefused, iReporter>>
  BY DEF materialMissing, cacheKey, InjectionInv, RequestInv, NotServing
<1>2. RequestInv(new, iClock, iRevoked) /\ new.at = "fetching"
  <2> HIDE DEF x
  <2> QED BY <1>1 DEF RequestInv, RequestFields
<1>3. CacheInv(iCache', iClock)
  BY <1>1 DEF InjectionInv, CacheInv
<1> HIDE DEF new
<1> QED BY <1>1, <1>2, <1>3, QuietSteps DEF InjectionInv, Answered

LEMMA AuthorizesKeepsInv ==
  ASSUME InjectionInv, NEW r \in InjRequests, NEW shape, BrokerAuthorizes(r, shape)
  PROVE  InjectionInv'
<1> DEFINE x == iReq[r]
           m == [key |-> x.key, stored |-> iClock, arrived |-> iClock, shape |-> shape,
                 expires |-> IF shape.lifetime = 0 THEN 0 ELSE iClock + shape.lifetime]
           new == [x EXCEPT !.at = "answered", !.material = m]
<1>1. /\ RequestInv(x, iClock, iRevoked) /\ x.at = "fetching" /\ x.key \in InjKeys /\ SetRequest(r, new)
      /\ UNCHANGED <<iClock, iRevoked, iCache, iCount, iPassed, iRefused, iReporter>>
  BY DEF BrokerAuthorizes, InjectionInv, RequestInv, NotServing
<1>2. IsMaterial(m, x.key, iClock)
  BY DEF IsMaterial, MaterialFields, InjectionInv
<1>3. DOMAIN new = RequestFields /\ new.at = "answered" /\ new.key = x.key /\ new.material = m
  <2> HIDE DEF x, m
  <2> QED BY <1>1 DEF RequestInv, RequestFields
<1> HIDE DEF new, m
<1>4. RequestInv(new, iClock, iRevoked)
  BY <1>1, <1>2, <1>3 DEF RequestInv
<1> QED BY <1>1, <1>3, <1>4, QuietSteps DEF InjectionInv, Answered

LEMMA FailsKeepsInv ==
  ASSUME InjectionInv, NEW r \in InjRequests, FetchHeadersFails(r)
  PROVE  InjectionInv'
<1>1. /\ iReq[r].at \notin Answered /\ Answer(r) /\ UNCHANGED <<iClock, iRevoked, iCache, iCount, iPassed, iRefused>>
  BY DEF FetchHeadersFails, Answered
<1> QED BY <1>1, AnswerSteps DEF InjectionInv

LEMMA ReturnsKeepsInv ==
  ASSUME InjectionInv, NEW r \in InjRequests, FetchHeadersReturns(r)
  PROVE  InjectionInv'
<1> DEFINE x == iReq[r]
           m == [x.material EXCEPT !.stored = iClock, !.arrived = iClock]
           full == Cardinality({k \in InjKeys : iCache[k] # NoMaterial}) >= InjMaxCache
           kept == IF full THEN [k \in InjKeys |-> NoMaterial] ELSE iCache
           new == [x EXCEPT !.at = "authorised", !.material = m, !.got = iClock]
<1>1. /\ RequestInv(x, iClock, iRevoked) /\ x.at = "answered" /\ x.key \in InjKeys
      /\ UNCHANGED <<iClock, iRevoked, iCount, iPassed, iRefused>>
  BY DEF FetchHeadersReturns, InjectionInv, RequestInv
<1>2. CASE ~Usable(m)
  <2>1. Answer(r) /\ UNCHANGED iCache
    BY <1>2 DEF FetchHeadersReturns
  <2> QED BY <1>1, <2>1, AnswerSteps DEF InjectionInv, Answered
<1>3. CASE Usable(m)
  <2>1. iCache' = [kept EXCEPT ![x.key] = m] /\ SetRequest(r, new) /\ UNCHANGED iReporter
    BY <1>3 DEF FetchHeadersReturns, cacheKey
  <2>2. IsMaterial(m, x.key, iClock)
    BY <1>1 DEF RequestInv, IsMaterial, MaterialFields, InjectionInv
  <2>3. CacheInv(kept, iClock)
    BY DEF InjectionInv, CacheInv
  <2> HIDE DEF kept
  <2>4. CacheInv(iCache', iClock)
    <3> HIDE DEF m, x
    <3> QED BY <1>1, <2>1, <2>2, <2>3 DEF CacheInv
  <2>5. DOMAIN new = RequestFields /\ new.at = "authorised" /\ new.key = x.key /\ new.material = m /\ new.got = iClock
    <3> HIDE DEF x, m
    <3> QED BY <1>1 DEF RequestInv, RequestFields
  <2>6. InUse(new, iClock, iRevoked)
    <3>1. m.arrived = iClock /\ iRevoked[x.key] \in Nat /\ iClock \in Nat /\ InjTTL \in Nat \ {0}
      BY <1>1, InjectionBounds DEF InjectionInv, RequestInv, IsMaterial, MaterialFields
    <3>2. Expires(m) => iClock + InjMargin < m.expires
      BY <1>3 DEF Usable
    <3> HIDE DEF m, x, new
    <3> QED BY <2>2, <2>5, <3>1, <3>2 DEF InUse
  <2> HIDE DEF new
  <2>7. RequestInv(new, iClock, iRevoked)
    BY <1>1, <2>5, <2>6 DEF RequestInv
  <2> QED BY <1>1, <2>1, <2>4, <2>5, <2>7, QuietSteps DEF InjectionInv, Answered
<1> QED BY <1>2, <1>3

(* Counting and comparing is one step, so no count is compared twice.           *)
LEMMA QuotaKeepsInv ==
  ASSUME InjectionInv, NEW r \in InjRequests, Quota(r)
  PROVE  InjectionInv'
<1> DEFINE x == iReq[r]
           outbound == buildOutbound(x.key, x.headers, x.material.shape)
           new == [x EXCEPT !.at = "sending", !.outbound = outbound]
<1>1. /\ RequestInv(x, iClock, iRevoked) /\ x.at = "authorised" /\ UNCHANGED <<iClock, iRevoked, iCache>>
      /\ QuotaInv(iCount, iPassed, iRefused) /\ CacheInv(iCache', iClock)
  BY DEF Quota, InjectionInv
<1>2. CASE InjQuota > 0 /\ iCount + 1 > InjQuota
  <2>1. Answer(r) /\ iRefused' = TRUE /\ iPassed' = iPassed /\ iCount' = iCount + 1
    BY <1>2 DEF Quota
  <2>2. QuotaInv(iCount', iPassed', iRefused')
    BY <1>1, <1>2, <2>1, InjectionBounds DEF QuotaInv
  <2> QED BY <1>1, <2>1, <2>2, AnswerSteps DEF Answered
<1>3. CASE ~(InjQuota > 0 /\ iCount + 1 > InjQuota)
  <2>1. /\ SetRequest(r, new) /\ iPassed' = iPassed + 1 /\ UNCHANGED <<iRefused, iReporter>>
        /\ iCount' = IF InjQuota > 0 THEN iCount + 1 ELSE iCount
    BY <1>3 DEF Quota
  <2>2. QuotaInv(iCount', iPassed', iRefused')
    BY <1>1, <1>3, <2>1, InjectionBounds DEF QuotaInv
  <2>3. /\ DOMAIN new = RequestFields /\ new.at = "sending" /\ new.key = x.key /\ new.headers = x.headers
        /\ new.material = x.material /\ new.got = x.got /\ new.outbound = outbound
    <3> HIDE DEF x, outbound
    <3> QED BY <1>1 DEF RequestInv, RequestFields
  <2> HIDE DEF new
  <2>4. RequestInv(new, iClock, iRevoked)
    BY <1>1, <2>3 DEF RequestInv, InUse
  <2> QED BY <1>1, <2>1, <2>2, <2>3, <2>4, QuietSteps DEF Answered
<1> QED BY <1>2, <1>3

LEMMA RoundTripKeepsInv ==
  ASSUME InjectionInv, NEW r \in InjRequests, RoundTrip(r)
  PROVE  InjectionInv'
BY AnswerSteps DEF RoundTrip, InjectionInv, Answered

LEMMA UpgradeKeepsInv ==
  ASSUME InjectionInv, NEW r \in InjRequests, serveUpgrade(r)
  PROVE  InjectionInv'
<1> DEFINE new == [FreshRequest EXCEPT !.at = "relaying"]
<1>1. RequestInv(new, iClock, iRevoked) /\ new.at \in Answered
  BY FreshGood DEF Answered
<1>2. IsReporter(iReporter') /\ Reports(iReporter') = Reports(iReporter) + 1 /\ Reports(iReporter) \in Nat
  BY EnqueueReportCounts DEF serveUpgrade, InjectionInv, IsReporter, Reports
<1>3. /\ iReq' = [iReq EXCEPT ![r] = new] /\ iReq[r].at \notin Answered
      /\ UNCHANGED <<iClock, iRevoked, iCache, iCount, iPassed, iRefused>>
  BY DEF serveUpgrade, SetRequest, Answered
<1> HIDE DEF new
<1>4. RequestStep(r, new)
  BY <1>1, <1>2, <1>3 DEF RequestStep, InjectionInv
<1> QED BY <1>4, RequestStepKeepsInv

LEMMA RelayKeepsInv ==
  ASSUME InjectionInv, NEW r \in InjRequests, relayUpgrade(r)
  PROVE  InjectionInv'
<1> DEFINE new == [FreshRequest EXCEPT !.at = "done"]
<1>1. RequestInv(new, iClock, iRevoked) /\ new.at \in Answered
  BY FreshGood DEF Answered
<1>2. /\ SetRequest(r, new) /\ iReq[r].at \in Answered
      /\ UNCHANGED <<iClock, iRevoked, iCache, iCount, iPassed, iRefused, iReporter>>
  BY DEF relayUpgrade, NotServing, Answered
<1> HIDE DEF new
<1> QED BY <1>1, <1>2, QuietSteps DEF InjectionInv
-----------------------------------------------------------------------------
(* The reporter, the clock and the broker's policy.                            *)
LEMMA ReporterKeepsInv ==
  ASSUME InjectionInv,
         UNCHANGED <<iClock, iRevoked, iReq, iCache, iCount, iPassed, iRefused>>,
         IsReporter(iReporter'), Reports(iReporter') = Reports(iReporter)
  PROVE  InjectionInv'
<1>1. AnsweredRequests' = AnsweredRequests
  BY DEF AnsweredRequests
<1> QED BY <1>1 DEF InjectionInv

LEMMA ReporterActions ==
  ASSUME InjectionInv, ReporterTakes \/ ReporterTick \/ \E ok \in BOOLEAN : ReportRequests(ok)
  PROVE  InjectionInv'
<1>1. IsReporter(iReporter)
  BY DEF InjectionInv
<1>2. CASE ReporterTakes
  <2> DEFINE sending == iReporter.batch + 1 >= InjBatchSize
  <2>1. iReporter' = [iReporter EXCEPT !.queue = iReporter.queue - 1, !.batch = iReporter.batch + 1, !.sending = sending]
    BY <1>2 DEF ReporterTakes
  <2>2. iReporter.queue - 1 \in Nat /\ iReporter.batch + 1 \in Nat /\ sending \in BOOLEAN
    BY <1>1, <1>2 DEF ReporterTakes, IsReporter
  <2> HIDE DEF sending
  <2>3. IsReporter(iReporter')
    BY <1>1, <2>1, <2>2 DEF IsReporter
  <2>4. /\ iReporter'.queue = iReporter.queue - 1 /\ iReporter'.batch = iReporter.batch + 1
        /\ iReporter'.delivered = iReporter.delivered /\ iReporter'.dropped = iReporter.dropped
    BY <1>1, <2>1 DEF IsReporter
  <2>5. Reports(iReporter') = Reports(iReporter)
    BY <1>1, <2>4 DEF IsReporter, Reports
  <2> QED BY <1>2, <2>3, <2>5, ReporterKeepsInv DEF ReporterTakes
<1>3. CASE ReporterTick
  <2>1. IsReporter(iReporter') /\ Reports(iReporter') = Reports(iReporter)
    BY <1>1, <1>3 DEF ReporterTick, IsReporter, Reports
  <2> QED BY <1>3, <2>1, ReporterKeepsInv DEF ReporterTick
<1>4. ASSUME NEW ok \in BOOLEAN, ReportRequests(ok) PROVE InjectionInv'
  <2> DEFINE delivered == IF ok THEN iReporter.delivered + iReporter.batch ELSE iReporter.delivered
             dropped == IF ok THEN iReporter.dropped ELSE iReporter.dropped + iReporter.batch
  <2>1. iReporter' = [iReporter EXCEPT !.sending = FALSE, !.batch = 0, !.delivered = delivered, !.dropped = dropped]
    BY <1>4 DEF ReportRequests
  <2>2. /\ delivered \in Nat /\ dropped \in Nat
        /\ delivered + dropped = iReporter.delivered + iReporter.dropped + iReporter.batch
    BY <1>1 DEF IsReporter
  <2> HIDE DEF delivered, dropped
  <2>3. IsReporter(iReporter')
    BY <1>1, <2>1, <2>2 DEF IsReporter
  <2>4. /\ iReporter'.queue = iReporter.queue /\ iReporter'.batch = 0
        /\ iReporter'.delivered = delivered /\ iReporter'.dropped = dropped
    BY <1>1, <2>1 DEF IsReporter
  <2>5. Reports(iReporter') = Reports(iReporter)
    BY <1>1, <2>2, <2>4 DEF IsReporter, Reports
  <2> QED BY <1>4, <2>3, <2>5, ReporterKeepsInv DEF ReportRequests
<1> QED BY <1>2, <1>3, <1>4

LEMMA ClockKeepsInv ==
  ASSUME InjectionInv, ClockTick
  PROVE  InjectionInv'
<1>1. iClock' = iClock + 1 /\ iClock \in Nat /\ UNCHANGED <<iRevoked, iReq, iCache, iCount, iPassed, iRefused, iReporter>>
  BY DEF ClockTick, NotServing, InjectionInv
<1>2. \A m, k : IsMaterial(m, k, iClock) => IsMaterial(m, k, iClock + 1)
  BY <1>1 DEF IsMaterial
<1>3. CacheInv(iCache, iClock + 1)
  BY <1>2 DEF InjectionInv, CacheInv
<1>4. ASSUME NEW r \in InjRequests PROVE RequestInv(iReq[r], iClock + 1, iRevoked)
  <2>1. RequestInv(iReq[r], iClock, iRevoked)
    BY DEF InjectionInv
  <2>2. InUse(iReq[r], iClock, iRevoked) => InUse(iReq[r], iClock + 1, iRevoked)
    <3> SUFFICES ASSUME InUse(iReq[r], iClock, iRevoked) PROVE InUse(iReq[r], iClock + 1, iRevoked)
      OBVIOUS
    <3>1. IsMaterial(iReq[r].material, iReq[r].key, iClock + 1)
      BY <1>2 DEF InUse
    <3>2. iReq[r].got \in Nat /\ iReq[r].got <= iClock + 1
      BY <1>1 DEF InUse
    <3> QED BY <3>1, <3>2 DEF InUse
  <2> QED BY <1>2, <2>1, <2>2 DEF RequestInv
<1>5. AnsweredRequests' = AnsweredRequests
  BY <1>1 DEF AnsweredRequests
<1> QED BY <1>1, <1>3, <1>4, <1>5 DEF InjectionInv

(* A withdrawal now is not yet InjTTL old for anybody.                          *)
LEMMA RevokeKeepsInv ==
  ASSUME InjectionInv, NEW k \in InjKeys, RevokeGrant(k)
  PROVE  InjectionInv'
<1>1. /\ iRevoked' = [iRevoked EXCEPT ![k] = iClock] /\ iClock \in Nat /\ iRevoked \in [InjKeys -> Nat]
      /\ UNCHANGED <<iClock, iReq, iCache, iCount, iPassed, iRefused, iReporter>>
  BY DEF RevokeGrant, NotServing, InjectionInv
<1>2. ASSUME NEW r \in InjRequests PROVE RequestInv(iReq[r], iClock, iRevoked')
  <2>1. RequestInv(iReq[r], iClock, iRevoked)
    BY DEF InjectionInv
  <2>2. iReq[r].key \in InjKeys /\ InUse(iReq[r], iClock, iRevoked) => InUse(iReq[r], iClock, iRevoked')
    <3> SUFFICES ASSUME iReq[r].key \in InjKeys, InUse(iReq[r], iClock, iRevoked) PROVE InUse(iReq[r], iClock, iRevoked')
      OBVIOUS
    <3>1. iReq[r].key = k => ~(iReq[r].got >= iRevoked'[iReq[r].key] + InjTTL)
      BY <1>1, InjectionBounds DEF InUse
    <3>2. iReq[r].key # k => iRevoked'[iReq[r].key] = iRevoked[iReq[r].key]
      BY <1>1
    <3> QED BY <3>1, <3>2 DEF InUse
  <2> QED BY <2>1, <2>2 DEF RequestInv
<1>3. AnsweredRequests' = AnsweredRequests
  BY <1>1 DEF AnsweredRequests
<1>4. iRevoked' \in [InjKeys -> Nat]
  BY <1>1
<1> QED BY <1>1, <1>2, <1>3, <1>4 DEF InjectionInv
-----------------------------------------------------------------------------
LEMMA InitInjectionInv == InjectionInit => InjectionInv
<1> SUFFICES ASSUME InjectionInit PROVE InjectionInv
  OBVIOUS
<1>1. AnsweredRequests = {}
  BY DEF InjectionInit, AnsweredRequests, Answered, FreshRequest
<1>2. iClock \in Nat /\ iRevoked \in [InjKeys -> Nat]
  BY InjectionBounds DEF InjectionInit, BeyondHorizon
<1>3. iReq = [r \in InjRequests |-> iReq[r]] /\ \A r \in InjRequests : RequestInv(iReq[r], iClock, iRevoked)
  BY DEF InjectionInit, RequestInv, RequestFields, FreshRequest
<1>4. CacheInv(iCache, iClock) /\ QuotaInv(iCount, iPassed, iRefused)
  BY InjectionBounds DEF InjectionInit, CacheInv, QuotaInv
<1>5. IsReporter(iReporter) /\ Reports(iReporter) = 0
  BY DEF InjectionInit, IsReporter, Reports
<1> QED BY <1>1, <1>2, <1>3, <1>4, <1>5, FS_EmptySet DEF InjectionInv

LEMMA NextInjectionInv == InjectionInv /\ [InjectionNext]_injectionVars => InjectionInv'
<1>1. ASSUME InjectionInv, InjectionNext PROVE InjectionInv'
  BY <1>1, ClockKeepsInv, RevokeKeepsInv, ReporterActions, ServeRequestKeepsInv, CachedKeepsInv, MissingKeepsInv,
     AuthorizesKeepsInv, FailsKeepsInv, ReturnsKeepsInv, QuotaKeepsInv, RoundTripKeepsInv, UpgradeKeepsInv,
     RelayKeepsInv DEF InjectionNext
<1>2. ASSUME InjectionInv, UNCHANGED injectionVars PROVE InjectionInv'
  <2>1. AnsweredRequests' = AnsweredRequests
    BY <1>2 DEF AnsweredRequests, injectionVars
  <2> QED BY <1>2, <2>1 DEF InjectionInv, injectionVars
<1> QED BY <1>1, <1>2

(* The inductive invariant of the injecting route.                              *)
THEOREM InjectionInvariance == InjectionSpec => []InjectionInv
BY InitInjectionInv, NextInjectionInv, PTL DEF InjectionSpec

(* Whatever the number of concurrent requests, the quota lets exactly           *)
(* max_requests through and refuses nobody before (proxy.go:178), and every     *)
(* answered request has its report queued, sent or counted as dropped          *)
(* (reporter.go).                                                              *)
THEOREM CountsExact == InjectionSpec => []TrafficAccounted
<1>1. InjectionInv => QuotaExact
  BY InjectionBounds DEF InjectionInv, QuotaInv, QuotaExact
<1>2. InjectionInv => ReportsAccounted
  BY DEF InjectionInv, Reports, AnsweredRequests, Answered, ReportsAccounted
<1> QED BY <1>1, <1>2, InjectionInvariance, PTL DEF TrafficAccounted

(* What buildOutbound passes on of the workload's own headers.                  *)
LEMMA OutboundHeaders ==
  ASSUME NEW key, NEW headers, NEW shape,
         NEW n \in DOMAIN buildOutbound(key, headers, shape), "workload" \in buildOutbound(key, headers, shape)[n]
  PROVE  /\ ~sensitiveWorkloadHeader(n)
         /\ \/ key.upgrade /\ n \in UpgradeHeaders
            \/ n \notin shape.set \cup shape.strip /\ n \in Forwarded(headers, shape)
<1> DEFINE restored == IF key.upgrade THEN {"connection", "upgrade"} ELSE {}
<1>1. n \in restored \/ (n \notin shape.set /\ n \in Forwarded(headers, shape))
  BY DEF buildOutbound
<1>2. n \in restored => key.upgrade /\ n \in UpgradeHeaders /\ ~sensitiveWorkloadHeader(n)
  BY DEF UpgradeHeaders, sensitiveWorkloadHeader
<1>3. n \in Forwarded(headers, shape) => ~sensitiveWorkloadHeader(n) /\ n \notin shape.strip
  BY DEF Forwarded
<1> QED BY <1>1, <1>2, <1>3

(* For every key, material and pace of the clock: a withdrawn key stops being   *)
(* served once a cache entry has lived its time, material is used only in its   *)
(* own scope and not when about to expire, and the workload's credentials do    *)
(* not leave (proxy.go, broker.go).                                            *)
THEOREM MaterialStaysBounded == InjectionSpec => []MaterialBounded
<1>1. InjectionInv => RevocationTakesEffect /\ MaterialInScope
  BY DEF InjectionInv, RequestInv, InUse, IsMaterial, Authorised, RevocationTakesEffect, MaterialInScope
<1>2. InjectionInv => OutboundClean
  <2> SUFFICES ASSUME InjectionInv, NEW r \in InjRequests, iReq[r].at = "sending",
                      NEW n \in DOMAIN iReq[r].outbound, "workload" \in iReq[r].outbound[n]
               PROVE  /\ ~sensitiveWorkloadHeader(n)
                      /\ \/ iReq[r].key.upgrade /\ n \in UpgradeHeaders
                         \/ /\ n \notin iReq[r].material.shape.set \cup iReq[r].material.shape.strip
                            /\ n \in DOMAIN iReq[r].headers => iReq[r].headers[n] # "placeholder"
    BY DEF OutboundClean
  <2>1. iReq[r].outbound = buildOutbound(iReq[r].key, iReq[r].headers, iReq[r].material.shape)
    BY DEF InjectionInv, RequestInv
  <2>2. n \in Forwarded(iReq[r].headers, iReq[r].material.shape) => iReq[r].headers[n] # "placeholder"
    BY DEF Forwarded
  <2> QED BY <2>1, <2>2, OutboundHeaders
<1> QED BY <1>1, <1>2, InjectionInvariance, PTL DEF MaterialBounded

-----------------------------------------------------------------------------
(* Rendering.  The lists are made with FlattenSeq; that what it returns is a   *)
(* list over the elements of its parts needs induction, here over a set.      *)

LEMMA LeastOf ==
  ASSUME NEW B \in SUBSET Nat, B # {}
  PROVE  \E k \in B : \A m \in B : k <= m
<1>1. IsWellFoundedOn(OpToRel(<, Nat), Nat)
  BY NatLessThanWellFounded
<1>2. PICK k \in B : \A m \in B : ~(<<m, k>> \in OpToRel(<, Nat))
  BY <1>1, WFMin
<1>3. \A m \in B : ~(m < k)
  BY <1>2 DEF OpToRel
<1> QED BY <1>3

(* Induction up to n, over a set.                                            *)
LEMMA UpTo ==
  ASSUME NEW n \in Nat, NEW G, n # 0 => 1 \in G, \A k \in 1..n : k # n /\ k \in G => k + 1 \in G
  PROVE  1..n \subseteq G
<1> DEFINE Missed == {m \in Nat : m \in 1..n /\ m \notin G}
<1> SUFFICES ASSUME Missed # {} PROVE FALSE
  OBVIOUS
<1>1. Missed \in SUBSET Nat
  OBVIOUS
<1> HIDE DEF Missed
<1>2. PICK k \in Missed : \A m \in Missed : k <= m
  BY LeastOf, <1>1
<1>3. k \in 1..n /\ k \notin G /\ k # 1
  BY <1>2 DEF Missed
<1>4. k - 1 \in 1..n /\ k - 1 # n /\ k - 1 \notin Missed
  BY <1>2, <1>3
<1>5. k - 1 \in G
  BY <1>4 DEF Missed
<1> QED BY <1>3, <1>4, <1>5

(* The function that FlattenSeq defines, up to m.                            *)
Joins(seqs, f, m) ==
  f = [i \in 1..m |-> f[i]] /\ \A i \in 1..m : f[i] = IF i = 1 THEN seqs[i] ELSE f[i-1] \o seqs[i]

LEMMA JoinsExists ==
  ASSUME NEW S, NEW seqs \in Seq(Seq(S)), Len(seqs) # 0
  PROVE  \E f : Joins(seqs, f, Len(seqs))
<1>0. PICK n : n = Len(seqs)
  OBVIOUS
<1> DEFINE G == {m \in 1..n : \E f : Joins(seqs, f, m)}
<1>1. n \in Nat /\ n # 0
  BY <1>0
<1>2. 1 \in G
  <2>1. Joins(seqs, [i \in 1..1 |-> seqs[i]], 1)
    BY DEF Joins
  <2> QED BY <1>1, <2>1
<1>3. ASSUME NEW k \in 1..n, k # n, k \in G PROVE k + 1 \in G
  <2>1. PICK f : Joins(seqs, f, k)
    BY <1>3
  <2>2. PICK g : g = [i \in 1..(k + 1) |-> IF i = k + 1 THEN f[k] \o seqs[k + 1] ELSE f[i]]
    OBVIOUS
  <2>3. Joins(seqs, g, k + 1)
    <3>1. g = [i \in 1..(k + 1) |-> g[i]]
      BY <2>2
    <3>2. ASSUME NEW i \in 1..(k + 1) PROVE g[i] = IF i = 1 THEN seqs[i] ELSE g[i-1] \o seqs[i]
      <4>1. CASE i = k + 1
        <5>1. i # 1 /\ i - 1 = k /\ k # k + 1 /\ k \in 1..(k + 1) /\ k + 1 \in 1..(k + 1)
          BY <1>1, <4>1
        <5>2. g[k] = f[k] /\ g[k + 1] = f[k] \o seqs[k + 1]
          BY <2>2, <5>1
        <5> QED BY <4>1, <5>1, <5>2
      <4>2. CASE i # k + 1
        <5>1. i \in 1..k /\ g[i] = f[i]
          BY <1>1, <2>2, <4>2
        <5>2. i # 1 => i - 1 \in 1..k /\ g[i - 1] = f[i - 1]
          BY <1>1, <2>2, <4>2
        <5> QED BY <2>1, <5>1, <5>2 DEF Joins
      <4> QED BY <4>1, <4>2
    <3> QED BY <3>1, <3>2 DEF Joins
  <2> QED BY <1>1, <1>3, <2>3
<1> HIDE DEF G
<1>4. 1..n \subseteq G
  BY <1>1, <1>2, <1>3, UpTo
<1>5. n \in G
  BY <1>1, <1>4
<1> QED BY <1>0, <1>5 DEF G

(* What FlattenSeq returns is made of the elements of its parts.             *)
LEMMA Flattens ==
  ASSUME NEW S, NEW seqs \in Seq(Seq(S))
  PROVE  FlattenSeq(seqs) \in Seq(S)
<1>1. CASE Len(seqs) = 0
  BY <1>1 DEF FlattenSeq
<1>2. CASE Len(seqs) # 0
  <2>0. PICK n : n = Len(seqs)
    OBVIOUS
  <2>1. n \in Nat /\ n # 0 /\ \A i \in 1..n : seqs[i] \in Seq(S)
    BY <1>2, <2>0
  <2> DEFINE Step(f, i) == IF i = 1 THEN seqs[i] ELSE f[i-1] \o seqs[i]
             F == CHOOSE f : f = [i \in 1..Len(seqs) |-> Step(f, i)]
  <2>2. \E f : f = [i \in 1..Len(seqs) |-> Step(f, i)]
    <3>1. PICK f : Joins(seqs, f, Len(seqs))
      BY <1>2, JoinsExists
    <3>2. f = [i \in 1..Len(seqs) |-> f[i]]
      BY <3>1 DEF Joins
    <3>3. f = [i \in 1..Len(seqs) |-> Step(f, i)]
      BY <3>1, <3>2 DEF Joins
    <3> QED BY <3>3
  <2>3. F = [i \in 1..Len(seqs) |-> Step(F, i)]
    BY <2>2
  <2>4. FlattenSeq(seqs) = F[Len(seqs)]
    BY <1>2 DEF FlattenSeq
  <2> HIDE DEF F
  <2>5. PICK h : h = F
    OBVIOUS
  <2>6. FlattenSeq(seqs) = h[n] /\ \A i \in 1..n : h[i] = Step(h, i)
    BY <2>0, <2>3, <2>4, <2>5
  <2> DEFINE G == {m \in 1..n : h[m] \in Seq(S)}
  <2>7. 1 \in G
    BY <2>1, <2>6
  <2>8. ASSUME NEW k \in 1..n, k # n, k \in G PROVE k + 1 \in G
    <3>1. k + 1 \in 1..n /\ k + 1 # 1 /\ (k + 1) - 1 = k
      BY <2>1, <2>8
    <3>2. h[k + 1] = h[k] \o seqs[k + 1]
      BY <2>6, <3>1
    <3>3. h[k + 1] \in Seq(S)
      BY <2>1, <2>8, <3>1, <3>2
    <3> QED BY <3>1, <3>3
  <2> HIDE DEF G
  <2>9. 1..n \subseteq G
    BY <2>1, <2>7, <2>8, UpTo
  <2> QED BY <2>1, <2>6, <2>9 DEF G
<1> QED BY <1>1, <1>2

GoodGrants(s) ==
  /\ s.grants \in Seq(Range(s.grants))
  /\ \A g \in Range(s.grants) : DOMAIN g = GrantFields /\ g.hosts \in Seq(Hosts)

GrantsOf(s, how) == {g \in Range(s.grants) : AgentRunGrantMaterialization(g) \in how}
PairsOf(s) == {x \in GrantsOf(s, Injectable) \X Hosts : x[2] \in Range(x[1].hosts)}

LEMMA GrantsListed ==
  ASSUME NEW s, GoodGrants(s), NEW how
  PROVE  GrantsBy(s, how) \in Seq(GrantsOf(s, how))
<1>1. PICK T : T = GrantsOf(s, how)
  OBVIOUS
<1>2. PICK parts : parts = [i \in DOMAIN s.grants |->
                     IF AgentRunGrantMaterialization(s.grants[i]) \in how THEN <<s.grants[i]>> ELSE <<>>]
  OBVIOUS
<1>3. PICK n \in Nat : DOMAIN s.grants = 1..n
  BY DEF GoodGrants
<1>4. ASSUME NEW i \in 1..n PROVE parts[i] \in Seq(T)
  <2>1. s.grants[i] \in Range(s.grants)
    BY <1>3 DEF Range
  <2>2. CASE AgentRunGrantMaterialization(s.grants[i]) \in how
    <3>1. s.grants[i] \in T /\ parts[i] = <<s.grants[i]>>
      BY <1>1, <1>2, <1>3, <2>1, <2>2 DEF GrantsOf
    <3> QED BY <3>1
  <2>3. CASE AgentRunGrantMaterialization(s.grants[i]) \notin how
    BY <1>2, <1>3, <2>3
  <2> QED BY <2>2, <2>3
<1>5. parts = [i \in 1..n |-> parts[i]]
  BY <1>2, <1>3
<1>6. parts \in Seq(Seq(T))
  BY <1>3, <1>4, <1>5
<1>7. FlattenSeq(parts) \in Seq(T)
  BY <1>6, Flattens
<1> QED BY <1>1, <1>2, <1>7 DEF GrantsBy

LEMMA UpstreamsListed ==
  ASSUME NEW s, GoodGrants(s)
  PROVE  Upstreams(s) \in Seq(PairsOf(s))
<1>1. PICK T : T = PairsOf(s)
  OBVIOUS
<1>2. PICK list : list = GrantsBy(s, Injectable)
  OBVIOUS
<1>3. list \in Seq(GrantsOf(s, Injectable))
  BY <1>2, GrantsListed
<1>4. PICK n \in Nat : DOMAIN list = 1..n
  BY <1>3
<1>5. PICK parts : parts = [i \in DOMAIN list |-> [j \in DOMAIN list[i].hosts |-> <<list[i], list[i].hosts[j]>>]]
  OBVIOUS
<1>6. ASSUME NEW i \in 1..n PROVE parts[i] \in Seq(T)
  <2>1. PICK g : g = list[i]
    OBVIOUS
  <2>2. g \in GrantsOf(s, Injectable)
    BY <1>3, <1>4, <2>1
  <2>3. g.hosts \in Seq(Hosts)
    BY <2>2 DEF GrantsOf, GoodGrants
  <2>4. PICK k \in Nat : DOMAIN g.hosts = 1..k
    BY <2>3
  <2>5. parts[i] = [j \in 1..k |-> <<g, g.hosts[j]>>]
    BY <1>4, <1>5, <2>1, <2>4
  <2>6. ASSUME NEW j \in 1..k PROVE <<g, g.hosts[j]>> \in T
    <3>1. g.hosts[j] \in Hosts /\ g.hosts[j] \in Range(g.hosts)
      BY <2>3, <2>4 DEF Range
    <3> QED BY <1>1, <2>2, <3>1 DEF PairsOf
  <2> QED BY <2>5, <2>6
<1>7. parts = [i \in 1..n |-> parts[i]]
  BY <1>4, <1>5
<1>8. parts \in Seq(Seq(T))
  BY <1>6, <1>7
<1>9. FlattenSeq(parts) \in Seq(T)
  BY <1>8, Flattens
<1> QED BY <1>1, <1>2, <1>5, <1>9 DEF Upstreams

LEMMA InjectsListed ==
  ASSUME NEW s, GoodGrants(s), NEW I, I = forwardProxyInjects(s)
  PROVE  /\ I = [k \in DOMAIN I |-> I[k]] /\ DOMAIN I = DOMAIN Upstreams(s)
         /\ \E n \in Nat : DOMAIN I = 1..n
         /\ \A k \in DOMAIN I :
              /\ \E g \in GrantsOf(s, Injectable) : \E h \in Range(g.hosts) :
                   h \in Hosts /\ I[k].host = h.name /\ I[k].upstream = h
              /\ \A j \in DOMAIN I : j # k /\ Lower(I[j].host) = Lower(I[k].host) => I[k].hint
<1>1. PICK U : U = Upstreams(s)
  OBVIOUS
<1>2. U \in Seq(PairsOf(s))
  BY <1>1, UpstreamsListed
<1>3. PICK n \in Nat : DOMAIN U = 1..n
  BY <1>2
<1> DEFINE shared(h) == \E i, j \in DOMAIN U : i # j /\ Lower(U[i][2].name) = Lower(h.name) /\ Lower(U[j][2].name) = Lower(h.name)
           entry(k) == [host |-> U[k][2].name, capability |-> U[k][1].provider, upstream |-> U[k][2],
                        insecure |-> U[k][1].insecure, max |-> MaxRequests(U[k][1]),
                        hint |-> U[k][1].git \/ shared(U[k][2])]
<1>4. I = [k \in DOMAIN U |-> entry(k)]
  BY <1>1 DEF forwardProxyInjects
<1>5. I = [k \in DOMAIN I |-> I[k]] /\ DOMAIN I = DOMAIN U /\ \A k \in DOMAIN I : I[k] = entry(k)
  BY <1>4
<1>6. ASSUME NEW k \in DOMAIN I
      PROVE  \E g \in GrantsOf(s, Injectable) : \E h \in Range(g.hosts) : h \in Hosts /\ I[k].host = h.name /\ I[k].upstream = h
  <2>1. U[k] \in PairsOf(s)
    BY <1>2, <1>5
  <2>2. U[k][1] \in GrantsOf(s, Injectable) /\ U[k][2] \in Range(U[k][1].hosts) /\ U[k][2] \in Hosts
    BY <2>1 DEF PairsOf
  <2>3. I[k].host = U[k][2].name /\ I[k].upstream = U[k][2]
    BY <1>5
  <2> QED BY <2>2, <2>3
<1>7. ASSUME NEW k \in DOMAIN I, NEW j \in DOMAIN I, j # k, Lower(I[j].host) = Lower(I[k].host)
      PROVE  I[k].hint
  <2>1. I[k].host = U[k][2].name /\ I[j].host = U[j][2].name
    BY <1>5
  <2>2. shared(U[k][2])
    BY <1>5, <1>7, <2>1
  <2>3. I[k].hint = (U[k][1].git \/ shared(U[k][2]))
    BY <1>5
  <2> HIDE DEF shared
  <2> QED BY <2>2, <2>3
<1> QED BY <1>1, <1>3, <1>5, <1>6, <1>7

(* What an admitted spec says of the hosts its proxy is configured with.        *)
LEMMA HostsAdmitted ==
  ASSUME NEW s, GoodGrants(s), NEW e, ValidateAgentRunEgressMode(e, s), AgentRunEgressForwardProxy(s),
         NEW I, I = forwardProxyInjects(s), NEW k \in DOMAIN I
  PROVE  I[k].upstream \in Hosts /\ I[k].host = I[k].upstream.name /\ I[k].host \in HostNames \ {"ip", "url"}
<1>1. PICK g \in GrantsOf(s, Injectable), h \in Hosts : h \in Range(g.hosts) /\ I[k].host = h.name /\ I[k].upstream = h
  BY InjectsListed
<1>2. g \in Range(s.grants) /\ AgentRunGrantMaterialization(g) \in Injectable
  BY DEF GrantsOf
<1>3. GrantAdmitted(e, s, g) /\ RoutesAdmitted(s) /\ AgentRunEgressMode(s) = "mediated"
  BY <1>2 DEF ValidateAgentRunEgressMode, AgentRunEgressForwardProxy, AgentRunEgressEnforced
<1>4. h.name # "url"
  BY <1>1, <1>2, <1>3 DEF GrantAdmitted, validEgressHost, Injectable
<1>5. I[k] \in Range(I)
  BY InjectsListed DEF Range
<1>6. I[k].host # "ip"
  BY <1>3, <1>5 DEF RoutesAdmitted
<1> QED BY <1>1, <1>4, <1>6 DEF Hosts

LEMMA HintsGiven ==
  ASSUME NEW s, GoodGrants(s), NEW e, ValidateAgentRunEgressMode(e, s), AgentRunEgressForwardProxy(s),
         NEW I, I = forwardProxyInjects(s), NEW i \in DOMAIN I, NEW j \in DOMAIN I, i # j,
         normalizeProxyHost(I[i].host) = normalizeProxyHost(I[j].host)
  PROVE  I[i].hint /\ I[j].hint
<1>1. I[i].host \in HostNames \ {"ip", "url"} /\ I[j].host \in HostNames \ {"ip", "url"}
  BY HostsAdmitted
<1>2. Lower(I[i].host) = Lower(I[j].host)
  BY <1>1 DEF normalizeProxyHost, normalizeDomainName, Lower, HostNames, NoName
<1> QED BY <1>2, InjectsListed

(* The fields of the configuration that is rendered.                          *)
Rendered(c, e, s) ==
  /\ c # Missing
  /\ c.broker = IF e.tls THEN "https" ELSE "http"
  /\ c.broker = "http" => ~e.tls
  /\ c.insecureBroker <=> s.insecureBroker /\ ~brokerCADistributed(e)
  /\ c.caFile <=> brokerCADistributed(e)
  /\ c.proxied <=> AgentRunEgressForwardProxy(s)
  /\ AgentRunEgressForwardProxy(s) =>
       c.injects = forwardProxyInjects(s) /\ c.policy = s.policy /\ c.tunnels = s.tunnels /\ DOMAIN c.routes = {}
  /\ ~AgentRunEgressForwardProxy(s) => c.injects = <<>> /\ DOMAIN c.routes = DOMAIN headerInjectGrants(s)
  /\ \E n \in Nat : DOMAIN c.routes = 1..n
  /\ c.routes = [i \in DOMAIN c.routes |-> c.routes[i]]
  /\ \A i \in DOMAIN c.routes :
       /\ c.routes[i].port = RouteBasePort + i - 1
       /\ c.routes[i].capability = headerInjectGrants(s)[i].provider
       /\ c.routes[i].upstream = headerInjectGrants(s)[i].hosts[1]
       /\ c.routes[i].tls <=> AgentRunEgressEnforced(s) \/ headerInjectGrants(s)[i].git
  /\ c.ca = IF AgentRunEgressEnforced(s) THEN "durable"
            ELSE IF \E i \in DOMAIN c.routes : c.routes[i].tls THEN "published" ELSE "none"

LEMMA ConfigOf ==
  ASSUME NEW s, GoodGrants(s), NEW e, NEW c, c = RenderEgressdConfigJSON(e, s)
  PROVE  Rendered(c, e, s)
<1>1. PICK mine : mine = IF AgentRunEgressForwardProxy(s) THEN <<>> ELSE headerInjectGrants(s)
  OBVIOUS
<1>2. headerInjectGrants(s) \in Seq(GrantsOf(s, {"header-inject"}))
  BY GrantsListed DEF headerInjectGrants
<1>3. PICK n \in Nat : DOMAIN mine = 1..n
  BY <1>1, <1>2
<1>4. AgentRunEgressForwardProxy(s) => DOMAIN mine = {}
  BY <1>1
<1> DEFINE route(i) == [port |-> RouteBasePort + i - 1, capability |-> mine[i].provider, upstream |-> mine[i].hosts[1],
                        tls |-> AgentRunEgressEnforced(s) \/ mine[i].git, max |-> MaxRequests(mine[i])]
<1>5. PICK routes : routes = [i \in DOMAIN mine |-> route(i)]
  OBVIOUS
<1>6. c = [broker |-> IF e.tls THEN "https" ELSE "http",
           insecureBroker |-> s.insecureBroker /\ ~brokerCADistributed(e),
           caFile |-> brokerCADistributed(e),
           routes |-> routes,
           proxied |-> AgentRunEgressForwardProxy(s),
           injects |-> IF AgentRunEgressForwardProxy(s) THEN forwardProxyInjects(s) ELSE <<>>,
           policy |-> IF AgentRunEgressForwardProxy(s) THEN s.policy ELSE Missing,
           tunnels |-> IF AgentRunEgressForwardProxy(s) THEN s.tunnels ELSE 0,
           ca |-> IF AgentRunEgressEnforced(s) THEN "durable" ELSE IF \E r \in Range(routes) : r.tls THEN "published" ELSE "none"]
  BY <1>1, <1>5, Zenon DEF RenderEgressdConfigJSON
<1>7. c # Missing
  <2>1. "broker" \in DOMAIN c /\ "broker" \notin DOMAIN Missing
    BY <1>6 DEF Missing
  <2> QED BY <2>1
<1>8. c.routes = routes
  BY <1>6
<1>9. \A i \in DOMAIN routes : routes[i] = route(i)
  BY <1>5
<1>10. (\E r \in Range(routes) : r.tls) <=> \E i \in DOMAIN routes : routes[i].tls
  BY DEF Range
<1>11. c.ca = IF AgentRunEgressEnforced(s) THEN "durable" ELSE IF \E r \in Range(routes) : r.tls THEN "published" ELSE "none"
  BY <1>6
<1>12. c.broker = (IF e.tls THEN "https" ELSE "http") /\ (c.broker = "http" => ~e.tls)
  BY <1>6
<1>13. /\ c.insecureBroker <=> s.insecureBroker /\ ~brokerCADistributed(e)
       /\ c.caFile <=> brokerCADistributed(e)
       /\ c.proxied <=> AgentRunEgressForwardProxy(s)
  <2>1. c.insecureBroker = (s.insecureBroker /\ ~brokerCADistributed(e))
    BY <1>6
  <2>2. c.caFile = brokerCADistributed(e)
    BY <1>6
  <2>3. c.proxied = AgentRunEgressForwardProxy(s)
    BY <1>6
  <2> QED BY <2>1, <2>2, <2>3, Zenon
<1>14. AgentRunEgressForwardProxy(s) => c.injects = forwardProxyInjects(s) /\ c.policy = s.policy /\ c.tunnels = s.tunnels
  BY <1>6
<1>15. ~AgentRunEgressForwardProxy(s) => c.injects = <<>>
  BY <1>6
<1>16. DOMAIN routes = DOMAIN mine /\ routes = [i \in DOMAIN routes |-> routes[i]]
  BY <1>5
<1>17. \A i \in DOMAIN routes : mine = headerInjectGrants(s)
  BY <1>1, <1>4, <1>16
<1>18. \A i \in DOMAIN routes :
         /\ routes[i].port = RouteBasePort + i - 1
         /\ routes[i].capability = headerInjectGrants(s)[i].provider
         /\ routes[i].upstream = headerInjectGrants(s)[i].hosts[1]
         /\ routes[i].tls <=> AgentRunEgressEnforced(s) \/ headerInjectGrants(s)[i].git
  <2> SUFFICES ASSUME NEW i \in DOMAIN routes
               PROVE  /\ routes[i].port = RouteBasePort + i - 1
                      /\ routes[i].capability = headerInjectGrants(s)[i].provider
                      /\ routes[i].upstream = headerInjectGrants(s)[i].hosts[1]
                      /\ routes[i].tls <=> AgentRunEgressEnforced(s) \/ headerInjectGrants(s)[i].git
    OBVIOUS
  <2>1. routes[i].port = RouteBasePort + i - 1
    BY <1>9, <1>17
  <2>2. routes[i].capability = headerInjectGrants(s)[i].provider /\ routes[i].upstream = headerInjectGrants(s)[i].hosts[1]
    BY <1>9, <1>17
  <2>3. routes[i].tls = (AgentRunEgressEnforced(s) \/ headerInjectGrants(s)[i].git)
    BY <1>9, <1>17
  <2>4. routes[i].tls <=> AgentRunEgressEnforced(s) \/ headerInjectGrants(s)[i].git
    BY <2>3, Zenon
  <2> QED BY <2>1, <2>2, <2>4
<1> QED BY <1>1, <1>3, <1>4, <1>7, <1>8, <1>10, <1>11, <1>12, <1>13, <1>14, <1>15, <1>16, <1>18 DEF Rendered

(* An admitted spec with canonical hosts renders to a configuration that       *)
(* egressd accepts, with the names of the run's CA.                            *)
LEMMA AdmittedAccepted ==
  ASSUME NEW s, GoodGrants(s), Canonical(s), NEW e, ValidateAgentRunEgressMode(e, s), AgentRunEgressMode(s) = "mediated",
         NEW c, c = RenderEgressdConfigJSON(e, s), NEW names,
         AgentRunEgressEnforced(s) => names = LeafNames \cup forwardProxyUpstreamHosts(s),
         NEW p, c.caFile => p.brokerCA
  PROVE  EgressdAccepts(c, names, p)
<1> DEFINE I == forwardProxyInjects(s)
           H == headerInjectGrants(s)
<1>0. Rendered(c, e, s)
  BY ConfigOf
<1>1. TransportAdmitted(e, s) /\ RoutesAdmitted(s) /\ \A g \in Range(s.grants) : GrantAdmitted(e, s, g)
  BY DEF ValidateAgentRunEgressMode
<1>2. H \in Seq(GrantsOf(s, {"header-inject"}))
  BY GrantsListed DEF headerInjectGrants
<1>3. ASSUME AgentRunEgressForwardProxy(s), NEW k \in DOMAIN I
      PROVE  /\ I[k].host \in {"api", "sub"} /\ I[k].upstream.name = I[k].host /\ I[k].upstream.port # "junk"
             /\ normalizeProxyHost(I[k].host) = I[k].host /\ normalizedRouteUpstreamHost(I[k].upstream) = I[k].host
  <2>1. PICK J : J = I
    OBVIOUS
  <2>2. PICK g \in GrantsOf(s, Injectable), h \in Hosts : h \in Range(g.hosts) /\ J[k].host = h.name /\ J[k].upstream = h
    BY <1>3, <2>1, InjectsListed
  <2>3. h.name \in {"api", "sub"} /\ h.port # "junk"
    BY <2>2 DEF Canonical, GrantsOf
  <2>4. normalizeProxyHost(h.name) = h.name
    BY <2>3 DEF normalizeProxyHost, normalizeDomainName, Lower
  <2> QED BY <2>1, <2>2, <2>3, <2>4 DEF normalizedRouteUpstreamHost
<1>4. ASSUME ~AgentRunEgressForwardProxy(s), NEW k \in DOMAIN c.routes
      PROVE  validateUpstream(c.routes[k].upstream) /\ normalizedRouteUpstreamHost(c.routes[k].upstream) \in {"api", "sub"}
  <2>1. PICK g : g = H[k]
    OBVIOUS
  <2>2. DOMAIN c.routes = DOMAIN H /\ c.routes[k].upstream = g.hosts[1]
    BY <1>0, <1>4, <2>1 DEF Rendered
  <2>3. g \in GrantsOf(s, {"header-inject"})
    BY <1>2, <1>4, <2>1, <2>2
  <2>4. g \in Range(s.grants) /\ AgentRunGrantMaterialization(g) = "header-inject" /\ g.hosts \in Seq(Hosts)
    BY <2>3 DEF GrantsOf, GoodGrants
  <2>5. g.hosts # <<>>
    BY <1>1, <2>4 DEF GrantAdmitted
  <2>6. g.hosts[1] \in Range(g.hosts)
    <3>1. 1 \in DOMAIN g.hosts
      BY <2>4, <2>5
    <3> QED BY <3>1 DEF Range
  <2>7. g.hosts[1].name \in {"api", "sub"} /\ g.hosts[1].port # "junk"
    BY <2>4, <2>6 DEF Canonical
  <2>8. normalizeProxyHost(g.hosts[1].name) = g.hosts[1].name
    BY <2>7 DEF normalizeProxyHost, normalizeDomainName, Lower
  <2> QED BY <2>2, <2>7, <2>8 DEF validateUpstream, normalizedRouteUpstreamHost
<1>5. \A x \in Range(c.routes) : \E k \in DOMAIN c.routes : x = c.routes[k]
  BY DEF Range
<1>6. \A x \in Range(c.injects) : \E k \in DOMAIN c.injects : x = c.injects[k]
  BY DEF Range
<1>7. ~AgentRunEgressForwardProxy(s) => Range(c.injects) = {} /\ H # <<>>
  <2>1. Range(<<>>) = {}
    BY DEF Range
  <2> QED BY <1>0, <1>1, <2>1 DEF Rendered, RoutesAdmitted
<1>8. AgentRunEgressForwardProxy(s) => Range(c.routes) = {} /\ c.injects = I /\ AgentRunEgressEnforced(s) /\ c.ca = "durable"
  <2>1. \A f : DOMAIN f = {} => Range(f) = {}
    BY DEF Range
  <2>2. AgentRunEgressForwardProxy(s) => AgentRunEgressEnforced(s)
    BY DEF AgentRunEgressForwardProxy
  <2>3. AgentRunEgressEnforced(s) => c.ca = "durable"
    BY <1>0 DEF Rendered
  <2> QED BY <1>0, <2>1, <2>2, <2>3 DEF Rendered
<1>9. c.broker = "http" => c.insecureBroker
  <2>1. AgentRunEgressMode(s) = "mediated" => (~e.tls => s.insecureBroker)
    BY <1>1 DEF TransportAdmitted
  <2>2. c.broker = "http" => ~e.tls
    BY <1>0 DEF Rendered
  <2>3. c.insecureBroker <=> s.insecureBroker /\ ~brokerCADistributed(e)
    BY <1>0 DEF Rendered
  <2> QED BY <2>1, <2>2, <2>3 DEF brokerCADistributed
<1>10. ASSUME AgentRunEgressForwardProxy(s) PROVE ForwardProxyConfigValid(c) /\ validateForwardProxyRouteOverlap(c)
  <2>1. PICK J : J = I
    OBVIOUS
  <2>2. c.injects = J /\ Range(c.routes) = {} /\ c.policy = s.policy /\ c.tunnels = s.tunnels
    BY <1>8, <1>10, <2>1, <1>0 DEF Rendered
  <2>3. \A k \in DOMAIN J :
           /\ J[k].host \in {"api", "sub"} /\ J[k].upstream.name = J[k].host /\ J[k].upstream.port # "junk"
           /\ normalizeProxyHost(J[k].host) = J[k].host /\ normalizedRouteUpstreamHost(J[k].upstream) = J[k].host
    BY <1>3, <1>10, <2>1
  <2>4. /\ \A i, j \in DOMAIN J : i # j => <<J[i].host, J[i].capability>> # <<J[j].host, J[j].capability>>
        /\ s.policy # Missing => \A i \in Range(J) : egressDomainAllowed(s.policy, i.host)
    BY <1>1, <1>10, <2>1 DEF RoutesAdmitted
  <2>5. c.tunnels <= MaxTunnels
    BY <1>1, <2>2 DEF TransportAdmitted
  <2>6. ASSUME c.policy # Missing, NEW i \in Range(c.injects)
        PROVE  Decide(c.policy, i.host) /\ Decide(c.policy, normalizedRouteUpstreamHost(i.upstream))
    <3>1. i.host \in {"api", "sub"} /\ normalizedRouteUpstreamHost(i.upstream) = i.host
      BY <1>6, <2>2, <2>3
    <3>2. egressDomainAllowed(s.policy, i.host)
      BY <2>2, <2>4, <2>6
    <3>3. \A n : normalizeEgressDomain(n) = normalizeDomainName(n)
      BY DEF normalizeEgressDomain, normalizeDomainName
    <3>4. Decide(s.policy, i.host)
      BY <3>2, <3>3, Zenon DEF egressDomainAllowed, Decide
    <3> QED BY <2>2, <3>1, <3>4
  <2>7. ForwardProxyConfigValid(c)
    BY <2>5, <2>6 DEF ForwardProxyConfigValid
  <2>8. \A i \in Range(c.injects) : normalizeProxyHost(i.host) \notin {NoName, "ip"} /\ validateUpstream(i.upstream)
    BY <1>6, <2>2, <2>3 DEF NoName, validateUpstream
  <2>9. {normalizedRouteUpstreamHost(r.upstream) : r \in Range(c.routes)} = {}
    BY <2>2
  <2>10. \A i, j \in DOMAIN c.injects : i # j =>
           <<normalizeProxyHost(c.injects[i].host), c.injects[i].capability>>
             # <<normalizeProxyHost(c.injects[j].host), c.injects[j].capability>>
    BY <2>2, <2>3, <2>4
  <2>11. validateForwardProxyRouteOverlap(c)
    BY <2>8, <2>9, <2>10 DEF validateForwardProxyRouteOverlap
  <2> QED BY <2>7, <2>11
<1>11. ConfigValid(c)
  <2>1. c.routes # <<>> \/ c.proxied
    <3>1. CASE AgentRunEgressForwardProxy(s)
      BY <3>1, <1>0 DEF Rendered
    <3>2. CASE ~AgentRunEgressForwardProxy(s)
      <4>1. DOMAIN H # {}
        <5>1. PICK G : G = H
          OBVIOUS
        <5>2. PICK T : T = GrantsOf(s, {"header-inject"})
          OBVIOUS
        <5>3. G \in Seq(T) /\ G # <<>>
          BY <1>2, <1>7, <3>2, <5>1, <5>2
        <5>4. 1 \in DOMAIN G
          BY <5>3
        <5> QED BY <5>1, <5>4
      <4>2. DOMAIN c.routes # {}
        BY <1>0, <3>2, <4>1 DEF Rendered
      <4> QED BY <4>2
    <3> QED BY <3>1, <3>2
  <2>2. \A r \in Range(c.routes) : validateUpstream(r.upstream)
    BY <1>4, <1>5, <1>8
  <2>3. \A r \in Range(c.routes) : r.tls => c.ca # "none"
    <3>1. \A k \in DOMAIN c.routes : c.routes[k].tls => c.ca # "none"
      BY <1>0 DEF Rendered
    <3> QED BY <1>5, <3>1
  <2>4. \A r \in Range(c.routes) : normalizedRouteUpstreamHost(r.upstream) # "svc"
    BY <1>4, <1>5, <1>8
  <2>5. \A i \in Range(c.injects) : normalizeProxyHost(i.host) # "svc"
    <3>1. CASE AgentRunEgressForwardProxy(s)
      BY <1>3, <1>6, <1>8, <3>1
    <3>2. CASE ~AgentRunEgressForwardProxy(s)
      BY <1>7, <3>2
    <3> QED BY <3>1, <3>2
  <2>6. LeafNames \cap ({normalizedRouteUpstreamHost(r.upstream) : r \in Range(c.routes)}
                          \cup {normalizeProxyHost(i.host) : i \in Range(c.injects)}) = {}
    BY <2>4, <2>5 DEF LeafNames
  <2>7. c.proxied => AgentRunEgressForwardProxy(s)
    BY <1>0 DEF Rendered
  <2>8. c.proxied => ForwardProxyConfigValid(c) /\ validateForwardProxyRouteOverlap(c) /\ c.ca # "none"
    BY <1>8, <1>10, <2>7
  <2> QED BY <1>9, <2>1, <2>2, <2>3, <2>6, <2>8 DEF ConfigValid
<1>12. ASSUME c.ca = "durable" PROVE verifyDurableConstraints(c, names)
  <2>1. AgentRunEgressEnforced(s)
    BY <1>12, <1>0 DEF Rendered
  <2>2. names = LeafNames \cup forwardProxyUpstreamHosts(s)
    BY <2>1
  <2>3. ForwardProxyUpstreamLeafNames(c) = forwardProxyUpstreamHosts(s)
    <3>1. CASE AgentRunEgressForwardProxy(s)
      <4>1. PICK J : J = I
        OBVIOUS
      <4>2. c.injects = J /\ \A k \in DOMAIN J : normalizeProxyHost(J[k].host) = J[k].host /\ J[k].host \in {"api", "sub"}
        BY <1>3, <1>8, <3>1, <4>1
      <4>3. \A i \in Range(J) : normalizeProxyHost(i.host) = i.host /\ i.host # NoName
        BY <4>2 DEF Range, NoName
      <4>4. {normalizeProxyHost(i.host) : i \in Range(J)} \ {NoName} = {i.host : i \in Range(J)}
        BY <4>3
      <4> QED BY <3>1, <4>1, <4>2, <4>4 DEF ForwardProxyUpstreamLeafNames, forwardProxyUpstreamHosts
    <3>2. CASE ~AgentRunEgressForwardProxy(s)
      BY <1>7, <3>2 DEF ForwardProxyUpstreamLeafNames, forwardProxyUpstreamHosts
    <3> QED BY <3>1, <3>2
  <2> QED BY <2>2, <2>3 DEF verifyDurableConstraints
<1> QED BY <1>11, <1>12 DEF EgressdAccepts

(* Every renderer counts the routes alike: the URLs in the agent's              *)
(* configuration lead to the listeners of egressd's, whatever the environments *)
(* were in which the two were rendered.                                        *)
LEMMA URLsLead ==
  ASSUME NEW s, GoodGrants(s), NEW c, NEW e, c = RenderEgressdConfigJSON(e, s), AgentRunEgressMode(s) = "mediated",
         NEW a, a = InjectMediatedEgressConfig(s), NEW g \in Range(a.grants), g.url # Missing
  PROVE  \E r \in Range(c.routes) :
           /\ r.port = g.url.port /\ r.capability = g.provider
           /\ r.tls <=> g.url.scheme = "https"
           /\ r.tls => AgentEgressCA(s) # "none" /\ (AgentEgressCA(s) = "published" <=> c.ca = "published")
<1>0. Rendered(c, e, s)
  BY ConfigOf
<1>1. PICK H, P : H = headerInjectGrants(s) /\ P = GrantsBy(s, {"placeholder-file"})
  OBVIOUS
<1>2. PICK T, U : T = GrantsOf(s, {"header-inject"}) /\ U = GrantsOf(s, {"placeholder-file"})
  OBVIOUS
<1>3. H \in Seq(T) /\ P \in Seq(U)
  BY <1>1, <1>2, GrantsListed DEF headerInjectGrants
<1>4. PICK n \in Nat, m \in Nat : DOMAIN H = 1..n /\ DOMAIN P = 1..m
  BY <1>3
<1> DEFINE url(i) == [scheme |-> IF AgentRunEgressEnforced(s) \/ H[i].git THEN "https" ELSE "http",
                      at |-> IF AgentRunEgressEnforced(s) THEN "service" ELSE "loopback",
                      port |-> RouteBasePort + i - 1]
           route(i) == [provider |-> H[i].provider, url |-> IF AgentRunEgressForwardProxy(s) THEN Missing ELSE url(i)]
           bare(i) == [provider |-> P[i].provider, url |-> Missing]
<1>5. PICK R, B : R = [i \in DOMAIN H |-> route(i)] /\ B = [i \in DOMAIN P |-> bare(i)]
  OBVIOUS
<1>6. a.grants = R \o B
  BY <1>1, <1>5 DEF InjectMediatedEgressConfig
<1>7. PICK x, y : x = {route(i) : i \in 1..n} /\ y = {bare(i) : i \in 1..m}
  OBVIOUS
<1>8. R \in Seq(x \cup y) /\ B \in Seq(x \cup y) /\ Len(R) = n /\ Len(B) = m
  <2>1. R \in [1..n -> x \cup y] /\ B \in [1..m -> x \cup y]
    BY <1>4, <1>5, <1>7
  <2> QED BY <2>1
<1>9. PICK k \in DOMAIN (R \o B) : g = (R \o B)[k]
  BY <1>6 DEF Range
<1>10. \/ k \in 1..n /\ g = R[k]
       \/ k - n \in 1..m /\ g = B[k - n]
  BY <1>8, <1>9
<1>11. k \in 1..n /\ g = route(k) /\ ~AgentRunEgressForwardProxy(s)
  <2>1. \A i \in 1..m : B[i].url = Missing
    BY <1>4, <1>5
  <2>2. k \in 1..n /\ g = R[k]
    BY <1>10, <2>1
  <2>3. g = route(k)
    BY <1>4, <1>5, <2>2
  <2>4. g.url = IF AgentRunEgressForwardProxy(s) THEN Missing ELSE url(k)
    BY <2>3
  <2> QED BY <2>2, <2>3, <2>4
<1>12. g.provider = H[k].provider /\ g.url = url(k)
  BY <1>11
<1>13. /\ g.url.port = RouteBasePort + k - 1
       /\ g.url.scheme = "https" <=> AgentRunEgressEnforced(s) \/ H[k].git
  BY <1>12
<1>14. k \in DOMAIN c.routes
  BY <1>0, <1>1, <1>4, <1>11 DEF Rendered
<1>15. PICK r : r = c.routes[k]
  OBVIOUS
<1>16. r \in Range(c.routes) /\ r.port = g.url.port /\ r.capability = g.provider
  BY <1>0, <1>1, <1>12, <1>13, <1>14, <1>15 DEF Rendered, Range
<1>17. r.tls <=> AgentRunEgressEnforced(s) \/ H[k].git
  BY <1>0, <1>1, <1>14, <1>15 DEF Rendered
<1>18. ASSUME r.tls PROVE AgentEgressCA(s) # "none" /\ (AgentEgressCA(s) = "published" <=> c.ca = "published")
  <2>1. CASE AgentRunEgressEnforced(s)
    BY <1>0, <2>1 DEF Rendered, AgentEgressCA
  <2>2. CASE ~AgentRunEgressEnforced(s)
    <3>1. agentRunHasGitGrant(s)
      <4>1. H[k].git /\ H[k] \in Range(H)
        BY <1>4, <1>11, <1>17, <1>18, <2>2 DEF Range
      <4> QED BY <1>1, <4>1 DEF agentRunHasGitGrant
    <3>2. c.ca = "published"
      BY <1>0, <1>14, <1>15, <1>18, <2>2 DEF Rendered
    <3> QED BY <2>2, <3>1, <3>2 DEF AgentEgressCA
  <2> QED BY <2>1, <2>2
<1> QED BY <1>13, <1>16, <1>17, <1>18

(* The invariant: each object was made from the stored spec, in some             *)
(* environment in which the spec was admitted; and which objects a pass makes  *)
(* before another one.                                                        *)
ConfigMade(c, s) ==
  /\ AgentRunEgressMode(s) = "mediated"
  /\ \E e \in RenderEnvs : ValidateAgentRunEgressMode(e, s) /\ c = RenderEgressdConfigJSON(e, s)
AgentMade(a, s) == \E e \in RenderEnvs : ValidateAgentRunEgressMode(e, s) /\ a = buildDesiredAgentPod(e, s)
FenceMade(f, s) == \A ports \in {f.service, f.agent.ports, f.egressd.ports} : ports = egressdPolicyPorts(s)
PodMade(p) == \E e \in RenderEnvs : ValidateBrokerTLSConfig(e) /\ p.brokerCA = brokerCADistributed(e)

ObjectsMade(s, c, names, f, p, a) ==
  /\ c # Missing => ConfigMade(c, s)
  /\ names # {} => names = LeafNames \cup forwardProxyUpstreamHosts(s)
  /\ f # Missing => FenceMade(f, s)
  /\ p.state # "absent" => c # Missing /\ PodMade(p) /\ (AgentRunEgressEnforced(s) => f # Missing /\ names # {})
  /\ a # Missing => AgentMade(a, s) /\ (AgentRunEgressMode(s) = "mediated" => c # Missing)

NothingMade(s, c, names, f, p, a) ==
  s = Missing /\ c = Missing /\ names = {} /\ f = Missing /\ p.state = "absent" /\ a = Missing

RenderInv ==
  /\ rEnv \in RenderEnvs /\ ValidateBrokerTLSConfig(rEnv) /\ DOMAIN rEgressd = {"state", "brokerCA"}
  /\ IF rPhase = "none" THEN NothingMade(rSpec, rConfig, rCAnames, rFence, rEgressd, rAgent)
     ELSE GoodGrants(rSpec) /\ ObjectsMade(rSpec, rConfig, rCAnames, rFence, rEgressd, rAgent)

LEMMA InitRenderInv == RenderInit => RenderInv
BY DEF RenderInit, RenderInv, NothingMade

LEMMA DefaultKeepsGrants ==
  ASSUME NEW s \in RenderSpecs, NEW e
  PROVE  GoodGrants(ApplyDefaultEgressMode(e, s))
<1>1. \E x : ApplyDefaultEgressMode(e, s) \in {s, [s EXCEPT !.egress = x]}
  BY Zenon DEF ApplyDefaultEgressMode
<1>2. DOMAIN s = SpecFields /\ GoodGrants(s)
  BY RenderAssumption DEF GoodGrants
<1>3. \A x : [s EXCEPT !.egress = x].grants = s.grants
  BY <1>2 DEF SpecFields
<1>4. ApplyDefaultEgressMode(e, s).grants = s.grants
  BY <1>1, <1>3
<1> QED BY <1>2, <1>4 DEF GoodGrants

LEMMA ConfigNotMissing ==
  ASSUME NEW s, GoodGrants(s), NEW e
  PROVE  RenderEgressdConfigJSON(e, s) # Missing
BY ConfigOf DEF Rendered

LEMMA PodOf ==
  ASSUME NEW s, NEW e \in RenderEnvs, ValidateBrokerTLSConfig(e), NEW p, p = DesiredEgressdPod(e, s)
  PROVE  PodMade(p) /\ DOMAIN p = {"state", "brokerCA"} /\ p.state = "created"
<1>1. p.brokerCA = brokerCADistributed(e)
  BY DEF DesiredEgressdPod
<1> QED BY <1>1 DEF PodMade, DesiredEgressdPod

LEMMA PlainKeeps ==
  ASSUME RenderInv, RenderPlain
  PROVE  RenderInv'
<1>1. rPhase = "stored" /\ ValidateAgentRunEgressMode(rEnv, rSpec) /\ ~AgentRunEgressEnforced(rSpec) /\ rAgent = Missing
  BY DEF RenderPlain, Admitted
<1>2. /\ rEnv \in RenderEnvs /\ ValidateBrokerTLSConfig(rEnv) /\ GoodGrants(rSpec)
      /\ ObjectsMade(rSpec, rConfig, rCAnames, rFence, rEgressd, rAgent) /\ DOMAIN rEgressd = {"state", "brokerCA"}
  BY <1>1 DEF RenderInv
<1>3. UNCHANGED <<rEnv, rSpec, rCAnames, rFence, rPhase>>
  BY DEF RenderPlain
<1>4. AgentMade(rAgent', rSpec)
  BY <1>1, <1>2 DEF RenderPlain, AgentMade
<1>5. CASE AgentRunEgressMode(rSpec) = "mediated"
  <2>1. rConfig' = Config /\ rEgressd' = DesiredEgressdPod(rEnv, rSpec)
    BY <1>5 DEF RenderPlain
  <2>2. rConfig' # Missing /\ ConfigMade(rConfig', rSpec)
    <3>1. CASE Config = rConfig /\ rConfig # Missing
      BY <1>2, <2>1, <3>1 DEF ObjectsMade
    <3>2. CASE Config = RenderEgressdConfigJSON(rEnv, rSpec)
      BY <1>1, <1>2, <1>5, <2>1, <3>2, ConfigNotMissing DEF ConfigMade
    <3> QED BY <3>1, <3>2 DEF Config
  <2>3. PodMade(rEgressd') /\ DOMAIN rEgressd' = {"state", "brokerCA"}
    BY <1>2, <2>1, PodOf
  <2>4. ObjectsMade(rSpec', rConfig', rCAnames', rFence', rEgressd', rAgent')
    BY <1>1, <1>2, <1>3, <1>4, <2>2, <2>3 DEF ObjectsMade
  <2> QED BY <1>1, <1>2, <1>3, <2>3, <2>4 DEF RenderInv
<1>6. CASE AgentRunEgressMode(rSpec) # "mediated"
  <2>1. UNCHANGED <<rConfig, rEgressd>>
    BY <1>6 DEF RenderPlain
  <2>2. ObjectsMade(rSpec', rConfig', rCAnames', rFence', rEgressd', rAgent')
    BY <1>2, <1>3, <1>4, <1>6, <2>1 DEF ObjectsMade
  <2> QED BY <1>1, <1>2, <1>3, <2>1, <2>2 DEF RenderInv
<1> QED BY <1>5, <1>6

LEMMA FenceKeeps ==
  ASSUME RenderInv, RenderFence
  PROVE  RenderInv'
<1>1. rPhase = "stored" /\ AgentRunEgressEnforced(rSpec) /\ AgentRunEgressMode(rSpec) = "mediated"
  BY DEF RenderFence, Admitted, AgentRunEgressEnforced
<1>2. /\ rEnv \in RenderEnvs /\ ValidateBrokerTLSConfig(rEnv) /\ GoodGrants(rSpec)
      /\ ObjectsMade(rSpec, rConfig, rCAnames, rFence, rEgressd, rAgent) /\ DOMAIN rEgressd = {"state", "brokerCA"}
  BY <1>1 DEF RenderInv
<1>3. UNCHANGED <<rEnv, rSpec, rAgent, rPhase>> /\ rConfig' = Config
  BY DEF RenderFence
<1>4. rConfig' # Missing /\ ConfigMade(rConfig', rSpec)
  <2>1. CASE Config = rConfig /\ rConfig # Missing
    BY <1>2, <1>3, <2>1 DEF ObjectsMade
  <2>2. CASE Config = RenderEgressdConfigJSON(rEnv, rSpec) /\ (rConfig = Missing \/ rAgent = Missing)
    <3>1. rAgent = Missing
      BY <1>1, <1>2, <2>2 DEF ObjectsMade
    <3>2. ValidateAgentRunEgressMode(rEnv, rSpec)
      BY <3>1 DEF RenderFence, Admitted
    <3> QED BY <1>1, <1>2, <1>3, <2>2, <3>2, ConfigNotMissing DEF ConfigMade
  <2> QED BY <2>1, <2>2 DEF Config
<1>5. rCAnames' # {} /\ rCAnames' = LeafNames \cup forwardProxyUpstreamHosts(rSpec)
  <2>1. rCAnames' = IF rCAnames = {} THEN LeafNames \cup forwardProxyUpstreamHosts(rSpec) ELSE rCAnames
    BY DEF RenderFence
  <2>2. LeafNames # {}
    BY DEF LeafNames
  <2> QED BY <1>2, <2>1, <2>2 DEF ObjectsMade
<1>6. rFence' # Missing /\ FenceMade(rFence', rSpec)
  <2>1. rFence' = [service |-> DesiredEgressdService(rSpec), agent |-> DesiredAgentNetworkPolicy(rSpec),
                   egressd |-> DesiredEgressdNetworkPolicy(rEnv, rSpec)]
    BY DEF RenderFence
  <2>2. "service" \in DOMAIN rFence' /\ "service" \notin DOMAIN Missing
    BY <2>1 DEF Missing
  <2>3. FenceMade(rFence', rSpec)
    BY <2>1 DEF FenceMade, DesiredEgressdService, DesiredAgentNetworkPolicy, DesiredEgressdNetworkPolicy
  <2> QED BY <2>2, <2>3
<1>7. PodMade(rEgressd') /\ DOMAIN rEgressd' = {"state", "brokerCA"}
  <2>1. CASE rEgressd.state = "absent"
    BY <1>2, <2>1, PodOf DEF RenderFence
  <2>2. CASE rEgressd.state # "absent"
    BY <1>2, <2>2 DEF RenderFence, ObjectsMade
  <2> QED BY <2>1, <2>2
<1>8. ObjectsMade(rSpec', rConfig', rCAnames', rFence', rEgressd', rAgent')
  BY <1>2, <1>3, <1>4, <1>5, <1>6, <1>7 DEF ObjectsMade
<1> QED BY <1>1, <1>2, <1>3, <1>7, <1>8 DEF RenderInv

LEMMA NextRenderInv == RenderInv /\ [RenderNext]_renderVars => RenderInv'
<1> SUFFICES ASSUME RenderInv, [RenderNext]_renderVars PROVE RenderInv'
  OBVIOUS
<1>1. CASE UNCHANGED renderVars
  BY <1>1 DEF renderVars, RenderInv
<1>2. ASSUME NEW s \in RenderSpecs, RenderSubmit(s) PROVE RenderInv'
  <2>1. NothingMade(rSpec, rConfig, rCAnames, rFence, rEgressd, rAgent)
    BY <1>2 DEF RenderSubmit, RenderInv
  <2>2. UNCHANGED <<rEnv, rConfig, rCAnames, rFence, rEgressd, rAgent>> /\ rPhase' = "stored"
    BY <1>2 DEF RenderSubmit
  <2>3. GoodGrants(rSpec')
    BY <1>2, DefaultKeepsGrants DEF RenderSubmit
  <2>4. ObjectsMade(rSpec', rConfig', rCAnames', rFence', rEgressd', rAgent')
    BY <2>1, <2>2 DEF NothingMade, ObjectsMade
  <2> QED BY <2>2, <2>3, <2>4 DEF RenderInv
<1>3. ASSUME NEW e \in RenderEnvs, RenderRestart(e) PROVE RenderInv'
  BY <1>3 DEF RenderRestart, RenderInv
<1>4. CASE RenderRefuse
  BY <1>4 DEF RenderRefuse, RenderInv
<1>5. CASE RenderPlain
  BY <1>5, PlainKeeps
<1>6. CASE RenderFence
  BY <1>6, FenceKeeps
<1>7. CASE RenderAgent
  <2>1. rPhase = "stored" /\ ValidateAgentRunEgressMode(rEnv, rSpec) /\ rEgressd.state = "serving"
    BY <1>7 DEF RenderAgent, Admitted
  <2>2. rEnv \in RenderEnvs /\ GoodGrants(rSpec) /\ ObjectsMade(rSpec, rConfig, rCAnames, rFence, rEgressd, rAgent)
    BY <2>1 DEF RenderInv
  <2>3. UNCHANGED <<rEnv, rSpec, rConfig, rCAnames, rFence, rEgressd, rPhase>> /\ rAgent' = buildDesiredAgentPod(rEnv, rSpec)
    BY <1>7 DEF RenderAgent
  <2>4. AgentMade(rAgent', rSpec) /\ rConfig # Missing
    BY <2>1, <2>2, <2>3 DEF AgentMade, ObjectsMade
  <2>5. ObjectsMade(rSpec', rConfig', rCAnames', rFence', rEgressd', rAgent')
    BY <2>2, <2>3, <2>4 DEF ObjectsMade
  <2> QED BY <2>1, <2>2, <2>3, <2>5 DEF RenderInv
<1>8. CASE EgressdBoots
  <2>1. rEgressd.state # "absent" /\ UNCHANGED <<rEnv, rSpec, rConfig, rCAnames, rFence, rAgent, rPhase>>
    BY <1>8 DEF EgressdBoots
  <2>2. rPhase # "none" /\ GoodGrants(rSpec) /\ ObjectsMade(rSpec, rConfig, rCAnames, rFence, rEgressd, rAgent)
        /\ DOMAIN rEgressd = {"state", "brokerCA"}
    BY <2>1 DEF RenderInv, NothingMade
  <2>3. rEgressd'.brokerCA = rEgressd.brokerCA /\ DOMAIN rEgressd' = {"state", "brokerCA"}
    BY <1>8, <2>2 DEF EgressdBoots
  <2>4. PodMade(rEgressd')
    BY <2>1, <2>2, <2>3 DEF ObjectsMade, PodMade
  <2>5. ObjectsMade(rSpec', rConfig', rCAnames', rFence', rEgressd', rAgent')
    BY <2>1, <2>2, <2>4 DEF ObjectsMade
  <2> QED BY <2>1, <2>2, <2>3, <2>5 DEF RenderInv
<1>9. CASE EgressdLost
  <2>1. rPhase = "stored" /\ UNCHANGED <<rEnv, rSpec, rConfig, rCAnames, rFence, rAgent, rPhase>>
        /\ rEgressd'.state = "absent" /\ DOMAIN rEgressd' = {"state", "brokerCA"}
    BY <1>9 DEF EgressdLost
  <2>2. ObjectsMade(rSpec', rConfig', rCAnames', rFence', rEgressd', rAgent')
    BY <2>1 DEF RenderInv, ObjectsMade
  <2> QED BY <2>1, <2>2 DEF RenderInv
<1> QED BY <1>1, <1>2, <1>3, <1>4, <1>5, <1>6, <1>7, <1>8, <1>9 DEF RenderNext

(* What the operator renders agrees with what else it rendered: every URL of     *)
(* the agent leads to a listener of its capability that is open in the Service  *)
(* and both NetworkPolicies, an enforced run's agent has no Secret, and hosts    *)
(* that two routes answer for need a hint, for every spec, every number of       *)
(* restarts and every change of the operator's environment.                    *)
THEOREM RenderersAlwaysAgree == RenderSpec => []RenderersAgree
<1>1. ASSUME RenderInv PROVE RenderersAgree
  <2>1. rAgent # Missing \/ rConfig # Missing =>
          GoodGrants(rSpec) /\ ObjectsMade(rSpec, rConfig, rCAnames, rFence, rEgressd, rAgent)
    BY <1>1 DEF RenderInv, NothingMade
  <2>2. ZeroSecretAgent
    <3> SUFFICES ASSUME rAgent # Missing, AgentRunEgressEnforced(rSpec) PROVE rAgent.secrets = {} /\ ~rAgent.accountToken
      BY DEF ZeroSecretAgent
    <3>1. PICK e : ValidateAgentRunEgressMode(e, rSpec) /\ rAgent = buildDesiredAgentPod(e, rSpec)
      BY <2>1 DEF ObjectsMade, AgentMade
    <3>2. AgentRunEgressMode(rSpec) = "mediated" /\ AgentRunLiteralZeroSecret(rSpec)
      BY DEF AgentRunEgressEnforced, AgentRunLiteralZeroSecret
    <3>3. ~rSpec.runtimeAuth
      BY <3>1, <3>2 DEF ValidateAgentRunEgressMode, TransportAdmitted
    <3>4. AgentSecrets(e, rSpec) = {}
      BY <3>2, <3>3 DEF AgentSecrets
    <3>5. rAgent.secrets = AgentSecrets(e, rSpec) /\ rAgent.accountToken = ~AgentRunLiteralZeroSecret(rSpec)
      BY <3>1 DEF buildDesiredAgentPod
    <3>6. ~rAgent.accountToken
      BY <3>2, <3>5, Zenon
    <3> QED BY <3>4, <3>5, <3>6
  <2>3. SharedHostNeedsHint
    <3> SUFFICES ASSUME rConfig # Missing, NEW i \in DOMAIN rConfig.injects, NEW j \in DOMAIN rConfig.injects, i # j,
                        normalizeProxyHost(rConfig.injects[i].host) = normalizeProxyHost(rConfig.injects[j].host)
                 PROVE  rConfig.injects[i].hint /\ rConfig.injects[j].hint
      BY DEF SharedHostNeedsHint
    <3>1. PICK e : ValidateAgentRunEgressMode(e, rSpec) /\ rConfig = RenderEgressdConfigJSON(e, rSpec)
      BY <2>1 DEF ObjectsMade, ConfigMade
    <3>2. Rendered(rConfig, e, rSpec)
      BY <2>1, <3>1, ConfigOf
    <3>3. AgentRunEgressForwardProxy(rSpec) /\ rConfig.injects = forwardProxyInjects(rSpec)
      <4>1. DOMAIN <<>> = {}
        OBVIOUS
      <4> QED BY <3>2, <4>1 DEF Rendered
    <3> QED BY <2>1, <3>1, <3>3, HintsGiven
  <2>4. BaseURLsReachTheirRoute
    <3> SUFFICES ASSUME Running, rAgent.config # Missing
                 PROVE  /\ \A g \in Range(rAgent.config.grants) : g.url # Missing =>
                             \E r \in Range(rConfig.routes) :
                               /\ r.port = g.url.port /\ r.capability = g.provider
                               /\ r.tls <=> g.url.scheme = "https"
                               /\ r.tls => rAgent.egressCA # "none" /\ (rAgent.egressCA = "published" <=> rConfig.ca = "published")
                        /\ rAgent.config.proxy # Missing => rConfig.proxied
                        /\ AgentRunEgressEnforced(rSpec) =>
                             ListenPorts \subseteq rFence.service \cap rFence.agent.ports \cap rFence.egressd.ports
      BY DEF BaseURLsReachTheirRoute
    <3>1. GoodGrants(rSpec) /\ ObjectsMade(rSpec, rConfig, rCAnames, rFence, rEgressd, rAgent) /\ rEgressd.state = "serving"
      BY <2>1 DEF Running
    <3>2. PICK e : ValidateAgentRunEgressMode(e, rSpec) /\ rAgent = buildDesiredAgentPod(e, rSpec)
      BY <3>1 DEF ObjectsMade, AgentMade, Running
    <3>3. AgentRunEgressMode(rSpec) = "mediated" /\ rAgent.config = InjectMediatedEgressConfig(rSpec)
          /\ rAgent.egressCA = AgentEgressCA(rSpec)
      BY <3>2 DEF buildDesiredAgentPod
    <3>4. PICK f : rConfig = RenderEgressdConfigJSON(f, rSpec)
      BY <3>1 DEF ObjectsMade, ConfigMade
    <3>5. Rendered(rConfig, f, rSpec)
      BY <3>1, <3>4, ConfigOf
    <3>6. rAgent.config.proxy # Missing => rConfig.proxied
      <4>1. ~AgentRunEgressForwardProxy(rSpec) => InjectMediatedEgressConfig(rSpec).proxy = Missing
        BY DEF InjectMediatedEgressConfig
      <4> QED BY <3>3, <3>5, <4>1 DEF Rendered
    <3>7. ASSUME AgentRunEgressEnforced(rSpec)
          PROVE  ListenPorts \subseteq rFence.service \cap rFence.agent.ports \cap rFence.egressd.ports
      <4>1. rFence.service = egressdPolicyPorts(rSpec) /\ rFence.agent.ports = egressdPolicyPorts(rSpec)
            /\ rFence.egressd.ports = egressdPolicyPorts(rSpec)
        BY <3>1, <3>7 DEF ObjectsMade, FenceMade
      <4>2. ASSUME NEW r \in Range(rConfig.routes) PROVE r.port \in egressdPolicyPorts(rSpec)
        <5>1. PICK k \in DOMAIN rConfig.routes : r = rConfig.routes[k]
          BY DEF Range
        <5>2. r.port = RouteBasePort + k - 1 /\ k \in DOMAIN headerInjectGrants(rSpec)
          BY <3>5, <5>1 DEF Rendered
        <5> QED BY <5>2 DEF egressdPolicyPorts
      <4>3. rConfig.proxied => ForwardProxyPort \in egressdPolicyPorts(rSpec)
        BY <3>5 DEF Rendered, egressdPolicyPorts
      <4>4. ListenPorts \subseteq egressdPolicyPorts(rSpec)
        BY <4>2, <4>3 DEF ListenPorts
      <4> QED BY <4>1, <4>4
    <3>8. ASSUME NEW g \in Range(rAgent.config.grants), g.url # Missing
          PROVE  \E r \in Range(rConfig.routes) :
                    /\ r.port = g.url.port /\ r.capability = g.provider
                    /\ r.tls <=> g.url.scheme = "https"
                    /\ r.tls => rAgent.egressCA # "none" /\ (rAgent.egressCA = "published" <=> rConfig.ca = "published")
      BY <3>1, <3>3, <3>4, <3>8, URLsLead
    <3> QED BY <3>6, <3>7, <3>8
  <2> QED BY <2>2, <2>3, <2>4 DEF RenderersAgree
<1> QED BY <1>1, InitRenderInv, NextRenderInv, PTL DEF RenderSpec

(* TLS to the broker is not turned on or off while a run is rendered.            *)
TLSKept == \A e, f \in RenderEnvs : e.tls <=> f.tls

(* A spec with canonical hosts that was admitted has an egressd that boots,        *)
(* however often the operator restarts with another environment and egressd's Pod   *)
(* is lost: admission accepts nothing that egressd's Validate or LoadCA refuses.   *)
THEOREM AdmittedRunsBoot ==
  ASSUME TLSKept
  PROVE  RenderSpec => []AdmittedBoots
<1>1. RenderInit => AdmittedBoots
  BY DEF RenderInit, AdmittedBoots
<1>2. ASSUME RenderInv, AdmittedBoots, [RenderNext]_renderVars PROVE AdmittedBoots'
  <2>1. CASE EgressdBoots
    <3> SUFFICES ASSUME Canonical(rSpec) PROVE rEgressd'.state # "refused"
      BY <2>1 DEF EgressdBoots, AdmittedBoots
    <3>1. GoodGrants(rSpec) /\ ObjectsMade(rSpec, rConfig, rCAnames, rFence, rEgressd, rAgent) /\ rEgressd.state = "created"
          /\ DOMAIN rEgressd = {"state", "brokerCA"}
      BY <1>2, <2>1 DEF RenderInv, NothingMade, EgressdBoots
    <3>2. AgentRunEgressMode(rSpec) = "mediated"
      BY <3>1 DEF ObjectsMade, ConfigMade
    <3>3. PICK e \in RenderEnvs : ValidateAgentRunEgressMode(e, rSpec) /\ rConfig = RenderEgressdConfigJSON(e, rSpec)
      BY <3>1 DEF ObjectsMade, ConfigMade
    <3>4. PICK f \in RenderEnvs : ValidateBrokerTLSConfig(f) /\ rEgressd.brokerCA = brokerCADistributed(f)
      BY <3>1 DEF ObjectsMade, PodMade
    <3>5. rConfig.caFile <=> brokerCADistributed(e)
      BY <3>1, <3>3, ConfigOf DEF Rendered
    <3>6. brokerCADistributed(e) => brokerCADistributed(f)
      BY <3>4 DEF TLSKept, brokerCADistributed, ValidateBrokerTLSConfig
    <3>7. rConfig.caFile => rEgressd.brokerCA
      BY <3>4, <3>5, <3>6, Zenon
    <3>8. AgentRunEgressEnforced(rSpec) => rCAnames = LeafNames \cup forwardProxyUpstreamHosts(rSpec)
      BY <3>1 DEF ObjectsMade
    <3>9. EgressdAccepts(rConfig, rCAnames, rEgressd)
      BY <3>1, <3>2, <3>3, <3>7, <3>8, AdmittedAccepted
    <3> QED BY <2>1, <3>1, <3>9 DEF EgressdBoots
  <2>2. CASE ~EgressdBoots /\ rEgressd' # rEgressd
    BY <1>2, <2>2 DEF RenderNext, renderVars, RenderSubmit, RenderRestart, RenderRefuse, RenderPlain, RenderFence, RenderAgent,
                       EgressdLost, DesiredEgressdPod, AdmittedBoots
  <2>3. CASE rEgressd' = rEgressd
    <3>1. rPhase # "none" => rSpec' = rSpec
      BY <1>2 DEF RenderNext, renderVars, RenderSubmit, RenderRestart, RenderRefuse, RenderPlain, RenderFence, RenderAgent,
                  EgressdBoots, EgressdLost
    <3>2. rPhase = "none" => rEgressd.state = "absent"
      BY <1>2 DEF RenderInv, NothingMade
    <3>3. rPhase # "none" => AdmittedBoots'
      BY <1>2, <2>3, <3>1 DEF AdmittedBoots, Canonical
    <3> QED BY <2>3, <3>2, <3>3 DEF AdmittedBoots
  <2> QED BY <2>1, <2>2, <2>3
<1> QED BY <1>1, <1>2, InitRenderInv, NextRenderInv, PTL DEF RenderSpec
=============================================================================
