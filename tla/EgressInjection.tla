--------------------------- MODULE EgressInjection ---------------------------
(* One injecting route of egressd (proxy.go, broker.go) and the reporter that *)
(* all routes share (reporter.go).  A request obtains header material from    *)
(* the broker or from the cache, under a mutex that is held across the fetch; *)
(* it is counted against the quota, sent, and reported through a bounded      *)
(* queue.  The clock may advance between any two steps: the broker client has *)
(* no timeout.                                                                *)
EXTENDS Naturals, FiniteSets

CONSTANTS
  InjRequests,   \* requests: one goroutine each
  InjKeys,       \* what the broker authorises: method, path and upgrade
  InjGranted,    \* the keys the broker authorises at first
  InjHeaders,    \* headers of a workload request: functions from names to values
  InjShapes,     \* header material: names replaced, appended and stripped, and
                 \* how long it lives (0: no expiry)
  InjTTL,        \* maxCacheTTL
  InjMargin,     \* expiryMargin
  InjMaxCache,   \* maxCacheEntries
  InjQuota,      \* max_requests; 0: unlimited
  InjQueueSize,  \* defaultReportQueueSize
  InjBatchSize,  \* defaultReportBatchSize
  InjHorizon     \* bound on the clock

ASSUME InjectionBounds ==
  /\ {InjTTL, InjMaxCache, InjQueueSize, InjBatchSize} \subseteq Nat \ {0}
  /\ {InjMargin, InjQuota, InjHorizon} \subseteq Nat

VARIABLES
  iClock,
  iRevoked,   \* when the broker withdrew a key
  iReq,       \* the requests
  iLock,      \* the request that holds the mutex
  iCache,     \* the material cache
  iCount,     \* requestCount
  iPassed,    \* history: requests that were let through to the upstream
  iRefused,   \* history: some request was refused for the quota
  iReporter   \* the queue, the batch, what is being sent, delivered and dropped

injectionVars == <<iClock, iRevoked, iReq, iLock, iCache, iCount, iPassed, iRefused, iReporter>>

BeyondHorizon == InjHorizon + 1
NoKey == [method |-> "none", path |-> "none", upgrade |-> FALSE]
NoMaterial == [key |-> NoKey]
NoHeaders == [n \in {} |-> ""]
FreshRequest == [at |-> "new", key |-> NoKey, headers |-> NoHeaders, material |-> NoMaterial, got |-> 0, outbound |-> NoHeaders]
Unlocked == "free"

InjectionInit ==
  /\ iClock = 0
  /\ iRevoked = [k \in InjKeys |-> IF k \in InjGranted THEN BeyondHorizon ELSE 0]
  /\ iReq = [r \in InjRequests |-> FreshRequest]
  /\ iLock = Unlocked /\ iCache = [k \in InjKeys |-> NoMaterial]
  /\ iCount = 0 /\ iPassed = 0 /\ iRefused = FALSE
  /\ iReporter = [queue |-> 0, batch |-> 0, sending |-> FALSE, delivered |-> 0, dropped |-> 0]

SetRequest(r, record) == iReq' = [iReq EXCEPT ![r] = record]
NotServing == <<iCount, iPassed, iRefused, iReporter>>

\* BUG: a report that finds the queue full is not counted.
EnqueueReport_Uncounted ==
  iReporter' = IF iReporter.queue < InjQueueSize THEN [iReporter EXCEPT !.queue = @ + 1] ELSE iReporter

\* A full queue drops the report and counts it.
EnqueueReport ==
  iReporter' = IF iReporter.queue < InjQueueSize THEN [iReporter EXCEPT !.queue = @ + 1]
               ELSE [iReporter EXCEPT !.dropped = @ + 1]

Answer(r) == SetRequest(r, [FreshRequest EXCEPT !.at = "done"]) /\ EnqueueReport

-----------------------------------------------------------------------------
(* Material.                                                                  *)

Expires(material) == material.expires # 0
Usable(material) == Expires(material) => iClock + InjMargin < material.expires
entryValid(material) == iClock < material.stored + InjTTL /\ Usable(material)

\* BUG: the cache is asked without the upgrade intent.
cacheKey_NoUpgrade(k) == CHOOSE other \in InjKeys : other.method = k.method /\ other.path = k.path

\* The scope the broker authorised.
cacheKey(k) == k

ServeRequest(r, k, headers) ==
  /\ iReq[r].at = "new"
  /\ SetRequest(r, [FreshRequest EXCEPT !.at = "locking", !.key = k, !.headers = headers])
  /\ UNCHANGED <<iClock, iRevoked, iLock, iCache, NotServing>>

Cached(r) == iCache[cacheKey(iReq[r].key)]

\* BUG: a hit renews the entry.
materialCached_Sliding(r) ==
  /\ iReq[r].at = "locking" /\ iLock = Unlocked
  /\ Cached(r) # NoMaterial /\ entryValid(Cached(r))
  /\ SetRequest(r, [iReq[r] EXCEPT !.at = "authorised", !.material = Cached(r), !.got = iClock])
  /\ iCache' = [iCache EXCEPT ![cacheKey(iReq[r].key)].stored = iClock]
  /\ UNCHANGED <<iClock, iRevoked, iLock, NotServing>>

materialCached(r) ==
  /\ iReq[r].at = "locking" /\ iLock = Unlocked
  /\ Cached(r) # NoMaterial /\ entryValid(Cached(r))
  /\ SetRequest(r, [iReq[r] EXCEPT !.at = "authorised", !.material = Cached(r), !.got = iClock])
  /\ UNCHANGED <<iClock, iRevoked, iLock, iCache, NotServing>>

\* Nothing usable: a stale entry is deleted and the broker asked, the mutex held.
materialMissing(r) ==
  /\ iReq[r].at = "locking" /\ iLock = Unlocked
  /\ Cached(r) # NoMaterial => ~entryValid(Cached(r))
  /\ iCache' = [iCache EXCEPT ![cacheKey(iReq[r].key)] = NoMaterial]
  /\ iLock' = r /\ SetRequest(r, [iReq[r] EXCEPT !.at = "fetching"])
  /\ UNCHANGED <<iClock, iRevoked, NotServing>>

\* The broker decides; its answer travels.  (arrived is history: when it came.)
BrokerAuthorizes(r, shape) ==
  /\ iReq[r].at = "fetching" /\ iClock < iRevoked[iReq[r].key]
  /\ SetRequest(r, [iReq[r] EXCEPT !.at = "answered",
                    !.material = [key |-> iReq[r].key, stored |-> iClock, arrived |-> iClock, shape |-> shape,
                                  expires |-> IF shape.lifetime = 0 THEN 0 ELSE iClock + shape.lifetime]])
  /\ UNCHANGED <<iClock, iRevoked, iLock, iCache, NotServing>>

\* The broker denies, fails or does not answer; or its answer is not usable:
\* a header named both for replacement or stripping and for appending.
FetchHeadersFails(r) ==
  /\ \/ iReq[r].at = "fetching"
     \/ iReq[r].at = "answered" /\ LET shape == iReq[r].material.shape IN shape.append \cap (shape.set \cup shape.strip) # {}
  /\ Answer(r) /\ iLock' = Unlocked
  /\ UNCHANGED <<iClock, iRevoked, iCache, iCount, iPassed, iRefused>>

\* An answer that is too near its expiry is refused; any other is cached.  A
\* full cache is emptied first.
FetchHeadersReturns(r) ==
  LET material == [iReq[r].material EXCEPT !.stored = iClock, !.arrived = iClock]
      full == Cardinality({k \in InjKeys : iCache[k] # NoMaterial}) >= InjMaxCache
      kept == IF full THEN [k \in InjKeys |-> NoMaterial] ELSE iCache
  IN
  /\ iReq[r].at = "answered" /\ material.shape.append \cap (material.shape.set \cup material.shape.strip) = {}
  /\ iLock' = Unlocked
  /\ IF Usable(material)
     THEN /\ iCache' = [kept EXCEPT ![cacheKey(iReq[r].key)] = material]
          /\ SetRequest(r, [iReq[r] EXCEPT !.at = "authorised", !.material = material, !.got = iClock])
          /\ UNCHANGED iReporter
     ELSE Answer(r) /\ UNCHANGED iCache
  /\ UNCHANGED <<iClock, iRevoked, iCount, iPassed, iRefused>>

-----------------------------------------------------------------------------
(* The outbound request.                                                      *)

HopByHop == {"connection", "upgrade", "proxy-authorization"}
sensitiveWorkloadHeader(name) == name \in {"authorization", "proxy-authorization", "impersonate-user"}

\* BUG: what the material does not replace is passed on.
Forwarded_Unreplaced(headers, shape) ==
  {n \in DOMAIN headers : n \notin HopByHop \cup shape.strip /\ headers[n] # "placeholder"}

\* The workload's headers that go on.
Forwarded(headers, shape) ==
  {n \in DOMAIN headers : /\ n \notin HopByHop \cup shape.strip \cup {"host"}
                          /\ ~sensitiveWorkloadHeader(n) /\ headers[n] # "placeholder"}

\* Whose values each outbound header has.
buildOutbound(key, headers, shape) ==
  LET forwarded == Forwarded(headers, shape)
      restored == IF key.upgrade THEN {"connection", "upgrade"} ELSE {}
      names == forwarded \cup shape.set \cup shape.append \cup restored
  IN [n \in names |->
        IF n \in restored THEN {"workload"}
        ELSE IF n \in shape.set THEN {"broker"}
        ELSE (IF n \in forwarded THEN {"workload"} ELSE {}) \cup (IF n \in shape.append THEN {"broker"} ELSE {})]

-----------------------------------------------------------------------------
(* The quota and the upstream.                                                *)

\* BUG: the count is compared before it is added to.
Quota_Late(r) ==
  LET exceeded == InjQuota > 0 /\ iCount > InjQuota IN
  /\ iReq[r].at = "authorised"
  /\ iCount' = IF InjQuota > 0 THEN iCount + 1 ELSE iCount
  /\ IF exceeded THEN Answer(r) /\ iRefused' = TRUE /\ UNCHANGED iPassed
     ELSE /\ SetRequest(r, [iReq[r] EXCEPT !.at = "sending",
                            !.outbound = buildOutbound(iReq[r].key, iReq[r].headers, iReq[r].material.shape)])
          /\ iPassed' = iPassed + 1 /\ UNCHANGED <<iRefused, iReporter>>
  /\ UNCHANGED <<iClock, iRevoked, iLock, iCache>>

\* The request is built; then add and compare, one atomic step.
Quota(r) ==
  LET exceeded == InjQuota > 0 /\ iCount + 1 > InjQuota IN
  /\ iReq[r].at = "authorised"
  /\ iCount' = IF InjQuota > 0 THEN iCount + 1 ELSE iCount
  /\ IF exceeded THEN Answer(r) /\ iRefused' = TRUE /\ UNCHANGED iPassed
     ELSE /\ SetRequest(r, [iReq[r] EXCEPT !.at = "sending",
                            !.outbound = buildOutbound(iReq[r].key, iReq[r].headers, iReq[r].material.shape)])
          /\ iPassed' = iPassed + 1 /\ UNCHANGED <<iRefused, iReporter>>
  /\ UNCHANGED <<iClock, iRevoked, iLock, iCache>>

\* The upstream answers or cannot be reached.
RoundTrip(r) ==
  /\ iReq[r].at = "sending" /\ Answer(r)
  /\ UNCHANGED <<iClock, iRevoked, iLock, iCache, iCount, iPassed, iRefused>>

\* A switched connection is reported when it opens, and relayed until a side closes.
serveUpgrade(r) ==
  /\ iReq[r].at = "sending" /\ iReq[r].key.upgrade
  /\ SetRequest(r, [FreshRequest EXCEPT !.at = "relaying"]) /\ EnqueueReport
  /\ UNCHANGED <<iClock, iRevoked, iLock, iCache, iCount, iPassed, iRefused>>

relayUpgrade(r) ==
  /\ iReq[r].at = "relaying" /\ SetRequest(r, [FreshRequest EXCEPT !.at = "done"])
  /\ UNCHANGED <<iClock, iRevoked, iLock, iCache, NotServing>>

-----------------------------------------------------------------------------
(* The reporter: one goroutine.                                               *)

ReporterTakes ==
  /\ ~iReporter.sending /\ iReporter.queue > 0
  /\ iReporter' = [iReporter EXCEPT !.queue = @ - 1, !.batch = @ + 1, !.sending = iReporter.batch + 1 >= InjBatchSize]
  /\ UNCHANGED <<iClock, iRevoked, iReq, iLock, iCache, iCount, iPassed, iRefused>>

ReporterTick ==
  /\ ~iReporter.sending /\ iReporter.batch > 0 /\ iReporter' = [iReporter EXCEPT !.sending = TRUE]
  /\ UNCHANGED <<iClock, iRevoked, iReq, iLock, iCache, iCount, iPassed, iRefused>>

\* A batch that the broker does not take is dropped and counted.
ReportRequests(ok) ==
  /\ iReporter.sending
  /\ iReporter' = [iReporter EXCEPT !.sending = FALSE, !.batch = 0,
                   !.delivered = IF ok THEN @ + iReporter.batch ELSE @,
                   !.dropped = IF ok THEN @ ELSE @ + iReporter.batch]
  /\ UNCHANGED <<iClock, iRevoked, iReq, iLock, iCache, iCount, iPassed, iRefused>>

-----------------------------------------------------------------------------
(* The clock and the broker's policy.                                         *)

ClockTick ==
  /\ iClock < InjHorizon /\ iClock' = iClock + 1
  /\ UNCHANGED <<iRevoked, iReq, iLock, iCache, NotServing>>

RevokeGrant(k) ==
  /\ iRevoked[k] = BeyondHorizon /\ iRevoked' = [iRevoked EXCEPT ![k] = iClock]
  /\ UNCHANGED <<iClock, iReq, iLock, iCache, NotServing>>

InjectionNext ==
  \/ ClockTick
  \/ \E k \in InjKeys : RevokeGrant(k)
  \/ ReporterTakes
  \/ ReporterTick
  \/ \E ok \in BOOLEAN : ReportRequests(ok)
  \/ \E r \in InjRequests :
       \/ \E k \in InjKeys, headers \in InjHeaders : ServeRequest(r, k, headers)
       \/ materialCached(r)
       \/ materialMissing(r)
       \/ \E shape \in InjShapes : BrokerAuthorizes(r, shape)
       \/ FetchHeadersFails(r)
       \/ FetchHeadersReturns(r)
       \/ Quota(r)
       \/ RoundTrip(r)
       \/ serveUpgrade(r)
       \/ relayUpgrade(r)

InjectionSpec == InjectionInit /\ [][InjectionNext]_injectionVars

-----------------------------------------------------------------------------
(* Properties.                                                                *)

Authorised == {r \in InjRequests : iReq[r].at \in {"authorised", "sending"}}

\* "exactly MaxRequests authorized attempts reach upstream" (proxy.go:178): the
\* quota never lets more through, and refuses no one before it is used up.
QuotaExact ==
  InjQuota > 0 => iPassed <= InjQuota /\ (iRefused => iPassed = InjQuota)

\* The revocation bound (proxy.go:23-29): once a key has been withdrawn for
\* maxCacheTTL, no request obtains material for it, except with an answer that
\* was given before the withdrawal and was still in transit when it happened.
RevocationTakesEffect ==
  \A r \in Authorised :
    iReq[r].got >= iRevoked[iReq[r].material.key] + InjTTL =>
      iReq[r].material.arrived > iRevoked[iReq[r].material.key]

\* A request is sent only with material the broker decided for its own method,
\* path and upgrade intent, and that was not about to expire when it was obtained.
MaterialInScope ==
  \A r \in Authorised :
    /\ iReq[r].material.key = iReq[r].key
    /\ Expires(iReq[r].material) => iReq[r].got + InjMargin < iReq[r].material.expires

\* The upstream never sees a credential of the workload.  Nor does it see a
\* placeholder, or a header of the workload where the broker put or stripped one,
\* but for the two headers an upgrade is asked with: copyUpgradeHeaders puts them
\* back last, whatever the broker said of them.
UpgradeHeaders == {"connection", "upgrade"}
OutboundClean ==
  \A r \in InjRequests : iReq[r].at = "sending" =>
    \A n \in DOMAIN iReq[r].outbound : "workload" \in iReq[r].outbound[n] =>
      /\ ~sensitiveWorkloadHeader(n)
      /\ \/ iReq[r].key.upgrade /\ n \in UpgradeHeaders
         \/ /\ n \notin iReq[r].material.shape.set \cup iReq[r].material.shape.strip
            /\ n \in DOMAIN iReq[r].headers => iReq[r].headers[n] # "placeholder"

\* Every request that was answered has one report, which is queued, in a batch,
\* delivered, or counted as dropped: at the limit of the queue and when the
\* broker fails none is lost without being counted.
ReportsAccounted ==
  iReporter.queue + iReporter.batch + iReporter.delivered + iReporter.dropped
    = Cardinality({r \in InjRequests : iReq[r].at \in {"done", "relaying"}})

\* What leaves egressd: material of the request's own scope, neither withdrawn for
\* longer than a cache entry lives nor expiring, and nothing of the workload's own.
MaterialBounded == RevocationTakesEffect /\ MaterialInScope /\ OutboundClean

\* Concurrent requests are counted exactly, against the quota and in the reports.
TrafficAccounted == QuotaExact /\ ReportsAccounted
=============================================================================
