--------------------------- MODULE ClaimEnrichment ---------------------------
(* Claim enrichment (protocol/eligibility/enrichment.go), which the gateway    *)
(* and the credential portal run on every login: each configured source is    *)
(* asked with the user's access token, page by page if it is paginated, and   *)
(* the answers become claims that admission and authorization decide on.      *)
(* The sources answer anything: other hosts, loops, secrets, huge pages.      *)
EXTENDS Naturals, Sequences, FiniteSets

CONSTANTS
  EnrConfigs,   \* configurations, valid or not
  EnrClaims,    \* authenticated claims: functions from names to values
  EnrPages,     \* answers of a source
  EnrMaxItems,  \* limits: maxArrayItems
  EnrMaxBytes,  \* limits: maxResponseBytes
  EnrMaxNodes   \* limits: maxTotalNodes

ASSUME EnrichmentBounds == {EnrMaxItems, EnrMaxBytes, EnrMaxNodes} \subseteq Nat

URLType == [host : STRING, port : Nat, path : STRING, query : STRING, safe : BOOLEAN]
SourceType == [endpoint : URLType, claim : STRING, valuePath : STRING, maxPages : Nat]

ASSUME EnrichmentInputs ==
  /\ \A c \in EnrConfigs : c.sources \in Seq(SourceType)
  /\ \A page \in EnrPages : page.items \in Seq(STRING) /\ page.bytes \in Nat

VARIABLES
  eConf,
  eFetch,   \* where the enrichment is
  eClaims,  \* the enriched claims
  eAsked,   \* history: the token was sent there, for which source
  eChain    \* history: what the sources served, and whether there was more

enrichVars == <<eConf, eFetch, eClaims, eAsked, eChain>>

Sensitive == {"secret", "token"}
NowhereURL == [host |-> "none", port |-> 0, path |-> "none", query |-> "none", safe |-> FALSE]
NoFetch == [at |-> "idle", index |-> 0, page |-> 0, url |-> NowhereURL, visited |-> {}, combined |-> <<>>, bytes |-> 0, nodes |-> 0]
Source == eConf.sources[eFetch.index]

-----------------------------------------------------------------------------
(* Configuration.                                                             *)

EnrichmentValid(c) ==
  /\ \A i \in 1..Len(c.sources) :
       LET s == c.sources[i] IN
       /\ s.endpoint.safe /\ s.endpoint.query = "none" /\ s.endpoint.host \in c.allowedHosts
       /\ s.claim \notin Sensitive /\ s.valuePath \notin Sensitive
       /\ \A j \in 1..Len(c.sources) : s.claim = c.sources[j].claim => i = j
       /\ s.maxPages > 1 => s.valuePath = "$"

EnrichmentInit ==
  /\ eConf \in {c \in EnrConfigs : EnrichmentValid(c)}
  /\ eFetch = NoFetch /\ eClaims \in EnrClaims /\ eAsked = {}
  /\ eChain = [i \in 1..Len(eConf.sources) |-> [items |-> <<>>, more |-> FALSE, bytes |-> 0]]

EnrichFails == eFetch' = [NoFetch EXCEPT !.at = "failed"]

\* The next source, or the end; a source never overwrites an authenticated claim.
EnrichNext(index, claims) ==
  /\ eClaims' = claims
  /\ IF index > Len(eConf.sources) THEN eFetch' = [NoFetch EXCEPT !.at = "done"]
     ELSE IF eConf.sources[index].claim \in DOMAIN claims THEN EnrichFails
     ELSE eFetch' = [NoFetch EXCEPT !.at = "asking", !.index = index, !.page = 1, !.url = eConf.sources[index].endpoint,
                                    !.visited = {eConf.sources[index].endpoint}, !.bytes = EnrMaxBytes]

Enrich ==
  /\ eFetch.at = "idle" /\ EnrichNext(1, eClaims)
  /\ UNCHANGED <<eConf, eAsked, eChain>>

-----------------------------------------------------------------------------
(* One page.                                                                  *)

\* The token leaves with the request.
SendRequest ==
  /\ eFetch.at = "asking"
  /\ eFetch' = [eFetch EXCEPT !.at = "waiting"]
  /\ eAsked' = eAsked \cup {[url |-> eFetch.url, index |-> eFetch.index]}
  /\ UNCHANGED <<eConf, eClaims, eChain>>

containsSensitiveData(items) == \E i \in 1..Len(items) : items[i] \in Sensitive

\* BUG: the page is allowed the whole budget.
PageDecodes_PerPage(page) ==
  page.status = "ok" /\ page.bytes <= EnrMaxBytes /\ page.nodes <= EnrMaxNodes

\* Status, redirects, size and shape; the budget is that of all pages together.
PageDecodes(page) ==
  page.status = "ok" /\ page.bytes <= eFetch.bytes /\ eFetch.nodes + page.nodes <= EnrMaxNodes

\* BUG: a link may lead anywhere that is HTTPS.
safePaginationURL_Anywhere(candidate, original) == candidate.safe

\* Only the query may differ from the configured endpoint.
safePaginationURL(candidate, original) ==
  candidate.safe /\ candidate.host = original.host /\ candidate.port = original.port /\ candidate.path = original.path

\* Nothing, one safe link, or an error.
nextLinkValid(page) == Cardinality(page.links) <= 1 /\ \A l \in page.links : safePaginationURL(l, Source.endpoint)

\* BUG: the last allowed page ends the list.
pageEndsClaim_AtLimit(page) == page.links = {} \/ eFetch.page = Source.maxPages

pageEndsClaim(page) == page.links = {}

ClaimsWith(value) == [n \in DOMAIN eClaims \cup {Source.claim} |-> IF n = Source.claim THEN value ELSE eClaims[n]]

\* The page is taken, and either the claim is complete or the next page asked.
TakePage(page) ==
  LET combined == eFetch.combined \o page.items IN
  IF ~page.array \/ containsSensitiveData(page.items) \/ Len(combined) > EnrMaxItems \/ ~nextLinkValid(page)
  THEN EnrichFails /\ UNCHANGED eClaims
  ELSE IF pageEndsClaim(page) THEN EnrichNext(eFetch.index + 1, ClaimsWith(combined))
  ELSE IF eFetch.page = Source.maxPages \/ page.links \cap eFetch.visited # {} THEN EnrichFails /\ UNCHANGED eClaims
  ELSE /\ eFetch' = [eFetch EXCEPT !.at = "asking", !.page = @ + 1, !.combined = combined, !.bytes = @ - page.bytes, !.nodes = @ + page.nodes,
                                   !.url = CHOOSE l \in page.links : TRUE, !.visited = @ \cup page.links]
       /\ UNCHANGED eClaims

\* A source without pagination: exactly one value at the configured path.
TakeValue(page) ==
  IF (Source.valuePath # "$" /\ ~page.found) \/ containsSensitiveData(page.items)
  THEN EnrichFails /\ UNCHANGED eClaims
  ELSE EnrichNext(eFetch.index + 1, ClaimsWith(page.items))

fetchPaginatedPage(page) ==
  /\ eFetch.at = "waiting"
  /\ eChain' = [eChain EXCEPT ![eFetch.index] = [items |-> @.items \o page.items, more |-> page.links # {}, bytes |-> @.bytes + page.bytes]]
  /\ IF ~PageDecodes(page) THEN EnrichFails /\ UNCHANGED eClaims
     ELSE IF Source.maxPages > 1 THEN TakePage(page) ELSE TakeValue(page)
  /\ UNCHANGED <<eConf, eAsked>>

\* The deadline of the source passes, or nobody answers.
FetchTimesOut ==
  /\ eFetch.at = "waiting" /\ EnrichFails /\ UNCHANGED <<eConf, eClaims, eAsked, eChain>>

EnrichmentNext ==
  \/ Enrich
  \/ SendRequest
  \/ \E page \in EnrPages : fetchPaginatedPage(page)
  \/ FetchTimesOut

EnrichmentSpec == EnrichmentInit /\ [][EnrichmentNext]_enrichVars
-----------------------------------------------------------------------------
(* Properties.                                                                *)

\* The user's token goes to the configured endpoints only, whatever links the
\* answers contain: at most the query of the address changes (nextLink).
TokenStaysHome ==
  \A a \in eAsked : LET home == eConf.sources[a.index].endpoint IN
    a.url.host = home.host /\ a.url.port = home.port /\ a.url.path = home.path /\ a.url.host \in eConf.allowedHosts

\* Enrichment is all or nothing: it succeeds only when each source was read to
\* its last page, and then the claim is what all its pages held together; a
\* membership list is never cut at a limit, which would change decisions.
ClaimsWhole ==
  eFetch.at = "done" => \A i \in 1..Len(eConf.sources) :
    /\ ~(eConf.sources[i].maxPages > 1 /\ eChain[i].more)
    /\ eConf.sources[i].claim \in DOMAIN eClaims /\ eClaims[eConf.sources[i].claim] = eChain[i].items

\* The budgets are those of a source and not of a page: what becomes a claim was
\* within them together, and holds no secret and no copy of the token.
WithinBudget ==
  eFetch.at = "done" => \A i \in 1..Len(eConf.sources) :
    eChain[i].bytes <= EnrMaxBytes /\ ~containsSensitiveData(eClaims[eConf.sources[i].claim])

\* Whatever the sources answer, an enrichment sends the token nowhere else, and
\* when it succeeds its claims are complete, within the budgets and free of secrets.
EnrichmentSound == TokenStaysHome /\ ClaimsWhole /\ WithinBudget
=============================================================================
