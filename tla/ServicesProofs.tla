--------------------------- MODULE ServicesProofs ---------------------------
(***************************************************************************)
(* What holds of the services that face users, for every configuration,      *)
(* every number of users, browsers, runs and pages and any length of time:   *)
(* the enrichment of claims, the gateway's sessions and proxied requests,    *)
(* and the leases the credential portal stores.  The three share no state.   *)
(***************************************************************************)
EXTENDS Gateway, ClaimEnrichment, CredentialPortal, SequenceTheorems, FiniteSetTheorems, TLAPS

-----------------------------------------------------------------------------
(* Claim enrichment.  A source is either whole, its pages and its claim being the  *)
(* same, or untouched; at most one is in between, and what has been collected of    *)
(* it is what it served so far.                                                     *)

FetchFields == {"at", "index", "page", "url", "visited", "combined", "bytes", "nodes"}
Last(conf) == Len(conf.sources)

Whole(conf, chain, claims, i) ==
  /\ ~(conf.sources[i].maxPages > 1 /\ chain[i].more)
  /\ conf.sources[i].claim \in DOMAIN claims /\ claims[conf.sources[i].claim] = chain[i].items
  /\ chain[i].bytes <= EnrMaxBytes /\ ~containsSensitiveData(chain[i].items)

Untouched(chain, i) == chain[i].items = <<>> /\ chain[i].bytes = 0

AtHome(conf, url, i) ==
  LET home == conf.sources[i].endpoint IN
  url.host = home.host /\ url.port = home.port /\ url.path = home.path /\ url.host \in conf.allowedHosts

Fetching(conf, chain, claims, f) ==
  /\ f.index \in 1..Last(conf) /\ AtHome(conf, f.url, f.index)
  /\ \A j \in 1..Last(conf) : /\ j < f.index => Whole(conf, chain, claims, j)
                              /\ j > f.index => Untouched(chain, j)
  /\ f.combined = chain[f.index].items /\ ~containsSensitiveData(f.combined)
  /\ f.bytes \in Nat /\ f.bytes + chain[f.index].bytes = EnrMaxBytes
  /\ conf.sources[f.index].maxPages <= 1 => f.combined = <<>>

FetchOK(conf, chain, claims, f) ==
  /\ DOMAIN f = FetchFields /\ f.at \in {"idle", "asking", "waiting", "failed", "done"}
  /\ f.at = "idle" => \A i \in 1..Last(conf) : Untouched(chain, i)
  /\ f.at \in {"asking", "waiting"} => Fetching(conf, chain, claims, f)
  /\ f.at = "done" => \A i \in 1..Last(conf) : Whole(conf, chain, claims, i)

ChainOK(conf, chain) ==
  /\ DOMAIN chain = 1..Last(conf)
  /\ \A i \in 1..Last(conf) : chain[i].items \in Seq(STRING) /\ chain[i].bytes \in Nat

EnrichmentInv ==
  /\ eConf \in EnrConfigs /\ EnrichmentValid(eConf)
  /\ \A a \in eAsked : AtHome(eConf, a.url, a.index)
  /\ ChainOK(eConf, eChain) /\ FetchOK(eConf, eChain, eClaims, eFetch)

LEMMA SourceFacts ==
  ASSUME NEW conf \in EnrConfigs
  PROVE  /\ Last(conf) \in Nat
         /\ \A i \in 1..Last(conf) : conf.sources[i].maxPages \in Nat
<1>1. conf.sources \in Seq(SourceType)
  BY EnrichmentInputs
<1>2. Last(conf) \in Nat /\ \A i \in 1..Last(conf) : conf.sources[i] \in SourceType
  BY <1>1 DEF Last
<1> QED BY <1>2 DEF SourceType

LEMMA FailedOK ==
  ASSUME NEW conf, NEW chain, NEW claims
  PROVE  FetchOK(conf, chain, claims, [NoFetch EXCEPT !.at = "failed"])
<1> DEFINE f == [NoFetch EXCEPT !.at = "failed"]
<1>1. DOMAIN f = FetchFields /\ f.at = "failed"
  BY DEF NoFetch, FetchFields
<1> HIDE DEF f
<1>2. FetchOK(conf, chain, claims, f)
  BY <1>1 DEF FetchOK
<1> QED BY <1>2 DEF f

(* The next source, or the end, once all before it are whole.                       *)
LEMMA NextSource ==
  ASSUME NEW conf \in EnrConfigs, EnrichmentValid(conf), NEW chain, ChainOK(conf, chain), NEW claims,
         NEW index \in Nat \ {0},
         \A j \in 1..Last(conf) : /\ j < index => Whole(conf, chain, claims, j)
                                  /\ j >= index => Untouched(chain, j),
         conf = eConf, EnrichNext(index, claims)
  PROVE  eClaims' = claims /\ FetchOK(conf, chain, claims, eFetch')
<1>1. Last(conf) \in Nat
  BY SourceFacts
<1>2. eClaims' = claims
  BY DEF EnrichNext
<1> DEFINE source == conf.sources[index]
           done == [NoFetch EXCEPT !.at = "done"]
           ask == [NoFetch EXCEPT !.at = "asking", !.index = index, !.page = 1, !.url = source.endpoint,
                                  !.visited = {source.endpoint}, !.bytes = EnrMaxBytes]
<1>3. \/ index > Last(conf) /\ eFetch' = done
      \/ eFetch' = [NoFetch EXCEPT !.at = "failed"]
      \/ index <= Last(conf) /\ eFetch' = ask
  BY <1>1 DEF EnrichNext, EnrichFails, Last
<1>4. ASSUME index > Last(conf) PROVE FetchOK(conf, chain, claims, done)
  <2>1. DOMAIN done = FetchFields /\ done.at = "done"
    BY DEF NoFetch, FetchFields
  <2> HIDE DEF done
  <2>2. \A j \in 1..Last(conf) : Whole(conf, chain, claims, j)
    BY <1>1, <1>4
  <2> QED BY <2>1, <2>2 DEF FetchOK
<1>5. ASSUME index <= Last(conf) PROVE FetchOK(conf, chain, claims, ask)
  <2>1. /\ DOMAIN ask = FetchFields /\ ask.at = "asking" /\ ask.index = index /\ ask.url = source.endpoint
        /\ ask.combined = <<>> /\ ask.bytes = EnrMaxBytes
    BY DEF NoFetch, FetchFields
  <2>2. index \in 1..Last(conf)
    BY <1>1, <1>5
  <2>3. source.endpoint.host \in conf.allowedHosts
    BY <2>2 DEF EnrichmentValid, Last
  <2>4. Untouched(chain, index)
    BY <2>2
  <2> HIDE DEF ask, source
  <2>5. AtHome(conf, ask.url, index)
    BY <2>1, <2>3 DEF AtHome, source
  <2>6. ~containsSensitiveData(<<>>)
    BY DEF containsSensitiveData
  <2>7. EnrMaxBytes \in Nat
    BY EnrichmentBounds
  <2>8. \A j \in 1..Last(conf) : j > index => Untouched(chain, j)
    OBVIOUS
  <2>9. Fetching(conf, chain, claims, ask)
    BY <2>1, <2>2, <2>4, <2>5, <2>6, <2>7, <2>8 DEF Fetching, Untouched
  <2> QED BY <2>1, <2>9 DEF FetchOK
<1> HIDE DEF done, ask
<1> QED BY <1>2, <1>3, <1>4, <1>5, FailedOK

LEMMA Concatenated ==
  ASSUME NEW s \in Seq(STRING), NEW t \in Seq(STRING)
  PROVE  /\ s \o t \in Seq(STRING)
         /\ ~containsSensitiveData(s) /\ ~containsSensitiveData(t) => ~containsSensitiveData(s \o t)
         /\ <<>> \o t = t
<1>1. s \o t \in Seq(STRING) /\ <<>> \o t = t
  OBVIOUS
<1>2. ASSUME ~containsSensitiveData(s), ~containsSensitiveData(t), NEW i \in 1..Len(s \o t), (s \o t)[i] \in Sensitive
      PROVE  FALSE
  <2>1. CASE i <= Len(s)
    BY <1>2, <2>1 DEF containsSensitiveData
  <2>2. CASE i > Len(s)
    <3>1. i - Len(s) \in 1..Len(t) /\ (s \o t)[i] = t[i - Len(s)]
      BY <2>2
    <3> QED BY <1>2, <3>1 DEF containsSensitiveData
  <2> QED BY <2>1, <2>2
<1> QED BY <1>1, <1>2 DEF containsSensitiveData

(* The claim of the source that has just been read to its end.                       *)
LEMMA ClaimTaken ==
  ASSUME EnrichmentInv, eFetch.at = "waiting", NEW chain, ChainOK(eConf, chain),
         \A j \in 1..Last(eConf) : j # eFetch.index => chain[j] = eChain[j],
         NEW value, chain[eFetch.index].items = value, ~containsSensitiveData(value),
         chain[eFetch.index].bytes <= EnrMaxBytes,
         ~(Source.maxPages > 1 /\ chain[eFetch.index].more),
         EnrichNext(eFetch.index + 1, ClaimsWith(value))
  PROVE  FetchOK(eConf, chain, eClaims', eFetch')
<1> DEFINE claims == ClaimsWith(value)
<1>1. /\ eConf \in EnrConfigs /\ EnrichmentValid(eConf) /\ eFetch.index \in 1..Last(eConf) /\ Last(eConf) \in Nat
      /\ \A j \in 1..Last(eConf) : /\ j < eFetch.index => Whole(eConf, eChain, eClaims, j)
                                   /\ j > eFetch.index => Untouched(eChain, j)
  BY SourceFacts DEF EnrichmentInv, FetchOK, Fetching
<1>2. /\ Source.claim \in DOMAIN claims /\ claims[Source.claim] = value
      /\ \A n \in DOMAIN eClaims : n # Source.claim => n \in DOMAIN claims /\ claims[n] = eClaims[n]
  BY DEF ClaimsWith
<1>3. Source = eConf.sources[eFetch.index]
  BY DEF Source
<1> HIDE DEF claims
<1>4. Whole(eConf, chain, claims, eFetch.index)
  BY <1>2, <1>3 DEF Whole
<1>5. ASSUME NEW j \in 1..Last(eConf), j < eFetch.index PROVE Whole(eConf, chain, claims, j)
  <2>1. Whole(eConf, eChain, eClaims, j) /\ chain[j] = eChain[j]
    BY <1>1, <1>5
  <2>2. eConf.sources[j].claim # Source.claim
    BY <1>1, <1>3, <1>5 DEF EnrichmentValid, Last
  <2> QED BY <1>2, <2>1, <2>2 DEF Whole
<1>6. \A j \in 1..Last(eConf) : /\ j < eFetch.index + 1 => Whole(eConf, chain, claims, j)
                                /\ j >= eFetch.index + 1 => Untouched(chain, j)
  <2>1. ASSUME NEW j \in 1..Last(eConf), j < eFetch.index + 1 PROVE Whole(eConf, chain, claims, j)
    <3>1. j < eFetch.index \/ j = eFetch.index
      BY <1>1, <2>1
    <3> QED BY <1>4, <1>5, <3>1
  <2>2. ASSUME NEW j \in 1..Last(eConf), j >= eFetch.index + 1 PROVE Untouched(chain, j)
    <3>1. j > eFetch.index /\ j # eFetch.index
      BY <1>1, <2>2
    <3> QED BY <1>1, <3>1 DEF Untouched
  <2> QED BY <2>1, <2>2
<1>7. eFetch.index + 1 \in Nat \ {0} /\ EnrichNext(eFetch.index + 1, claims)
  BY <1>1 DEF claims
<1> QED BY <1>1, <1>6, <1>7, NextSource

LEMMA PageKeeps ==
  ASSUME EnrichmentInv, NEW page \in EnrPages, fetchPaginatedPage(page)
  PROVE  EnrichmentInv'
<1> DEFINE i == eFetch.index
           more == page.links # {}
           read == [items |-> eChain[i].items \o page.items, more |-> more, bytes |-> eChain[i].bytes + page.bytes]
<1>1. /\ eConf \in EnrConfigs /\ EnrichmentValid(eConf) /\ ChainOK(eConf, eChain) /\ DOMAIN eFetch = FetchFields
      /\ Fetching(eConf, eChain, eClaims, eFetch) /\ eFetch.at = "waiting" /\ Last(eConf) \in Nat
      /\ i \in 1..Last(eConf) /\ UNCHANGED <<eConf, eAsked>> /\ eChain' = [eChain EXCEPT ![i] = read]
  BY SourceFacts DEF EnrichmentInv, FetchOK, Fetching, fetchPaginatedPage
<1>2. /\ page.items \in Seq(STRING) /\ page.bytes \in Nat
      /\ eChain[i].items \in Seq(STRING) /\ eChain[i].bytes \in Nat /\ EnrMaxBytes \in Nat
      /\ eFetch.combined = eChain[i].items /\ eFetch.bytes \in Nat /\ eFetch.bytes + eChain[i].bytes = EnrMaxBytes
      /\ ~containsSensitiveData(eFetch.combined)
  BY <1>1, EnrichmentInputs, EnrichmentBounds DEF ChainOK, Fetching
<1> HIDE DEF more
<1>3. /\ read.items = eFetch.combined \o page.items /\ read.more = more /\ read.bytes = eChain[i].bytes + page.bytes
      /\ read.items \in Seq(STRING) /\ read.bytes \in Nat
  <2>1. /\ read.items = eChain[i].items \o page.items /\ read.more = more
        /\ read.bytes = eChain[i].bytes + page.bytes
    OBVIOUS
  <2> HIDE DEF read, i
  <2>2. eChain[i].items \o page.items \in Seq(STRING)
    BY <1>2, Concatenated
  <2> QED BY <1>2, <2>1, <2>2
<1>s. Source = eConf.sources[i] /\ Source.maxPages \in Nat
  BY <1>1, SourceFacts DEF Source
<1> HIDE DEF read, i
<1>4. /\ eChain'[i] = read /\ \A j \in 1..Last(eConf) : j # i => eChain'[j] = eChain[j]
  BY <1>1 DEF ChainOK
<1>5. ChainOK(eConf, eChain')
  BY <1>1, <1>3, <1>4 DEF ChainOK
<1>6. ASSUME EnrichFails PROVE FetchOK(eConf, eChain', eClaims', eFetch')
  BY <1>6, FailedOK DEF EnrichFails
<1>7. ASSUME PageDecodes(page) PROVE read.bytes <= EnrMaxBytes /\ page.bytes <= eFetch.bytes
  BY <1>2, <1>3, <1>7 DEF PageDecodes
<1>8. ASSUME PageDecodes(page), Source.maxPages > 1, TakePage(page), ~EnrichFails
      PROVE  FetchOK(eConf, eChain', eClaims', eFetch')
  <2> DEFINE combined == eFetch.combined \o page.items
  <2>1. ~containsSensitiveData(page.items) /\ nextLinkValid(page)
    BY <1>8 DEF TakePage
  <2>2. ~containsSensitiveData(combined) /\ combined = read.items
    BY <1>2, <1>3, <2>1, Concatenated
  <2>3. CASE pageEndsClaim(page)
    <3>1. ~more
      BY <2>3 DEF pageEndsClaim, more
    <3>2. EnrichNext(eFetch.index + 1, ClaimsWith(read.items))
      BY <1>8, <2>2, <2>3 DEF TakePage
    <3> QED BY <1>1, <1>3, <1>4, <1>5, <1>7, <1>8, <2>2, <3>1, <3>2, ClaimTaken DEF i
  <2>4. CASE ~pageEndsClaim(page)
    <3> DEFINE link == CHOOSE l \in page.links : TRUE
               f == [eFetch EXCEPT !.at = "asking", !.page = @ + 1, !.combined = combined, !.bytes = @ - page.bytes,
                                   !.nodes = @ + page.nodes, !.url = link, !.visited = @ \cup page.links]
    <3>1. eFetch' = f /\ eClaims' = eClaims
      BY <1>8, <2>4 DEF TakePage
    <3>2. link \in page.links
      BY <2>4 DEF pageEndsClaim
    <3> HIDE DEF link, combined
    <3>3. /\ DOMAIN f = FetchFields /\ f.at = "asking" /\ f.index = i /\ f.combined = combined
          /\ f.bytes = eFetch.bytes - page.bytes /\ f.url = link
      BY <1>1 DEF FetchFields, i
    <3> HIDE DEF f
    <3>4. AtHome(eConf, link, i)
      <4>1. safePaginationURL(link, Source.endpoint)
        BY <2>1, <3>2 DEF nextLinkValid
      <4>2. Source.endpoint.host \in eConf.allowedHosts
        BY <1>1, <1>s DEF EnrichmentValid, Last
      <4> QED BY <1>s, <4>1, <4>2 DEF safePaginationURL, AtHome
    <3>5. \A j \in 1..Last(eConf) : /\ j < i => Whole(eConf, eChain', eClaims, j)
                                    /\ j > i => Untouched(eChain', j)
      <4>1. \A j \in 1..Last(eConf) : /\ j < i => Whole(eConf, eChain, eClaims, j)
                                      /\ j > i => Untouched(eChain, j)
        BY <1>1 DEF Fetching, i
      <4>2. \A j \in 1..Last(eConf) : j < i \/ j > i => eChain'[j] = eChain[j]
        BY <1>1, <1>4
      <4> QED BY <4>1, <4>2 DEF Whole, Untouched
    <3>6. f.bytes \in Nat /\ f.bytes + read.bytes = EnrMaxBytes
      BY <1>2, <1>3, <1>7, <1>8, <3>3
    <3>7. ~(eConf.sources[i].maxPages <= 1)
      BY <1>8, <1>s
    <3>8. Fetching(eConf, eChain', eClaims, f)
      BY <1>1, <1>4, <2>2, <3>3, <3>4, <3>5, <3>6, <3>7 DEF Fetching
    <3>9. FetchOK(eConf, eChain', eClaims, f)
      BY <3>3, <3>8 DEF FetchOK
    <3> QED BY <3>1, <3>9
  <2> QED BY <2>3, <2>4
<1>9. ASSUME PageDecodes(page), ~(Source.maxPages > 1), TakeValue(page), ~EnrichFails
      PROVE  FetchOK(eConf, eChain', eClaims', eFetch')
  <2>1. ~containsSensitiveData(page.items) /\ EnrichNext(eFetch.index + 1, ClaimsWith(page.items))
    BY <1>9 DEF TakeValue
  <2>2. eFetch.combined = <<>>
    BY <1>1, <1>9, <1>s DEF Fetching, i
  <2>3. read.items = page.items
    BY <1>2, <1>3, <2>2, Concatenated
  <2> QED BY <1>1, <1>3, <1>4, <1>5, <1>7, <1>9, <2>1, <2>3, ClaimTaken DEF i
<1>10. FetchOK(eConf, eChain', eClaims', eFetch')
  BY <1>6, <1>8, <1>9 DEF fetchPaginatedPage
<1> QED BY <1>1, <1>5, <1>10 DEF EnrichmentInv

LEMMA EnrichmentKept ==
  ASSUME EnrichmentInv, [EnrichmentNext]_enrichVars
  PROVE  EnrichmentInv'
<1>0. Last(eConf) \in Nat
  BY SourceFacts DEF EnrichmentInv
<1>1. ASSUME Enrich PROVE EnrichmentInv'
  <2>1. /\ \A j \in 1..Last(eConf) : /\ j < 1 => Whole(eConf, eChain, eClaims, j)
                                     /\ j >= 1 => Untouched(eChain, j)
    BY <1>0, <1>1 DEF Enrich, EnrichmentInv, FetchOK
  <2>2. EnrichNext(1, eClaims) /\ UNCHANGED <<eConf, eAsked, eChain>>
    BY <1>1 DEF Enrich
  <2>3. eClaims' = eClaims /\ FetchOK(eConf, eChain, eClaims, eFetch')
    BY <2>1, <2>2, NextSource DEF EnrichmentInv
  <2> QED BY <2>2, <2>3 DEF EnrichmentInv
<1>2. ASSUME SendRequest PROVE EnrichmentInv'
  <2> DEFINE f == [eFetch EXCEPT !.at = "waiting"]
  <2>1. /\ eFetch' = f /\ UNCHANGED <<eConf, eClaims, eChain>> /\ eFetch.at = "asking"
        /\ eAsked' = eAsked \cup {[url |-> eFetch.url, index |-> eFetch.index]}
    BY <1>2 DEF SendRequest
  <2>2. /\ DOMAIN f = FetchFields /\ f.at = "waiting" /\ f.index = eFetch.index /\ f.url = eFetch.url
        /\ f.combined = eFetch.combined /\ f.bytes = eFetch.bytes
    BY DEF EnrichmentInv, FetchOK, FetchFields
  <2> HIDE DEF f
  <2>3. FetchOK(eConf, eChain, eClaims, f) /\ AtHome(eConf, eFetch.url, eFetch.index)
    BY <2>1, <2>2 DEF EnrichmentInv, FetchOK, Fetching
  <2> QED BY <2>1, <2>3 DEF EnrichmentInv
<1>3. ASSUME NEW page \in EnrPages, fetchPaginatedPage(page) PROVE EnrichmentInv'
  BY <1>3, PageKeeps
<1>4. ASSUME FetchTimesOut PROVE EnrichmentInv'
  BY <1>4, FailedOK DEF FetchTimesOut, EnrichFails, EnrichmentInv
<1>5. CASE UNCHANGED enrichVars
  BY <1>5 DEF enrichVars, EnrichmentInv
<1> QED BY <1>1, <1>2, <1>3, <1>4, <1>5 DEF EnrichmentNext

(* Whatever the sources answer, the user's token goes to the configured endpoints only, and an    *)
(* enrichment that succeeds has read every source to its last page, within its budget, without a  *)
(* secret (Enrich, fetchPaginatedPage, nextLink).                                              *)
THEOREM EnrichmentIsSound == EnrichmentSpec => []EnrichmentSound
<1>1. EnrichmentInit => EnrichmentInv
  <2> SUFFICES ASSUME EnrichmentInit PROVE EnrichmentInv
    OBVIOUS
  <2>1. /\ eConf \in EnrConfigs /\ EnrichmentValid(eConf) /\ eAsked = {} /\ eFetch = NoFetch
        /\ eChain = [i \in 1..Last(eConf) |-> [items |-> <<>>, more |-> FALSE, bytes |-> 0]]
    BY DEF EnrichmentInit, Last
  <2>2. ChainOK(eConf, eChain) /\ \A i \in 1..Last(eConf) : Untouched(eChain, i)
    <3>1. \A i \in 1..Last(eConf) : eChain[i].items = <<>> /\ eChain[i].bytes = 0
      BY <2>1
    <3>2. <<>> \in Seq(STRING) /\ 0 \in Nat
      OBVIOUS
    <3>3. DOMAIN eChain = 1..Last(eConf)
      BY <2>1
    <3>4. ASSUME NEW i \in 1..Last(eConf) PROVE eChain[i].items \in Seq(STRING) /\ eChain[i].bytes \in Nat
      BY <3>1, <3>2, Zenon
    <3> QED BY <3>1, <3>3, <3>4 DEF ChainOK, Untouched
  <2>3. DOMAIN NoFetch = FetchFields /\ NoFetch.at = "idle"
    BY DEF NoFetch, FetchFields
  <2>4. FetchOK(eConf, eChain, eClaims, NoFetch)
    BY <2>2, <2>3 DEF FetchOK
  <2> QED BY <2>1, <2>2, <2>4 DEF EnrichmentInv
<1>2. EnrichmentInv /\ [EnrichmentNext]_enrichVars => EnrichmentInv'
  BY EnrichmentKept
<1>3. EnrichmentInv => EnrichmentSound
  <2> SUFFICES ASSUME EnrichmentInv PROVE EnrichmentSound
    OBVIOUS
  <2>1. TokenStaysHome
    BY DEF EnrichmentInv, AtHome, TokenStaysHome
  <2>2. eFetch.at = "done" => \A i \in 1..Len(eConf.sources) : Whole(eConf, eChain, eClaims, i)
    BY DEF EnrichmentInv, FetchOK, Last
  <2>3. ClaimsWhole /\ WithinBudget
    BY <2>2 DEF Whole, ClaimsWhole, WithinBudget
  <2> QED BY <2>1, <2>3 DEF EnrichmentSound
<1> QED BY <1>1, <1>2, <1>3, PTL DEF EnrichmentSpec
-----------------------------------------------------------------------------
(* The gateway's sessions.  A login cookie belongs to a login of its browser; a login that  *)
(* is used up and no longer being served is spent, and only spent ones have had a session,  *)
(* so no session comes back.                                                             *)

FlowType == [browser : GwBrowsers, started : Nat, user : GwBrowsers \cup {"none"}, used : BOOLEAN]
JarFields == {"session", "login", "app"}
ReqFields == {"at", "user", "claims", "key", "run", "owner", "flow", "local", "byPath"}

LoginOK(b, q, flows) ==
  q.at = "login" => /\ q.flow \in 1..Len(flows) /\ flows[q.flow].used /\ flows[q.flow].browser = b
                    /\ flows[q.flow].user = q.user /\ q.user # "none"
Spent(f, flows, requests) ==
  /\ f \in 1..Len(flows) /\ flows[f].used
  /\ \A b \in GwBrowsers : requests[b].at = "login" => requests[b].flow # f
JarOK(b, jar, flows, requests) ==
  /\ DOMAIN jar = JarFields
  /\ jar.session # NoFlow => Spent(jar.session, flows, requests)
  /\ jar.login # NoFlow => jar.login \in 1..Len(flows) /\ flows[jar.login].browser = b
Clean(session) ==
  session # NoSession => EvaluateAdmission(session.claims) /\ "pid" \notin UNION session.claims

SessionInv ==
  /\ gClock \in Nat /\ gFlows \in Seq(FlowType) /\ Len(gFlows) <= GwMaxFlows
  /\ DOMAIN gSessions = 1..GwMaxFlows /\ DOMAIN gJar = GwBrowsers /\ DOMAIN gReq = GwBrowsers
  /\ \A f \in 1..GwMaxFlows : /\ gSessions[f].expires \in Nat /\ Clean(gSessions[f])
                              /\ gSessions[f] # NoSession => Spent(f, gFlows, gReq)
  /\ \A f \in gDead : Spent(f, gFlows, gReq) /\ (gSessions[f] = NoSession \/ gSessions[f].expires <= gClock)
  /\ \A b \in GwBrowsers : /\ DOMAIN gReq[b] = ReqFields /\ LoginOK(b, gReq[b], gFlows)
                           /\ JarOK(b, gJar[b], gFlows, gReq)

(* A browser's request is answered or goes on, and no session begins or ends.             *)
LEMMA ServeKeeps ==
  ASSUME SessionInv, NEW b \in GwBrowsers, NEW q, NEW j, UNCHANGED <<gConf, gClock, gFlows, gSessions, gDead>>,
         gReq' = [gReq EXCEPT ![b] = q], gJar' = [gJar EXCEPT ![b] = j] \/ (gJar' = gJar /\ j = gJar[b]),
         q.at # "login", DOMAIN q = ReqFields, DOMAIN j = JarFields,
         j.session \in {gJar[b].session, NoFlow}, j.login \in {gJar[b].login, NoFlow}
  PROVE  SessionInv'
<1>1. /\ DOMAIN gReq' = GwBrowsers /\ gReq'[b] = q /\ DOMAIN gJar' = GwBrowsers /\ gJar'[b] = j
      /\ \A x \in GwBrowsers : x # b => gReq'[x] = gReq[x] /\ gJar'[x] = gJar[x]
  BY DEF SessionInv
<1>2. \A f : Spent(f, gFlows, gReq) => Spent(f, gFlows, gReq')
  BY <1>1 DEF Spent
<1>3. ASSUME NEW x \in GwBrowsers
      PROVE  DOMAIN gReq'[x] = ReqFields /\ LoginOK(x, gReq'[x], gFlows) /\ JarOK(x, gJar'[x], gFlows, gReq')
  <2>1. CASE x = b
    <3>1. JarOK(b, gJar[b], gFlows, gReq)
      BY DEF SessionInv
    <3>2. JarOK(b, j, gFlows, gReq')
      BY <1>2, <3>1 DEF JarOK
    <3>3. LoginOK(b, q, gFlows)
      BY DEF LoginOK
    <3> QED BY <1>1, <2>1, <3>2, <3>3
  <2>2. CASE x # b
    <3>1. DOMAIN gReq[x] = ReqFields /\ LoginOK(x, gReq[x], gFlows) /\ JarOK(x, gJar[x], gFlows, gReq)
      BY DEF SessionInv
    <3>2. JarOK(x, gJar[x], gFlows, gReq')
      BY <1>2, <3>1 DEF JarOK
    <3> QED BY <1>1, <2>2, <3>1, <3>2
  <2> QED BY <2>1, <2>2
<1>4. \A f \in 1..GwMaxFlows : Clean(gSessions[f])'
  BY DEF SessionInv, Clean, EvaluateAdmission
<1> QED BY <1>1, <1>2, <1>3, <1>4 DEF SessionInv

LEMMA SameJar ==
  ASSUME SessionInv, NEW b \in GwBrowsers
  PROVE  DOMAIN gJar[b] = JarFields /\ DOMAIN gReq[b] = ReqFields
BY DEF SessionInv, JarOK

LEMMA IdleFields == DOMAIN Idle = ReqFields /\ Idle.at = "idle"
BY DEF Idle, ReqFields

(* The flows change, but no login that is under way and no use that was made.              *)
LEMMA FlowsKeep ==
  ASSUME SessionInv, NEW flows \in Seq(FlowType), gFlows' = flows, Len(flows) >= Len(gFlows), Len(flows) <= GwMaxFlows,
         \A f \in 1..Len(gFlows) : /\ flows[f].browser = gFlows[f].browser
                                   /\ gFlows[f].used => flows[f].used
                                   /\ gFlows[f].user # "none" => flows[f].user = gFlows[f].user,
         UNCHANGED <<gConf, gClock, gSessions, gDead, gReq>>,
         DOMAIN gJar' = GwBrowsers,
         \A b \in GwBrowsers : JarOK(b, gJar[b], flows, gReq) => JarOK(b, gJar'[b], flows, gReq)
  PROVE  SessionInv'
<1>0. Len(gFlows) \in Nat /\ Len(flows) \in Nat
  BY DEF SessionInv
<1>1. \A f : Spent(f, gFlows, gReq) => Spent(f, flows, gReq)
  BY <1>0 DEF Spent
<1>2. \A b \in GwBrowsers : /\ LoginOK(b, gReq[b], flows) /\ JarOK(b, gJar[b], flows, gReq)
  BY <1>0, <1>1 DEF SessionInv, LoginOK, JarOK
<1>3. \A f \in 1..GwMaxFlows : Clean(gSessions[f])'
  BY DEF SessionInv, Clean, EvaluateAdmission
<1> QED BY <1>1, <1>2, <1>3 DEF SessionInv

LEMMA handleLoginKeeps ==
  ASSUME SessionInv, NEW b \in GwBrowsers, handleLogin(b)
  PROVE  SessionInv'
<1> DEFINE flow == [browser |-> b, started |-> gClock, user |-> "none", used |-> FALSE]
           flows == Append(gFlows, flow)
           jar == [gJar[b] EXCEPT !.login = Len(gFlows) + 1]
<1>1. flow \in FlowType
  BY DEF SessionInv, FlowType
<1>2. gFlows \in Seq(FlowType) /\ Len(gFlows) \in Nat
  BY DEF SessionInv
<1>3. flow.browser = b
  OBVIOUS
<1>4. /\ gFlows' = flows /\ Len(gFlows) < GwMaxFlows /\ gJar' = [gJar EXCEPT ![b] = jar]
      /\ UNCHANGED <<gConf, gClock, gSessions, gDead, gReq>>
  BY DEF handleLogin, Jar
<1> HIDE DEF flow
<1>5. /\ flows \in Seq(FlowType) /\ Len(flows) = Len(gFlows) + 1 /\ flows[Len(gFlows) + 1] = flow
      /\ \A f \in 1..Len(gFlows) : flows[f] = gFlows[f]
  BY <1>1, <1>2, AppendProperties
<1>6. DOMAIN jar = JarFields /\ jar.session = gJar[b].session /\ jar.login = Len(gFlows) + 1
  BY SameJar DEF JarFields
<1> HIDE DEF flows, jar
<1>7. DOMAIN gJar' = GwBrowsers /\ gJar'[b] = jar /\ \A x \in GwBrowsers : x # b => gJar'[x] = gJar[x]
  BY <1>4 DEF SessionInv
<1>8. ASSUME NEW x \in GwBrowsers, JarOK(x, gJar[x], flows, gReq) PROVE JarOK(x, gJar'[x], flows, gReq)
  <2>1. Len(gFlows) + 1 \in 1..Len(flows)
    BY <1>2, <1>5
  <2>2. CASE x = b
    BY <1>3, <1>5, <1>6, <1>7, <1>8, <2>1, <2>2 DEF JarOK
  <2>3. CASE x # b
    BY <1>7, <1>8, <2>3
  <2> QED BY <2>2, <2>3
<1>9. Len(flows) >= Len(gFlows) /\ Len(flows) <= GwMaxFlows
  BY <1>2, <1>4, <1>5, GatewayBounds
<1> QED BY <1>4, <1>5, <1>7, <1>8, <1>9, FlowsKeep

(* One login changes.                                                                    *)
LEMMA FlowChanged ==
  ASSUME SessionInv, NEW f \in 1..Len(gFlows), NEW flow \in FlowType
  PROVE  LET flows == [gFlows EXCEPT ![f] = flow]
         IN  flows \in Seq(FlowType) /\ Len(flows) = Len(gFlows)
             /\ \A g \in 1..Len(gFlows) : flows[g] = IF g = f THEN flow ELSE gFlows[g]
BY ExceptSeq DEF SessionInv

LEMMA ProviderSignsInKeeps ==
  ASSUME SessionInv, NEW f \in 1..Len(gFlows), NEW b \in GwBrowsers, ProviderSignsIn(f, b)
  PROVE  SessionInv'
<1> DEFINE flow == [gFlows[f] EXCEPT !.user = b]
           flows == [gFlows EXCEPT ![f] = flow]
<1>1. gFlows[f] \in FlowType /\ Len(gFlows) \in Nat
  BY DEF SessionInv
<1>2. /\ flow \in FlowType /\ flow.browser = gFlows[f].browser /\ flow.used = gFlows[f].used
  BY <1>1 DEF FlowType
<1>3. /\ gFlows[f].user = "none" /\ gFlows' = flows /\ UNCHANGED <<gConf, gClock, gSessions, gDead, gReq, gJar>>
  BY DEF ProviderSignsIn
<1> HIDE DEF flow
<1>4. /\ flows \in Seq(FlowType) /\ Len(flows) = Len(gFlows)
      /\ \A g \in 1..Len(gFlows) : flows[g] = IF g = f THEN flow ELSE gFlows[g]
  BY <1>2, FlowChanged
<1> HIDE DEF flows
<1>5. Len(flows) >= Len(gFlows) /\ Len(flows) <= GwMaxFlows /\ DOMAIN gJar = GwBrowsers
  BY <1>1, <1>4 DEF SessionInv
<1>6. \A g \in 1..Len(gFlows) : /\ flows[g].browser = gFlows[g].browser
                                /\ gFlows[g].used => flows[g].used
                                /\ gFlows[g].user # "none" => flows[g].user = gFlows[g].user
  BY <1>2, <1>3, <1>4
<1> QED BY <1>3, <1>4, <1>5, <1>6, FlowsKeep

(* A login is used: it has no session yet, and it is in no browser's session cookie.       *)
LEMMA handleCallbackKeeps ==
  ASSUME SessionInv, NEW b \in GwBrowsers, NEW f \in 1..Len(gFlows), handleCallback(b, f)
  PROVE  SessionInv'
<1> DEFINE flow == [gFlows[f] EXCEPT !.used = TRUE]
           flows == [gFlows EXCEPT ![f] = flow]
           q == [Idle EXCEPT !.at = "login", !.user = gFlows[f].user, !.flow = f]
<1>1. gFlows[f] \in FlowType /\ Len(gFlows) \in Nat
  BY DEF SessionInv
<1>2. /\ flow \in FlowType /\ flow.browser = gFlows[f].browser /\ flow.used /\ flow.user = gFlows[f].user
  BY <1>1 DEF FlowType
<1>3. /\ gFlows' = flows /\ gReq' = [gReq EXCEPT ![b] = q] /\ ~gFlows[f].used /\ gFlows[f].user # "none"
      /\ gJar[b].login = f /\ UNCHANGED <<gConf, gClock, gSessions, gDead, gJar>>
  BY DEF handleCallback, Serve, stateMatches
<1>4. DOMAIN q = ReqFields /\ q.at = "login" /\ q.user = gFlows[f].user /\ q.flow = f
  BY DEF Idle, ReqFields
<1> HIDE DEF flow, q
<1>5. /\ flows \in Seq(FlowType) /\ Len(flows) = Len(gFlows)
      /\ \A g \in 1..Len(gFlows) : flows[g] = IF g = f THEN flow ELSE gFlows[g]
  BY <1>2, FlowChanged
<1> HIDE DEF flows
<1>6. DOMAIN gReq' = GwBrowsers /\ gReq'[b] = q /\ \A x \in GwBrowsers : x # b => gReq'[x] = gReq[x]
  BY <1>3 DEF SessionInv
<1>7. gFlows[f].browser = b
  <2>1. JarOK(b, gJar[b], gFlows, gReq)
    BY DEF SessionInv
  <2> QED BY <1>1, <1>3, <2>1 DEF JarOK, NoFlow
<1>8. ASSUME NEW g, Spent(g, gFlows, gReq) PROVE Spent(g, flows, gReq')
  BY <1>2, <1>3, <1>4, <1>5, <1>6, <1>8 DEF Spent
<1>9. ASSUME NEW x \in GwBrowsers
      PROVE  DOMAIN gReq'[x] = ReqFields /\ LoginOK(x, gReq'[x], flows) /\ JarOK(x, gJar[x], flows, gReq')
  <2>1. DOMAIN gReq[x] = ReqFields /\ LoginOK(x, gReq[x], gFlows) /\ JarOK(x, gJar[x], gFlows, gReq)
    BY DEF SessionInv
  <2>2. JarOK(x, gJar[x], flows, gReq')
    BY <1>2, <1>5, <1>8, <2>1 DEF JarOK
  <2>3. CASE x = b
    BY <1>2, <1>3, <1>4, <1>5, <1>6, <1>7, <2>2, <2>3 DEF LoginOK
  <2>4. CASE x # b
    BY <1>2, <1>5, <1>6, <2>1, <2>2, <2>4 DEF LoginOK
  <2> QED BY <2>3, <2>4
<1>10. \A g \in 1..GwMaxFlows : Clean(gSessions[g])'
  BY <1>3 DEF SessionInv, Clean, EvaluateAdmission
<1> QED BY <1>3, <1>5, <1>6, <1>8, <1>9, <1>10 DEF SessionInv

LEMMA StrippedOfPid == ASSUME NEW claims PROVE "pid" \notin UNION stripSensitiveClaims(claims)
BY DEF stripSensitiveClaims

(* A session begins for the login that was served, which is spent by it.                    *)
LEMMA finishLoginKeeps ==
  ASSUME SessionInv, NEW b \in GwBrowsers, NEW claims, finishLogin(b, claims)
  PROVE  SessionInv'
<1> DEFINE stripped == stripSensitiveClaims(claims)
           session == [user |-> gReq[b].user, claims |-> stripped, expires |-> gClock + GwMaxAge]
           f == gReq[b].flow
           refused == [gJar[b] EXCEPT !.login = NoFlow]
           jar == [gJar[b] EXCEPT !.session = f, !.login = NoFlow]
<1>1. /\ gReq[b].at = "login" /\ gReq' = [gReq EXCEPT ![b] = Idle]
      /\ UNCHANGED <<gConf, gClock, gFlows, gDead>>
  BY DEF finishLogin, Serve
<1>2. session.claims = stripped /\ session.expires = gClock + GwMaxAge
  OBVIOUS
<1>3. DOMAIN refused = JarFields /\ refused.session = gJar[b].session /\ refused.login = NoFlow
  BY SameJar DEF JarFields
<1>4. DOMAIN jar = JarFields /\ jar.session = f /\ jar.login = NoFlow
  BY SameJar DEF JarFields
<1>5. "pid" \notin UNION stripped
  BY StrippedOfPid
<1>6. \/ /\ ~EvaluateAdmission(stripped) /\ gJar' = [gJar EXCEPT ![b] = refused] /\ UNCHANGED gSessions
      \/ /\ EvaluateAdmission(stripped) /\ gJar' = [gJar EXCEPT ![b] = jar]
         /\ gSessions' = [g \in 1..GwMaxFlows |->
               IF g = f THEN session ELSE IF gSessions[g].expires <= gClock THEN NoSession ELSE gSessions[g]]
  BY DEF finishLogin, Jar
<1> HIDE DEF stripped, session, refused, jar
<1>7. ASSUME gJar' = [gJar EXCEPT ![b] = refused], UNCHANGED gSessions PROVE SessionInv'
  BY <1>1, <1>3, <1>7, IdleFields, ServeKeeps
<1>8. ASSUME EvaluateAdmission(stripped), gJar' = [gJar EXCEPT ![b] = jar],
             gSessions' = [g \in 1..GwMaxFlows |->
               IF g = f THEN session ELSE IF gSessions[g].expires <= gClock THEN NoSession ELSE gSessions[g]]
      PROVE  SessionInv'
  <2>1. /\ DOMAIN gReq' = GwBrowsers /\ gReq'[b] = Idle /\ DOMAIN gJar' = GwBrowsers /\ gJar'[b] = jar
        /\ \A x \in GwBrowsers : x # b => gReq'[x] = gReq[x] /\ gJar'[x] = gJar[x]
    BY <1>1, <1>8 DEF SessionInv
  <2>2. \A g : Spent(g, gFlows, gReq) => Spent(g, gFlows, gReq')
    BY <2>1, IdleFields DEF Spent
  <2>3. f \in 1..Len(gFlows) /\ gFlows[f].used /\ gFlows[f].browser = b
    BY <1>1 DEF SessionInv, LoginOK
  <2>4. Spent(f, gFlows, gReq')
    <3>1. ASSUME NEW x \in GwBrowsers, gReq'[x].at = "login" PROVE gReq'[x].flow # f
      <4>1. x # b
        BY <2>1, <3>1, IdleFields
      <4>2. LoginOK(x, gReq[x], gFlows)
        BY DEF SessionInv
      <4>3. gFlows[gReq[x].flow].browser = x
        BY <2>1, <3>1, <4>1, <4>2 DEF LoginOK
      <4> QED BY <2>1, <2>3, <4>1, <4>3
    <3> QED BY <2>3, <3>1 DEF Spent
  <2>5. ASSUME NEW x \in GwBrowsers
        PROVE  DOMAIN gReq'[x] = ReqFields /\ LoginOK(x, gReq'[x], gFlows) /\ JarOK(x, gJar'[x], gFlows, gReq')
    <3>1. DOMAIN gReq[x] = ReqFields /\ LoginOK(x, gReq[x], gFlows) /\ JarOK(x, gJar[x], gFlows, gReq)
      BY DEF SessionInv
    <3>2. CASE x = b
      BY <1>4, <2>1, <2>4, <3>2, IdleFields DEF LoginOK, JarOK
    <3>3. CASE x # b
      <4>1. JarOK(x, gJar[x], gFlows, gReq')
        BY <2>2, <3>1 DEF JarOK
      <4> QED BY <2>1, <3>1, <3>3, <4>1
    <3> QED BY <3>2, <3>3
  <2>6. NoSession.expires = 0
    BY DEF NoSession
  <2>7. gClock \in Nat /\ gClock + GwMaxAge \in Nat
    BY GatewayBounds DEF SessionInv
  <2>8. ASSUME NEW g \in 1..GwMaxFlows
        PROVE  /\ gSessions'[g].expires \in Nat /\ Clean(gSessions'[g])
               /\ gSessions'[g] # NoSession => Spent(g, gFlows, gReq')
    <3>1. gSessions'[g] = IF g = f THEN session ELSE IF gSessions[g].expires <= gClock THEN NoSession ELSE gSessions[g]
      BY <1>8
    <3>2. /\ gSessions[g].expires \in Nat /\ Clean(gSessions[g])
          /\ gSessions[g] # NoSession => Spent(g, gFlows, gReq)
      BY DEF SessionInv
    <3>3. CASE g = f
      BY <1>2, <1>5, <1>8, <2>4, <2>7, <3>1, <3>3 DEF Clean
    <3>4. CASE g # f /\ gSessions[g].expires <= gClock
      BY <2>6, <3>1, <3>4 DEF Clean
    <3>5. CASE g # f /\ ~(gSessions[g].expires <= gClock)
      BY <2>2, <3>1, <3>2, <3>5
    <3> QED BY <3>3, <3>4, <3>5
  <2>9. \A g \in 1..GwMaxFlows : Clean(gSessions[g])'
    BY <1>1, <2>8 DEF Clean, EvaluateAdmission
  <2>10. ASSUME NEW g \in gDead
         PROVE  Spent(g, gFlows, gReq') /\ (gSessions'[g] = NoSession \/ gSessions'[g].expires <= gClock)
    <3>1. Spent(g, gFlows, gReq) /\ (gSessions[g] = NoSession \/ gSessions[g].expires <= gClock)
      BY DEF SessionInv
    <3>2. g # f
      BY <1>1, <3>1 DEF Spent
    <3>3. g \in 1..GwMaxFlows
      BY <3>1, GatewayBounds DEF Spent, SessionInv
    <3>4. gSessions'[g] = IF gSessions[g].expires <= gClock THEN NoSession ELSE gSessions[g]
      BY <1>8, <3>2, <3>3
    <3> QED BY <2>2, <3>1, <3>4
  <2>11. DOMAIN gSessions' = 1..GwMaxFlows
    BY <1>8
  <2> QED BY <1>1, <2>1, <2>5, <2>8, <2>9, <2>10, <2>11 DEF SessionInv
<1> QED BY <1>6, <1>7, <1>8

(* Sessions end: only those that are spent already.                                        *)
LEMMA SessionsEnd ==
  ASSUME SessionInv, NEW ended \in SUBSET (1..GwMaxFlows), UNCHANGED <<gConf, gClock, gFlows, gReq>>,
         \A f \in ended : Spent(f, gFlows, gReq),
         DOMAIN gSessions' = 1..GwMaxFlows,
         \A f \in 1..GwMaxFlows : gSessions'[f] = IF f \in ended THEN NoSession ELSE gSessions[f],
         gDead' = gDead \cup ended, DOMAIN gJar' = GwBrowsers,
         \A b \in GwBrowsers : JarOK(b, gJar'[b], gFlows, gReq)
  PROVE  SessionInv'
<1>1. NoSession.expires = 0
  BY DEF NoSession
<1>2. ASSUME NEW f \in 1..GwMaxFlows
      PROVE  /\ gSessions'[f].expires \in Nat /\ Clean(gSessions'[f])
             /\ gSessions'[f] # NoSession => Spent(f, gFlows, gReq)
  BY <1>1 DEF SessionInv, Clean
<1>3. \A f \in 1..GwMaxFlows : Clean(gSessions[f])'
  BY <1>2 DEF Clean, EvaluateAdmission
<1>4. ASSUME NEW f \in gDead'
      PROVE  Spent(f, gFlows, gReq) /\ (gSessions'[f] = NoSession \/ gSessions'[f].expires <= gClock)
  <2>1. Spent(f, gFlows, gReq)
    BY DEF SessionInv
  <2>2. f \in 1..GwMaxFlows
    BY <2>1, GatewayBounds DEF Spent, SessionInv
  <2> QED BY <2>1, <2>2 DEF SessionInv
<1> QED BY <1>2, <1>3, <1>4 DEF SessionInv

LEMMA handleLogoutKeeps ==
  ASSUME SessionInv, NEW b \in GwBrowsers, handleLogout(b)
  PROVE  SessionInv'
<1> DEFINE jar == [gJar[b] EXCEPT !.session = NoFlow, !.login = NoFlow]
           f == gJar[b].session
<1>1. DOMAIN jar = JarFields /\ jar.session = NoFlow /\ jar.login = NoFlow
  BY SameJar DEF JarFields
<1>2. /\ gSessions' = [gSessions EXCEPT ![f] = NoSession] /\ gDead' = gDead \cup {f}
      /\ gJar' = [gJar EXCEPT ![b] = jar] /\ UNCHANGED <<gConf, gClock, gFlows, gReq>> /\ f # NoFlow
  BY DEF handleLogout, Jar
<1> HIDE DEF jar
<1>3. Spent(f, gFlows, gReq)
  BY <1>2 DEF SessionInv, JarOK
<1>4. f \in 1..GwMaxFlows
  BY <1>3, GatewayBounds DEF Spent, SessionInv
<1>5. /\ DOMAIN gSessions' = 1..GwMaxFlows
      /\ \A g \in 1..GwMaxFlows : gSessions'[g] = IF g \in {f} THEN NoSession ELSE gSessions[g]
  BY <1>2 DEF SessionInv
<1>6. DOMAIN gJar' = GwBrowsers /\ gJar'[b] = jar /\ \A x \in GwBrowsers : x # b => gJar'[x] = gJar[x]
  BY <1>2 DEF SessionInv
<1>7. JarOK(b, jar, gFlows, gReq)
  BY <1>1 DEF JarOK
<1>8. \A x \in GwBrowsers : JarOK(x, gJar[x], gFlows, gReq)
  BY DEF SessionInv
<1>9. \A x \in GwBrowsers : JarOK(x, gJar'[x], gFlows, gReq)
  BY <1>6, <1>7, <1>8
<1>10. \A g \in {f} : Spent(g, gFlows, gReq)
  BY <1>3
<1>11. {f} \in SUBSET (1..GwMaxFlows)
  BY <1>4
<1> QED BY <1>2, <1>5, <1>6, <1>9, <1>10, <1>11, SessionsEnd

(* A request that is not a login is answered or goes on.                                    *)
LEMMA RequestKeeps ==
  ASSUME SessionInv, NEW b \in GwBrowsers, NEW q, gReq' = [gReq EXCEPT ![b] = q], DOMAIN q = ReqFields, q.at # "login",
         UNCHANGED <<gConf, gClock, gFlows, gSessions, gDead, gJar>>
  PROVE  SessionInv'
BY SameJar, ServeKeeps

LEMMA SessionsKept ==
  ASSUME SessionInv, [GatewayNext]_gatewayVars
  PROVE  SessionInv'
<1>1. ASSUME GatewayTick PROVE SessionInv'
  <2>1. /\ gClock' = gClock + 1 /\ UNCHANGED <<gConf, gFlows, gSessions, gJar, gReq>>
        /\ gDead' = gDead \cup {f \in 1..GwMaxFlows : gSessions[f] # NoSession /\ gSessions[f].expires <= gClock + 1}
    BY <1>1 DEF GatewayTick
  <2>2. \A f \in gDead' : Spent(f, gFlows, gReq)
    BY <2>1 DEF SessionInv
  <2>3. ASSUME NEW f \in gDead' PROVE gSessions[f] = NoSession \/ gSessions[f].expires <= gClock + 1
    <3>1. f \in 1..GwMaxFlows
      BY <2>2, GatewayBounds DEF Spent, SessionInv
    <3> QED BY <2>1, <3>1 DEF SessionInv
  <2>4. \A f \in 1..GwMaxFlows : Clean(gSessions[f])'
    BY <2>1 DEF SessionInv, Clean, EvaluateAdmission
  <2> QED BY <2>1, <2>2, <2>3, <2>4 DEF SessionInv
<1>2. ASSUME GatewayRestart PROVE SessionInv'
  <2>1. /\ gDead' = gDead \cup {f \in 1..GwMaxFlows : gSessions[f] # NoSession}
        /\ gSessions' = [f \in 1..GwMaxFlows |-> NoSession] /\ gReq' = [b \in GwBrowsers |-> Idle]
        /\ UNCHANGED <<gConf, gClock, gFlows, gJar>>
    BY <1>2 DEF GatewayRestart
  <2>2. \A f : Spent(f, gFlows, gReq) => Spent(f, gFlows, gReq')
    BY <2>1, IdleFields DEF Spent
  <2>3. \A f \in gDead' : Spent(f, gFlows, gReq')
    BY <2>1, <2>2 DEF SessionInv
  <2>4. \A f \in gDead' : f \in 1..GwMaxFlows
    BY <2>1, <2>3, GatewayBounds DEF Spent, SessionInv
  <2>5. NoSession.expires = 0 /\ \A f \in 1..GwMaxFlows : gSessions'[f] = NoSession
    BY <2>1 DEF NoSession
  <2>6. ASSUME NEW x \in GwBrowsers
        PROVE  DOMAIN gReq'[x] = ReqFields /\ LoginOK(x, gReq'[x], gFlows) /\ JarOK(x, gJar[x], gFlows, gReq')
    <3>1. JarOK(x, gJar[x], gFlows, gReq) /\ gReq'[x] = Idle
      BY <2>1 DEF SessionInv
    <3>2. JarOK(x, gJar[x], gFlows, gReq')
      BY <2>2, <3>1 DEF JarOK
    <3> QED BY <3>1, <3>2, IdleFields DEF LoginOK
  <2>7. \A f \in 1..GwMaxFlows : Clean(gSessions[f])'
    BY <2>5 DEF Clean
  <2> QED BY <2>1, <2>3, <2>4, <2>5, <2>6, <2>7 DEF SessionInv
<1>3. ASSUME UNCHANGED <<gConf, gClock, gFlows, gSessions, gDead, gJar, gReq>> PROVE SessionInv'
  BY <1>3 DEF SessionInv, Clean, EvaluateAdmission
<1>4. ASSUME NEW b \in GwBrowsers, NEW target, NEW f, Authenticate(b, target, f) PROVE SessionInv'
  <2> DEFINE request == [Idle EXCEPT !.at = "authenticated", !.key = ServeRoute(target).key,
                            !.local = (ServeRoute(target).kind = "local"),
                            !.byPath = IF ServeRoute(target).kind = "local" THEN target.domain # "local" ELSE gConf.routing = "path"]
             signed == [request EXCEPT !.flow = f, !.user = gSessions[f].user, !.claims = gSessions[f].claims]
             jar == [gJar[b] EXCEPT !.session = NoFlow]
  <2>1. DOMAIN request = ReqFields /\ request.at = "authenticated"
    BY DEF Idle, ReqFields
  <2>2. \/ gReq' = [gReq EXCEPT ![b] = request] /\ gJar' = gJar
        \/ gReq' = [gReq EXCEPT ![b] = signed] /\ gJar' = gJar
        \/ gReq' = gReq /\ gJar' = [gJar EXCEPT ![b] = jar]
    BY <1>4, Zenon DEF Authenticate, Serve, Jar
  <2>3. gReq[b].at = "idle" /\ UNCHANGED <<gConf, gClock, gFlows, gSessions, gDead>>
    BY <1>4 DEF Authenticate
  <2> HIDE DEF request
  <2>4. DOMAIN signed = ReqFields /\ signed.at = "authenticated"
    BY <2>1 DEF ReqFields
  <2> HIDE DEF signed
  <2>5. DOMAIN jar = JarFields /\ jar.session = NoFlow /\ jar.login = gJar[b].login
    BY SameJar DEF JarFields
  <2> HIDE DEF jar
  <2>6. CASE gJar' = gJar /\ gReq' = [gReq EXCEPT ![b] = request]
    BY <2>1, <2>3, <2>6, RequestKeeps
  <2>7. CASE gJar' = gJar /\ gReq' = [gReq EXCEPT ![b] = signed]
    BY <2>3, <2>4, <2>7, RequestKeeps
  <2>8. CASE gReq' = gReq /\ gJar' = [gJar EXCEPT ![b] = jar]
    <3>1. DOMAIN gJar' = GwBrowsers /\ gJar'[b] = jar /\ \A x \in GwBrowsers : x # b => gJar'[x] = gJar[x]
      BY <2>8 DEF SessionInv
    <3>2. \A x \in GwBrowsers : JarOK(x, gJar[x], gFlows, gReq)
      BY DEF SessionInv
    <3>3. JarOK(b, jar, gFlows, gReq)
      BY <2>5, <3>2 DEF JarOK
    <3>4. \A x \in GwBrowsers : JarOK(x, gJar'[x], gFlows, gReq)
      BY <3>1, <3>2, <3>3
    <3>5. \A g \in 1..GwMaxFlows : Clean(gSessions[g])'
      BY <2>3 DEF SessionInv, Clean, EvaluateAdmission
    <3> QED BY <2>3, <2>8, <3>1, <3>4, <3>5 DEF SessionInv
  <2> QED BY <2>2, <2>6, <2>7, <2>8
<1>5. ASSUME NEW b \in GwBrowsers, NEW cleared, loginUnavailable(b, cleared) PROVE SessionInv'
  <2> DEFINE jar == [gJar[b] EXCEPT !.login = NoFlow]
  <2>1. /\ gReq' = [gReq EXCEPT ![b] = Idle] /\ UNCHANGED <<gConf, gClock, gFlows, gSessions, gDead>>
        /\ (gJar' = [gJar EXCEPT ![b] = jar] \/ gJar' = [gJar EXCEPT ![b] = gJar[b]])
    BY <1>5 DEF loginUnavailable, Serve, Jar
  <2>2. DOMAIN jar = JarFields /\ jar.session = gJar[b].session /\ jar.login = NoFlow
    BY SameJar DEF JarFields
  <2> HIDE DEF jar
  <2>3. CASE gJar' = [gJar EXCEPT ![b] = jar]
    BY <2>1, <2>2, <2>3, IdleFields, ServeKeeps
  <2>4. CASE gJar' = [gJar EXCEPT ![b] = gJar[b]]
    BY <2>1, <2>4, IdleFields, SameJar, ServeKeeps
  <2> QED BY <2>1, <2>3, <2>4
<1>6. ASSUME NEW b \in GwBrowsers, NEW r,
             resolveAgentRun(b, r) \/ serveAuthorizedLocalRun(b, r) \/ resolveTargetForRun(b, r)
      PROVE  SessionInv'
  <2> DEFINE authorised == [gReq[b] EXCEPT !.at = "authorised", !.run = r, !.owner = gRuns[r].owner]
             proxied == [gReq[b] EXCEPT !.at = "proxied", !.run = r, !.owner = gRuns[r].owner]
             sent == [gReq[b] EXCEPT !.at = "proxied"]
  <2>1. UNCHANGED <<gConf, gClock, gFlows, gSessions, gDead, gJar>>
    BY <1>6 DEF resolveAgentRun, serveAuthorizedLocalRun, resolveTargetForRun
  <2>2. \/ gReq' = [gReq EXCEPT ![b] = Idle] \/ gReq' = [gReq EXCEPT ![b] = authorised]
        \/ gReq' = [gReq EXCEPT ![b] = proxied] \/ gReq' = [gReq EXCEPT ![b] = sent]
    BY <1>6 DEF resolveAgentRun, serveAuthorizedLocalRun, resolveTargetForRun, Serve
  <2>3. DOMAIN authorised = ReqFields /\ authorised.at = "authorised"
    BY SameJar DEF ReqFields
  <2>4. DOMAIN proxied = ReqFields /\ proxied.at = "proxied"
    BY SameJar DEF ReqFields
  <2>5. DOMAIN sent = ReqFields /\ sent.at = "proxied"
    BY SameJar DEF ReqFields
  <2> HIDE DEF authorised, proxied, sent
  <2> QED BY <2>1, <2>2, <2>3, <2>4, <2>5, IdleFields, RequestKeeps
<1>7. ASSUME NEW b \in GwBrowsers, ResolveNotFound(b) \/ NoRunningPod(b) PROVE SessionInv'
  BY <1>7, IdleFields, RequestKeeps DEF ResolveNotFound, NoRunningPod, Serve
<1>8. ASSUME NEW b \in GwBrowsers, NEW asked, filterUpstreamResponseCookies(b, asked) PROVE SessionInv'
  <2>1. PICK cookie : gJar' = [gJar EXCEPT ![b] = [gJar[b] EXCEPT !.app = @ \cup {cookie}]]
    BY <1>8 DEF filterUpstreamResponseCookies, Jar
  <2> DEFINE jar == [gJar[b] EXCEPT !.app = @ \cup {cookie}]
  <2>2. DOMAIN jar = JarFields /\ jar.session = gJar[b].session /\ jar.login = gJar[b].login
    BY SameJar DEF JarFields
  <2>3. /\ gJar' = [gJar EXCEPT ![b] = jar] /\ gReq' = [gReq EXCEPT ![b] = Idle]
        /\ UNCHANGED <<gConf, gClock, gFlows, gSessions, gDead>>
    BY <1>8, <2>1 DEF filterUpstreamResponseCookies, Serve
  <2> HIDE DEF jar
  <2> QED BY <2>2, <2>3, IdleFields, ServeKeeps
<1>9. ASSUME NEW r, RunDeleted(r) \/ PodGone(r) PROVE SessionInv'
  BY <1>3, <1>9 DEF RunDeleted, PodGone
<1>10. ASSUME NEW r, NEW key, NEW owner, RunCreated(r, key, owner) PROVE SessionInv'
  BY <1>3, <1>10 DEF RunCreated
<1>11. ASSUME NEW b \in GwBrowsers, handleLogin(b) PROVE SessionInv'
  BY <1>11, handleLoginKeeps
<1>12. ASSUME NEW b \in GwBrowsers, NEW f \in 1..Len(gFlows), handleCallback(b, f) PROVE SessionInv'
  BY <1>12, handleCallbackKeeps
<1>13. ASSUME NEW b \in GwBrowsers, NEW claims, finishLogin(b, claims) PROVE SessionInv'
  BY <1>13, finishLoginKeeps
<1>14. ASSUME NEW b \in GwBrowsers, handleLogout(b) PROVE SessionInv'
  BY <1>14, handleLogoutKeeps
<1>15. ASSUME NEW f \in 1..Len(gFlows), NEW b \in GwBrowsers, ProviderSignsIn(f, b) PROVE SessionInv'
  BY <1>15, ProviderSignsInKeeps
<1>16. CASE UNCHANGED gatewayVars
  BY <1>3, <1>16 DEF gatewayVars
<1>17. CASE GatewayNext
  BY <1>1, <1>2, <1>4, <1>5, <1>6, <1>7, <1>8, <1>9, <1>10, <1>11, <1>12, <1>13, <1>14, <1>15, <1>17, Zenon DEF GatewayNext
<1> QED BY <1>16, <1>17

(* Who is signed in earned it: whatever browsers, the identity provider, the clock and restarts do *)
(* between the steps of a login, no session comes from a mixed-up login, from claims that are not  *)
(* admitted, or from a session that has ended (handleLogin, handleCallback, finishLogin,          *)
(* handleLogout).                                                                              *)
THEOREM SessionsAreEarned == GatewaySpec => []SessionsEarned
<1>1. GatewayInit => SessionInv
  <2> SUFFICES ASSUME GatewayInit PROVE SessionInv
    OBVIOUS
  <2>1. /\ gClock = 0 /\ gFlows = <<>> /\ gDead = {} /\ gSessions = [f \in 1..GwMaxFlows |-> NoSession]
        /\ gJar = [b \in GwBrowsers |-> EmptyJar] /\ gReq = [b \in GwBrowsers |-> Idle]
    BY DEF GatewayInit
  <2>2. DOMAIN EmptyJar = JarFields /\ EmptyJar.session = NoFlow /\ EmptyJar.login = NoFlow
    BY DEF EmptyJar, JarFields
  <2>3. NoSession.expires = 0 /\ Clean(NoSession)
    BY DEF NoSession, Clean
  <2>4. \A b \in GwBrowsers : /\ DOMAIN gReq[b] = ReqFields /\ LoginOK(b, gReq[b], gFlows)
                              /\ JarOK(b, gJar[b], gFlows, gReq)
    BY <2>1, <2>2, IdleFields DEF LoginOK, JarOK
  <2>5. gFlows \in Seq(FlowType) /\ Len(gFlows) <= GwMaxFlows
    <3>1. <<>> \in Seq(FlowType) /\ Len(<<>>) = 0
      OBVIOUS
    <3>2. gFlows \in Seq(FlowType) /\ Len(gFlows) = 0
      BY <2>1, <3>1, Zenon
    <3> QED BY <3>2, GatewayBounds
  <2> QED BY <2>1, <2>3, <2>4, <2>5 DEF SessionInv
<1>2. SessionInv /\ [GatewayNext]_gatewayVars => SessionInv'
  BY SessionsKept
<1>3. SessionInv => SessionsEarned
  <2> SUFFICES ASSUME SessionInv PROVE SessionsEarned
    OBVIOUS
  <2>1. LoginsNotMixed
    BY DEF SessionInv, LoginOK, LoginsNotMixed
  <2>2. SessionsAdmitted
    BY DEF SessionInv, Clean, SessionsAdmitted
  <2>3. EndedSessionsStayEnded
    <3>1. ASSUME NEW f \in gDead PROVE ~lookupSession(f)
      <4>1. Spent(f, gFlows, gReq) /\ (gSessions[f] = NoSession \/ gSessions[f].expires <= gClock)
        BY DEF SessionInv
      <4>2. f \in 1..GwMaxFlows
        BY <4>1, GatewayBounds DEF Spent, SessionInv
      <4> QED BY <4>1, <4>2 DEF SessionInv, lookupSession
    <3> QED BY <3>1 DEF EndedSessionsStayEnded
  <2> QED BY <2>1, <2>2, <2>3 DEF SessionsEarned
<1> QED BY <1>1, <1>2, <1>3, PTL DEF GatewaySpec
-----------------------------------------------------------------------------
(* The runs behind the gateway.  A run that was there keeps its key, its owner and its name; *)
(* a request remembers an owner who is still the owner of the run it names, and a cookie     *)
(* comes from such a run.                                                                   *)

RunFields == {"exists", "key", "owner", "ready"}
Known(runs, r) == r \in GwRuns /\ runs[r].key # "none"

(* Who may be served: the owner, or whoever a rule lets in that does not ask for the owner.   *)
Allowed(conf, q) ==
  conf.auth # "none" =>
    \/ q.user = q.owner
    \/ \E rule \in conf.rules : ~rule.owner /\ RuleMatches(rule, q.claims, FALSE)
RequestOK(conf, runs, q) ==
  /\ DOMAIN q = ReqFields
  /\ q.at \in {"authenticated", "authorised", "proxied"} /\ conf.routing = "path" => q.byPath
  /\ q.at \in {"authorised", "proxied"} => Known(runs, q.run) /\ runs[q.run].owner = q.owner /\ Allowed(conf, q)
CookieOK(runs, c) ==
  ~c.wide /\ \E r : Known(runs, r) /\ runs[r].key = c.key /\ runs[r].owner = c.of /\ (c.local <=> r \in GwLocalRuns)
CookiesOK(conf, runs, jar) == DOMAIN jar = JarFields /\ (conf.routing = "path" => \A c \in jar.app : CookieOK(runs, c))

RunInv ==
  /\ gConf \in GwConfigs /\ ConfigValidate(gConf)
  /\ DOMAIN gRuns = GwRuns /\ DOMAIN gReq = GwBrowsers /\ DOMAIN gJar = GwBrowsers
  /\ \A r \in GwRuns : DOMAIN gRuns[r] = RunFields /\ (gRuns[r].exists => gRuns[r].key \in GwKeys)
  /\ \A b \in GwBrowsers : RequestOK(gConf, gRuns, gReq[b]) /\ CookiesOK(gConf, gRuns, gJar[b])

(* A rule that asks for the owner asks for nothing else.                                    *)
LEMMA OwnerRuleIsAlone ==
  ASSUME NEW rule, Predicates(rule) = 1, rule.owner
  PROVE  ~rule.authenticated /\ rule.values = {} /\ rule.where = {}
<1> DEFINE P == {p \in {"authenticated", "owner", "values", "where"} :
                   CASE p = "authenticated" -> rule.authenticated
                     [] p = "owner" -> rule.owner
                     [] p = "values" -> rule.values # {}
                     [] OTHER -> rule.where # {}}
<1>1. Cardinality(P) = 1
  BY DEF Predicates
<1>2. /\ "owner" \in P /\ (rule.authenticated => "authenticated" \in P)
      /\ (rule.values # {} => "values" \in P) /\ (rule.where # {} => "where" \in P)
  OBVIOUS
<1>3. IsFiniteSet(P)
  <2>1. IsFiniteSet({"authenticated", "owner", "values", "where"})
    <3>1. IsFiniteSet({"authenticated"})
      BY FS_Singleton
    <3>2. IsFiniteSet({"authenticated"} \cup {"owner"})
      BY <3>1, FS_AddElement
    <3>3. IsFiniteSet(({"authenticated"} \cup {"owner"}) \cup {"values"})
      BY <3>2, FS_AddElement
    <3>4. IsFiniteSet((({"authenticated"} \cup {"owner"}) \cup {"values"}) \cup {"where"})
      BY <3>3, FS_AddElement
    <3>5. (({"authenticated"} \cup {"owner"}) \cup {"values"}) \cup {"where"} = {"authenticated", "owner", "values", "where"}
      OBVIOUS
    <3> QED BY <3>4, <3>5, Zenon
  <2>2. P \subseteq {"authenticated", "owner", "values", "where"}
    OBVIOUS
  <2> QED BY <2>1, <2>2, FS_Subset
<1> HIDE DEF P
<1>4. \E p : P = {p}
  BY <1>1, <1>3, FS_Singleton
<1> QED BY <1>2, <1>4

LEMMA AuthorisationAllows ==
  ASSUME NEW user, NEW claims, NEW owner, ConfigValidate(gConf), gConf.auth # "none",
         evaluateAuthorization(user, claims, owner)
  PROVE  user = owner \/ \E rule \in gConf.rules : ~rule.owner /\ RuleMatches(rule, claims, FALSE)
<1>1. PICK rule \in gConf.rules : RuleMatches(rule, claims, user # "none" /\ user = owner)
  BY DEF evaluateAuthorization
<1>2. Predicates(rule) = 1
  BY DEF ConfigValidate, validateCommonAuthenticated, validateAuthorizationRule
<1>3. CASE rule.owner
  BY <1>1, <1>2, <1>3, OwnerRuleIsAlone DEF RuleMatches
<1>4. CASE ~rule.owner
  BY <1>1, <1>4 DEF RuleMatches
<1> QED BY <1>3, <1>4

(* In path mode a run is only reached at the public origin, so its cookies are confined.      *)
LEMMA RoutedByPath ==
  ASSUME NEW target, gConf.routing = "path", ServeRoute(target).kind = "local"
  PROVE  target.domain # "local"
<1>1. requestMatchesPublicOrigin(target)
  BY DEF ServeRoute, RouteNotFound
<1> QED BY <1>1 DEF requestMatchesPublicOrigin

LEMMA RequestServed ==
  ASSUME RunInv, NEW b \in GwBrowsers, NEW q, RequestOK(gConf, gRuns, q), gReq' = [gReq EXCEPT ![b] = q],
         UNCHANGED <<gConf, gRuns, gJar>>
  PROVE  RunInv'
<1>1. DOMAIN gReq' = GwBrowsers /\ \A x \in GwBrowsers : gReq'[x] = IF x = b THEN q ELSE gReq[x]
  BY DEF RunInv
<1>2. \A x \in GwBrowsers : RequestOK(gConf, gRuns, gReq'[x])
  BY <1>1 DEF RunInv
<1>3. ConfigValidate(gConf)'
  BY DEF RunInv
<1> QED BY <1>1, <1>2, <1>3 DEF RunInv

(* The cookies of the gateway change and the request ends.                                   *)
LEMMA JarServed ==
  ASSUME RunInv, NEW b \in GwBrowsers, NEW q, RequestOK(gConf, gRuns, q),
         gReq' = [gReq EXCEPT ![b] = q] \/ gReq' = gReq,
         NEW j, CookiesOK(gConf, gRuns, j), gJar' = [gJar EXCEPT ![b] = j],
         UNCHANGED <<gConf, gRuns>>
  PROVE  RunInv'
<1>1. DOMAIN gReq' = GwBrowsers /\ \A x \in GwBrowsers : gReq'[x] \in {q, gReq[x]}
  BY DEF RunInv
<1>2. DOMAIN gJar' = GwBrowsers /\ \A x \in GwBrowsers : gJar'[x] = IF x = b THEN j ELSE gJar[x]
  BY DEF RunInv
<1>3. \A x \in GwBrowsers : RequestOK(gConf, gRuns, gReq'[x]) /\ CookiesOK(gConf, gRuns, gJar'[x])
  BY <1>1, <1>2 DEF RunInv
<1>4. ConfigValidate(gConf)'
  BY DEF RunInv
<1> QED BY <1>1, <1>2, <1>3, <1>4 DEF RunInv

(* Runs change, but none that was known loses its key or its owner.                          *)
LEMMA RunsChange ==
  ASSUME RunInv, NEW runs, gRuns' = runs, DOMAIN runs = GwRuns,
         \A r \in GwRuns : DOMAIN runs[r] = RunFields /\ (runs[r].exists => runs[r].key \in GwKeys),
         \A r \in GwRuns : Known(gRuns, r) => runs[r].key = gRuns[r].key /\ runs[r].owner = gRuns[r].owner,
         UNCHANGED <<gConf, gReq, gJar>>
  PROVE  RunInv'
<1>1. \A r : Known(gRuns, r) => Known(runs, r) /\ runs[r].key = gRuns[r].key /\ runs[r].owner = gRuns[r].owner
  BY DEF Known
<1>2. \A c : CookieOK(gRuns, c) => CookieOK(runs, c)
  BY <1>1 DEF CookieOK
<1>3. ASSUME NEW b \in GwBrowsers PROVE RequestOK(gConf, runs, gReq[b]) /\ CookiesOK(gConf, runs, gJar[b])
  <2>1. RequestOK(gConf, gRuns, gReq[b]) /\ CookiesOK(gConf, gRuns, gJar[b])
    BY DEF RunInv
  <2>2. RequestOK(gConf, runs, gReq[b])
    BY <1>1, <2>1 DEF RequestOK
  <2>3. CookiesOK(gConf, runs, gJar[b])
    BY <1>2, <2>1 DEF CookiesOK
  <2> QED BY <2>2, <2>3
<1>4. ConfigValidate(gConf)'
  BY DEF RunInv
<1> QED BY <1>3, <1>4 DEF RunInv

LEMMA IdleRequest == ASSUME NEW conf, NEW runs PROVE RequestOK(conf, runs, Idle)
BY IdleFields DEF RequestOK

LEMMA RunsKept ==
  ASSUME RunInv, [GatewayNext]_gatewayVars
  PROVE  RunInv'
<1>1. ASSUME UNCHANGED <<gConf, gJar, gReq, gRuns>> PROVE RunInv'
  <2>1. ConfigValidate(gConf)'
    BY <1>1 DEF RunInv
  <2> QED BY <1>1, <2>1 DEF RunInv
<1>2. ASSUME GatewayRestart PROVE RunInv'
  <2>1. gReq' = [b \in GwBrowsers |-> Idle] /\ UNCHANGED <<gConf, gJar, gRuns>>
    BY <1>2 DEF GatewayRestart
  <2>2. \A b \in GwBrowsers : RequestOK(gConf, gRuns, gReq'[b])
    BY <2>1, IdleRequest
  <2>3. ConfigValidate(gConf)'
    BY <2>1 DEF RunInv
  <2> QED BY <2>1, <2>2, <2>3 DEF RunInv
<1>3. ASSUME NEW r \in GwRuns, RunDeleted(r) \/ PodGone(r) PROVE RunInv'
  <2> DEFINE deleted == [gRuns[r] EXCEPT !.exists = FALSE]
             stopped == [gRuns[r] EXCEPT !.ready = FALSE]
  <2>1. /\ (gRuns' = [gRuns EXCEPT ![r] = deleted] \/ gRuns' = [gRuns EXCEPT ![r] = stopped])
        /\ UNCHANGED <<gConf, gJar, gReq>>
    BY <1>3 DEF RunDeleted, PodGone
  <2>2. DOMAIN gRuns[r] = RunFields /\ DOMAIN gRuns = GwRuns
    BY DEF RunInv
  <2>3. /\ DOMAIN deleted = RunFields /\ ~deleted.exists /\ deleted.key = gRuns[r].key
        /\ deleted.owner = gRuns[r].owner
    BY <2>2 DEF RunFields
  <2>4. /\ DOMAIN stopped = RunFields /\ stopped.exists = gRuns[r].exists /\ stopped.key = gRuns[r].key
        /\ stopped.owner = gRuns[r].owner
    BY <2>2 DEF RunFields
  <2> HIDE DEF deleted, stopped
  <2>5. CASE gRuns' = [gRuns EXCEPT ![r] = deleted]
    <3>1. DOMAIN gRuns' = GwRuns /\ \A x \in GwRuns : gRuns'[x] = IF x = r THEN deleted ELSE gRuns[x]
      BY <2>2, <2>5
    <3>2. \A x \in GwRuns : DOMAIN gRuns'[x] = RunFields /\ (gRuns'[x].exists => gRuns'[x].key \in GwKeys)
      BY <2>3, <3>1 DEF RunInv
    <3>3. \A x \in GwRuns : gRuns'[x].key = gRuns[x].key /\ gRuns'[x].owner = gRuns[x].owner
      BY <2>3, <3>1
    <3> QED BY <2>1, <3>1, <3>2, <3>3, RunsChange
  <2>6. CASE gRuns' = [gRuns EXCEPT ![r] = stopped]
    <3>1. DOMAIN gRuns' = GwRuns /\ \A x \in GwRuns : gRuns'[x] = IF x = r THEN stopped ELSE gRuns[x]
      BY <2>2, <2>6
    <3>2. \A x \in GwRuns : DOMAIN gRuns'[x] = RunFields /\ (gRuns'[x].exists => gRuns'[x].key \in GwKeys)
      BY <2>4, <3>1 DEF RunInv
    <3>3. \A x \in GwRuns : gRuns'[x].key = gRuns[x].key /\ gRuns'[x].owner = gRuns[x].owner
      BY <2>4, <3>1
    <3> QED BY <2>1, <3>1, <3>2, <3>3, RunsChange
  <2> QED BY <2>1, <2>5, <2>6
<1>4. ASSUME NEW r \in GwRuns, NEW key \in GwKeys, NEW owner, RunCreated(r, key, owner) PROVE RunInv'
  <2> DEFINE run == [exists |-> TRUE, key |-> key, owner |-> owner, ready |-> TRUE]
  <2>1. gRuns[r] = NoRun /\ gRuns' = [gRuns EXCEPT ![r] = run] /\ UNCHANGED <<gConf, gJar, gReq>>
    BY <1>4 DEF RunCreated
  <2>2. DOMAIN run = RunFields /\ run.key = key
    BY DEF RunFields
  <2>3. ~Known(gRuns, r)
    BY <2>1 DEF Known, NoRun
  <2> HIDE DEF run
  <2>4. DOMAIN gRuns' = GwRuns /\ \A x \in GwRuns : gRuns'[x] = IF x = r THEN run ELSE gRuns[x]
    BY <2>1 DEF RunInv
  <2>5. \A x \in GwRuns : DOMAIN gRuns'[x] = RunFields /\ (gRuns'[x].exists => gRuns'[x].key \in GwKeys)
    BY <2>2, <2>4 DEF RunInv
  <2>6. ASSUME NEW x \in GwRuns, Known(gRuns, x)
        PROVE  gRuns'[x].key = gRuns[x].key /\ gRuns'[x].owner = gRuns[x].owner
    <3>1. x # r
      BY <2>3, <2>6
    <3>2. gRuns'[x] = gRuns[x]
      BY <2>4, <3>1
    <3> QED BY <3>2
  <2> DEFINE runs == gRuns'
  <2>7. gRuns' = runs /\ DOMAIN runs = GwRuns /\ UNCHANGED <<gConf, gReq, gJar>>
    BY <2>1, <2>4
  <2>8. \A x \in GwRuns : DOMAIN runs[x] = RunFields /\ (runs[x].exists => runs[x].key \in GwKeys)
    BY <2>5
  <2>9. \A x \in GwRuns : Known(gRuns, x) => runs[x].key = gRuns[x].key /\ runs[x].owner = gRuns[x].owner
    BY <2>6
  <2> HIDE DEF runs
  <2> QED BY <2>7, <2>8, <2>9, RunsChange
<1>5. ASSUME NEW b \in GwBrowsers, handleLogin(b) PROVE RunInv'
  <2> DEFINE jar == [gJar[b] EXCEPT !.login = Len(gFlows) + 1]
  <2>1. gJar' = [gJar EXCEPT ![b] = jar] /\ UNCHANGED <<gConf, gReq, gRuns>>
    BY <1>5 DEF handleLogin, Jar
  <2>2. DOMAIN jar = JarFields /\ jar.app = gJar[b].app
    BY DEF RunInv, CookiesOK, JarFields
  <2> HIDE DEF jar
  <2>3. CookiesOK(gConf, gRuns, jar)
    BY <2>2 DEF RunInv, CookiesOK
  <2> QED BY <2>1, <2>3, IdleRequest, JarServed
<1>6. ASSUME NEW b \in GwBrowsers, NEW f, handleCallback(b, f) PROVE RunInv'
  <2> DEFINE q == [Idle EXCEPT !.at = "login", !.user = gFlows[f].user, !.flow = f]
  <2>1. gReq' = [gReq EXCEPT ![b] = q] /\ UNCHANGED <<gConf, gJar, gRuns>>
    BY <1>6 DEF handleCallback, Serve
  <2>2. DOMAIN q = ReqFields /\ q.at = "login"
    BY DEF Idle, ReqFields
  <2> HIDE DEF q
  <2> QED BY <2>1, <2>2, RequestServed DEF RequestOK
<1>7. ASSUME NEW b \in GwBrowsers, (\E claims \in GwClaims : finishLogin(b, claims))
               \/ (\E cleared \in BOOLEAN : loginUnavailable(b, cleared)) \/ handleLogout(b)
      PROVE  RunInv'
  <2> DEFINE in == [gJar[b] EXCEPT !.session = gReq[b].flow, !.login = NoFlow]
             out == [gJar[b] EXCEPT !.login = NoFlow]
             ended == [gJar[b] EXCEPT !.session = NoFlow, !.login = NoFlow]
  <2>1. /\ (gReq' = [gReq EXCEPT ![b] = Idle] \/ gReq' = gReq) /\ UNCHANGED <<gConf, gRuns>>
        /\ \/ gJar' = [gJar EXCEPT ![b] = in] \/ gJar' = [gJar EXCEPT ![b] = out]
           \/ gJar' = [gJar EXCEPT ![b] = ended] \/ gJar' = [gJar EXCEPT ![b] = gJar[b]]
    BY <1>7 DEF finishLogin, loginUnavailable, handleLogout, Serve, Jar
  <2>2. DOMAIN gJar[b] = JarFields /\ CookiesOK(gConf, gRuns, gJar[b])
    BY DEF RunInv, CookiesOK
  <2>3. DOMAIN in = JarFields /\ in.app = gJar[b].app
    BY <2>2 DEF JarFields
  <2>4. DOMAIN out = JarFields /\ out.app = gJar[b].app
    BY <2>2 DEF JarFields
  <2>5. DOMAIN ended = JarFields /\ ended.app = gJar[b].app
    BY <2>2 DEF JarFields
  <2> HIDE DEF in, out, ended
  <2>6. CookiesOK(gConf, gRuns, in) /\ CookiesOK(gConf, gRuns, out) /\ CookiesOK(gConf, gRuns, ended)
    BY <2>2, <2>3, <2>4, <2>5 DEF CookiesOK
  <2>7. RequestOK(gConf, gRuns, Idle)
    BY IdleRequest
  <2> QED BY <2>1, <2>2, <2>6, <2>7, JarServed
<1>8. ASSUME NEW b \in GwBrowsers, NEW target, NEW f, Authenticate(b, target, f) PROVE RunInv'
  <2> DEFINE route == ServeRoute(target)
             byPath == IF route.kind = "local" THEN target.domain # "local" ELSE gConf.routing = "path"
             request == [Idle EXCEPT !.at = "authenticated", !.key = route.key, !.local = (route.kind = "local"), !.byPath = byPath]
             signed == [request EXCEPT !.flow = f, !.user = gSessions[f].user, !.claims = gSessions[f].claims]
             jar == [gJar[b] EXCEPT !.session = NoFlow]
  <2>1. gConf.routing = "path" => byPath
    BY RoutedByPath
  <2>2. \/ gReq' = [gReq EXCEPT ![b] = request] /\ gJar' = gJar
        \/ gReq' = [gReq EXCEPT ![b] = signed] /\ gJar' = gJar
        \/ gReq' = gReq /\ gJar' = [gJar EXCEPT ![b] = jar]
    BY <1>8, Zenon DEF Authenticate, Serve, Jar
  <2>3. UNCHANGED <<gConf, gRuns>>
    BY <1>8 DEF Authenticate
  <2> HIDE DEF byPath, route
  <2>4. DOMAIN request = ReqFields /\ request.at = "authenticated" /\ request.byPath = byPath
    BY DEF Idle, ReqFields
  <2> HIDE DEF request
  <2>5. DOMAIN signed = ReqFields /\ signed.at = "authenticated" /\ signed.byPath = byPath
    BY <2>4 DEF ReqFields
  <2>6. DOMAIN jar = JarFields /\ jar.app = gJar[b].app
    BY DEF RunInv, CookiesOK, JarFields
  <2> HIDE DEF signed, jar
  <2>7. RequestOK(gConf, gRuns, request) /\ RequestOK(gConf, gRuns, signed)
    BY <2>1, <2>4, <2>5 DEF RequestOK
  <2>8. CookiesOK(gConf, gRuns, jar)
    BY <2>6 DEF RunInv, CookiesOK
  <2>9. CASE gReq' = [gReq EXCEPT ![b] = request] /\ gJar' = gJar
    BY <2>3, <2>7, <2>9, RequestServed
  <2>10. CASE gReq' = [gReq EXCEPT ![b] = signed] /\ gJar' = gJar
    BY <2>3, <2>7, <2>10, RequestServed
  <2>11. CASE gReq' = gReq /\ gJar' = [gJar EXCEPT ![b] = jar]
    BY <2>3, <2>7, <2>8, <2>11, JarServed
  <2> QED BY <2>2, <2>9, <2>10, <2>11
<1>9. ASSUME NEW b \in GwBrowsers, NEW r \in GwRuns, resolveAgentRun(b, r) \/ serveAuthorizedLocalRun(b, r)
      PROVE  RunInv'
  <2> DEFINE authorised == [gReq[b] EXCEPT !.at = "authorised", !.run = r, !.owner = gRuns[r].owner]
             proxied == [gReq[b] EXCEPT !.at = "proxied", !.run = r, !.owner = gRuns[r].owner]
  <2>1. gReq[b].at = "authenticated" /\ gRuns[r].exists /\ UNCHANGED <<gConf, gRuns, gJar>>
    BY <1>9 DEF resolveAgentRun, serveAuthorizedLocalRun, Named
  <2>2. \/ gReq' = [gReq EXCEPT ![b] = Idle]
        \/ /\ gReq' = [gReq EXCEPT ![b] = authorised] \/ gReq' = [gReq EXCEPT ![b] = proxied]
           /\ gConf.auth = "none" \/ evaluateAuthorization(gReq[b].user, gReq[b].claims, gRuns[r].owner)
    BY <1>9 DEF resolveAgentRun, serveAuthorizedLocalRun, Serve
  <2>3. RequestOK(gConf, gRuns, gReq[b])
    BY DEF RunInv
  <2>4. Known(gRuns, r)
    BY <2>1, GatewayKeys DEF RunInv, Known
  <2>5. /\ DOMAIN authorised = ReqFields /\ authorised.at = "authorised" /\ authorised.run = r /\ authorised.owner = gRuns[r].owner
        /\ authorised.byPath = gReq[b].byPath /\ authorised.user = gReq[b].user /\ authorised.claims = gReq[b].claims
    BY <2>3 DEF RequestOK, ReqFields
  <2>6. /\ DOMAIN proxied = ReqFields /\ proxied.at = "proxied" /\ proxied.run = r /\ proxied.owner = gRuns[r].owner
        /\ proxied.byPath = gReq[b].byPath /\ proxied.user = gReq[b].user /\ proxied.claims = gReq[b].claims
    BY <2>3 DEF RequestOK, ReqFields
  <2> HIDE DEF authorised, proxied
  <2>7. CASE gReq' = [gReq EXCEPT ![b] = Idle]
    BY <2>1, <2>7, IdleRequest, RequestServed
  <2>8. ASSUME gReq' = [gReq EXCEPT ![b] = authorised] \/ gReq' = [gReq EXCEPT ![b] = proxied],
               gConf.auth = "none" \/ evaluateAuthorization(gReq[b].user, gReq[b].claims, gRuns[r].owner)
        PROVE  RunInv'
    <3>1. gConf.auth # "none" =>
            \/ gReq[b].user = gRuns[r].owner
            \/ \E rule \in gConf.rules : ~rule.owner /\ RuleMatches(rule, gReq[b].claims, FALSE)
      BY <2>8, AuthorisationAllows DEF RunInv
    <3>2. Allowed(gConf, authorised) /\ Allowed(gConf, proxied)
      BY <2>5, <2>6, <3>1 DEF Allowed
    <3>3. RequestOK(gConf, gRuns, authorised) /\ RequestOK(gConf, gRuns, proxied)
      BY <2>1, <2>3, <2>4, <2>5, <2>6, <3>2 DEF RequestOK
    <3> QED BY <2>1, <2>8, <3>3, RequestServed
  <2> QED BY <2>2, <2>7, <2>8
<1>10. ASSUME NEW b \in GwBrowsers, NEW r, resolveTargetForRun(b, r) PROVE RunInv'
  <2> DEFINE q == [gReq[b] EXCEPT !.at = "proxied"]
  <2>1. gReq[b].at = "authorised" /\ gReq' = [gReq EXCEPT ![b] = q] /\ UNCHANGED <<gConf, gRuns, gJar>>
    BY <1>10 DEF resolveTargetForRun, Serve
  <2>2. RequestOK(gConf, gRuns, gReq[b])
    BY DEF RunInv
  <2>3. /\ DOMAIN q = ReqFields /\ q.at = "proxied" /\ q.run = gReq[b].run /\ q.owner = gReq[b].owner
        /\ q.byPath = gReq[b].byPath /\ q.user = gReq[b].user /\ q.claims = gReq[b].claims
    BY <2>2 DEF RequestOK, ReqFields
  <2> HIDE DEF q
  <2>4. RequestOK(gConf, gRuns, q)
    BY <2>1, <2>2, <2>3 DEF RequestOK, Allowed
  <2> QED BY <2>1, <2>4, RequestServed
<1>11. ASSUME NEW b \in GwBrowsers, ResolveNotFound(b) \/ NoRunningPod(b) PROVE RunInv'
  BY <1>11, IdleRequest, RequestServed DEF ResolveNotFound, NoRunningPod, Serve
<1>12. ASSUME NEW b \in GwBrowsers, NEW asked, filterUpstreamResponseCookies(b, asked) PROVE RunInv'
  <2> DEFINE r == gReq[b].run
             cookie == [wide |-> cookieIsWide(gReq[b].byPath, asked), local |-> r \in GwLocalRuns, key |-> gRuns[r].key, of |-> gRuns[r].owner]
             jar == [gJar[b] EXCEPT !.app = @ \cup {cookie}]
  <2>1. /\ gReq[b].at = "proxied" /\ gReq' = [gReq EXCEPT ![b] = Idle] /\ gJar' = [gJar EXCEPT ![b] = jar]
        /\ UNCHANGED <<gConf, gRuns>>
    BY <1>12 DEF filterUpstreamResponseCookies, Serve, Jar
  <2>2. RequestOK(gConf, gRuns, gReq[b]) /\ CookiesOK(gConf, gRuns, gJar[b])
    BY DEF RunInv
  <2>3. gConf.routing = "path" => CookieOK(gRuns, cookie)
    BY <2>1, <2>2 DEF RequestOK, CookieOK, cookieIsWide
  <2> HIDE DEF cookie
  <2>4. DOMAIN jar = JarFields /\ jar.app = gJar[b].app \cup {cookie}
    BY <2>2 DEF CookiesOK, JarFields
  <2> HIDE DEF jar
  <2>5. CookiesOK(gConf, gRuns, jar)
    BY <2>2, <2>3, <2>4 DEF CookiesOK
  <2> QED BY <2>1, <2>5, IdleRequest, JarServed
<1>13. ASSUME GatewayTick PROVE RunInv'
  BY <1>1, <1>13 DEF GatewayTick
<1>14. ASSUME NEW f, NEW b, ProviderSignsIn(f, b) PROVE RunInv'
  BY <1>1, <1>14 DEF ProviderSignsIn
<1>15. CASE UNCHANGED gatewayVars
  BY <1>1, <1>15 DEF gatewayVars
<1>16. CASE GatewayNext
  BY <1>2, <1>3, <1>4, <1>5, <1>6, <1>7, <1>8, <1>9, <1>10, <1>11, <1>12, <1>13, <1>14, <1>16, Zenon DEF GatewayNext
<1> QED BY <1>15, <1>16

LEMMA RunsInitially == ASSUME GatewayInit PROVE RunInv
<1>1. DOMAIN NoRun = RunFields /\ NoRun.exists = FALSE
  BY DEF NoRun, RunFields
<1>2. DOMAIN EmptyJar = JarFields /\ EmptyJar.app = {}
  BY DEF EmptyJar, JarFields
<1>3. CookiesOK(gConf, gRuns, EmptyJar) /\ RequestOK(gConf, gRuns, Idle)
  BY <1>2, IdleRequest DEF CookiesOK
<1> QED BY <1>1, <1>3 DEF GatewayInit, RunInv

LEMMA RequestsApart == ASSUME RunInv PROVE ProxiedAsAuthorised /\ CookiesConfined
<1>1. ProxiedAsAuthorised
  BY DEF RunInv, RequestOK, Allowed, ProxiedAsAuthorised
<1>2. ASSUME gConf.routing = "path", NEW b \in GwBrowsers, NEW r \in GwRuns, gRuns[r].exists,
             NEW c \in filterUpstreamRequestCookies(b, r)
      PROVE  c.of = gRuns[r].owner \/ \E other \in GwRuns \ {r} : gRuns[other].key = gRuns[r].key /\ gRuns[other].owner = c.of
  <2>1. c \in gJar[b].app /\ (c.wide \/ c.key = gRuns[r].key)
    BY <1>2 DEF filterUpstreamRequestCookies
  <2>2. CookieOK(gRuns, c)
    BY <1>2, <2>1 DEF RunInv, CookiesOK
  <2> QED BY <2>1, <2>2 DEF CookieOK, Known
<1>3. CookiesConfined
  BY <1>2 DEF CookiesConfined
<1> QED BY <1>1, <1>3

(* A proxied request reaches the run it was authorised for, for its owner or by a rule that lets    *)
(* others in, and in path mode cookies stay with the key of the run whose application set them,    *)
(* while runs end and their keys pass to others between the two lists (resolveAgentRun,          *)
(* resolveTargetForRun, filterUpstreamResponseCookies).                                          *)
THEOREM RequestsKeptApart == GatewaySpec => [](ProxiedAsAuthorised /\ CookiesConfined)
<1>1. GatewayInit => RunInv
  BY RunsInitially
<1>2. RunInv /\ [GatewayNext]_gatewayVars => RunInv'
  BY RunsKept
<1>3. RunInv => ProxiedAsAuthorised /\ CookiesConfined
  BY RequestsApart
<1> QED BY <1>1, <1>2, <1>3, PTL DEF GatewaySpec

(* What the links need of the configuration and is not validated: the callback lies below      *)
(* /oauth2 in subdomain mode too, and in path mode with local runs no key and no base path      *)
(* begins where the local runs are.  Run identifiers of the local controller are not empty.     *)
LinksUnshadowed ==
  /\ "" \notin GwKeys
  /\ \A c \in GwConfigs : ConfigValidate(c) =>
       /\ c.routing \in {"path", "subdomain"} /\ c.base \in Seq(STRING) /\ c.callback \in Seq(STRING)
       /\ validOAuthCallbackPath(c.callback)
       /\ c.routing = "path" /\ c.local => IF c.base = <<>> THEN "agents" \notin GwKeys ELSE c.base[1] # "agents"

(* Segments of a path; the literals are named because the provers do not know them as strings.  *)
Segment == STRING \cup {"", "oauth2", "login", "logout", "agents"}

NoName == ""

LEMMA PairIsPath ==
  ASSUME NEW a \in Segment, NEW e \in Segment
  PROVE  \E p \in Seq(Segment) : p = <<a, e>> /\ Len(p) = 2 /\ p[1] = a /\ p[2] = e
<1>1. <<a, e>> \in Seq(Segment)
  OBVIOUS
<1>2. Len(<<a, e>>) = 2 /\ <<a, e>>[1] = a /\ <<a, e>>[2] = e
  OBVIOUS
<1> QED BY <1>1, <1>2, Zenon

LEMMA AfterBase ==
  ASSUME NEW S, NEW base \in Seq(S), NEW p \in Seq(S)
  PROVE  /\ Len(base \o p) = Len(base) + Len(p) /\ Len(base) \in Nat
         /\ SubSeq(base \o p, 1, Len(base)) = base
         /\ SubSeq(base \o p, Len(base) + 1, Len(base \o p)) = p
         /\ \A i \in 1..Len(p) : (base \o p)[Len(base) + i] = p[i]
         /\ \A i \in 1..Len(base) : (base \o p)[i] = base[i]
<1>1. SubSeq(base \o p, 1, Len(base)) = base
  OBVIOUS
<1>2. SubSeq(base \o p, Len(base) + 1, Len(base \o p)) = p
  OBVIOUS
<1>3. /\ \A i \in 1..Len(p) : (base \o p)[Len(base) + i] = p[i]
      /\ \A i \in 1..Len(base) : (base \o p)[i] = base[i]
  OBVIOUS
<1> QED BY <1>1, <1>2, <1>3

LEMMA BelowBase ==
  ASSUME NEW base \in Seq(Segment), NEW run \in Seq(Segment), Len(run) = 2
  PROVE  pathBelowBase(base \o run, base) = {run}
<1>1. /\ Len(base \o run) = Len(base) + 2 /\ Len(base) \in Nat
      /\ SubSeq(base \o run, 1, Len(base)) = base
      /\ SubSeq(base \o run, Len(base) + 1, Len(base \o run)) = run
  BY AfterBase
<1> QED BY <1>1 DEF pathBelowBase

(* No endpoint of the gateway has the address of a run.                                      *)
LEMMA OtherPath ==
  ASSUME NEW base \in Seq(Segment), NEW run \in Seq(Segment), Len(run) = 2,
         NEW p \in Seq(Segment), Len(p) >= 2, p[2] # run[2]
  PROVE  base \o run # base \o p
<1>1. 2 \in 1..Len(p) /\ 2 \in 1..Len(run)
  OBVIOUS
<1>2. (base \o p)[Len(base) + 2] = p[2] /\ (base \o run)[Len(base) + 2] = run[2]
  BY <1>1, AfterBase
<1> QED BY <1>2

LEMMA NotPublic ==
  ASSUME gConf.base \in Seq(Segment), gConf.callback \in Seq(Segment), validOAuthCallbackPath(gConf.callback),
         NEW run \in Seq(Segment), Len(run) = 2, run[2] = NoName, NEW target, target.path = gConf.base \o run
  PROVE  ~HandlePublic(target)
<1>1. "oauth2" \in Segment /\ "login" \in Segment /\ "logout" \in Segment /\ "login" # NoName /\ "logout" # NoName
  BY DEF Segment, NoName
<1>2. PICK login \in Seq(Segment) : login = <<"oauth2", "login">> /\ Len(login) = 2 /\ login[1] = "oauth2" /\ login[2] = "login"
  BY <1>1, PairIsPath
<1>3. PICK logout \in Seq(Segment) : logout = <<"oauth2", "logout">> /\ Len(logout) = 2 /\ logout[1] = "oauth2" /\ logout[2] = "logout"
  BY <1>1, PairIsPath
<1>4. gConf.base \o run # gConf.base \o login
  <2>1. login[2] # run[2]
    BY <1>1, <1>2, Zenon
  <2>2. Len(login) = 2
    BY <1>2, Zenon
  <2>3. Len(login) >= 2
    BY <2>2
  <2> QED BY <2>1, <2>3, OtherPath
<1>5. gConf.base \o run # gConf.base \o logout
  <2>1. logout[2] # run[2]
    BY <1>1, <1>3, Zenon
  <2>2. Len(logout) = 2
    BY <1>3, Zenon
  <2>3. Len(logout) >= 2
    BY <2>2
  <2> QED BY <2>1, <2>3, OtherPath
<1>6. gConf.base \o run # gConf.base \o gConf.callback
  <2>1. Len(gConf.callback) >= 2 /\ gConf.callback[2] # run[2]
    BY DEF validOAuthCallbackPath, NoName
  <2> QED BY <2>1, OtherPath
<1> QED BY <1>2, <1>3, <1>4, <1>5, <1>6, Zenon DEF HandlePublic

LEMMA NotOneSegment == ASSUME NEW p \in Seq(Segment), Len(p) >= 2, NEW s PROVE p # <<s>>
<1>1. Len(<<s>>) = 1
  OBVIOUS
<1>2. ASSUME p = <<s>> PROVE FALSE
  <2>1. Len(p) = 1
    BY <1>1, <1>2, Zenon
  <2> QED BY ONLY <2>1, Len(p) >= 2
<1> QED BY <1>2, Zenon

(* The path of a run below the base leads to the run.                                        *)
LEMMA PathLeadsToRun ==
  ASSUME NEW base \in Seq(Segment), NEW run \in Seq(Segment), Len(run) = 2, run[2] = NoName,
         validAccessKey(run[1]), ~reservedGatewayPath(run[1]),
         NEW target, target.clean, target.path = base \o run
  PROVE  ParsePathAtBase(target, base) = [kind |-> "run", key |-> run[1]]
<1>1. pathBelowBase(target.path, base) = {run} /\ {run} # {}
  BY BelowBase
<1>2. (CHOOSE p \in {run} : TRUE) = run
  OBVIOUS
<1>3. Len(run) >= 2
  OBVIOUS
<1>4. run # <<"">>
  BY <1>3, NotOneSegment, Zenon
<1>5. ~(Len(run) < 2)
  OBVIOUS
<1>6. NoName \notin {".", ".."} /\ run[1] \notin {".", ".."}
  BY Zenon DEF NoName, validAccessKey
<1>7. ASSUME NEW i \in 1..Len(run)
      PROVE  run[i] \notin {".", ".."} /\ ~(i > 1 /\ i < Len(run))
  <2>1. i \in {1, 2} /\ ~(i > 1 /\ i < Len(run))
    OBVIOUS
  <2> QED BY <1>6, <2>1
<1>8. ~\E i \in 1..Len(run) : run[i] \in {".", ".."} \/ (i > 1 /\ i < Len(run) /\ run[i] = "")
  BY <1>7, Zenon
<1> QED BY <1>1, <1>2, <1>4, <1>5, <1>8, Zenon DEF ParsePathAtBase

(* A path that begins elsewhere is none of the local runs'.                                  *)
LEMMA NotLocal ==
  ASSUME NEW target, target.domain = "base", target.path \in Seq(Segment), Len(target.path) >= 1,
         gConf.local => target.path[1] # "agents"
  PROVE  ParseLocalRoute(target) = RouteNotFound
<1>1. CASE ~gConf.local
  BY <1>1, Zenon DEF ParseLocalRoute
<1>2. ASSUME gConf.local PROVE ParseLocalRoute(target) = RouteNotFound
  <2> DEFINE agents == <<"agents">>
  <2>1. Len(agents) = 1 /\ agents[1] = "agents"
    OBVIOUS
  <2>2. SubSeq(target.path, 1, 1)[1] = target.path[1]
    OBVIOUS
  <2> HIDE DEF agents
  <2>3. SubSeq(target.path, 1, Len(agents)) # agents
    BY <1>2, <2>1, <2>2
  <2>4. pathBelowBase(target.path, agents) = {}
    BY <2>3 DEF pathBelowBase
  <2>5. pathBelowBase(target.path, <<"agents">>) = {}
    BY <2>4, Zenon DEF agents
  <2>6. target.domain # "local"
    OBVIOUS
  <2> QED BY <1>2, <2>5, <2>6, Zenon DEF ParseLocalRoute
<1> QED BY <1>1, <1>2

(* A path of two segments or more is no health check and no dashboard of the local runs.      *)
LEMMA NotOwn ==
  ASSUME NEW target, NEW path \in Seq(Segment), target.path = path, Len(path) >= 2
  PROVE  target.path # <<"healthz">> /\ ~redirectLocalDashboardRoot(target)
BY NotOneSegment, Zenon DEF redirectLocalDashboardRoot

(* A run of the cluster, in path mode.                                                      *)
LEMMA PathLinkOpens ==
  ASSUME NEW r, gConf.routing = "path", gConf.base \in Seq(Segment), gConf.callback \in Seq(Segment),
         validOAuthCallbackPath(gConf.callback), gRuns[r].key \in Segment,
         validAccessKey(gRuns[r].key), ~reservedGatewayPath(gRuns[r].key),
         gConf.local => IF gConf.base = <<>> THEN gRuns[r].key # "agents" ELSE gConf.base[1] # "agents"
  PROVE  ServeRoute(openURL(r)) = [kind |-> "run", key |-> gRuns[r].key]
<1> DEFINE target == openURL(r)
<1>1. NoName \in Segment
  BY DEF NoName, Segment
<1>2. PICK run \in Seq(Segment) : run = <<gRuns[r].key, NoName>> /\ Len(run) = 2 /\ run[1] = gRuns[r].key /\ run[2] = NoName
  BY <1>1, PairIsPath
<1>3. target = [domain |-> "base", labels |-> <<>>, path |-> gConf.base \o <<gRuns[r].key, NoName>>, clean |-> TRUE]
  BY Zenon DEF openURL, NoName
<1>4. target.domain = "base" /\ target.labels = <<>> /\ target.clean /\ target.path = gConf.base \o <<gRuns[r].key, NoName>>
  BY <1>3
<1> HIDE DEF target
<1>5. target.path = gConf.base \o run
  BY <1>2, <1>4, Zenon
<1>6. target.path \in Seq(Segment) /\ Len(target.path) = Len(gConf.base) + 2 /\ Len(gConf.base) \in Nat
  BY <1>2, <1>5, ConcatProperties
<1>7. gConf.local => target.path[1] # "agents"
  <2>1. CASE gConf.base = <<>>
    <3>1. target.path = run
      BY <1>5, <2>1
    <3> QED BY <1>2, <2>1, <3>1
  <2>2. CASE gConf.base # <<>>
    <3>1. 1 \in 1..Len(gConf.base)
      BY <2>2
    <3>2. target.path[1] = gConf.base[1]
      BY <1>5, <3>1, AfterBase
    <3> QED BY <2>2, <3>2
  <2> QED BY <2>1, <2>2
<1>8. target.path # <<"healthz">> /\ ~redirectLocalDashboardRoot(target)
  <2>1. Len(target.path) >= 2
    BY <1>6
  <2> QED BY <1>6, <2>1, NotOwn
<1>9. pathBelowBase(target.path, gConf.base) # {}
  <2>1. pathBelowBase(gConf.base \o run, gConf.base) = {run}
    BY <1>2, BelowBase
  <2> QED BY <1>5, <2>1, Zenon
<1>10. requestMatchesPublicOrigin(target)
  BY <1>4, Zenon DEF requestMatchesPublicOrigin
<1>11. ~HandlePublic(target)
  BY <1>2, <1>5, NotPublic
<1>12. ParseLocalRoute(target) = RouteNotFound
  <2>1. Len(target.path) >= 1
    BY <1>6
  <2> QED BY <1>4, <1>6, <1>7, <2>1, NotLocal
<1>13. ParsePathAtBase(target, gConf.base) = [kind |-> "run", key |-> run[1]]
  BY <1>2, <1>4, <1>5, PathLeadsToRun
<1>14. parseRoute(target) = [kind |-> "run", key |-> gRuns[r].key]
  BY <1>2, <1>12, <1>13, Zenon DEF parseRoute
<1>15. ServeRoute(target) = parseRoute(target)
  BY <1>4, <1>8, <1>9, <1>10, <1>11, Zenon DEF ServeRoute
<1> QED BY <1>14, <1>15, Zenon DEF target

(* A run of the cluster, at a host of its own.                                               *)
LEMMA HostLinkOpens ==
  ASSUME NEW r, gConf.routing = "subdomain", gConf.base = <<>>, gConf.callback \in Seq(Segment),
         validOAuthCallbackPath(gConf.callback)
  PROVE  ServeRoute(openURL(r)) = [kind |-> "run", key |-> gRuns[r].key]
<1> DEFINE target == openURL(r)
<1>0. gConf.routing # "path"
  OBVIOUS
<1>1. target = [domain |-> "base", labels |-> <<gRuns[r].key>>, path |-> <<NoName>>, clean |-> TRUE]
  BY <1>0, Zenon DEF openURL, NoName
<1>2. target.domain = "base" /\ target.labels = <<gRuns[r].key>> /\ target.path = <<NoName>>
  BY <1>1
<1> HIDE DEF target
<1>3. target.path \in Seq(Segment) /\ Len(target.path) = 1 /\ target.path[1] = NoName
  <2>1. NoName \in Segment
    BY DEF NoName, Segment
  <2>2. <<NoName>> \in Seq(Segment) /\ Len(<<NoName>>) = 1 /\ <<NoName>>[1] = NoName
    BY <2>1
  <2> QED BY <1>2, <2>2, Zenon
<1>4. NoName # "healthz" /\ NoName # "agents" /\ NoName # "oauth2"
  BY Zenon DEF NoName
<1>5. target.path # <<"healthz">> /\ target.path # <<"agents">>
  <2>1. <<"healthz">>[1] = "healthz" /\ <<"agents">>[1] = "agents"
    OBVIOUS
  <2> QED BY <1>3, <1>4, <2>1, Zenon
<1>6. ~redirectLocalDashboardRoot(target)
  BY <1>5, Zenon DEF redirectLocalDashboardRoot
<1>7. ~HandlePublic(target)
  <2>1. <<"oauth2", "login">>[1] = "oauth2" /\ <<"oauth2", "logout">>[1] = "oauth2"
    OBVIOUS
  <2>2. gConf.callback[1] = "oauth2"
    BY DEF validOAuthCallbackPath
  <2>3. <<>> \o gConf.callback = gConf.callback
    BY ConcatEmptySeq
  <2>4. <<>> \o <<"oauth2", "login">> = <<"oauth2", "login">> /\ <<>> \o <<"oauth2", "logout">> = <<"oauth2", "logout">>
    OBVIOUS
  <2> QED BY <1>3, <1>4, <2>1, <2>2, <2>3, <2>4, Zenon DEF HandlePublic
<1>8. ParseLocalRoute(target) = RouteNotFound
  <2>1. target.path[1] # "agents"
    BY <1>3, <1>4, Zenon
  <2>2. Len(target.path) >= 1
    BY <1>3
  <2> QED BY <1>2, <1>3, <2>1, <2>2, NotLocal
<1>9. ParseHost(target) = [kind |-> "run", key |-> gRuns[r].key]
  <2>1. Len(<<gRuns[r].key>>) = 1 /\ <<gRuns[r].key>>[1] = gRuns[r].key /\ <<gRuns[r].key>> # <<>>
    OBVIOUS
  <2>2. Len(target.labels) = 1 /\ target.labels[1] = gRuns[r].key /\ target.labels # <<>>
    BY <1>2, <2>1, Zenon
  <2> QED BY <1>2, <2>2 DEF ParseHost
<1>10. parseRoute(target) = [kind |-> "run", key |-> gRuns[r].key]
  BY <1>0, <1>8, <1>9, Zenon DEF parseRoute
<1>11. ServeRoute(target) = parseRoute(target)
  BY <1>0, <1>5, <1>6, <1>7, Zenon DEF ServeRoute
<1> QED BY <1>10, <1>11, Zenon DEF target

LEMMA ConcatLength ==
  ASSUME NEW S, NEW one \in Seq(S), NEW two \in Seq(S)
  PROVE  one \o two \in Seq(S) /\ Len(one \o two) = Len(one) + Len(two)
BY ConcatProperties

LEMMA ConcatItems ==
  ASSUME NEW S, NEW one \in Seq(S), NEW two \in Seq(S)
  PROVE  /\ \A i \in 1..Len(one) : (one \o two)[i] = one[i]
         /\ \A i \in 1..Len(two) : (one \o two)[Len(one) + i] = two[i]
BY ConcatProperties

LEMMA OneAndTwo ==
  ASSUME NEW S, NEW one \in Seq(S), NEW two \in Seq(S), Len(one) = 1, Len(two) = 2
  PROVE  (one \o two)[1] = one[1] /\ (one \o two)[2] = two[1] /\ (one \o two)[3] = two[2]
<1>1. /\ \A i \in 1..Len(one) : (one \o two)[i] = one[i]
      /\ \A i \in 1..Len(two) : (one \o two)[Len(one) + i] = two[i]
  BY ConcatItems
<1>2. 1 \in 1..Len(one) /\ 1 \in 1..Len(two) /\ 2 \in 1..Len(two) /\ Len(one) + 1 = 2 /\ Len(one) + 2 = 3
  OBVIOUS
<1> QED BY <1>1, <1>2, Zenon

LEMMA Joined ==
  ASSUME NEW S, NEW one \in Seq(S), Len(one) = 1, NEW two \in Seq(S), Len(two) = 2,
         NEW three \in Seq(S), Len(three) = 3, three[1] = one[1], three[2] = two[1], three[3] = two[2]
  PROVE  one \o two = three
<1>1. one \o two \in Seq(S) /\ Len(one \o two) = 3
  <2>1. Len(one) + Len(two) = 3
    OBVIOUS
  <2> QED BY <2>1, ConcatLength, Zenon
<1>5. (one \o two)[1] = three[1] /\ (one \o two)[2] = three[2] /\ (one \o two)[3] = three[3]
  BY OneAndTwo
<1>6. \A i \in 1..3 : i = 1 \/ i = 2 \/ i = 3
  OBVIOUS
<1>7. \A i \in 1..3 : (one \o two)[i] = three[i]
  BY <1>5, <1>6, Zenon
<1> QED BY <1>1, <1>7, SeqEqual

LEMMA ThreeSegments ==
  ASSUME NEW a, NEW k, NEW e
  PROVE  <<a>> \o <<k, e>> = <<a, k, e>>
<1> DEFINE S == {a, k, e}
<1>1. <<a>> \in Seq(S) /\ Len(<<a>>) = 1 /\ <<a>>[1] = a
  OBVIOUS
<1>2. <<k, e>> \in Seq(S) /\ Len(<<k, e>>) = 2 /\ <<k, e>>[1] = k /\ <<k, e>>[2] = e
  OBVIOUS
<1>3. <<a, k, e>> \in Seq(S) /\ Len(<<a, k, e>>) = 3 /\ <<a, k, e>>[1] = a /\ <<a, k, e>>[2] = k /\ <<a, k, e>>[3] = e
  OBVIOUS
<1> HIDE DEF S
<1>4. PICK one \in Seq(S) : one = <<a>> /\ Len(one) = 1 /\ one[1] = a
  BY <1>1, Zenon
<1>5. PICK two \in Seq(S) : two = <<k, e>> /\ Len(two) = 2 /\ two[1] = k /\ two[2] = e
  BY <1>2, Zenon
<1>6. PICK three \in Seq(S) : three = <<a, k, e>> /\ Len(three) = 3 /\ three[1] = a /\ three[2] = k /\ three[3] = e
  BY <1>3, Zenon
<1>7. /\ three[1] = one[1] /\ three[2] = two[1] /\ three[3] = two[2]
      /\ Len(one) = 1 /\ Len(two) = 2 /\ Len(three) = 3
  BY <1>4, <1>5, <1>6, Zenon
<1>8. one \o two = three
  BY <1>7, Joined
<1> QED BY <1>4, <1>5, <1>6, <1>8, Zenon

LEMMA OneSegment == ASSUME NEW a \in Segment PROVE \E p \in Seq(Segment) : p = <<a>> /\ Len(p) = 1 /\ p[1] = a
<1>1. <<a>> \in Seq(Segment)
  OBVIOUS
<1>2. Len(<<a>>) = 1 /\ <<a>>[1] = a
  OBVIOUS
<1> QED BY <1>1, <1>2, Zenon

(* A local run, below its prefix.                                                            *)
LEMMA LocalLinkOpens ==
  ASSUME NEW r, gConf.local, gConf.base = <<>>, gConf.callback \in Seq(Segment),
         validOAuthCallbackPath(gConf.callback), gRuns[r].key \in Segment, gRuns[r].key # NoName
  PROVE  ServeRoute(localRunOpenURL(r)) = [kind |-> "local", key |-> gRuns[r].key]
<1> DEFINE target == localRunOpenURL(r)
           key == gRuns[r].key
<1>1. NoName \in Segment /\ "agents" \in Segment
  BY DEF NoName, Segment
<1>2. PICK run \in Seq(Segment) : run = <<key, NoName>> /\ Len(run) = 2 /\ run[1] = key /\ run[2] = NoName
  BY <1>1, PairIsPath
<1>3. PICK agents \in Seq(Segment) : agents = <<"agents">> /\ Len(agents) = 1 /\ agents[1] = "agents"
  BY <1>1, OneSegment
<1>4. target = [domain |-> "base", labels |-> <<>>, path |-> <<"agents", key, NoName>>, clean |-> TRUE]
  BY Zenon DEF localRunOpenURL, NoName
<1>5. target.domain = "base" /\ target.labels = <<>> /\ target.clean /\ target.path = <<"agents", key, NoName>>
  BY <1>4
<1> HIDE DEF target
<1>6. target.path = agents \o run
  <2>1. <<"agents">> \o <<key, NoName>> = <<"agents", key, NoName>>
    BY ThreeSegments
  <2> QED BY <1>2, <1>3, <1>5, <2>1, Zenon
<1>7. target.path \in Seq(Segment) /\ Len(target.path) = 3 /\ target.path[1] = "agents"
  <2>1. agents \o run \in Seq(Segment) /\ Len(agents \o run) = Len(agents) + Len(run) /\ (agents \o run)[1] = agents[1]
    BY <1>2, <1>3
  <2>2. Len(agents \o run) = 3
    BY <1>2, <1>3, <2>1
  <2> QED BY <1>3, <1>6, <2>1, <2>2, Zenon
<1>8. target.path # <<"healthz">> /\ ~redirectLocalDashboardRoot(target)
  <2>1. Len(target.path) >= 2
    BY <1>7
  <2> QED BY <1>7, <2>1, NotOwn
<1>9. pathBelowBase(target.path, gConf.base) # {}
  <2>1. Len(<<>>) = 0 /\ SubSeq(target.path, 1, 0) = <<>> /\ Len(target.path) > 0
    BY <1>7
  <2>2. Len(target.path) > Len(gConf.base) /\ SubSeq(target.path, 1, Len(gConf.base)) = gConf.base
    BY <2>1, Zenon
  <2> QED BY <2>2 DEF pathBelowBase
<1>10. requestMatchesPublicOrigin(target)
  BY <1>5, Zenon DEF requestMatchesPublicOrigin
<1>11. ~HandlePublic(target)
  <2>1. <<"oauth2", "login">>[1] = "oauth2" /\ <<"oauth2", "logout">>[1] = "oauth2" /\ "agents" # "oauth2"
    OBVIOUS
  <2>2. gConf.callback[1] = "oauth2"
    BY DEF validOAuthCallbackPath
  <2>3. <<>> \o gConf.callback = gConf.callback
    BY ConcatEmptySeq
  <2>4. <<>> \o <<"oauth2", "login">> = <<"oauth2", "login">> /\ <<>> \o <<"oauth2", "logout">> = <<"oauth2", "logout">>
    OBVIOUS
  <2> QED BY <1>7, <2>1, <2>2, <2>3, <2>4, Zenon DEF HandlePublic
<1>12. ParseLocalRoute(target) = [kind |-> "local", key |-> key]
  <2>1. pathBelowBase(target.path, <<"agents">>) = {run} /\ {run} # {} /\ (CHOOSE p \in {run} : TRUE) = run
    <3>1. pathBelowBase(agents \o run, agents) = {run}
      BY <1>2, BelowBase
    <3>2. {run} # {} /\ (CHOOSE p \in {run} : TRUE) = run
      OBVIOUS
    <3> QED BY <1>3, <1>6, <3>1, <3>2, Zenon
  <2>2. run # <<"">>
    <3>1. Len(run) >= 2
      BY <1>2
    <3> QED BY <3>1, NotOneSegment, Zenon
  <2> DEFINE below == pathBelowBase(target.path, <<"agents">>)
             rest == CHOOSE p \in below : TRUE
             first == {i \in 1..Len(rest) : rest[i] # "" /\ \A j \in 1..(i - 1) : rest[j] = ""}
  <2>3. {i \in 1..Len(run) : run[i] # NoName /\ \A j \in 1..(i - 1) : run[j] = NoName} = {1}
    BY <1>2
  <2>4. below # {} /\ rest = run
    BY <2>1, Zenon
  <2>7. ParseLocalRoute(target) =
          IF ~gConf.local THEN RouteNotFound
          ELSE IF target.domain = "local"
          THEN IF Len(target.labels) \in {1, 2} THEN [kind |-> "local", key |-> target.labels[Len(target.labels)]] ELSE RouteNotFound
          ELSE IF ~target.clean \/ below = {} THEN RouteNotFound
          ELSE IF rest = <<"">> THEN RouteDashboard
          ELSE IF first = {} THEN RouteNotFound ELSE [kind |-> "local", key |-> rest[CHOOSE i \in first : TRUE]]
    BY Zenon DEF ParseLocalRoute
  <2> HIDE DEF below, rest
  <2>8. first = {i \in 1..Len(run) : run[i] # NoName /\ \A j \in 1..(i - 1) : run[j] = NoName}
    BY <2>4, Zenon DEF NoName
  <2>9. first = {1}
    BY <2>3, <2>8, Zenon
  <2> HIDE DEF first
  <2>5. {1} # {} /\ run[CHOOSE i \in {1} : TRUE] = key
    BY <1>2
  <2>6. target.domain # "local"
    BY <1>5
  <2> QED BY <1>5, <2>2, <2>4, <2>5, <2>6, <2>7, <2>9, Zenon
<1>13. [kind |-> "local", key |-> key] # RouteNotFound
  BY DEF RouteNotFound
<1>14. parseRoute(target) = [kind |-> "local", key |-> key]
  BY <1>12, <1>13, Zenon DEF parseRoute
<1>15. ServeRoute(target) = parseRoute(target)
  BY <1>5, <1>8, <1>9, <1>10, <1>11, Zenon DEF ServeRoute
<1> QED BY <1>14, <1>15, Zenon DEF target

LEMMA WiderSeq == ASSUME NEW S, NEW T, S \subseteq T, NEW s \in Seq(S) PROVE s \in Seq(T)
OBVIOUS

LEMMA LinksOpen == ASSUME LinksUnshadowed, RunInv PROVE DashboardLinksOpen
<1>1. /\ gConf \in GwConfigs /\ ConfigValidate(gConf) /\ gConf.routing \in {"path", "subdomain"}
      /\ validOAuthCallbackPath(gConf.callback)
  BY DEF RunInv, LinksUnshadowed
<1>2. gConf.base \in Seq(Segment) /\ gConf.callback \in Seq(Segment)
  <2>1. gConf.base \in Seq(STRING) /\ gConf.callback \in Seq(STRING)
    BY <1>1 DEF LinksUnshadowed
  <2>2. STRING \subseteq Segment
    BY Zenon DEF Segment
  <2> QED BY <2>1, <2>2, WiderSeq
<1>3. ASSUME NEW r \in GwRuns, gRuns[r].exists PROVE gRuns[r].key \in GwKeys /\ gRuns[r].key \in Segment /\ gRuns[r].key # NoName
  <2>1. gRuns[r].key \in GwKeys
    BY <1>3 DEF RunInv
  <2> QED BY <2>1, GatewayKeys, Zenon DEF Segment, NoName, LinksUnshadowed
<1>4. ASSUME NEW user, NEW claims, NEW r \in serveDashboard(user, claims), r \in GwLocalRuns, gConf.base = <<>>
      PROVE  ServeRoute(localRunOpenURL(r)) = [kind |-> "local", key |-> gRuns[r].key]
  <2>1. r \in GwRuns /\ gRuns[r].exists /\ gConf.local
    BY <1>4, Zenon DEF serveDashboard
  <2> QED BY <1>1, <1>2, <1>3, <1>4, <2>1, LocalLinkOpens
<1>5. ASSUME NEW user, NEW claims, NEW r \in serveDashboard(user, claims), r \notin GwLocalRuns
      PROVE  ServeRoute(openURL(r)) = [kind |-> "run", key |-> gRuns[r].key]
  <2>1. /\ r \in GwRuns /\ gRuns[r].exists
        /\ gConf.routing = "path" => validAccessKey(gRuns[r].key) /\ ~reservedGatewayPath(gRuns[r].key)
    BY <1>5, Zenon DEF serveDashboard
  <2>2. CASE gConf.routing = "path"
    <3>1. gConf.local => IF gConf.base = <<>> THEN gRuns[r].key # "agents" ELSE gConf.base[1] # "agents"
      BY <1>1, <1>3, <2>1, <2>2, Zenon DEF LinksUnshadowed
    <3> QED BY <1>1, <1>2, <1>3, <2>1, <2>2, <3>1, PathLinkOpens
  <2>3. CASE gConf.routing = "subdomain"
    <3>1. gConf.base = <<>>
      BY <1>1, <2>3, Zenon DEF ConfigValidate
    <3> QED BY <1>1, <1>2, <2>3, <3>1, HostLinkOpens
  <2> QED BY <1>1, <2>2, <2>3
<1> QED BY <1>4, <1>5, Zenon DEF DashboardLinksOpen

(* With addresses that cannot shadow each other, the links of the dashboard lead to the runs they  *)
(* are for as well: requests, links and cookies for one run never lead to, or come from, another   *)
(* (serveDashboard, openURL, ServeHTTP).                                                        *)
THEOREM RunsAreKeptApart ==
  ASSUME LinksUnshadowed
  PROVE  GatewaySpec => []RunsKeptApart
<1>1. GatewayInit => RunInv
  BY RunsInitially
<1>2. RunInv /\ [GatewayNext]_gatewayVars => RunInv'
  BY RunsKept
<1>3. RunInv => RunsKeptApart
  BY RequestsApart, LinksOpen DEF RunsKeptApart
<1> QED BY <1>1, <1>2, <1>3, PTL DEF GatewaySpec
-----------------------------------------------------------------------------
(* The portal's lease.  What may become a lease carries an expiry that an eligible evaluation  *)
(* of its principal granted: a login, a session, a request, an enrolment and a call still on     *)
(* its way.  The evaluations of a principal only ever reach further.                          *)

EnrolmentFields == {"at", "who", "op", "deadline", "elig", "document", "status", "action", "cancel", "code", "ended"}
LoginFields == {"who", "admitted", "expires", "elig", "leased"}

Granted(mode, eval, p, elig) == mode = "broker" /\ p \in PtlUsers => elig \in Nat /\ elig <= eval[p]
LoginGranted(mode, eval, p, login) ==
  login # Nobody => /\ DOMAIN login = LoginFields /\ (login.leased => login.admitted)
                    /\ login.admitted => Granted(mode, eval, p, login.elig)
WebGranted(mode, eval, web) == web # Nobody => web.who \in PtlUsers /\ Granted(mode, eval, web.who, web.elig)
AskGranted(mode, eval, p, ask) == ask # Nobody => Granted(mode, eval, p, ask.elig)
EnrolmentGranted(mode, eval, x) == DOMAIN x = EnrolmentFields /\ Granted(mode, eval, x.who, x.elig)

LeaseInv ==
  /\ pClock \in Nat
  /\ DOMAIN pLogin = PtlUsers /\ DOMAIN pAsk = PtlUsers /\ DOMAIN pLease = PtlUsers /\ DOMAIN pEval = PtlUsers
  /\ DOMAIN pWeb = PtlWebIDs /\ DOMAIN pEnr = PtlIDs
  /\ \A p \in PtlUsers : /\ pEval[p] \in Nat /\ pLease[p] \in Nat /\ pLease[p] <= pEval[p]
                         /\ LoginGranted(pMode, pEval, p, pLogin[p]) /\ AskGranted(pMode, pEval, p, pAsk[p])
  /\ \A w \in PtlWebIDs : WebGranted(pMode, pEval, pWeb[w])
  /\ \A e \in PtlIDs : EnrolmentGranted(pMode, pEval, pEnr[e])
  /\ \A call \in pLate : Granted(pMode, pEval, call.who, call.elig)

(* One person's evaluation reaches further, or nobody's.                                     *)
LEMMA EvaluationGrows ==
  ASSUME LeaseInv, NEW eval, DOMAIN eval = PtlUsers, \A p \in PtlUsers : eval[p] \in Nat /\ pEval[p] <= eval[p]
  PROVE  /\ \A p, elig : Granted(pMode, pEval, p, elig) => Granted(pMode, eval, p, elig)
         /\ \A p \in PtlUsers : /\ pLease[p] <= eval[p] /\ LoginGranted(pMode, eval, p, pLogin[p])
                                /\ AskGranted(pMode, eval, p, pAsk[p])
         /\ \A w \in PtlWebIDs : WebGranted(pMode, eval, pWeb[w])
         /\ \A e \in PtlIDs : EnrolmentGranted(pMode, eval, pEnr[e])
         /\ \A call \in pLate : Granted(pMode, eval, call.who, call.elig)
<1>1. ASSUME NEW p, NEW elig, Granted(pMode, pEval, p, elig) PROVE Granted(pMode, eval, p, elig)
  <2>1. CASE pMode = "broker" /\ p \in PtlUsers
    <3>1. elig \in Nat /\ elig <= pEval[p] /\ pEval[p] \in Nat /\ eval[p] \in Nat /\ pEval[p] <= eval[p]
      BY <1>1, <2>1 DEF Granted, LeaseInv
    <3> QED BY <3>1 DEF Granted
  <2>2. CASE ~(pMode = "broker" /\ p \in PtlUsers)
    BY <2>2 DEF Granted
  <2> QED BY <2>1, <2>2
<1>2. ASSUME NEW p \in PtlUsers
      PROVE  pLease[p] <= eval[p] /\ LoginGranted(pMode, eval, p, pLogin[p]) /\ AskGranted(pMode, eval, p, pAsk[p])
  <2>1. /\ pEval[p] \in Nat /\ pLease[p] \in Nat /\ pLease[p] <= pEval[p]
        /\ LoginGranted(pMode, pEval, p, pLogin[p]) /\ AskGranted(pMode, pEval, p, pAsk[p])
    BY DEF LeaseInv
  <2>2. pLease[p] <= eval[p]
    BY <2>1
  <2> QED BY <1>1, <2>1, <2>2 DEF LoginGranted, AskGranted
<1>3. \A w \in PtlWebIDs : WebGranted(pMode, eval, pWeb[w])
  BY <1>1 DEF LeaseInv, WebGranted
<1>4. \A e \in PtlIDs : EnrolmentGranted(pMode, eval, pEnr[e])
  BY <1>1 DEF LeaseInv, EnrolmentGranted
<1>5. \A call \in pLate : Granted(pMode, eval, call.who, call.elig)
  BY <1>1 DEF LeaseInv
<1> QED BY <1>1, <1>2, <1>3, <1>4, <1>5

(* A credential is committed with an expiry that was granted.                                *)
LEMMA CommitWithin ==
  ASSUME LeaseInv, NEW who, NEW elig, Granted(pMode, pEval, who, elig), CommitCredential(who, elig)
  PROVE  DOMAIN pLease' = PtlUsers /\ \A p \in PtlUsers : pLease'[p] \in Nat /\ pLease'[p] <= pEval[p]
<1>1. CASE pMode = "broker"
  <2>1. pLease' = [pLease EXCEPT ![who] = elig]
    BY <1>1 DEF CommitCredential
  <2>2. DOMAIN pLease' = PtlUsers /\ \A p \in PtlUsers : pLease'[p] = IF p = who THEN elig ELSE pLease[p]
    BY <2>1 DEF LeaseInv
  <2>3. who \in PtlUsers => elig \in Nat /\ elig <= pEval[who]
    BY <1>1 DEF Granted
  <2> QED BY <2>2, <2>3 DEF LeaseInv
<1>2. CASE pMode # "broker"
  BY <1>2 DEF CommitCredential, brokerVars, LeaseInv
<1> QED BY <1>1, <1>2

LEMMA ExecuteWithin ==
  ASSUME LeaseInv, NEW e, NEW call, Granted(pMode, pEval, call.who, call.elig), Execute(e, call)
  PROVE  DOMAIN pLease' = PtlUsers /\ \A p \in PtlUsers : pLease'[p] \in Nat /\ pLease'[p] <= pEval[p]
BY CommitWithin DEF Execute, brokerVars, LeaseInv

(* What the steps of an enrolment's goroutine do to its row: only the end of it changes for whom *)
(* the enrolment is and how long its evidence lasts.                                         *)
Rows == DOMAIN pEnr = PtlIDs /\ \A f \in PtlIDs : DOMAIN pEnr[f] = EnrolmentFields
OnlyRow(e) == /\ DOMAIN pEnr' = PtlIDs /\ DOMAIN pEnr'[e] = EnrolmentFields
              /\ \A f \in PtlIDs : f # e => pEnr'[f] = pEnr[f]
SameEvidence(e) == pEnr'[e].who = pEnr[e].who /\ pEnr'[e].elig = pEnr[e].elig

LEMMA ToRow ==
  ASSUME Rows, NEW e \in PtlIDs, NEW at, To(e, at)
  PROVE  /\ OnlyRow(e) /\ SameEvidence(e) /\ pEnr'[e].at = at /\ pEnr'[e].document = pEnr[e].document
         /\ pEnr'[e].status = pEnr[e].status /\ pEnr'[e].cancel = pEnr[e].cancel
<1> DEFINE row == [pEnr[e] EXCEPT !.at = at]
<1>1. pEnr' = [pEnr EXCEPT ![e] = row]
  BY DEF To
<1>2. /\ DOMAIN row = EnrolmentFields /\ row.at = at /\ row.who = pEnr[e].who /\ row.elig = pEnr[e].elig
      /\ row.document = pEnr[e].document /\ row.status = pEnr[e].status /\ row.cancel = pEnr[e].cancel
  BY DEF Rows, EnrolmentFields
<1> HIDE DEF row
<1>3. pEnr'[e] = row /\ DOMAIN pEnr' = PtlIDs /\ \A f \in PtlIDs : f # e => pEnr'[f] = pEnr[f]
  BY <1>1 DEF Rows
<1> QED BY <1>2, <1>3 DEF OnlyRow, SameEvidence

LEMMA FailRow ==
  ASSUME Rows, NEW e \in PtlIDs, Fail(e) \/ pEnr' = [pEnr EXCEPT ![e] = AckFails(e)]
  PROVE  /\ OnlyRow(e) /\ SameEvidence(e) /\ pEnr'[e].at = "discard" /\ pEnr'[e].document = FALSE
         /\ pEnr'[e].status = pEnr[e].status /\ pEnr'[e].cancel = pEnr[e].cancel
<1> DEFINE row == [pEnr[e] EXCEPT !.at = "discard", !.document = FALSE]
<1>1. pEnr' = [pEnr EXCEPT ![e] = row]
  <2>1. CASE Fail(e)
    <3>1. DOMAIN pEnr[e] = EnrolmentFields
      BY DEF Rows
    <3> QED BY <2>1, <3>1 DEF Fail, Rows, EnrolmentFields
  <2>2. CASE pEnr' = [pEnr EXCEPT ![e] = AckFails(e)]
    BY <2>2 DEF AckFails
  <2> QED BY <2>1, <2>2
<1>2. /\ DOMAIN row = EnrolmentFields /\ row.at = "discard" /\ row.who = pEnr[e].who /\ row.elig = pEnr[e].elig
      /\ row.document = FALSE /\ row.status = pEnr[e].status /\ row.cancel = pEnr[e].cancel
  BY DEF Rows, EnrolmentFields
<1> HIDE DEF row
<1>3. pEnr'[e] = row /\ DOMAIN pEnr' = PtlIDs /\ \A f \in PtlIDs : f # e => pEnr'[f] = pEnr[f]
  BY <1>1 DEF Rows
<1> QED BY <1>2, <1>3 DEF OnlyRow, SameEvidence

LEMMA TakeRow ==
  ASSUME Rows, NEW e \in PtlIDs, TakeDocument(e)
  PROVE  /\ OnlyRow(e) /\ SameEvidence(e) /\ pEnr'[e].at = "check"
         /\ pEnr'[e].status = pEnr[e].status /\ pEnr'[e].cancel = pEnr[e].cancel
<1>1. pEnr' = [pEnr EXCEPT ![e].at = "check", ![e].document = TRUE]
  BY DEF TakeDocument
<1>2. DOMAIN pEnr[e] = EnrolmentFields /\ DOMAIN pEnr = PtlIDs
  BY DEF Rows
<1>3. /\ DOMAIN pEnr' = PtlIDs /\ DOMAIN pEnr'[e] = EnrolmentFields /\ \A f \in PtlIDs : f # e => pEnr'[f] = pEnr[f]
  BY <1>1, <1>2
<1>4. /\ pEnr'[e].at = "check" /\ pEnr'[e].who = pEnr[e].who /\ pEnr'[e].elig = pEnr[e].elig
      /\ pEnr'[e].status = pEnr[e].status /\ pEnr'[e].cancel = pEnr[e].cancel
  BY <1>1, <1>2 DEF EnrolmentFields
<1> QED BY <1>3, <1>4 DEF OnlyRow, SameEvidence

LEMMA publishRow ==
  ASSUME Rows, NEW e \in PtlIDs, publishAction(e)
  PROVE  /\ OnlyRow(e) /\ SameEvidence(e) /\ pEnr'[e].at = "poll" /\ pEnr'[e].document = pEnr[e].document
         /\ pEnr'[e].status = "action-required" /\ pEnr'[e].cancel = pEnr[e].cancel
<1>1. pEnr' = [pEnr EXCEPT ![e].status = "action-required", ![e].action = pRun[e].action] /\ pEnr[e].at = "poll"
  BY DEF publishAction
<1>2. DOMAIN pEnr[e] = EnrolmentFields /\ DOMAIN pEnr = PtlIDs
  BY DEF Rows
<1>3. /\ DOMAIN pEnr' = PtlIDs /\ DOMAIN pEnr'[e] = EnrolmentFields /\ \A f \in PtlIDs : f # e => pEnr'[f] = pEnr[f]
  BY <1>1, <1>2
<1>4. /\ pEnr'[e].at = pEnr[e].at /\ pEnr'[e].who = pEnr[e].who /\ pEnr'[e].elig = pEnr[e].elig
      /\ pEnr'[e].document = pEnr[e].document /\ pEnr'[e].status = "action-required" /\ pEnr'[e].cancel = pEnr[e].cancel
  BY <1>1, <1>2 DEF EnrolmentFields
<1> QED BY <1>1, <1>3, <1>4 DEF OnlyRow, SameEvidence

LEMMA ForwardRow ==
  ASSUME Rows, NEW e \in PtlIDs, ForwardCode(e)
  PROVE  /\ OnlyRow(e) /\ SameEvidence(e) /\ pEnr'[e].at \in {"poll", "delete"} /\ pEnr'[e].document = pEnr[e].document
         /\ pEnr'[e].status = pEnr[e].status /\ pEnr'[e].cancel = pEnr[e].cancel
<1>1. /\ pEnr[e].at = "poll"
      /\ pEnr' = [pEnr EXCEPT ![e].code = "sent"] \/ pEnr' = [pEnr EXCEPT ![e].at = "delete", ![e].code = "sent"]
  BY DEF ForwardCode
<1>2. DOMAIN pEnr[e] = EnrolmentFields /\ DOMAIN pEnr = PtlIDs
  BY DEF Rows
<1>3. /\ DOMAIN pEnr' = PtlIDs /\ DOMAIN pEnr'[e] = EnrolmentFields /\ \A f \in PtlIDs : f # e => pEnr'[f] = pEnr[f]
  BY <1>1, <1>2
<1>4. /\ pEnr'[e].at \in {pEnr[e].at, "delete"} /\ pEnr'[e].who = pEnr[e].who /\ pEnr'[e].elig = pEnr[e].elig
      /\ pEnr'[e].document = pEnr[e].document /\ pEnr'[e].status = pEnr[e].status /\ pEnr'[e].cancel = pEnr[e].cancel
  BY <1>1, <1>2 DEF EnrolmentFields
<1> QED BY <1>1, <1>3, <1>4 DEF OnlyRow, SameEvidence

LEMMA finishRow ==
  ASSUME Rows, NEW e \in PtlIDs, finish(e)
  PROVE  /\ OnlyRow(e) /\ pEnr'[e].elig = 0 /\ pEnr'[e].at = "done" /\ pEnr'[e].document = FALSE
         /\ pEnr'[e].cancel = pEnr[e].cancel /\ (pEnr'[e].status = "success" => pEnr[e].document)
<1> DEFINE status == IF pEnr[e].document THEN "success" ELSE IF pEnr[e].cancel = "early" THEN "cancelled" ELSE "failure"
           row == [FreshEnrolment EXCEPT !.at = "done", !.cancel = pEnr[e].cancel, !.ended = pClock, !.status = status]
<1>1. pEnr' = [pEnr EXCEPT ![e] = row]
  BY DEF finish
<1>2. status = "success" => pEnr[e].document
  OBVIOUS
<1> HIDE DEF status
<1>3. /\ DOMAIN row = EnrolmentFields /\ row.at = "done" /\ row.elig = 0 /\ row.document = FALSE /\ row.cancel = pEnr[e].cancel
      /\ row.status = status
  BY DEF FreshEnrolment, EnrolmentFields
<1> HIDE DEF row
<1>4. pEnr'[e] = row /\ DOMAIN pEnr' = PtlIDs /\ \A f \in PtlIDs : f # e => pEnr'[f] = pEnr[f]
  BY <1>1 DEF Rows
<1> QED BY <1>2, <1>3, <1>4 DEF OnlyRow

LEMMA LockedRow ==
  ASSUME Rows, NEW e \in PtlIDs
  PROVE  /\ DOMAIN cancelLocked(e) = EnrolmentFields /\ cancelLocked(e).who = pEnr[e].who
         /\ cancelLocked(e).elig = pEnr[e].elig /\ cancelLocked(e).at = pEnr[e].at
         /\ cancelLocked(e).document = pEnr[e].document /\ cancelLocked(e).status = pEnr[e].status
         /\ pEnr[e].at \notin BeforeCheck => cancelLocked(e).cancel = "late"
BY DEF Rows, cancelLocked, EnrolmentFields

(* Enrolments go on, calls are on their way, and the broker's leases stay within what was granted. *)
LEMMA EnrolmentsGoOn ==
  ASSUME LeaseInv, UNCHANGED <<pMode, pClock, pWeb, pLogin, pAsk, pEval>>,
         DOMAIN pLease' = PtlUsers, \A p \in PtlUsers : pLease'[p] \in Nat /\ pLease'[p] <= pEval[p],
         DOMAIN pEnr' = PtlIDs, \A e \in PtlIDs : EnrolmentGranted(pMode, pEval, pEnr'[e]),
         \A call \in pLate' : Granted(pMode, pEval, call.who, call.elig)
  PROVE  LeaseInv'
BY DEF LeaseInv

LEMMA LeasesAlone ==
  ASSUME LeaseInv, UNCHANGED pLease
  PROVE  DOMAIN pLease' = PtlUsers /\ \A p \in PtlUsers : pLease'[p] \in Nat /\ pLease'[p] <= pEval[p]
BY DEF LeaseInv

LEMMA CallGranted ==
  ASSUME LeaseInv, NEW e \in PtlIDs, NEW what
  PROVE  LET call == OnItsWay(e, what) IN call.id = e /\ call.what = what /\ Granted(pMode, pEval, call.who, call.elig)
BY DEF OnItsWay, LeaseInv, EnrolmentGranted

LEMMA EnrolmentStepLease ==
  ASSUME LeaseInv, NEW e \in PtlIDs, EnrolmentStep(e)
  PROVE  LeaseInv'
<1>0. Rows /\ EnrolmentGranted(pMode, pEval, pEnr[e])
  BY DEF LeaseInv, Rows, EnrolmentGranted
<1>1. OnlyRow(e) /\ (SameEvidence(e) \/ pEnr'[e].elig = 0)
  <2>1. CASE \E at : To(e, at)
    BY <1>0, <2>1, ToRow
  <2>2. CASE Fail(e) \/ pEnr' = [pEnr EXCEPT ![e] = AckFails(e)]
    BY <1>0, <2>2, FailRow
  <2>3. CASE TakeDocument(e)
    BY <1>0, <2>3, TakeRow
  <2>4. CASE publishAction(e)
    BY <1>0, <2>4, publishRow
  <2>5. CASE ForwardCode(e)
    BY <1>0, <2>5, ForwardRow
  <2>6. CASE finish(e)
    BY <1>0, <2>6, finishRow
  <2>7. CASE AckUnanswered(e)
    <3>1. CASE pEnr' = pEnr
      BY <1>0, <3>1 DEF OnlyRow, SameEvidence, Rows
    <3>2. CASE pEnr' = [pEnr EXCEPT ![e] = AckFails(e)]
      BY <2>2, <3>2
    <3> QED BY <2>7, <3>1, <3>2 DEF AckUnanswered
  <2>8. CASE StartAnswered(e) \/ StartGivenUp(e) \/ PollEnds(e) \/ DeleteArrives(e) \/ DeleteAnswered(e) \/ DeleteGivenUp(e)
               \/ Release(e)
    BY <2>1, <2>8, Zenon DEF StartAnswered, StartGivenUp, PollEnds, DeleteArrives, DeleteAnswered, DeleteGivenUp, Release
  <2>9. CASE CheckResult(e) \/ WriteFile(e) \/ SendWrite(e) \/ WriteAnswered(e) \/ WriteUnanswered(e)
    BY <2>1, <2>2, <2>9, Zenon DEF CheckResult, WriteFile, SendWrite, WriteAnswered, WriteUnanswered
  <2>10. CASE AckAnswered(e)
    BY <2>1, <2>2, <2>10, Zenon DEF AckAnswered
  <2> QED BY <2>3, <2>4, <2>5, <2>6, <2>7, <2>8, <2>9, <2>10 DEF EnrolmentStep
<1>2. \A f \in PtlIDs : EnrolmentGranted(pMode, pEval, pEnr'[f])
  <2>1. EnrolmentGranted(pMode, pEval, pEnr'[e])
    <3>1. CASE SameEvidence(e)
      BY <1>0, <1>1, <3>1 DEF OnlyRow, SameEvidence, EnrolmentGranted
    <3>2. CASE pEnr'[e].elig = 0
      BY <1>1, <3>2 DEF OnlyRow, EnrolmentGranted, Granted, LeaseInv
    <3> QED BY <1>1, <3>1, <3>2
  <2> QED BY <1>1, <2>1 DEF LeaseInv, OnlyRow
<1>3. UNCHANGED <<pMode, pClock, pWeb, pLogin, pAsk, pEval>>
  BY DEF EnrolmentStep, StartAnswered, StartGivenUp, publishAction, ForwardCode, TakeDocument, PollEnds, DeleteArrives,
         DeleteAnswered, DeleteGivenUp, CheckResult, WriteFile, SendWrite, WriteAnswered, WriteUnanswered, AckAnswered,
         AckUnanswered, Release, finish, LeavesRequests, authVars
<1>4. UNCHANGED pLease \/ Execute(e, pEnr[e])
  BY DEF EnrolmentStep, StartAnswered, StartGivenUp, publishAction, ForwardCode, TakeDocument, PollEnds, DeleteArrives,
         DeleteAnswered, DeleteGivenUp, CheckResult, WriteFile, SendWrite, WriteAnswered, WriteUnanswered, AckAnswered,
         AckUnanswered, Release, finish, LeavesStores, brokerVars
<1>5. DOMAIN pLease' = PtlUsers /\ \A p \in PtlUsers : pLease'[p] \in Nat /\ pLease'[p] <= pEval[p]
  BY <1>0, <1>4, ExecuteWithin, LeasesAlone DEF EnrolmentGranted
<1>6. pLate' \subseteq pLate \cup {OnItsWay(e, "start"), OnItsWay(e, "write")}
  BY DEF EnrolmentStep, StartAnswered, StartGivenUp, publishAction, ForwardCode, TakeDocument, PollEnds, DeleteArrives,
         DeleteAnswered, DeleteGivenUp, CheckResult, WriteFile, SendWrite, WriteAnswered, WriteUnanswered, AckAnswered,
         AckUnanswered, Release, finish
<1>7. \A call \in pLate' : Granted(pMode, pEval, call.who, call.elig)
  <2>1. \A call \in {OnItsWay(e, "start"), OnItsWay(e, "write")} : Granted(pMode, pEval, call.who, call.elig)
    BY CallGranted
  <2> QED BY <1>6, <2>1 DEF LeaseInv
<1> QED BY <1>1, <1>2, <1>3, <1>5, <1>7, EnrolmentsGoOn DEF OnlyRow

LEMMA CancelledGranted ==
  ASSUME LeaseInv, NEW p, CancelPrincipal(p)
  PROVE  DOMAIN pEnr' = PtlIDs /\ \A e \in PtlIDs : EnrolmentGranted(pMode, pEval, pEnr'[e])
<1>1. Rows
  BY DEF LeaseInv, Rows, EnrolmentGranted
<1>2. DOMAIN pEnr' = PtlIDs /\ \A e \in PtlIDs : pEnr'[e] = cancelLocked(e) \/ pEnr'[e] = pEnr[e]
  BY DEF CancelPrincipal
<1>3. ASSUME NEW e \in PtlIDs PROVE EnrolmentGranted(pMode, pEval, pEnr'[e])
  <2>1. EnrolmentGranted(pMode, pEval, pEnr[e])
    BY DEF LeaseInv
  <2>2. EnrolmentGranted(pMode, pEval, cancelLocked(e))
    BY <1>1, <2>1, LockedRow DEF EnrolmentGranted
  <2> QED BY <1>2, <2>1, <2>2
<1> QED BY <1>2, <1>3

(* Logins and sessions change; what is evaluated only reaches further.                       *)
LEMMA SignInsGoOn ==
  ASSUME LeaseInv, UNCHANGED <<pMode, pClock, pAsk, pEnr, pLate>>,
         DOMAIN pEval' = PtlUsers, \A p \in PtlUsers : pEval'[p] \in Nat /\ pEval[p] <= pEval'[p],
         DOMAIN pLease' = PtlUsers, \A p \in PtlUsers : pLease'[p] \in Nat /\ pLease'[p] <= pEval'[p],
         DOMAIN pLogin' = PtlUsers, \A p \in PtlUsers : LoginGranted(pMode, pEval', p, pLogin'[p]),
         DOMAIN pWeb' = PtlWebIDs, \A w \in PtlWebIDs : WebGranted(pMode, pEval', pWeb'[w])
  PROVE  LeaseInv'
<1>1. PICK eval : eval = pEval'
  OBVIOUS
<1>2. /\ \A p \in PtlUsers : AskGranted(pMode, eval, p, pAsk[p])
      /\ \A e \in PtlIDs : EnrolmentGranted(pMode, eval, pEnr[e])
      /\ \A call \in pLate : Granted(pMode, eval, call.who, call.elig)
  BY <1>1, EvaluationGrows
<1> QED BY <1>1, <1>2 DEF LeaseInv

LEMMA CallbackLease == ASSUME LeaseInv, NEW p \in PtlUsers, Callback(p) PROVE LeaseInv'
<1>1. PICK admitted \in BOOLEAN :
        /\ pLogin' = [pLogin EXCEPT ![p] =
             [who |-> p, admitted |-> admitted, expires |-> pClock + PtlAge, elig |-> EvaluationExpiry, leased |-> FALSE]]
        /\ pEval' = IF admitted THEN [pEval EXCEPT ![p] = Later(@, EvaluationExpiry)] ELSE pEval
  BY DEF Callback
<1> DEFINE login == [who |-> p, admitted |-> admitted, expires |-> pClock + PtlAge, elig |-> EvaluationExpiry, leased |-> FALSE]
<1>2. DOMAIN login = LoginFields /\ login.admitted = admitted /\ login.leased = FALSE /\ login.elig = EvaluationExpiry
  BY DEF LoginFields
<1>3. pLogin' = [pLogin EXCEPT ![p] = login] /\ UNCHANGED <<pMode, pClock, pWeb, pAsk, pEnr, pLate, pLease>>
  BY <1>1 DEF Callback, brokerVars
<1> HIDE DEF login
<1>4. EvaluationExpiry \in Nat
  BY PortalBounds DEF EvaluationExpiry, Earlier, LeaseInv
<1>5. /\ DOMAIN pEval' = PtlUsers /\ (admitted => EvaluationExpiry <= pEval'[p])
      /\ \A q \in PtlUsers : pEval'[q] \in Nat /\ pEval[q] <= pEval'[q]
  <2>1. CASE admitted
    <3>1. /\ DOMAIN pEval' = PtlUsers
          /\ \A q \in PtlUsers : pEval'[q] = IF q = p THEN Later(pEval[p], EvaluationExpiry) ELSE pEval[q]
      BY <1>1, <2>1 DEF LeaseInv
    <3>2. \A q \in PtlUsers : pEval[q] \in Nat
      BY DEF LeaseInv
    <3> QED BY <1>4, <3>1, <3>2 DEF Later
  <2>2. CASE ~admitted
    BY <1>1, <2>2 DEF LeaseInv
  <2> QED BY <2>1, <2>2
<1>6. PICK eval : eval = pEval'
  OBVIOUS
<1>7. /\ \A q \in PtlUsers : pLease[q] <= eval[q] /\ LoginGranted(pMode, eval, q, pLogin[q])
      /\ \A w \in PtlWebIDs : WebGranted(pMode, eval, pWeb[w])
  BY <1>5, <1>6, EvaluationGrows
<1>8. DOMAIN pLogin' = PtlUsers /\ \A q \in PtlUsers : pLogin'[q] = IF q = p THEN login ELSE pLogin[q]
  BY <1>3 DEF LeaseInv
<1>9. LoginGranted(pMode, eval, p, login)
  BY <1>2, <1>4, <1>5, <1>6 DEF LoginGranted, Granted
<1>10. \A q \in PtlUsers : LoginGranted(pMode, eval, q, pLogin'[q])
  BY <1>7, <1>8, <1>9
<1>11. DOMAIN pWeb' = PtlWebIDs /\ DOMAIN pLease' = PtlUsers /\ \A q \in PtlUsers : pLease'[q] \in Nat
  BY <1>3 DEF LeaseInv
<1> QED BY <1>3, <1>5, <1>6, <1>7, <1>8, <1>10, <1>11, SignInsGoOn

(* A session opens for evidence that was granted.                                            *)
LEMMA OpenedGranted ==
  ASSUME NEW p \in PtlUsers, NEW expires, NEW elig, NEW eval, OpenSession(p, expires, elig),
         Granted(pMode, eval, p, elig), \A w \in PtlWebIDs : WebGranted(pMode, eval, pWeb[w])
  PROVE  DOMAIN pWeb' = PtlWebIDs /\ \A w \in PtlWebIDs : WebGranted(pMode, eval, pWeb'[w])
<1> DEFINE session == [who |-> p, expires |-> expires, elig |-> elig]
<1>1. session.who = p /\ session.elig = elig
  OBVIOUS
<1>2. DOMAIN PrunedWeb = PtlWebIDs /\ \A w \in PtlWebIDs : PrunedWeb[w] = Nobody \/ PrunedWeb[w] = pWeb[w]
  BY DEF PrunedWeb
<1>3. DOMAIN pWeb' = PtlWebIDs /\ \A w \in PtlWebIDs : pWeb'[w] = PrunedWeb[w] \/ pWeb'[w] = session
  BY <1>2 DEF OpenSession
<1> HIDE DEF session
<1>4. WebGranted(pMode, eval, session) /\ WebGranted(pMode, eval, Nobody)
  BY <1>1 DEF WebGranted
<1> QED BY <1>2, <1>3, <1>4

LEMMA updateEligibilityLeaseLease == ASSUME LeaseInv, NEW p \in PtlUsers, updateEligibilityLease(p) PROVE LeaseInv'
<1> DEFINE leased == [pLogin[p] EXCEPT !.leased = TRUE]
<1>1. /\ pLogin[p] # Nobody /\ ~pLogin[p].leased /\ UNCHANGED <<pMode, pClock, pAsk, pEnr, pLate, pEval>>
      /\ \/ pLogin' = [pLogin EXCEPT ![p] = leased] /\ pLogin[p].admitted
         \/ pLogin' = [pLogin EXCEPT ![p] = Nobody]
  BY DEF updateEligibilityLease
<1>2. /\ \/ pWeb' = pWeb \/ pWeb' = invalidatePrincipalSessions(p)
      /\ \/ pLease' = pLease \/ pLease' = [pLease EXCEPT ![p] = 0]
         \/ pMode = "broker" /\ pLogin[p].admitted /\ RenewEligibility(p, pLogin[p].elig)
  BY DEF updateEligibilityLease
<1>3. DOMAIN pLogin[p] = LoginFields /\ (pLogin[p].admitted => Granted(pMode, pEval, p, pLogin[p].elig))
  BY <1>1 DEF LeaseInv, LoginGranted
<1>4. DOMAIN leased = LoginFields /\ leased.leased /\ leased.admitted = pLogin[p].admitted /\ leased.elig = pLogin[p].elig
  BY <1>3 DEF LoginFields
<1> HIDE DEF leased
<1>5. DOMAIN pLogin' = PtlUsers /\ \A q \in PtlUsers : LoginGranted(pMode, pEval, q, pLogin'[q])
  <2>1. /\ DOMAIN pLogin' = PtlUsers /\ (pLogin'[p] = Nobody \/ (pLogin'[p] = leased /\ pLogin[p].admitted))
        /\ \A q \in PtlUsers : q # p => pLogin'[q] = pLogin[q]
    BY <1>1 DEF LeaseInv
  <2>2. LoginGranted(pMode, pEval, p, pLogin'[p])
    BY <1>3, <1>4, <2>1 DEF LoginGranted
  <2> QED BY <2>1, <2>2 DEF LeaseInv
<1>6. DOMAIN pWeb' = PtlWebIDs /\ \A w \in PtlWebIDs : WebGranted(pMode, pEval, pWeb'[w])
  BY <1>2 DEF LeaseInv, WebGranted, invalidatePrincipalSessions
<1>7. DOMAIN pLease' = PtlUsers /\ \A q \in PtlUsers : pLease'[q] \in Nat /\ pLease'[q] <= pEval[q]
  <2>1. CASE pLease' = pLease
    BY <2>1 DEF LeaseInv
  <2>2. CASE pLease' = [pLease EXCEPT ![p] = 0]
    BY <2>2 DEF LeaseInv
  <2>3. ASSUME pMode = "broker", pLogin[p].admitted, RenewEligibility(p, pLogin[p].elig)
        PROVE  DOMAIN pLease' = PtlUsers /\ \A q \in PtlUsers : pLease'[q] \in Nat /\ pLease'[q] <= pEval[q]
    <3>1. pLogin[p].elig \in Nat /\ pLogin[p].elig <= pEval[p] /\ pLease[p] \in Nat /\ pLease[p] <= pEval[p] /\ pEval[p] \in Nat
      BY <1>3, <2>3 DEF Granted, LeaseInv
    <3>2. Later(pLease[p], pLogin[p].elig) \in Nat /\ Later(pLease[p], pLogin[p].elig) <= pEval[p]
      BY <3>1 DEF Later
    <3>3. pLease' = pLease \/ pLease' = [pLease EXCEPT ![p] = Later(pLease[p], pLogin[p].elig)]
      BY <2>3 DEF RenewEligibility
    <3> QED BY <3>2, <3>3 DEF LeaseInv
  <2> QED BY <1>2, <2>1, <2>2, <2>3
<1>8. DOMAIN pEval' = PtlUsers /\ \A q \in PtlUsers : pEval'[q] = pEval[q] /\ pEval[q] \in Nat /\ pEval[q] <= pEval[q]
  BY <1>1 DEF LeaseInv
<1> QED BY <1>1, <1>5, <1>6, <1>7, <1>8, SignInsGoOn

LEMMA SessionsOpenLease == ASSUME LeaseInv, NEW p \in PtlUsers, LoginCompletes(p) \/ localLogin(p) PROVE LeaseInv'
<1>1. ASSUME LoginCompletes(p) PROVE LeaseInv'
  <2>1. /\ pLogin[p] # Nobody /\ pLogin[p].leased /\ OpenSession(p, pLogin[p].expires, pLogin[p].elig)
        /\ pLogin' = [pLogin EXCEPT ![p] = Nobody] /\ UNCHANGED <<pMode, pClock, pAsk, pEnr, pLate, pLease, pEval>>
    BY <1>1 DEF LoginCompletes, brokerVars
  <2>2. Granted(pMode, pEval, p, pLogin[p].elig) /\ \A w \in PtlWebIDs : WebGranted(pMode, pEval, pWeb[w])
    BY <2>1 DEF LeaseInv, LoginGranted
  <2>3. DOMAIN pWeb' = PtlWebIDs /\ \A w \in PtlWebIDs : WebGranted(pMode, pEval, pWeb'[w])
    BY <2>1, <2>2, OpenedGranted
  <2>4. DOMAIN pLogin' = PtlUsers /\ \A q \in PtlUsers : LoginGranted(pMode, pEval, q, pLogin'[q])
    BY <2>1 DEF LeaseInv, LoginGranted
  <2> QED BY <2>1, <2>3, <2>4 DEF LeaseInv
<1>2. ASSUME localLogin(p) PROVE LeaseInv'
  <2> DEFINE expiry == pClock + PtlAge
  <2>1. /\ pMode = "file" /\ OpenSession(p, expiry, expiry) /\ pEval' = [pEval EXCEPT ![p] = Later(pEval[p], expiry)]
        /\ UNCHANGED <<pMode, pClock, pLogin, pAsk, pEnr, pLate, pLease>>
    BY <1>2 DEF localLogin, brokerVars
  <2>2. expiry \in Nat /\ \A q \in PtlUsers : pEval[q] \in Nat
    BY PortalBounds DEF LeaseInv
  <2> HIDE DEF expiry
  <2>3. DOMAIN pEval' = PtlUsers /\ \A q \in PtlUsers : pEval'[q] \in Nat /\ pEval[q] <= pEval'[q]
    <3>1. DOMAIN pEval' = PtlUsers /\ \A q \in PtlUsers : pEval'[q] = IF q = p THEN Later(pEval[p], expiry) ELSE pEval[q]
      BY <2>1 DEF LeaseInv
    <3> QED BY <2>2, <3>1 DEF Later
  <2>4. PICK eval : eval = pEval'
    OBVIOUS
  <2>5. /\ \A q \in PtlUsers : pLease[q] <= eval[q] /\ LoginGranted(pMode, eval, q, pLogin[q])
        /\ \A w \in PtlWebIDs : WebGranted(pMode, eval, pWeb[w])
    BY <2>3, <2>4, EvaluationGrows
  <2>6. Granted(pMode, eval, p, expiry)
    BY <2>1 DEF Granted
  <2>7. DOMAIN pWeb' = PtlWebIDs /\ \A w \in PtlWebIDs : WebGranted(pMode, eval, pWeb'[w])
    BY <2>1, <2>5, <2>6, OpenedGranted
  <2>8. DOMAIN pLogin' = PtlUsers /\ DOMAIN pLease' = PtlUsers /\ \A q \in PtlUsers : pLease'[q] \in Nat
    BY <2>1 DEF LeaseInv
  <2> QED BY <2>1, <2>3, <2>4, <2>5, <2>7, <2>8, SignInsGoOn
<1> QED BY <1>1, <1>2

LEMMA PrunedRow ==
  ASSUME Rows, NEW e \in PtlIDs
  PROVE  /\ DOMAIN Pruned(e) = EnrolmentFields /\ Pruned(e).who = pEnr[e].who /\ Pruned(e).elig = pEnr[e].elig
         /\ Pruned(e).document = pEnr[e].document /\ Pruned(e).status = pEnr[e].status
         /\ Pruned(e).cancel = pEnr[e].cancel
         /\ Pruned(e).at = pEnr[e].at \/ (pEnr[e].at = "done" /\ Pruned(e).at = "pruned")
BY DEF Rows, Pruned, EnrolmentFields

LEMMA StartRow ==
  ASSUME NEW p, StartEnrolment(p), pEnr' # pEnr
  PROVE  \E e, row : /\ e \in PtlIDs /\ pEnr[e].at = "new" /\ DOMAIN pEnr' = PtlIDs
                     /\ \A f \in PtlIDs : pEnr'[f] = IF f = e THEN row ELSE Pruned(f)
                     /\ DOMAIN row = EnrolmentFields /\ row.who = p /\ row.elig = pAsk[p].elig
                     /\ row.at = "start" /\ row.status = "starting"
<1>1. PICK deadline : deadline = Earlier(pClock + PtlTimeout, pAsk[p].elig)
  OBVIOUS
<1> DEFINE row == [FreshEnrolment EXCEPT !.at = "start", !.who = p, !.op = pAsk[p].op,
                                         !.deadline = deadline, !.elig = pAsk[p].elig]
<1>2. PICK e \in PtlIDs : pEnr[e].at = "new" /\ pEnr' = [f \in PtlIDs |-> IF f = e THEN row ELSE Pruned(f)]
  BY <1>1 DEF StartEnrolment
<1>3. DOMAIN pEnr' = PtlIDs /\ \A f \in PtlIDs : pEnr'[f] = IF f = e THEN row ELSE Pruned(f)
  BY <1>2
<1>4. /\ DOMAIN row = EnrolmentFields /\ row.who = p /\ row.elig = pAsk[p].elig
      /\ row.at = "start" /\ row.status = "starting"
  BY DEF FreshEnrolment, EnrolmentFields
<1> HIDE DEF row
<1> QED BY <1>2, <1>3, <1>4

LEMMA CancelRow ==
  ASSUME Rows, NEW e \in PtlIDs, CancelEnrolment(e)
  PROVE  OnlyRow(e) /\ SameEvidence(e) /\ pEnr'[e] = cancelLocked(e)
<1>1. PICK row : row = cancelLocked(e)
  OBVIOUS
<1>2. pEnr' = [pEnr EXCEPT ![e] = row]
  BY <1>1 DEF CancelEnrolment
<1>3. pEnr'[e] = row /\ DOMAIN pEnr' = PtlIDs /\ \A f \in PtlIDs : f # e => pEnr'[f] = pEnr[f]
  BY <1>2 DEF Rows
<1> QED BY <1>1, <1>3, LockedRow DEF OnlyRow, SameEvidence

LEMMA CodeRow ==
  ASSUME Rows, NEW e \in PtlIDs, ProvideCode(e)
  PROVE  /\ OnlyRow(e) /\ SameEvidence(e) /\ pEnr'[e].at = pEnr[e].at /\ pEnr'[e].document = pEnr[e].document
         /\ pEnr'[e].status = pEnr[e].status /\ pEnr'[e].cancel = pEnr[e].cancel
<1> DEFINE row == [pEnr[e] EXCEPT !.code = "given"]
<1>1. pEnr' = [pEnr EXCEPT ![e] = row]
  BY DEF ProvideCode
<1>2. /\ DOMAIN row = EnrolmentFields /\ row.at = pEnr[e].at /\ row.who = pEnr[e].who /\ row.elig = pEnr[e].elig
      /\ row.document = pEnr[e].document /\ row.status = pEnr[e].status /\ row.cancel = pEnr[e].cancel
  BY DEF Rows, EnrolmentFields
<1> HIDE DEF row
<1>3. pEnr'[e] = row /\ DOMAIN pEnr' = PtlIDs /\ \A f \in PtlIDs : f # e => pEnr'[f] = pEnr[f]
  BY <1>1 DEF Rows
<1> QED BY <1>2, <1>3 DEF OnlyRow, SameEvidence

(* What a restart of the portal leaves on its way.                                           *)
LEMMA OnTheirWay ==
  ASSUME PortalRestarts
  PROVE  \A call \in pLate' : \/ call \in pLate
                              \/ \E e \in PtlIDs, what \in {"start", "write"} :
                                   /\ call = OnItsWay(e, what) /\ Kept(e) /\ ~Over(e)
                                   /\ pEnr[e].at \in IF what = "start" THEN {"start"} ELSE {"sent", "resent"}
<1> DEFINE lost == {e \in PtlIDs : Kept(e) /\ ~Over(e)}
           onTheirWay == {OnItsWay(e, "start") : e \in {x \in lost : pEnr[x].at = "start"}}
                           \cup {OnItsWay(e, "write") : e \in {x \in lost : pEnr[x].at \in {"sent", "resent"}}}
<1>1. PICK late \in SUBSET onTheirWay : pLate' = pLate \cup late
  BY DEF PortalRestarts
<1>2. ASSUME NEW call \in onTheirWay
      PROVE  \E e \in PtlIDs, what \in {"start", "write"} :
               /\ call = OnItsWay(e, what) /\ Kept(e) /\ ~Over(e)
               /\ pEnr[e].at \in IF what = "start" THEN {"start"} ELSE {"sent", "resent"}
  <2>1. CASE call \in {OnItsWay(e, "start") : e \in {x \in lost : pEnr[x].at = "start"}}
    <3>1. PICK e \in lost : pEnr[e].at = "start" /\ call = OnItsWay(e, "start")
      BY <2>1
    <3> QED BY <3>1
  <2>2. CASE call \in {OnItsWay(e, "write") : e \in {x \in lost : pEnr[x].at \in {"sent", "resent"}}}
    <3>1. PICK e \in lost : pEnr[e].at \in {"sent", "resent"} /\ call = OnItsWay(e, "write")
      BY <2>2
    <3>2. "write" # "start"
      OBVIOUS
    <3> QED BY <3>1, <3>2
  <2> QED BY <1>2, <2>1, <2>2
<1> QED BY <1>1, <1>2

(* Requests are let in with the evidence of their session, and carried out with it.          *)
LEMMA RequestsLease ==
  ASSUME LeaseInv, NEW w \in PtlWebIDs, NEW kind, NEW op, pWeb[w] # Nobody, LetIn(w, kind, op)
  PROVE  LeaseInv'
<1>1. PICK who : who = pWeb[w].who
  OBVIOUS
<1> DEFINE ask == [who |-> who, kind |-> kind, op |-> op, elig |-> Evidence(w)]
<1>2. pAsk' = [pAsk EXCEPT ![who] = ask] /\ ask.elig = Evidence(w)
      /\ UNCHANGED <<pMode, pClock, pWeb, pLogin, pEnr, pLate, pLease, pEval>>
  BY <1>1 DEF LetIn, authVars, brokerVars
<1> HIDE DEF ask
<1>3. who \in PtlUsers /\ Granted(pMode, pEval, who, pWeb[w].elig)
  BY <1>1 DEF LeaseInv, WebGranted
<1>4. AskGranted(pMode, pEval, who, ask)
  BY <1>2, <1>3 DEF AskGranted, Granted, Evidence
<1>5. DOMAIN pAsk' = PtlUsers /\ \A p \in PtlUsers : AskGranted(pMode, pEval, p, pAsk'[p])
  BY <1>2, <1>4 DEF LeaseInv
<1> QED BY <1>2, <1>5 DEF LeaseInv

(* A request is over.                                                                        *)
LEMMA AskOver ==
  ASSUME LeaseInv, NEW p \in PtlUsers, pAsk' = [pAsk EXCEPT ![p] = Nobody]
  PROVE  DOMAIN pAsk' = PtlUsers /\ \A q \in PtlUsers : AskGranted(pMode, pEval, q, pAsk'[q])
BY DEF LeaseInv, AskGranted

LEMMA StartEnrolmentLease == ASSUME LeaseInv, NEW p \in PtlUsers, StartEnrolment(p) PROVE LeaseInv'
<1>1. /\ pAsk[p] # Nobody /\ pAsk' = [pAsk EXCEPT ![p] = Nobody]
      /\ UNCHANGED <<pMode, pClock, pWeb, pLogin, pLate, pLease, pEval>>
  BY DEF StartEnrolment, authVars, brokerVars
<1>2. Rows /\ Granted(pMode, pEval, p, pAsk[p].elig)
  BY <1>1 DEF LeaseInv, Rows, EnrolmentGranted, AskGranted
<1>3. DOMAIN pEnr' = PtlIDs /\ \A f \in PtlIDs : EnrolmentGranted(pMode, pEval, pEnr'[f])
  <2>1. CASE pEnr' = pEnr
    BY <2>1 DEF LeaseInv
  <2>2. CASE pEnr' # pEnr
    <3>1. PICK e, row :
            /\ DOMAIN pEnr' = PtlIDs /\ \A f \in PtlIDs : pEnr'[f] = IF f = e THEN row ELSE Pruned(f)
            /\ DOMAIN row = EnrolmentFields /\ row.who = p /\ row.elig = pAsk[p].elig
      BY <2>2, StartRow
    <3>4. EnrolmentGranted(pMode, pEval, row)
      BY <1>2, <3>1 DEF EnrolmentGranted
    <3>5. \A f \in PtlIDs : EnrolmentGranted(pMode, pEval, Pruned(f))
      <4> SUFFICES ASSUME NEW f \in PtlIDs PROVE EnrolmentGranted(pMode, pEval, Pruned(f))
        OBVIOUS
      <4>1. EnrolmentGranted(pMode, pEval, pEnr[f])
        BY DEF LeaseInv
      <4>2. DOMAIN Pruned(f) = EnrolmentFields /\ Pruned(f).who = pEnr[f].who /\ Pruned(f).elig = pEnr[f].elig
        BY <1>2, PrunedRow
      <4> QED BY <4>1, <4>2 DEF EnrolmentGranted
    <3> QED BY <3>1, <3>4, <3>5
  <2> QED BY <2>1, <2>2
<1>4. DOMAIN pAsk' = PtlUsers /\ \A q \in PtlUsers : AskGranted(pMode, pEval, q, pAsk'[q])
  BY <1>1, AskOver
<1> QED BY <1>1, <1>3, <1>4 DEF LeaseInv

LEMMA UploadLease == ASSUME LeaseInv, NEW p \in PtlUsers, Upload(p) PROVE LeaseInv'
<1>1. /\ pAsk[p] # Nobody /\ pAsk' = [pAsk EXCEPT ![p] = Nobody]
      /\ CommitCredential(p, pAsk[p].elig) \/ pLease' = pLease
      /\ UNCHANGED <<pMode, pClock, pWeb, pLogin, pEnr, pLate, pEval>>
  BY DEF Upload, authVars, brokerVars
<1>2. Granted(pMode, pEval, p, pAsk[p].elig)
  BY <1>1 DEF LeaseInv, AskGranted
<1>3. DOMAIN pLease' = PtlUsers /\ \A q \in PtlUsers : pLease'[q] \in Nat /\ pLease'[q] <= pEval[q]
  BY <1>1, <1>2, CommitWithin, LeasesAlone
<1>4. DOMAIN pAsk' = PtlUsers /\ \A q \in PtlUsers : AskGranted(pMode, pEval, q, pAsk'[q])
  BY <1>1, AskOver
<1> QED BY <1>1, <1>3, <1>4 DEF LeaseInv

LEMMA SessionStepLease == ASSUME LeaseInv, NEW w \in PtlWebIDs, SessionStep(w) PROVE LeaseInv'
<1>1. ASSUME Logout(w) PROVE LeaseInv'
  <2>1. /\ CancelPrincipal(pWeb[w].who) /\ pWeb' = [pWeb EXCEPT ![w] = Nobody]
        /\ UNCHANGED <<pMode, pClock, pLogin, pAsk, pLate, pLease, pEval>>
    BY <1>1 DEF Logout, brokerVars
  <2>2. DOMAIN pEnr' = PtlIDs /\ \A e \in PtlIDs : EnrolmentGranted(pMode, pEval, pEnr'[e])
    BY <2>1, CancelledGranted
  <2>3. DOMAIN pWeb' = PtlWebIDs /\ \A v \in PtlWebIDs : WebGranted(pMode, pEval, pWeb'[v])
    BY <2>1 DEF LeaseInv, WebGranted
  <2> QED BY <2>1, <2>2, <2>3 DEF LeaseInv
<1>2. ASSUME dynamicRevoke(w) PROVE LeaseInv'
  <2>1. PICK who : /\ pLease' = [pLease EXCEPT ![who] = 0] /\ (CancelPrincipal(who) \/ pEnr' = pEnr)
                   /\ UNCHANGED <<pMode, pClock, pWeb, pLogin, pAsk, pLate, pEval>>
    BY <1>2 DEF dynamicRevoke, authVars
  <2>2. DOMAIN pEnr' = PtlIDs /\ \A e \in PtlIDs : EnrolmentGranted(pMode, pEval, pEnr'[e])
    <3>1. CASE CancelPrincipal(who)
      BY <3>1, CancelledGranted
    <3>2. CASE pEnr' = pEnr
      BY <3>2 DEF LeaseInv
    <3> QED BY <2>1, <3>1, <3>2
  <2>3. DOMAIN pLease' = PtlUsers /\ \A q \in PtlUsers : pLease'[q] \in Nat /\ pLease'[q] <= pEval[q]
    BY <2>1 DEF LeaseInv
  <2> QED BY <2>1, <2>2, <2>3 DEF LeaseInv
<1>3. ASSUME dynamicConnect(w) \/ dynamicRecovery(w) \/ connect(w) \/ enroll(w) PROVE LeaseInv'
  <2>1. pWeb[w] # Nobody /\ \E kind, op : LetIn(w, kind, op)
    BY <1>3, Zenon DEF dynamicConnect, dynamicRecovery, connect, enroll
  <2> QED BY <2>1, RequestsLease
<1> QED BY <1>1, <1>2, <1>3 DEF SessionStep

(* The portal restarts: what was on its way was granted, and the rows are emptied.           *)
LEMMA PortalRestartsLease == ASSUME LeaseInv, PortalRestarts PROVE LeaseInv'
<1>1. /\ pWeb' = [w \in PtlWebIDs |-> Nobody] /\ pLogin' = [p \in PtlUsers |-> Nobody] /\ pAsk' = [p \in PtlUsers |-> Nobody]
      /\ pEnr' = [e \in PtlIDs |-> IF Kept(e) THEN [FreshEnrolment EXCEPT !.at = "lost", !.cancel = pEnr[e].cancel] ELSE pEnr[e]]
      /\ UNCHANGED <<pMode, pClock, pLease, pEval>>
  BY DEF PortalRestarts, brokerVars
<1>2. DOMAIN pEnr' = PtlIDs /\ \A e \in PtlIDs : EnrolmentGranted(pMode, pEval, pEnr'[e])
  <2> SUFFICES ASSUME NEW e \in PtlIDs PROVE EnrolmentGranted(pMode, pEval, pEnr'[e])
    BY <1>1
  <2> DEFINE row == [FreshEnrolment EXCEPT !.at = "lost", !.cancel = pEnr[e].cancel]
  <2>1. DOMAIN row = EnrolmentFields /\ row.elig = 0
    BY DEF FreshEnrolment, EnrolmentFields
  <2>2. pEnr'[e] = row \/ pEnr'[e] = pEnr[e]
    BY <1>1
  <2> HIDE DEF row
  <2>3. EnrolmentGranted(pMode, pEval, row)
    BY <2>1 DEF EnrolmentGranted, Granted, LeaseInv
  <2> QED BY <2>2, <2>3 DEF LeaseInv
<1>3. \A call \in pLate' : Granted(pMode, pEval, call.who, call.elig)
  <2>1. \A call \in pLate' : call \in pLate \/ \E e \in PtlIDs, what \in {"start", "write"} : call = OnItsWay(e, what)
    BY OnTheirWay
  <2>2. \A e \in PtlIDs, what \in {"start", "write"} : Granted(pMode, pEval, OnItsWay(e, what).who, OnItsWay(e, what).elig)
    BY CallGranted
  <2> QED BY <2>1, <2>2 DEF LeaseInv
<1>4. /\ DOMAIN pWeb' = PtlWebIDs /\ DOMAIN pLogin' = PtlUsers /\ DOMAIN pAsk' = PtlUsers
      /\ \A w \in PtlWebIDs : pWeb'[w] = Nobody
      /\ \A p \in PtlUsers : pLogin'[p] = Nobody /\ pAsk'[p] = Nobody
  BY <1>1
<1>5. /\ \A w \in PtlWebIDs : WebGranted(pMode, pEval, pWeb'[w])
      /\ \A p \in PtlUsers : LoginGranted(pMode, pEval, p, pLogin'[p]) /\ AskGranted(pMode, pEval, p, pAsk'[p])
  BY <1>4 DEF WebGranted, LoginGranted, AskGranted
<1> QED BY <1>1, <1>2, <1>3, <1>4, <1>5 DEF LeaseInv

LEMMA EnrolmentAskedLease ==
  ASSUME LeaseInv, NEW e \in PtlIDs, CancelEnrolment(e) \/ ProvideCode(e)
  PROVE  LeaseInv'
<1>1. Rows /\ EnrolmentGranted(pMode, pEval, pEnr[e])
  BY DEF LeaseInv, Rows, EnrolmentGranted
<1>2. OnlyRow(e) /\ SameEvidence(e) /\ UNCHANGED <<pMode, pClock, pWeb, pLogin, pAsk, pLate, pLease, pEval>>
  <2>1. CASE CancelEnrolment(e)
    BY <1>1, <2>1, CancelRow DEF CancelEnrolment, authVars, brokerVars
  <2>2. CASE ProvideCode(e)
    BY <1>1, <2>2, CodeRow DEF ProvideCode, authVars, brokerVars
  <2> QED BY <2>1, <2>2
<1>3. \A f \in PtlIDs : EnrolmentGranted(pMode, pEval, pEnr'[f])
  BY <1>1, <1>2 DEF LeaseInv, OnlyRow, SameEvidence, EnrolmentGranted
<1> QED BY <1>2, <1>3 DEF LeaseInv, OnlyRow

LEMMA LateCallsLease ==
  ASSUME LeaseInv, NEW call \in pLate, LateStart(call) \/ LateWrite(call)
  PROVE  LeaseInv'
<1>1. /\ UNCHANGED <<pMode, pClock, pWeb, pLogin, pAsk, pEnr, pEval>> /\ pLate' \subseteq pLate
      /\ pLease' = pLease \/ Execute(call.id, call)
  BY DEF LateStart, LateWrite, LeavesRequests, LeavesStores, authVars, brokerVars
<1>2. Granted(pMode, pEval, call.who, call.elig)
  BY DEF LeaseInv
<1>3. DOMAIN pLease' = PtlUsers /\ \A p \in PtlUsers : pLease'[p] \in Nat /\ pLease'[p] <= pEval[p]
  BY <1>1, <1>2, ExecuteWithin, LeasesAlone
<1> QED BY <1>1, <1>3, EnrolmentsGoOn DEF LeaseInv

LEMMA LeaseInvInit == PortalInit => LeaseInv
<1> SUFFICES ASSUME PortalInit PROVE LeaseInv
  OBVIOUS
<1>1. DOMAIN FreshEnrolment = EnrolmentFields /\ FreshEnrolment.elig = 0
  BY DEF FreshEnrolment, EnrolmentFields
<1>2. \A e \in PtlIDs : pEnr[e] = FreshEnrolment
  BY DEF PortalInit
<1>3. \A p \in PtlUsers : pEval[p] = 0 /\ pLease[p] = 0 /\ pLogin[p] = Nobody /\ pAsk[p] = Nobody
  BY DEF PortalInit
<1>4. \A e \in PtlIDs : EnrolmentGranted(pMode, pEval, pEnr[e])
  BY <1>1, <1>2, <1>3 DEF EnrolmentGranted, Granted
<1>5. \A w \in PtlWebIDs : WebGranted(pMode, pEval, pWeb[w])
  BY DEF PortalInit, WebGranted
<1>6. \A p \in PtlUsers : LoginGranted(pMode, pEval, p, pLogin[p]) /\ AskGranted(pMode, pEval, p, pAsk[p])
  BY <1>3 DEF LoginGranted, AskGranted
<1> QED BY <1>3, <1>4, <1>5, <1>6 DEF PortalInit, LeaseInv

LEMMA LeaseInvKept == LeaseInv /\ [PortalNext]_portalVars => LeaseInv'
<1> SUFFICES ASSUME LeaseInv, [PortalNext]_portalVars PROVE LeaseInv'
  OBVIOUS
<1>1. ASSUME NEW p \in PtlUsers, UserStep(p) PROVE LeaseInv'
  BY <1>1, CallbackLease, updateEligibilityLeaseLease, SessionsOpenLease, StartEnrolmentLease, UploadLease DEF UserStep
<1>2. ASSUME PortalTick \/ RunnerRestarts \/ (\E e \in PtlIDs : RunnerStep(e)) \/ UNCHANGED portalVars PROVE LeaseInv'
  <2>1. /\ UNCHANGED <<pMode, pWeb, pLogin, pAsk, pEnr, pLate, pLease, pEval>>
        /\ pClock' = pClock \/ pClock' = pClock + 1
    BY <1>2 DEF PortalTick, RunnerRestarts, RunnerStep, CLIPublishes, CLIEnds, expire, portalVars, authVars, brokerVars
  <2> QED BY <2>1 DEF LeaseInv
<1> QED BY <1>1, <1>2, PortalRestartsLease, LateCallsLease, SessionStepLease, EnrolmentStepLease, EnrolmentAskedLease
        DEF PortalNext

(* The broker never holds a lease longer than an eligible evaluation granted: the expiry of  *)
(* the evaluation is carried by the login, the session, the request, the enrolment and the   *)
(* call on its way, and none of auth.go, server.go, enrollment.go and broker_client.go       *)
(* extends it, whatever is lost, repeated or executed late.                                  *)
THEOREM LeasesAreGranted == PortalSpec => []LeaseFromEvaluation
<1>1. LeaseInv => LeaseFromEvaluation
  BY DEF LeaseInv, LeaseFromEvaluation
<1> QED BY <1>1, LeaseInvInit, LeaseInvKept, PTL DEF PortalSpec

-----------------------------------------------------------------------------
(* What is running, reported and stored of an enrolment agrees.  An enrolment whose result   *)
(* has been looked at without an early cancellation is past the check; only such a one       *)
(* writes, itself or through a call that was given up.                                       *)

RunnerFields == {"state", "cancelled", "expires", "action", "coded"}
Past(x) == x.at \notin BeforeCheck \cup {"new"} /\ x.cancel # "early"

\* An enrolment x, its session y at the runner, whether its credential is stored and
\* whether it gave up on a request to the runner.
RowSettles(x, y, stored, gaveUp) ==
  /\ y.state = "running" /\ ~gaveUp => x.at \in {"poll", "delete", "deleting"}
  /\ x.at = "ack" => stored
  /\ x.at \in {"discard", "discarding"} => x.document = FALSE
  /\ x.at \in {"release", "finish"} /\ x.document => stored /\ y.state \in {"acked", "gone"}
  /\ x.status \in {"success", "failure", "cancelled"} => x.at \in {"done", "pruned"}
  /\ x.status = "success" => stored /\ y.state \in {"acked", "gone"}
  /\ stored \/ x.at \in {"write", "sent", "resent"} => Past(x)

CallSettles(enr, gaveUp, call) ==
  /\ call.id \in PtlIDs
  /\ call.what = "start" => call.id \in gaveUp
  /\ call.what = "write" => Past(enr[call.id])

RunRows == DOMAIN pRun = PtlIDs /\ \A e \in PtlIDs : DOMAIN pRun[e] = RunnerFields
SettleInv ==
  /\ Rows /\ RunRows /\ pStored \subseteq PtlIDs
  /\ \A e \in PtlIDs : RowSettles(pEnr[e], pRun[e], e \in pStored, e \in pGaveUp)
  /\ \A call \in pLate : CallSettles(pEnr, pGaveUp, call)

OnlySession(e) == /\ DOMAIN pRun' = PtlIDs /\ DOMAIN pRun'[e] = RunnerFields
                  /\ \A f \in PtlIDs : f # e => pRun'[f] = pRun[f]

(* What the runner does to a session.                                                        *)
LEMMA SessionEnds ==
  ASSUME RunRows, NEW e \in PtlIDs, NEW state, Ended(e, state) \/ Removed(e, state)
  PROVE  OnlySession(e) /\ pRun'[e].state = state
<1> DEFINE ended == [FreshRun EXCEPT !.state = state, !.expires = pRun[e].expires, !.cancelled = pRun[e].cancelled]
           removed == [FreshRun EXCEPT !.state = state]
<1>1. pRun' = [pRun EXCEPT ![e] = ended] \/ pRun' = [pRun EXCEPT ![e] = removed]
  BY DEF Ended, Removed
<1>2. DOMAIN ended = RunnerFields /\ ended.state = state /\ DOMAIN removed = RunnerFields /\ removed.state = state
  BY DEF FreshRun, RunnerFields
<1> HIDE DEF ended, removed
<1>3. (pRun'[e] = ended \/ pRun'[e] = removed) /\ DOMAIN pRun' = PtlIDs /\ \A f \in PtlIDs : f # e => pRun'[f] = pRun[f]
  BY <1>1 DEF RunRows
<1> QED BY <1>2, <1>3 DEF OnlySession

LEMMA SessionStarts ==
  ASSUME RunRows, NEW e \in PtlIDs, NEW call, RunnerStarts(e, call)
  PROVE  OnlySession(e) /\ pRun'[e].state = "running"
<1>1. pRun' = [pRun EXCEPT ![e].state = "running", ![e].expires = call.deadline]
  BY DEF RunnerStarts
<1>2. DOMAIN pRun[e] = RunnerFields /\ DOMAIN pRun = PtlIDs
  BY DEF RunRows
<1>3. DOMAIN pRun' = PtlIDs /\ DOMAIN pRun'[e] = RunnerFields /\ \A f \in PtlIDs : f # e => pRun'[f] = pRun[f]
  BY <1>1, <1>2
<1>4. pRun'[e].state = "running"
  BY <1>1, <1>2 DEF RunnerFields
<1> QED BY <1>3, <1>4 DEF OnlySession

LEMMA SessionGoesOn ==
  ASSUME RunRows, NEW e \in PtlIDs,
         \/ pRun' = pRun \/ pRun' = [pRun EXCEPT ![e].cancelled = TRUE] \/ pRun' = [pRun EXCEPT ![e].coded = TRUE]
         \/ \E action : pRun' = [pRun EXCEPT ![e].action = action]
  PROVE  OnlySession(e) /\ pRun'[e].state = pRun[e].state
<1>1. DOMAIN pRun[e] = RunnerFields /\ DOMAIN pRun = PtlIDs
  BY DEF RunRows
<1>2. CASE pRun' = pRun
  BY <1>1, <1>2 DEF OnlySession
<1>3. ASSUME NEW session, pRun' = [pRun EXCEPT ![e] = session], DOMAIN session = RunnerFields, session.state = pRun[e].state
      PROVE  OnlySession(e) /\ pRun'[e].state = pRun[e].state
  BY <1>1, <1>3 DEF OnlySession
<1>4. CASE pRun' = [pRun EXCEPT ![e].cancelled = TRUE]
  <2> DEFINE session == [pRun[e] EXCEPT !.cancelled = TRUE]
  <2>1. pRun' = [pRun EXCEPT ![e] = session] /\ DOMAIN session = RunnerFields /\ session.state = pRun[e].state
    BY <1>1, <1>4 DEF RunnerFields
  <2> QED BY <2>1, <1>3
<1>5. CASE pRun' = [pRun EXCEPT ![e].coded = TRUE]
  <2> DEFINE session == [pRun[e] EXCEPT !.coded = TRUE]
  <2>1. pRun' = [pRun EXCEPT ![e] = session] /\ DOMAIN session = RunnerFields /\ session.state = pRun[e].state
    BY <1>1, <1>5 DEF RunnerFields
  <2> QED BY <2>1, <1>3
<1>6. ASSUME NEW action, pRun' = [pRun EXCEPT ![e].action = action]
      PROVE  OnlySession(e) /\ pRun'[e].state = pRun[e].state
  <2> DEFINE session == [pRun[e] EXCEPT !.action = action]
  <2>1. pRun' = [pRun EXCEPT ![e] = session] /\ DOMAIN session = RunnerFields /\ session.state = pRun[e].state
    BY <1>1, <1>6 DEF RunnerFields
  <2> QED BY <2>1, <1>3
<1> QED BY <1>2, <1>4, <1>5, <1>6

(* A step that concerns one enrolment only.                                                  *)
Concerns(e) ==
  /\ OnlyRow(e) /\ OnlySession(e)
  /\ Past(pEnr[e]) => Past(pEnr'[e])
  /\ pStored \subseteq pStored' /\ pStored' \subseteq pStored \cup {e}
  /\ pGaveUp \subseteq pGaveUp' /\ pGaveUp' \subseteq pGaveUp \cup {e}

LEMMA OneSettles ==
  ASSUME SettleInv, NEW e \in PtlIDs, Concerns(e), RowSettles(pEnr'[e], pRun'[e], e \in pStored', e \in pGaveUp'),
         \A call \in pLate' : call \in pLate \/ CallSettles(pEnr', pGaveUp', call)
  PROVE  SettleInv'
<1>1. (Rows /\ RunRows)'
  BY DEF SettleInv, Concerns, OnlyRow, OnlySession, Rows, RunRows
<1>2. ASSUME NEW f \in PtlIDs PROVE RowSettles(pEnr'[f], pRun'[f], f \in pStored', f \in pGaveUp')
  <2>1. CASE f # e
    <3>1. /\ pEnr'[f] = pEnr[f] /\ pRun'[f] = pRun[f] /\ (f \in pStored' <=> f \in pStored) /\ (f \in pGaveUp' <=> f \in pGaveUp)
      BY <2>1 DEF Concerns, OnlyRow, OnlySession
    <3>2. RowSettles(pEnr[f], pRun[f], f \in pStored, f \in pGaveUp)
      BY DEF SettleInv
    <3> QED BY <3>1, <3>2 DEF RowSettles
  <2> QED BY <2>1
<1>3. ASSUME NEW call \in pLate PROVE CallSettles(pEnr', pGaveUp', call)
  <2>1. CallSettles(pEnr, pGaveUp, call)
    BY DEF SettleInv
  <2>2. \A f \in PtlIDs : Past(pEnr[f]) => Past(pEnr'[f])
    BY DEF Concerns, OnlyRow
  <2> QED BY <2>1, <2>2 DEF CallSettles, Concerns
<1>4. pStored' \subseteq PtlIDs
  BY DEF SettleInv, Concerns
<1> QED BY <1>1, <1>2, <1>3, <1>4 DEF SettleInv

(* The call an enrolment leaves on its way.                                                  *)
LEMMA CallLeft ==
  ASSUME NEW e \in PtlIDs, NEW what
  PROVE  OnItsWay(e, what).id = e /\ OnItsWay(e, what).what = what
BY DEF OnItsWay

(* Starting and polling.                                                                     *)
LEMMA StartSettles ==
  ASSUME SettleInv, NEW e \in PtlIDs, StartAnswered(e) \/ StartGivenUp(e)
  PROVE  SettleInv'
<1>0. Rows /\ RunRows /\ RowSettles(pEnr[e], pRun[e], e \in pStored, e \in pGaveUp)
  BY DEF SettleInv
<1>1. ASSUME StartAnswered(e) PROVE SettleInv'
  <2>1. /\ pEnr[e].at = "start" /\ UNCHANGED <<pStored, pGaveUp, pLate>>
        /\ \/ RunnerStarts(e, pEnr[e]) /\ To(e, "poll")
           \/ To(e, "delete") /\ pRun' = pRun
    BY <1>1 DEF StartAnswered, LeavesStores
  <2>2. /\ OnlyRow(e) /\ OnlySession(e) /\ pEnr'[e].status = pEnr[e].status
        /\ pEnr'[e].at \in {"poll", "delete"} /\ pRun'[e].state \in {"running", pRun[e].state}
    BY <1>0, <2>1, ToRow, SessionStarts, SessionGoesOn
  <2>3. Concerns(e)
    BY <2>1, <2>2 DEF Concerns, Past, BeforeCheck
  <2>4. RowSettles(pEnr'[e], pRun'[e], e \in pStored', e \in pGaveUp')
    BY <1>0, <2>1, <2>2 DEF RowSettles, Past, BeforeCheck
  <2> QED BY <2>1, <2>3, <2>4, OneSettles
<1>2. ASSUME StartGivenUp(e) PROVE SettleInv'
  <2>1. /\ pEnr[e].at = "start" /\ To(e, "delete") /\ pRun' = pRun /\ UNCHANGED pStored /\ pGaveUp' = pGaveUp \cup {e}
        /\ pLate' \subseteq pLate \cup {OnItsWay(e, "start")}
    BY <1>2 DEF StartGivenUp, LeavesStores
  <2>2. OnlyRow(e) /\ OnlySession(e) /\ pEnr'[e].status = pEnr[e].status /\ pEnr'[e].at = "delete"
    BY <1>0, <2>1, ToRow, SessionGoesOn
  <2>3. Concerns(e)
    BY <2>1, <2>2 DEF Concerns, Past, BeforeCheck
  <2>4. RowSettles(pEnr'[e], pRun'[e], e \in pStored', e \in pGaveUp')
    BY <1>0, <2>1, <2>2 DEF RowSettles, Past, BeforeCheck
  <2>5. CallSettles(pEnr', pGaveUp', OnItsWay(e, "start"))
    BY <2>1, CallLeft DEF CallSettles
  <2> QED BY <2>1, <2>3, <2>4, <2>5, OneSettles
<1> QED BY <1>1, <1>2

LEMMA PollSettles ==
  ASSUME SettleInv, NEW e \in PtlIDs, publishAction(e) \/ ForwardCode(e) \/ TakeDocument(e) \/ PollEnds(e)
  PROVE  SettleInv'
<1>0. Rows /\ RunRows /\ RowSettles(pEnr[e], pRun[e], e \in pStored, e \in pGaveUp)
  BY DEF SettleInv
<1>1. pEnr[e].at = "poll" /\ UNCHANGED <<pStored, pGaveUp, pLate>>
  BY DEF publishAction, ForwardCode, TakeDocument, PollEnds, LeavesStores
<1>2. OnlySession(e) /\ pRun'[e].state = pRun[e].state
  <2>1. pRun' = pRun \/ pRun' = [pRun EXCEPT ![e].coded = TRUE]
    BY DEF publishAction, ForwardCode, TakeDocument, PollEnds
  <2> QED BY <1>0, <2>1, SessionGoesOn
<1>3. /\ OnlyRow(e) /\ pEnr'[e].status \in {pEnr[e].status, "action-required"}
      /\ pEnr'[e].at \in {"poll", "delete"} \/ (pEnr'[e].at = "check" /\ pRun[e].state = "success")
  <2>1. CASE publishAction(e)
    BY <1>0, <2>1, publishRow
  <2>2. CASE ForwardCode(e)
    BY <1>0, <2>2, ForwardRow
  <2>3. CASE TakeDocument(e)
    BY <1>0, <2>3, TakeRow DEF TakeDocument
  <2>4. CASE PollEnds(e)
    BY <1>0, <2>4, ToRow DEF PollEnds
  <2> QED BY <2>1, <2>2, <2>3, <2>4
<1>4. Concerns(e)
  BY <1>1, <1>2, <1>3 DEF Concerns, Past, BeforeCheck
<1>5. RowSettles(pEnr'[e], pRun'[e], e \in pStored', e \in pGaveUp')
  BY <1>0, <1>1, <1>2, <1>3 DEF RowSettles, Past, BeforeCheck
<1> QED BY <1>1, <1>4, <1>5, OneSettles

(* The session is deleted.                                                                   *)
LEMMA DeleteSettles ==
  ASSUME SettleInv, NEW e \in PtlIDs, DeleteArrives(e) \/ DeleteAnswered(e) \/ DeleteGivenUp(e)
  PROVE  SettleInv'
<1>0. Rows /\ RunRows /\ RowSettles(pEnr[e], pRun[e], e \in pStored, e \in pGaveUp)
  BY DEF SettleInv
<1>1. pEnr[e].at \in {"delete", "deleting", "discard", "discarding"} /\ UNCHANGED <<pStored, pLate>>
  BY DEF DeleteArrives, DeleteAnswered, DeleteGivenUp, LeavesStores
<1>2. PICK at : To(e, at) /\ at = pEnr'[e].at
  <2>1. \E at : To(e, at)
    BY Zenon DEF DeleteArrives, DeleteAnswered, DeleteGivenUp
  <2> QED BY <1>0, <2>1, ToRow
<1>3. /\ OnlyRow(e) /\ pEnr'[e].status = pEnr[e].status /\ pEnr'[e].cancel = pEnr[e].cancel
      /\ pEnr'[e].document = pEnr[e].document
  BY <1>0, <1>2, ToRow
<1>4. ASSUME DeleteArrives(e) PROVE SettleInv'
  <2>1. /\ OnlySession(e) /\ pRun'[e].state = pRun[e].state /\ UNCHANGED pGaveUp /\ pEnr[e].at \in {"delete", "discard"}
        /\ Present(e) => To(e, IF pEnr[e].at = "delete" THEN "deleting" ELSE "discarding")
        /\ ~Present(e) => To(e, AfterDelete(pEnr[e].at))
    BY <1>0, <1>4, SessionGoesOn DEF DeleteArrives
  <2>2. \/ pEnr[e].at = "delete" /\ pEnr'[e].at \in {"deleting", "check"}
        \/ pEnr[e].at = "discard" /\ pEnr'[e].at \in {"discarding", "release"}
    BY <1>0, <2>1, ToRow DEF AfterDelete
  <2>3. pRun[e].state = "running" => pEnr'[e].at \in {"deleting", "discarding"}
    BY <1>0, <2>1, ToRow DEF Present
  <2>4. Concerns(e)
    BY <1>1, <1>3, <2>1, <2>2 DEF Concerns, Past, BeforeCheck
  <2>5. RowSettles(pEnr'[e], pRun'[e], e \in pStored', e \in pGaveUp')
    BY <1>0, <1>1, <1>3, <2>1, <2>2, <2>3 DEF RowSettles, Past, BeforeCheck
  <2> QED BY <1>1, <2>4, <2>5, OneSettles
<1>5. ASSUME DeleteAnswered(e) PROVE SettleInv'
  <2>1. OnlySession(e) /\ pRun'[e].state = "gone" /\ UNCHANGED pGaveUp
    BY <1>0, <1>5, SessionEnds DEF DeleteAnswered
  <2>2. \/ pEnr[e].at = "deleting" /\ pEnr'[e].at = "check"
        \/ pEnr[e].at = "discarding" /\ pEnr'[e].at = "release"
    BY <1>0, <1>5, ToRow DEF DeleteAnswered, AfterDelete
  <2>3. Concerns(e)
    BY <1>1, <1>3, <2>1, <2>2 DEF Concerns, Past, BeforeCheck
  <2>4. RowSettles(pEnr'[e], pRun'[e], e \in pStored', e \in pGaveUp')
    BY <1>0, <1>1, <1>3, <2>1, <2>2 DEF RowSettles, Past, BeforeCheck
  <2> QED BY <1>1, <2>3, <2>4, OneSettles
<1>6. ASSUME DeleteGivenUp(e) PROVE SettleInv'
  <2>1. OnlySession(e) /\ pRun'[e].state = pRun[e].state /\ pGaveUp' = pGaveUp \cup {e}
    BY <1>0, <1>6, SessionGoesOn DEF DeleteGivenUp
  <2>2. \/ pEnr[e].at \in {"delete", "deleting"} /\ pEnr'[e].at = "check"
        \/ pEnr[e].at \in {"discard", "discarding"} /\ pEnr'[e].at = "release"
    BY <1>0, <1>1, <1>6, ToRow DEF DeleteGivenUp, AfterDelete
  <2>3. Concerns(e)
    BY <1>1, <1>3, <2>1, <2>2 DEF Concerns, Past, BeforeCheck
  <2>4. RowSettles(pEnr'[e], pRun'[e], e \in pStored', e \in pGaveUp')
    BY <1>0, <1>1, <1>3, <2>1, <2>2 DEF RowSettles, Past, BeforeCheck
  <2> QED BY <1>1, <2>3, <2>4, OneSettles
<1> QED BY <1>4, <1>5, <1>6

(* The result is looked at and written.                                                      *)
LEMMA CheckSettles ==
  ASSUME SettleInv, NEW e \in PtlIDs, CheckResult(e) \/ SendWrite(e)
  PROVE  SettleInv'
<1>0. Rows /\ RunRows /\ RowSettles(pEnr[e], pRun[e], e \in pStored, e \in pGaveUp)
  BY DEF SettleInv
<1>1. /\ pEnr[e].at \in {"check", "write"} /\ UNCHANGED <<pRun, pStored, pGaveUp, pLate>>
      /\ \/ pEnr[e].at = "check" /\ pEnr[e].cancel = "none" /\ To(e, "write")
         \/ pEnr[e].at = "write" /\ To(e, "sent")
         \/ Fail(e)
  BY DEF CheckResult, SendWrite, Proceeds, LeavesStores
<1>2. OnlySession(e) /\ pRun'[e].state = pRun[e].state
  BY <1>0, <1>1, SessionGoesOn
<1>3. /\ OnlyRow(e) /\ pEnr'[e].status = pEnr[e].status /\ pEnr'[e].cancel = pEnr[e].cancel
      /\ \/ pEnr[e].at = "check" /\ pEnr[e].cancel = "none" /\ pEnr'[e].at = "write"
         \/ pEnr[e].at = "write" /\ pEnr'[e].at = "sent"
         \/ pEnr'[e].at = "discard" /\ pEnr'[e].document = FALSE
  BY <1>0, <1>1, ToRow, FailRow
<1>4. Concerns(e)
  BY <1>1, <1>2, <1>3 DEF Concerns, Past, BeforeCheck
<1>5. RowSettles(pEnr'[e], pRun'[e], e \in pStored', e \in pGaveUp')
  BY <1>0, <1>1, <1>2, <1>3 DEF RowSettles, Past, BeforeCheck
<1> QED BY <1>1, <1>4, <1>5, OneSettles

LEMMA WriteSettles ==
  ASSUME SettleInv, NEW e \in PtlIDs, WriteFile(e) \/ WriteAnswered(e) \/ WriteUnanswered(e)
  PROVE  SettleInv'
<1>0. Rows /\ RunRows /\ RowSettles(pEnr[e], pRun[e], e \in pStored, e \in pGaveUp)
  BY DEF SettleInv
<1>1. /\ pEnr[e].at \in {"write", "sent", "resent"} /\ UNCHANGED <<pRun, pGaveUp>>
      /\ pLate' \subseteq pLate \cup {OnItsWay(e, "write")}
  BY DEF WriteFile, WriteAnswered, WriteUnanswered
<1>2. pStored' = pStored \/ pStored' = pStored \cup {e}
  BY DEF WriteFile, WriteAnswered, WriteUnanswered, Execute, LeavesStores
<1>3. OnlySession(e) /\ pRun'[e].state = pRun[e].state
  BY <1>0, <1>1, SessionGoesOn
<1>4. \/ e \in pStored' /\ To(e, "ack")
      \/ To(e, "resent")
      \/ Fail(e)
  BY <1>2 DEF WriteFile, WriteAnswered, WriteUnanswered
<1>5. /\ OnlyRow(e) /\ pEnr'[e].status = pEnr[e].status /\ pEnr'[e].cancel = pEnr[e].cancel
      /\ \/ e \in pStored' /\ pEnr'[e].at = "ack"
         \/ pEnr'[e].at = "resent"
         \/ pEnr'[e].at = "discard" /\ pEnr'[e].document = FALSE
  BY <1>0, <1>4, ToRow, FailRow
<1>6. Past(pEnr[e]) /\ Past(pEnr'[e])
  BY <1>0, <1>1, <1>5 DEF RowSettles, Past, BeforeCheck
<1>7. Concerns(e)
  BY <1>1, <1>2, <1>3, <1>5, <1>6 DEF Concerns
<1>8. RowSettles(pEnr'[e], pRun'[e], e \in pStored', e \in pGaveUp')
  BY <1>0, <1>1, <1>3, <1>5, <1>6 DEF RowSettles
<1>9. CallSettles(pEnr', pGaveUp', OnItsWay(e, "write"))
  BY <1>6, CallLeft DEF CallSettles
<1> QED BY <1>1, <1>7, <1>8, <1>9, OneSettles

LEMMA AckSettles ==
  ASSUME SettleInv, NEW e \in PtlIDs, AckAnswered(e) \/ AckUnanswered(e)
  PROVE  SettleInv'
<1>0. Rows /\ RunRows /\ RowSettles(pEnr[e], pRun[e], e \in pStored, e \in pGaveUp)
  BY DEF SettleInv
<1>1. /\ pEnr[e].at = "ack" /\ UNCHANGED <<pStored, pGaveUp, pLate>>
      /\ Removed(e, "acked") \/ pRun' = pRun
  BY DEF AckAnswered, AckUnanswered, LeavesStores
<1>2. OnlySession(e) /\ (pRun'[e].state = pRun[e].state \/ pRun'[e].state = "acked")
  BY <1>0, <1>1, SessionGoesOn, SessionEnds
<1>3. /\ OnlyRow(e) /\ pEnr'[e].status = pEnr[e].status /\ pEnr'[e].cancel = pEnr[e].cancel
      /\ \/ pEnr'[e].at = "release" /\ pRun'[e].state = "acked"
         \/ pEnr'[e].at = "ack"
         \/ pEnr'[e].at = "discard" /\ pEnr'[e].document = FALSE
  <2>1. CASE Removed(e, "acked") /\ To(e, "release")
    BY <1>0, <2>1, ToRow, SessionEnds
  <2>2. CASE pRun[e].state = "acked" /\ pRun' = pRun /\ To(e, "release")
    BY <1>0, <2>2, ToRow
  <2>3. CASE pEnr' = pEnr
    BY <1>0, <1>1, <2>3 DEF OnlyRow, Rows
  <2>4. CASE pEnr' = [pEnr EXCEPT ![e] = AckFails(e)]
    BY <1>0, <2>4, FailRow
  <2> QED BY <2>1, <2>2, <2>3, <2>4 DEF AckAnswered, AckUnanswered
<1>4. Concerns(e)
  BY <1>1, <1>2, <1>3 DEF Concerns, Past, BeforeCheck
<1>5. RowSettles(pEnr'[e], pRun'[e], e \in pStored', e \in pGaveUp')
  BY <1>0, <1>1, <1>2, <1>3 DEF RowSettles, Past, BeforeCheck
<1> QED BY <1>1, <1>4, <1>5, OneSettles

LEMMA FinishSettles ==
  ASSUME SettleInv, NEW e \in PtlIDs, Release(e) \/ finish(e)
  PROVE  SettleInv'
<1>0. Rows /\ RunRows /\ RowSettles(pEnr[e], pRun[e], e \in pStored, e \in pGaveUp)
  BY DEF SettleInv
<1>1. UNCHANGED <<pRun, pStored, pGaveUp, pLate>>
  BY DEF Release, finish, LeavesStores
<1>2. OnlySession(e) /\ pRun'[e].state = pRun[e].state
  BY <1>0, <1>1, SessionGoesOn
<1>3. /\ OnlyRow(e) /\ pEnr'[e].cancel = pEnr[e].cancel
      /\ \/ /\ pEnr[e].at = "release" /\ pEnr'[e].at = "finish" /\ pEnr'[e].document = pEnr[e].document
            /\ pEnr'[e].status = pEnr[e].status
         \/ pEnr[e].at = "finish" /\ pEnr'[e].at = "done" /\ (pEnr'[e].status = "success" => pEnr[e].document)
  BY <1>0, ToRow, finishRow DEF Release, finish
<1>4. Concerns(e)
  BY <1>1, <1>2, <1>3 DEF Concerns, Past, BeforeCheck
<1>5. RowSettles(pEnr'[e], pRun'[e], e \in pStored', e \in pGaveUp')
  BY <1>0, <1>1, <1>2, <1>3 DEF RowSettles, Past, BeforeCheck
<1> QED BY <1>1, <1>4, <1>5, OneSettles

(* The runner's own steps, and what the owner asks for.                                      *)
LEMMA RunnerSettles ==
  ASSUME SettleInv, NEW e \in PtlIDs, RunnerStep(e)
  PROVE  SettleInv'
<1>0. Rows /\ RunRows /\ RowSettles(pEnr[e], pRun[e], e \in pStored, e \in pGaveUp)
  BY DEF SettleInv
<1>1. UNCHANGED <<pEnr, pStored, pGaveUp, pLate>>
  BY DEF RunnerStep, CLIPublishes, CLIEnds, expire
<1>2. OnlySession(e) /\ (pRun'[e].state # "running" \/ pRun[e].state = "running")
      /\ (pRun[e].state \in {"acked", "gone"} => pRun'[e].state \in {"acked", "gone"})
  <2>1. CASE CLIPublishes(e)
    BY <1>0, <2>1, SessionGoesOn DEF CLIPublishes
  <2>2. CASE CLIEnds(e)
    BY <1>0, <2>2, SessionEnds DEF CLIEnds
  <2>3. CASE expire(e)
    BY <1>0, <2>3, SessionEnds DEF expire
  <2> QED BY <2>1, <2>2, <2>3 DEF RunnerStep
<1>3. Concerns(e)
  BY <1>0, <1>1, <1>2 DEF Concerns, OnlyRow, Rows
<1>4. RowSettles(pEnr'[e], pRun'[e], e \in pStored', e \in pGaveUp')
  BY <1>0, <1>1, <1>2 DEF RowSettles
<1> QED BY <1>1, <1>3, <1>4, OneSettles

LEMMA AskedSettles ==
  ASSUME SettleInv, NEW e \in PtlIDs, CancelEnrolment(e) \/ ProvideCode(e)
  PROVE  SettleInv'
<1>0. Rows /\ RunRows /\ RowSettles(pEnr[e], pRun[e], e \in pStored, e \in pGaveUp)
  BY DEF SettleInv
<1>1. UNCHANGED <<pRun, pStored, pGaveUp, pLate>>
  BY DEF CancelEnrolment, ProvideCode
<1>2. OnlySession(e)
  BY <1>0, <1>1, SessionGoesOn
<1>3. /\ OnlyRow(e) /\ pEnr'[e].at = pEnr[e].at /\ pEnr'[e].document = pEnr[e].document
      /\ pEnr'[e].status = pEnr[e].status
      /\ pEnr[e].at \notin BeforeCheck => pEnr'[e].cancel \in {"late", pEnr[e].cancel}
  <2>1. CASE CancelEnrolment(e)
    BY <1>0, <2>1, CancelRow, LockedRow
  <2>2. CASE ProvideCode(e)
    BY <1>0, <2>2, CodeRow
  <2> QED BY <2>1, <2>2
<1>4. Past(pEnr[e]) => Past(pEnr'[e])
  BY <1>3 DEF Past
<1>5. Concerns(e)
  BY <1>1, <1>2, <1>3, <1>4 DEF Concerns
<1>6. RowSettles(pEnr'[e], pRun'[e], e \in pStored', e \in pGaveUp')
  BY <1>0, <1>1, <1>3, <1>4 DEF RowSettles
<1> QED BY <1>1, <1>5, <1>6, OneSettles

(* Calls that arrive late: a start of an enrolment that gave up, a write of one that is past *)
(* its check.                                                                                *)
LEMMA LateSettles ==
  ASSUME SettleInv, NEW call \in pLate, LateStart(call) \/ LateWrite(call)
  PROVE  SettleInv'
<1>1. CallSettles(pEnr, pGaveUp, call) /\ call.id \in PtlIDs
  BY DEF SettleInv, CallSettles
<1>2. PICK e \in PtlIDs : e = call.id
  BY <1>1
<1>0. Rows /\ RunRows /\ RowSettles(pEnr[e], pRun[e], e \in pStored, e \in pGaveUp)
  BY DEF SettleInv
<1>3. UNCHANGED <<pEnr, pGaveUp>> /\ pLate' \subseteq pLate
  BY DEF LateStart, LateWrite
<1>4. OnlyRow(e)
  BY <1>0, <1>3 DEF OnlyRow, Rows
<1>5. ASSUME LateStart(call) PROVE SettleInv'
  <2>1. /\ e \in pGaveUp /\ UNCHANGED pStored
        /\ (RunnerStarts(e, call) /\ pRun[e].state = "none") \/ pRun' = pRun
    BY <1>1, <1>2, <1>5 DEF LateStart, LeavesStores, RunnerAdmits, CallSettles
  <2>2. OnlySession(e) /\ (pRun'[e].state = pRun[e].state \/ pRun[e].state = "none")
    BY <1>0, <2>1, SessionStarts, SessionGoesOn
  <2>3. Concerns(e)
    BY <1>3, <1>4, <2>1, <2>2 DEF Concerns
  <2>4. RowSettles(pEnr'[e], pRun'[e], e \in pStored', e \in pGaveUp')
    BY <1>0, <1>3, <2>1, <2>2 DEF RowSettles
  <2> QED BY <1>3, <2>3, <2>4, OneSettles
<1>6. ASSUME LateWrite(call) PROVE SettleInv'
  <2>1. Past(pEnr[e]) /\ pRun' = pRun /\ (pStored' = pStored \/ pStored' = pStored \cup {e})
    BY <1>1, <1>2, <1>6 DEF LateWrite, CallSettles, Execute
  <2>2. OnlySession(e)
    BY <1>0, <2>1, SessionGoesOn
  <2>3. Concerns(e)
    BY <1>3, <1>4, <2>1, <2>2 DEF Concerns
  <2>4. RowSettles(pEnr'[e], pRun'[e], e \in pStored', e \in pGaveUp')
    BY <1>0, <1>3, <2>1 DEF RowSettles
  <2> QED BY <1>3, <2>3, <2>4, OneSettles
<1> QED BY <1>5, <1>6

(* A step that concerns many enrolments: each row goes on, and past the check stays past it. *)
LEMMA ManySettle ==
  ASSUME SettleInv, DOMAIN pEnr' = PtlIDs, DOMAIN pRun' = PtlIDs, pGaveUp \subseteq pGaveUp',
         pStored' \subseteq PtlIDs,
         \A f \in PtlIDs : /\ DOMAIN pEnr'[f] = EnrolmentFields /\ DOMAIN pRun'[f] = RunnerFields
                           /\ RowSettles(pEnr'[f], pRun'[f], f \in pStored', f \in pGaveUp')
                           /\ Past(pEnr[f]) => Past(pEnr'[f]),
         \A call \in pLate' : call \in pLate \/ CallSettles(pEnr', pGaveUp', call)
  PROVE  SettleInv'
<1>1. (Rows /\ RunRows)'
  BY DEF Rows, RunRows
<1>2. ASSUME NEW call \in pLate PROVE CallSettles(pEnr', pGaveUp', call)
  BY DEF SettleInv, CallSettles
<1> QED BY <1>1, <1>2 DEF SettleInv

LEMMA CancelledSettles ==
  ASSUME SettleInv, NEW p, CancelPrincipal(p), UNCHANGED <<pRun, pStored, pGaveUp, pLate>>
  PROVE  SettleInv'
<1>1. Rows /\ RunRows
  BY DEF SettleInv
<1>2. DOMAIN pEnr' = PtlIDs /\ \A e \in PtlIDs : pEnr'[e] = cancelLocked(e) \/ pEnr'[e] = pEnr[e]
  BY DEF CancelPrincipal
<1>3. ASSUME NEW f \in PtlIDs
      PROVE  /\ DOMAIN pEnr'[f] = EnrolmentFields /\ DOMAIN pRun'[f] = RunnerFields
             /\ RowSettles(pEnr'[f], pRun'[f], f \in pStored', f \in pGaveUp') /\ (Past(pEnr[f]) => Past(pEnr'[f]))
  <2>1. /\ DOMAIN pEnr'[f] = EnrolmentFields /\ pEnr'[f].at = pEnr[f].at /\ pEnr'[f].document = pEnr[f].document
        /\ pEnr'[f].status = pEnr[f].status
        /\ pEnr[f].at \notin BeforeCheck => pEnr'[f].cancel \in {"late", pEnr[f].cancel}
    BY <1>1, <1>2, LockedRow DEF Rows
  <2>2. Past(pEnr[f]) => Past(pEnr'[f])
    BY <2>1 DEF Past
  <2>3. RowSettles(pEnr[f], pRun[f], f \in pStored, f \in pGaveUp) /\ DOMAIN pRun[f] = RunnerFields
    BY DEF SettleInv, RunRows
  <2> QED BY <2>1, <2>2, <2>3 DEF RowSettles
<1> QED BY <1>1, <1>2, <1>3, ManySettle DEF RunRows, SettleInv

LEMMA StartEnrolmentSettles ==
  ASSUME SettleInv, NEW p \in PtlUsers, StartEnrolment(p)
  PROVE  SettleInv'
<1>1. UNCHANGED <<pRun, pStored, pGaveUp, pLate>> /\ Rows /\ RunRows
  BY DEF StartEnrolment, SettleInv
<1>2. CASE pEnr' = pEnr
  BY <1>1, <1>2 DEF SettleInv, Rows, RunRows
<1>3. ASSUME pEnr' # pEnr PROVE SettleInv'
  <2>1. PICK e, row : /\ e \in PtlIDs /\ pEnr[e].at = "new" /\ DOMAIN pEnr' = PtlIDs
                      /\ \A f \in PtlIDs : pEnr'[f] = IF f = e THEN row ELSE Pruned(f)
                      /\ DOMAIN row = EnrolmentFields /\ row.at = "start" /\ row.status = "starting"
    BY <1>3, StartRow
  <2>2. ASSUME NEW f \in PtlIDs
        PROVE  /\ DOMAIN pEnr'[f] = EnrolmentFields /\ DOMAIN pRun'[f] = RunnerFields
               /\ RowSettles(pEnr'[f], pRun'[f], f \in pStored', f \in pGaveUp') /\ (Past(pEnr[f]) => Past(pEnr'[f]))
    <3>1. RowSettles(pEnr[f], pRun[f], f \in pStored, f \in pGaveUp) /\ DOMAIN pRun[f] = RunnerFields
      BY DEF SettleInv, RunRows
    <3>2. CASE f = e
      <4>1. ~Past(pEnr[f])
        BY <2>1, <3>2 DEF Past
      <4> QED BY <1>1, <2>1, <3>1, <3>2, <4>1 DEF RowSettles
    <3>3. CASE f # e
      <4>1. /\ DOMAIN pEnr'[f] = EnrolmentFields /\ pEnr'[f].document = pEnr[f].document
            /\ pEnr'[f].status = pEnr[f].status /\ pEnr'[f].cancel = pEnr[f].cancel
            /\ pEnr'[f].at = pEnr[f].at \/ (pEnr[f].at = "done" /\ pEnr'[f].at = "pruned")
        BY <1>1, <2>1, <3>3, PrunedRow
      <4>2. Past(pEnr[f]) => Past(pEnr'[f])
        BY <4>1 DEF Past, BeforeCheck
      <4> QED BY <1>1, <3>1, <4>1, <4>2 DEF RowSettles
    <3> QED BY <3>2, <3>3
  <2> QED BY <1>1, <2>1, <2>2, ManySettle DEF RunRows, SettleInv
<1> QED BY <1>2, <1>3

LEMMA PortalRestartsSettles == ASSUME SettleInv, PortalRestarts PROVE SettleInv'
<1>0. Rows /\ RunRows
  BY DEF SettleInv
<1>1. /\ pEnr' = [e \in PtlIDs |-> IF Kept(e) THEN [FreshEnrolment EXCEPT !.at = "lost", !.cancel = pEnr[e].cancel] ELSE pEnr[e]]
      /\ pGaveUp' = pGaveUp \cup {e \in PtlIDs : Kept(e) /\ ~Over(e)} /\ UNCHANGED <<pRun, pStored>>
  BY DEF PortalRestarts
<1>2. ASSUME NEW f \in PtlIDs
      PROVE  /\ DOMAIN pEnr'[f] = EnrolmentFields
             /\ ~Kept(f) => pEnr'[f] = pEnr[f]
             /\ Kept(f) => pEnr'[f].at = "lost" /\ pEnr'[f].cancel = pEnr[f].cancel /\ pEnr'[f].status = "starting"
  <2> DEFINE row == [FreshEnrolment EXCEPT !.at = "lost", !.cancel = pEnr[f].cancel]
  <2>1. DOMAIN row = EnrolmentFields /\ row.at = "lost" /\ row.cancel = pEnr[f].cancel /\ row.status = "starting"
    BY DEF FreshEnrolment, EnrolmentFields
  <2>2. pEnr'[f] = IF Kept(f) THEN row ELSE pEnr[f]
    BY <1>1
  <2> HIDE DEF row
  <2> QED BY <1>0, <2>1, <2>2 DEF Rows
<1>3. ASSUME NEW f \in PtlIDs
      PROVE  /\ DOMAIN pEnr'[f] = EnrolmentFields /\ DOMAIN pRun'[f] = RunnerFields
             /\ RowSettles(pEnr'[f], pRun'[f], f \in pStored', f \in pGaveUp') /\ (Past(pEnr[f]) => Past(pEnr'[f]))
  <2>1. RowSettles(pEnr[f], pRun[f], f \in pStored, f \in pGaveUp) /\ DOMAIN pRun[f] = RunnerFields
    BY DEF SettleInv, RunRows
  <2>2. CASE ~Kept(f)
    <3>1. pEnr'[f] = pEnr[f] /\ (f \in pGaveUp' <=> f \in pGaveUp)
      BY <1>1, <1>2, <2>2
    <3> QED BY <1>1, <1>2, <2>1, <3>1 DEF RowSettles
  <2>3. CASE Kept(f)
    <3>1. pRun[f].state = "running" => f \in pGaveUp'
      <4>1. CASE Over(f)
        BY <1>1, <2>1, <2>3, <4>1 DEF Over, RowSettles
      <4>2. CASE ~Over(f)
        BY <1>1, <2>3, <4>2
      <4> QED BY <4>1, <4>2
    <3>2. Past(pEnr[f]) => Past(pEnr'[f])
      BY <1>2, <2>3 DEF Past, BeforeCheck
    <3> QED BY <1>1, <1>2, <2>1, <2>3, <3>1, <3>2 DEF RowSettles
  <2> QED BY <2>2, <2>3
<1>4. ASSUME NEW call \in pLate', call \notin pLate PROVE CallSettles(pEnr', pGaveUp', call)
  <2>1. PICK e \in PtlIDs, what \in {"start", "write"} :
          /\ call = OnItsWay(e, what) /\ Kept(e) /\ ~Over(e)
          /\ pEnr[e].at \in IF what = "start" THEN {"start"} ELSE {"sent", "resent"}
    BY <1>4, OnTheirWay
  <2>2. call.id = e /\ call.what = what /\ e \in pGaveUp'
    BY <1>1, <2>1, CallLeft
  <2>3. what = "write" => Past(pEnr'[e])
    BY <1>3, <2>1 DEF SettleInv, RowSettles
  <2> QED BY <2>2, <2>3 DEF CallSettles
<1> QED BY <1>0, <1>1, <1>3, <1>4, ManySettle DEF RunRows, SettleInv

LEMMA RunnerRestartsSettles == ASSUME SettleInv, RunnerRestarts PROVE SettleInv'
<1>0. Rows /\ RunRows
  BY DEF SettleInv
<1>1. /\ pRun' = [e \in PtlIDs |-> IF Present(e) THEN [FreshRun EXCEPT !.state = "gone"] ELSE pRun[e]]
      /\ UNCHANGED <<pEnr, pStored, pGaveUp, pLate>>
  BY DEF RunnerRestarts
<1>2. ASSUME NEW f \in PtlIDs
      PROVE  DOMAIN pRun'[f] = RunnerFields /\ pRun'[f].state \in {"gone", pRun[f].state}
  <2> DEFINE session == [FreshRun EXCEPT !.state = "gone"]
  <2>1. DOMAIN session = RunnerFields /\ session.state = "gone"
    BY DEF FreshRun, RunnerFields
  <2>2. pRun'[f] = session \/ pRun'[f] = pRun[f]
    BY <1>1
  <2> HIDE DEF session
  <2> QED BY <1>0, <2>1, <2>2 DEF RunRows
<1>3. ASSUME NEW f \in PtlIDs
      PROVE  RowSettles(pEnr'[f], pRun'[f], f \in pStored', f \in pGaveUp') /\ DOMAIN pEnr'[f] = EnrolmentFields
  <2>1. RowSettles(pEnr[f], pRun[f], f \in pStored, f \in pGaveUp) /\ DOMAIN pEnr[f] = EnrolmentFields
    BY DEF SettleInv, Rows
  <2> QED BY <1>1, <1>2, <2>1 DEF RowSettles
<1> QED BY <1>0, <1>1, <1>2, <1>3, ManySettle DEF Rows, SettleInv

LEMMA SettleInvInit == PortalInit => SettleInv
<1> SUFFICES ASSUME PortalInit PROVE SettleInv
  OBVIOUS
<1>1. DOMAIN FreshEnrolment = EnrolmentFields /\ FreshEnrolment.at = "new" /\ FreshEnrolment.status = "starting"
  BY DEF FreshEnrolment, EnrolmentFields
<1>2. DOMAIN FreshRun = RunnerFields /\ FreshRun.state = "none"
  BY DEF FreshRun, RunnerFields
<1>3. /\ DOMAIN pEnr = PtlIDs /\ DOMAIN pRun = PtlIDs /\ pStored = {} /\ pGaveUp = {} /\ pLate = {}
      /\ \A e \in PtlIDs : pEnr[e] = FreshEnrolment /\ pRun[e] = FreshRun
  BY DEF PortalInit
<1>4. Rows /\ RunRows
  BY <1>1, <1>2, <1>3 DEF Rows, RunRows
<1>5. \A e \in PtlIDs : RowSettles(pEnr[e], pRun[e], e \in pStored, e \in pGaveUp)
  BY <1>1, <1>2, <1>3 DEF RowSettles
<1> QED BY <1>3, <1>4, <1>5 DEF SettleInv

LEMMA SettleInvKept == SettleInv /\ [PortalNext]_portalVars => SettleInv'
<1> SUFFICES ASSUME SettleInv, [PortalNext]_portalVars PROVE SettleInv'
  OBVIOUS
<1>1. ASSUME UNCHANGED <<pEnr, pRun, pStored, pGaveUp, pLate>> PROVE SettleInv'
  BY <1>1 DEF SettleInv, Rows, RunRows
<1>2. ASSUME NEW p \in PtlUsers, UserStep(p) PROVE SettleInv'
  <2>1. CASE StartEnrolment(p)
    BY <2>1, StartEnrolmentSettles
  <2>2. CASE Callback(p) \/ updateEligibilityLease(p) \/ LoginCompletes(p) \/ localLogin(p) \/ Upload(p)
    BY <1>1, <2>2 DEF Callback, updateEligibilityLease, LoginCompletes, localLogin, Upload
  <2> QED BY <1>2, <2>1, <2>2 DEF UserStep
<1>3. ASSUME NEW v \in PtlWebIDs, SessionStep(v) PROVE SettleInv'
  <2>1. UNCHANGED <<pRun, pStored, pGaveUp, pLate>>
    BY <1>3 DEF SessionStep, Logout, dynamicRevoke, dynamicConnect, dynamicRecovery, connect, enroll, LetIn
  <2>2. pEnr' = pEnr \/ \E p : CancelPrincipal(p)
    BY <1>3, Zenon DEF SessionStep, Logout, dynamicRevoke, dynamicConnect, dynamicRecovery, connect, enroll, LetIn
  <2> QED BY <1>1, <2>1, <2>2, CancelledSettles
<1>4. ASSUME NEW e \in PtlIDs, EnrolmentStep(e) PROVE SettleInv'
  BY <1>4, StartSettles, PollSettles, DeleteSettles, CheckSettles, WriteSettles, AckSettles, FinishSettles DEF EnrolmentStep
<1>5. ASSUME PortalTick \/ UNCHANGED portalVars PROVE SettleInv'
  BY <1>1, <1>5 DEF PortalTick, portalVars
<1> QED BY <1>2, <1>3, <1>4, <1>5, PortalRestartsSettles, RunnerRestartsSettles, LateSettles, RunnerSettles, AskedSettles
        DEF PortalNext

(* However cancellations, time-outs, restarts and calls executed late cross its completion,  *)
(* an enrolment settles (EnrollmentManager.run, RunnerServer): its CLI outlives its slot only *)
(* when it gave up on a request, success is reported of a stored credential the runner no    *)
(* longer holds, and one cancelled before the check stores nothing.                          *)
THEOREM EnrolmentsAreSettled == PortalSpec => []EnrolmentsSettle
<1>1. SettleInv => EnrolmentsSettle
  <2> SUFFICES ASSUME SettleInv PROVE EnrolmentsSettle
    OBVIOUS
  <2>1. ASSUME NEW e \in PtlIDs PROVE RowSettles(pEnr[e], pRun[e], e \in pStored, e \in pGaveUp)
    BY DEF SettleInv
  <2>2. TornDownBeforeRelease
    BY <2>1 DEF TornDownBeforeRelease, RowSettles, InSemaphore, BeforeCheck
  <2>3. SuccessIsStored
    BY <2>1 DEF SuccessIsStored, RowSettles
  <2>4. CancelledStoresNothing
    BY <2>1 DEF CancelledStoresNothing, RowSettles, Past, SettleInv
  <2> QED BY <2>2, <2>3, <2>4 DEF EnrolmentsSettle
<1> QED BY <1>1, SettleInvInit, SettleInvKept, PTL DEF PortalSpec
=============================================================================
