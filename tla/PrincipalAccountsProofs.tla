----------------------- MODULE PrincipalAccountsProofs -----------------------
(***************************************************************************)
(* What the broker's accounts and the two operator handlers guarantee for    *)
(* every number of principals, templates, operations and handlers, whatever  *)
(* requests are lost, repeated or late and wherever the broker stops.        *)
(*                                                                         *)
(* An account is in up to four places: the broker's memory, metadata.json as  *)
(* the file system shows it and as a crash may leave it, and the metadata of  *)
(* the operation under way.  The proof states what is true of each copy, as   *)
(* a restart may go on with any of them.                                    *)
(***************************************************************************)
EXTENDS PrincipalAccounts, SequenceTheorems, FunctionTheorems, FiniteSetTheorems, TLAPS

CallerFields == {"pc", "attempt", "sent", "principal", "request", "template"}
DirectoryFields == {"exists", "visible", "durable", "files"}

(* Where a caller may be, given the switch requests drawn so far.               *)
StateOK(c, w, known) ==
  /\ DOMAIN w = CallerFields /\ w.principal \in Principals \cup {None}
  /\ c \in Mutations => w.pc \in {"idle", "call", "ok", "error"}
  /\ c \in Admissions => w.pc \in {"idle", "begin", "resolve", "create", "end", "ended"}
  /\ c \in Handlers =>
       /\ w.pc \in {"idle", "begin", "list", "commit", "abort", "ended"}
       /\ w.pc \notin {"idle", "ended"} => w.request \in known
       /\ w.pc \in {"list", "commit", "abort"} => w.principal \in Principals

(* A request, waited for or not.                                               *)
AskOK(q, known) ==
  /\ q \in RequestType
  /\ q.caller \in Mutations => q.kind = "call" /\ q.principal = Owner[q.caller] /\ q.op = q.caller
  /\ q.caller \in Admissions =>
       q.kind \in {"begin", "end"} /\ q.principal = Owner[q.caller] /\ q.op = q.caller
  /\ q.caller \in Handlers =>
       /\ q.kind \in {"begin", "commit", "abort"} /\ q.op \in known
       /\ q.kind # "begin" => q.principal \in Principals

(* An admission whose release is on its way does not use the reservation again.    *)
Over == {"end", "ended"}
BusyOK ==
  busy # None => /\ AskOK(busy.request, issued) /\ busy.request.kind = "call"
                 /\ busy.request.live => Waiting(busy.request.caller)
CallersInv ==
  /\ DOMAIN caller = Callers /\ \A c \in Callers : StateOK(c, caller[c], issued)
  /\ issued \subseteq SwitchRequests
  /\ \A q \in late : AskOK(q, issued) /\ ~q.live /\ (q.kind = "end" => caller[q.caller].pc \in Over)
  /\ BusyOK
  /\ \A r \in runs : r.principal \in Principals
-----------------------------------------------------------------------------
(* What admission and switch rely on.  "entering" are the admissions of the       *)
(* principal that hold the reservation, "live" its active AgentRuns, "listing" and   *)
(* "committing" the switch requests it is asked to authorise.                      *)
Entering(p) == {a \in Admissions : Owner[a] = p /\ caller[a].pc \in {"resolve", "create"}}
RunsOf(p) == {r \in runs : r.principal = p}
Clean(p) == Entering(p) = {} /\ RunsOf(p) = {}
Listing(p) ==
  {caller[h].request : h \in {h \in Handlers : caller[h].pc = "list" /\ caller[h].principal = p}}
Committing(p) ==
  {caller[h].request : h \in {h \in Handlers : caller[h].pc = "commit" /\ caller[h].principal = p}}
  \cup {q.op : q \in {q \in late : q.kind = "commit" /\ q.principal = p}}

TemplateOK(p, m) ==
  /\ \A a \in Entering(p) : m # None /\ Holds(m, "admission", a) /\
                            (caller[a].pc = "create" => caller[a].template = m.template)
  /\ \A r \in RunsOf(p) : m # None /\ r.template = m.template
  /\ m # None =>
       /\ m.authorized # None => Clean(p)
       /\ \A r \in Committing(p) : Holds(m, "switch", r) \/ m.request = r => Clean(p)
       /\ m.request \in Listing(p) => Entering(p) = {}

(* What _validate_metadata asks of an account apart from its reservation, and a log   *)
(* in which no operation occurs twice.                                           *)
Unique(log) == \A i, j \in DOMAIN log : log[i].op = log[j].op => i = j
CopyOK(m) ==
  /\ m \in Metadata
  /\ m.state = "active" <=> m.file # None
  /\ m.request # None => m.state = "revoked"
  /\ m.authorized # None => m.state = "revoked" /\ m.request = None
  /\ m.file # None => m.file <= m.generation
  /\ Unique(m.log)

Changing(p) == busy # None /\ busy.request.principal = p
Copies(p) ==
  {disk[p].visible, disk[p].durable} \cup (IF healthy THEN {accounts[p]} ELSE {})
    \cup (IF Changing(p) THEN {busy.metadata} ELSE {})
-----------------------------------------------------------------------------
(* Memory and disk.  A healthy broker decides on what a restart would read, but for   *)
(* the account it has just renamed the metadata of.                                *)
PlacesOK(p) ==
  /\ DOMAIN disk[p] = DirectoryFields /\ disk[p].files \subseteq Generations
  /\ accounts[p] \in Metadata \cup {None} /\ handles[p] \in Generations \cup {None}
  /\ healthy => /\ disk[p].durable = accounts[p]
                /\ disk[p].visible = IF Changing(p) /\ busy.stage = "renamed"
                                     THEN busy.metadata ELSE accounts[p]
                /\ handles[p] # None => Active(p) /\ handles[p] = accounts[p].file
  /\ Changing(p) /\ busy.metadata.file # None /\ accounts[p] # None =>
       busy.metadata.file > accounts[p].generation

CopiesOK(p) ==
  \A m \in Copies(p) :
    /\ m # None => CopyOK(m) /\ (m.file # None => m.file \in disk[p].files)
    /\ TemplateOK(p, m)

StoreInv ==
  /\ DOMAIN accounts = Principals /\ DOMAIN handles = Principals /\ DOMAIN disk = Principals
  /\ healthy \in BOOLEAN /\ faults \in 0..MaxFaults
  /\ busy # None => healthy /\ busy \in Operations
  /\ \A p \in Principals : PlacesOK(p) /\ CopiesOK(p)

AccountsInv == CallersInv /\ StoreInv
(* No step but the beginning of a credential operation writes a log that was not there.  *)
SameLog(m, n) == (m = None <=> n = None) /\ (m # None => n.log = m.log)
KeepsLogs == \A p \in Principals : \A n \in Copies(p)' : \E m \in Copies(p) : SameLog(m, n)
SameOperation ==
  busy' # None => busy # None /\ busy'.request.op = busy.request.op /\ busy'.metadata.log = busy.metadata.log
-----------------------------------------------------------------------------
(* Callers.  Most steps of a caller withdraw: they enter none of the places that     *)
(* an account has to answer for.                                                 *)
Reached == {"resolve", "create", "list", "commit"}
Moves(c, w, known) == StateOK(c, w, known) /\ (caller[c].pc \in Over => w.pc \in Over)
Withdraws(c, w) ==
  w.pc \in Reached => /\ w.pc = caller[c].pc /\ w.principal = caller[c].principal
                      /\ w.request = caller[c].request /\ w.template = caller[c].template
Orphans == {RequestOf(c, FALSE) : c \in {c \in Callers : Waiting(c)}}

LEMMA IdleRecord ==
  /\ DOMAIN Idle = CallerFields /\ Idle.pc = "idle" /\ Idle.principal = None /\ Idle.sent = FALSE
  /\ DOMAIN Ended = CallerFields /\ Ended.pc = "ended" /\ Ended.principal = None
BY DEF Idle, Ended, CallerFields

LEMMA Apart ==
  /\ Mutations \cap Admissions = {} /\ Mutations \cap Handlers = {} /\ Admissions \cap Handlers = {}
  /\ Owner \in [Mutations \cup Admissions -> Principals] /\ None \notin Principals
  /\ Callers = Mutations \cup Admissions \cup Handlers
BY AccountConstants DEF Callers

LEMMA EndedMoves ==
  ASSUME NEW c \in Admissions \cup Handlers, NEW known
  PROVE  Moves(c, Ended, known) /\ Withdraws(c, Ended)
BY IdleRecord, Apart DEF Moves, Withdraws, StateOK, Over, Reached

LEMMA FailedMoves ==
  ASSUME NEW c \in Callers, NEW known, StateOK(c, caller[c], known),
         caller[c].pc \in Asking \cup {"resolve", "create", "list"}
  PROVE  Moves(c, Failed(c), known) /\ Withdraws(c, Failed(c))
<1>1. DOMAIN caller[c] = CallerFields
  BY DEF StateOK
<1>2. CASE caller[c].pc = "call"
  <2>1. Failed(c) = Finished(c, "error") /\ c \in Mutations
    BY <1>2, Apart DEF Failed, StateOK
  <2>2. c \notin Admissions /\ c \notin Handlers
    BY <2>1, Apart
  <2>3. PICK w : w = Finished(c, "error")
    OBVIOUS
  <2>4. DOMAIN w = CallerFields /\ w.pc = "error" /\ w.principal = caller[c].principal /\ w.request = caller[c].request
    BY <1>1, <2>3 DEF Sending, Finished, CallerFields
  <2>5. StateOK(c, w, known)
    BY <1>2, <2>2, <2>4 DEF StateOK
  <2>6. Moves(c, w, known) /\ Withdraws(c, w)
    BY <1>2, <2>4, <2>5 DEF Moves, Withdraws, Over, Reached
  <2> QED BY <2>1, <2>3, <2>6
<1>3. CASE caller[c].pc \in {"begin", "end", "abort"}
  <2>1. Failed(c) = Ended /\ c \in Admissions \cup Handlers
    BY <1>3, Apart DEF Failed, StateOK
  <2> QED BY <2>1, EndedMoves
<1>4. CASE caller[c].pc \in {"resolve", "create"}
  <2>1. Failed(c) = Sending(c, "end") /\ c \in Admissions
    BY <1>4, Apart DEF Failed, StateOK
  <2>2. c \notin Mutations /\ c \notin Handlers
    BY <2>1, Apart
  <2>3. PICK w : w = Sending(c, "end")
    OBVIOUS
  <2>4. DOMAIN w = CallerFields /\ w.pc = "end" /\ w.principal = caller[c].principal /\ w.request = caller[c].request
    BY <1>1, <2>3 DEF Sending, Finished, CallerFields
  <2>5. StateOK(c, w, known)
    BY <1>4, <2>2, <2>4 DEF StateOK
  <2>6. Moves(c, w, known) /\ Withdraws(c, w)
    BY <1>4, <2>4, <2>5 DEF Moves, Withdraws, Over, Reached
  <2> QED BY <2>1, <2>3, <2>6
<1>5. CASE caller[c].pc \in {"list", "commit"}
  <2>1. Failed(c) = Sending(c, "abort") /\ c \in Handlers
    BY <1>5, Apart DEF Failed, StateOK
  <2>2. c \notin Mutations /\ c \notin Admissions
    BY <2>1, Apart
  <2>3. PICK w : w = Sending(c, "abort")
    OBVIOUS
  <2>4. DOMAIN w = CallerFields /\ w.pc = "abort" /\ w.principal = caller[c].principal /\ w.request = caller[c].request
    BY <1>1, <2>3 DEF Sending, Finished, CallerFields
  <2>5. StateOK(c, w, known)
    BY <1>5, <2>2, <2>4 DEF StateOK
  <2>6. Moves(c, w, known) /\ Withdraws(c, w)
    BY <1>5, <2>4, <2>5 DEF Moves, Withdraws, Over, Reached
  <2> QED BY <2>1, <2>3, <2>6
<1> QED BY <1>2, <1>3, <1>4, <1>5 DEF Asking

LEMMA KnowsMore ==
  ASSUME NEW c, NEW w, NEW known, NEW more, known \subseteq more
  PROVE  /\ StateOK(c, w, known) => StateOK(c, w, more)
         /\ Moves(c, w, known) => Moves(c, w, more)
         /\ AskOK(w, known) => AskOK(w, more)
BY DEF StateOK, Moves, AskOK

LEMMA StandsStill ==
  ASSUME CallersInv, NEW c \in Callers
  PROVE  Moves(c, caller[c], issued) /\ Withdraws(c, caller[c])
BY DEF CallersInv, Moves, Withdraws

LEMMA RequestOfOK ==
  ASSUME CallersInv, NEW c \in Callers, Waiting(c), NEW live \in BOOLEAN
  PROVE  /\ AskOK(RequestOf(c, live), issued)
         /\ RequestOf(c, live).kind = caller[c].pc /\ RequestOf(c, live).caller = c
         /\ RequestOf(c, live).live = live
         /\ RequestOf(c, live).principal = PrincipalOf(c)
         /\ c \in Handlers => RequestOf(c, live).op = caller[c].request
<1>1. StateOK(c, caller[c], issued) /\ caller[c].pc \in Asking /\ issued \subseteq SwitchRequests
  BY DEF CallersInv, Waiting
<1> DEFINE q == RequestOf(c, live)
<1>2. /\ q.kind = caller[c].pc /\ q.caller = c /\ q.live = live /\ q.principal = PrincipalOf(c)
      /\ q.op = (IF c \in Handlers THEN caller[c].request ELSE c)
  BY DEF RequestOf
<1>3. PrincipalOf(c) = IF c \in Handlers THEN caller[c].principal ELSE Owner[c]
  BY DEF PrincipalOf
<1>4. PrincipalOf(c) \in Principals \cup {None} /\ q.op \in Callers \cup SwitchRequests
  <2>1. CASE c \in Handlers
    BY <1>1, <1>2, <1>3, <2>1 DEF StateOK, Asking
  <2>2. CASE c \notin Handlers
    BY <1>2, <1>3, <2>2, Apart
  <2> QED BY <2>1, <2>2
<1>5. q \in RequestType
  BY <1>1, <1>2, <1>4 DEF RequestOf, RequestType
<1> HIDE DEF q
<1>6. c \in Mutations => q.kind = "call" /\ q.principal = Owner[c] /\ q.op = c
  BY <1>1, <1>2, <1>3, Apart DEF StateOK, Asking
<1>7. c \in Admissions => q.kind \in {"begin", "end"} /\ q.principal = Owner[c] /\ q.op = c
  BY <1>1, <1>2, <1>3, Apart DEF StateOK, Asking
<1>8. c \in Handlers => /\ q.kind \in {"begin", "commit", "abort"} /\ q.op \in issued
                        /\ q.kind # "begin" => q.principal \in Principals
  BY <1>1, <1>2, <1>3 DEF StateOK, Asking
<1>9. AskOK(q, issued)
  BY <1>2, <1>5, <1>6, <1>7, <1>8 DEF AskOK
<1> QED BY <1>2, <1>9 DEF q

LEMMA RequestsOK ==
  ASSUME CallersInv, NEW q \in Requests
  PROVE  /\ AskOK(q, issued) /\ q.caller \in Callers /\ q.live \in BOOLEAN
         /\ q.kind = "end" => caller[q.caller].pc \in Over
         /\ q.live => Waiting(q.caller) /\ q.kind = caller[q.caller].pc
         /\ q.live => q.principal = PrincipalOf(q.caller)
         /\ q.live /\ q.caller \in Handlers => q.op = caller[q.caller].request
         /\ ~q.live => q \in late
<1>1. CASE q \in late
  BY <1>1 DEF CallersInv, AskOK, RequestType
<1>2. ASSUME NEW c \in Callers, Waiting(c), q = RequestOf(c, TRUE)
      PROVE  /\ AskOK(q, issued) /\ q.caller = c /\ q.live = TRUE /\ q.kind = caller[c].pc
             /\ q.principal = PrincipalOf(c) /\ (c \in Handlers => q.op = caller[c].request)
  BY <1>2, RequestOfOK
<1>3. CASE q \notin late
  <2>1. PICK c \in Callers : Waiting(c) /\ q = RequestOf(c, TRUE)
    BY <1>3 DEF Requests
  <2> QED BY <1>2, <2>1 DEF Over
<1> QED BY <1>1, <1>3

LEMMA CallersMove ==
  ASSUME CallersInv, issued \subseteq issued', issued' \subseteq SwitchRequests,
         DOMAIN caller' = Callers, \A c \in Callers : Moves(c, caller'[c], issued'),
         late' \subseteq late \cup Orphans, BusyOK', \A r \in runs' : r.principal \in Principals
  PROVE  CallersInv'
<1>1. \A c \in Callers : StateOK(c, caller'[c], issued')
  BY DEF Moves
<1>2. ASSUME NEW q \in late'
      PROVE  AskOK(q, issued) /\ ~q.live /\ q.caller \in Callers /\ (q.kind = "end" => caller[q.caller].pc \in Over)
  <2>1. CASE q \in late
    BY <2>1 DEF CallersInv, AskOK, RequestType
  <2>2. CASE q \notin late
    <3>1. PICK c \in Callers : Waiting(c) /\ q = RequestOf(c, FALSE)
      BY <2>2 DEF Orphans
    <3>2. /\ AskOK(q, issued) /\ q.kind = caller[c].pc /\ q.caller = c /\ q.live = FALSE
      BY <3>1, RequestOfOK
    <3> QED BY <3>1, <3>2 DEF Over
  <2> QED BY <2>1, <2>2
<1>3. \A q \in late' : AskOK(q, issued') /\ ~q.live /\ (q.kind = "end" => caller'[q.caller].pc \in Over)
  BY <1>2, KnowsMore DEF Moves
<1> QED BY <1>1, <1>3 DEF CallersInv

LEMMA Retreat ==
  ASSUME CallersInv, NEW p \in Principals, NEW m, TemplateOK(p, m),
         \A c \in Callers : Withdraws(c, caller'[c]),
         late' \subseteq late \cup Orphans, runs' \subseteq runs
  PROVE  TemplateOK(p, m)'
<1>1. Entering(p)' \subseteq Entering(p) /\ RunsOf(p)' \subseteq RunsOf(p)
  BY Apart DEF Entering, RunsOf, Withdraws, Reached
<1>2. \A a \in Entering(p)' : caller'[a].pc = caller[a].pc /\ caller'[a].template = caller[a].template
  BY Apart DEF Entering, Withdraws, Reached
<1>3. Listing(p)' \subseteq Listing(p)
  BY Apart DEF Listing, Withdraws, Reached
<1>4. Committing(p)' \subseteq Committing(p)
  <2> SUFFICES ASSUME NEW r \in Committing(p)' PROVE r \in Committing(p)
    OBVIOUS
  <2>1. ASSUME NEW h \in Handlers, caller'[h].pc = "commit", caller'[h].principal = p, r = caller'[h].request
        PROVE  r \in Committing(p)
    BY <2>1, Apart DEF Committing, Withdraws, Reached
  <2>2. ASSUME NEW q \in late', q.kind = "commit", q.principal = p, r = q.op
        PROVE  r \in Committing(p)
    <3>1. CASE q \in late
      BY <2>2, <3>1 DEF Committing
    <3>2. CASE q \notin late
      <4>1. PICK c \in Callers : Waiting(c) /\ q = RequestOf(c, FALSE)
        BY <3>2 DEF Orphans
      <4>2. q.caller = c /\ q.kind = caller[c].pc /\ AskOK(q, issued) /\ q.principal = PrincipalOf(c)
            /\ (c \in Handlers => q.op = caller[c].request)
        BY <4>1, RequestOfOK
      <4>3. c \in Handlers
        BY <2>2, <4>2, Apart DEF AskOK
      <4>4. caller[c].principal = p
        BY <2>2, <4>2, <4>3 DEF PrincipalOf
      <4> QED BY <2>2, <4>2, <4>3, <4>4 DEF Committing
    <3> QED BY <3>1, <3>2
  <2> QED BY <2>1, <2>2 DEF Committing
<1>5. Clean(p) => Clean(p)'
  BY <1>1 DEF Clean
<1> QED BY <1>1, <1>2, <1>3, <1>4, <1>5 DEF TemplateOK
-----------------------------------------------------------------------------
(* A principal whose account a step does not touch.                              *)
LEMMA Untouched ==
  ASSUME NEW p \in Principals, PlacesOK(p), CopiesOK(p),
         accounts'[p] = accounts[p], handles'[p] = handles[p], disk'[p] = disk[p], healthy' = healthy,
         Changing(p)' <=> Changing(p),
         Changing(p) => busy'.metadata = busy.metadata /\ busy'.stage = busy.stage,
         \A m \in Copies(p) : TemplateOK(p, m)'
  PROVE  PlacesOK(p)' /\ CopiesOK(p)' /\ Copies(p)' = Copies(p)
<1>1. Copies(p)' = Copies(p)
  BY DEF Copies
<1>2. PlacesOK(p)'
  BY DEF PlacesOK, Active, Enrolled
<1>3. CopiesOK(p)'
  BY <1>1 DEF CopiesOK
<1> QED BY <1>1, <1>2, <1>3

LEMMA SameLive ==
  ASSUME NEW b \in Operations, NEW x, x = [b EXCEPT !.request.live = FALSE]
  PROVE  /\ x \in Operations /\ x.metadata = b.metadata /\ x.stage = b.stage
         /\ x.request.principal = b.request.principal /\ x.request.kind = b.request.kind
         /\ x.request.caller = b.request.caller /\ x.request.op = b.request.op
         /\ x.request.live = FALSE /\ x # None
<1>1. b.request \in RequestType /\ x.request = [b.request EXCEPT !.live = FALSE]
  BY DEF Operations
<1>2. x.request \in RequestType
  <2>1. PICK r \in RequestType : r = b.request
    BY <1>1
  <2>2. PICK y : y = x.request
    OBVIOUS
  <2>3. y = [r EXCEPT !.live = FALSE]
    BY <1>1, <2>1, <2>2
  <2>4. y \in RequestType
    BY <2>3 DEF RequestType
  <2> QED BY <2>2, <2>4
<1>3. x \in Operations
  BY <1>1, <1>2 DEF Operations
<1>4. /\ x.request.principal = b.request.principal /\ x.request.kind = b.request.kind
      /\ x.request.caller = b.request.caller /\ x.request.op = b.request.op /\ x.request.live = FALSE
  BY <1>1 DEF RequestType
<1>5. x.metadata = b.metadata /\ x.stage = b.stage
  BY DEF Operations
<1> QED BY <1>3, <1>4, <1>5, NoneIsApart

LEMMA SameAsk ==
  ASSUME NEW q, NEW x \in RequestType, NEW known, AskOK(q, known),
         x.principal = q.principal, x.kind = q.kind, x.caller = q.caller, x.op = q.op
  PROVE  AskOK(x, known)
BY DEF AskOK

(* Steps of callers: the accounts stay, and the operation under way at most loses    *)
(* the caller that waits for it.                                                 *)
AccountsStay ==
  /\ UNCHANGED <<accounts, handles, healthy, disk>>
  /\ busy' = busy \/ (busy # None /\ busy' = [busy EXCEPT !.request.live = FALSE])
  /\ faults' = faults \/ Fault
Served ==
  busy' # None /\ busy'.request.live => caller'[busy'.request.caller] = caller[busy'.request.caller]

LEMMA FaultBound == ASSUME faults \in 0..MaxFaults, faults' = faults \/ Fault PROVE faults' \in 0..MaxFaults
BY AccountConstants DEF Fault

LEMMA BusyStays ==
  ASSUME CallersInv, StoreInv, AccountsStay
  PROVE  /\ busy' # None <=> busy # None
         /\ busy # None => /\ busy' \in Operations /\ busy'.metadata = busy.metadata /\ busy'.stage = busy.stage
                           /\ busy'.request.principal = busy.request.principal
                           /\ busy'.request.op = busy.request.op
                           /\ AskOK(busy'.request, issued) /\ busy'.request.kind = "call"
                           /\ busy'.request.live => Waiting(busy'.request.caller)
<1>1. CASE busy' = busy
  BY <1>1 DEF CallersInv, StoreInv, BusyOK
<1>2. CASE busy # None /\ busy' = [busy EXCEPT !.request.live = FALSE]
  <2>1. busy \in Operations /\ AskOK(busy.request, issued) /\ busy.request.kind = "call"
    BY <1>2 DEF CallersInv, StoreInv, BusyOK
  <2>2. PICK x : x = [busy EXCEPT !.request.live = FALSE]
    OBVIOUS
  <2>3. /\ x \in Operations /\ x.metadata = busy.metadata /\ x.stage = busy.stage
        /\ x.request.principal = busy.request.principal /\ x.request.kind = busy.request.kind
        /\ x.request.caller = busy.request.caller /\ x.request.op = busy.request.op /\ x # None
        /\ x.request.live = FALSE
    BY <2>1, <2>2, SameLive
  <2>4. x.request \in RequestType
    BY <2>3 DEF Operations
  <2>5. AskOK(x.request, issued)
    BY <2>1, <2>3, <2>4, SameAsk
  <2> QED BY <1>2, <2>1, <2>2, <2>3, <2>5
<1> QED BY <1>1, <1>2 DEF AccountsStay

LEMMA BusyKept ==
  ASSUME CallersInv, StoreInv, AccountsStay, Served, issued' = issued
  PROVE  BusyOK'
<1>1. busy' # None => /\ AskOK(busy'.request, issued) /\ busy'.request.kind = "call"
                      /\ busy'.request.live => Waiting(busy'.request.caller)
  BY BusyStays
<1>2. busy' # None /\ busy'.request.live =>
        caller'[busy'.request.caller].pc \in Asking /\ caller'[busy'.request.caller].sent
  BY <1>1 DEF Served, Waiting
<1> QED BY <1>1, <1>2 DEF BusyOK, Waiting

LEMMA StoreStays ==
  ASSUME CallersInv, StoreInv, AccountsStay,
         \A p \in Principals : \A m \in Copies(p) : TemplateOK(p, m) => TemplateOK(p, m)'
  PROVE  StoreInv'
<1>1. /\ busy' # None <=> busy # None
      /\ busy # None => /\ busy' \in Operations /\ busy'.metadata = busy.metadata /\ busy'.stage = busy.stage
                        /\ busy'.request.principal = busy.request.principal
  BY BusyStays
<1>2. faults' \in 0..MaxFaults
  BY FaultBound DEF AccountsStay, StoreInv
<1>3. ASSUME NEW p \in Principals PROVE PlacesOK(p)' /\ CopiesOK(p)'
  <2>1. PlacesOK(p) /\ CopiesOK(p)
    BY DEF StoreInv
  <2>2. \A m \in Copies(p) : TemplateOK(p, m)'
    BY <2>1 DEF CopiesOK
  <2>3. Changing(p)' <=> Changing(p)
    BY <1>1 DEF Changing
  <2>4. Changing(p) => busy'.metadata = busy.metadata /\ busy'.stage = busy.stage
    BY <1>1 DEF Changing
  <2>5. accounts'[p] = accounts[p] /\ handles'[p] = handles[p] /\ disk'[p] = disk[p] /\ healthy' = healthy
    BY DEF AccountsStay
  <2> QED BY <2>1, <2>2, <2>3, <2>4, <2>5, Untouched
<1>4. /\ DOMAIN accounts' = Principals /\ DOMAIN handles' = Principals /\ DOMAIN disk' = Principals
      /\ healthy' \in BOOLEAN /\ (busy' # None => healthy' /\ busy' \in Operations)
  BY <1>1 DEF StoreInv, AccountsStay
<1> QED BY <1>2, <1>3, <1>4 DEF StoreInv

(* A caller withdraws, or stays where it is.                                      *)
LEMMA CallersWithdraw ==
  ASSUME CallersInv, StoreInv, AccountsStay, Served, issued' = issued, runs' \subseteq runs,
         late' \subseteq late \cup Orphans, DOMAIN caller' = Callers,
         \A c \in Callers : Moves(c, caller'[c], issued) /\ Withdraws(c, caller'[c])
  PROVE  AccountsInv'
<1>1. issued \subseteq issued' /\ issued' \subseteq SwitchRequests
  BY DEF CallersInv
<1>2. \A c \in Callers : Moves(c, caller'[c], issued')
  OBVIOUS
<1>3. BusyOK'
  BY BusyKept
<1>4. \A r \in runs' : r.principal \in Principals
  BY DEF CallersInv
<1>5. CallersInv'
  BY <1>1, <1>2, <1>3, <1>4, CallersMove
<1>6. \A p \in Principals : \A m \in Copies(p) : TemplateOK(p, m) => TemplateOK(p, m)'
  BY Retreat
<1> QED BY <1>5, <1>6, StoreStays DEF AccountsInv

LEMMA OneMoves ==
  ASSUME CallersInv, NEW c \in Callers, NEW w, Moves(c, w, issued), Withdraws(c, w),
         caller' = [caller EXCEPT ![c] = w]
  PROVE  DOMAIN caller' = Callers /\ \A d \in Callers : Moves(d, caller'[d], issued) /\ Withdraws(d, caller'[d])
<1>1. DOMAIN caller' = Callers /\ \A d \in Callers : caller'[d] = IF d = c THEN w ELSE caller[d]
  BY DEF CallersInv
<1>2. ASSUME NEW d \in Callers PROVE Moves(d, caller'[d], issued) /\ Withdraws(d, caller'[d])
  <2>1. CASE d = c
    BY <1>1, <2>1
  <2>2. CASE d # c
    BY <1>1, <2>2, StandsStill
  <2> QED BY <2>1, <2>2
<1> QED BY <1>1, <1>2

(* The caller an operation is executed for is a frontend that waits for it.          *)
LEMMA ServedIsCalling ==
  ASSUME CallersInv, busy # None
  PROVE  /\ busy.request.caller \in Mutations /\ busy.request.op = busy.request.caller
         /\ busy.request.principal = Owner[busy.request.caller] /\ busy.request.principal \in Principals
         /\ busy.request \in RequestType
         /\ busy.request.live => caller[busy.request.caller].sent /\ caller[busy.request.caller].pc = "call"
<1>1. AskOK(busy.request, issued) /\ busy.request.kind = "call"
      /\ (busy.request.live => Waiting(busy.request.caller))
  BY DEF CallersInv, BusyOK
<1>2. busy.request \in RequestType /\ busy.request.caller \in Callers
  BY <1>1 DEF AskOK, RequestType
<1>3. busy.request.caller \in Mutations
  BY <1>1, <1>2, Apart DEF AskOK
<1>4. StateOK(busy.request.caller, caller[busy.request.caller], issued)
  BY <1>2 DEF CallersInv
<1>5. busy.request.live => caller[busy.request.caller].sent /\ caller[busy.request.caller].pc = "call"
  BY <1>1, <1>3, <1>4 DEF StateOK, Waiting, Asking
<1> QED BY <1>1, <1>2, <1>3, <1>5, Apart DEF AskOK

LEMMA ServedOnly ==
  ASSUME CallersInv, NEW c \in Callers, busy # None, busy.request.live, busy.request.caller = c
  PROVE  ServedAlone(c)
<1>1. /\ c \in Mutations /\ busy.request.op = c /\ busy.request.principal = Owner[c]
      /\ busy.request \in RequestType /\ caller[c].pc = "call" /\ busy.request.kind = "call"
  BY ServedIsCalling DEF CallersInv, BusyOK
<1>2. c \notin Handlers
  BY <1>1, Apart
<1>3. PICK q \in RequestType : q = busy.request
  BY <1>1
<1>4. RequestOf(c, TRUE) = [caller |-> c, kind |-> "call", principal |-> Owner[c], op |-> c, live |-> TRUE]
  BY <1>1, <1>2 DEF RequestOf, PrincipalOf
<1>5. q = [caller |-> q.caller, kind |-> q.kind, principal |-> q.principal, op |-> q.op, live |-> q.live]
  BY DEF RequestType
<1>6. q.live = TRUE
  BY <1>3 DEF RequestType
<1> QED BY <1>1, <1>3, <1>4, <1>5, <1>6 DEF ServedAlone

LEMMA OthersServed ==
  ASSUME CallersInv, NEW c \in Callers, NEW w, caller' = [caller EXCEPT ![c] = w], busy' = busy,
         c \notin Mutations \/ ~Waiting(c)
  PROVE  Served
<1>1. busy # None /\ busy.request.live => busy.request.caller # c /\ busy.request.caller \in Callers
  BY ServedIsCalling, Apart DEF Waiting, Asking
<1>2. \A d \in Callers : d # c => caller'[d] = caller[d]
  BY DEF CallersInv
<1> QED BY <1>1, <1>2 DEF Served

LEMMA NextAttemptMoves ==
  ASSUME CallersInv, NEW c \in Callers, caller[c].pc \in Asking, NextAttempt(c)
  PROVE  DOMAIN caller' = Callers /\ \A d \in Callers : Moves(d, caller'[d], issued) /\ Withdraws(d, caller'[d])
<1>1. StateOK(c, caller[c], issued) /\ DOMAIN caller = Callers
  BY DEF CallersInv
<1>2. CASE caller[c].attempt = 1
  <2>1. PICK w : w = [caller[c] EXCEPT !.attempt = 2, !.sent = TRUE]
    OBVIOUS
  <2>2. /\ DOMAIN w = CallerFields /\ w.pc = caller[c].pc /\ w.principal = caller[c].principal
        /\ w.request = caller[c].request /\ w.template = caller[c].template
    BY <1>1, <2>1 DEF StateOK, CallerFields
  <2>3. Moves(c, w, issued) /\ Withdraws(c, w)
    BY <1>1, <2>2 DEF Moves, Withdraws, StateOK
  <2>4. caller' = [caller EXCEPT ![c] = w]
    BY <1>1, <1>2, <2>1 DEF NextAttempt
  <2> QED BY <2>3, <2>4, OneMoves
<1>3. CASE caller[c].attempt # 1
  <2>1. PICK w : w = Failed(c)
    OBVIOUS
  <2>2. Moves(c, w, issued) /\ Withdraws(c, w)
    BY <1>1, <2>1, FailedMoves
  <2>3. caller' = [caller EXCEPT ![c] = w]
    BY <1>1, <1>3, <2>1 DEF NextAttempt
  <2> QED BY <2>2, <2>3, OneMoves
<1> QED BY <1>2, <1>3

LEMMA CallerFails ==
  ASSUME CallersInv, NEW c \in Callers, caller[c].pc \in Asking \cup {"resolve", "create", "list"},
         caller' = [caller EXCEPT ![c] = Failed(c)]
  PROVE  DOMAIN caller' = Callers /\ \A d \in Callers : Moves(d, caller'[d], issued) /\ Withdraws(d, caller'[d])
<1>1. StateOK(c, caller[c], issued)
  BY DEF CallersInv
<1>2. PICK w : w = Failed(c)
  OBVIOUS
<1>3. Moves(c, w, issued) /\ Withdraws(c, w)
  BY <1>1, <1>2, FailedMoves
<1> QED BY <1>2, <1>3, OneMoves

LEMMA OrphanedIn ==
  ASSUME NEW c \in Callers
  PROVE  Orphaned(c) \subseteq late \cup Orphans
BY DEF Orphaned, Orphans

LEMMA TimedOutKeeps ==
  ASSUME CallersInv, StoreInv, NEW c \in Callers, TimedOut(c)
  PROVE  AccountsInv'
<1>1. caller[c].pc \in Asking /\ NextAttempt(c) /\ issued' = issued /\ runs' = runs
  BY DEF TimedOut, Waiting
<1>2. AccountsStay /\ late' \subseteq late \cup Orphans
  BY OrphanedIn DEF TimedOut, Abandon, ServedAlone, AccountsStay
<1>3. Served
  <2>1. CASE ServedAlone(c)
    <3>1. busy # None /\ busy \in Operations /\ busy' = [busy EXCEPT !.request.live = FALSE]
      BY <2>1 DEF TimedOut, Abandon, ServedAlone, StoreInv
    <3>2. busy'.request.live = FALSE
      BY <3>1, SameLive
    <3> QED BY <3>2 DEF Served
  <2>2. CASE ~ServedAlone(c)
    <3>1. busy' = busy
      BY <2>2 DEF TimedOut, Abandon
    <3>2. busy # None /\ busy.request.live => busy.request.caller # c
      BY <2>2, ServedOnly
    <3>3. \A d \in Callers : d # c => caller'[d] = caller[d]
      BY <1>1 DEF NextAttempt, CallersInv
    <3>4. busy # None => busy.request.caller \in Callers
      BY ServedIsCalling, Apart
    <3> QED BY <3>1, <3>2, <3>3, <3>4 DEF Served
  <2> QED BY <2>1, <2>2
<1> QED BY <1>1, <1>2, <1>3, NextAttemptMoves, CallersWithdraw

LEMMA ConnectionLostKeeps ==
  ASSUME CallersInv, StoreInv, NEW c \in Callers, ConnectionLost(c)
  PROVE  AccountsInv'
<1>1. caller[c].pc \in Asking /\ issued' = issued /\ runs' = runs /\ AccountsStay /\ late' = late
  BY DEF ConnectionLost, AccountsStay, brokerVars
<1>2. NextAttempt(c) \/ caller' = [caller EXCEPT ![c] = Failed(c)]
  BY DEF ConnectionLost
<1>3. DOMAIN caller' = Callers /\ \A d \in Callers : Moves(d, caller'[d], issued) /\ Withdraws(d, caller'[d])
  BY <1>1, <1>2, NextAttemptMoves, CallerFails
<1>4. PICK w : caller' = [caller EXCEPT ![c] = w]
  BY <1>2 DEF NextAttempt
<1>5. Served
  BY <1>4, OthersServed DEF ConnectionLost, brokerVars, Waiting
<1> QED BY <1>1, <1>3, <1>5, CallersWithdraw

LEMMA SubmitKeeps ==
  ASSUME CallersInv, StoreInv, NEW c \in Callers, Submit(c)
  PROVE  AccountsInv'
<1>1. /\ caller[c] = Idle /\ c \notin Handlers /\ issued' = issued /\ runs' = runs /\ AccountsStay /\ late' = late
  BY DEF Submit, AccountsStay, brokerVars
<1>2. PICK w : w = Sending(c, IF c \in Mutations THEN "call" ELSE "begin")
  OBVIOUS
<1>3. /\ DOMAIN w = CallerFields /\ w.pc = (IF c \in Mutations THEN "call" ELSE "begin")
      /\ w.principal = None
  BY <1>1, <1>2, IdleRecord DEF Sending, CallerFields
<1>4. StateOK(c, w, issued)
  BY <1>1, <1>3, Apart DEF StateOK
<1>5. Moves(c, w, issued) /\ Withdraws(c, w)
  BY <1>1, <1>3, <1>4, IdleRecord DEF Moves, Withdraws, Over, Reached
<1>6. caller' = [caller EXCEPT ![c] = w]
  BY <1>2 DEF Submit
<1>7. DOMAIN caller' = Callers /\ \A d \in Callers : Moves(d, caller'[d], issued) /\ Withdraws(d, caller'[d])
  BY <1>5, <1>6, OneMoves
<1>8. Served
  BY <1>1, <1>6, IdleRecord, OthersServed DEF Submit, brokerVars, Waiting
<1> QED BY <1>1, <1>7, <1>8, CallersWithdraw

LEMMA AuthorizeSwitchKeeps ==
  ASSUME CallersInv, StoreInv, NEW h \in Handlers, AuthorizeSwitch(h)
  PROVE  AccountsInv'
<1>1. /\ caller[h] = Idle /\ issued' = issued /\ runs' = runs /\ AccountsStay /\ late' = late /\ h \in Callers
  BY Apart DEF AuthorizeSwitch, AccountsStay, brokerVars
<1>2. PICK r \in issued : caller' = [caller EXCEPT ![h] = [Sending(h, "begin") EXCEPT !.request = r]]
  BY DEF AuthorizeSwitch
<1>3. PICK w : w = [Sending(h, "begin") EXCEPT !.request = r]
  OBVIOUS
<1>4. /\ DOMAIN w = CallerFields /\ w.pc = "begin" /\ w.principal = None /\ w.request = r
  BY <1>1, <1>3, IdleRecord DEF Sending, CallerFields
<1>5. StateOK(h, w, issued)
  BY <1>1, <1>4, Apart DEF StateOK
<1>6. Moves(h, w, issued) /\ Withdraws(h, w)
  BY <1>1, <1>4, <1>5, IdleRecord DEF Moves, Withdraws, Over, Reached
<1>7. DOMAIN caller' = Callers /\ \A d \in Callers : Moves(d, caller'[d], issued) /\ Withdraws(d, caller'[d])
  BY <1>1, <1>2, <1>3, <1>6, OneMoves
<1>8. Served
  BY <1>1, <1>2, Apart, OthersServed DEF AuthorizeSwitch, brokerVars
<1> QED BY <1>1, <1>7, <1>8, CallersWithdraw

LEMMA CancelledKeeps ==
  ASSUME CallersInv, StoreInv, NEW c \in Callers, Cancelled(c)
  PROVE  AccountsInv'
<1>1. /\ caller[c].pc \in Asking \cup {"resolve", "create", "list"} /\ issued' = issued /\ runs' = runs
      /\ AccountsStay /\ caller' = [caller EXCEPT ![c] = Failed(c)]
  BY DEF Cancelled, AccountsStay, brokerVars
<1>2. late' \subseteq late \cup Orphans
  BY OrphanedIn DEF Cancelled
<1>3. Served
  BY <1>1, Apart, OthersServed DEF Cancelled, brokerVars
<1> QED BY <1>1, <1>2, <1>3, CallerFails, CallersWithdraw

LEMMA OperatorRestartKeeps ==
  ASSUME CallersInv, StoreInv, OperatorRestart
  PROVE  AccountsInv'
<1>1. issued' = issued /\ runs' = runs /\ AccountsStay
  BY DEF OperatorRestart, AccountsStay, brokerVars
<1>2. late' \subseteq late \cup Orphans
  BY OrphanedIn, Apart DEF OperatorRestart
<1>3. DOMAIN caller' = Callers
  BY DEF OperatorRestart
<1>4. ASSUME NEW d \in Callers PROVE Moves(d, caller'[d], issued) /\ Withdraws(d, caller'[d])
  <2>1. CASE d \in Mutations \/ caller[d] = Idle
    <3>1. caller'[d] = caller[d]
      BY <2>1 DEF OperatorRestart
    <3> QED BY <3>1, StandsStill
  <2>2. CASE ~(d \in Mutations \/ caller[d] = Idle)
    <3>1. caller'[d] = Ended /\ d \in Admissions \cup Handlers
      BY <2>2, Apart DEF OperatorRestart
    <3> QED BY <3>1, EndedMoves
  <2> QED BY <2>1, <2>2
<1>5. Served
  BY ServedIsCalling, Apart DEF OperatorRestart, brokerVars, Served
<1> QED BY <1>1, <1>2, <1>3, <1>4, <1>5, CallersWithdraw

LEMMA RunEndsKeeps ==
  ASSUME CallersInv, StoreInv, NEW r \in runs, RunEnds(r)
  PROVE  AccountsInv'
<1>1. issued' = issued /\ runs' \subseteq runs /\ AccountsStay /\ late' = late /\ caller' = caller
  BY DEF RunEnds, AccountsStay, brokerVars
<1>2. DOMAIN caller' = Callers /\ \A d \in Callers : Moves(d, caller'[d], issued) /\ Withdraws(d, caller'[d])
  BY <1>1, StandsStill DEF CallersInv
<1> QED BY <1>1, <1>2, CallersWithdraw DEF Served

LEMMA OneAdvances ==
  ASSUME CallersInv, StoreInv, AccountsStay, Served, NEW c \in Callers, NEW w, Moves(c, w, issued),
         caller' = [caller EXCEPT ![c] = w], issued' = issued, late' = late,
         \A r \in runs' : r.principal \in Principals,
         \A p \in Principals : \A m \in Copies(p) : TemplateOK(p, m) => TemplateOK(p, m)'
  PROVE  AccountsInv'
<1>1. DOMAIN caller' = Callers /\ \A d \in Callers : caller'[d] = IF d = c THEN w ELSE caller[d]
  BY DEF CallersInv
<1>2. ASSUME NEW d \in Callers PROVE Moves(d, caller'[d], issued')
  <2>1. CASE d = c
    BY <1>1, <2>1
  <2>2. CASE d # c
    BY <1>1, <2>2, StandsStill
  <2> QED BY <2>1, <2>2
<1>3. issued \subseteq issued' /\ issued' \subseteq SwitchRequests
  BY DEF CallersInv
<1>4. BusyOK'
  BY BusyKept
<1>5. CallersInv'
  BY <1>1, <1>2, <1>3, <1>4, CallersMove
<1> QED BY <1>5, StoreStays DEF AccountsInv

(* Two reservations exclude each other.                                          *)
LEMMA OneHolder ==
  ASSUME NEW p, NEW m, TemplateOK(p, m), m # None, NEW a \in Entering(p)
  PROVE  /\ m.hold.kind = "admission" /\ m.hold.op = a /\ ~m.hold.due
         /\ \A r : ~Holds(m, "switch", r)
BY DEF TemplateOK, Holds

LEMMA ListRunsKeeps ==
  ASSUME CallersInv, StoreInv, NEW h \in Handlers, ListRuns(h)
  PROVE  AccountsInv'
<1>1. /\ caller[h].pc = "list" /\ issued' = issued /\ runs' = runs /\ AccountsStay /\ late' = late
      /\ h \in Callers /\ StateOK(h, caller[h], issued) /\ DOMAIN caller = Callers
  BY Apart DEF ListRuns, AccountsStay, brokerVars, CallersInv
<1>2. CASE \E r \in runs : r.principal = caller[h].principal
  <2>1. caller' = [caller EXCEPT ![h] = Failed(h)]
    BY <1>2 DEF ListRuns
  <2>2. Served
    BY <1>1, <2>1, Apart, OthersServed DEF ListRuns, brokerVars
  <2> QED BY <1>1, <2>1, <2>2, CallerFails, CallersWithdraw
<1>3. CASE ~\E r \in runs : r.principal = caller[h].principal
  <2>1. PICK w : w = Sending(h, "commit")
    OBVIOUS
  <2>2. caller' = [caller EXCEPT ![h] = w]
    BY <1>3, <2>1 DEF ListRuns
  <2>3. /\ DOMAIN w = CallerFields /\ w.pc = "commit" /\ w.principal = caller[h].principal
        /\ w.request = caller[h].request
    BY <1>1, <2>1 DEF StateOK, Sending, CallerFields
  <2>4. StateOK(h, w, issued)
    BY <1>1, <2>3, Apart DEF StateOK
  <2>5. Moves(h, w, issued)
    BY <1>1, <2>3, <2>4 DEF Moves, Over
  <2>6. \A d \in Callers : caller'[d] = IF d = h THEN w ELSE caller[d]
    BY <1>1, <2>2
  <2>7. ASSUME NEW p \in Principals, NEW m \in Copies(p), TemplateOK(p, m) PROVE TemplateOK(p, m)'
    <3>1. /\ Entering(p)' = Entering(p) /\ RunsOf(p)' = RunsOf(p) /\ (Clean(p)' <=> Clean(p))
          /\ \A a \in Entering(p)' : caller'[a] = caller[a]
      BY <1>1, <2>6, Apart DEF Entering, RunsOf, Clean
    <3>2. Listing(p)' \subseteq Listing(p)
      BY <2>3, <2>6, Apart DEF Listing
    <3>3. Committing(p)' \subseteq Committing(p) \cup {caller[h].request}
      BY <1>1, <2>3, <2>6, Apart DEF Committing
    <3>4. CASE caller[h].principal # p
      <4>1. Committing(p)' \subseteq Committing(p)
        BY <1>1, <2>3, <2>6, <3>4, Apart DEF Committing
      <4> QED BY <2>7, <3>1, <3>2, <4>1 DEF TemplateOK
    <3>5. CASE caller[h].principal = p
      <4>1. RunsOf(p) = {} /\ caller[h].request \in Listing(p)
        BY <1>1, <1>3, <3>5 DEF RunsOf, Listing
      <4>2. m # None /\ (Holds(m, "switch", caller[h].request) \/ m.request = caller[h].request) => Clean(p)
        BY <2>7, <4>1, OneHolder DEF TemplateOK, Clean
      <4> QED BY <2>7, <3>1, <3>2, <3>3, <4>2 DEF TemplateOK
    <3> QED BY <3>4, <3>5
  <2>8. \A r \in runs' : r.principal \in Principals
    BY <1>1 DEF CallersInv
  <2>9. Served
    BY <1>1, <2>2, Apart, OthersServed DEF ListRuns, brokerVars
  <2> QED BY <1>1, <2>2, <2>5, <2>7, <2>8, <2>9, OneAdvances
<1> QED BY <1>2, <1>3

(* Between operations a healthy broker's copies of an account are one.             *)
LEMMA OneCopy ==
  ASSUME StoreInv, healthy, busy = None, NEW p \in Principals
  PROVE  /\ Copies(p) = {accounts[p]} /\ TemplateOK(p, accounts[p])
         /\ disk[p].visible = accounts[p] /\ disk[p].durable = accounts[p]
         /\ accounts[p] # None => CopyOK(accounts[p]) /\ (accounts[p].file # None => accounts[p].file \in disk[p].files)
<1>1. PlacesOK(p) /\ CopiesOK(p) /\ ~Changing(p)
  BY DEF StoreInv, Changing
<1>2. disk[p].visible = accounts[p] /\ disk[p].durable = accounts[p]
  BY <1>1 DEF PlacesOK
<1>3. Copies(p) = {accounts[p]}
  BY <1>1, <1>2 DEF Copies
<1> QED BY <1>1, <1>2, <1>3 DEF CopiesOK

LEMMA ResolveKeeps ==
  ASSUME CallersInv, StoreInv, NEW a \in Admissions, Resolve(a)
  PROVE  AccountsInv'
<1>1. /\ caller[a].pc = "resolve" /\ issued' = issued /\ runs' = runs /\ AccountsStay /\ late' = late
      /\ a \in Callers /\ StateOK(a, caller[a], issued) /\ DOMAIN caller = Callers /\ busy = None
      /\ a \notin Handlers /\ a \notin Mutations
  BY Apart DEF Resolve, AccountsStay, brokerVars, CallersInv
<1>4. busy' = None
  BY <1>1 DEF Resolve, brokerVars
<1>5. Served
  BY <1>4 DEF Served
<1> DEFINE o == Owner[a]
           ok == healthy /\ Active(o) /\ accounts[o].eligible /\ handles[o] # None
<1>2. CASE ~ok
  <2>1. caller' = [caller EXCEPT ![a] = Failed(a)]
    BY <1>2 DEF Resolve
  <2> QED BY <1>1, <1>5, <2>1, CallerFails, CallersWithdraw
<1>3. CASE ok
  <2>1. PICK w : w = [Finished(a, "create") EXCEPT !.template = accounts[o].template]
    OBVIOUS
  <2>2. caller' = [caller EXCEPT ![a] = w]
    BY <1>3, <2>1 DEF Resolve
  <2>3. /\ DOMAIN w = CallerFields /\ w.pc = "create" /\ w.principal = caller[a].principal
        /\ w.template = accounts[o].template
    BY <1>1, <2>1 DEF StateOK, Finished, CallerFields
  <2>4. Moves(a, w, issued)
    BY <1>1, <2>3 DEF StateOK, Moves, Over
  <2>5. \A d \in Callers : caller'[d] = IF d = a THEN w ELSE caller[d]
    BY <1>1, <2>2
  <2>6. o \in Principals /\ healthy
    BY <1>3, Apart
  <2>7. Copies(o) = {accounts[o]}
    BY <1>1, <2>6, OneCopy
  <2> HIDE DEF ok
  <2>8. ASSUME NEW p \in Principals, NEW m \in Copies(p), TemplateOK(p, m) PROVE TemplateOK(p, m)'
    <3>1. /\ Entering(p)' = Entering(p) /\ RunsOf(p)' = RunsOf(p) /\ (Clean(p)' <=> Clean(p))
          /\ Listing(p)' = Listing(p) /\ Committing(p)' = Committing(p)
      <4>1. Entering(p)' = Entering(p)
        BY <1>1, <2>3, <2>5, Apart DEF Entering
      <4>2. \A h \in Handlers : caller'[h] = caller[h]
        BY <1>1, <2>5, Apart
      <4>3. Listing(p)' = Listing(p)
        BY <4>2 DEF Listing
      <4>4. Committing(p)' = Committing(p)
        BY <1>1, <4>2 DEF Committing
      <4> QED BY <1>1, <4>1, <4>3, <4>4 DEF RunsOf, Clean
    <3>2. ASSUME NEW b \in Entering(p)
          PROVE  m # None /\ Holds(m, "admission", b) /\ (caller'[b].pc = "create" => caller'[b].template = m.template)
      <4>1. b \in Callers /\ Owner[b] = p
        BY Apart DEF Entering
      <4>2. m # None /\ Holds(m, "admission", b) /\ (caller[b].pc = "create" => caller[b].template = m.template)
        BY <2>8 DEF TemplateOK
      <4>3. CASE b = a
        BY <2>3, <2>5, <2>7, <4>1, <4>2, <4>3
      <4>4. CASE b # a
        BY <2>5, <4>1, <4>2, <4>4
      <4> QED BY <4>3, <4>4
    <3> QED BY <2>8, <3>1, <3>2 DEF TemplateOK
  <2>9. \A r \in runs' : r.principal \in Principals
    BY <1>1 DEF CallersInv
  <2> QED BY <1>1, <1>5, <2>2, <2>4, <2>8, <2>9, OneAdvances
<1> QED BY <1>2, <1>3

LEMMA CreateRunKeeps ==
  ASSUME CallersInv, StoreInv, NEW a \in Admissions, CreateRun(a)
  PROVE  AccountsInv'
<1> DEFINE new == [principal |-> Owner[a], template |-> caller[a].template, by |-> a]
<1>1. /\ caller[a].pc = "create" /\ issued' = issued /\ runs' = runs \cup {new} /\ AccountsStay /\ late' = late
      /\ a \in Callers /\ StateOK(a, caller[a], issued) /\ DOMAIN caller = Callers
      /\ a \notin Handlers /\ a \notin Mutations
  BY Apart DEF CreateRun, AccountsStay, brokerVars, CallersInv
<1>2. new.principal = Owner[a] /\ new.template = caller[a].template /\ Owner[a] \in Principals
  BY Apart
<1> HIDE DEF new
<1>3. PICK w : w = [Sending(a, "end") EXCEPT !.template = None]
  OBVIOUS
<1>4. caller' = [caller EXCEPT ![a] = w]
  BY <1>3 DEF CreateRun
<1>5. DOMAIN w = CallerFields /\ w.pc = "end" /\ w.principal = caller[a].principal
  BY <1>1, <1>3 DEF StateOK, Sending, CallerFields
<1>6. Moves(a, w, issued)
  BY <1>1, <1>5 DEF StateOK, Moves, Over
<1>7. \A d \in Callers : caller'[d] = IF d = a THEN w ELSE caller[d]
  BY <1>1, <1>4
<1>8. ASSUME NEW p \in Principals, NEW m \in Copies(p), TemplateOK(p, m) PROVE TemplateOK(p, m)'
  <2>1. \A h \in Handlers : caller'[h] = caller[h]
    BY <1>1, <1>7, Apart
  <2>2. Listing(p)' = Listing(p) /\ Committing(p)' = Committing(p)
    BY <1>1, <2>1 DEF Listing, Committing
  <2>3. Entering(p)' \subseteq Entering(p) /\ \A b \in Entering(p)' : caller'[b] = caller[b]
    BY <1>1, <1>5, <1>7, Apart DEF Entering
  <2>4. CASE Owner[a] = p
    <3>1. a \in Entering(p)
      BY <1>1, <2>4 DEF Entering
    <3>2. ~Clean(p) /\ m # None /\ caller[a].template = m.template
      BY <1>1, <1>8, <3>1 DEF Clean, TemplateOK
    <3>3. RunsOf(p)' \subseteq RunsOf(p) \cup {new}
      BY <1>1 DEF RunsOf
    <3> QED BY <1>2, <1>8, <2>2, <2>3, <3>1, <3>2, <3>3 DEF TemplateOK
  <2>5. CASE Owner[a] # p
    <3>1. RunsOf(p)' = RunsOf(p)
      BY <1>1, <1>2, <2>5 DEF RunsOf
    <3>2. Clean(p) => Clean(p)'
      BY <2>3, <3>1 DEF Clean
    <3> QED BY <1>8, <2>2, <2>3, <3>1, <3>2 DEF TemplateOK
  <2> QED BY <2>4, <2>5
<1>9. \A r \in runs' : r.principal \in Principals
  BY <1>1, <1>2 DEF CallersInv
<1>10. Served
  BY <1>1, <1>4, OthersServed DEF CreateRun, brokerVars
<1> QED BY <1>1, <1>4, <1>6, <1>8, <1>9, <1>10, OneAdvances
-----------------------------------------------------------------------------
(* What a granted request makes of an account: one whose credential and log are      *)
(* what they were.                                                              *)
Follows(m, n) ==
  /\ CopyOK(n) /\ n.state = m.state /\ n.template = m.template /\ n.generation = m.generation
  /\ n.file = m.file /\ n.log = m.log

HoldType ==
  [kind : {None, "admission", "switch"}, op : Admissions \cup SwitchRequests \cup {None}, due : BOOLEAN]

LEMMA FollowsSelf == ASSUME NEW m, CopyOK(m) PROVE Follows(m, m)
BY DEF Follows

LEMMA NewHold ==
  ASSUME NEW m, CopyOK(m), NEW h \in HoldType, NEW n, n = [m EXCEPT !.hold = h]
  PROVE  Follows(m, n) /\ n.hold = h /\ n.request = m.request /\ n.authorized = m.authorized
<1>1. m \in Metadata
  BY DEF CopyOK
<1>2. n \in Metadata
  BY <1>1 DEF Metadata, HoldType
<1>3. /\ n.state = m.state /\ n.template = m.template /\ n.generation = m.generation /\ n.file = m.file
      /\ n.log = m.log /\ n.hold = h /\ n.request = m.request /\ n.authorized = m.authorized
  BY <1>1 DEF Metadata
<1> QED BY <1>2, <1>3 DEF Follows, CopyOK

LEMMA HoldTypes ==
  /\ NoHold \in HoldType
  /\ \A kind \in {"admission", "switch"} : \A op \in Admissions \cup SwitchRequests :
       [kind |-> kind, op |-> op, due |-> FALSE] \in HoldType
BY DEF NoHold, HoldType

LEMMA NobodyHolds ==
  ASSUME NEW m, m.hold = NoHold \/ m.hold.due, NEW op \in Admissions \cup SwitchRequests, NEW kind
  PROVE  ~Holds(m, kind, op)
<1>1. NoHold.op = None
  BY DEF NoHold
<1>2. op # None
  BY AccountConstants
<1> QED BY <1>1, <1>2 DEF Holds

LEMMA ReserveOutcome ==
  ASSUME NEW m, CopyOK(m), NEW kind \in {"admission", "switch"}, NEW op \in Admissions \cup SwitchRequests,
         NEW n \in Reserve(m, kind, op)
  PROVE  /\ Follows(m, n) /\ n.request = m.request /\ n.authorized = m.authorized /\ Holds(n, kind, op)
         /\ Holds(m, kind, op) \/ \A k : \A o \in Admissions \cup SwitchRequests : ~Holds(m, k, o)
<1>1. CASE m.hold = NoHold \/ m.hold.due
  <2>1. PICK h : h = [kind |-> kind, op |-> op, due |-> FALSE]
    OBVIOUS
  <2>2. n = [m EXCEPT !.hold = h]
    BY <1>1, <2>1 DEF Reserve
  <2>3. h \in HoldType
    BY <2>1, HoldTypes
  <2>4. Follows(m, n) /\ n.hold = h /\ n.request = m.request /\ n.authorized = m.authorized
    BY <2>2, <2>3, NewHold
  <2>5. Holds(n, kind, op)
    BY <2>1, <2>4 DEF Holds
  <2>6. \A k : \A o \in Admissions \cup SwitchRequests : ~Holds(m, k, o)
    BY <1>1, NobodyHolds
  <2> QED BY <2>4, <2>5, <2>6
<1>2. CASE ~(m.hold = NoHold \/ m.hold.due)
  <2>1. n = m /\ Holds(m, kind, op)
    BY <1>2 DEF Reserve
  <2> QED BY <2>1, FollowsSelf
<1> QED BY <1>1, <1>2

LEMMA ReleaseOutcome ==
  ASSUME NEW m, CopyOK(m), NEW kind, NEW op, NEW n \in Release(m, kind, op)
  PROVE  /\ Follows(m, n) /\ n.request = m.request /\ n.authorized = m.authorized /\ n.hold = NoHold
         /\ m.hold = NoHold \/ Holds(m, kind, op)
<1>1. n = [m EXCEPT !.hold = NoHold] /\ (m.hold = NoHold \/ Holds(m, kind, op))
  BY DEF Release
<1> QED BY <1>1, NewHold, HoldTypes

LEMMA TemplateKept ==
  ASSUME NEW p, NEW m, NEW n, m # None, n # None, TemplateOK(p, m), n.template = m.template,
         \A a \in Entering(p) : Holds(m, "admission", a) => Holds(n, "admission", a),
         n.authorized # None => m.authorized # None \/ Clean(p),
         \A r \in Committing(p) : Holds(n, "switch", r) \/ n.request = r =>
                                    Holds(m, "switch", r) \/ m.request = r \/ Clean(p),
         n.request \in Listing(p) => m.request \in Listing(p) \/ Entering(p) = {}
  PROVE  TemplateOK(p, n)
BY DEF TemplateOK

LEMMA Subjected ==
  ASSUME CallersInv, NEW q \in Requests, NEW p \in Subjects(q)
  PROVE  /\ p \in Principals
         /\ q.caller \notin Handlers => p = Owner[q.caller] /\ q.op = q.caller
         /\ q.kind \in {"call", "end", "commit", "abort"} => q.principal = p
         /\ q.kind = "call" => q.caller \in Mutations
         /\ q.kind = "end" => q.caller \in Admissions
         /\ q.kind \in {"commit", "abort"} => q.caller \in Handlers
         /\ q.kind = "begin" => q.caller \in Admissions \cup Handlers
         /\ q.caller \in Handlers => q.op \in issued
         /\ q.op \in Admissions \cup SwitchRequests \/ q.caller \in Mutations
<1>1. AskOK(q, issued) /\ q.caller \in Callers /\ issued \subseteq SwitchRequests
  BY RequestsOK DEF CallersInv
<1>2. q.principal \in Principals => p = q.principal
  BY Apart DEF Subjects
<1>3. p \in Principals
  BY <1>1, <1>2 DEF Subjects, AskOK, RequestType
<1>4. CASE q.caller \in Mutations
  BY <1>1, <1>2, <1>3, <1>4, Apart DEF AskOK
<1>5. CASE q.caller \in Admissions
  BY <1>1, <1>2, <1>3, <1>5, Apart DEF AskOK
<1>6. CASE q.caller \in Handlers
  BY <1>1, <1>2, <1>3, <1>6, Apart DEF AskOK
<1> QED BY <1>1, <1>4, <1>5, <1>6, Apart

LEMMA PendingIssued ==
  ASSUME CallersInv, NEW p \in Principals
  PROVE  /\ Committing(p) \subseteq issued /\ Listing(p) \subseteq issued
         /\ Entering(p) \subseteq Admissions /\ issued \subseteq SwitchRequests /\ None \notin issued
<1>1. issued \subseteq SwitchRequests /\ None \notin issued
  BY AccountConstants DEF CallersInv
<1>2. \A h \in Handlers : caller[h].pc \in {"list", "commit"} => caller[h].request \in issued
  BY Apart DEF CallersInv, StateOK
<1>3. \A q \in late : q.kind = "commit" => q.op \in issued
  BY Apart DEF CallersInv, AskOK, RequestType
<1> QED BY <1>1, <1>2, <1>3 DEF Committing, Listing, Entering

LEMMA EligibilityOutcome ==
  ASSUME NEW m, CopyOK(m), NEW e \in BOOLEAN, NEW n, n = [m EXCEPT !.eligible = e]
  PROVE  Follows(m, n) /\ n.hold = m.hold /\ n.request = m.request /\ n.authorized = m.authorized
<1>1. m \in Metadata
  BY DEF CopyOK
<1>2. n \in Metadata
  BY <1>1 DEF Metadata
<1>3. /\ n.state = m.state /\ n.template = m.template /\ n.generation = m.generation /\ n.file = m.file
      /\ n.log = m.log /\ n.hold = m.hold /\ n.request = m.request /\ n.authorized = m.authorized
  BY <1>1 DEF Metadata
<1> QED BY <1>2, <1>3 DEF Follows, CopyOK

LEMMA RequestOutcome ==
  ASSUME CallersInv, NEW m, CopyOK(m), NEW n \in request_template_switch(m)
  PROVE  /\ Follows(m, n) /\ n.hold = m.hold /\ n.authorized = m.authorized
         /\ n.request = m.request \/ n.request \in SwitchRequests \ issued
<1>1. CASE n = m
  BY <1>1, FollowsSelf
<1>2. CASE n # m
  <2>1. m.state = "revoked" /\ m.authorized = None
    BY <1>2 DEF request_template_switch
  <2>2. PICK r \in SwitchRequests \ issued : n = [m EXCEPT !.request = r, !.requestDue = FALSE]
    BY <1>2, <2>1 DEF request_template_switch
  <2>3. m \in Metadata
    BY DEF CopyOK
  <2>4. n \in Metadata
    BY <2>2, <2>3 DEF Metadata
  <2>5. /\ n.state = m.state /\ n.template = m.template /\ n.generation = m.generation /\ n.file = m.file
        /\ n.log = m.log /\ n.hold = m.hold /\ n.request = r /\ n.authorized = m.authorized
    BY <2>2, <2>3 DEF Metadata
  <2>6. CopyOK(n)
    BY <2>1, <2>4, <2>5 DEF CopyOK
  <2> QED BY <2>5, <2>6 DEF Follows
<1> QED BY <1>1, <1>2

LEMMA CommitOutcome ==
  ASSUME NEW m, CopyOK(m), NEW r \in SwitchRequests, NEW n \in commit_template_switch(m, r)
  PROVE  /\ Follows(m, n)
         /\ n = m \/ (Holds(m, "switch", r) /\ n.request = None /\ n.hold = NoHold)
<1>1. CASE n = m
  BY <1>1, FollowsSelf
<1>2. CASE n # m
  <2>1. /\ Holds(m, "switch", r) /\ m.state = "revoked" /\ m.request # None
        /\ n = [m EXCEPT !.authorized = [op |-> r, request |-> m.request],
                         !.request = None, !.requestDue = FALSE, !.hold = NoHold]
    BY <1>2 DEF commit_template_switch
  <2>2. m \in Metadata /\ NoHold \in HoldType
    BY HoldTypes DEF CopyOK
  <2>3. PICK h \in HoldType : h = NoHold
    BY <2>2
  <2>4. m.request \in SwitchRequests
    BY <2>1, <2>2 DEF Metadata
  <2>5. PICK x : x = [op |-> r, request |-> m.request]
    OBVIOUS
  <2>6. x \in Authorizations
    BY <2>4, <2>5 DEF Authorizations
  <2>7. n = [m EXCEPT !.authorized = x, !.request = None, !.requestDue = FALSE, !.hold = h]
    BY <2>1, <2>3, <2>5
  <2>8. n \in Metadata
    BY <2>2, <2>6, <2>7 DEF Metadata, HoldType
  <2>9. /\ n.state = m.state /\ n.template = m.template /\ n.generation = m.generation /\ n.file = m.file
        /\ n.log = m.log /\ n.hold = h /\ n.request = None
    BY <2>2, <2>7 DEF Metadata
  <2>10. CopyOK(n)
    BY <2>1, <2>8, <2>9 DEF CopyOK
  <2> QED BY <2>1, <2>3, <2>9, <2>10 DEF Follows
<1> QED BY <1>1, <1>2

(* What the grants of each kind guarantee besides.                                *)
GrantedOK(q, p, m) ==
  /\ q.kind = "begin" /\ q.caller \in Admissions => Holds(m, "admission", q.op) /\ m.state = "active"
  /\ q.kind = "begin" /\ q.caller \in Handlers /\ m.request = q.op => Entering(p) = {}

LEMMA OutcomeOK ==
  ASSUME CallersInv, StoreInv, healthy, busy = None, NEW q \in Requests, NEW p \in Subjects(q),
         accounts[p] # None, NEW n \in Outcomes(q, p)
  PROVE  n # None /\ Follows(accounts[p], n) /\ TemplateOK(p, n) /\ GrantedOK(q, p, n)
<1>0. /\ p \in Principals
      /\ q.caller \notin Handlers => p = Owner[q.caller] /\ q.op = q.caller
      /\ q.kind \in {"call", "end", "commit", "abort"} => q.principal = p
      /\ q.kind = "call" => q.caller \in Mutations
      /\ q.kind = "end" => q.caller \in Admissions
      /\ q.kind \in {"commit", "abort"} => q.caller \in Handlers
      /\ q.kind = "begin" => q.caller \in Admissions \cup Handlers
      /\ q.caller \in Handlers => q.op \in issued
  BY Subjected
<1>1. PICK m : m = accounts[p]
  OBVIOUS
<1>2. m # None /\ CopyOK(m) /\ TemplateOK(p, m)
  BY <1>0, <1>1, OneCopy
<1>3. /\ Committing(p) \subseteq issued /\ Listing(p) \subseteq issued
      /\ Entering(p) \subseteq Admissions /\ issued \subseteq SwitchRequests /\ None \notin issued
  BY <1>0, PendingIssued
<1>4. \A x : CopyOK(x) => x # None
  BY NoneIsApart DEF CopyOK
<1>5. \A x : Follows(m, x) => CopyOK(x) /\ x.template = m.template /\ x.state = m.state
  BY DEF Follows
<1>6. ASSUME NEW x, Follows(m, x), x.hold = m.hold, x.authorized = m.authorized,
             x.request = m.request \/ x.request \in SwitchRequests \ issued
      PROVE  TemplateOK(p, x)
  <2>1. x # None /\ x.template = m.template
    BY <1>4, <1>5, <1>6
  <2>2. \A k, o : Holds(x, k, o) <=> Holds(m, k, o)
    BY <1>6 DEF Holds
  <2> QED BY <1>2, <1>3, <1>6, <2>1, <2>2, TemplateKept
<1>7. CASE q.kind = "call"
  <2>1. GrantedOK(q, p, n)
    BY <1>7 DEF GrantedOK
  <2>2. CASE Action[q.op] \in {"renew", "deny"}
    <3>1. PICK e \in BOOLEAN : n = [m EXCEPT !.eligible = e]
      BY <1>1, <1>2, <1>7, <2>2 DEF Outcomes, SetEligibility
    <3> QED BY <1>1, <1>2, <1>4, <1>5, <1>6, <2>1, <3>1, EligibilityOutcome
  <2>3. CASE Action[q.op] \notin {"renew", "deny"} /\ Action[q.op] = "request"
    <3>1. n \in request_template_switch(m)
      BY <1>1, <1>2, <1>7, <2>3 DEF Outcomes, Enrolled, Replacements
    <3> QED BY <1>1, <1>2, <1>4, <1>5, <1>6, <2>1, <3>1, RequestOutcome
  <2>4. CASE Action[q.op] \notin {"renew", "deny"} /\ Action[q.op] # "request"
    <3>1. Action[q.op] \in Actions
      BY <1>0, <1>7, Apart, AccountConstants
    <3>2. Action[q.op] \in Replacements \cup {"revoke"}
      BY <2>4, <3>1 DEF Actions
    <3>3. n = m
      BY <1>1, <1>2, <1>7, <2>4, <3>2 DEF Outcomes, Enrolled
    <3> QED BY <1>1, <1>2, <2>1, <3>3, FollowsSelf
  <2> QED BY <2>2, <2>3, <2>4
<1>8. CASE q.kind = "begin" /\ q.caller \in Admissions
  <2>1. q.caller \notin Handlers /\ q.op \in Admissions
    BY <1>0, <1>8, Apart
  <2>2. n \in begin_admission(m, q.op)
    BY <1>1, <1>2, <1>8, <2>1 DEF Outcomes, Enrolled
  <2>3. m.state = "active" /\ n \in Reserve(m, "admission", q.op)
    BY <2>2 DEF begin_admission
  <2>4. /\ Follows(m, n) /\ n.request = m.request /\ n.authorized = m.authorized /\ Holds(n, "admission", q.op)
        /\ Holds(m, "admission", q.op) \/ \A k : \A o \in Admissions \cup SwitchRequests : ~Holds(m, k, o)
    BY <1>2, <2>1, <2>3, ReserveOutcome
  <2>5. \A a \in Entering(p) : Holds(m, "admission", a) => Holds(n, "admission", a)
    BY <1>3, <2>4 DEF Holds
  <2>6. \A r : ~Holds(n, "switch", r)
    BY <2>4 DEF Holds
  <2>7. n # None /\ n.template = m.template /\ n.state = "active"
    BY <1>4, <1>5, <2>3, <2>4
  <2>8. TemplateOK(p, n)
    BY <1>2, <2>4, <2>5, <2>6, <2>7, TemplateKept
  <2>9. GrantedOK(q, p, n)
    BY <2>1, <2>4, <2>7 DEF GrantedOK
  <2> QED BY <1>1, <2>4, <2>7, <2>8, <2>9
<1>9. CASE q.kind = "begin" /\ q.caller \in Handlers
  <2>1. q.caller \notin Admissions /\ q.op \in SwitchRequests /\ q.op # None
    BY <1>0, <1>3, <1>9, Apart
  <2>2. n \in begin_template_switch(m, q.op)
    BY <1>1, <1>2, <1>9, <2>1 DEF Outcomes, Enrolled
  <2>3. CASE m.authorized = [op |-> q.op, request |-> q.op]
    <3>1. n = m
      BY <2>2, <2>3 DEF begin_template_switch
    <3>2. m.authorized # None => m.request = None
      BY <1>2 DEF CopyOK
    <3>3. m.authorized # None
      BY <2>1, <2>3, NoneIsApart DEF Authorizations
    <3>4. m.request # q.op
      BY <2>1, <3>2, <3>3
    <3> QED BY <1>1, <1>2, <2>1, <3>1, <3>4, FollowsSelf DEF GrantedOK
  <2>4. CASE m.authorized # [op |-> q.op, request |-> q.op]
    <3>1. m.request = q.op /\ n \in Reserve(m, "switch", q.op)
      BY <2>2, <2>4 DEF begin_template_switch
    <3>2. /\ Follows(m, n) /\ n.request = m.request /\ n.authorized = m.authorized /\ Holds(n, "switch", q.op)
          /\ Holds(m, "switch", q.op) \/ \A k : \A o \in Admissions \cup SwitchRequests : ~Holds(m, k, o)
      BY <1>2, <2>1, <3>1, ReserveOutcome
    <3>3. Entering(p) = {}
      <4> SUFFICES ASSUME NEW a \in Entering(p) PROVE FALSE
        OBVIOUS
      <4>1. Holds(m, "admission", a) /\ \A r : ~Holds(m, "switch", r)
        BY <1>2, OneHolder DEF Holds
      <4> QED BY <1>3, <3>2, <4>1
    <3>4. \A r \in Committing(p) : Holds(n, "switch", r) => m.request = r
      BY <3>1, <3>2 DEF Holds
    <3>5. n # None /\ n.template = m.template
      BY <1>4, <1>5, <3>2
    <3>6. TemplateOK(p, n)
      BY <1>2, <3>2, <3>3, <3>4, <3>5, TemplateKept
    <3> QED BY <1>1, <2>1, <3>2, <3>3, <3>5, <3>6 DEF GrantedOK
  <2> QED BY <2>3, <2>4
<1>10. CASE q.kind = "end"
  <2>1. n \in Release(m, "admission", q.op)
    BY <1>1, <1>2, <1>10 DEF Outcomes, Enrolled
  <2>2. caller[q.caller].pc \in Over /\ q.op = q.caller
    BY <1>0, <1>10, RequestsOK, Apart
  <2>3. /\ Follows(m, n) /\ n.request = m.request /\ n.authorized = m.authorized /\ n.hold = NoHold
        /\ m.hold = NoHold \/ Holds(m, "admission", q.op)
    BY <1>2, <2>1, ReleaseOutcome
  <2>4. \A a \in Entering(p) : ~Holds(m, "admission", a)
    <3> SUFFICES ASSUME NEW a \in Entering(p), Holds(m, "admission", a) PROVE FALSE
      OBVIOUS
    <3>1. a \in Admissions /\ caller[a].pc \notin Over
      BY DEF Entering, Over
    <3>2. m.hold # NoHold
      BY <3>1, NobodyHolds
    <3>3. a = q.op
      BY <2>3, <3>2 DEF Holds
    <3> QED BY <2>2, <3>1, <3>3
  <2>5. \A r \in Committing(p) : ~Holds(n, "switch", r)
    BY <1>3, <2>3, NobodyHolds
  <2>6. n # None /\ n.template = m.template
    BY <1>4, <1>5, <2>3
  <2>7. TemplateOK(p, n)
    BY <1>2, <2>3, <2>4, <2>5, <2>6, TemplateKept
  <2> QED BY <1>1, <1>10, <2>3, <2>6, <2>7 DEF GrantedOK
<1>11. CASE q.kind = "abort"
  <2>1. n \in Release(m, "switch", q.op)
    BY <1>1, <1>2, <1>11 DEF Outcomes, Enrolled
  <2>2. /\ Follows(m, n) /\ n.request = m.request /\ n.authorized = m.authorized /\ n.hold = NoHold
        /\ m.hold = NoHold \/ Holds(m, "switch", q.op)
    BY <1>2, <2>1, ReleaseOutcome
  <2>3. \A a \in Entering(p) : ~Holds(m, "admission", a)
    BY <1>3, <2>2, NobodyHolds DEF Holds
  <2>4. \A r \in Committing(p) : ~Holds(n, "switch", r)
    BY <1>3, <2>2, NobodyHolds
  <2>5. n # None /\ n.template = m.template
    BY <1>4, <1>5, <2>2
  <2>6. TemplateOK(p, n)
    BY <1>2, <2>2, <2>3, <2>4, <2>5, TemplateKept
  <2> QED BY <1>1, <1>11, <2>2, <2>5, <2>6 DEF GrantedOK
<1>12. CASE q.kind = "commit"
  <2>1. n \in commit_template_switch(m, q.op) /\ q.op \in SwitchRequests
    BY <1>0, <1>1, <1>2, <1>3, <1>12 DEF Outcomes, Enrolled
  <2>2. Follows(m, n) /\ (n = m \/ (Holds(m, "switch", q.op) /\ n.request = None /\ n.hold = NoHold))
    BY <1>2, <2>1, CommitOutcome
  <2>3. q.op \in Committing(p)
    <3>1. q.caller \in Handlers /\ q.principal = p
      BY <1>0, <1>12
    <3>2. CASE q.live
      <4>1. caller[q.caller].pc = "commit" /\ q.principal = PrincipalOf(q.caller) /\ q.op = caller[q.caller].request
        BY <1>12, <3>1, <3>2, RequestsOK
      <4> QED BY <3>1, <4>1 DEF PrincipalOf, Committing
    <3>3. CASE ~q.live
      <4>1. q \in late
        BY <3>3, RequestsOK
      <4> QED BY <1>12, <3>1, <4>1 DEF Committing
    <3> QED BY <3>2, <3>3
  <2>4. CASE n = m
    BY <1>1, <1>2, <1>12, <2>2, <2>4 DEF GrantedOK
  <2>5. CASE Holds(m, "switch", q.op) /\ n.request = None /\ n.hold = NoHold
    <3>1. Clean(p)
      BY <1>2, <2>3, <2>5 DEF TemplateOK
    <3>2. n # None /\ n.template = m.template
      BY <1>4, <1>5, <2>2
    <3>3. TemplateOK(p, n)
      BY <1>2, <3>1, <3>2, TemplateKept DEF Clean
    <3> QED BY <1>1, <1>12, <2>2, <3>2, <3>3 DEF GrantedOK
  <2> QED BY <2>2, <2>4, <2>5
<1> QED
  <2>1. q.kind \in Asking
    BY RequestsOK DEF AskOK, RequestType
  <2> QED BY <1>0, <1>7, <1>8, <1>9, <1>10, <1>11, <1>12, <2>1 DEF Asking

LEMMA NoAccount ==
  ASSUME CallersInv, NEW q \in Requests, NEW p \in Subjects(q), accounts[p] = None, NEW n \in Outcomes(q, p)
  PROVE  n = None /\ q.kind = "call"
BY DEF Outcomes, SetEligibility, Enrolled

(* How the caller of a granted request goes on.                                   *)
LEMMA GrantedMoves ==
  ASSUME CallersInv, NEW q \in Requests, q.live, NEW p \in Subjects(q), NEW w, w = Granted(q.caller, p)
  PROVE  /\ Moves(q.caller, w, issued) /\ q.caller \in Callers
         /\ q.kind # "begin" => Withdraws(q.caller, w)
         /\ q.kind = "begin" /\ q.caller \in Admissions => w.pc = "resolve"
         /\ q.kind = "begin" /\ q.caller \in Handlers =>
              w.pc = "list" /\ w.principal = p /\ w.request = caller[q.caller].request
<1>1. /\ q.caller \in Callers /\ Waiting(q.caller) /\ q.kind = caller[q.caller].pc
  BY RequestsOK
<1>2. PICK c \in Callers : c = q.caller
  BY <1>1
<1>3. StateOK(c, caller[c], issued) /\ DOMAIN caller[c] = CallerFields /\ caller[c].pc \in Asking
  BY <1>1, <1>2 DEF CallersInv, StateOK, Waiting
<1>4. p \in Principals
  BY Subjected
<1>5. CASE caller[c].pc = "call"
  <2>1. w = Finished(c, "ok") /\ c \in Mutations /\ c \notin Admissions /\ c \notin Handlers
    BY <1>2, <1>3, <1>5, Apart DEF Granted, StateOK
  <2>2. DOMAIN w = CallerFields /\ w.pc = "ok" /\ w.principal = caller[c].principal
    BY <1>3, <2>1 DEF Finished, CallerFields
  <2>3. Moves(c, w, issued) /\ Withdraws(c, w)
    BY <1>3, <1>5, <2>1, <2>2 DEF Moves, Withdraws, StateOK, Over, Reached
  <2> QED BY <1>1, <1>2, <1>5, <2>3
<1>6. CASE caller[c].pc = "begin" /\ c \in Admissions
  <2>1. w = Finished(c, "resolve") /\ c \notin Mutations /\ c \notin Handlers
    BY <1>2, <1>3, <1>6, Apart DEF Granted, StateOK
  <2>2. DOMAIN w = CallerFields /\ w.pc = "resolve" /\ w.principal = caller[c].principal
    BY <1>3, <2>1 DEF Finished, CallerFields
  <2>3. Moves(c, w, issued)
    BY <1>3, <1>6, <2>1, <2>2 DEF Moves, StateOK, Over
  <2> QED BY <1>1, <1>2, <1>6, <2>1, <2>2, <2>3
<1>7. CASE caller[c].pc = "begin" /\ c \in Handlers
  <2>1. w = [Finished(c, "list") EXCEPT !.principal = p] /\ c \notin Mutations /\ c \notin Admissions
    BY <1>2, <1>3, <1>7, Apart DEF Granted, StateOK
  <2>2. DOMAIN w = CallerFields /\ w.pc = "list" /\ w.principal = p /\ w.request = caller[c].request
    BY <1>3, <2>1 DEF Finished, CallerFields
  <2>3. Moves(c, w, issued)
    BY <1>3, <1>4, <1>7, <2>1, <2>2 DEF Moves, StateOK, Over
  <2> QED BY <1>1, <1>2, <1>7, <2>1, <2>2, <2>3
<1>8. CASE caller[c].pc \in {"end", "commit", "abort"}
  <2>1. w = Ended /\ c \in Admissions \cup Handlers
    BY <1>2, <1>3, <1>8, Apart DEF Granted, StateOK
  <2>2. Moves(c, w, issued) /\ Withdraws(c, w)
    BY <2>1, EndedMoves
  <2> QED BY <1>1, <1>2, <1>8, <2>2
<1>9. caller[c].pc = "begin" => c \in Admissions \cup Handlers
  BY <1>3, Apart DEF StateOK
<1> QED BY <1>3, <1>5, <1>6, <1>7, <1>8, <1>9 DEF Asking

LEMMA ReplyMoves ==
  ASSUME CallersInv, NEW q, NEW w, Reply(q, w),
         q.live => Moves(q.caller, w, issued), q.caller \in Callers
  PROVE  /\ DOMAIN caller' = Callers /\ \A d \in Callers : Moves(d, caller'[d], issued)
         /\ late' \subseteq late \cup Orphans /\ late' \subseteq late
         /\ (q.live => Withdraws(q.caller, w)) => \A d \in Callers : Withdraws(d, caller'[d])
<1>1. late' \subseteq late
  BY DEF Reply
<1>2. CASE q.live
  <2>1. caller' = [caller EXCEPT ![q.caller] = w]
    BY <1>2 DEF Reply
  <2>2. DOMAIN caller' = Callers /\ \A d \in Callers : caller'[d] = IF d = q.caller THEN w ELSE caller[d]
    BY <2>1 DEF CallersInv
  <2>3. ASSUME NEW d \in Callers
        PROVE  Moves(d, caller'[d], issued) /\ (Withdraws(q.caller, w) => Withdraws(d, caller'[d]))
    <3>1. CASE d = q.caller
      BY <1>2, <2>2, <3>1
    <3>2. CASE d # q.caller
      BY <2>2, <3>2, StandsStill
    <3> QED BY <3>1, <3>2
  <2> QED BY <1>1, <1>2, <2>2, <2>3
<1>3. CASE ~q.live
  <2>1. caller' = caller
    BY <1>3 DEF Reply
  <2> QED BY <1>1, <2>1, StandsStill DEF CallersInv
<1> QED BY <1>2, <1>3

(* A granted request leaves every account fit for where its caller goes.            *)
LEMMA GrantAnswered ==
  ASSUME CallersInv, NEW q \in Requests, NEW p \in Subjects(q), Reply(q, Granted(q.caller, p)), runs' = runs,
         NEW n, n # None => CopyOK(n) /\ GrantedOK(q, p, n), n = None => q.kind = "call",
         NEW x \in Principals, NEW m, TemplateOK(x, m), x = p => m = n
  PROVE  TemplateOK(x, m)'
<1>1. PICK w : w = Granted(q.caller, p)
  OBVIOUS
<1>2. /\ q.caller \in Callers /\ AskOK(q, issued)
      /\ q.live => q.kind = caller[q.caller].pc
      /\ q.live /\ q.caller \in Handlers => q.op = caller[q.caller].request
  BY RequestsOK
<1>3. q.live =>
         /\ Moves(q.caller, w, issued)
         /\ q.kind # "begin" => Withdraws(q.caller, w)
         /\ q.kind = "begin" /\ q.caller \in Admissions => w.pc = "resolve"
         /\ q.kind = "begin" /\ q.caller \in Handlers =>
              w.pc = "list" /\ w.principal = p /\ w.request = caller[q.caller].request
  BY <1>1, GrantedMoves
<1>4. /\ DOMAIN caller' = Callers /\ late' \subseteq late \cup Orphans /\ late' \subseteq late
      /\ (q.live => Withdraws(q.caller, w)) => \A d \in Callers : Withdraws(d, caller'[d])
  BY <1>1, <1>2, <1>3, ReplyMoves
<1>5. CASE ~q.live \/ q.kind # "begin"
  BY <1>3, <1>4, <1>5, Retreat
<1>6. CASE q.live /\ q.kind = "begin"
  <2>1. n # None /\ CopyOK(n) /\ GrantedOK(q, p, n)
    BY <1>6
  <2>2. caller' = [caller EXCEPT ![q.caller] = w]
    BY <1>1, <1>6 DEF Reply
  <2>3. \A d \in Callers : caller'[d] = IF d = q.caller THEN w ELSE caller[d]
    BY <2>2 DEF CallersInv
  <2>4. RunsOf(x)' = RunsOf(x)
    BY DEF RunsOf
  <2>5. /\ Committing(x) \subseteq issued /\ Listing(x) \subseteq issued /\ None \notin issued
    BY PendingIssued
  <2>6. CASE q.caller \in Admissions
    <3>1. w.pc = "resolve" /\ p = Owner[q.caller] /\ q.op = q.caller /\ q.caller \notin Handlers
      BY <1>3, <1>6, <2>6, Subjected, Apart
    <3>2. \A h \in Handlers : caller'[h] = caller[h]
      BY <2>3, <3>1, Apart
    <3>3. Listing(x)' = Listing(x) /\ Committing(x)' \subseteq Committing(x)
      BY <1>4, <3>2 DEF Listing, Committing
    <3>4. CASE x # p
      <4>1. Entering(x)' = Entering(x) /\ \A a \in Entering(x) : caller'[a] = caller[a]
        BY <2>3, <3>1, <3>4, Apart DEF Entering
      <4>2. Clean(x) => Clean(x)'
        BY <2>4, <4>1 DEF Clean
      <4> QED BY <2>4, <3>3, <4>1, <4>2 DEF TemplateOK
    <3>5. CASE x = p
      <4>1. m = n /\ Holds(n, "admission", q.op) /\ n.state = "active" /\ m # None
        BY <1>6, <2>1, <2>6, <3>5 DEF GrantedOK
      <4>2. m.authorized = None /\ m.request = None /\ \A r : ~Holds(m, "switch", r)
        BY <2>1, <4>1 DEF CopyOK, Holds
      <4>3. \A a \in Entering(x)' : a = q.caller \/ (a \in Entering(x) /\ caller'[a] = caller[a])
        BY <2>3, Apart DEF Entering
      <4>4. \A a \in Entering(x)' : m # None /\ Holds(m, "admission", a) /\
                                    (caller'[a].pc = "create" => caller'[a].template = m.template)
        BY <1>2, <2>3, <3>1, <4>1, <4>3 DEF TemplateOK
      <4>5. m.request \notin Listing(x)' /\ m.request \notin Committing(x)'
        BY <2>5, <3>3, <4>2
      <4> QED BY <2>4, <4>1, <4>2, <4>4, <4>5 DEF TemplateOK
    <3> QED BY <3>4, <3>5
  <2>7. CASE q.caller \in Handlers
    <3>1. /\ w.pc = "list" /\ w.principal = p /\ w.request = q.op /\ q.caller \notin Admissions
      BY <1>2, <1>3, <1>6, <2>7, Apart
    <3>2. Entering(x)' = Entering(x) /\ \A a \in Entering(x) : caller'[a] = caller[a]
      BY <2>3, <3>1, Apart DEF Entering
    <3>3. Clean(x) => Clean(x)'
      BY <2>4, <3>2 DEF Clean
    <3>4. Committing(x)' \subseteq Committing(x)
      BY <1>4, <2>3, <3>1, Apart DEF Committing
    <3>5. CASE x # p
      <4>1. Listing(x)' \subseteq Listing(x)
        BY <2>3, <3>1, <3>5, Apart DEF Listing
      <4> QED BY <2>4, <3>2, <3>3, <3>4, <4>1 DEF TemplateOK
    <3>6. CASE x = p
      <4>1. Listing(x)' \subseteq Listing(x) \cup {q.op}
        BY <2>3, <3>1, Apart DEF Listing
      <4>2. m.request = q.op => Entering(x) = {}
        BY <1>6, <2>1, <2>7, <3>6 DEF GrantedOK
      <4> QED BY <2>4, <3>2, <3>3, <3>4, <4>1, <4>2 DEF TemplateOK
    <3> QED BY <3>5, <3>6
  <2>8. q.caller \in Admissions \cup Handlers
    BY <1>6, Subjected
  <2> QED BY <2>6, <2>7, <2>8
<1> QED BY <1>5, <1>6
-----------------------------------------------------------------------------
(* Steps of the broker.                                                          *)
LEMMA DrawnIssued ==
  ASSUME CallersInv, NEW n, n # None => CopyOK(n)
  PROVE  issued \subseteq Drawn(n) /\ Drawn(n) \subseteq SwitchRequests
<1>1. n # None => n.request \in SwitchRequests \cup {None}
  BY DEF CopyOK, Metadata
<1> QED BY <1>1 DEF Drawn, CallersInv

LEMMA FailedReply ==
  ASSUME CallersInv, NEW q \in Requests, Reply(q, Failed(q.caller))
  PROVE  /\ DOMAIN caller' = Callers
         /\ \A d \in Callers : Moves(d, caller'[d], issued) /\ Withdraws(d, caller'[d])
         /\ late' \subseteq late \cup Orphans
<1>1. PICK w : w = Failed(q.caller)
  OBVIOUS
<1>2. q.caller \in Callers /\ (q.live => Waiting(q.caller))
  BY RequestsOK
<1>3. q.live => Moves(q.caller, w, issued) /\ Withdraws(q.caller, w)
  BY <1>1, <1>2, FailedMoves DEF CallersInv, Waiting
<1> QED BY <1>1, <1>2, <1>3, ReplyMoves

LEMMA RefuseKeeps ==
  ASSUME CallersInv, StoreInv, NEW q \in Requests, Refuse(q)
  PROVE  AccountsInv'
<1>1. AccountsStay /\ issued' = issued /\ runs' = runs /\ Reply(q, Failed(q.caller))
  BY DEF Refuse, AccountsStay, brokerVars
<1>2. busy' = None
  BY DEF Refuse, Arrives, brokerVars
<1>3. Served
  BY <1>2 DEF Served
<1> QED BY <1>1, <1>3, FailedReply, CallersWithdraw

(* The account of p is n now, in memory and on disk.                                *)
LEMMA Rewritten ==
  ASSUME StoreInv, healthy, busy = None, NEW p \in Principals, NEW n,
         n # None => accounts[p] # None /\ Follows(accounts[p], n), n = None => accounts[p] = None,
         accounts'[p] = n, handles'[p] = handles[p], healthy' = healthy, busy' = None,
         DOMAIN disk'[p] = DirectoryFields, disk'[p].visible = n, disk'[p].durable = n,
         disk'[p].files = disk[p].files, TemplateOK(p, n)'
  PROVE  PlacesOK(p)' /\ CopiesOK(p)'
<1>1. PlacesOK(p) /\ (accounts[p] # None => CopyOK(accounts[p]) /\ (accounts[p].file # None => accounts[p].file \in disk[p].files))
  BY OneCopy DEF StoreInv
<1>2. ~Changing(p)' /\ Copies(p)' = {n}
  BY DEF Changing, Copies
<1>3. n # None => CopyOK(n) /\ n \in Metadata /\ n.state = accounts[p].state /\ n.file = accounts[p].file
  BY DEF Follows, CopyOK
<1>4. PlacesOK(p)'
  BY <1>1, <1>2, <1>3 DEF PlacesOK, Active, Enrolled
<1>5. CopiesOK(p)'
  BY <1>1, <1>2, <1>3 DEF CopiesOK
<1> QED BY <1>4, <1>5

LEMMA WriteEffect ==
  ASSUME StoreInv, NEW p \in Principals, NEW n, Write(p, n)
  PROVE  /\ DOMAIN accounts' = Principals /\ DOMAIN disk' = Principals
         /\ accounts'[p] = n /\ DOMAIN disk'[p] = DirectoryFields /\ disk'[p].files = disk[p].files
         /\ disk'[p].visible = n /\ disk'[p].durable = n
         /\ \A x \in Principals : x # p => accounts'[x] = accounts[x] /\ disk'[x] = disk[x]
<1>1. DOMAIN disk[p] = DirectoryFields /\ DOMAIN accounts = Principals /\ DOMAIN disk = Principals
  BY DEF StoreInv, PlacesOK
<1>2. PICK d : d = [disk[p] EXCEPT !.visible = n, !.durable = n]
  OBVIOUS
<1>3. DOMAIN d = DirectoryFields /\ d.visible = n /\ d.durable = n /\ d.files = disk[p].files
  BY <1>1, <1>2 DEF DirectoryFields
<1>4. disk' = [disk EXCEPT ![p] = d]
  BY <1>1, <1>2 DEF Write, DirectoryFields
<1> QED BY <1>1, <1>3, <1>4 DEF Write

LEMMA BrokerStore ==
  ASSUME DOMAIN accounts' = Principals, DOMAIN handles' = Principals, DOMAIN disk' = Principals,
         healthy' \in BOOLEAN, faults' \in 0..MaxFaults, busy' # None => healthy' /\ busy' \in Operations,
         \A p \in Principals : PlacesOK(p)' /\ CopiesOK(p)'
  PROVE  StoreInv'
BY DEF StoreInv

LEMMA GrantKeeps ==
  ASSUME CallersInv, StoreInv, NEW q \in Requests, Grant(q)
  PROVE  AccountsInv'
<1>1. /\ healthy /\ busy = None /\ handles' = handles /\ healthy' = healthy /\ busy' = busy /\ runs' = runs
      /\ faults' = faults
  BY DEF Grant, Arrives
<1>0. PICK p \in Subjects(q) : \E n \in Outcomes(q, p) :
        /\ IF n = accounts[p] THEN UNCHANGED <<accounts, disk>> ELSE Write(p, n)
        /\ issued' = Drawn(n) /\ Reply(q, Granted(q.caller, p))
  BY DEF Grant
<1>2. PICK n \in Outcomes(q, p) :
        /\ IF n = accounts[p] THEN UNCHANGED <<accounts, disk>> ELSE Write(p, n)
        /\ issued' = Drawn(n) /\ Reply(q, Granted(q.caller, p))
  BY <1>0
<1>3. p \in Principals
  BY Subjected
<1>4. /\ accounts[p] # None => n # None /\ Follows(accounts[p], n) /\ TemplateOK(p, n) /\ GrantedOK(q, p, n)
      /\ accounts[p] = None => n = None /\ q.kind = "call" /\ TemplateOK(p, n)
  BY <1>1, <1>3, OutcomeOK, NoAccount, OneCopy
<1>5. n # None => CopyOK(n) /\ GrantedOK(q, p, n)
  BY <1>4 DEF Follows
<1>6. issued \subseteq issued' /\ issued' \subseteq SwitchRequests
  BY <1>2, <1>5, DrawnIssued
<1>7. PICK w : w = Granted(q.caller, p)
  OBVIOUS
<1>8. q.caller \in Callers /\ (q.live => Moves(q.caller, w, issued))
  BY <1>7, GrantedMoves, RequestsOK
<1>9. /\ DOMAIN caller' = Callers /\ \A d \in Callers : Moves(d, caller'[d], issued)
      /\ late' \subseteq late \cup Orphans
  BY <1>2, <1>7, <1>8, ReplyMoves
<1>10. CallersInv'
  <2>1. \A d \in Callers : Moves(d, caller'[d], issued')
    BY <1>6, <1>9, KnowsMore
  <2>2. \A r \in runs' : r.principal \in Principals
    BY <1>1 DEF CallersInv
  <2>3. BusyOK'
    BY <1>1 DEF BusyOK
  <2> QED BY <1>1, <1>6, <1>9, <2>1, <2>2, <2>3, CallersMove
<1>11. ASSUME NEW x \in Principals, NEW m, TemplateOK(x, m), x = p => m = n PROVE TemplateOK(x, m)'
  BY <1>1, <1>2, <1>4, <1>5, <1>11, GrantAnswered
<1>12. /\ DOMAIN accounts' = Principals /\ DOMAIN disk' = Principals
       /\ accounts'[p] = n /\ DOMAIN disk'[p] = DirectoryFields /\ disk'[p].files = disk[p].files
       /\ disk'[p].visible = n /\ disk'[p].durable = n
       /\ \A x \in Principals : x # p => accounts'[x] = accounts[x] /\ disk'[x] = disk[x]
  <2>1. CASE n = accounts[p]
    BY <1>1, <1>2, <1>3, <2>1, OneCopy DEF StoreInv, PlacesOK
  <2>2. CASE n # accounts[p]
    BY <1>2, <1>3, <2>2, WriteEffect
  <2> QED BY <2>1, <2>2
<1>13. ASSUME NEW x \in Principals PROVE PlacesOK(x)' /\ CopiesOK(x)'
  <2>1. CASE x = p
    <3>1. TemplateOK(p, n)'
      BY <1>3, <1>4, <1>11
    <3> QED BY <1>1, <1>3, <1>4, <1>12, <2>1, <3>1, Rewritten
  <2>2. CASE x # p
    <3>1. PlacesOK(x) /\ CopiesOK(x) /\ ~Changing(x) /\ ~Changing(x)'
      BY <1>1 DEF StoreInv, Changing
    <3>2. \A m \in Copies(x) : TemplateOK(x, m)'
      BY <1>11, <2>2, <3>1 DEF CopiesOK
    <3> QED BY <1>1, <1>12, <2>2, <3>1, <3>2, Untouched
  <2> QED BY <2>1, <2>2
<1>14. StoreInv'
  BY <1>1, <1>12, <1>13, BrokerStore DEF StoreInv
<1> QED BY <1>10, <1>14 DEF AccountsInv

(* A reply that makes the caller withdraw, whatever else the step does.             *)
LEMMA WithdrawnCallers ==
  ASSUME CallersInv, DOMAIN caller' = Callers,
         \A d \in Callers : Moves(d, caller'[d], issued) /\ Withdraws(d, caller'[d]),
         late' \subseteq late \cup Orphans, issued \subseteq issued', issued' \subseteq SwitchRequests,
         runs' = runs, BusyOK'
  PROVE  CallersInv' /\ \A x \in Principals : \A m : TemplateOK(x, m) => TemplateOK(x, m)'
<1>1. \A d \in Callers : Moves(d, caller'[d], issued')
  BY KnowsMore
<1>2. \A r \in runs' : r.principal \in Principals
  BY DEF CallersInv
<1>3. CallersInv'
  BY <1>1, <1>2, CallersMove
<1>4. ASSUME NEW x \in Principals, NEW m, TemplateOK(x, m) PROVE TemplateOK(x, m)'
  BY <1>4, Retreat
<1> QED BY <1>3, <1>4

LEMMA StoreFailsKeeps ==
  ASSUME CallersInv, StoreInv, NEW q \in Requests, StoreFails(q)
  PROVE  AccountsInv' /\ KeepsLogs
<1>1. /\ healthy /\ busy = None /\ busy' = None /\ runs' = runs /\ Reply(q, Failed(q.caller))
      /\ faults' \in 0..MaxFaults
  BY FaultBound DEF StoreFails, Arrives, StoreInv
<1>0. PICK p \in Subjects(q) : \E n \in Outcomes(q, p) :
       /\ n # accounts[p]
       /\ issued' = Drawn(n)
       /\ \/ UNCHANGED <<accounts, handles, healthy, disk>>
          \/ /\ disk' = [disk EXCEPT ![p].visible = n]
             /\ Latch /\ UNCHANGED accounts
          \/ /\ q.kind = "begin" /\ accounts[p].hold.due
             /\ Write(p, [accounts[p] EXCEPT !.hold = NoHold])
             /\ UNCHANGED <<handles, healthy>>
  BY DEF StoreFails
<1>2. PICK n \in Outcomes(q, p) :
       /\ n # accounts[p]
       /\ issued' = Drawn(n)
       /\ \/ UNCHANGED <<accounts, handles, healthy, disk>>
          \/ /\ disk' = [disk EXCEPT ![p].visible = n]
             /\ Latch /\ UNCHANGED accounts
          \/ /\ q.kind = "begin" /\ accounts[p].hold.due
             /\ Write(p, [accounts[p] EXCEPT !.hold = NoHold])
             /\ UNCHANGED <<handles, healthy>>
  BY <1>0
<1>3. p \in Principals /\ accounts[p] # None
  BY <1>2, Subjected, NoAccount
<1>4. n # None /\ Follows(accounts[p], n) /\ TemplateOK(p, n) /\ CopyOK(n)
  BY <1>1, <1>3, OutcomeOK DEF Follows
<1>5. issued \subseteq issued' /\ issued' \subseteq SwitchRequests
  BY <1>2, <1>4, DrawnIssued
<1>6. CallersInv' /\ \A x \in Principals : \A m : TemplateOK(x, m) => TemplateOK(x, m)'
  <2>1. BusyOK'
    BY <1>1 DEF BusyOK
  <2> QED BY <1>1, <1>5, <2>1, FailedReply, WithdrawnCallers
<1>7. \A x \in Principals : PlacesOK(x) /\ CopiesOK(x) /\ ~Changing(x) /\ ~Changing(x)'
  BY <1>1 DEF StoreInv, Changing
<1>8. \A x \in Principals : \A m \in Copies(x) : TemplateOK(x, m)'
  BY <1>6, <1>7 DEF CopiesOK
<1>9. /\ TemplateOK(p, accounts[p]) /\ CopyOK(accounts[p]) /\ disk[p].visible = accounts[p]
      /\ disk[p].durable = accounts[p] /\ (accounts[p].file # None => accounts[p].file \in disk[p].files)
  BY <1>1, <1>3, OneCopy
<1>10. CASE UNCHANGED <<accounts, handles, healthy, disk>>
  <2>1. \A x \in Principals : PlacesOK(x)' /\ CopiesOK(x)'
    BY <1>7, <1>8, <1>10, Untouched
  <2>2. \A x \in Principals : Copies(x)' = Copies(x)
    BY <1>7, <1>10 DEF Copies
  <2> QED BY <1>1, <1>6, <1>10, <2>1, <2>2, BrokerStore DEF StoreInv, AccountsInv, KeepsLogs, SameLog
<1>11. CASE disk' = [disk EXCEPT ![p].visible = n] /\ Latch /\ UNCHANGED accounts
  <2>1. healthy' = FALSE /\ DOMAIN handles' = Principals /\ \A x \in Principals : handles'[x] = None
    BY <1>11 DEF Latch
  <2>2. PICK d : d = [disk[p] EXCEPT !.visible = n]
    OBVIOUS
  <2>3. DOMAIN d = DirectoryFields /\ d.visible = n /\ d.durable = disk[p].durable /\ d.files = disk[p].files
    BY <1>3, <1>7, <2>2 DEF PlacesOK, DirectoryFields
  <2>4. DOMAIN disk' = Principals /\ disk'[p] = d /\ \A x \in Principals : x # p => disk'[x] = disk[x]
    BY <1>3, <1>11, <2>2 DEF StoreInv
  <2>5. ASSUME NEW x \in Principals PROVE PlacesOK(x)'
    <3>1. DOMAIN disk'[x] = DirectoryFields /\ disk'[x].files = disk[x].files
      BY <1>7, <2>3, <2>4 DEF PlacesOK
    <3> QED BY <1>7, <1>11, <2>1, <3>1 DEF PlacesOK
  <2>6. ASSUME NEW x \in Principals PROVE CopiesOK(x)'
    <3>1. Copies(x)' = {disk'[x].visible, disk'[x].durable}
      BY <1>7, <2>1 DEF Copies
    <3>2. CASE x = p
      <4>1. PICK m : m = accounts[p]
        OBVIOUS
      <4>2. n.file = m.file /\ CopyOK(m) /\ TemplateOK(p, n)' /\ TemplateOK(p, m)'
        BY <1>3, <1>4, <1>6, <1>9, <4>1 DEF Follows
      <4>3. Copies(p)' = {n, m} /\ disk'[p].files = disk[p].files
        BY <1>9, <2>3, <2>4, <3>1, <3>2, <4>1
      <4>4. \A y \in {n, m} : y.file # None => y.file \in disk[p].files
        BY <1>9, <4>1, <4>2
      <4> QED BY <1>4, <3>2, <4>2, <4>3, <4>4 DEF CopiesOK
    <3>3. CASE x # p
      <4>1. disk'[x] = disk[x]
        BY <2>4, <3>3
      <4>2. Copies(x)' \subseteq Copies(x)
        BY <3>1, <4>1 DEF Copies
      <4>3. \A m \in Copies(x) : /\ m # None => CopyOK(m) /\ (m.file # None => m.file \in disk[x].files)
                                 /\ TemplateOK(x, m)'
        BY <1>7, <1>8 DEF CopiesOK
      <4> QED BY <4>1, <4>2, <4>3 DEF CopiesOK
    <3> QED BY <3>2, <3>3
  <2>7. KeepsLogs
    <3> SUFFICES ASSUME NEW x \in Principals, NEW y \in Copies(x)' PROVE \E m \in Copies(x) : SameLog(m, y)
      BY DEF KeepsLogs
    <3>1. y = disk'[x].visible \/ y = disk'[x].durable
      BY <1>7, <2>1 DEF Copies
    <3>2. disk[x].visible \in Copies(x) /\ disk[x].durable \in Copies(x)
      BY DEF Copies
    <3>3. SameLog(disk[p].visible, n)
      BY <1>3, <1>4, <1>9 DEF SameLog, Follows
    <3> QED BY <2>3, <2>4, <3>1, <3>2, <3>3 DEF SameLog
  <2> QED BY <1>1, <1>6, <1>11, <2>1, <2>4, <2>5, <2>6, <2>7, BrokerStore DEF StoreInv, AccountsInv
<1>12. CASE /\ accounts[p].hold.due /\ Write(p, [accounts[p] EXCEPT !.hold = NoHold])
            /\ UNCHANGED <<handles, healthy>>
  <2>1. PICK m : m = [accounts[p] EXCEPT !.hold = NoHold]
    OBVIOUS
  <2>2. Follows(accounts[p], m) /\ m.hold = NoHold /\ m.request = accounts[p].request /\ m.authorized = accounts[p].authorized
    BY <1>9, <2>1, NewHold, HoldTypes
  <2>3. m # None /\ m.template = accounts[p].template
    BY <2>2, NoneIsApart DEF Follows, CopyOK
  <2>4. /\ \A a \in Entering(p) : ~Holds(accounts[p], "admission", a)
        /\ \A r \in Committing(p) : ~Holds(m, "switch", r)
    BY <1>3, <1>12, <2>2, NobodyHolds, PendingIssued
  <2>5. TemplateOK(p, m)
    BY <1>3, <1>9, <2>2, <2>3, <2>4, TemplateKept
  <2>6. TemplateOK(p, m)'
    BY <1>3, <1>6, <2>5
  <2>7. /\ DOMAIN accounts' = Principals /\ DOMAIN disk' = Principals
        /\ accounts'[p] = m /\ DOMAIN disk'[p] = DirectoryFields /\ disk'[p].files = disk[p].files
        /\ disk'[p].visible = m /\ disk'[p].durable = m
        /\ \A x \in Principals : x # p => accounts'[x] = accounts[x] /\ disk'[x] = disk[x]
    BY <1>3, <1>12, <2>1, WriteEffect
  <2>8. ASSUME NEW x \in Principals PROVE PlacesOK(x)' /\ CopiesOK(x)'
    <3>1. CASE x = p
      BY <1>1, <1>3, <1>12, <2>2, <2>3, <2>6, <2>7, <3>1, Rewritten
    <3>2. CASE x # p
      BY <1>7, <1>8, <1>12, <2>7, <3>2, Untouched
    <3> QED BY <3>1, <3>2
  <2>9. KeepsLogs
    <3> SUFFICES ASSUME NEW x \in Principals, NEW y \in Copies(x)' PROVE \E z \in Copies(x) : SameLog(z, y)
      BY DEF KeepsLogs
    <3>1. CASE x = p
      <4>1. y = m /\ accounts[p] \in Copies(p)
        BY <1>1, <1>7, <2>7, <3>1 DEF Copies
      <4>2. SameLog(accounts[p], m)
        BY <1>3, <2>2, <2>3 DEF SameLog, Follows
      <4> QED BY <3>1, <4>1, <4>2
    <3>2. CASE x # p
      <4>1. Copies(x)' = Copies(x)
        BY <1>7, <1>12, <2>7, <3>2 DEF Copies
      <4> QED BY <4>1 DEF SameLog
    <3> QED BY <3>1, <3>2
  <2> QED BY <1>1, <1>6, <1>12, <2>7, <2>8, <2>9, BrokerStore DEF StoreInv, AccountsInv
<1> QED BY <1>2, <1>10, <1>11, <1>12
-----------------------------------------------------------------------------
(* The log of operations.                                                        *)
Entries == [op : Mutations, action : Actions, instance : Generations]

LEMMA Appended ==
  ASSUME NEW S, NEW s \in Seq(S), NEW e \in S
  PROVE  /\ Append(s, e) \in Seq(S) /\ Len(Append(s, e)) = Len(s) + 1 /\ Append(s, e)[Len(s) + 1] = e
         /\ \A i \in 1..Len(s) : Append(s, e)[i] = s[i]
OBVIOUS

LEMMA Dropped ==
  ASSUME NEW S, NEW s \in Seq(S), NEW d \in Nat, d <= Len(s)
  PROVE  /\ SubSeq(s, d + 1, Len(s)) \in Seq(S) /\ Len(SubSeq(s, d + 1, Len(s))) = Len(s) - d
         /\ \A i \in 1..Len(s) - d : SubSeq(s, d + 1, Len(s))[i] = s[d + i]
<1>1. SubSeq(s, d + 1, Len(s)) \in Seq(S)
  OBVIOUS
<1>2. Len(SubSeq(s, d + 1, Len(s))) = Len(s) - d
  OBVIOUS
<1>3. \A i \in 1..Len(s) - d : SubSeq(s, d + 1, Len(s))[i] = s[d + i]
  OBVIOUS
<1> QED BY <1>1, <1>2, <1>3

LEMMA AppendUnique ==
  ASSUME NEW S, NEW log \in Seq(S), NEW longer \in Seq(S), Len(longer) = Len(log) + 1,
         \A i \in 1..Len(log) : longer[i] = log[i], Unique(log),
         \A i \in DOMAIN log : log[i].op # longer[Len(log) + 1].op
  PROVE  Unique(longer)
<1>1. Len(log) \in Nat /\ DOMAIN log = 1..Len(log) /\ DOMAIN longer = 1..Len(log) + 1
  OBVIOUS
<1>2. ASSUME NEW i \in 1..Len(log) + 1, NEW j \in 1..Len(log) + 1, longer[i].op = longer[j].op PROVE i = j
  <2>1. CASE i \in 1..Len(log) /\ j \in 1..Len(log)
    BY <1>1, <1>2, <2>1 DEF Unique
  <2>2. CASE i = Len(log) + 1 /\ j = Len(log) + 1
    BY <2>2
  <2>3. CASE i \in 1..Len(log) /\ j = Len(log) + 1
    BY <1>1, <1>2, <2>3
  <2>4. CASE j \in 1..Len(log) /\ i = Len(log) + 1
    BY <1>1, <1>2, <2>4
  <2> QED BY <1>1, <2>1, <2>2, <2>3, <2>4
<1> QED BY <1>1, <1>2 DEF Unique

LEMMA TailUnique ==
  ASSUME NEW S, NEW s \in Seq(S), Unique(s), NEW d \in Nat, d <= Len(s), NEW t \in Seq(S),
         Len(t) = Len(s) - d, \A i \in 1..Len(s) - d : t[i] = s[d + i]
  PROVE  Unique(t)
<1>1. Len(s) \in Nat /\ DOMAIN s = 1..Len(s) /\ DOMAIN t = 1..Len(s) - d
  OBVIOUS
<1>2. ASSUME NEW i \in 1..Len(s) - d, NEW j \in 1..Len(s) - d, t[i].op = t[j].op PROVE i = j
  <2>1. t[i] = s[d + i] /\ t[j] = s[d + j] /\ d + i \in 1..Len(s) /\ d + j \in 1..Len(s)
    BY <1>1
  <2>2. d + i = d + j
    BY <1>1, <1>2, <2>1 DEF Unique
  <2> QED BY <1>1, <2>2
<1> QED BY <1>1, <1>2 DEF Unique

(* The log t has the entry e, nothing that was not in "log", and all of it while it fits.   *)
Records(t, log, e) ==
  /\ \E i \in DOMAIN t : t[i] = e
  /\ Len(log) < MaxOperations => \A i \in DOMAIN log : \E j \in DOMAIN t : t[j] = log[i]
  /\ \A i \in DOMAIN t : t[i] = e \/ \E j \in DOMAIN log : t[i] = log[j]

LEMMA RecordedOK ==
  ASSUME NEW log \in Seq(Entries), NEW e \in Entries, Unique(log), \A i \in DOMAIN log : log[i].op # e.op,
         NEW t, t = Recorded(log, e)
  PROVE  t \in Seq(Entries) /\ Unique(t) /\ Records(t, log, e)
<1>1. PICK longer : longer = Append(log, e)
  OBVIOUS
<1>2. /\ longer \in Seq(Entries) /\ Len(longer) = Len(log) + 1 /\ longer[Len(longer)] = e
      /\ \A i \in 1..Len(log) : longer[i] = log[i]
  <2>1. /\ longer \in Seq(Entries) /\ Len(longer) = Len(log) + 1 /\ longer[Len(log) + 1] = e
        /\ \A i \in 1..Len(log) : longer[i] = log[i]
    BY <1>1, Appended
  <2> QED BY <2>1
<1>21. Unique(longer)
  BY <1>2, AppendUnique
<1>3. PICK d : d = IF Len(longer) > MaxOperations THEN Len(longer) - MaxOperations ELSE 0
  OBVIOUS
<1>4. Len(log) \in Nat /\ MaxOperations \in Nat \ {0} /\ DOMAIN log = 1..Len(log)
  BY AccountConstants
<1>5. d \in Nat /\ d <= Len(longer) /\ d < Len(longer) /\ (Len(log) < MaxOperations => d = 0)
  BY <1>2, <1>3, <1>4
<1>6. t = SubSeq(longer, d + 1, Len(longer))
  BY <1>1, <1>3 DEF Recorded
<1>61. t \in Seq(Entries) /\ Len(t) = Len(longer) - d /\ \A i \in 1..Len(longer) - d : t[i] = longer[d + i]
  BY <1>2, <1>5, <1>6, Dropped
<1>62. Unique(t)
  BY <1>2, <1>5, <1>21, <1>61, TailUnique
<1>7. /\ t \in Seq(Entries) /\ Len(t) = Len(longer) - d /\ Unique(t)
      /\ \A i \in 1..Len(longer) - d : t[i] = longer[d + i]
  BY <1>61, <1>62
<1>8. DOMAIN t = 1..Len(longer) - d
  BY <1>7
<1>9. Len(longer) - d \in DOMAIN t /\ d + (Len(longer) - d) = Len(longer)
  BY <1>2, <1>4, <1>5, <1>8
<1>10. t[Len(longer) - d] = e
  BY <1>2, <1>7, <1>8, <1>9
<1>11. ASSUME Len(log) < MaxOperations, NEW i \in DOMAIN log PROVE \E j \in DOMAIN t : t[j] = log[i]
  <2>1. d = 0 /\ i \in 1..Len(log) /\ i \in DOMAIN t /\ d + i = i
    BY <1>2, <1>4, <1>5, <1>8, <1>11
  <2> QED BY <1>2, <1>7, <1>8, <2>1
<1>12. ASSUME NEW i \in DOMAIN t PROVE t[i] = e \/ \E j \in DOMAIN log : t[i] = log[j]
  <2>1. t[i] = longer[d + i] /\ (d + i \in 1..Len(log) \/ d + i = Len(longer))
    BY <1>2, <1>4, <1>5, <1>7, <1>8
  <2>2. CASE d + i \in 1..Len(log)
    BY <1>2, <1>4, <2>1, <2>2
  <2>3. CASE d + i = Len(longer)
    BY <1>2, <2>1, <2>3
  <2> QED BY <2>1, <2>2, <2>3
<1> QED BY <1>7, <1>9, <1>10, <1>11, <1>12 DEF Records
-----------------------------------------------------------------------------
(* The metadata of a credential operation.                                        *)
LEMMA ReplacedOK ==
  ASSUME NEW p \in Principals, NEW o \in Mutations, NEW template \in Templates, NEW instance \in Generations,
         accounts[p] # None => CopyOK(accounts[p]) /\ ~Logged(accounts[p], o),
         NEW n, n = Replaced(o, p, template, instance)
  PROVE  /\ CopyOK(n) /\ n.file = NextGeneration(p) /\ n.template = template /\ n.authorized = None
         /\ n.request = None /\ n.hold = (IF accounts[p] = None THEN NoHold ELSE accounts[p].hold)
         /\ Logged(n, o)
         /\ accounts[p] # None /\ Len(accounts[p].log) < MaxOperations =>
              \A x \in Mutations : Logged(accounts[p], x) => Logged(n, x)
         /\ \A x \in Mutations : Logged(n, x) => x = o \/ (accounts[p] # None /\ Logged(accounts[p], x))
<1>1. PICK e : e = [op |-> o, action |-> Action[o], instance |-> instance]
  OBVIOUS
<1>2. e \in Entries /\ e.op = o
  BY <1>1, AccountConstants DEF Entries
<1>3. PICK log : log = IF accounts[p] = None THEN <<>> ELSE accounts[p].log
  OBVIOUS
<1>4. log \in Seq(Entries) /\ Unique(log) /\ \A i \in DOMAIN log : log[i].op # e.op
  <2>1. CASE accounts[p] = None
    <3>1. log = <<>> /\ DOMAIN log = {}
      BY <1>3, <2>1
    <3> QED BY <3>1 DEF Unique
  <2>2. CASE accounts[p] # None
    BY <1>2, <1>3, <2>2 DEF CopyOK, Metadata, Entries, Logged
  <2> QED BY <2>1, <2>2
<1>5. PICK t : t = Recorded(log, e)
  OBVIOUS
<1>6. t \in Seq(Entries) /\ Unique(t) /\ Records(t, log, e)
  BY <1>2, <1>4, <1>5, RecordedOK
<1>7. PICK g : g = NextGeneration(p)
  OBVIOUS
<1>8. g \in Generations /\ g # None
  BY <1>7, AccountConstants DEF NextGeneration, Enrolled, CopyOK, Metadata, Generations
<1>9. PICK h : h = IF accounts[p] = None THEN NoHold ELSE accounts[p].hold
  OBVIOUS
<1>10. h \in HoldType
  BY <1>9, HoldTypes DEF CopyOK, Metadata, HoldType
<1>11. n = [state |-> "active", template |-> template, generation |-> g, file |-> g, instance |-> instance,
            log |-> t, eligible |-> TRUE, request |-> None, requestDue |-> FALSE, hold |-> h,
            authorized |-> None]
  BY <1>1, <1>3, <1>5, <1>7, <1>9 DEF Replaced
<1>12. n \in Metadata
  BY <1>6, <1>8, <1>10, <1>11 DEF Metadata, Entries, HoldType
<1>13. /\ n.state = "active" /\ n.template = template /\ n.generation = g /\ n.file = g /\ n.log = t
       /\ n.request = None /\ n.hold = h /\ n.authorized = None
  BY <1>11
<1>14. CopyOK(n)
  BY <1>6, <1>8, <1>12, <1>13 DEF CopyOK, Generations
<1>15. Logged(n, o)
  BY <1>2, <1>6, <1>13 DEF Logged, Records
<1>16. accounts[p] # None /\ Len(accounts[p].log) < MaxOperations =>
              \A x \in Mutations : Logged(accounts[p], x) => Logged(n, x)
  BY <1>3, <1>6, <1>13 DEF Logged, Records
<1>17. \A x \in Mutations : Logged(n, x) => x = o \/ (accounts[p] # None /\ Logged(accounts[p], x))
  <2>1. accounts[p] = None => DOMAIN log = {}
    BY <1>3
  <2>2. accounts[p] # None => log = accounts[p].log
    BY <1>3
  <2> QED BY <1>2, <1>6, <1>13, <2>1, <2>2 DEF Logged, Records
<1> QED BY <1>7, <1>9, <1>13, <1>14, <1>15, <1>16, <1>17

LEMMA RevocationOK ==
  ASSUME NEW p \in Principals, NEW o \in Mutations, accounts[p] # None, CopyOK(accounts[p]),
         ~Logged(accounts[p], o), NEW n, n = Revocation(o, p)
  PROVE  /\ CopyOK(n) /\ n.file = None /\ n.template = accounts[p].template
         /\ n.authorized = accounts[p].authorized /\ n.request = accounts[p].request
         /\ n.hold = accounts[p].hold
         /\ Logged(n, o)
         /\ Len(accounts[p].log) < MaxOperations =>
              \A x \in Mutations : Logged(accounts[p], x) => Logged(n, x)
         /\ \A x \in Mutations : Logged(n, x) => x = o \/ Logged(accounts[p], x)
<1>1. PICK m : m = accounts[p]
  OBVIOUS
<1>2. m \in Metadata /\ CopyOK(m) /\ ~Logged(m, o)
  BY <1>1 DEF CopyOK
<1>3. PICK e : e = [op |-> o, action |-> "revoke", instance |-> m.instance]
  OBVIOUS
<1>4. e \in Entries /\ e.op = o
  BY <1>2, <1>3 DEF Entries, Actions, Metadata
<1>5. m.log \in Seq(Entries) /\ Unique(m.log) /\ \A i \in DOMAIN m.log : m.log[i].op # e.op
  BY <1>2, <1>4 DEF CopyOK, Metadata, Entries, Logged
<1>6. PICK t : t = Recorded(m.log, e)
  OBVIOUS
<1>7. t \in Seq(Entries) /\ Unique(t) /\ Records(t, m.log, e)
  BY <1>4, <1>5, <1>6, RecordedOK
<1>8. n = [m EXCEPT !.state = "revoked", !.file = None, !.eligible = FALSE, !.log = t]
  BY <1>1, <1>2, <1>3, <1>6 DEF Revocation, Metadata
<1>9. n \in Metadata
  BY <1>2, <1>7, <1>8 DEF Metadata, Entries
<1>10. /\ n.state = "revoked" /\ n.template = m.template /\ n.generation = m.generation /\ n.file = None
       /\ n.log = t /\ n.request = m.request /\ n.hold = m.hold /\ n.authorized = m.authorized
  BY <1>2, <1>8 DEF Metadata
<1>11. CopyOK(n)
  BY <1>2, <1>7, <1>9, <1>10 DEF CopyOK
<1>12. Logged(n, o)
  BY <1>4, <1>7, <1>10 DEF Logged, Records
<1>13. Len(m.log) < MaxOperations => \A x \in Mutations : Logged(m, x) => Logged(n, x)
  BY <1>7, <1>10 DEF Logged, Records
<1>14. \A x \in Mutations : Logged(n, x) => x = o \/ Logged(m, x)
  BY <1>4, <1>7, <1>10 DEF Logged, Records
<1> QED BY <1>1, <1>10, <1>11, <1>12, <1>13, <1>14

LEMMA ChangedOK ==
  ASSUME CallersInv, StoreInv, healthy, busy = None, NEW p \in Principals, NEW o \in Mutations, Accepted(o, p),
         NEW n, n = Changed(o, p)
  PROVE  /\ CopyOK(n) /\ TemplateOK(p, n) /\ (n.file # None => n.file = NextGeneration(p)) /\ Logged(n, o)
         /\ accounts[p] # None /\ Len(accounts[p].log) < MaxOperations =>
              \A x \in Mutations : Logged(accounts[p], x) => Logged(n, x)
         /\ \A x \in Mutations : Logged(n, x) => x = o \/ (accounts[p] # None /\ Logged(accounts[p], x))
         /\ accounts[p] # None => ~Logged(accounts[p], o)
         /\ Action[o] \in Replacements \cup {"revoke"}
<1>1. PICK m : m = accounts[p]
  OBVIOUS
<1>2. TemplateOK(p, m) /\ (m # None => CopyOK(m))
  BY <1>1, OneCopy
<1>3. m # None => ~Logged(m, o)
  BY <1>1 DEF Accepted, MayEnroll, Active, Enrolled
<1>4. Action[o] \in {"enroll", "reconnect", "revoke"} /\ Action[o] \in Replacements \cup {"revoke"}
  BY DEF Accepted, Replacements
<1>5. CopyOK(n) => n # None
  BY NoneIsApart DEF CopyOK
<1>6. ASSUME NEW template \in Templates, NEW instance \in Generations, n = Replaced(o, p, template, instance),
             m = None \/ (m # None /\ template = m.template) \/ (m # None /\ Clean(p))
      PROVE  /\ CopyOK(n) /\ TemplateOK(p, n) /\ (n.file # None => n.file = NextGeneration(p)) /\ Logged(n, o)
             /\ m # None /\ Len(m.log) < MaxOperations => \A x \in Mutations : Logged(m, x) => Logged(n, x)
             /\ \A x \in Mutations : Logged(n, x) => x = o \/ (m # None /\ Logged(m, x))
  <2>1. /\ CopyOK(n) /\ n.file = NextGeneration(p) /\ n.template = template /\ n.authorized = None
        /\ n.request = None /\ n.hold = (IF m = None THEN NoHold ELSE m.hold) /\ Logged(n, o)
        /\ m # None /\ Len(m.log) < MaxOperations => \A x \in Mutations : Logged(m, x) => Logged(n, x)
        /\ \A x \in Mutations : Logged(n, x) => x = o \/ (m # None /\ Logged(m, x))
    BY <1>1, <1>2, <1>3, <1>6, ReplacedOK
  <2>2. CASE m = None \/ Clean(p)
    <3>1. Clean(p)
      BY <1>2, <2>2 DEF TemplateOK, Clean
    <3>2. TemplateOK(p, n)
      BY <3>1 DEF TemplateOK, Clean
    <3> QED BY <2>1, <3>2
  <2>3. CASE m # None /\ template = m.template
    <3>1. \A k, x : Holds(n, k, x) <=> Holds(m, k, x)
      BY <2>1, <2>3 DEF Holds
    <3>2. n.request \notin Listing(p) /\ n.request \notin Committing(p)
      BY <2>1, PendingIssued
    <3>3. TemplateOK(p, n)
      BY <1>2, <1>5, <2>1, <2>3, <3>1, <3>2, TemplateKept
    <3> QED BY <2>1, <3>3
  <2> QED BY <1>6, <2>2, <2>3
<1>7. CASE Action[o] = "enroll"
  <2>1. n = Replaced(o, p, Target[o], NextGeneration(p)) /\ MayEnroll(o, p)
    BY <1>7 DEF Changed, Accepted
  <2>2. Target[o] \in Templates /\ NextGeneration(p) \in Generations
    BY <1>1, <1>2, AccountConstants DEF NextGeneration, Enrolled, CopyOK, Metadata, Generations
  <2>3. m # None => m.template = Target[o] \/ m.authorized # None
    BY <1>1, <2>1 DEF MayEnroll, Enrolled
  <2>4. m # None /\ m.authorized # None => Clean(p)
    BY <1>2 DEF TemplateOK
  <2> QED BY <1>1, <1>3, <1>4, <1>6, <2>1, <2>2, <2>3, <2>4
<1>8. CASE Action[o] = "reconnect"
  <2>1. n = Replaced(o, p, m.template, m.instance) /\ m # None
    BY <1>1, <1>8 DEF Changed, Accepted, Active, Enrolled
  <2>2. m.template \in Templates /\ m.instance \in Generations
    BY <1>2, <2>1 DEF CopyOK, Metadata
  <2> QED BY <1>1, <1>3, <1>4, <1>6, <2>1, <2>2
<1>9. CASE Action[o] = "revoke"
  <2>1. n = Revocation(o, p) /\ m # None
    BY <1>1, <1>9 DEF Changed, Accepted, Active, Enrolled
  <2>2. /\ CopyOK(n) /\ n.file = None /\ n.template = m.template
        /\ n.authorized = m.authorized /\ n.request = m.request /\ n.hold = m.hold /\ Logged(n, o)
        /\ Len(m.log) < MaxOperations => \A x \in Mutations : Logged(m, x) => Logged(n, x)
        /\ \A x \in Mutations : Logged(n, x) => x = o \/ Logged(m, x)
    BY <1>1, <1>2, <1>3, <2>1, RevocationOK
  <2>3. \A k, x : Holds(n, k, x) <=> Holds(m, k, x)
    BY <2>2 DEF Holds
  <2>4. TemplateOK(p, n)
    BY <1>2, <1>5, <2>1, <2>2, <2>3, TemplateKept
  <2> QED BY <1>1, <1>3, <1>4, <2>1, <2>2, <2>4
<1> QED BY <1>4, <1>7, <1>8, <1>9

LEMMA NothingMoves ==
  ASSUME CallersInv, caller' = caller
  PROVE  DOMAIN caller' = Callers /\ \A d \in Callers : Moves(d, caller'[d], issued) /\ Withdraws(d, caller'[d])
BY StandsStill DEF CallersInv

LEMMA Executable ==
  ASSUME CallersInv, NEW q \in Requests, MustExecute(q)
  PROVE  /\ q.principal \in Principals /\ q.op \in Mutations /\ q.caller = q.op /\ Owner[q.op] = q.principal
         /\ AskOK(q, issued) /\ q.kind = "call" /\ Accepted(q.op, q.principal) /\ q \in RequestType
<1>1. AskOK(q, issued) /\ q.kind = "call" /\ Accepted(q.op, q.principal) /\ q.caller \in Callers
  BY RequestsOK DEF MustExecute
<1>2. q.caller \in Mutations
  BY <1>1, Apart DEF AskOK
<1> QED BY <1>1, <1>2, Apart DEF AskOK

LEMMA PrepareKeeps ==
  ASSUME CallersInv, StoreInv, NEW q \in Requests, Prepare(q)
  PROVE  AccountsInv'
<1>1. /\ healthy /\ busy = None /\ MustExecute(q) /\ late' = late \ {q}
      /\ UNCHANGED <<accounts, handles, healthy, issued, caller, runs, faults>>
  BY DEF Prepare, Arrives
<1>2. /\ q.op \in Mutations /\ AskOK(q, issued) /\ q.kind = "call"
      /\ Accepted(q.op, q.principal) /\ q \in RequestType
  BY <1>1, Executable
<1>3. PICK p \in Principals : p = q.principal
  BY <1>1, Executable
<1>4. PICK n : n = Changed(q.op, p)
  OBVIOUS
<1>5. CopyOK(n) /\ TemplateOK(p, n) /\ (n.file # None => n.file = NextGeneration(p)) /\ n \in Metadata
  BY <1>1, <1>2, <1>3, <1>4, ChangedOK DEF CopyOK
<1>6. PICK b : b = [request |-> q, metadata |-> n, stage |-> "prepared"]
  OBVIOUS
<1>7. busy' = b /\ b \in Operations /\ b # None /\ b.request = q /\ b.metadata = n /\ b.stage = "prepared"
  BY <1>2, <1>3, <1>4, <1>5, <1>6, NoneIsApart DEF Prepare, Operations
<1>8. /\ DOMAIN disk = Principals /\ DOMAIN disk[p] = DirectoryFields /\ disk[p].files \subseteq Generations
  BY DEF StoreInv, PlacesOK
<1>9. PICK d : d = [disk[p] EXCEPT !.exists = TRUE, !.files = @ \cup ({n.file} \ {None})]
  OBVIOUS
<1>10. /\ DOMAIN d = DirectoryFields /\ d.visible = disk[p].visible /\ d.durable = disk[p].durable
       /\ d.files = disk[p].files \cup ({n.file} \ {None})
  BY <1>8, <1>9 DEF DirectoryFields
<1>11. disk' = [disk EXCEPT ![p] = d]
  BY <1>3, <1>4, <1>8, <1>9 DEF Prepare, DirectoryFields
<1>12. DOMAIN disk' = Principals /\ disk'[p] = d /\ \A x \in Principals : x # p => disk'[x] = disk[x]
  BY <1>8, <1>11
<1>13. CallersInv' /\ \A x \in Principals : \A m : TemplateOK(x, m) => TemplateOK(x, m)'
  <2>1. late' \subseteq late \cup Orphans /\ issued \subseteq issued' /\ issued' \subseteq SwitchRequests
    BY <1>1 DEF CallersInv
  <2>2. BusyOK' /\ runs' = runs
    BY <1>1, <1>2, <1>7, RequestsOK DEF BusyOK, Waiting
  <2> QED BY <1>1, <2>1, <2>2, NothingMoves, WithdrawnCallers
<1>14. \A x \in Principals : PlacesOK(x) /\ CopiesOK(x) /\ ~Changing(x) /\ (Changing(x)' <=> x = p)
  BY <1>1, <1>3, <1>7 DEF StoreInv, Changing
<1>15. ASSUME NEW x \in Principals PROVE PlacesOK(x)' /\ CopiesOK(x)'
  <2>1. CASE x # p
    BY <1>1, <1>12, <1>13, <1>14, <2>1, Untouched DEF CopiesOK
  <2>2. CASE x = p
    <3>1. /\ disk[p].visible = accounts[p] /\ disk[p].durable = accounts[p] /\ Copies(p) = {accounts[p]}
      BY <1>1, OneCopy
    <3>2. n.file # None /\ accounts[p] # None => n.file > accounts[p].generation
      BY <1>5, <1>14 DEF NextGeneration, Enrolled, PlacesOK, Metadata, Generations
    <3>3. d.files \subseteq Generations
      BY <1>5, <1>8, <1>10 DEF Metadata
    <3>4. PlacesOK(p)'
      BY <1>1, <1>7, <1>10, <1>12, <1>14, <3>1, <3>2, <3>3 DEF PlacesOK, Active, Enrolled
    <3>5. Copies(p)' = {accounts[p], n}
      BY <1>1, <1>7, <1>10, <1>12, <1>14, <3>1 DEF Copies
    <3>6. ASSUME NEW y \in {accounts[p], n}
          PROVE  (y # None => CopyOK(y) /\ (y.file # None => y.file \in d.files)) /\ TemplateOK(p, y)
      BY <1>5, <1>10, <1>14, <3>1 DEF CopiesOK
    <3>7. CopiesOK(p)'
      BY <1>12, <1>13, <3>5, <3>6 DEF CopiesOK
    <3> QED BY <2>2, <3>4, <3>7
  <2> QED BY <2>1, <2>2
<1>16. StoreInv'
  BY <1>1, <1>7, <1>12, <1>15, BrokerStore DEF StoreInv
<1> QED BY <1>13, <1>16 DEF AccountsInv

(* The operation under way is answered.                                            *)
LEMMA BusyAnswered ==
  ASSUME CallersInv, busy # None, NEW w, Reply(busy.request, w), busy' = None, issued' = issued, runs' = runs,
         busy.request.live => Moves(busy.request.caller, w, issued) /\ Withdraws(busy.request.caller, w)
  PROVE  CallersInv' /\ \A x \in Principals : \A m : TemplateOK(x, m) => TemplateOK(x, m)'
<1>1. PICK q : q = busy.request
  OBVIOUS
<1>2. q.caller \in Callers
  BY <1>1, ServedIsCalling, Apart
<1>3. /\ DOMAIN caller' = Callers /\ late' \subseteq late \cup Orphans
      /\ \A d \in Callers : Moves(d, caller'[d], issued) /\ Withdraws(d, caller'[d])
  BY <1>1, <1>2, ReplyMoves
<1>4. BusyOK' /\ issued \subseteq issued' /\ issued' \subseteq SwitchRequests
  BY DEF BusyOK, CallersInv
<1> QED BY <1>3, <1>4, WithdrawnCallers

LEMMA BusyRefused ==
  ASSUME CallersInv, busy # None, Reply(busy.request, Failed(busy.request.caller)), busy' = None,
         issued' = issued, runs' = runs
  PROVE  CallersInv' /\ \A x \in Principals : \A m : TemplateOK(x, m) => TemplateOK(x, m)'
<1>1. PICK c \in Callers : c = busy.request.caller
  BY ServedIsCalling, Apart
<1>2. busy.request.live => caller[c].pc \in Asking
  BY <1>1, ServedIsCalling DEF Asking
<1>3. PICK w : w = Failed(c)
  OBVIOUS
<1>4. busy.request.live => Moves(c, w, issued) /\ Withdraws(c, w)
  BY <1>2, <1>3, FailedMoves DEF CallersInv
<1> QED BY <1>1, <1>3, <1>4, BusyAnswered

LEMMA BusyGranted ==
  ASSUME CallersInv, busy # None, NEW p, Reply(busy.request, Granted(busy.request.caller, p)), busy' = None,
         issued' = issued, runs' = runs
  PROVE  CallersInv' /\ \A x \in Principals : \A m : TemplateOK(x, m) => TemplateOK(x, m)'
<1>1. PICK c \in Mutations : c = busy.request.caller
  BY ServedIsCalling
<1>2. c \in Callers /\ c \notin Admissions /\ c \notin Handlers
  BY Apart
<1>3. PICK w : w = Granted(c, p)
  OBVIOUS
<1>4. ASSUME busy.request.live PROVE Moves(c, w, issued) /\ Withdraws(c, w)
  <2>1. caller[c].pc = "call" /\ StateOK(c, caller[c], issued)
    BY <1>1, <1>2, <1>4, ServedIsCalling DEF CallersInv
  <2>2. w = Finished(c, "ok") /\ DOMAIN caller[c] = CallerFields
    BY <1>3, <2>1 DEF Granted, StateOK
  <2>3. DOMAIN w = CallerFields /\ w.pc = "ok" /\ w.principal = caller[c].principal
    BY <2>2 DEF Finished, CallerFields
  <2> QED BY <1>2, <2>1, <2>3 DEF Moves, Withdraws, StateOK, Over, Reached
<1> QED BY <1>1, <1>3, <1>4, BusyAnswered

LEMMA FewerCopies ==
  ASSUME NEW p \in Principals, CopiesOK(p), Copies(p)' \subseteq Copies(p),
         \A m : TemplateOK(p, m) => TemplateOK(p, m)',
         \A m \in Copies(p)' : m # None /\ CopyOK(m) /\ m.file # None /\ m.file \in disk[p].files
                                 => m.file \in disk'[p].files
  PROVE  CopiesOK(p)'
BY DEF CopiesOK

LEMMA UnderWay ==
  ASSUME CallersInv, StoreInv, busy # None
  PROVE  /\ busy.request.principal \in Principals /\ healthy = TRUE /\ busy \in Operations
         /\ \A x \in Principals : PlacesOK(x) /\ CopiesOK(x) /\ (Changing(x) <=> x = busy.request.principal)
BY ServedIsCalling DEF StoreInv, Changing

LEMMA ReplaceKeeps ==
  ASSUME CallersInv, StoreInv, Replace
  PROVE  AccountsInv'
<1>1. /\ busy # None /\ busy.stage = "prepared" /\ busy' = [busy EXCEPT !.stage = "renamed"]
      /\ UNCHANGED <<accounts, handles, healthy, issued, late, caller, runs, faults>>
  BY DEF Replace, Executing
<1>2. PICK p \in Principals : p = busy.request.principal
  BY <1>1, UnderWay
<1>3. /\ healthy = TRUE /\ busy \in Operations
      /\ \A x \in Principals : PlacesOK(x) /\ CopiesOK(x) /\ (Changing(x) <=> x = p)
  BY <1>1, <1>2, UnderWay
<1>4. PICK n : n = busy.metadata
  OBVIOUS
<1>5. /\ busy' \in Operations /\ busy' # None /\ busy'.request = busy.request /\ busy'.metadata = n
      /\ busy'.stage = "renamed"
  BY <1>1, <1>3, <1>4, NoneIsApart DEF Operations
<1>6. DOMAIN disk = Principals /\ DOMAIN disk[p] = DirectoryFields
  BY <1>3 DEF StoreInv, PlacesOK
<1>7. PICK d : d = [disk[p] EXCEPT !.visible = n]
  OBVIOUS
<1>8. DOMAIN d = DirectoryFields /\ d.visible = n /\ d.durable = disk[p].durable /\ d.files = disk[p].files
  BY <1>6, <1>7 DEF DirectoryFields
<1>9. DOMAIN disk' = Principals /\ disk'[p] = d /\ \A x \in Principals : x # p => disk'[x] = disk[x]
  BY <1>2, <1>4, <1>6, <1>7 DEF Replace, Rename
<1>10. CallersInv' /\ \A x \in Principals : \A m : TemplateOK(x, m) => TemplateOK(x, m)'
  <2>1. late' \subseteq late \cup Orphans /\ issued \subseteq issued' /\ issued' \subseteq SwitchRequests
    BY <1>1 DEF CallersInv
  <2>2. BusyOK'
    BY <1>1, <1>5 DEF CallersInv, BusyOK, Waiting
  <2> QED BY <1>1, <2>1, <2>2, NothingMoves, WithdrawnCallers
<1>11. \A x \in Principals : Changing(x)' <=> x = p
  BY <1>2, <1>5 DEF Changing
<1>12. ASSUME NEW x \in Principals PROVE PlacesOK(x)' /\ CopiesOK(x)'
  <2>1. CASE x # p
    BY <1>1, <1>3, <1>9, <1>10, <1>11, <2>1, Untouched DEF CopiesOK
  <2>2. CASE x = p
    <3>1. PlacesOK(p) /\ CopiesOK(p) /\ Changing(p) /\ Changing(p)'
      BY <1>3, <1>11
    <3>2. PlacesOK(p)'
      BY <1>1, <1>3, <1>4, <1>5, <1>8, <1>9, <3>1 DEF PlacesOK, Active, Enrolled
    <3>3. Copies(p)' \subseteq Copies(p)
      BY <1>1, <1>4, <1>5, <1>8, <1>9, <3>1 DEF Copies
    <3>4. CopiesOK(p)'
      BY <1>8, <1>9, <1>10, <3>1, <3>3, FewerCopies
    <3> QED BY <2>2, <3>2, <3>4
  <2> QED BY <2>1, <2>2
<1>13. StoreInv'
  BY <1>1, <1>3, <1>5, <1>9, <1>12, BrokerStore DEF StoreInv
<1> QED BY <1>10, <1>13 DEF AccountsInv

LEMMA SyncKeeps ==
  ASSUME CallersInv, StoreInv, Sync
  PROVE  AccountsInv'
<1>1. /\ busy # None /\ busy.stage = "renamed" /\ busy' = None
      /\ UNCHANGED <<healthy, issued, runs, faults>>
  BY DEF Sync, Executing
<1>2. PICK p \in Principals : p = busy.request.principal
  BY <1>1, UnderWay
<1>3. /\ healthy = TRUE /\ busy \in Operations
      /\ \A x \in Principals : PlacesOK(x) /\ CopiesOK(x) /\ (Changing(x) <=> x = p)
  BY <1>1, <1>2, UnderWay
<1>4. PICK n : n = busy.metadata
  OBVIOUS
<1>5. /\ Reply(busy.request, Granted(busy.request.caller, p)) /\ Synced(p, n)
      /\ accounts' = [accounts EXCEPT ![p] = n] /\ handles' = [handles EXCEPT ![p] = n.file]
  BY <1>2, <1>4 DEF Sync
<1>6. n \in Metadata /\ n # None /\ n \in Copies(p) /\ CopyOK(n)
  <2>1. n \in Metadata /\ n # None
    BY <1>3, <1>4, NoneIsApart DEF Operations
  <2>2. n \in Copies(p)
    BY <1>3, <1>4 DEF Copies
  <2> QED BY <1>3, <2>1, <2>2 DEF CopiesOK
<1>7. DOMAIN disk = Principals /\ DOMAIN disk[p] = DirectoryFields /\ disk[p].visible = n
  BY <1>1, <1>3, <1>4 DEF StoreInv, PlacesOK
<1>8. PICK d : d = [disk[p] EXCEPT !.durable = n, !.files = {n.file} \ {None}]
  OBVIOUS
<1>9. DOMAIN d = DirectoryFields /\ d.visible = n /\ d.durable = n /\ d.files = {n.file} \ {None}
  BY <1>7, <1>8 DEF DirectoryFields
<1>10. /\ DOMAIN disk' = Principals /\ disk'[p] = d /\ \A x \in Principals : x # p => disk'[x] = disk[x]
  BY <1>5, <1>7, <1>8 DEF Synced, DirectoryFields
<1>11. /\ DOMAIN accounts' = Principals /\ accounts'[p] = n /\ DOMAIN handles' = Principals /\ handles'[p] = n.file
       /\ \A x \in Principals : x # p => accounts'[x] = accounts[x] /\ handles'[x] = handles[x]
  BY <1>5 DEF StoreInv
<1>12. CallersInv' /\ \A x \in Principals : \A m : TemplateOK(x, m) => TemplateOK(x, m)'
  BY <1>1, <1>5, BusyGranted
<1>13. \A x \in Principals : ~Changing(x)'
  BY <1>1 DEF Changing
<1>14. ASSUME NEW x \in Principals PROVE PlacesOK(x)' /\ CopiesOK(x)'
  <2>1. CASE x # p
    BY <1>1, <1>3, <1>10, <1>11, <1>12, <1>13, <2>1, Untouched DEF CopiesOK
  <2>2. CASE x = p
    <3>1. n.file \in Generations \cup {None} /\ (n.file # None => n.state = "active")
      BY <1>6 DEF CopyOK, Metadata
    <3>2. PlacesOK(p)'
      BY <1>6, <1>9, <1>10, <1>11, <1>13, <3>1 DEF PlacesOK, Active, Enrolled
    <3>3. Copies(p)' = {n}
      BY <1>9, <1>10, <1>11, <1>13 DEF Copies
    <3>4. CopiesOK(p)'
      BY <1>3, <1>6, <1>9, <1>10, <1>12, <3>3, FewerCopies
    <3> QED BY <2>2, <3>2, <3>4
  <2> QED BY <2>1, <2>2
<1>15. StoreInv'
  BY <1>1, <1>10, <1>11, <1>14, BrokerStore DEF StoreInv
<1> QED BY <1>12, <1>15 DEF AccountsInv

LEMMA PrepareFailsKeeps ==
  ASSUME CallersInv, StoreInv, PrepareFails
  PROVE  AccountsInv'
<1>1. /\ busy # None /\ busy.stage = "prepared" /\ busy' = None /\ faults' \in 0..MaxFaults
      /\ UNCHANGED <<accounts, handles, healthy, issued, runs>>
      /\ Reply(busy.request, Failed(busy.request.caller))
  BY FaultBound DEF PrepareFails, Executing, StoreInv
<1>2. PICK p \in Principals : p = busy.request.principal
  BY <1>1, UnderWay
<1>3. /\ healthy = TRUE /\ busy \in Operations
      /\ \A x \in Principals : PlacesOK(x) /\ CopiesOK(x) /\ (Changing(x) <=> x = p)
  BY <1>1, <1>2, UnderWay
<1>4. PICK g : g = busy.metadata.file
  OBVIOUS
<1>5. DOMAIN disk = Principals /\ DOMAIN disk[p] = DirectoryFields /\ disk[p].files \subseteq Generations
  BY <1>3 DEF StoreInv, PlacesOK
<1>6. PICK d : d = [disk[p] EXCEPT !.files = @ \ {g}]
  OBVIOUS
<1>7. /\ DOMAIN d = DirectoryFields /\ d.visible = disk[p].visible /\ d.durable = disk[p].durable
      /\ d.files = disk[p].files \ {g}
  BY <1>5, <1>6 DEF DirectoryFields
<1>8. DOMAIN disk' = Principals /\ disk'[p] = d /\ \A x \in Principals : x # p => disk'[x] = disk[x]
  BY <1>2, <1>4, <1>5, <1>6 DEF PrepareFails
<1>9. CallersInv' /\ \A x \in Principals : \A m : TemplateOK(x, m) => TemplateOK(x, m)'
  BY <1>1, BusyRefused
<1>10. \A x \in Principals : ~Changing(x)'
  BY <1>1 DEF Changing
<1>11. ASSUME NEW x \in Principals PROVE PlacesOK(x)' /\ CopiesOK(x)'
  <2>1. CASE x # p
    BY <1>1, <1>3, <1>8, <1>9, <1>10, <2>1, Untouched DEF CopiesOK
  <2>2. CASE x = p
    <3>1. PlacesOK(p) /\ CopiesOK(p) /\ Changing(p)
      BY <1>3
    <3>2. disk[p].visible = accounts[p] /\ disk[p].durable = accounts[p]
      BY <1>1, <1>3, <3>1 DEF PlacesOK
    <3>3. PlacesOK(p)'
      BY <1>1, <1>5, <1>7, <1>8, <1>10, <3>1, <3>2 DEF PlacesOK, Active, Enrolled
    <3>4. Copies(p)' = {accounts[p]} /\ accounts[p] \in Copies(p)
      BY <1>1, <1>7, <1>8, <1>10, <3>2 DEF Copies
    <3>5. ASSUME accounts[p] # None, CopyOK(accounts[p]), accounts[p].file # None PROVE accounts[p].file # g
      <4>1. g # None => g > accounts[p].generation
        BY <1>4, <3>1, <3>5 DEF PlacesOK
      <4>2. accounts[p].file <= accounts[p].generation /\ accounts[p].file \in Nat /\ accounts[p].generation \in Nat
        BY <3>5 DEF CopyOK, Metadata, Generations
      <4>3. g # None => g \in Nat
        BY <1>3, <1>4 DEF Operations, Metadata, Generations
      <4> QED BY <3>5, <4>1, <4>2, <4>3
    <3>6. CopiesOK(p)'
      BY <1>7, <1>8, <1>9, <3>1, <3>4, <3>5, FewerCopies
    <3> QED BY <2>2, <3>3, <3>6
  <2> QED BY <2>1, <2>2
<1>12. StoreInv'
  BY <1>1, <1>8, <1>11, BrokerStore DEF StoreInv
<1> QED BY <1>9, <1>12 DEF AccountsInv

LEMMA SyncFailsKeeps ==
  ASSUME CallersInv, StoreInv, SyncFails
  PROVE  AccountsInv' /\ KeepsLogs
<1>1. /\ busy # None /\ busy' = None /\ faults' \in 0..MaxFaults /\ Latch
      /\ UNCHANGED <<accounts, disk, issued, runs>> /\ Reply(busy.request, Failed(busy.request.caller))
  BY FaultBound DEF SyncFails, Executing, StoreInv
<1>2. healthy' = FALSE /\ DOMAIN handles' = Principals /\ \A x \in Principals : handles'[x] = None
  BY <1>1 DEF Latch
<1>3. \A x \in Principals : PlacesOK(x) /\ CopiesOK(x) /\ ~Changing(x)'
  BY <1>1 DEF StoreInv, Changing
<1>4. CallersInv' /\ \A x \in Principals : \A m : TemplateOK(x, m) => TemplateOK(x, m)'
  BY <1>1, BusyRefused
<1>5. ASSUME NEW x \in Principals PROVE PlacesOK(x)' /\ CopiesOK(x)' /\ Copies(x)' \subseteq Copies(x)
  <2>1. PlacesOK(x)'
    BY <1>1, <1>2, <1>3 DEF PlacesOK
  <2>2. Copies(x)' \subseteq Copies(x)
    BY <1>1, <1>2, <1>3 DEF Copies
  <2>3. CopiesOK(x)'
    BY <1>1, <1>3, <1>4, <2>2, FewerCopies
  <2> QED BY <2>1, <2>2, <2>3
<1>6. StoreInv'
  BY <1>1, <1>2, <1>5, BrokerStore DEF StoreInv
<1>7. KeepsLogs
  BY <1>5 DEF KeepsLogs, SameLog
<1> QED BY <1>4, <1>6, <1>7 DEF AccountsInv
-----------------------------------------------------------------------------
(* A restart goes on with one of the copies that were on disk.                     *)
LEMMA ConnectionsBreak ==
  ASSUME CallersInv, caller' = [c \in Callers |-> [caller[c] EXCEPT !.sent = FALSE]]
  PROVE  DOMAIN caller' = Callers /\ \A d \in Callers : Moves(d, caller'[d], issued) /\ Withdraws(d, caller'[d])
<1>1. ASSUME NEW d \in Callers PROVE Moves(d, caller'[d], issued) /\ Withdraws(d, caller'[d])
  <2>1. PICK w : w = [caller[d] EXCEPT !.sent = FALSE]
    OBVIOUS
  <2>2. StateOK(d, caller[d], issued)
    BY DEF CallersInv
  <2>3. /\ DOMAIN w = CallerFields /\ w.pc = caller[d].pc /\ w.principal = caller[d].principal
        /\ w.request = caller[d].request /\ w.template = caller[d].template
    BY <2>1, <2>2 DEF StateOK, CallerFields
  <2>4. Moves(d, w, issued) /\ Withdraws(d, w)
    BY <2>2, <2>3 DEF Moves, Withdraws, StateOK
  <2> QED BY <2>1, <2>4
<1> QED BY <1>1

LEMMA RestartKeeps ==
  ASSUME CallersInv, StoreInv, Restart
  PROVE  AccountsInv' /\ KeepsLogs
<1>1. /\ busy' = None /\ late' = {} /\ UNCHANGED <<issued, runs>>
      /\ caller' = [c \in Callers |-> [caller[c] EXCEPT !.sent = FALSE]] /\ faults' \in 0..MaxFaults
  BY FaultBound DEF Restart, StoreInv
<1>2. PICK found : (\A p \in Principals : found[p] \in {disk[p].visible, disk[p].durable}) /\ Load(found)
  BY DEF Restart
<1>3. PICK loaded \in BOOLEAN : loaded = (/\ Cardinality(Directories) <= MaxAccounts
                                          /\ \A p \in Principals : Loads(found[p]))
  OBVIOUS
<1>4. healthy' = loaded /\ accounts' = [p \in Principals |-> IF loaded THEN found[p] ELSE None]
  BY <1>2, <1>3 DEF Load
<1>5. PICK cleaned : disk' = [p \in Principals |->
                       IF p \in cleaned THEN Recovered(p, found[p]) ELSE Left(p, found[p])]
  BY <1>2 DEF Load
<1>6. /\ DOMAIN handles' = Principals
      /\ \A p \in Principals : handles'[p] # None => loaded /\ found[p] # None /\ handles'[p] = found[p].file
  BY <1>2, <1>3 DEF Load
<1>7. CallersInv' /\ \A x \in Principals : \A m : TemplateOK(x, m) => TemplateOK(x, m)'
  <2>1. late' \subseteq late \cup Orphans /\ issued \subseteq issued' /\ issued' \subseteq SwitchRequests
    BY <1>1 DEF CallersInv
  <2>2. BusyOK'
    BY <1>1 DEF BusyOK
  <2> QED BY <1>1, <2>1, <2>2, ConnectionsBreak, WithdrawnCallers
<1>8. ASSUME NEW p \in Principals PROVE PlacesOK(p)' /\ CopiesOK(p)' /\ Copies(p)' \subseteq Copies(p)
  <2>1. PICK m : m = found[p]
    OBVIOUS
  <2>2. PlacesOK(p) /\ CopiesOK(p) /\ m \in Copies(p) /\ ~Changing(p)'
    BY <1>1, <1>2, <2>1 DEF StoreInv, Copies, Changing
  <2>3. /\ m # None => CopyOK(m) /\ m \in Metadata /\ (m.file # None => m.file \in disk[p].files)
        /\ TemplateOK(p, m)'
    BY <1>7, <2>2 DEF CopiesOK, CopyOK
  <2>4. /\ DOMAIN disk'[p] = DirectoryFields /\ disk'[p].visible = m /\ disk'[p].durable = m
        /\ disk'[p].files \subseteq Generations
        /\ m # None => disk[p].files \cap {m.file} \subseteq disk'[p].files
    <3>1. CASE p \in cleaned /\ m = None
      <4>1. disk'[p] = EmptyDirectory
        BY <1>5, <2>1, <3>1 DEF Recovered
      <4> QED BY <3>1, <4>1 DEF EmptyDirectory, DirectoryFields
    <3>2. CASE p \in cleaned /\ m # None
      <4>1. disk'[p] = [exists |-> TRUE, visible |-> m, durable |-> m, files |-> disk[p].files \cap {m.file}]
        BY <1>5, <2>1, <3>2 DEF Recovered
      <4> QED BY <2>2, <4>1 DEF PlacesOK, DirectoryFields
    <3>3. CASE p \notin cleaned
      <4>1. disk'[p] = [disk[p] EXCEPT !.visible = m, !.durable = m]
        BY <1>5, <2>1, <3>3 DEF Left
      <4> QED BY <2>2, <4>1 DEF PlacesOK, DirectoryFields
    <3> QED BY <3>1, <3>2, <3>3
  <2>5. accounts'[p] = (IF loaded THEN m ELSE None) /\ healthy' = loaded
    BY <1>4, <2>1
  <2>6. /\ handles'[p] # None => loaded /\ m # None /\ handles'[p] = m.file
        /\ handles'[p] \in Generations \cup {None}
    BY <1>6, <2>1, <2>3 DEF Metadata
  <2>7. PlacesOK(p)'
    BY <2>2, <2>3, <2>4, <2>5, <2>6 DEF PlacesOK, Active, Enrolled, CopyOK
  <2>8. Copies(p)' = {m}
    BY <2>2, <2>4, <2>5 DEF Copies
  <2>9. CopiesOK(p)'
    BY <2>3, <2>4, <2>8 DEF CopiesOK
  <2> QED BY <2>2, <2>7, <2>8, <2>9
<1>9. StoreInv'
  BY <1>1, <1>4, <1>5, <1>6, <1>8, BrokerStore
<1>10. KeepsLogs
  BY <1>8 DEF KeepsLogs, SameLog
<1> QED BY <1>7, <1>9, <1>10 DEF AccountsInv
-----------------------------------------------------------------------------
(* Time passes for every copy of an account alike: f gives each copy its later form.   *)
Later(p, m, n) ==
  /\ SameLog(m, n)
  /\ m # None => /\ n \in Metadata /\ n.state = m.state /\ n.generation = m.generation /\ n.file = m.file
                 /\ CopyOK(m) => Follows(m, n)
  /\ TemplateOK(p, m) => TemplateOK(p, n)

LEMMA PlacesMeet ==
  ASSUME NEW p, DOMAIN disk'[p] = DirectoryFields, disk'[p].files \subseteq Generations,
         accounts'[p] \in Metadata \cup {None}, handles'[p] \in Generations \cup {None},
         healthy' = healthy, Changing(p)' <=> Changing(p),
         healthy => /\ disk'[p].durable = accounts'[p]
                    /\ disk'[p].visible = IF Changing(p) /\ busy'.stage = "renamed"
                                          THEN busy'.metadata ELSE accounts'[p],
         healthy' /\ handles'[p] # None => Active(p)' /\ handles'[p] = accounts'[p].file,
         Changing(p) /\ busy'.metadata.file # None /\ accounts'[p] # None =>
            busy'.metadata.file > accounts'[p].generation
  PROVE  PlacesOK(p)'
BY DEF PlacesOK

LEMMA DatedKeeps ==
  ASSUME CallersInv, StoreInv, NEW p \in Principals, NEW f,
         \A m \in Copies(p) \cup {accounts[p]} : Later(p, m, f[m]),
         accounts' = [accounts EXCEPT ![p] = f[accounts[p]]],
         disk' = [disk EXCEPT ![p].visible = f[disk[p].visible], ![p].durable = f[disk[p].durable]],
         busy' = IF busy = None \/ busy.request.principal # p THEN busy
                 ELSE [busy EXCEPT !.metadata = f[busy.metadata]],
         UNCHANGED <<handles, healthy, issued, late, caller, runs, faults>>
  PROVE  AccountsInv' /\ KeepsLogs /\ SameOperation
<1>1. \A x \in Principals : PlacesOK(x) /\ CopiesOK(x)
  BY DEF StoreInv
<1>2. /\ DOMAIN disk = Principals /\ DOMAIN disk[p] = DirectoryFields /\ DOMAIN accounts = Principals
      /\ disk[p].visible \in Copies(p) /\ disk[p].durable \in Copies(p)
      /\ Changing(p) => busy.metadata \in Copies(p)
  BY <1>1 DEF StoreInv, PlacesOK, Copies
<1>3. PICK d : d = [disk[p] EXCEPT !.visible = f[disk[p].visible], !.durable = f[disk[p].durable]]
  OBVIOUS
<1>4. /\ DOMAIN d = DirectoryFields /\ d.visible = f[disk[p].visible] /\ d.durable = f[disk[p].durable]
      /\ d.files = disk[p].files
  BY <1>2, <1>3 DEF DirectoryFields
<1>5. DOMAIN disk' = Principals /\ disk'[p] = d /\ \A x \in Principals : x # p => disk'[x] = disk[x]
  BY <1>2, <1>3 DEF DirectoryFields
<1>6. /\ DOMAIN accounts' = Principals /\ accounts'[p] = f[accounts[p]]
      /\ \A x \in Principals : x # p => accounts'[x] = accounts[x]
  BY <1>2
<1>7. /\ busy' # None <=> busy # None
      /\ busy # None => /\ busy' \in Operations /\ busy'.request = busy.request /\ busy'.stage = busy.stage
                        /\ busy'.metadata = IF Changing(p) THEN f[busy.metadata] ELSE busy.metadata
  <2>1. CASE Changing(p)
    <3>1. busy # None /\ busy \in Operations /\ busy' = [busy EXCEPT !.metadata = f[busy.metadata]]
      BY <2>1 DEF Changing, StoreInv
    <3>2. busy.metadata \in Metadata /\ busy.metadata # None
      BY <3>1, NoneIsApart DEF Operations
    <3>3. f[busy.metadata] \in Metadata
      BY <1>2, <2>1, <3>2 DEF Later
    <3>4. /\ busy' \in Operations /\ busy' # None /\ busy'.request = busy.request
          /\ busy'.metadata = f[busy.metadata] /\ busy'.stage = busy.stage
      BY <3>1, <3>3, NoneIsApart DEF Operations
    <3> QED BY <2>1, <3>1, <3>4
  <2>2. CASE ~Changing(p)
    BY <2>2 DEF Changing, StoreInv
  <2> QED BY <2>1, <2>2
<1>8. \A x \in Principals : Changing(x)' <=> Changing(x)
  BY <1>7 DEF Changing
<1>9. CallersInv' /\ \A x \in Principals : \A m : TemplateOK(x, m) => TemplateOK(x, m)'
  <2>1. late' \subseteq late \cup Orphans /\ issued \subseteq issued' /\ issued' \subseteq SwitchRequests
    BY DEF CallersInv
  <2>2. BusyOK'
    BY <1>7 DEF CallersInv, BusyOK, Waiting
  <2> QED BY <2>1, <2>2, NothingMoves, WithdrawnCallers
<1>10. ASSUME NEW x \in Principals PROVE PlacesOK(x)' /\ CopiesOK(x)'
  <2>1. CASE x # p
    <3>1. Changing(x) => busy'.metadata = busy.metadata /\ busy'.stage = busy.stage
      BY <1>7, <2>1 DEF Changing
    <3> QED BY <1>1, <1>5, <1>6, <1>8, <1>9, <2>1, <3>1, Untouched DEF CopiesOK
  <2>2. CASE x = p
    <3>1. PlacesOK(p) /\ CopiesOK(p) /\ (Changing(p)' <=> Changing(p)) /\ healthy' = healthy /\ handles' = handles
      BY <1>1, <1>8
    <3>2. /\ Later(p, accounts[p], accounts'[p]) /\ Later(p, disk[p].visible, disk'[p].visible)
          /\ Later(p, disk[p].durable, disk'[p].durable)
          /\ Changing(p) => Later(p, busy.metadata, busy'.metadata) /\ busy'.stage = busy.stage
      BY <1>2, <1>4, <1>5, <1>6, <1>7 DEF Changing
    <3>3. /\ DOMAIN disk'[p] = DirectoryFields /\ disk'[p].files = disk[p].files
          /\ disk'[p].visible = f[disk[p].visible] /\ disk'[p].durable = f[disk[p].durable]
          /\ accounts'[p] = f[accounts[p]] /\ (Changing(p) => busy'.metadata = f[busy.metadata])
      BY <1>4, <1>5, <1>6, <1>7 DEF Changing
    <3>4. /\ accounts'[p] \in Metadata \cup {None} /\ (accounts'[p] = None <=> accounts[p] = None)
          /\ accounts[p] # None => /\ accounts'[p].state = accounts[p].state /\ accounts'[p].file = accounts[p].file
                                   /\ accounts'[p].generation = accounts[p].generation
      BY <3>2 DEF Later, SameLog
    <3>5. Changing(p) /\ busy'.metadata.file # None /\ accounts'[p] # None =>
            busy'.metadata.file > accounts'[p].generation
      <4>1. Changing(p) => busy.metadata # None
        BY NoneIsApart DEF Changing, StoreInv, Operations
      <4>2. Changing(p) => busy'.metadata.file = busy.metadata.file
        BY <3>2, <4>1 DEF Later
      <4> QED BY <3>1, <3>4, <4>2 DEF PlacesOK
    <3>6. healthy => /\ disk'[p].durable = accounts'[p]
                     /\ disk'[p].visible = IF Changing(p) /\ busy'.stage = "renamed"
                                           THEN busy'.metadata ELSE accounts'[p]
      BY <3>1, <3>2, <3>3 DEF PlacesOK
    <3>7. healthy' /\ handles'[p] # None => Active(p)' /\ handles'[p] = accounts'[p].file
      BY <3>1, <3>4 DEF PlacesOK, Active, Enrolled
    <3>8. PlacesOK(p)'
      <4>1. handles'[p] \in Generations \cup {None} /\ disk'[p].files \subseteq Generations
        BY <3>1, <3>3 DEF PlacesOK
      <4>2. (Changing(p)' <=> Changing(p)) /\ healthy' = healthy /\ DOMAIN disk'[p] = DirectoryFields
        BY <3>1, <3>3
      <4> QED BY <3>4, <3>5, <3>6, <3>7, <4>1, <4>2, PlacesMeet
    <3>9. \A n \in Copies(p)' : \E m \in Copies(p) : Later(p, m, n)
      BY <3>1, <3>2 DEF Copies
    <3>10. ASSUME NEW n \in Copies(p)'
           PROVE  /\ n # None => CopyOK(n) /\ (n.file # None => n.file \in disk[p].files)
                  /\ TemplateOK(p, n)'
      <4>1. PICK m \in Copies(p) : Later(p, m, n)
        BY <3>9
      <4>2. (m # None => CopyOK(m) /\ (m.file # None => m.file \in disk[p].files)) /\ TemplateOK(p, m)
        BY <3>1 DEF CopiesOK
      <4>3. TemplateOK(p, n)'
        BY <1>9, <4>1, <4>2 DEF Later
      <4>4. n # None => m # None /\ CopyOK(n) /\ n.file = m.file
        BY <4>1, <4>2 DEF Later, SameLog, Follows
      <4> QED BY <4>2, <4>3, <4>4
    <3>11. CopiesOK(p)'
      BY <3>3, <3>10 DEF CopiesOK
    <3> QED BY <2>2, <3>8, <3>11
  <2> QED BY <2>1, <2>2
<1>11. StoreInv'
  BY <1>5, <1>6, <1>7, <1>10, BrokerStore DEF StoreInv
<1>12. KeepsLogs
  <2> SUFFICES ASSUME NEW x \in Principals, NEW n \in Copies(x)' PROVE \E m \in Copies(x) : SameLog(m, n)
    BY DEF KeepsLogs
  <2>1. CASE x # p
    <3>1. Changing(x) => busy'.metadata = busy.metadata
      BY <1>7, <2>1 DEF Changing
    <3>2. Copies(x)' = Copies(x)
      BY <1>5, <1>6, <1>8, <2>1, <3>1 DEF Copies
    <3> QED BY <3>2 DEF SameLog
  <2>2. CASE x = p
    <3>1. \E m \in Copies(p) : n = f[m]
      <4>1. /\ disk'[p].visible = f[disk[p].visible] /\ disk'[p].durable = f[disk[p].durable]
            /\ accounts'[p] = f[accounts[p]] /\ (Changing(p) => busy'.metadata = f[busy.metadata])
        BY <1>4, <1>5, <1>6, <1>7 DEF Changing
      <4> QED BY <1>8, <2>2, <4>1 DEF Copies
    <3> QED BY <2>2, <3>1 DEF Later
  <2> QED BY <2>1, <2>2
<1>13. SameOperation
  <2>1. busy # None => busy.metadata # None
    BY NoneIsApart DEF StoreInv, Operations
  <2>2. busy # None => busy'.metadata.log = busy.metadata.log
    BY <1>2, <1>7, <2>1 DEF Later, SameLog
  <2> QED BY <1>7, <2>2 DEF SameOperation
<1> QED BY <1>9, <1>11, <1>12, <1>13 DEF AccountsInv

LEMMA LaterCopy ==
  ASSUME NEW p, NEW m \in Metadata, NEW n \in Metadata, n.state = m.state, n.template = m.template,
         n.generation = m.generation, n.file = m.file, n.log = m.log, n.request = m.request,
         n.authorized = m.authorized,
         \A a \in Entering(p) : Holds(m, "admission", a) => Holds(n, "admission", a),
         \A r : Holds(n, "switch", r) => Holds(m, "switch", r)
  PROVE  Later(p, m, n)
<1>1. m # None /\ n # None
  BY NoneIsApart
<1>2. CopyOK(m) => Follows(m, n)
  BY DEF CopyOK, Follows
<1>3. TemplateOK(p, m) => TemplateOK(p, n)
  BY <1>1, TemplateKept
<1> QED BY <1>1, <1>2, <1>3 DEF Later, SameLog

LEMMA LaterSelf == ASSUME NEW p, NEW m \in Metadata \cup {None} PROVE Later(p, m, m)
BY FollowsSelf DEF Later, SameLog

LEMMA CopiesTyped ==
  ASSUME StoreInv, NEW p \in Principals, NEW m \in Copies(p) \cup {accounts[p]}
  PROVE  m \in Metadata \cup {None}
BY DEF StoreInv, PlacesOK, CopiesOK, CopyOK

LEMMA ReservationExpiresKeeps ==
  ASSUME CallersInv, StoreInv, NEW p \in Principals, ReservationExpires(p)
  PROVE  AccountsInv' /\ KeepsLogs /\ SameOperation
<1>1. PICK op : op = accounts[p].hold.op
  OBVIOUS
<1>2. ~InReservation(op)
  BY <1>1 DEF ReservationExpires
<1>3. PICK f : f = [m \in Copies(p) \cup {accounts[p]} |->
                      IF m = None THEN None ELSE IF m.hold.op = op THEN [m EXCEPT !.hold.due = TRUE] ELSE m]
  OBVIOUS
<1>4. ASSUME NEW m \in Copies(p) \cup {accounts[p]} PROVE Later(p, m, f[m])
  <2>1. m \in Metadata \cup {None}
    BY CopiesTyped
  <2>2. CASE m = None \/ m.hold.op # op
    BY <1>3, <2>1, <2>2, LaterSelf
  <2>3. CASE m # None /\ m.hold.op = op
    <3>1. PICK n : n = [m EXCEPT !.hold.due = TRUE]
      OBVIOUS
    <3>2. m \in Metadata /\ f[m] = n
      BY <1>3, <2>1, <2>3, <3>1
    <3>3. n.hold = [m.hold EXCEPT !.due = TRUE] /\ m.hold \in HoldType
      BY <3>1, <3>2 DEF Metadata, HoldType
    <3>4. n.hold \in HoldType /\ n.hold.due = TRUE
      BY <3>3 DEF HoldType
    <3>5. n \in Metadata
      <4>1. PICK h \in HoldType : h = [m.hold EXCEPT !.due = TRUE]
        BY <3>3, <3>4
      <4>2. n = [m EXCEPT !.hold = h]
        BY <3>1, <3>2, <4>1 DEF Metadata
      <4> QED BY <3>2, <4>2 DEF Metadata, HoldType
    <3>6. /\ n.state = m.state /\ n.template = m.template /\ n.generation = m.generation /\ n.file = m.file
          /\ n.log = m.log /\ n.request = m.request /\ n.authorized = m.authorized
      BY <3>1, <3>2 DEF Metadata
    <3>7. \A r : ~Holds(n, "switch", r)
      BY <3>4 DEF Holds
    <3>8. ASSUME NEW a \in Entering(p), Holds(m, "admission", a) PROVE FALSE
      <4>1. a = op /\ a \in Admissions /\ caller[a].pc \in {"resolve", "create"} /\ a \notin Handlers
        BY <2>3, <3>8, Apart DEF Holds, Entering
      <4> QED BY <1>2, <4>1 DEF InReservation
    <3> QED BY <3>2, <3>5, <3>6, <3>7, <3>8, LaterCopy
  <2> QED BY <2>2, <2>3
<1>5. /\ accounts[p] \in DOMAIN f /\ disk[p].visible \in DOMAIN f /\ disk[p].durable \in DOMAIN f
      /\ Changing(p) => busy.metadata \in DOMAIN f
  BY <1>3 DEF Copies
<1>6. accounts' = [accounts EXCEPT ![p] = f[accounts[p]]]
  BY <1>1, <1>3, <1>5 DEF ReservationExpires, Dated
<1>7. disk' = [disk EXCEPT ![p].visible = f[disk[p].visible], ![p].durable = f[disk[p].durable]]
  BY <1>1, <1>3, <1>5 DEF ReservationExpires, Dated
<1>8. busy' = IF busy = None \/ busy.request.principal # p THEN busy
              ELSE [busy EXCEPT !.metadata = f[busy.metadata]]
  BY <1>1, <1>3, <1>5 DEF ReservationExpires, Dated, Changing
<1>9. UNCHANGED <<handles, healthy, issued, late, caller, runs, faults>>
  BY DEF ReservationExpires, Dated
<1> QED BY <1>4, <1>6, <1>7, <1>8, <1>9, DatedKeeps

LEMMA RequestExpiresKeeps ==
  ASSUME CallersInv, StoreInv, NEW p \in Principals, RequestExpires(p)
  PROVE  AccountsInv' /\ KeepsLogs /\ SameOperation
<1>1. PICK r : r = accounts[p].request
  OBVIOUS
<1>2. PICK f : f = [m \in Copies(p) \cup {accounts[p]} |->
                      IF m = None THEN None ELSE IF m.request = r THEN [m EXCEPT !.requestDue = TRUE] ELSE m]
  OBVIOUS
<1>3. ASSUME NEW m \in Copies(p) \cup {accounts[p]} PROVE Later(p, m, f[m])
  <2>1. m \in Metadata \cup {None}
    BY CopiesTyped
  <2>2. CASE m = None \/ m.request # r
    BY <1>2, <2>1, <2>2, LaterSelf
  <2>3. CASE m # None /\ m.request = r
    <3>1. PICK n : n = [m EXCEPT !.requestDue = TRUE]
      OBVIOUS
    <3>2. m \in Metadata /\ f[m] = n
      BY <1>2, <2>1, <2>3, <3>1
    <3>3. n \in Metadata
      BY <3>1, <3>2 DEF Metadata
    <3>4. /\ n.state = m.state /\ n.template = m.template /\ n.generation = m.generation /\ n.file = m.file
          /\ n.log = m.log /\ n.request = m.request /\ n.authorized = m.authorized /\ n.hold = m.hold
      BY <3>1, <3>2 DEF Metadata
    <3>5. \A k, x : Holds(n, k, x) <=> Holds(m, k, x)
      BY <3>4 DEF Holds
    <3> QED BY <3>2, <3>3, <3>4, <3>5, LaterCopy
  <2> QED BY <2>2, <2>3
<1>4. /\ accounts[p] \in DOMAIN f /\ disk[p].visible \in DOMAIN f /\ disk[p].durable \in DOMAIN f
      /\ Changing(p) => busy.metadata \in DOMAIN f
  BY <1>2 DEF Copies
<1>5. accounts' = [accounts EXCEPT ![p] = f[accounts[p]]]
  BY <1>1, <1>2, <1>4 DEF RequestExpires, Dated
<1>6. disk' = [disk EXCEPT ![p].visible = f[disk[p].visible], ![p].durable = f[disk[p].durable]]
  BY <1>1, <1>2, <1>4 DEF RequestExpires, Dated
<1>7. busy' = IF busy = None \/ busy.request.principal # p THEN busy
              ELSE [busy EXCEPT !.metadata = f[busy.metadata]]
  BY <1>1, <1>2, <1>4 DEF RequestExpires, Dated, Changing
<1>8. UNCHANGED <<handles, healthy, issued, late, caller, runs, faults>>
  BY DEF RequestExpires, Dated
<1> QED BY <1>3, <1>5, <1>6, <1>7, <1>8, DatedKeeps

LEMMA EligibilityLapsesKeeps ==
  ASSUME CallersInv, StoreInv, NEW p \in Principals, EligibilityLapses(p)
  PROVE  AccountsInv' /\ KeepsLogs /\ SameOperation
<1>1. PICK f : f = [m \in Copies(p) \cup {accounts[p]} |->
                      IF m = None THEN None ELSE [m EXCEPT !.eligible = FALSE]]
  OBVIOUS
<1>2. ASSUME NEW m \in Copies(p) \cup {accounts[p]} PROVE Later(p, m, f[m])
  <2>1. m \in Metadata \cup {None}
    BY CopiesTyped
  <2>2. CASE m = None
    BY <1>1, <2>1, <2>2, LaterSelf
  <2>3. CASE m # None
    <3>1. PICK n : n = [m EXCEPT !.eligible = FALSE]
      OBVIOUS
    <3>2. m \in Metadata /\ f[m] = n
      BY <1>1, <2>1, <2>3, <3>1
    <3>3. n \in Metadata
      BY <3>1, <3>2 DEF Metadata
    <3>4. /\ n.state = m.state /\ n.template = m.template /\ n.generation = m.generation /\ n.file = m.file
          /\ n.log = m.log /\ n.request = m.request /\ n.authorized = m.authorized /\ n.hold = m.hold
      BY <3>1, <3>2 DEF Metadata
    <3>5. \A k, x : Holds(n, k, x) <=> Holds(m, k, x)
      BY <3>4 DEF Holds
    <3> QED BY <3>2, <3>3, <3>4, <3>5, LaterCopy
  <2> QED BY <2>2, <2>3
<1>3. /\ accounts[p] \in DOMAIN f /\ disk[p].visible \in DOMAIN f /\ disk[p].durable \in DOMAIN f
      /\ Changing(p) => busy.metadata \in DOMAIN f
  BY <1>1 DEF Copies
<1>4. accounts' = [accounts EXCEPT ![p] = f[accounts[p]]]
  BY <1>1, <1>3 DEF EligibilityLapses, Dated
<1>5. disk' = [disk EXCEPT ![p].visible = f[disk[p].visible], ![p].durable = f[disk[p].durable]]
  BY <1>1, <1>3 DEF EligibilityLapses, Dated
<1>6. busy' = IF busy = None \/ busy.request.principal # p THEN busy
              ELSE [busy EXCEPT !.metadata = f[busy.metadata]]
  BY <1>1, <1>3 DEF EligibilityLapses, Dated, Changing
<1>7. UNCHANGED <<handles, healthy, issued, late, caller, runs, faults>>
  BY DEF EligibilityLapses, Dated
<1> QED BY <1>2, <1>4, <1>5, <1>6, <1>7, DatedKeeps
-----------------------------------------------------------------------------
LEMMA InitAccounts == ASSUME Init PROVE AccountsInv
<1>1. \A c \in Callers : StateOK(c, caller[c], issued)
  BY IdleRecord, Apart DEF Init, StateOK
<1>2. CallersInv
  BY <1>1 DEF Init, CallersInv, BusyOK
<1>3. ASSUME NEW p \in Principals PROVE PlacesOK(p) /\ CopiesOK(p)
  <2>1. ~Changing(p) /\ accounts[p] = None /\ handles[p] = None
    BY DEF Init, Changing
  <2>2. DOMAIN disk[p] = DirectoryFields /\ disk[p].visible = None /\ disk[p].durable = None /\ disk[p].files = {}
    BY DEF Init, EmptyDirectory, DirectoryFields
  <2>3. PlacesOK(p)
    BY <2>1, <2>2 DEF PlacesOK
  <2>4. Copies(p) = {None}
    BY <2>1, <2>2 DEF Copies, Init
  <2>5. Entering(p) = {} /\ RunsOf(p) = {}
    BY IdleRecord, Apart DEF Init, Entering, RunsOf
  <2>6. CopiesOK(p)
    BY <2>4, <2>5 DEF CopiesOK, TemplateOK
  <2> QED BY <2>3, <2>6
<1>4. StoreInv
  BY <1>3, AccountConstants DEF Init, StoreInv
<1> QED BY <1>2, <1>4 DEF AccountsInv

LEMMA NextKeeps == ASSUME AccountsInv, Next PROVE AccountsInv'
<1>1. CallersInv /\ StoreInv
  BY DEF AccountsInv
<1>2. CASE BrokerStep
  BY <1>1, <1>2, GrantKeeps, RefuseKeeps, StoreFailsKeeps, PrepareKeeps, ReplaceKeeps, SyncKeeps, PrepareFailsKeeps,
     SyncFailsKeeps, RestartKeeps DEF BrokerStep
<1>3. CASE CallerStep
  BY <1>1, <1>3, SubmitKeeps, TimedOutKeeps, ConnectionLostKeeps, CancelledKeeps, AuthorizeSwitchKeeps,
     ListRunsKeeps, ResolveKeeps, CreateRunKeeps, OperatorRestartKeeps, RunEndsKeeps DEF CallerStep
<1>4. CASE Clock
  BY <1>1, <1>4, ReservationExpiresKeeps, RequestExpiresKeeps, EligibilityLapsesKeeps DEF Clock
<1> QED BY <1>2, <1>3, <1>4 DEF Next

LEMMA StutterKeeps == ASSUME AccountsInv, UNCHANGED vars PROVE AccountsInv'
<1>1. CallersInv /\ StoreInv /\ AccountsStay /\ Served /\ issued' = issued /\ runs' = runs /\ late' = late
      /\ caller' = caller
  BY DEF AccountsInv, vars, brokerVars, AccountsStay, Served
<1> QED BY <1>1, NothingMoves, CallersWithdraw

LEMMA StepKeeps == ASSUME AccountsInv, [Next]_vars PROVE AccountsInv'
BY NextKeeps, StutterKeeps

(* The invariant above holds of every behaviour of the broker, its disk, its callers and  *)
(* the two operator handlers.                                                     *)
THEOREM AccountsInvariant == Spec => []AccountsInv
<1>1. Init => AccountsInv
  BY InitAccounts
<1>2. AccountsInv /\ [Next]_vars => AccountsInv'
  BY StepKeeps
<1> QED BY <1>1, <1>2, PTL DEF Spec

(* While an AgentRun of a principal is active, the account keeps the template the run was  *)
(* created with, whatever is lost, repeated or late and wherever broker or operator stop:   *)
(* admission's reservation and the one a switch looks for active runs under exclude each    *)
(* other (_begin_coordination, ServeHTTP of the template switch).                       *)
THEOREM OneTemplateTheorem == Spec => []OneTemplate
<1>1. AccountsInv => OneTemplate
  <2> SUFFICES ASSUME AccountsInv, NEW r \in runs
               PROVE  disk[r.principal].visible # None /\ r.template = disk[r.principal].visible.template
    BY DEF OneTemplate
  <2>1. PICK p \in Principals : p = r.principal
    BY DEF AccountsInv, CallersInv
  <2>2. disk[p].visible \in Copies(p) /\ r \in RunsOf(p)
    BY <2>1 DEF Copies, RunsOf
  <2>3. TemplateOK(p, disk[p].visible)
    BY <2>2 DEF AccountsInv, StoreInv, CopiesOK
  <2> QED BY <2>1, <2>2, <2>3 DEF TemplateOK
<1> QED BY <1>1, AccountsInvariant, PTL

(* Nothing a broker writes is refused by the _validate_metadata of its next start, but for   *)
(* one thing: a switch reservation whose request has gone.                              *)
THEOREM UnloadableTheorem == Spec => []OnlyReservedSwitchUnloadable
<1>1. AccountsInv => OnlyReservedSwitchUnloadable
  <2> SUFFICES ASSUME AccountsInv, NEW p \in Principals, NEW m \in {disk[p].visible, disk[p].durable},
                      m # None, ~ValidMetadata(m)
               PROVE  m.hold.kind = "switch" /\ m.request = None
    BY DEF OnlyReservedSwitchUnloadable
  <2>1. CopyOK(m)
    BY DEF AccountsInv, StoreInv, CopiesOK, Copies
  <2> QED BY <2>1 DEF CopyOK, ValidMetadata
<1> QED BY <1>1, AccountsInvariant, PTL

(* However often a request is repeated or delayed, its operation is never in the log of the   *)
(* account twice: what the log still holds is not executed again (_idempotent,             *)
(* _ensure_new_operation).                                                          *)
THEOREM OperationsOnceTheorem == Spec => []OperationsOnce
<1>1. AccountsInv => OperationsOnce
  <2>1. ASSUME AccountsInv, NEW p \in Principals, disk[p].visible # None PROVE Unique(disk[p].visible.log)
    BY <2>1 DEF AccountsInv, StoreInv, CopiesOK, Copies, CopyOK
  <2> QED BY <2>1 DEF OperationsOnce, Unique
<1> QED BY <1>1, AccountsInvariant, PTL
-----------------------------------------------------------------------------
(* Memory and disk agree.                                                          *)
FunctionsOK ==
  accounts = [p \in Principals |-> accounts[p]] /\ handles = [p \in Principals |-> handles[p]]

LEMMA FunctionsKept == ASSUME FunctionsOK, [Next]_vars PROVE FunctionsOK'
<1>1. CASE UNCHANGED <<accounts, handles>>
  BY <1>1 DEF FunctionsOK
<1>2. CASE UNCHANGED vars \/ CallerStep
  <2>1. UNCHANGED <<accounts, handles>>
    BY <1>2 DEF vars, brokerVars, CallerStep, Submit, TimedOut, ConnectionLost, Cancelled, AuthorizeSwitch, ListRuns,
                Resolve, CreateRun, OperatorRestart, RunEnds
  <2> QED BY <1>1, <2>1
<1>3. CASE Clock
  <2> DEFINE Set == handles' = handles /\ \E p, v : accounts' = [accounts EXCEPT ![p] = v]
  <2>1. ASSUME NEW p, ReservationExpires(p) PROVE Set
    BY <2>1 DEF ReservationExpires, Dated
  <2>2. ASSUME NEW p, RequestExpires(p) PROVE Set
    BY <2>2 DEF RequestExpires, Dated
  <2>3. ASSUME NEW p, EligibilityLapses(p) PROVE Set
    BY <2>3 DEF EligibilityLapses, Dated
  <2>4. Set
    BY <1>3, <2>1, <2>2, <2>3 DEF Clock
  <2> QED BY <2>4 DEF FunctionsOK
<1>4. CASE BrokerStep
  <2>1. ASSUME NEW q, Grant(q) PROVE FunctionsOK'
    <3>1. handles' = handles /\ (accounts' = accounts \/ \E p, v : accounts' = [accounts EXCEPT ![p] = v])
      BY <2>1 DEF Grant, Write
    <3> QED BY <3>1 DEF FunctionsOK
  <2>2. ASSUME NEW q, StoreFails(q) PROVE FunctionsOK'
    <3>1. /\ handles' = handles \/ handles' = [p \in Principals |-> None]
          /\ accounts' = accounts \/ \E p, v : accounts' = [accounts EXCEPT ![p] = v]
      BY <2>2 DEF StoreFails, Write, Latch
    <3> QED BY <3>1 DEF FunctionsOK
  <2>3. CASE \E q \in Requests : Refuse(q) \/ Prepare(q)
    <3>1. UNCHANGED <<accounts, handles>>
      BY <2>3 DEF Refuse, Prepare, brokerVars
    <3> QED BY <1>1, <3>1
  <2>4. CASE Replace \/ PrepareFails
    <3>1. UNCHANGED <<accounts, handles>>
      BY <2>4 DEF Replace, PrepareFails
    <3> QED BY <1>1, <3>1
  <2>5. CASE Sync
    <3>1. (\E p, v : accounts' = [accounts EXCEPT ![p] = v]) /\ \E p, v : handles' = [handles EXCEPT ![p] = v]
      BY <2>5 DEF Sync
    <3> QED BY <3>1 DEF FunctionsOK
  <2>6. CASE SyncFails
    BY <2>6 DEF SyncFails, Latch, FunctionsOK
  <2>7. CASE Restart
    <3>1. PICK found : Load(found)
      BY <2>7 DEF Restart
    <3> QED BY <3>1 DEF Load, FunctionsOK
  <2> QED BY <1>4, <2>1, <2>2, <2>3, <2>4, <2>5, <2>6, <2>7 DEF BrokerStep
<1> QED BY <1>2, <1>3, <1>4 DEF Next

(* A healthy broker between operations decides on what a restart would read, serves no       *)
(* credential but the committed one, and metadata that a start may find names a credential    *)
(* file that is still there (_replace, revoke, _latch_unhealthy).                          *)
THEOREM StorageTheorem == Spec => [](AccountsTypeOK /\ NamedCredentialSurvives /\ MemoryIsDisk)
<1>1. Init => FunctionsOK
  BY DEF Init, FunctionsOK
<1>2. FunctionsOK /\ [Next]_vars => FunctionsOK'
  BY FunctionsKept
<1>3. AccountsInv => NamedCredentialSurvives
  BY DEF AccountsInv, StoreInv, CopiesOK, Copies, NamedCredentialSurvives
<1>4. AccountsInv => MemoryIsDisk
  <2> SUFFICES ASSUME AccountsInv, healthy, busy = None, NEW p \in Principals
               PROVE  accounts[p] = disk[p].visible /\ (handles[p] # None => Active(p) /\ handles[p] = accounts[p].file)
    BY DEF MemoryIsDisk
  <2>1. PlacesOK(p) /\ ~Changing(p)
    BY DEF AccountsInv, StoreInv, Changing
  <2> QED BY <2>1 DEF PlacesOK
<1>5. AccountsInv /\ FunctionsOK => AccountsTypeOK
  <2> SUFFICES ASSUME AccountsInv, FunctionsOK PROVE AccountsTypeOK
    OBVIOUS
  <2>1. CallersInv /\ StoreInv
    BY DEF AccountsInv
  <2>2. accounts \in [Principals -> Metadata \cup {None}] /\ handles \in [Principals -> Generations \cup {None}]
    BY <2>1 DEF FunctionsOK, StoreInv, PlacesOK
  <2>3. healthy \in BOOLEAN /\ faults \in 0..MaxFaults /\ busy \in Operations \cup {None} /\ issued \subseteq SwitchRequests
    BY <2>1 DEF StoreInv, CallersInv
  <2>4. ASSUME NEW p \in Principals
        PROVE  /\ {disk[p].visible, disk[p].durable} \subseteq Metadata \cup {None}
               /\ disk[p].files \subseteq Generations
    <3>1. disk[p].visible \in Metadata \cup {None} /\ disk[p].durable \in Metadata \cup {None}
      BY <2>1, CopiesTyped DEF Copies
    <3> QED BY <2>1, <3>1 DEF StoreInv, PlacesOK
  <2>5. \A q \in late : q.caller \in Callers /\ q.kind \in Asking /\ ~q.live
    BY <2>1 DEF CallersInv, AskOK, RequestType
  <2>6. ASSUME NEW r \in runs PROVE r.principal \in Principals /\ r.template \in Templates
    <3>1. PICK p \in Principals : p = r.principal
      BY <2>1 DEF CallersInv
    <3>2. disk[p].visible \in Copies(p) /\ r \in RunsOf(p)
      BY <3>1 DEF Copies, RunsOf
    <3>3. TemplateOK(p, disk[p].visible) /\ disk[p].visible \in Metadata \cup {None}
      BY <2>1, <3>2, CopiesTyped DEF StoreInv, CopiesOK
    <3> QED BY <3>1, <3>2, <3>3 DEF TemplateOK, Metadata
  <2> QED BY <2>2, <2>3, <2>4, <2>5, <2>6 DEF AccountsTypeOK
<1> QED BY <1>1, <1>2, <1>3, <1>4, <1>5, AccountsInvariant, PTL DEF Spec
-----------------------------------------------------------------------------
(* Acknowledged operations.  The log keeps the last MaxOperations: while no principal has   *)
(* more credential operations than that, none is forgotten.                              *)
Submitted(p) == {o \in Mutations : Owner[o] = p /\ Action[o] \in Replacements \cup {"revoke"}}
LogFits == \A p \in Principals : IsFiniteSet(Submitted(p)) /\ Cardinality(Submitted(p)) <= MaxOperations

Told(o) == caller[o].pc = "ok"
Remembers(p, m) ==
  /\ m # None => \A o \in Mutations : Logged(m, o) => o \in Submitted(p)
  /\ \A o \in Submitted(p) : Told(o) => m # None /\ Logged(m, o)
AnswersInv ==
  /\ \A p \in Principals : \A m \in Copies(p) : Remembers(p, m)
  /\ busy # None => Logged(busy.metadata, busy.request.op)

LEMMA LogHasRoom ==
  ASSUME LogFits, NEW p \in Principals, NEW m, CopyOK(m), \A x \in Mutations : Logged(m, x) => x \in Submitted(p),
         NEW o \in Submitted(p), ~Logged(m, o)
  PROVE  Len(m.log) < MaxOperations
<1>1. PICK log \in Seq(Entries) : log = m.log
  BY DEF CopyOK, Metadata, Entries
<1>2. Unique(log) /\ Len(log) \in Nat /\ DOMAIN log = 1..Len(log)
  BY <1>1 DEF CopyOK
<1>3. \A i \in 1..Len(log) : log[i].op \in Submitted(p) \ {o}
  <2>1. \A i \in 1..Len(log) : log[i].op \in Mutations
    <3>1. \A i \in 1..Len(log) : log[i] \in Entries
      OBVIOUS
    <3>2. \A e \in Entries : e.op \in Mutations
      BY DEF Entries
    <3> QED BY <3>1, <3>2
  <2>2. \A i \in 1..Len(log) : Logged(m, log[i].op)
    BY <1>1, <1>2 DEF Logged
  <2> QED BY <2>1, <2>2
<1>4. PICK T : T = Submitted(p) \ {o}
  OBVIOUS
<1>5. PICK k : k = [i \in 1..Len(log) |-> log[i].op]
  OBVIOUS
<1>6. k \in Injection(1..Len(log), T)
  <2>1. k \in [1..Len(log) -> T]
    BY <1>3, <1>4, <1>5
  <2>2. \A i, j \in 1..Len(log) : k[i] = k[j] => i = j
    BY <1>2, <1>5 DEF Unique
  <2> QED BY <2>1, <2>2, Fun_IsInj
<1>7. IsFiniteSet(Submitted(p)) /\ Cardinality(Submitted(p)) <= MaxOperations
  BY DEF LogFits
<1>8. IsFiniteSet(T) /\ Cardinality(T) = Cardinality(Submitted(p)) - 1
  BY <1>4, <1>7, FS_RemoveElement
<1>9. Cardinality(1..Len(log)) <= Cardinality(T)
  BY <1>6, <1>8, FS_Injection
<1>10. Cardinality(1..Len(log)) = Len(log)
  BY <1>2, FS_Interval
<1>11. Cardinality(Submitted(p)) \in Nat /\ MaxOperations \in Nat
  BY <1>7, FS_CardinalityType, AccountConstants
<1> QED BY <1>1, <1>2, <1>7, <1>8, <1>9, <1>10, <1>11

(* Nobody but c is told anything new, and c finds its operation in every copy.             *)
LEMMA AnswersKept ==
  ASSUME AnswersInv, KeepsLogs, NEW c,
         \A o \in Mutations : o # c /\ Told(o)' => Told(o),
         \A p \in Principals : \A n \in Copies(p)' : c \in Submitted(p) /\ Told(c)' => n # None /\ Logged(n, c),
         busy' # None => Logged(busy'.metadata, busy'.request.op)
  PROVE  AnswersInv'
<1>1. ASSUME NEW p \in Principals, NEW n \in Copies(p)' PROVE Remembers(p, n)'
  <2>1. PICK m \in Copies(p) : SameLog(m, n)
    BY DEF KeepsLogs
  <2>2. Remembers(p, m)
    BY DEF AnswersInv
  <2>3. (m = None <=> n = None) /\ \A o : m # None => (Logged(n, o) <=> Logged(m, o))
    BY <2>1 DEF SameLog, Logged
  <2>4. n # None => \A o \in Mutations : Logged(n, o) => o \in Submitted(p)
    BY <2>2, <2>3 DEF Remembers
  <2>5. ASSUME NEW o \in Submitted(p), Told(o)' PROVE n # None /\ Logged(n, o)
    <3>1. CASE o = c
      BY <2>5, <3>1
    <3>2. CASE o # c
      <4>1. Told(o)
        BY <2>5, <3>2 DEF Submitted
      <4> QED BY <2>2, <2>3, <4>1 DEF Remembers
    <3> QED BY <3>1, <3>2
  <2> QED BY <2>4, <2>5 DEF Remembers
<1> QED BY <1>1 DEF AnswersInv

Unanswered == \A o \in Mutations : Told(o)' => Told(o)

LEMMA NoAnswer ==
  ASSUME AnswersInv, KeepsLogs, Unanswered, SameOperation
  PROVE  AnswersInv'
<1>1. busy' # None => Logged(busy'.metadata, busy'.request.op)
  BY DEF SameOperation, AnswersInv, Logged
<1>2. ASSUME NEW p \in Principals, NEW n \in Copies(p)' PROVE None \in Submitted(p) /\ Told(None)' => n # None /\ Logged(n, None)
  BY AccountConstants DEF Submitted
<1> QED BY <1>1, <1>2, AnswersKept DEF Unanswered

LEMMA CopiesNext ==
  ASSUME StoreInv', healthy', NEW p \in Principals
  PROVE  \A n \in Copies(p)' : n = accounts'[p] \/ (Changing(p)' /\ n = busy'.metadata)
<1>1. PlacesOK(p)'
  BY DEF StoreInv
<1> QED BY <1>1 DEF PlacesOK, Copies

LEMMA StayKeepsLogs ==
  ASSUME CallersInv, StoreInv, AccountsStay
  PROVE  KeepsLogs /\ SameOperation
<1>1. /\ busy' # None <=> busy # None
      /\ busy # None => /\ busy'.metadata = busy.metadata /\ busy'.request.op = busy.request.op
                        /\ busy'.request.principal = busy.request.principal
  BY BusyStays
<1>2. \A p \in Principals : Copies(p)' = Copies(p)
  BY <1>1 DEF AccountsStay, Copies, Changing
<1> QED BY <1>1, <1>2 DEF KeepsLogs, SameLog, SameOperation

LEMMA FailedSays ==
  ASSUME CallersInv, NEW c \in Callers, caller[c].pc \in Asking \cup {"resolve", "create", "list"}
  PROVE  Failed(c).pc # "ok"
<1>1. DOMAIN caller[c] = CallerFields
  BY DEF CallersInv, StateOK
<1>2. Finished(c, "error").pc = "error" /\ Sending(c, "end").pc = "end" /\ Sending(c, "abort").pc = "abort"
  BY <1>1 DEF Finished, Sending, CallerFields
<1> QED BY <1>2, IdleRecord DEF Failed, Asking

LEMMA OneUnanswered ==
  ASSUME CallersInv, NEW c \in Callers, NEW w, caller' = [caller EXCEPT ![c] = w],
         c \in Mutations => w.pc = caller[c].pc \/ w.pc # "ok"
  PROVE  Unanswered
<1>1. \A d \in Callers : caller'[d] = IF d = c THEN w ELSE caller[d]
  BY DEF CallersInv
<1> QED BY <1>1, Apart DEF Unanswered, Told

LEMMA AttemptUnanswered ==
  ASSUME CallersInv, NEW c \in Callers, caller[c].pc \in Asking,
         NextAttempt(c) \/ caller' = [caller EXCEPT ![c] = Failed(c)]
  PROVE  Unanswered
<1>1. DOMAIN caller[c] = CallerFields /\ DOMAIN caller = Callers
  BY DEF CallersInv, StateOK
<1>2. PICK w : w = Failed(c)
  OBVIOUS
<1>3. w.pc # "ok"
  BY <1>2, FailedSays
<1>4. PICK v : v = [caller[c] EXCEPT !.attempt = 2, !.sent = TRUE]
  OBVIOUS
<1>5. v.pc = caller[c].pc
  BY <1>1, <1>4 DEF CallerFields
<1>6. caller' = [caller EXCEPT ![c] = v] \/ caller' = [caller EXCEPT ![c] = w]
  BY <1>1, <1>2, <1>4 DEF NextAttempt
<1> QED BY <1>3, <1>5, <1>6, OneUnanswered

LEMMA CallerAnswers ==
  ASSUME CallersInv, StoreInv, AnswersInv, CallerStep
  PROVE  AnswersInv'
<1>1. AccountsStay
  BY DEF CallerStep, Submit, TimedOut, ConnectionLost, Cancelled, AuthorizeSwitch, ListRuns, Resolve, CreateRun,
         OperatorRestart, RunEnds, AccountsStay, brokerVars, Abandon, ServedAlone
<1>2. ASSUME NEW c \in Callers, TimedOut(c) \/ ConnectionLost(c) PROVE Unanswered
  BY <1>2, AttemptUnanswered DEF TimedOut, ConnectionLost, Waiting
<1>3. ASSUME NEW c \in Callers, Submit(c) PROVE Unanswered
  <2>1. PICK w : w = Sending(c, IF c \in Mutations THEN "call" ELSE "begin")
    OBVIOUS
  <2>2. w.pc = (IF c \in Mutations THEN "call" ELSE "begin")
    BY <1>3, <2>1, IdleRecord DEF Submit, Sending, CallerFields
  <2> QED BY <1>3, <2>1, <2>2, OneUnanswered DEF Submit
<1>4. ASSUME NEW c \in Admissions \cup Handlers, NEW w, caller' = [caller EXCEPT ![c] = w] PROVE Unanswered
  BY <1>4, OneUnanswered, Apart
<1>5. \A c \in Callers : Cancelled(c) => Unanswered
  BY <1>4 DEF Cancelled
<1>6. \A h \in Handlers : AuthorizeSwitch(h) \/ ListRuns(h) => Unanswered
  BY <1>4 DEF AuthorizeSwitch, ListRuns
<1>7. \A a \in Admissions : Resolve(a) \/ CreateRun(a) => Unanswered
  BY <1>4 DEF Resolve, CreateRun
<1>8. OperatorRestart => Unanswered
  BY Apart DEF OperatorRestart, Unanswered, Told
<1>9. \A r : RunEnds(r) => Unanswered
  BY DEF RunEnds, Unanswered, Told
<1>10. Unanswered
  BY <1>2, <1>3, <1>5, <1>6, <1>7, <1>8, <1>9 DEF CallerStep
<1> QED BY <1>1, <1>10, StayKeepsLogs, NoAnswer

LEMMA ClockAnswers ==
  ASSUME CallersInv, StoreInv, AnswersInv, Clock
  PROVE  AnswersInv'
<1>1. KeepsLogs /\ SameOperation
  BY ReservationExpiresKeeps, RequestExpiresKeeps, EligibilityLapsesKeeps DEF Clock
<1>2. caller' = caller
  BY DEF Clock, ReservationExpires, RequestExpires, EligibilityLapses, Dated
<1> QED BY <1>1, <1>2, NoAnswer DEF Unanswered, Told

LEMMA ReplyUnanswered ==
  ASSUME CallersInv, NEW q, q.caller \in Callers, NEW w, Reply(q, w), q.live => w.pc # "ok"
  PROVE  Unanswered
<1>1. CASE q.live
  BY <1>1, OneUnanswered DEF Reply
<1>2. CASE ~q.live
  BY <1>2 DEF Reply, Unanswered, Told
<1> QED BY <1>1, <1>2

LEMMA RefusalAnswers ==
  ASSUME CallersInv, StoreInv, AnswersInv, NEW q \in Requests, Refuse(q) \/ StoreFails(q)
  PROVE  AnswersInv'
<1>1. q.caller \in Callers /\ (q.live => Waiting(q.caller))
  BY RequestsOK
<1>2. PICK w : w = Failed(q.caller)
  OBVIOUS
<1>3. q.live => w.pc # "ok"
  BY <1>1, <1>2, FailedSays DEF Waiting
<1>4. Reply(q, w) /\ busy' = busy /\ busy = None
  BY <1>2 DEF Refuse, StoreFails, Arrives, brokerVars
<1>5. Unanswered
  BY <1>1, <1>3, <1>4, ReplyUnanswered
<1>6. KeepsLogs
  BY StoreFailsKeeps, StayKeepsLogs DEF Refuse, AccountsStay, brokerVars
<1> QED BY <1>4, <1>5, <1>6, NoAnswer DEF SameOperation

LEMMA FailureAnswers ==
  ASSUME CallersInv, StoreInv, AnswersInv, StoreInv', PrepareFails \/ SyncFails
  PROVE  AnswersInv'
<1>1. busy # None /\ busy' = None /\ Reply(busy.request, Failed(busy.request.caller))
  BY DEF PrepareFails, SyncFails, Executing
<1>2. PICK q : q = busy.request
  OBVIOUS
<1>3. q.caller \in Callers /\ (q.live => caller[q.caller].pc \in Asking)
  BY <1>1, <1>2, ServedIsCalling, Apart DEF Asking
<1>4. PICK w : w = Failed(q.caller)
  OBVIOUS
<1>5. q.live => w.pc # "ok"
  BY <1>3, <1>4, FailedSays
<1>6. Unanswered
  BY <1>1, <1>2, <1>3, <1>4, <1>5, ReplyUnanswered
<1>7. ASSUME PrepareFails PROVE KeepsLogs
  <2>1. healthy /\ healthy' = healthy /\ accounts' = accounts
    BY <1>1, <1>7 DEF PrepareFails, StoreInv
  <2>2. \A p \in Principals : ~Changing(p)' /\ accounts[p] \in Copies(p)
    BY <1>1, <2>1 DEF Changing, Copies
  <2>3. \A p \in Principals : \A n \in Copies(p)' : n = accounts[p]
    BY <2>1, <2>2, CopiesNext
  <2> QED BY <2>2, <2>3 DEF KeepsLogs, SameLog
<1>8. KeepsLogs
  BY <1>7, SyncFailsKeeps
<1> QED BY <1>1, <1>6, <1>8, NoAnswer DEF SameOperation

LEMMA PrepareAnswers ==
  ASSUME LogFits, CallersInv, StoreInv, AnswersInv, StoreInv', NEW q \in Requests, Prepare(q)
  PROVE  AnswersInv'
<1>1. healthy /\ busy = None /\ MustExecute(q) /\ UNCHANGED <<accounts, healthy, caller>>
  BY DEF Prepare, Arrives
<1>2. PICK o \in Mutations : o = q.op
  BY <1>1, Executable
<1>3. PICK p \in Principals : p = q.principal
  BY <1>1, Executable
<1>4. Accepted(o, p) /\ Owner[o] = p
  BY <1>1, <1>2, <1>3, Executable
<1>5. PICK n : n = Changed(o, p)
  OBVIOUS
<1>6. PICK m : m = accounts[p]
  OBVIOUS
<1>7. /\ CopyOK(n) /\ Logged(n, o)
      /\ m # None /\ Len(m.log) < MaxOperations => \A x \in Mutations : Logged(m, x) => Logged(n, x)
      /\ \A x \in Mutations : Logged(n, x) => x = o \/ (m # None /\ Logged(m, x))
      /\ m # None => ~Logged(m, o)
      /\ Action[o] \in Replacements \cup {"revoke"}
  BY <1>1, <1>4, <1>5, <1>6, ChangedOK
<1>8. busy' = [request |-> q, metadata |-> n, stage |-> "prepared"]
  BY <1>2, <1>3, <1>5 DEF Prepare
<1>9. busy'.request = q /\ busy'.metadata = n
  BY <1>8
<1>10. o \in Submitted(p) /\ n # None
  BY <1>4, <1>7, NoneIsApart DEF Submitted, CopyOK
<1>11. \A x \in Principals : accounts[x] \in Copies(x) /\ Remembers(x, accounts[x])
  BY <1>1 DEF AnswersInv, Copies
<1>12. \A x : \A y : Remembers(x, y)' <=> Remembers(x, y)
  BY <1>1 DEF Remembers, Told
<1>13. Remembers(p, n)
  <2>1. Remembers(p, m)
    BY <1>6, <1>11
  <2>2. \A x \in Mutations : Logged(n, x) => x \in Submitted(p)
    BY <1>7, <1>10, <2>1 DEF Remembers
  <2>3. ASSUME NEW x \in Submitted(p), Told(x) PROVE Logged(n, x)
    <3>1. m # None /\ Logged(m, x) /\ x \in Mutations
      BY <2>1, <2>3 DEF Remembers, Submitted
    <3>2. CopyOK(m)
      BY <1>1, <1>6, <3>1, OneCopy
    <3>3. Len(m.log) < MaxOperations
      BY <1>7, <1>10, <2>1, <3>1, <3>2, LogHasRoom DEF Remembers
    <3> QED BY <1>7, <3>1, <3>3
  <2> QED BY <1>10, <2>2, <2>3 DEF Remembers
<1>14. ASSUME NEW x \in Principals, NEW y \in Copies(x)' PROVE Remembers(x, y)'
  <2>1. y = accounts[x] \/ (x = p /\ y = n)
    BY <1>1, <1>3, <1>9, CopiesNext DEF Changing
  <2> QED BY <1>11, <1>12, <1>13, <2>1
<1> QED BY <1>2, <1>7, <1>9, <1>14 DEF AnswersInv

LEMMA ReplaceAnswers ==
  ASSUME CallersInv, StoreInv, AnswersInv, StoreInv', Replace \/ Restart
  PROVE  AnswersInv'
<1>1. CASE Replace
  <2>1. busy # None /\ busy' = [busy EXCEPT !.stage = "renamed"] /\ UNCHANGED <<accounts, healthy, caller>>
    BY <1>1 DEF Replace, Executing
  <2>2. healthy /\ busy'.request = busy.request /\ busy'.metadata = busy.metadata
    BY <2>1 DEF StoreInv, Operations
  <2>3. ASSUME NEW x \in Principals, NEW y \in Copies(x)' PROVE y \in Copies(x)
    <3>1. y = accounts[x] \/ (Changing(x)' /\ y = busy.metadata)
      BY <2>1, <2>2, CopiesNext
    <3>2. Changing(x)' => Changing(x)
      BY <2>1, <2>2 DEF Changing
    <3> QED BY <2>2, <3>1, <3>2 DEF Copies
  <2>4. KeepsLogs
    BY <2>3 DEF KeepsLogs, SameLog
  <2> QED BY <2>1, <2>2, <2>4, NoAnswer DEF SameOperation, Unanswered, Told
<1>2. CASE Restart
  <2>1. busy' = None /\ caller' = [c \in Callers |-> [caller[c] EXCEPT !.sent = FALSE]]
    BY <1>2 DEF Restart
  <2>2. \A c \in Callers : DOMAIN caller[c] = CallerFields
    BY DEF CallersInv, StateOK
  <2>3. \A c \in Callers : caller'[c].pc = caller[c].pc
    BY <2>1, <2>2 DEF CallerFields
  <2>4. Unanswered
    BY <2>3, Apart DEF Unanswered, Told
  <2> QED BY <1>2, <2>1, <2>4, RestartKeeps, NoAnswer DEF SameOperation
<1> QED BY <1>1, <1>2

LEMMA SyncAnswers ==
  ASSUME CallersInv, StoreInv, AnswersInv, StoreInv', Sync
  PROVE  AnswersInv'
<1>1. busy # None /\ busy' = None /\ healthy' = healthy
  BY DEF Sync, Executing
<1>2. PICK p \in Principals : p = busy.request.principal
  BY <1>1, UnderWay
<1>3. PICK n : n = busy.metadata
  OBVIOUS
<1>4. PICK o \in Mutations : o = busy.request.caller
  BY <1>1, ServedIsCalling
<1>5. /\ healthy /\ n # None /\ Logged(n, o) /\ Owner[o] = p /\ Changing(p) /\ o \in Callers
  BY <1>1, <1>2, <1>3, <1>4, ServedIsCalling, NoneIsApart, Apart DEF StoreInv, Operations, AnswersInv, Changing
<1>6. \A x \in Principals : accounts'[x] = IF x = p THEN n ELSE accounts[x]
  BY <1>2, <1>3 DEF Sync, StoreInv
<1>7. ASSUME NEW x \in Principals, NEW y \in Copies(x)' PROVE y = (IF x = p THEN n ELSE accounts[x]) /\ y \in Copies(x)
  <2>1. ~Changing(x)'
    BY <1>1 DEF Changing
  <2>2. y = accounts'[x]
    BY <1>1, <1>5, <2>1, CopiesNext
  <2> QED BY <1>3, <1>5, <1>6, <2>2 DEF Copies
<1>8. KeepsLogs
  BY <1>7 DEF KeepsLogs, SameLog
<1>9. \A c \in Callers : c # o => caller'[c] = caller[c]
  BY <1>4 DEF Sync, Reply, CallersInv
<1>10. \A c \in Mutations : c # o /\ Told(c)' => Told(c)
  BY <1>9, Apart DEF Told
<1>11. \A x \in Principals : \A y \in Copies(x)' : o \in Submitted(x) /\ Told(o)' => y # None /\ Logged(y, o)
  BY <1>5, <1>7 DEF Submitted
<1> QED BY <1>1, <1>8, <1>10, <1>11, AnswersKept

LEMMA GrantAnswers ==
  ASSUME CallersInv, StoreInv, AnswersInv, StoreInv', NEW q \in Requests, Grant(q)
  PROVE  AnswersInv'
<1>1. healthy /\ healthy' = healthy /\ busy = None /\ busy' = None
  BY DEF Grant, Arrives
<1>2. PICK p \in Subjects(q) : \E n \in Outcomes(q, p) :
        /\ IF n = accounts[p] THEN UNCHANGED <<accounts, disk>> ELSE Write(p, n)
        /\ Reply(q, Granted(q.caller, p))
  BY DEF Grant
<1>3. PICK n \in Outcomes(q, p) :
        /\ IF n = accounts[p] THEN UNCHANGED <<accounts, disk>> ELSE Write(p, n)
        /\ Reply(q, Granted(q.caller, p))
  BY <1>2
<1>4. /\ p \in Principals /\ q.caller \in Callers
      /\ q.caller \notin Handlers => p = Owner[q.caller] /\ q.op = q.caller
      /\ q.kind = "call" <=> q.caller \in Mutations
  BY Subjected, RequestsOK, Apart DEF AskOK
<1>5. \A x \in Principals : accounts'[x] = IF x = p THEN n ELSE accounts[x]
  BY <1>3, <1>4 DEF Write, StoreInv
<1>6. SameLog(accounts[p], n)
  BY <1>1, OutcomeOK, NoAccount DEF SameLog, Follows
<1>7. ASSUME NEW x \in Principals, NEW y \in Copies(x)' PROVE y = (IF x = p THEN n ELSE accounts[x])
  <2>1. ~Changing(x)'
    BY <1>1 DEF Changing
  <2> QED BY <1>1, <1>5, <2>1, CopiesNext
<1>8. KeepsLogs
  <2>1. \A x \in Principals : accounts[x] \in Copies(x)
    BY <1>1 DEF Copies
  <2> QED BY <1>6, <1>7, <2>1 DEF KeepsLogs, SameLog
<1>9. PICK c \in Callers : c = q.caller
  BY <1>4
<1>10. \A d \in Callers : d # c => caller'[d] = caller[d]
  BY <1>3, <1>9 DEF Reply, CallersInv
<1>11. \A d \in Mutations : d # c /\ Told(d)' => Told(d)
  BY <1>10, Apart DEF Told
<1>12. ASSUME NEW x \in Principals, NEW y \in Copies(x)', c \in Submitted(x) PROVE y # None /\ Logged(y, c)
  <2>1. /\ c \in Mutations /\ c \notin Handlers /\ x = p /\ y = n /\ q.op = c /\ q.kind = "call"
        /\ Action[c] \in Replacements \cup {"revoke"}
    BY <1>4, <1>7, <1>9, <1>12, Apart DEF Submitted
  <2>2. Action[c] \notin {"renew", "deny"} /\ Action[c] # "request"
    BY <2>1 DEF Replacements
  <2>3. accounts[p] # None
    BY <2>1, <2>2 DEF Outcomes, Enrolled
  <2>4. n = accounts[p] /\ Repeated(c, p)
    BY <2>1, <2>2, <2>3 DEF Outcomes, Enrolled
  <2>5. Logged(accounts[p], c)
    <3>1. PICK i \in DOMAIN accounts[p].log :
            accounts[p].log[i] = [op |-> c, action |-> Action[c], instance |-> accounts[p].instance]
      BY <2>4 DEF Repeated, idempotent
    <3>2. accounts[p].log[i].op = c
      BY <3>1
    <3> QED BY <3>2 DEF Logged
  <2> QED BY <2>1, <2>3, <2>4, <2>5
<1> QED BY <1>1, <1>8, <1>11, <1>12, AnswersKept

LEMMA StepAnswers ==
  ASSUME LogFits, AccountsInv, AnswersInv, [Next]_vars
  PROVE  AnswersInv'
<1>1. CallersInv /\ StoreInv /\ StoreInv'
  BY StepKeeps DEF AccountsInv
<1>2. CASE UNCHANGED vars
  <2>1. AccountsStay /\ caller' = caller
    BY <1>2 DEF vars, brokerVars, AccountsStay
  <2> QED BY <1>1, <2>1, StayKeepsLogs, NoAnswer DEF Unanswered, Told
<1>3. CASE CallerStep
  BY <1>1, <1>3, CallerAnswers
<1>4. CASE Clock
  BY <1>1, <1>4, ClockAnswers
<1>5. CASE BrokerStep
  BY <1>1, <1>5, GrantAnswers, RefusalAnswers, PrepareAnswers, ReplaceAnswers, SyncAnswers, FailureAnswers DEF BrokerStep
<1> QED BY <1>2, <1>3, <1>4, <1>5 DEF Next

(* Memory, disk and answers agree: besides the above, a frontend that was told its         *)
(* credential operation succeeded finds it in the log whatever the broker crashes into, as  *)
(* long as no principal has more of them than the log holds (_write_metadata before the     *)
(* answer, _record_operation).                                                     *)
THEOREM StorageIsHonestTheorem == ASSUME LogFits PROVE Spec => []StorageIsHonest
<1>1. Init => AnswersInv
  <2> SUFFICES ASSUME Init PROVE AnswersInv
    OBVIOUS
  <2>1. busy = None /\ \A o \in Mutations : ~Told(o)
    BY IdleRecord, Apart DEF Init, Told
  <2>2. \A p \in Principals : Copies(p) = {None}
    BY DEF Init, Copies, Changing, EmptyDirectory
  <2> QED BY <2>1, <2>2 DEF AnswersInv, Remembers, Submitted
<1>2. AccountsInv /\ AnswersInv /\ [Next]_vars => AnswersInv'
  BY StepAnswers
<1>3. AnswersInv => AcknowledgedIsDurable
  <2> SUFFICES ASSUME AnswersInv, NEW o \in Mutations, caller[o].pc = "ok", Action[o] \in Replacements \cup {"revoke"}
               PROVE  /\ disk[Owner[o]].durable # None
                      /\ Logged(disk[Owner[o]].durable, o) /\ Logged(disk[Owner[o]].visible, o)
    BY DEF AcknowledgedIsDurable
  <2>1. PICK p \in Principals : p = Owner[o]
    BY Apart
  <2>2. o \in Submitted(p) /\ Told(o) /\ disk[p].visible \in Copies(p) /\ disk[p].durable \in Copies(p)
    BY <2>1 DEF Submitted, Told, Copies
  <2> QED BY <2>1, <2>2 DEF AnswersInv, Remembers
<1>4. AccountsTypeOK /\ NamedCredentialSurvives /\ MemoryIsDisk /\ AcknowledgedIsDurable => StorageIsHonest
  BY DEF StorageIsHonest
<1> QED BY <1>1, <1>2, <1>3, <1>4, AccountsInvariant, StorageTheorem, PTL DEF Spec
=============================================================================
