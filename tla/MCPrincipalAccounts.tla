------------------------ MODULE MCPrincipalAccounts ------------------------
(* Instances of PrincipalAccounts for TLC.                                    *)
EXTENDS PrincipalAccounts, TLC

CONSTANTS p1, p2, A, B, enrollA, enrollB, enrollOther, reconnect, revoke, ask, renew

Actions_ ==
  enrollA :> "enroll" @@ enrollB :> "enroll" @@ enrollOther :> "enroll" @@
  reconnect :> "reconnect" @@ revoke :> "revoke" @@ ask :> "request" @@ renew :> "renew"
MCAction == [o \in Mutations |-> Actions_[o]]
MCTarget == [o \in Mutations |-> IF o = enrollB THEN B ELSE A]
MCOwner == [c \in Mutations \cup Admissions |-> IF c = enrollOther THEN p2 ELSE p1]

(* Two questions put to the broker in one run.  A principal enrols, is admitted *)
(* and switches its template, with one fault; or two principals enrol,          *)
(* reconnect, renew and revoke, with two.                                     *)
VARIABLE part

PartCallers == IF part = "switch" THEN {enrollA, enrollB, revoke, ask} \cup Admissions \cup Handlers
               ELSE {enrollA, enrollOther, reconnect, revoke, renew}
PartsInit == Init /\ part \in {"switch", "rotation"}
PartsNext ==
  /\ Next
  /\ \A c \in Callers \ PartCallers : caller'[c] = Idle
  /\ part = "switch" => faults' <= 1
  /\ UNCHANGED part
PartsSpec == PartsInit /\ [][PartsNext]_<<vars, part>>
===========================================================================
