------------------------- MODULE MCCommentProducer -------------------------
(***************************************************************************)
(* Two repositories.  In the first a help request h and an issue with the    *)
(* `pr create` commands a and b; in the second a pull request with the        *)
(* `pr continue` commands k and l, and x, which is no command there.          *)
(***************************************************************************)
EXTENDS CommentProducer

CONSTANTS h, a, b, k, l, x, none, first, second, issue, pull, alice, bob

TwoRepositories == <<first, second>>
MCRepoOf == [c \in Comments |-> IF c \in {h, a, b} THEN first ELSE second]
MCIssueOf == [c \in Comments |-> IF c \in {h, a, b} THEN issue ELSE pull]
MCIntent == [c \in Comments |-> IF c = h THEN "help"
                                ELSE IF c \in {a, b, x} THEN "pr create" ELSE "pr continue"]
MCAuthorOf == [c \in Comments |-> IF c \in {a, h, k} THEN alice ELSE bob]
MCPrincipalLimit == [p \in Principals |-> IF p = alice THEN 1 ELSE 0]
=============================================================================
