--------------------------- MODULE MCPartidaVida ---------------------------
(* Two Jogadores are forwarded; the first one has two tabs, so that a        *)
(* connection can be substituted, and the second one has one.  A third one   *)
(* plays only in the match that has already started, so that a desistência   *)
(* can leave the match going on.                                             *)
EXTENDS PartidaVida

CONSTANTS j1, j2, j3, s1, s2, s3, s4

DonoDasAbas(s) == CASE s = s3 -> j2 [] s = s4 -> j3 [] OTHER -> j1

\* A crash or somebody that leaves as an orphan, not both; and at most two replies
\* on their way, those of the timers too.
Orcamento == quedas + Cardinality(orfaos) <= 1 /\ Len(fio) <= 2
=============================================================================
