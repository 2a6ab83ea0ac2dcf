-------------------------- MODULE MCRefreshSessions --------------------------
(* TLC instances of RefreshSessions: model values and their symmetry. *)
EXTENDS RefreshSessions, TLC

\* Requests, sids, jtis and users are interchangeable in every safety run.
Symmetry == Permutations(Reqs) \cup Permutations(Jtis) \cup Permutations(Sids)
              \cup Permutations(Users)
=============================================================================
