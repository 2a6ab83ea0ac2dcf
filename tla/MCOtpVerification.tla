-------------------------- MODULE MCOtpVerification --------------------------
(* TLC instances of OtpVerification: model values and their symmetry. *)
EXTENDS OtpVerification, TLC

\* Requests and codes are interchangeable in every safety run.
Symmetry == Permutations(Reqs) \cup Permutations(Codes)
=============================================================================
