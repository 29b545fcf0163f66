---------------------------- MODULE MCQuotaAudit ----------------------------
(***************************************************************************)
(* Model-checking instances of QuotaAudit.  Servers do not interact inside *)
(* the tracker, so one server is enough; two requests make the races.      *)
(***************************************************************************)
EXTENDS QuotaAudit, TLC

RequestSymmetry == Permutations(Request)

\* Limits an administrator moves to: between two limits, and between no limit
\* and one.
Moves == {<<2, 1>>, <<3, 0>>}
Toggles == {<<0, 0>>, <<3, 1>>}

=============================================================================
