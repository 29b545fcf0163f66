------------------------------- MODULE Select -------------------------------
(***************************************************************************)
(* How Handle chooses the backends of a request: rule.IsJev() sends it to  *)
(* the decision router, any other rule to the balanced or plain pool.  The *)
(* two share no state, so a behaviour is about one rule of either kind.    *)
(***************************************************************************)
EXTENDS Balance, JevRouter

VARIABLE ruleKind    \* the mode of the rule the requests match

selectVars == <<ruleKind, poolVars, jevVars>>

SelectInit ==
    /\ ruleKind \in {"pool", "jev"}
    /\ PoolInit /\ (ruleKind = "jev" => rule = CHOOSE v \in RuleVersions : TRUE)
    /\ JevInit /\ (ruleKind = "pool" => pool0 = (CHOOSE p \in Pools : TRUE) /\ tier0 = (CHOOSE t \in DefaultTiers : TRUE))

SelectNext ==
    \/ ruleKind = "pool" /\ PoolNext /\ UNCHANGED <<ruleKind, jevVars>>
    \/ ruleKind = "jev" /\ JevNext /\ UNCHANGED <<ruleKind, poolVars>>

SelectSpec == SelectInit /\ [][SelectNext]_selectVars

\* However the attempt list of a request is made, by rotation, by load or by the
\* decision model, no backend that could serve it is left out, nor listed twice
\* unless the rule names it twice.
WholePool == ChainComplete /\ JevTypeOK /\ JevFailsOpen

\* The decision router never steps down on its own account: neither its first
\* choice nor the order of its fallbacks trades a stronger model for a weaker one
\* without a confident decision.
NeverStepsDown == NoRiskyStep /\ FallbackStepsUp

=============================================================================
