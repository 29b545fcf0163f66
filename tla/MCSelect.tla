------------------------------ MODULE MCSelect ------------------------------
(* Three rule versions for the pool and two candidate lists for jev.       *)
EXTENDS Select, TLC

Handlers == Permutations(Request)

Fb(s, p, w) == [server |-> s, enabled |-> TRUE, priority |-> p, weight |-> w]
RuleOf(mode, fbs) == [server |-> "a", fallbacks |-> fbs, balance |-> mode]

MCRules == {RuleOf("round-robin", <<Fb("b", 2, 2), Fb("c", 1, 0)>>),
            RuleOf("round-robin", <<Fb("b", 0, 2), [Fb("c", 1, 0) EXCEPT !.enabled = FALSE]>>),
            RuleOf("least-connections", <<Fb("b", 0, 2)>>)}

Cand(id, server, tier, vision) == [id |-> id, server |-> server, tier |-> tier, vision |-> vision, enabled |-> TRUE]

MCPools == {<<Cand("s", "a", 1, "unset"), Cand("m", "b", 2, "no"), Cand("l", "b", 4, "yes")>>,
            <<Cand("s", "a", 1, "yes"), Cand("l", "a", 3, "unset")>>}

Asks(conv, text, images, large) == [conv |-> conv, text |-> text, images |-> images, large |-> large, off |-> FALSE]
MCTurns == {Asks("x", "t", FALSE, FALSE), Asks("x", "", FALSE, FALSE), Asks("y", "t", FALSE, TRUE),
            [Asks("", "t", TRUE, FALSE) EXCEPT !.off = TRUE]}

Says(choice, confidence, harm) == [choice |-> choice, confidence |-> confidence, harm |-> harm]
MCAnswers == {Says("s", 9, FALSE), Says("s", 2, FALSE), Says("l", 2, FALSE), Says("s", 9, TRUE)}

\* The rules of this instance are ones FairShare is stated for.
ASSUME MCWeights == WeightsKept

=============================================================================
