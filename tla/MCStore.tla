------------------------------ MODULE MCStore ------------------------------
(* Two servers, two profiles, an exact rule, a pattern rule, a jev rule.    *)
EXTENDS Store

NoJev == [present |-> FALSE, server |-> "", candidates |-> <<>>]
Rule(models, server, fallbacks) ==
    [models |-> models, enabled |-> TRUE, router |-> "", server |-> server, fallbacks |-> fallbacks,
     fallback_ids |-> <<>>, jev |-> NoJev, balance |-> ""]

Exact == Rule(<<"gpt-4">>, "s1", <<>>)
Family == Rule(<<"gpt-*">>, "s2", <<"s1">>)
Decided == [Rule(<<"*">>, "", <<>>) EXCEPT !.router = "jev",
    !.jev = [present |-> TRUE, server |-> "s1", candidates |-> <<[server |-> "s2", enabled |-> TRUE]>>]]
Shapeless == [Exact EXCEPT !.balance = "random"]
MCRuleBodies == {Exact, Decided, Shapeless}

MCMatching == {"gpt-*", "*"} \X {"gpt-4", "gpt-5"}
MCSpecificity == [n \in {"gpt-4", "gpt-*", "*"} |-> IF n = "*" THEN 1 ELSE 5]

Both == [s \in {"s1", "s2"} |-> "v1"]
\* A document of before the profiles, and one whose active profile is unnamed.
Legacy == [servers |-> Both, active |-> "", profiles |-> <<>>,
           rules |-> <<[Exact EXCEPT !.fallback_ids = <<"s2">>]>>]
Modern == [servers |-> Both, active |-> "", rules |-> <<>>,
           profiles |-> <<[id |-> "p", name |-> "p", rules |-> <<[Decided EXCEPT !.enabled = FALSE], Family>>],
                          [id |-> "default", name |-> "default", rules |-> <<Exact>>]>>]
MCDocuments == {Legacy, Modern}
=============================================================================
