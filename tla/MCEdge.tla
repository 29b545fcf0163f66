------------------------------- MODULE MCEdge -------------------------------
(* Two clients, one of them a browser; limits off, per client and shared.    *)
EXTENDS Edge, TLC

Requests == Permutations(Request)

Visit(client, origin, preflight) == [client |-> client, origin |-> origin, preflight |-> preflight]
MCVisits == {Visit("x", "", FALSE), Visit("y", "o", TRUE)}

Sets(rate, burst, perIP, cors, webhook) ==
    [rate |-> rate, burst |-> burst, perIP |-> perIP, cors |-> cors, webhook |-> webhook]
MCSettings == {Sets(1, 0, TRUE, "off", TRUE), Sets(0, 0, FALSE, "any", FALSE), Sets(2, 1, FALSE, "o", TRUE)}

=============================================================================
