----------------------------- MODULE MCObserve ------------------------------
(* A throttled, a cached and a slow answer; windows with and without an end. *)
EXTENDS Observe, TLC

Handlers == Permutations(Handler)

Ended(status, latency, fallback, api, prompt, cached, created) ==
    [status |-> status, latency |-> latency, fallback |-> fallback, api |-> api,
     prompt |-> prompt, cached |-> cached, created |-> created]

MCOutcomes == {Ended(200, 1, FALSE, "anthropic", 1, 2, 1), Ended(200, 3, TRUE, "openai", 3, 2, 0),
               Ended(0, 2, TRUE, "openai", 0, -1, 0)}

Arm(seconds, models, servers) == [seconds |-> seconds, models |-> models, servers |-> servers]
MCWindows == {Arm(1, {}, {"a"}), Arm(0, {"m"}, {})}

MCBuckets == <<1, 2>>

=============================================================================
