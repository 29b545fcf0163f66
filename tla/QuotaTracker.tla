---------------------------- MODULE QuotaTracker ----------------------------
(***************************************************************************)
(* The per-server TPM/RPM quota of config/quota.go: two sliding windows    *)
(* (token usage, sent requests) and the tokens reserved by requests that   *)
(* are still in flight.  Every method holds q.mu for its whole body, so    *)
(* each one is a single action.                                            *)
(*                                                                         *)
(* The windows are Go slices that are pruned in place.  Most methods store *)
(* the pruned slice back; Usage does not, and the slice that stays in the  *)
(* map then shares its array with the pruned one (see PrunedUnder).        *)
(***************************************************************************)
EXTENDS Integers, Sequences, SequencesExt

CONSTANTS
    Server,        \* the backends
    QuotaWindow,   \* window60s
    TPMs,          \* values of a server's tpm_limit; 0 = unlimited
    RPMs           \* values of a server's rpm_limit; 0 = unlimited

ASSUME QuotaAssumption ==
    QuotaWindow \in Nat \ {0} /\ TPMs \subseteq Nat /\ RPMs \subseteq Nat

VARIABLES
    now,           \* the process clock
    tokens,        \* tokens[s]: sequence of [at, n], n tokens used at `at'
    requests,      \* requests[s]: sequence of [at], requests counted at `at'
    reserved,      \* reserved[s]: tokens held by requests in flight
    tpm, rpm       \* limits of each server, read lazily from the config

quotaVars == <<tokens, requests, reserved, tpm, rpm>>

QuotaTypeOK ==
    /\ tokens \in [Server -> Seq([at : Nat, n : Nat])]
    /\ requests \in [Server -> Seq([at : Nat])]
    /\ reserved \in [Server -> Nat]
    /\ tpm \in [Server -> TPMs]
    /\ rpm \in [Server -> RPMs]

QuotaInit ==
    /\ tokens = [s \in Server |-> <<>>]
    /\ requests = [s \in Server |-> <<>>]
    /\ reserved = [s \in Server |-> 0]
    /\ tpm \in [Server -> TPMs]
    /\ rpm \in [Server -> RPMs]

-----------------------------------------------------------------------------

\* Mutant of Young: the window is one tick short.
Young_Short(e) == e.at > now - QuotaWindow + 1

Young(e) == e.at > now - QuotaWindow

\* pruneEvents and pruneTimes: the entries still inside the window.
Pruned(window) == FoldLeft(LAMBDA kept, e : IF Young(e) THEN Append(kept, e) ELSE kept, <<>>, window)

\* What the map's own slice holds after the window was pruned in place and
\* the result was dropped: same length, its head overwritten by the pruned
\* entries, its tail as it was.
PrunedUnder(window) == Pruned(window) \o SubSeq(window, Len(Pruned(window)) + 1, Len(window))

Total(window) == FoldLeft(LAMBDA sum, e : sum + e.n, 0, window)

\* Tokens and requests the tracker counts against s now.
Used(s) == Total(Pruned(tokens[s]))
Sent(s) == Len(Pruned(requests[s]))

RPMFull(s) == rpm[s] > 0 /\ Sent(s) >= rpm[s]
TPMFull(s) == tpm[s] > 0 /\ Used(s) >= tpm[s]

\* What Allow answers; Allow itself also prunes the windows it looked at,
\* and does not look at the tokens of a server whose RPM is exhausted.
Allowed(s) == ~RPMFull(s) /\ ~TPMFull(s)

Allow(s) ==
    /\ requests' = [requests EXCEPT ![s] = IF rpm[s] > 0 THEN Pruned(@) ELSE @]
    /\ tokens' = [tokens EXCEPT ![s] = IF tpm[s] > 0 /\ ~RPMFull(s) THEN Pruned(@) ELSE @]
    /\ UNCHANGED <<reserved, tpm, rpm>>

\* The admin-facing read: both windows are pruned in place, neither is stored.
Usage(s) ==
    /\ requests' = [requests EXCEPT ![s] = PrunedUnder(@)]
    /\ tokens' = [tokens EXCEPT ![s] = PrunedUnder(@)]
    /\ UNCHANGED <<reserved, tpm, rpm>>

RecordRequest(s) ==
    /\ requests' = [requests EXCEPT ![s] = Append(Pruned(@), [at |-> now])]
    /\ UNCHANGED <<tokens, reserved, tpm, rpm>>

\* Mutant of Admits: the reservations of the requests in flight are ignored.
Admits_IgnoresReserved(s, estimate) ==
    estimate = 0 \/ tpm[s] = 0 \/ Used(s) + estimate <= tpm[s]

\* Reserve's answer for a declared budget, and its effect when it is asked.
\* A request without a budget is admitted before the lock is taken.
Admits(s, estimate) ==
    estimate = 0 \/ tpm[s] = 0 \/ Used(s) + reserved[s] + estimate <= tpm[s]

Reserve(s, estimate) ==
    /\ IF estimate = 0 \/ tpm[s] = 0
       THEN UNCHANGED <<tokens, reserved>>
       ELSE /\ tokens' = [tokens EXCEPT ![s] = Pruned(@)]
            /\ reserved' = [reserved EXCEPT ![s] = IF Admits(s, estimate)
                                                   THEN @ + estimate ELSE @]
    /\ UNCHANGED <<requests, tpm, rpm>>

\* Mutant of Complete: the reservation is kept when the attempt used nothing.
Complete_OnlyUsed(s, reservedTokens, actual) ==
    /\ reserved' = [reserved EXCEPT ![s] = IF actual > 0 THEN @ - reservedTokens ELSE @]
    /\ tokens' = [tokens EXCEPT ![s] = IF actual > 0
                                       THEN Append(Pruned(@), [at |-> now, n |-> actual])
                                       ELSE @]
    /\ UNCHANGED <<requests, tpm, rpm>>

\* The single teardown of an attempt: give back what it reserved (never below
\* zero) and count what it used.
Complete(s, reservedTokens, actual) ==
    /\ reserved' = [reserved EXCEPT ![s] = IF @ < reservedTokens THEN 0 ELSE @ - reservedTokens]
    /\ tokens' = [tokens EXCEPT ![s] = IF actual > 0
                                       THEN Append(Pruned(@), [at |-> now, n |-> actual])
                                       ELSE @]
    /\ UNCHANGED <<requests, tpm, rpm>>

\* The administrator edits a server; the tracker looks the limits up lazily.
EditLimits(s, t, r) ==
    /\ tpm' = [tpm EXCEPT ![s] = t]
    /\ rpm' = [rpm EXCEPT ![s] = r]
    /\ UNCHANGED <<tokens, requests, reserved>>

=============================================================================
