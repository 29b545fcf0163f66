------------------------------ MODULE QuotaUse ------------------------------
(***************************************************************************)
(* The quota tracker as the attempts of router.go use it: several requests *)
(* at once, each asking Allow, reserving its declared output budget, being *)
(* counted when it is served, and completing once on every exit path.      *)
(***************************************************************************)
EXTENDS QuotaTracker

CONSTANTS
    Request,       \* requests the router may be serving at once
    Estimates,     \* declared output budgets; 0 = none declared
    Reports,       \* token counts a backend may report for an attempt
    Edits,         \* pairs <<tpm, rpm>> an administrator may set
    MaxTime        \* bound on the clock

ASSUME QuotaUseAssumption ==
    /\ Estimates \subseteq Nat /\ Reports \subseteq Nat
    /\ Edits \subseteq TPMs \X RPMs
    /\ MaxTime \in Nat

VARIABLE call      \* call[r]: the attempt request r is making

useVars == <<now, quotaVars, call>>

NoServer == "none"

\* st: where the attempt is; srv: its server; last: whether it is the last of
\* its chain, which is sent whatever the quota says; budget: what the client
\* declared; held: reservedTokens, what Complete will give back.
Call == [st : {"idle", "allowed", "blocked", "sent", "counted"},
         srv : Server \cup {NoServer}, last : BOOLEAN, budget : Nat, held : Nat]

Idle == [st |-> "idle", srv |-> NoServer, last |-> FALSE, budget |-> 0, held |-> 0]

\* Windows, reservations and the state of every attempt stay well-typed; above
\* all no reservation is given back twice, which would make the count negative.
UseTypeOK == now \in Nat /\ QuotaTypeOK /\ call \in [Request -> Call]

UseInit ==
    /\ now = 0
    /\ QuotaInit
    /\ call = [r \in Request |-> Idle]

-----------------------------------------------------------------------------

\* Skip a server at its quota, except on the last attempt.
AskAllow(r, s, last) ==
    /\ call[r].st = "idle"
    /\ Allow(s)
    /\ call' = [call EXCEPT ![r] = [Idle EXCEPT !.srv = s, !.last = last,
                                    !.st = IF Allowed(s) \/ last THEN "allowed" ELSE "blocked"]]
    /\ UNCHANGED now

\* The skipped attempt reads Usage for its log line.
LogUsage(r) ==
    /\ call[r].st = "blocked"
    /\ Usage(call[r].srv)
    /\ call' = [call EXCEPT ![r] = Idle]
    /\ UNCHANGED now

\* An attempt that was allowed and is not sent after all: the backend does
\* not speak the client's dialect, so nothing was reserved.
Refuse(r) ==
    /\ call[r].st = "allowed"
    /\ call' = [call EXCEPT ![r] = Idle]
    /\ UNCHANGED <<now, quotaVars>>

\* Reserve and send.  Reserve answers true for a server without a limit too,
\* so the attempt believes it holds its estimate there as well.
Send(r, estimate) ==
    LET c == call[r] IN
    /\ c.st = "allowed"
    /\ Reserve(c.srv, estimate)
    /\ call' = [call EXCEPT ![r] =
                  IF Admits(c.srv, estimate)
                  THEN [c EXCEPT !.st = "sent", !.budget = estimate, !.held = estimate]
                  ELSE IF c.last THEN [c EXCEPT !.st = "sent", !.budget = estimate]
                  ELSE Idle]
    /\ UNCHANGED now

\* The attempt was served: it counts as one request.
Count(r) ==
    /\ call[r].st = "sent"
    /\ RecordRequest(call[r].srv)
    /\ call' = [call EXCEPT ![r].st = "counted"]
    /\ UNCHANGED now

\* releaseQuota, on every exit path.
Finish(r, actual) ==
    /\ call[r].st \in {"sent", "counted"}
    /\ Complete(call[r].srv, call[r].held, actual)
    /\ call' = [call EXCEPT ![r] = Idle]
    /\ UNCHANGED now

Edit(s, limits) == EditLimits(s, limits[1], limits[2]) /\ UNCHANGED <<now, call>>

Tick == now < MaxTime /\ now' = now + 1 /\ UNCHANGED <<quotaVars, call>>

UseNext ==
    \/ \E r \in Request, s \in Server, last \in BOOLEAN : AskAllow(r, s, last)
    \/ \E r \in Request : LogUsage(r) \/ Refuse(r)
    \/ \E r \in Request, e \in Estimates : Send(r, e)
    \/ \E r \in Request : Count(r)
    \/ \E r \in Request, a \in Reports : Finish(r, a)
    \/ \E s \in Server, limits \in Edits : Edit(s, limits)
    \/ Tick

UseSpec == UseInit /\ [][UseNext]_useVars

=============================================================================
