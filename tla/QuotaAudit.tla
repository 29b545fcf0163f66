----------------------------- MODULE QuotaAudit -----------------------------
(***************************************************************************)
(* The tracker's windows against what was really spent.  The history       *)
(* variables below follow QuotaUse without influencing it: they record     *)
(* each usage, counted request and reservation, and drop a usage when it   *)
(* is a full window old.                                                   *)
(***************************************************************************)
EXTENDS QuotaUse, FiniteSetsExt

CONSTANTS
    MaxPrompt,     \* most tokens a backend reports beyond the budget (the prompt)
    MaxEvents      \* bound on the entries inside a window

ASSUME AuditAssumption == MaxPrompt \in Nat /\ MaxEvents \in Nat /\ IsFiniteSet(Request)

VARIABLES
    spent,         \* spent[s]: usages reported for s in the last window
    served,        \* served[s]: requests counted for s in the last window
    backed,        \* backed[r]: tokens Reserve added for the attempt of r
    forced         \* servers a last attempt was sent to over the limit, or whose
                   \* limits were edited

history == <<spent, served, backed, forced>>
auditVars == <<useVars, history>>

AuditInit ==
    /\ UseInit
    /\ spent = [s \in Server |-> <<>>]
    /\ served = [s \in Server |-> <<>>]
    /\ backed = [r \in Request |-> 0]
    /\ forced = {}

\* Room for one more entry in the windows of s (a bound of the model).
Room(s) ==
    /\ Len(Pruned(tokens[s])) < MaxEvents
    /\ Len(Pruned(requests[s])) < MaxEvents

\* What the backend of r's attempt may report as used: nothing, or up to the
\* declared budget and the prompt.
Actuals(r) ==
    {a \in Reports : /\ a <= MaxPrompt + call[r].budget
                     /\ a = 0 \/ (call[r].srv \in Server /\ Room(call[r].srv))}

\* Entries that are younger than the window once the clock shows t.
Recent(h, t) ==
    [s \in Server |-> FoldLeft(LAMBDA kept, e : IF t - e.at < QuotaWindow THEN Append(kept, e) ELSE kept,
                               <<>>, h[s])]

AuditAllow(r, s, last) ==
    /\ AskAllow(r, s, last)
    /\ forced' = forced \cup {q \in {s} : last /\ ~Allowed(q)}
    /\ UNCHANGED <<spent, served, backed>>

AuditSend(r, e) ==
    /\ Send(r, e)
    /\ backed' = [backed EXCEPT ![r] = reserved'[call[r].srv] - reserved[call[r].srv]]
    /\ forced' = forced \cup {s \in {call[r].srv} : call[r].last /\ ~Admits(s, e)}
    /\ UNCHANGED <<spent, served>>

AuditCount(r) ==
    /\ Count(r) /\ Room(call[r].srv)
    /\ served' = [served EXCEPT ![call[r].srv] = Append(@, [at |-> now])]
    /\ UNCHANGED <<spent, backed, forced>>

AuditFinish(r, a) ==
    /\ Finish(r, a)
    /\ spent' = [spent EXCEPT ![call[r].srv] = IF a > 0 THEN Append(@, [at |-> now, n |-> a])
                                               ELSE @]
    /\ backed' = [backed EXCEPT ![r] = 0]
    /\ UNCHANGED <<served, forced>>

AuditEdit(s, limits) ==
    /\ Edit(s, limits)
    /\ forced' = forced \cup {s}
    /\ UNCHANGED <<spent, served, backed>>

AuditTick ==
    /\ Tick
    /\ spent' = Recent(spent, now + 1)
    /\ served' = Recent(served, now + 1)
    /\ UNCHANGED <<backed, forced>>

AuditNext ==
    \/ \E r \in Request, s \in Server, last \in BOOLEAN : AuditAllow(r, s, last)
    \/ \E r \in Request : (LogUsage(r) \/ Refuse(r)) /\ UNCHANGED history
    \/ \E r \in Request, e \in Estimates : AuditSend(r, e)
    \/ \E r \in Request : AuditCount(r)
    \/ \E r \in Request : \E a \in Actuals(r) : AuditFinish(r, a)
    \/ \E s \in Server, limits \in Edits : AuditEdit(s, limits)
    \/ AuditTick

AuditSpec == AuditInit /\ [][AuditNext]_auditVars

-----------------------------------------------------------------------------

\* Pruning in place never loses an entry that is still inside the window,
\* whichever method did it: the tracker counts at least what was spent and
\* served, so a server over its quota is never taken for one with room.
NeverUndercounts ==
    \A s \in Server : /\ Used(s) >= Total(spent[s])
                      /\ Sent(s) >= Len(served[s])

\* What is reserved on a server is what the attempts out on it reserved: no
\* exit path leaks its reservation, and none gives back another's.
\* (router.go: "a path that forgets it subtracts the request's declared budget
\* from the server's TPM headroom for the rest of the process's life".)
ReservedExact ==
    \A s \in Server :
        reserved[s] = MapThenSumSet(LAMBDA r : IF call[r].srv = s THEN backed[r] ELSE 0, Request)

\* Reserve: "holding it as an in-flight reservation so concurrent requests
\* cannot collectively exceed the server's TPM limit".  Unless a last attempt
\* was sent over the limit on purpose or the limit was edited, what was spent in
\* the window and what is reserved by the attempts out stay within the limit.
\* This needs backends that use no more than the declared budget (MaxPrompt = 0).
TPMProtected ==
    \A s \in Server : tpm[s] > 0 /\ s \notin forced =>
        Total(spent[s]) + reserved[s] <= tpm[s]

\* Usage "returns the current window usage for a server": the tracker counts
\* exactly what was spent and served, and reading it changes nothing.
WindowExact ==
    \A s \in Server : Used(s) = Total(spent[s]) /\ Sent(s) = Len(served[s])

=============================================================================
