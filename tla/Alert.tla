-------------------------------- MODULE Alert --------------------------------
(***************************************************************************)
(* The alert webhook (config/alert.go) and one backend it reports on.  The *)
(* tracker decides on an edge event under its lock and notifies after the  *)
(* unlock, so notices of two goroutines may pass each other; the alerter   *)
(* drops a text it let through less than a window ago.  A reload installs  *)
(* a new alerter, or none (main.go applyRuntimeSettings).                  *)
(***************************************************************************)
EXTENDS Integers

CONSTANTS
    DedupWindow,     \* alertDedupWindow, in ticks
    MaxEdges         \* bound on the edge events

VARIABLES
    down,            \* the backend as the tracker sees it
    pending,         \* notices decided and not yet passed to Notify
    alerting,        \* settings.alerts.webhook is set
    sent,            \* text -> ticks since it was let through, up to the window
    told,            \* the last text that was posted
    unsteady,        \* ghost: the backend flapped, or alerts were off for an edge
    nEdges

alertVars == <<down, pending, alerting, sent, told, unsteady, nEdges>>

Text(isDown) == IF isDown THEN "down" ELSE "back"
Recent(text) == sent[text] < DedupWindow

AlertTypeOK ==
    /\ {down, alerting, unsteady} \subseteq BOOLEAN
    /\ pending \subseteq {"down", "back"} /\ told \in {"down", "back"}
    /\ sent \in [{"down", "back"} -> 0 .. DedupWindow]

AlertInit ==
    /\ down = FALSE /\ pending = {} /\ alerting \in BOOLEAN
    /\ sent = [x \in {"down", "back"} |-> DedupWindow]
    /\ told = "back" /\ unsteady = FALSE /\ nEdges = 0

\* The tracker flips the backend and owes the operator a notice.
EdgeEvent ==
    /\ nEdges < MaxEdges /\ nEdges' = nEdges + 1
    /\ down' = ~down
    /\ pending' = pending \cup {Text(~down)}
    /\ unsteady' = (unsteady \/ pending # {} \/ Recent(Text(~down)))
    /\ UNCHANGED <<alerting, sent, told>>

\* Mutant of Notify: the window is kept per backend, not per text.
Notify_PerBackend(text) ==
    /\ text \in pending /\ pending' = pending \ {text}
    /\ IF alerting /\ \A x \in {"down", "back"} : ~Recent(x)
       THEN sent' = [sent EXCEPT ![text] = 0] /\ told' = text ELSE UNCHANGED <<sent, told>>
    /\ unsteady' = (unsteady \/ ~alerting)
    /\ UNCHANGED <<down, alerting, nEdges>>

\* Notify: decides and records in one critical section; the post follows in a
\* goroutine that nobody waits for.
Notify(text) ==
    /\ text \in pending /\ pending' = pending \ {text}
    /\ IF alerting /\ ~Recent(text)
       THEN sent' = [sent EXCEPT ![text] = 0] /\ told' = text ELSE UNCHANGED <<sent, told>>
    /\ unsteady' = (unsteady \/ ~alerting)
    /\ UNCHANGED <<down, alerting, nEdges>>

\* SetAlerter(NewWebhookAlerter(settings)): a new alerter has sent nothing.
SetAlerter(on) ==
    /\ alerting' = on /\ sent' = [x \in {"down", "back"} |-> DedupWindow]
    /\ UNCHANGED <<down, pending, told, unsteady, nEdges>>

AlertTick ==
    /\ sent' = [x \in {"down", "back"} |-> IF sent[x] < DedupWindow THEN sent[x] + 1 ELSE sent[x]]
    /\ UNCHANGED <<down, pending, alerting, told, unsteady, nEdges>>

\* The dedup window, meant for one event repeated per request, never hides a
\* change: while the backend does not repeat a transition within a window, and
\* each notice is out before the next edge, the last notice posted is the truth.
AlertsTellTheState == ~unsteady /\ pending = {} => told = Text(down)

=============================================================================
