---------------------------- MODULE RouterProofs ----------------------------
(***************************************************************************)
(* What the attempt walk promises about its in-flight counts, its outcome, *)
(* the servers it marks down and the quota tracker it uses, for every      *)
(* number of requests, every chain, every retry budget and every reply of  *)
(* the backends.                                                           *)
(***************************************************************************)
EXTENDS Router, FiniteSetTheorems, TLAPS

\* A handler's local state is well-formed: it stands on an attempt of its
\* chain, and it backs off only when it has a retry left.
Placed(q) ==
    /\ q \in Handler
    /\ q.pc # "idle" => q.chain # <<>> /\ q.i \in 1 .. Len(q.chain)
    /\ q.retry <= NumRetries
    /\ q.pc = "backoff" => q.retry < NumRetries

\* The step from p to q neither takes nor gives back an in-flight slot.
SameSlot(p, q) ==
    /\ p.pc \in Sending <=> q.pc \in Sending
    /\ p.pc \in Sending => q.chain = p.chain /\ q.i = p.i

\* The handler of r moved on to q, and the in-flight counts stayed.
MovesTo(r, q) ==
    /\ Placed(q) /\ SameSlot(req[r], q)
    /\ req' = [req EXCEPT ![r] = q]
    /\ UNCHANGED <<inflight, now, gone>>

\* The inductive invariant.  TypeOK alone does not bound the retries: Retry
\* needs that a handler backs off only below its budget.
RouterInv ==
    /\ TypeOK
    /\ \A r \in Request : Placed(req[r])
    /\ InflightExact

-----------------------------------------------------------------------------

\* Jumping to a control point other than the backoff keeps a handler placed.
LEMMA GotoPlaced ==
    ASSUME NEW p, Placed(p), p.pc # "idle", NEW pc \in PCs, pc # "backoff"
    PROVE  Placed([p EXCEPT !.pc = pc])
BY DEF Placed, Handler

\* Going on with the chain keeps a handler placed and outside the sending
\* part of the walk (SkipAttempt and the end of CompleteQuota).
LEMMA FollowingPlaced ==
    ASSUME NEW p, Placed(p), p.pc # "idle"
    PROVE  Placed(Following(p)) /\ Following(p).pc \in {"health", "conclude"}
<1>1. p \in Handler /\ p.chain # <<>> /\ p.i \in 1 .. Len(p.chain) /\ p.retry <= NumRetries
  BY DEF Placed
<1>2. Len(p.chain) \in Nat
  BY <1>1, RouterAssumption DEF Handler
<1>3. CASE p.i < Len(p.chain)
  <2>1. Following(p) = [p EXCEPT !.i = p.i + 1, !.pc = "health"]
    BY <1>3 DEF Following
  <2> DEFINE q == [p EXCEPT !.i = p.i + 1, !.pc = "health"]
  <2>2. q.i = p.i + 1 /\ q.pc = "health" /\ q.chain = p.chain /\ q.retry = p.retry
    BY <1>1 DEF Handler
  <2>3. p.i + 1 \in Nat /\ p.i + 1 \in 1 .. Len(p.chain)
    BY <1>1, <1>2, <1>3
  <2>4. q \in Handler
    BY <1>1, <2>3 DEF Handler, PCs, Gates
  <2> HIDE DEF q
  <2>5. Placed(q)
    BY <1>1, <2>2, <2>3, <2>4 DEF Placed
  <2> QED BY <2>1, <2>2, <2>5 DEF q
<1>4. CASE ~(p.i < Len(p.chain))
  <2>1. Following(p) = [p EXCEPT !.pc = "conclude"]
    BY <1>4 DEF Following
  <2> QED BY <1>1, <2>1 DEF Placed, Handler, PCs
<1> QED BY <1>3, <1>4

\* A step that keeps every slot keeps the invariant.
LEMMA MoveInv ==
    ASSUME RouterInv, NEW r \in Request, NEW q, MovesTo(r, q)
    PROVE  RouterInv'
<1>1. /\ req' \in [Request -> Handler]
      /\ \A x \in Request : req'[x] = IF x = r THEN q ELSE req[x]
  BY DEF RouterInv, TypeOK, MovesTo, Placed
<1>2. \A x \in Request : Placed(req'[x])
  BY <1>1 DEF RouterInv, MovesTo
<1>3. TypeOK'
  BY <1>1, <1>2 DEF RouterInv, TypeOK, MovesTo, Placed
<1>4. \A s \in Server : Holders(s)' = Holders(s)
  BY <1>1 DEF Holders, Srv, MovesTo, SameSlot
<1>5. InflightExact'
  BY <1>4 DEF RouterInv, InflightExact, MovesTo
<1> QED BY <1>2, <1>3, <1>5 DEF RouterInv, Placed

-----------------------------------------------------------------------------

\* No request is being served when the router starts.
LEMMA InitInv == Init => RouterInv
<1> SUFFICES ASSUME Init PROVE RouterInv
  OBVIOUS
<1>1. Fresh \in Handler
  BY DEF Fresh, Handler, PCs, Outcomes
<1>2. \A r \in Request : Placed(req[r]) /\ req[r].pc = "idle"
  BY <1>1, RouterAssumption DEF Init, Fresh, Placed
<1>3. TypeOK
  BY <1>1, <1>2 DEF Init, TypeOK, Placed
<1>4. \A s \in Server : Holders(s) = {}
  BY <1>2 DEF Holders, Sending
<1>5. InflightExact
  BY <1>4, FS_EmptySet DEF Init, InflightExact
<1> QED BY <1>2, <1>3, <1>5 DEF RouterInv

\* The gates, the plan and the reservation: the handler stays outside the
\* sending part of the walk.
LEMMA GateInv ==
    ASSUME RouterInv, NEW r \in Request,
           \/ GateHealth(r) \/ GateCooldown(r) \/ GateCap(r) \/ GateQuota(r)
           \/ LogUsage(r) \/ Plan(r) \/ ReserveBudget(r) \/ Conclude(r)
    PROVE  RouterInv'
<1> DEFINE p == req[r]
<1>1. Placed(p) /\ p \in Handler /\ req \in [Request -> Handler]
  BY DEF RouterInv, TypeOK
<1>2. SUFFICES \E q : MovesTo(r, q)
  BY MoveInv
<1>3. ASSUME SkipAttempt(r), p.pc \in Gates, UNCHANGED <<inflight, now, gone>>
      PROVE  \E q : MovesTo(r, q)
  <2>1. req' = [req EXCEPT ![r] = Following(p)]
    BY <1>3, <1>1 DEF SkipAttempt
  <2>2. MovesTo(r, Following(p))
    BY <1>1, <1>3, <2>1, FollowingPlaced DEF MovesTo, SameSlot, Gates, Sending
  <2> QED BY <2>2
<1>4. ASSUME NEW pc \in Gates, Goto(r, pc), p.pc \in Gates, UNCHANGED <<inflight, now, gone>>
      PROVE  \E q : MovesTo(r, q)
  <2>1. req' = [req EXCEPT ![r] = [p EXCEPT !.pc = pc]]
    BY <1>4, <1>1 DEF Goto
  <2>2. MovesTo(r, [p EXCEPT !.pc = pc])
    BY <1>1, <1>4, <2>1, GotoPlaced DEF MovesTo, SameSlot, PCs, Gates, Sending, Handler
  <2> QED BY <2>2
<1>5. CASE GateHealth(r)
  BY <1>3, <1>4, <1>5 DEF GateHealth, Gates
<1>6. CASE GateCooldown(r)
  BY <1>3, <1>4, <1>6 DEF GateCooldown, Gates
<1>7. CASE GateCap(r)
  BY <1>3, <1>4, <1>7 DEF GateCap, Gates
<1>8. CASE GateQuota(r)
  BY <1>4, <1>8 DEF GateQuota, Gates
<1>9. CASE LogUsage(r)
  BY <1>3, <1>9 DEF LogUsage, Gates
<1>10. CASE Plan(r)
  <2> DEFINE planned == IF Srv(r) \in Refusing THEN p ELSE [p EXCEPT !.meta = p.i]
  <2>1. p.pc = "plan" /\ UNCHANGED <<inflight, now, gone>>
    BY <1>10 DEF Plan
  <2>2. Placed(planned) /\ planned.pc = "plan"
    BY <1>1, <2>1 DEF Placed, Handler
  <2> HIDE DEF planned
  <2>3. \E q : /\ req' = [req EXCEPT ![r] = q]
               /\ \/ q = Following(planned)
                  \/ q = [planned EXCEPT !.pc = "conclude", !.refusal = TRUE]
                  \/ q = [planned EXCEPT !.pc = "done", !.out = "rewrite"]
                  \/ q = [planned EXCEPT !.pc = "reserve"]
    <3> DEFINE refuses == Srv(r) \in Refusing \/ Srv(r) \in Unconvertible \ BadBody
    <3>1. CASE refuses /\ ~Last(r)
      BY <1>10, <3>1 DEF Plan, planned
    <3>2. CASE refuses /\ Last(r)
      BY <1>10, <3>2 DEF Plan, planned
    <3>3. CASE ~refuses /\ Srv(r) \in BadBody
      BY <1>10, <3>3 DEF Plan, planned
    <3>4. CASE ~refuses /\ Srv(r) \notin BadBody
      BY <1>10, <3>4 DEF Plan, planned
    <3> QED BY <3>1, <3>2, <3>3, <3>4
  <2>4. PICK q : /\ req' = [req EXCEPT ![r] = q]
                 /\ \/ q = Following(planned)
                    \/ q = [planned EXCEPT !.pc = "conclude", !.refusal = TRUE]
                    \/ q = [planned EXCEPT !.pc = "done", !.out = "rewrite"]
                    \/ q = [planned EXCEPT !.pc = "reserve"]
    BY <2>3
  <2>5. Placed(q) /\ q.pc \notin Sending
    <3>1. CASE q = Following(planned)
      BY <2>2, <3>1, FollowingPlaced DEF Sending
    <3>2. CASE q = [planned EXCEPT !.pc = "conclude", !.refusal = TRUE]
      BY <2>2, <3>2 DEF Placed, Handler, PCs, Sending
    <3>3. CASE q = [planned EXCEPT !.pc = "done", !.out = "rewrite"]
      BY <2>2, <3>3 DEF Placed, Handler, PCs, Sending, Outcomes
    <3>4. CASE q = [planned EXCEPT !.pc = "reserve"]
      BY <2>2, <3>4 DEF Placed, Handler, PCs, Gates, Sending
    <3> QED BY <2>4, <3>1, <3>2, <3>3, <3>4
  <2>6. MovesTo(r, q)
    BY <2>1, <2>4, <2>5 DEF MovesTo, SameSlot, Sending
  <2> QED BY <2>6
<1>11. CASE ReserveBudget(r)
  <2>1. p.pc = "reserve" /\ UNCHANGED <<inflight, now, gone>>
    BY <1>11 DEF ReserveBudget
  <2>2. CASE SkipAttempt(r)
    BY <1>3, <2>1, <2>2 DEF Gates
  <2>3. CASE \E n \in {p.est, 0} : req' = [req EXCEPT ![r].pc = "slot", ![r].held = n]
    <3>1. PICK n \in {p.est, 0} : req' = [req EXCEPT ![r].pc = "slot", ![r].held = n]
      BY <2>3
    <3>2. n \in Nat
      <4>1. p.est \in Estimates \cup {0}
        BY <1>1 DEF Handler
      <4> QED BY <3>1, <4>1, RouterAssumption
    <3>3. req' = [req EXCEPT ![r] = [p EXCEPT !.pc = "slot", !.held = n]]
      BY <1>1, <3>1
    <3>4. Placed([p EXCEPT !.pc = "slot", !.held = n])
      BY <1>1, <2>1, <3>2 DEF Placed, Handler, PCs, Gates
    <3>5. MovesTo(r, [p EXCEPT !.pc = "slot", !.held = n])
      BY <1>1, <2>1, <3>3, <3>4 DEF MovesTo, SameSlot, Sending, Handler
    <3> QED BY <3>5
  <2> QED BY <1>11, <2>2, <2>3 DEF ReserveBudget
<1>12. CASE Conclude(r)
  <2>1. p.pc = "conclude" /\ UNCHANGED <<inflight, now, gone>>
    BY <1>12 DEF Conclude
  <2> DEFINE m == IF p.refusal THEN 0 ELSE p.meta
             out == IF p.refusal THEN "refused"
                    ELSE IF p.answer > 0 THEN "answer" ELSE "badgateway"
  <2>2. req' = [req EXCEPT ![r].pc = "done", ![r].meta = m, ![r].out = out]
    BY <1>1, <1>12 DEF Conclude
  <2>3. m \in Nat /\ out \in Outcomes
    BY <1>1 DEF Handler, Outcomes
  <2> HIDE DEF m, out
  <2>4. req' = [req EXCEPT ![r] = [p EXCEPT !.pc = "done", !.meta = m, !.out = out]]
    BY <1>1, <2>2
  <2>5. Placed([p EXCEPT !.pc = "done", !.meta = m, !.out = out])
    BY <1>1, <2>1, <2>3 DEF Placed, Handler, PCs
  <2>6. MovesTo(r, [p EXCEPT !.pc = "done", !.meta = m, !.out = out])
    BY <1>1, <2>1, <2>4, <2>5 DEF MovesTo, SameSlot, Sending, Handler
  <2> QED BY <2>6
<1> QED BY <1>5, <1>6, <1>7, <1>8, <1>9, <1>10, <1>11, <1>12


\* A request arrives: its handler starts at the first attempt of its chain.
LEMMA ArriveInv ==
    ASSUME RouterInv, NEW r \in Request, NEW c \in Chains, NEW e \in Estimates,
           Arrive(r, c, e)
    PROVE  RouterInv'
<1> DEFINE q == [Fresh EXCEPT !.pc = "health", !.chain = c, !.i = 1, !.est = e]
<1>1. c # <<>> /\ 1 \in 1 .. Len(c) /\ e \in Nat
  BY RouterAssumption
<1>2. Fresh \in Handler
  BY DEF Fresh, Handler, PCs, Outcomes
<1>3. q \in Handler
  BY <1>1, <1>2 DEF Handler, PCs, Gates
<1>4. q.pc = "health" /\ q.chain = c /\ q.i = 1 /\ q.retry = 0
  BY DEF Fresh
<1>5. req' = [req EXCEPT ![r] = q] /\ UNCHANGED <<inflight, now, gone>> /\ req[r].pc = "idle"
  BY DEF Arrive
<1> HIDE DEF q
<1>6. Placed(q)
  BY <1>1, <1>3, <1>4, RouterAssumption DEF Placed
<1>7. MovesTo(r, q)
  BY <1>4, <1>5, <1>6 DEF MovesTo, SameSlot, Sending
<1> QED BY <1>7, MoveInv

\* Everything between taking the slot and giving it back: the handler stays on
\* its attempt.
LEMMA SendingInv ==
    ASSUME RouterInv, NEW r \in Request,
           \/ \E reply \in Replies : ProxyReturns(r, reply)
           \/ ClientGone(r) \/ Retry(r)
           \/ OkHealth(r) \/ OkCount(r) \/ MidHealth(r) \/ FailHealth(r)
           \/ \E hint \in Hints : OkLimit(r, hint) \/ MidLimit(r, hint) \/ FailLimit(r, hint)
    PROVE  RouterInv'
<1> DEFINE p == req[r]
<1>1. Placed(p) /\ p \in Handler /\ req \in [Request -> Handler]
  BY DEF RouterInv, TypeOK
<1>2. SUFFICES \E q : MovesTo(r, q)
  BY MoveInv
<1>3. ASSUME NEW pc \in Sending \ {"backoff"}, Goto(r, pc), p.pc \in Sending,
             UNCHANGED <<inflight, now, gone>>
      PROVE  \E q : MovesTo(r, q)
  <2>1. req' = [req EXCEPT ![r] = [p EXCEPT !.pc = pc]]
    BY <1>1, <1>3 DEF Goto
  <2>2. MovesTo(r, [p EXCEPT !.pc = pc])
    BY <1>1, <1>3, <2>1, GotoPlaced DEF MovesTo, SameSlot, PCs, Sending, Handler
  <2> QED BY <2>2
<1>4. ASSUME NEW then \in {"next", "done"}, NEW out \in Outcomes, p.pc \in Sending,
             req' = [req EXCEPT ![r] = [p EXCEPT !.pc = "release", !.then = then, !.out = out]],
             UNCHANGED <<inflight, now, gone>>
      PROVE  \E q : MovesTo(r, q)
  <2> DEFINE q == [p EXCEPT !.pc = "release", !.then = then, !.out = out]
  <2>1. Placed(q)
    BY <1>1, <1>4, ZenonT(60) DEF Placed, Handler, PCs, Sending
  <2>2. MovesTo(r, q)
    BY <1>1, <1>4, <2>1 DEF MovesTo, SameSlot, Sending, Handler
  <2> QED BY <2>2
<1>5. ASSUME NEW reply \in Replies, ProxyReturns(r, reply)
      PROVE  \E q : MovesTo(r, q)
  <2> DEFINE next == CASE reply.kind = "ok" -> "okHealth"
                       [] reply.kind = "mid" -> "midHealth"
                       [] OTHER -> IF p.retry < Budget(reply) THEN "backoff" ELSE "failHealth"
             err == p.err \/ reply.kind \in {"reset", "refused", "buffered"}
             broke == IF reply.kind \in {"mid", "reset", "refused"}
                      THEN p.broke \cup {p.i} ELSE p.broke
             answer == IF reply.kind = "buffered" THEN p.i ELSE p.answer
             q == [p EXCEPT !.pc = next, !.reply = reply, !.err = err,
                            !.broke = broke, !.answer = answer]
  <2>1. p.pc = "proxy" /\ UNCHANGED <<inflight, now, gone>>
    BY <1>5 DEF ProxyReturns
  <2>2. req' = [req EXCEPT ![r] = q]
    BY <1>1, <1>5, ZenonT(60) DEF ProxyReturns
  <2>3. Budget(reply) \in Nat /\ Budget(reply) <= NumRetries
    BY RouterAssumption DEF Budget
  <2>4. /\ next \in Sending
        /\ next = "backoff" => p.retry < NumRetries
    BY <1>1, <2>3, RouterAssumption DEF Sending, Handler
  <2>5. err \in BOOLEAN /\ broke \in SUBSET Nat /\ answer \in Nat
    BY <1>1 DEF Handler
  <2> HIDE DEF next, err, broke, answer
  <2>6. q \in Handler
    BY <1>1, <2>4, <2>5 DEF Handler, PCs
  <2>7. q.pc = next /\ q.chain = p.chain /\ q.i = p.i /\ q.retry = p.retry
    BY <1>1 DEF Handler
  <2> HIDE DEF q
  <2>8. Placed(q)
    BY <1>1, <2>1, <2>4, <2>6, <2>7 DEF Placed
  <2>9. MovesTo(r, q)
    BY <2>1, <2>2, <2>4, <2>7, <2>8 DEF MovesTo, SameSlot, Sending
  <2> QED BY <2>9
<1>6. CASE ClientGone(r)
  <2>1. /\ p.pc \in Sending /\ UNCHANGED <<inflight, now, gone>>
        /\ req' = [req EXCEPT ![r] = [p EXCEPT !.pc = "release", !.then = "done", !.out = "gone"]]
    BY <1>1, <1>6 DEF ClientGone, Sending
  <2> QED BY <1>4, <2>1 DEF Outcomes
<1>7. CASE Retry(r)
  <2> DEFINE q == [p EXCEPT !.pc = "proxy", !.retry = p.retry + 1]
  <2>1. p.pc = "backoff" /\ UNCHANGED <<inflight, now, gone>>
    BY <1>7 DEF Retry
  <2>2. req' = [req EXCEPT ![r] = q]
    BY <1>1, <1>7 DEF Retry
  <2>3. p.retry + 1 \in Nat /\ p.retry + 1 <= NumRetries
    BY <1>1, <2>1, RouterAssumption DEF Placed, Handler
  <2>4. q \in Handler
    BY <1>1, <2>3 DEF Handler, PCs, Sending
  <2>5. q.pc = "proxy" /\ q.chain = p.chain /\ q.i = p.i /\ q.retry = p.retry + 1
    BY <1>1 DEF Handler
  <2> HIDE DEF q
  <2>6. Placed(q)
    BY <1>1, <2>1, <2>3, <2>4, <2>5 DEF Placed
  <2>7. MovesTo(r, q)
    BY <2>1, <2>2, <2>5, <2>6 DEF MovesTo, SameSlot, Sending
  <2> QED BY <2>7
<1>8. CASE OkHealth(r)
  BY <1>3, <1>8 DEF OkHealth, Sending
<1>9. CASE OkCount(r)
  <2>1. /\ p.pc \in Sending /\ UNCHANGED <<inflight, now, gone>>
        /\ req' = [req EXCEPT ![r] = [p EXCEPT !.pc = "release", !.then = "done", !.out = "served"]]
    BY <1>1, <1>9 DEF OkCount, Sending
  <2> QED BY <1>4, <2>1 DEF Outcomes
<1>10. CASE MidHealth(r)
  BY <1>3, <1>10 DEF MidHealth, Sending
<1>11. CASE FailHealth(r)
  BY <1>3, <1>11 DEF FailHealth, Sending
<1>12. ASSUME NEW hint \in Hints, OkLimit(r, hint)
       PROVE  \E q : MovesTo(r, q)
  BY <1>3, <1>12 DEF OkLimit, Sending
<1>13. ASSUME NEW hint \in Hints, MidLimit(r, hint)
       PROVE  \E q : MovesTo(r, q)
  <2>1. /\ p.pc \in Sending /\ UNCHANGED <<inflight, now, gone>>
        /\ req' = [req EXCEPT ![r] = [p EXCEPT !.pc = "release", !.then = "done", !.out = "midstream"]]
    BY <1>1, <1>13 DEF MidLimit, Sending
  <2> QED BY <1>4, <2>1 DEF Outcomes
<1>14. ASSUME NEW hint \in Hints, FailLimit(r, hint)
       PROVE  \E q : MovesTo(r, q)
  <2>1. /\ p.pc \in Sending /\ UNCHANGED <<inflight, now, gone>>
        /\ req' = [req EXCEPT ![r] = [p EXCEPT !.pc = "release", !.then = "next", !.out = p.out]]
    BY <1>1, <1>14 DEF FailLimit, Sending, Handler
  <2>2. p.out \in Outcomes
    BY <1>1 DEF Handler
  <2> QED BY <1>4, <2>1, <2>2
<1> QED BY <1>5, <1>6, <1>7, <1>8, <1>9, <1>10, <1>11, <1>12, <1>13, <1>14

\* The end of an attempt, after its slot went back.
LEMMA CompleteInv ==
    ASSUME RouterInv, NEW r \in Request, NEW used \in Usages, CompleteQuota(r, used)
    PROVE  RouterInv'
<1> DEFINE p == [req[r] EXCEPT !.held = 0]
           q == IF p.then = "done" THEN [p EXCEPT !.pc = "done"] ELSE Following(p)
<1>1. req[r] \in Handler /\ Placed(req[r]) /\ req[r].pc = "complete"
  BY DEF RouterInv, TypeOK, CompleteQuota
<1>2. Placed(p) /\ p.pc = "complete"
  BY <1>1 DEF Placed, Handler
<1>3. req' = [req EXCEPT ![r] = q] /\ UNCHANGED <<inflight, now, gone>>
  BY DEF CompleteQuota, RouterInv, TypeOK
<1> HIDE DEF p
<1>4. Placed(q) /\ q.pc \notin Sending
  <2>1. CASE p.then = "done"
    BY <1>2, <2>1 DEF Placed, Handler, PCs, Sending
  <2>2. CASE p.then # "done"
    BY <1>2, <2>2, FollowingPlaced DEF Sending
  <2> QED BY <2>1, <2>2
<1> HIDE DEF q
<1>5. MovesTo(r, q)
  BY <1>1, <1>3, <1>4 DEF MovesTo, SameSlot, Sending
<1> QED BY <1>5, MoveInv

\* countInflight(+1): the handler becomes a holder of its server, and of no
\* other.
LEMMA TakeSlotInv ==
    ASSUME RouterInv, NEW r \in Request, TakeSlot(r)
    PROVE  RouterInv'
<1> DEFINE p == req[r]
           q == [p EXCEPT !.pc = "proxy", !.retry = 0, !.tried = p.tried \cup {p.i}]
           srv == p.chain[p.i]
<1>1. p \in Handler /\ Placed(p) /\ p.pc = "slot" /\ req \in [Request -> Handler]
  BY DEF RouterInv, TypeOK, TakeSlot
<1>2. req' = [req EXCEPT ![r] = q] /\ UNCHANGED <<now, gone>>
  BY <1>1 DEF TakeSlot
<1>3. inflight' = [inflight EXCEPT ![srv] = inflight[srv] + 1]
  BY DEF TakeSlot, Srv
<1>4. q \in Handler
  BY <1>1 DEF Handler, PCs, Sending
<1>5. q.pc = "proxy" /\ q.chain = p.chain /\ q.i = p.i /\ q.retry = 0
  BY <1>1 DEF Handler
<1> HIDE DEF q
<1>6. Placed(q)
  BY <1>1, <1>4, <1>5, RouterAssumption DEF Placed
<1>7. srv \in Server
  BY <1>1, RouterAssumption DEF Placed, Handler
<1>8. \A x \in Request : req'[x] = IF x = r THEN q ELSE req[x]
  BY <1>1, <1>2
<1>9. \A x \in Request : Placed(req'[x])
  BY <1>6, <1>8 DEF RouterInv
<1>10. TypeOK'
  <2>1. inflight' \in [Server -> Int]
    BY <1>3, <1>7 DEF RouterInv, TypeOK
  <2>2. req' \in [Request -> Handler]
    BY <1>1, <1>2, <1>4
  <2> QED BY <1>2, <1>9, <2>1, <2>2 DEF RouterInv, TypeOK, Placed
<1>11. InflightExact'
  <2> SUFFICES ASSUME NEW s \in Server PROVE inflight'[s] = Cardinality(Holders(s)')
    BY DEF InflightExact
  <2>1. inflight[s] = Cardinality(Holders(s)) /\ inflight \in [Server -> Int]
    BY DEF RouterInv, InflightExact, TypeOK
  <2>2. CASE s = srv
    <3>1. Holders(s)' = Holders(s) \cup {r}
      BY <1>5, <1>8, <2>2 DEF Holders, Srv, Sending
    <3>2. r \notin Holders(s)
      BY <1>1 DEF Holders, Sending
    <3>3. IsFiniteSet(Holders(s))
      BY RouterAssumption, FS_Subset DEF Holders
    <3>4. Cardinality(Holders(s) \cup {r}) = Cardinality(Holders(s)) + 1
      BY <3>2, <3>3, FS_AddElement
    <3> QED BY <1>3, <2>1, <2>2, <3>1, <3>4
  <2>3. CASE s # srv
    <3>1. Holders(s)' = Holders(s)
      BY <1>1, <1>5, <1>8, <2>3 DEF Holders, Srv, Sending
    <3> QED BY <1>3, <2>1, <2>3, <3>1
  <2> QED BY <2>2, <2>3
<1> QED BY <1>9, <1>10, <1>11 DEF RouterInv, Placed

\* countInflight(-1): the handler stops being a holder of its server.
LEMMA ReleaseInv ==
    ASSUME RouterInv, NEW r \in Request, Release(r)
    PROVE  RouterInv'
<1> DEFINE p == req[r]
           q == [p EXCEPT !.pc = "complete", !.reply = NoReply, !.retry = 0]
           srv == p.chain[p.i]
<1>1. p \in Handler /\ Placed(p) /\ p.pc = "release" /\ req \in [Request -> Handler]
  BY DEF RouterInv, TypeOK, Release
<1>2. req' = [req EXCEPT ![r] = q] /\ UNCHANGED <<now, gone>>
  BY <1>1 DEF Release
<1>3. inflight' = [inflight EXCEPT ![srv] = inflight[srv] - 1]
  BY DEF Release, Srv
<1>4. q \in Handler
  BY <1>1 DEF Handler, PCs
<1>5. q.pc = "complete" /\ q.chain = p.chain /\ q.i = p.i /\ q.retry = 0
  BY <1>1 DEF Handler
<1> HIDE DEF q
<1>6. Placed(q)
  BY <1>1, <1>4, <1>5, RouterAssumption DEF Placed
<1>7. srv \in Server
  BY <1>1, RouterAssumption DEF Placed, Handler
<1>8. \A x \in Request : req'[x] = IF x = r THEN q ELSE req[x]
  BY <1>1, <1>2
<1>9. \A x \in Request : Placed(req'[x])
  BY <1>6, <1>8 DEF RouterInv
<1>10. TypeOK'
  <2>1. inflight' \in [Server -> Int]
    BY <1>3, <1>7 DEF RouterInv, TypeOK
  <2>2. req' \in [Request -> Handler]
    BY <1>1, <1>2, <1>4
  <2> QED BY <1>2, <1>9, <2>1, <2>2 DEF RouterInv, TypeOK, Placed
<1>11. InflightExact'
  <2> SUFFICES ASSUME NEW s \in Server PROVE inflight'[s] = Cardinality(Holders(s)')
    BY DEF InflightExact
  <2>1. inflight[s] = Cardinality(Holders(s)) /\ inflight \in [Server -> Int]
    BY DEF RouterInv, InflightExact, TypeOK
  <2>2. CASE s = srv
    <3>1. Holders(s)' = Holders(s) \ {r}
      BY <1>5, <1>8, <2>2 DEF Holders, Srv, Sending
    <3>2. r \in Holders(s)
      BY <1>1, <2>2 DEF Holders, Srv, Sending
    <3>3. IsFiniteSet(Holders(s))
      BY RouterAssumption, FS_Subset DEF Holders
    <3>4. Cardinality(Holders(s) \ {r}) = Cardinality(Holders(s)) - 1
      BY <3>2, <3>3, FS_RemoveElement
    <3> QED BY <1>3, <2>1, <2>2, <3>1, <3>4
  <2>3. CASE s # srv
    <3>1. Holders(s)' = Holders(s)
      BY <1>1, <1>5, <1>8, <2>3 DEF Holders, Srv, Sending
    <3> QED BY <1>3, <2>1, <2>3, <3>1
  <2> QED BY <2>2, <2>3
<1> QED BY <1>9, <1>10, <1>11 DEF RouterInv, Placed

\* Steps of the client, the health checker and the clock.
LEMMA EnvironmentInv ==
    ASSUME RouterInv,
           \/ \E r \in Request : ClientLeaves(r)
           \/ \E s \in Server : ProbeBack(s)
           \/ Tick
           \/ UNCHANGED vars
    PROVE  RouterInv'
<1>1. UNCHANGED <<inflight, req>>
  BY DEF ClientLeaves, ProbeBack, Tick, vars
<1>2. now' \in Nat /\ gone' \subseteq Request
  BY DEF RouterInv, TypeOK, ClientLeaves, ProbeBack, Tick, vars
<1>3. TypeOK'
  BY <1>1, <1>2 DEF RouterInv, TypeOK
<1>4. InflightExact'
  BY <1>1 DEF RouterInv, InflightExact, Holders, Srv
<1>5. \A r \in Request : Placed(req'[r])
  BY <1>1 DEF RouterInv
<1> QED BY <1>3, <1>4, <1>5 DEF RouterInv, Placed

\* Every step of the router keeps the invariant.
LEMMA StepInv == RouterInv /\ [Next]_vars => RouterInv'
<1> SUFFICES ASSUME RouterInv, [Next]_vars PROVE RouterInv'
  OBVIOUS
<1>1. CASE \E r \in Request, c \in Chains, e \in Estimates : Arrive(r, c, e)
  BY <1>1, ArriveInv
<1>2. ASSUME NEW r \in Request, Handle(r) PROVE RouterInv'
  BY <1>2, GateInv, SendingInv, CompleteInv, TakeSlotInv, ReleaseInv DEF Handle
<1>3. CASE \/ \E r \in Request : ClientLeaves(r)
           \/ \E s \in Server : ProbeBack(s)
           \/ Tick
           \/ UNCHANGED vars
  BY <1>3, EnvironmentInv
<1> QED BY <1>1, <1>2, <1>3 DEF Next

\* The inductive invariant holds in every reachable state of the walk: no step
\* of Handle, of a client or of the checker leaves it.
THEOREM RouterInvariant == Spec => []RouterInv
BY InitInv, StepInv, PTL DEF Spec

\* Every handler stands on an attempt of its chain, at a control point of
\* Handle, and never retries beyond its budget.
THEOREM TypeCorrect == Spec => []TypeOK
BY RouterInvariant, PTL DEF RouterInv

\* The in-flight count that least-connections and max_parallel_requests read
\* is the number of attempts out on the server: releaseQuota gives every slot
\* back once, on every exit path, for any number of concurrent requests.
THEOREM InflightCounted == Spec => []InflightExact
BY RouterInvariant, PTL DEF RouterInv

-----------------------------------------------------------------------------
(* The outcome of the walk, and the servers it marks down: both follow     *)
(* from one invariant of a handler's local state, Walked, that no step of  *)
(* any handler leaves.                                                     *)

\* The attempts out now, and the attempt whose teardown is still to come, were
\* sent; only a failed one goes on to the next, and the end of the chain is
\* reached by a refusal or after the last attempt was sent and failed.
WalkedOn(q) ==
    /\ q.pc \in Sending \cup {"complete"} => q.i \in q.tried
    /\ q.pc \in {"failHealth", "failLimit"} => q.err
    /\ q.pc \in {"release", "complete"} /\ q.then = "next" => q.err
    /\ q.pc = "usage" => q.i # Len(q.chain)
    /\ q.pc = "conclude" => q.refusal \/ (Len(q.chain) \in q.tried /\ q.err)

\* An outcome is set only on the way out, a held-back answer or a 502 only at
\* the end of a chain whose last attempt was sent.
Ended(q) ==
    /\ q.pc \notin {"release", "complete", "done"} => q.out = "none"
    /\ q.pc \in {"release", "complete"} => q.out \notin {"answer", "badgateway"}
    /\ q.pc \in {"release", "complete"} /\ q.then = "next" => q.out = "none"
    /\ q.out \in {"answer", "badgateway"} => Len(q.chain) \in q.tried
    /\ q.out = "badgateway" => q.err /\ q.answer = 0

\* A handler about to mark its server down was broken off by that server.
Caused(q) ==
    /\ q.pc = "idle" => q.broke = {}
    /\ q.pc = "midHealth" => q.i \in q.broke
    /\ q.pc = "failHealth" /\ q.reply.kind # "buffered" => q.i \in q.broke

Walked(q) == WalkedOn(q) /\ Ended(q) /\ Caused(q)

\* The inductive invariant of both theorems.
WalkInv ==
    /\ RouterInv
    /\ \A r \in Request : Walked(req[r])
    /\ status \in [Server -> {"up", "down", "unknown"}]
    /\ DownForCause

\* The handler of r moved on to q, and forgot nothing that broke.
WalksTo(r, q) ==
    /\ req' = [req EXCEPT ![r] = q]
    /\ Walked(q)
    /\ q.chain = req[r].chain \/ req[r].broke = {}
    /\ req[r].broke \subseteq q.broke

-----------------------------------------------------------------------------

\* Jumping from one gate to another, or within the bookkeeping, changes the
\* control point and nothing else.
LEMMA JumpFields ==
    ASSUME NEW p \in Handler, NEW pc
    PROVE  LET q == [p EXCEPT !.pc = pc] IN
           /\ q.pc = pc /\ q.chain = p.chain /\ q.i = p.i /\ q.reply = p.reply
           /\ q.tried = p.tried /\ q.broke = p.broke /\ q.err = p.err
           /\ q.answer = p.answer /\ q.refusal = p.refusal /\ q.then = p.then
           /\ q.out = p.out
BY DEF Handler

\* `continue': before the last attempt to the gates of the next one, after it
\* to the end, which only an attempt that was sent and failed reaches.
LEMMA FollowingWalked ==
    ASSUME NEW p, Placed(p), p.pc # "idle", p.out = "none",
           p.i = Len(p.chain) => p.i \in p.tried /\ p.err
    PROVE  /\ Walked(Following(p))
           /\ Following(p).chain = p.chain /\ Following(p).broke = p.broke
<1>1. p \in Handler /\ p.i \in 1 .. Len(p.chain)
  BY DEF Placed
<1>2. Len(p.chain) \in Nat
  BY <1>1, RouterAssumption DEF Handler
<1>3. CASE p.i < Len(p.chain)
  <2> DEFINE q == [p EXCEPT !.i = p.i + 1, !.pc = "health"]
  <2>1. Following(p) = q
    BY <1>3 DEF Following
  <2>2. q.pc = "health" /\ q.chain = p.chain /\ q.broke = p.broke /\ q.out = "none"
    BY <1>1 DEF Handler
  <2> HIDE DEF q
  <2>3. Walked(q)
    BY <2>2 DEF Walked, WalkedOn, Ended, Caused, Sending
  <2> QED BY <2>1, <2>2, <2>3
<1>4. CASE ~(p.i < Len(p.chain))
  <2> DEFINE q == [p EXCEPT !.pc = "conclude"]
  <2>1. Following(p) = q /\ p.i = Len(p.chain)
    BY <1>1, <1>2, <1>4 DEF Following
  <2>2. /\ q.pc = "conclude" /\ q.chain = p.chain /\ q.broke = p.broke /\ q.out = "none"
        /\ q.tried = p.tried /\ q.err = p.err
    BY <1>1 DEF Handler
  <2> HIDE DEF q
  <2>3. Walked(q)
    BY <2>1, <2>2 DEF Walked, WalkedOn, Ended, Caused, Sending
  <2> QED BY <2>1, <2>2, <2>3
<1> QED BY <1>3, <1>4

\* The gates: an attempt is skipped only when it is not the last.
LEMMA GateWalks ==
    ASSUME WalkInv, NEW r \in Request,
           \/ GateHealth(r) \/ GateCooldown(r) \/ GateCap(r) \/ GateQuota(r)
           \/ LogUsage(r) \/ Plan(r) \/ ReserveBudget(r)
    PROVE  \E q : WalksTo(r, q)
<1> DEFINE p == req[r]
<1>1. /\ Placed(p) /\ p \in Handler /\ Walked(p) /\ req \in [Request -> Handler]
      /\ p.pc \in Gates
  BY DEF WalkInv, RouterInv, TypeOK, GateHealth, GateCooldown, GateCap, GateQuota,
         LogUsage, Plan, ReserveBudget, Gates
<1>2. p.out = "none" /\ p.pc # "idle"
  BY <1>1 DEF Walked, Ended, Gates
<1>3. ASSUME SkipAttempt(r), ~Last(r) PROVE \E q : WalksTo(r, q)
  <2>1. req' = [req EXCEPT ![r] = Following(p)]
    BY <1>1, <1>3 DEF SkipAttempt
  <2>2. p.i # Len(p.chain)
    BY <1>3 DEF Last
  <2>3. WalksTo(r, Following(p))
    BY <1>1, <1>2, <2>1, <2>2, FollowingWalked DEF WalksTo
  <2> QED BY <2>3
<1>4. ASSUME NEW pc \in Gates, Goto(r, pc), pc = "usage" => ~Last(r)
      PROVE  \E q : WalksTo(r, q)
  <2> DEFINE q == [p EXCEPT !.pc = pc]
  <2>1. req' = [req EXCEPT ![r] = q]
    BY <1>1, <1>4 DEF Goto
  <2>2. q.pc = pc /\ q.chain = p.chain /\ q.i = p.i /\ q.broke = p.broke /\ q.out = "none"
    BY <1>1, <1>2, JumpFields
  <2> HIDE DEF q
  <2>3. Walked(q)
    BY <1>4, <2>2 DEF Walked, WalkedOn, Ended, Caused, Sending, Gates, Last
  <2> QED BY <2>1, <2>2, <2>3 DEF WalksTo
<1>5. CASE GateHealth(r)
  BY <1>3, <1>4, <1>5 DEF GateHealth, Gates
<1>6. CASE GateCooldown(r)
  BY <1>3, <1>4, <1>6 DEF GateCooldown, Gates
<1>7. CASE GateCap(r)
  BY <1>3, <1>4, <1>7 DEF GateCap, Gates
<1>8. CASE GateQuota(r)
  BY <1>4, <1>8 DEF GateQuota, Gates
<1>9. CASE LogUsage(r)
  <2>1. ~Last(r)
    BY <1>1, <1>9 DEF LogUsage, Walked, WalkedOn, Last
  <2> QED BY <1>3, <1>9, <2>1 DEF LogUsage
<1>10. CASE Plan(r)
  <2> DEFINE planned == IF Srv(r) \in Refusing THEN p ELSE [p EXCEPT !.meta = p.i]
             refuses == Srv(r) \in Refusing \/ Srv(r) \in Unconvertible \ BadBody
  <2>1. p.pc = "plan"
    BY <1>10 DEF Plan
  <2>2. /\ planned \in Handler /\ Placed(planned) /\ planned.pc = "plan" /\ planned.out = "none"
        /\ planned.i = p.i /\ planned.chain = p.chain /\ planned.broke = p.broke
    BY <1>1, <1>2, <2>1 DEF Placed, Handler
  <2>3. CASE refuses /\ ~Last(r)
    <3>1. req' = [req EXCEPT ![r] = Following(planned)]
      BY <1>10, <2>3 DEF Plan
    <3> HIDE DEF planned
    <3>2. WalksTo(r, Following(planned))
      BY <2>2, <2>3, <3>1, FollowingWalked DEF WalksTo, Last
    <3> QED BY <3>2
  <2>4. CASE refuses /\ Last(r)
    <3> DEFINE q == [planned EXCEPT !.pc = "conclude", !.refusal = TRUE]
    <3>1. req' = [req EXCEPT ![r] = q]
      BY <1>10, <2>4 DEF Plan
    <3> HIDE DEF planned
    <3>2. q.pc = "conclude" /\ q.refusal /\ q.chain = p.chain /\ q.broke = p.broke /\ q.out = "none"
      BY <2>2 DEF Handler
    <3> HIDE DEF q
    <3>3. WalksTo(r, q)
      BY <3>1, <3>2 DEF WalksTo, Walked, WalkedOn, Ended, Caused, Sending
    <3> QED BY <3>3
  <2>5. CASE ~refuses /\ Srv(r) \in BadBody
    <3> DEFINE q == [planned EXCEPT !.pc = "done", !.out = "rewrite"]
    <3>1. req' = [req EXCEPT ![r] = q]
      BY <1>10, <2>5 DEF Plan
    <3> HIDE DEF planned
    <3>2. q.pc = "done" /\ q.chain = p.chain /\ q.broke = p.broke /\ q.out = "rewrite"
      BY <2>2 DEF Handler
    <3> HIDE DEF q
    <3>3. WalksTo(r, q)
      BY <3>1, <3>2 DEF WalksTo, Walked, WalkedOn, Ended, Caused, Sending
    <3> QED BY <3>3
  <2>6. CASE ~refuses /\ Srv(r) \notin BadBody
    <3> DEFINE q == [planned EXCEPT !.pc = "reserve"]
    <3>1. req' = [req EXCEPT ![r] = q]
      BY <1>10, <2>6 DEF Plan
    <3> HIDE DEF planned
    <3>2. q.pc = "reserve" /\ q.chain = p.chain /\ q.broke = p.broke /\ q.out = "none"
      BY <2>2 DEF Handler
    <3> HIDE DEF q
    <3>3. WalksTo(r, q)
      BY <3>1, <3>2 DEF WalksTo, Walked, WalkedOn, Ended, Caused, Sending
    <3> QED BY <3>3
  <2> QED BY <2>3, <2>4, <2>5, <2>6
<1>11. CASE ReserveBudget(r)
  <2>1. CASE SkipAttempt(r) /\ ~Last(r)
    BY <1>3, <2>1
  <2>2. CASE \E n : req' = [req EXCEPT ![r].pc = "slot", ![r].held = n]
    <3>1. PICK n : req' = [req EXCEPT ![r].pc = "slot", ![r].held = n]
      BY <2>2
    <3> DEFINE q == [p EXCEPT !.pc = "slot", !.held = n]
    <3>2. req' = [req EXCEPT ![r] = q]
      BY <1>1, <3>1
    <3>3. q.pc = "slot" /\ q.chain = p.chain /\ q.broke = p.broke /\ q.out = "none"
      BY <1>1, <1>2 DEF Handler
    <3> HIDE DEF q
    <3>4. WalksTo(r, q)
      BY <3>2, <3>3 DEF WalksTo, Walked, WalkedOn, Ended, Caused, Sending
    <3> QED BY <3>4
  <2> QED BY <1>11, <2>1, <2>2 DEF ReserveBudget
<1> QED BY <1>5, <1>6, <1>7, <1>8, <1>9, <1>10, <1>11


\* The request arrives with nothing tried and nothing broken, takes its slot,
\* gives it back, and completes: to the next attempt only after a failure.
LEMMA FrameWalks ==
    ASSUME WalkInv, NEW r \in Request,
           \/ \E c \in Chains, e \in Estimates : Arrive(r, c, e)
           \/ TakeSlot(r) \/ Release(r)
           \/ \E used \in Usages : CompleteQuota(r, used)
           \/ Conclude(r)
    PROVE  \E q : WalksTo(r, q)
<1> DEFINE p == req[r]
<1>1. Placed(p) /\ p \in Handler /\ Walked(p) /\ req \in [Request -> Handler]
  BY DEF WalkInv, RouterInv, TypeOK
<1>2. ASSUME NEW c \in Chains, NEW e \in Estimates, Arrive(r, c, e)
      PROVE  \E q : WalksTo(r, q)
  <2> DEFINE q == [Fresh EXCEPT !.pc = "health", !.chain = c, !.i = 1, !.est = e]
  <2>1. req' = [req EXCEPT ![r] = q] /\ p.pc = "idle"
    BY <1>2 DEF Arrive
  <2>2. q.pc = "health" /\ q.out = "none"
    BY DEF Fresh
  <2> HIDE DEF q
  <2>3. p.broke = {} /\ Walked(q)
    BY <1>1, <2>1, <2>2 DEF Walked, WalkedOn, Ended, Caused, Sending
  <2>4. WalksTo(r, q)
    BY <2>1, <2>3 DEF WalksTo
  <2> QED BY <2>4
<1>3. CASE TakeSlot(r)
  <2> DEFINE q == [p EXCEPT !.pc = "proxy", !.retry = 0, !.tried = p.tried \cup {p.i}]
  <2>1. req' = [req EXCEPT ![r] = q] /\ p.pc = "slot"
    BY <1>1, <1>3 DEF TakeSlot
  <2>2. /\ q.pc = "proxy" /\ q.i = p.i /\ q.chain = p.chain /\ q.broke = p.broke /\ q.out = p.out
        /\ q.tried = p.tried \cup {p.i}
    BY <1>1 DEF Handler
  <2> HIDE DEF q
  <2>3. Walked(q)
    BY <1>1, <2>1, <2>2 DEF Walked, WalkedOn, Ended, Caused
  <2>4. WalksTo(r, q)
    BY <2>1, <2>2, <2>3 DEF WalksTo
  <2> QED BY <2>4
<1>4. CASE Release(r)
  <2> DEFINE q == [p EXCEPT !.pc = "complete", !.reply = NoReply, !.retry = 0]
  <2>1. req' = [req EXCEPT ![r] = q] /\ p.pc = "release"
    BY <1>1, <1>4 DEF Release
  <2>2. /\ q.pc = "complete" /\ q.i = p.i /\ q.chain = p.chain /\ q.broke = p.broke /\ q.out = p.out
        /\ q.tried = p.tried /\ q.then = p.then /\ q.err = p.err /\ q.answer = p.answer
    BY <1>1 DEF Handler
  <2> HIDE DEF q
  <2>3. Walked(q)
    BY <1>1, <2>1, <2>2 DEF Walked, WalkedOn, Ended, Caused, Sending
  <2>4. WalksTo(r, q)
    BY <2>1, <2>2, <2>3 DEF WalksTo
  <2> QED BY <2>4
<1>5. ASSUME NEW used \in Usages, CompleteQuota(r, used)
      PROVE  \E q : WalksTo(r, q)
  <2> DEFINE n == [p EXCEPT !.held = 0]
  <2>1. /\ req' = [req EXCEPT ![r] = IF n.then = "done" THEN [n EXCEPT !.pc = "done"]
                                     ELSE Following(n)]
        /\ p.pc = "complete"
    BY <1>1, <1>5 DEF CompleteQuota
  <2>2. /\ n \in Handler /\ Placed(n)
        /\ n.pc = "complete" /\ n.i = p.i /\ n.chain = p.chain /\ n.broke = p.broke /\ n.out = p.out
        /\ n.tried = p.tried /\ n.then = p.then /\ n.err = p.err /\ n.answer = p.answer
    BY <1>1, <2>1 DEF Placed, Handler
  <2> HIDE DEF n
  <2>3. CASE n.then = "done"
    <3> DEFINE q == [n EXCEPT !.pc = "done"]
    <3>1. /\ q.pc = "done" /\ q.chain = p.chain /\ q.broke = p.broke /\ q.out = p.out
          /\ q.tried = p.tried /\ q.err = p.err /\ q.answer = p.answer
      BY <2>2, JumpFields
    <3>2. req' = [req EXCEPT ![r] = q]
      BY <2>1, <2>3
    <3> HIDE DEF q
    <3>3. Walked(q)
      BY <1>1, <2>1, <3>1 DEF Walked, WalkedOn, Ended, Caused, Sending
    <3>4. WalksTo(r, q)
      BY <3>1, <3>2, <3>3 DEF WalksTo
    <3> QED BY <3>4
  <2>4. CASE n.then # "done"
    <3>1. n.then = "next"
      BY <2>2, <2>4 DEF Handler
    <3>2. n.out = "none" /\ n.i \in n.tried /\ n.err
      BY <1>1, <2>1, <2>2, <3>1 DEF Walked, WalkedOn, Ended
    <3>3. WalksTo(r, Following(n))
      BY <2>1, <2>2, <2>4, <3>2, FollowingWalked DEF WalksTo
    <3> QED BY <3>3
  <2> QED BY <2>3, <2>4
<1>6. CASE Conclude(r)
  <2> DEFINE m == IF p.refusal THEN 0 ELSE p.meta
             out == IF p.refusal THEN "refused"
                    ELSE IF p.answer > 0 THEN "answer" ELSE "badgateway"
             q == [p EXCEPT !.pc = "done", !.meta = m, !.out = out]
  <2>1. req' = [req EXCEPT ![r] = q] /\ p.pc = "conclude"
    BY <1>1, <1>6 DEF Conclude
  <2>2. /\ q.pc = "done" /\ q.chain = p.chain /\ q.broke = p.broke /\ q.out = out
        /\ q.tried = p.tried /\ q.err = p.err /\ q.answer = p.answer
    BY <1>1 DEF Handler
  <2>3. /\ out \in {"answer", "badgateway"} => ~p.refusal
        /\ out = "badgateway" => p.answer = 0
    BY <1>1 DEF Handler
  <2> HIDE DEF q, out
  <2>4. Walked(q)
    BY <1>1, <2>1, <2>2, <2>3 DEF Walked, WalkedOn, Ended, Caused, Sending
  <2>5. WalksTo(r, q)
    BY <2>1, <2>2, <2>4 DEF WalksTo
  <2> QED BY <2>5
<1> QED BY <1>2, <1>3, <1>4, <1>5, <1>6

\* While the attempt is out: every error is remembered before it is acted on.
LEMMA SendingWalks ==
    ASSUME WalkInv, NEW r \in Request,
           \/ \E reply \in Replies : ProxyReturns(r, reply)
           \/ ClientGone(r) \/ Retry(r)
           \/ OkHealth(r) \/ OkCount(r) \/ MidHealth(r) \/ FailHealth(r)
           \/ \E hint \in Hints : OkLimit(r, hint) \/ MidLimit(r, hint) \/ FailLimit(r, hint)
    PROVE  \E q : WalksTo(r, q)
<1> DEFINE p == req[r]
<1>1. Placed(p) /\ p \in Handler /\ Walked(p) /\ req \in [Request -> Handler]
  BY DEF WalkInv, RouterInv, TypeOK
<1>2. ASSUME NEW pc \in {"okLimit", "okCount", "midLimit", "failLimit"}, Goto(r, pc),
             p.pc \in Sending \ {"release"}, pc = "failLimit" => p.pc = "failHealth"
      PROVE  \E q : WalksTo(r, q)
  <2> DEFINE q == [p EXCEPT !.pc = pc]
  <2>1. req' = [req EXCEPT ![r] = q]
    BY <1>1, <1>2 DEF Goto
  <2>2. /\ q.pc = pc /\ q.chain = p.chain /\ q.i = p.i /\ q.broke = p.broke /\ q.out = p.out
        /\ q.tried = p.tried /\ q.err = p.err
    BY <1>1, JumpFields
  <2> HIDE DEF q
  <2>3. Walked(q)
    BY <1>1, <1>2, <2>2 DEF Walked, WalkedOn, Ended, Caused, Sending
  <2>4. WalksTo(r, q)
    BY <2>1, <2>2, <2>3 DEF WalksTo
  <2> QED BY <2>4
<1>3. ASSUME NEW then \in {"next", "done"}, NEW out \in {"gone", "served", "midstream", "none"},
             req' = [req EXCEPT ![r] = [p EXCEPT !.pc = "release", !.then = then, !.out = out]],
             p.pc \in Sending,
             then = "next" => p.pc = "failLimit" /\ out = "none"
      PROVE  \E q : WalksTo(r, q)
  <2> DEFINE q == [p EXCEPT !.pc = "release", !.then = then, !.out = out]
  <2>1. /\ q.pc = "release" /\ q.chain = p.chain /\ q.i = p.i /\ q.broke = p.broke /\ q.out = out
        /\ q.tried = p.tried /\ q.err = p.err /\ q.then = then
    BY <1>1 DEF Handler
  <2>2. req' = [req EXCEPT ![r] = q]
    BY <1>3
  <2> HIDE DEF q
  <2>3. Walked(q)
    BY <1>1, <1>3, <2>1 DEF Walked, WalkedOn, Ended, Caused, Sending
  <2>4. WalksTo(r, q)
    BY <2>1, <2>2, <2>3 DEF WalksTo
  <2> QED BY <2>4
<1>4. ASSUME NEW reply \in Replies, ProxyReturns(r, reply)
      PROVE  \E q : WalksTo(r, q)
  <2> DEFINE next == CASE reply.kind = "ok" -> "okHealth"
                       [] reply.kind = "mid" -> "midHealth"
                       [] OTHER -> IF p.retry < Budget(reply) THEN "backoff" ELSE "failHealth"
             err == p.err \/ reply.kind \in {"reset", "refused", "buffered"}
             broke == IF reply.kind \in {"mid", "reset", "refused"}
                      THEN p.broke \cup {p.i} ELSE p.broke
             answer == IF reply.kind = "buffered" THEN p.i ELSE p.answer
             q == [p EXCEPT !.pc = next, !.reply = reply, !.err = err,
                            !.broke = broke, !.answer = answer]
  <2>1. p.pc = "proxy" /\ req' = [req EXCEPT ![r] = q]
    BY <1>1, <1>4, ZenonT(60) DEF ProxyReturns
  <2>2. reply.kind \in Kinds
    BY RouterAssumption
  <2>3. /\ next \in {"okHealth", "midHealth", "backoff", "failHealth"}
        /\ next = "midHealth" => p.i \in broke
        /\ next = "failHealth" => err
        /\ next = "failHealth" /\ reply.kind # "buffered" => p.i \in broke
        /\ p.broke \subseteq broke
    BY <2>2 DEF Kinds
  <2> HIDE DEF next, err, broke, answer
  <2>4. /\ q.pc = next /\ q.chain = p.chain /\ q.i = p.i /\ q.broke = broke /\ q.out = p.out
        /\ q.tried = p.tried /\ q.err = err /\ q.reply = reply
    BY <1>1 DEF Handler
  <2> HIDE DEF q
  <2>5. Walked(q)
    BY <1>1, <2>1, <2>3, <2>4 DEF Walked, WalkedOn, Ended, Caused, Sending
  <2>6. WalksTo(r, q)
    BY <2>1, <2>3, <2>4, <2>5 DEF WalksTo
  <2> QED BY <2>6
<1>5. CASE ClientGone(r)
  <2>1. /\ req' = [req EXCEPT ![r] = [p EXCEPT !.pc = "release", !.then = "done", !.out = "gone"]]
        /\ p.pc \in Sending
    BY <1>1, <1>5 DEF ClientGone, Sending
  <2> QED BY <1>3, <2>1
<1>6. CASE Retry(r)
  <2> DEFINE q == [p EXCEPT !.pc = "proxy", !.retry = p.retry + 1]
  <2>1. req' = [req EXCEPT ![r] = q] /\ p.pc = "backoff"
    BY <1>1, <1>6 DEF Retry
  <2>2. /\ q.pc = "proxy" /\ q.chain = p.chain /\ q.i = p.i /\ q.broke = p.broke /\ q.out = p.out
        /\ q.tried = p.tried
    BY <1>1 DEF Handler
  <2> HIDE DEF q
  <2>3. Walked(q)
    BY <1>1, <2>1, <2>2 DEF Walked, WalkedOn, Ended, Caused, Sending
  <2>4. WalksTo(r, q)
    BY <2>1, <2>2, <2>3 DEF WalksTo
  <2> QED BY <2>4
<1>7. CASE OkHealth(r)
  BY <1>2, <1>7 DEF OkHealth, Sending
<1>8. CASE OkCount(r)
  <2>1. /\ req' = [req EXCEPT ![r] = [p EXCEPT !.pc = "release", !.then = "done", !.out = "served"]]
        /\ p.pc \in Sending
    BY <1>1, <1>8 DEF OkCount, Sending
  <2> QED BY <1>3, <2>1
<1>9. CASE MidHealth(r)
  BY <1>2, <1>9 DEF MidHealth, Sending
<1>10. CASE FailHealth(r)
  BY <1>2, <1>10 DEF FailHealth, Sending
<1>11. ASSUME NEW hint \in Hints, OkLimit(r, hint) PROVE \E q : WalksTo(r, q)
  BY <1>2, <1>11 DEF OkLimit, Sending
<1>12. ASSUME NEW hint \in Hints, MidLimit(r, hint) PROVE \E q : WalksTo(r, q)
  <2>1. /\ req' = [req EXCEPT ![r] = [p EXCEPT !.pc = "release", !.then = "done", !.out = "midstream"]]
        /\ p.pc \in Sending
    BY <1>1, <1>12 DEF MidLimit, Sending
  <2> QED BY <1>3, <2>1
<1>13. ASSUME NEW hint \in Hints, FailLimit(r, hint) PROVE \E q : WalksTo(r, q)
  <2>1. p.pc = "failLimit" /\ p.out = "none"
    BY <1>1, <1>13 DEF FailLimit, Walked, Ended
  <2>2. /\ req' = [req EXCEPT ![r] = [p EXCEPT !.pc = "release", !.then = "next", !.out = p.out]]
        /\ p.pc \in Sending
    BY <1>1, <1>13 DEF FailLimit, Sending, Handler
  <2> QED BY <1>3, <2>1, <2>2
<1> QED BY <1>4, <1>5, <1>6, <1>7, <1>8, <1>9, <1>10, <1>11, <1>12, <1>13

-----------------------------------------------------------------------------

\* What a server that is down after a step was before it: down already, or the
\* server of a handler that was just broken off by it.
LEMMA DownStep ==
    ASSUME WalkInv, [Next]_vars
    PROVE  /\ status' \in [Server -> {"up", "down", "unknown"}]
           /\ \A s \in Server : status'[s] = "down" =>
                 \/ status[s] = "down"
                 \/ \E r \in Request : req[r].i \in req[r].broke /\ Srv(r) = s
<1>1. status \in [Server -> {"up", "down", "unknown"}]
  BY DEF WalkInv
<1>2. CASE UNCHANGED healthVars
  BY <1>1, <1>2 DEF healthVars
<1>3. ASSUME NEW s, Health!MarkHealthy(s)
      PROVE  /\ status' \in [Server -> {"up", "down", "unknown"}]
             /\ \A t \in Server : status'[t] = "down" => status[t] = "down"
  BY <1>1, <1>3 DEF Health!MarkHealthy
<1>4. ASSUME NEW r \in Request, Health!MarkUnhealthy(Srv(r)), req[r].i \in req[r].broke
      PROVE  /\ status' \in [Server -> {"up", "down", "unknown"}]
             /\ \A t \in Server : status'[t] = "down" =>
                   \/ status[t] = "down"
                   \/ req[r].i \in req[r].broke /\ Srv(r) = t
  BY <1>1, <1>4 DEF Health!MarkUnhealthy
<1>5. ASSUME NEW r \in Request, OkHealth(r) \/ MidHealth(r) \/ FailHealth(r)
      PROVE  \/ UNCHANGED healthVars
             \/ Health!MarkHealthy(Srv(r))
             \/ Health!MarkUnhealthy(Srv(r)) /\ req[r].i \in req[r].broke
  BY <1>5 DEF OkHealth, MidHealth, FailHealth, WalkInv, Walked, Caused
<1>6. ASSUME NEW r \in Request, Handle(r)
      PROVE  UNCHANGED healthVars \/ OkHealth(r) \/ MidHealth(r) \/ FailHealth(r)
  BY <1>6 DEF Handle, GateHealth, GateCooldown, GateCap, GateQuota, LogUsage, Plan,
       ReserveBudget, TakeSlot, ProxyReturns, ClientGone, Retry, OkCount, OkLimit, MidLimit,
       FailLimit, Release, CompleteQuota, Conclude, trackers
<1>7. CASE \E r \in Request : Handle(r)
  BY <1>2, <1>3, <1>4, <1>5, <1>6, <1>7
<1>8. CASE \E s \in Server : ProbeBack(s)
  BY <1>3, <1>8 DEF ProbeBack
<1>9. CASE \/ \E r \in Request, c \in Chains, e \in Estimates : Arrive(r, c, e)
           \/ \E r \in Request : ClientLeaves(r)
           \/ Tick
           \/ UNCHANGED vars
  BY <1>2, <1>9 DEF Arrive, ClientLeaves, Tick, vars, trackers
<1> QED BY <1>7, <1>8, <1>9 DEF Next

\* Nothing is tried or broken, and every server is up, when the router starts.
LEMMA WalkInit == Init => WalkInv
<1> SUFFICES ASSUME Init PROVE WalkInv
  OBVIOUS
<1>1. RouterInv
  BY InitInv
<1>2. \A r \in Request : Walked(req[r])
  BY DEF Init, Fresh, Walked, WalkedOn, Ended, Caused, Sending
<1>3. status \in [Server -> {"up", "down", "unknown"}] /\ DownForCause
  BY DEF Init, DownForCause
<1> QED BY <1>1, <1>2, <1>3 DEF WalkInv

\* Every step moves at most one handler, and moves it on in its walk.
LEMMA WalkStep ==
    ASSUME WalkInv, [Next]_vars
    PROVE  UNCHANGED req \/ \E r \in Request : \E q : WalksTo(r, q)
<1>1. CASE \E r \in Request, c \in Chains, e \in Estimates : Arrive(r, c, e)
  BY <1>1, FrameWalks
<1>2. ASSUME NEW r \in Request, Handle(r) PROVE \E q : WalksTo(r, q)
  BY <1>2, GateWalks, FrameWalks, SendingWalks DEF Handle
<1>3. CASE \/ \E r \in Request : ClientLeaves(r)
           \/ \E s \in Server : ProbeBack(s)
           \/ Tick
           \/ UNCHANGED vars
  BY <1>3 DEF ClientLeaves, ProbeBack, Tick, vars
<1> QED BY <1>1, <1>2, <1>3 DEF Next

\* The invariant is inductive: what broke stays on record, so a server that
\* stays down keeps its cause.
LEMMA WalkInductive == WalkInv /\ [Next]_vars => WalkInv'
<1> SUFFICES ASSUME WalkInv, [Next]_vars PROVE WalkInv'
  OBVIOUS
<1>1. RouterInv'
  BY StepInv DEF WalkInv
<1>2. req \in [Request -> Handler] /\ \A r \in Request : Walked(req[r]) /\ Placed(req[r])
  BY DEF WalkInv, RouterInv, TypeOK
<1>3. /\ \A r \in Request : Walked(req'[r])
      /\ \A r \in Request : /\ req[r].broke \subseteq req'[r].broke
                            /\ req'[r].chain = req[r].chain \/ req[r].broke = {}
  <2>1. CASE UNCHANGED req
    BY <1>2, <2>1
  <2>2. ASSUME NEW r \in Request, NEW q, WalksTo(r, q)
        PROVE  <1>3
    <3>1. \A x \in Request : req'[x] = IF x = r THEN q ELSE req[x]
      BY <1>2, <2>2 DEF WalksTo
    <3> QED BY <1>2, <2>2, <3>1 DEF WalksTo
  <2> QED BY <2>1, <2>2, WalkStep
<1>4. DownForCause'
  <2> SUFFICES ASSUME NEW s \in Server, status'[s] = "down"
               PROVE  \E r \in Request : \E i \in req'[r].broke : req'[r].chain[i] = s
    BY DEF DownForCause
  <2>1. \E r \in Request : \E i \in req[r].broke : req[r].chain[i] = s
    BY DownStep DEF WalkInv, DownForCause, Srv
  <2> QED BY <1>3, <2>1
<1> QED BY <1>1, <1>3, <1>4, DownStep DEF WalkInv, Walked, WalkedOn, Ended, Caused

\* The invariant of the walk holds in every reachable state.
THEOREM WalkInvariant == Spec => []WalkInv
BY WalkInit, WalkInductive, PTL DEF Spec

\* No gate, refusal or retry rule leaves a request without a real try: a 502
\* or a held-back backend answer comes only after the last attempt of the
\* chain was sent, and a 502 only when no backend answered at all.
THEOREM WalkExhaustsChain == Spec => []ChainExhausted
<1>1. WalkInv => ChainExhausted
  BY DEF WalkInv, Walked, Ended, ChainExhausted
<1> QED BY <1>1, WalkInvariant, PTL

\* A server that is held for down had an attempt that ended in a transport or
\* a mid-stream error, whatever requests, probes and clients do meanwhile: an
\* answer, even a 429 or a 5xx, never takes a server out of the walk.
THEOREM OnlyErrorsMarkDown == Spec => []DownForCause
BY WalkInvariant, PTL DEF WalkInv


-----------------------------------------------------------------------------
(* The walk implements the quota tracker's contract, QuotaUse.             *)

\* Where the attempt of a handler in state q is, for the tracker.
CallSt(q) ==
    LET counted == q.pc \in {"release", "complete"} /\ q.out = "served" IN
    CASE q.pc \in {"plan", "reserve"} -> "allowed"
      [] q.pc = "usage" -> "blocked"
      [] counted -> "counted"
      [] ~counted /\ q.pc \in Sending \cup {"slot", "complete"} -> "sent"
      [] OTHER -> "idle"

\* The attempt of a handler in state q, for the tracker.
CallAt(q) ==
    [st |-> CallSt(q),
     srv |-> IF CallSt(q) = "idle" THEN "none" ELSE q.chain[q.i],
     last |-> CallSt(q) # "idle" /\ q.i = Len(q.chain),
     budget |-> IF CallSt(q) \in {"sent", "counted"} THEN q.est ELSE 0,
     held |-> IF CallSt(q) \in {"sent", "counted"} THEN q.held ELSE 0]

\* The refinement mapping is a function of each handler's own state.
LEMMA CallMapped == \A r \in Request : CallOf(r) = CallAt(req[r]) /\ CallOf(r)' = CallAt(req'[r])
BY DEF CallOf, CallAt, CallSt, Srv, Last

\* Outside an attempt the tracker sees nothing of the handler.
LEMMA CallIdle ==
    ASSUME NEW q, q.pc \in {"idle", "health", "cooldown", "cap", "quota", "conclude", "done"}
    PROVE  CallAt(q) = Contract!Idle
<1>1. CallSt(q) = "idle"
  BY DEF CallSt, Sending
<1> QED BY <1>1 DEF CallAt, Contract!Idle, Contract!NoServer

\* An attempt that is out: what it declared and what it holds.
LEMMA CallOut ==
    ASSUME NEW q,
           \/ q.pc \in (Sending \ {"release"}) \cup {"slot"}
           \/ q.pc \in {"release", "complete"} /\ q.out # "served"
    PROVE  CallAt(q) = [st |-> "sent", srv |-> q.chain[q.i], last |-> (q.i = Len(q.chain)),
                        budget |-> q.est, held |-> q.held]
<1>1. CallSt(q) = "sent"
  BY DEF CallSt, Sending
<1> QED BY <1>1 DEF CallAt

\* The handler of r moved to q, which the tracker sees as attempt c.
Moved(r, q, c) ==
    /\ req' = [req EXCEPT ![r] = q]
    /\ CallAt(q) = c

\* A step of one handler changes at most its own entry of the contract's call.
LEMMA CallUpdate ==
    ASSUME req \in [Request -> Handler], NEW r \in Request, NEW q, NEW c, Moved(r, q, c)
    PROVE  [x \in Request |-> CallOf(x)]' = [[x \in Request |-> CallOf(x)] EXCEPT ![r] = c]
<1>1. \A x \in Request : req'[x] = IF x = r THEN q ELSE req[x]
  BY DEF Moved
<1>2. \A x \in Request : CallOf(x)' = IF x = r THEN c ELSE CallOf(x)
  BY <1>1, CallMapped DEF Moved
<1> QED BY <1>2

\* A step that the tracker does not see.
LEMMA CallStutter ==
    ASSUME req \in [Request -> Handler], NEW r \in Request, NEW q,
           Moved(r, q, CallAt(req[r])), UNCHANGED <<now, quotaVars>>
    PROVE  UNCHANGED Contract!useVars
<1>1. [x \in Request |-> CallOf(x)]' = [[x \in Request |-> CallOf(x)] EXCEPT ![r] = CallAt(req[r])]
  BY CallUpdate
<1>2. [x \in Request |-> CallOf(x)]' = [x \in Request |-> CallOf(x)]
  BY <1>1, CallMapped
<1> QED BY <1>2 DEF Contract!useVars, Contract!quotaVars, quotaVars


\* The walk and the contract speak of the same tracker.
LEMMA SameTracker ==
    ASSUME NEW s, NEW e, NEW n
    PROVE  /\ Contract!Allowed(s) <=> Quota!Allowed(s)
           /\ Contract!Allow(s) <=> Quota!Allow(s)
           /\ Contract!Usage(s) <=> Quota!Usage(s)
           /\ Contract!RecordRequest(s) <=> Quota!RecordRequest(s)
           /\ Contract!Admits(s, e) <=> Quota!Admits(s, e)
           /\ Contract!Reserve(s, e) <=> Quota!Reserve(s, e)
           /\ Contract!Complete(s, e, n) <=> Quota!Complete(s, e, n)
<1>1. \A w : Contract!Pruned(w) = Quota!Pruned(w)
  BY Zenon DEF Quota!Pruned, Quota!Young, Quota!FoldLeft, Quota!MapThenFoldSet, Quota!Max,
            Contract!Pruned, Contract!Young, Contract!FoldLeft, Contract!MapThenFoldSet, Contract!Max
<1>2. \A w : Contract!Total(w) = Quota!Total(w)
  BY DEF Quota!Total, Quota!FoldLeft, Quota!MapThenFoldSet, Quota!Max,
         Contract!Total, Contract!FoldLeft, Contract!MapThenFoldSet, Contract!Max
<1>3. /\ Contract!Used(s) = Quota!Used(s) /\ Contract!Sent(s) = Quota!Sent(s)
      /\ \A w : Contract!PrunedUnder(w) = Quota!PrunedUnder(w)
  BY <1>1, <1>2 DEF Quota!Used, Quota!Sent, Quota!PrunedUnder,
                    Contract!Used, Contract!Sent, Contract!PrunedUnder
<1>4. /\ Contract!RPMFull(s) <=> Quota!RPMFull(s)
      /\ Contract!TPMFull(s) <=> Quota!TPMFull(s)
      /\ Contract!Admits(s, e) <=> Quota!Admits(s, e)
  BY <1>3 DEF Quota!RPMFull, Quota!TPMFull, Quota!Admits,
              Contract!RPMFull, Contract!TPMFull, Contract!Admits
<1>5. Contract!Allowed(s) <=> Quota!Allowed(s)
  BY <1>4 DEF Quota!Allowed, Contract!Allowed
<1>6. Contract!Allow(s) <=> Quota!Allow(s)
  BY <1>1, <1>4 DEF Quota!Allow, Contract!Allow
<1>7. Contract!Usage(s) <=> Quota!Usage(s)
  BY <1>3 DEF Quota!Usage, Contract!Usage
<1>8. Contract!RecordRequest(s) <=> Quota!RecordRequest(s)
  BY <1>1 DEF Quota!RecordRequest, Contract!RecordRequest
<1>9. Contract!Reserve(s, e) <=> Quota!Reserve(s, e)
  BY <1>1, <1>4 DEF Quota!Reserve, Contract!Reserve
<1>10. Contract!Complete(s, e, n) <=> Quota!Complete(s, e, n)
  BY <1>1 DEF Quota!Complete, Contract!Complete
<1> QED BY <1>4, <1>5, <1>6, <1>7, <1>8, <1>9, <1>10

\* The attempt as the contract's AskAllow leaves it.
LEMMA AskedCall ==
    ASSUME NEW st, NEW srv, NEW last \in BOOLEAN
    PROVE  [Contract!Idle EXCEPT !.srv = srv, !.last = last, !.st = st] =
           [st |-> st, srv |-> srv, last |-> last, budget |-> 0, held |-> 0]
<1> DEFINE i == Contract!Idle
           c == [i EXCEPT !.srv = srv, !.last = last, !.st = st]
<1>1. i \in [st : {"idle"}, srv : {"none"}, last : BOOLEAN, budget : {0}, held : {0}]
  BY DEF Contract!Idle, Contract!NoServer
<1> HIDE DEF i
<1>2. c \in [st : {st}, srv : {srv}, last : {last}, budget : {0}, held : {0}]
  BY <1>1
<1> HIDE DEF c
<1>3. c = [st |-> st, srv |-> srv, last |-> last, budget |-> 0, held |-> 0]
  BY <1>2
<1> QED BY <1>3 DEF c, i

\* The gates up to the reservation: Allow is asked once, the log line reads
\* Usage once, a refusal gives the attempt up before anything is reserved.
LEMMA GateContract ==
    ASSUME WalkInv, UseQuota, NEW r \in Request,
           \/ GateHealth(r) \/ GateCooldown(r) \/ GateCap(r) \/ GateQuota(r)
           \/ LogUsage(r) \/ Plan(r)
    PROVE  [Contract!UseNext]_(Contract!useVars)
<1> DEFINE p == req[r]
           call == [x \in Request |-> CallOf(x)]
<1>1. /\ Placed(p) /\ p \in Handler /\ Walked(p) /\ req \in [Request -> Handler]
      /\ p.pc \in Gates
  BY DEF WalkInv, RouterInv, TypeOK, GateHealth, GateCooldown, GateCap, GateQuota,
         LogUsage, Plan, Gates
<1>2. call[r] = CallAt(p)
  BY CallMapped
<1>3. p.pc # "idle" /\ Srv(r) \in Server /\ Last(r) \in BOOLEAN
  BY <1>1, RouterAssumption DEF Placed, Handler, Srv, Last, Gates
<1>4. ASSUME SkipAttempt(r)
      PROVE  Moved(r, Following(p), Contract!Idle)
  BY <1>1, <1>3, <1>4, FollowingPlaced, CallIdle DEF SkipAttempt, Moved
<1>5. ASSUME NEW pc, Goto(r, pc)
      PROVE  req' = [req EXCEPT ![r] = [p EXCEPT !.pc = pc]]
  BY <1>1, <1>5 DEF Goto
<1>6. ASSUME p.pc \in {"health", "cooldown", "cap"},
             \/ SkipAttempt(r)
             \/ \E pc \in {"cooldown", "cap", "quota"} : Goto(r, pc),
             UNCHANGED <<now, quotaVars>>
      PROVE  UNCHANGED Contract!useVars
  <2>1. CallAt(p) = Contract!Idle
    BY <1>6, CallIdle
  <2>2. CASE SkipAttempt(r)
    BY <1>1, <1>4, <1>6, <2>1, <2>2, CallStutter
  <2>3. ASSUME NEW pc \in {"cooldown", "cap", "quota"}, Goto(r, pc)
        PROVE  UNCHANGED Contract!useVars
    <3> DEFINE q == [p EXCEPT !.pc = pc]
    <3>1. req' = [req EXCEPT ![r] = q]
      BY <1>5, <2>3
    <3>2. q.pc = pc
      BY <1>1 DEF Handler
    <3> HIDE DEF q
    <3>3. Moved(r, q, CallAt(p))
      BY <2>1, <3>1, <3>2, CallIdle DEF Moved
    <3> QED BY <1>1, <1>6, <3>3, CallStutter
  <2> QED BY <1>6, <2>2, <2>3
<1>7. CASE GateHealth(r)
  BY <1>6, <1>7 DEF GateHealth, trackers
<1>8. CASE GateCooldown(r)
  BY <1>6, <1>8 DEF GateCooldown, trackers
<1>9. CASE GateCap(r)
  BY <1>6, <1>9 DEF GateCap, trackers
<1>10. CASE GateQuota(r)
  <2> DEFINE next == IF ~Quota!Allowed(Srv(r)) /\ ~Last(r) THEN "usage" ELSE "plan"
             q == [p EXCEPT !.pc = next]
             st == IF Contract!Allowed(Srv(r)) \/ Last(r) THEN "allowed" ELSE "blocked"
             c == [Contract!Idle EXCEPT !.srv = Srv(r), !.last = Last(r), !.st = st]
  <2>1. p.pc = "quota" /\ Quota!Allow(Srv(r)) /\ Goto(r, next) /\ UNCHANGED now
    BY <1>10 DEF GateQuota
  <2>2. req' = [req EXCEPT ![r] = q]
    BY <1>5, <2>1
  <2>3. q.pc = next /\ q.chain = p.chain /\ q.i = p.i
    BY <1>1, JumpFields
  <2>4. CallSt(q) = IF Contract!Allowed(Srv(r)) \/ Last(r) THEN "allowed" ELSE "blocked"
    BY <2>3, SameTracker DEF CallSt, Sending
  <2>5. st \in {"allowed", "blocked"} /\ CallSt(q) = st
    BY <2>4
  <2> HIDE DEF q, st
  <2>6. CallAt(q) = [st |-> st, srv |-> Srv(r), last |-> Last(r), budget |-> 0, held |-> 0]
    BY <2>3, <2>5 DEF CallAt, Srv, Last
  <2>7. c = [st |-> st, srv |-> Srv(r), last |-> Last(r), budget |-> 0, held |-> 0]
    BY <1>3, AskedCall
  <2> HIDE DEF c
  <2>8. Moved(r, q, c)
    BY <2>2, <2>6, <2>7 DEF Moved
  <2>9. call' = [call EXCEPT ![r] = c]
    BY <1>1, <2>8, CallUpdate
  <2>10. call[r].st = "idle"
    BY <1>2, <2>1, CallIdle DEF Contract!Idle
  <2>11. Contract!AskAllow(r, Srv(r), Last(r))
    BY <2>1, <2>9, <2>10, SameTracker DEF Contract!AskAllow, c, st
  <2> QED BY <1>3, <2>11 DEF Contract!UseNext
<1>11. CASE LogUsage(r)
  <2>1. p.pc = "usage" /\ Quota!Usage(Srv(r)) /\ SkipAttempt(r) /\ UNCHANGED now
    BY <1>11 DEF LogUsage
  <2>2. call' = [call EXCEPT ![r] = Contract!Idle]
    BY <1>1, <1>4, <2>1, CallUpdate
  <2>3. CallSt(p) = "blocked"
    BY <2>1 DEF CallSt, Sending
  <2>4. call[r].st = "blocked" /\ call[r].srv = Srv(r)
    BY <1>2, <2>3 DEF CallAt, Srv
  <2>5. Contract!LogUsage(r)
    BY <2>1, <2>2, <2>4, SameTracker DEF Contract!LogUsage
  <2> QED BY <2>5 DEF Contract!UseNext
<1>12. CASE Plan(r)
  <2> DEFINE planned == IF Srv(r) \in Refusing THEN p ELSE [p EXCEPT !.meta = p.i]
             refuses == Srv(r) \in Refusing \/ Srv(r) \in Unconvertible \ BadBody
  <2>1. p.pc = "plan" /\ UNCHANGED <<now, quotaVars>>
    BY <1>12 DEF Plan, trackers
  <2>2. /\ planned \in Handler /\ Placed(planned) /\ planned.pc = "plan"
        /\ planned.i = p.i /\ planned.chain = p.chain
    BY <1>1, <2>1 DEF Placed, Handler
  <2>3. CallSt(p) = "allowed"
    BY <2>1 DEF CallSt, Sending
  <2>4. ASSUME NEW q, Moved(r, q, Contract!Idle)
        PROVE  [Contract!UseNext]_(Contract!useVars)
    <3>1. call' = [call EXCEPT ![r] = Contract!Idle]
      BY <1>1, <2>4, CallUpdate
    <3>2. call[r].st = "allowed"
      BY <1>2, <2>3 DEF CallAt
    <3>3. Contract!Refuse(r)
      BY <2>1, <3>1, <3>2 DEF Contract!Refuse, quotaVars, Contract!quotaVars
    <3> QED BY <3>3 DEF Contract!UseNext
  <2>5. CASE refuses /\ ~Last(r)
    <3>1. req' = [req EXCEPT ![r] = Following(planned)]
      BY <1>12, <2>5 DEF Plan
    <3> HIDE DEF planned
    <3>2. Moved(r, Following(planned), Contract!Idle)
      BY <2>2, <3>1, FollowingPlaced, CallIdle DEF Moved
    <3> QED BY <2>4, <3>2
  <2>6. CASE refuses /\ Last(r)
    <3> DEFINE q == [planned EXCEPT !.pc = "conclude", !.refusal = TRUE]
    <3>1. req' = [req EXCEPT ![r] = q]
      BY <1>12, <2>6 DEF Plan
    <3> HIDE DEF planned
    <3>2. q.pc = "conclude"
      BY <2>2 DEF Handler
    <3> HIDE DEF q
    <3>3. Moved(r, q, Contract!Idle)
      BY <3>1, <3>2, CallIdle DEF Moved
    <3> QED BY <2>4, <3>3
  <2>7. CASE ~refuses /\ Srv(r) \in BadBody
    <3> DEFINE q == [planned EXCEPT !.pc = "done", !.out = "rewrite"]
    <3>1. req' = [req EXCEPT ![r] = q]
      BY <1>12, <2>7 DEF Plan
    <3> HIDE DEF planned
    <3>2. q.pc = "done"
      BY <2>2 DEF Handler
    <3> HIDE DEF q
    <3>3. Moved(r, q, Contract!Idle)
      BY <3>1, <3>2, CallIdle DEF Moved
    <3> QED BY <2>4, <3>3
  <2>8. CASE ~refuses /\ Srv(r) \notin BadBody
    <3> DEFINE q == [planned EXCEPT !.pc = "reserve"]
    <3>1. req' = [req EXCEPT ![r] = q]
      BY <1>12, <2>8 DEF Plan
    <3> HIDE DEF planned
    <3>2. q.pc = "reserve" /\ q.chain = p.chain /\ q.i = p.i
      BY <2>2, JumpFields
    <3> HIDE DEF q
    <3>3. CallSt(q) = "allowed"
      BY <3>2 DEF CallSt, Sending
    <3>4. Moved(r, q, CallAt(p))
      BY <2>3, <3>1, <3>2, <3>3 DEF Moved, CallAt
    <3> QED BY <1>1, <2>1, <3>4, CallStutter
  <2> QED BY <2>5, <2>6, <2>7, <2>8
<1> QED BY <1>7, <1>8, <1>9, <1>10, <1>11, <1>12


\* The reservation: asked at most once, before the attempt is sent, and held
\* exactly when Reserve admitted it.
LEMMA ReserveContract ==
    ASSUME WalkInv, UseQuota, NEW r \in Request, ReserveBudget(r)
    PROVE  [Contract!UseNext]_(Contract!useVars)
<1> DEFINE p == req[r]
           srv == Srv(r)
           call == [x \in Request |-> CallOf(x)]
           asks == p.est > 0
           admitted == Quota!Admits(srv, p.est)
           c == [st |-> "allowed", srv |-> srv, last |-> Last(r), budget |-> 0, held |-> 0]
           left == IF Contract!Admits(srv, p.est)
                   THEN [c EXCEPT !.st = "sent", !.budget = p.est, !.held = p.est]
                   ELSE IF c.last THEN [c EXCEPT !.st = "sent", !.budget = p.est]
                   ELSE Contract!Idle
<1>1. /\ Placed(p) /\ p \in Handler /\ req \in [Request -> Handler]
      /\ p.pc = "reserve" /\ UNCHANGED now /\ Last(r) \in BOOLEAN
      /\ p.est \in Nat /\ p.est \in Estimates \cup {0}
  BY RouterAssumption DEF WalkInv, RouterInv, TypeOK, ReserveBudget, Handler, Last
<1>2. CallSt(p) = "allowed"
  BY <1>1 DEF CallSt, Sending
<1>3. call[r] = c
  BY <1>2, CallMapped DEF CallAt, Srv, Last
<1>4. Contract!Reserve(srv, p.est)
  <2>1. CASE asks
    BY <2>1, SameTracker DEF ReserveBudget
  <2>2. CASE ~asks
    BY <1>1, <2>2 DEF ReserveBudget, Contract!Reserve, quotaVars
  <2> QED BY <2>1, <2>2
<1>5. ~asks => Contract!Admits(srv, p.est)
  BY <1>1 DEF Contract!Admits
<1>6. call' = [call EXCEPT ![r] = left]
  <2>1. CASE asks /\ ~admitted /\ ~Last(r)
    <3>1. SkipAttempt(r)
      BY <2>1 DEF ReserveBudget
    <3>2. Moved(r, Following(p), Contract!Idle)
      BY <1>1, <3>1, FollowingPlaced, CallIdle DEF SkipAttempt, Moved
    <3>3. left = Contract!Idle
      BY <2>1, SameTracker
    <3> QED BY <1>1, <3>2, <3>3, CallUpdate
  <2>2. CASE ~(asks /\ ~admitted /\ ~Last(r))
    <3> DEFINE held == IF asks /\ admitted THEN p.est ELSE 0
               q == [p EXCEPT !.pc = "slot", !.held = held]
    <3>1. req' = [req EXCEPT ![r].pc = "slot", ![r].held = held]
      BY <2>2 DEF ReserveBudget
    <3>2. req' = [req EXCEPT ![r] = q]
      BY <1>1, <3>1
    <3>3. q.pc = "slot" /\ q.chain = p.chain /\ q.i = p.i /\ q.est = p.est /\ q.held = held
      BY <1>1 DEF Handler
    <3> HIDE DEF q
    <3>4. CallAt(q) = [st |-> "sent", srv |-> srv, last |-> Last(r), budget |-> p.est, held |-> held]
      BY <3>3, CallOut DEF Srv, Last
    <3>5. left = [st |-> "sent", srv |-> srv, last |-> Last(r), budget |-> p.est, held |-> held]
      <4>1. CASE Contract!Admits(srv, p.est)
        <5>1. held = p.est
          BY <1>1, <4>1, SameTracker
        <5>2. left = [c EXCEPT !.st = "sent", !.budget = p.est, !.held = p.est]
          BY <4>1
        <5>3. left = [st |-> "sent", srv |-> srv, last |-> Last(r), budget |-> p.est, held |-> p.est]
          BY <5>2
        <5> QED BY <5>1, <5>3
      <4>2. CASE ~Contract!Admits(srv, p.est)
        <5>1. held = 0 /\ Last(r)
          BY <1>5, <2>2, <4>2, SameTracker
        <5>2. left = [c EXCEPT !.st = "sent", !.budget = p.est]
          BY <4>2, <5>1
        <5>3. left = [st |-> "sent", srv |-> srv, last |-> Last(r), budget |-> p.est, held |-> 0]
          BY <5>2
        <5> QED BY <5>1, <5>3
      <4> QED BY <4>1, <4>2
    <3> HIDE DEF left, held
    <3>6. Moved(r, q, left)
      BY <3>2, <3>4, <3>5 DEF Moved
    <3> QED BY <1>1, <3>6, CallUpdate
  <2> QED BY <2>1, <2>2
<1>7. c.srv = srv /\ c.st = "allowed"
  OBVIOUS
<1> HIDE DEF c
<1>8. /\ Contract!Reserve(c.srv, p.est)
      /\ call' = [call EXCEPT ![r] = IF Contract!Admits(c.srv, p.est)
                   THEN [c EXCEPT !.st = "sent", !.budget = p.est, !.held = p.est]
                   ELSE IF c.last THEN [c EXCEPT !.st = "sent", !.budget = p.est]
                   ELSE Contract!Idle]
  BY <1>4, <1>6, <1>7
<1>9. Contract!Send(r, p.est)
  BY <1>1, <1>3, <1>7, <1>8 DEF Contract!Send
<1> QED BY <1>1, <1>9 DEF Contract!UseNext


\* A request arrives, takes its slot, gives it back or concludes: the tracker
\* hears nothing of it.
LEMMA FrameContract ==
    ASSUME WalkInv, NEW r \in Request,
           \/ \E c \in Chains, e \in Estimates : Arrive(r, c, e)
           \/ TakeSlot(r) \/ Release(r) \/ Conclude(r)
    PROVE  UNCHANGED Contract!useVars
<1> DEFINE p == req[r]
<1>1. p \in Handler /\ req \in [Request -> Handler] /\ UNCHANGED <<now, quotaVars>>
  BY DEF WalkInv, RouterInv, TypeOK, Arrive, TakeSlot, Release, Conclude, trackers
<1>2. SUFFICES \E q : Moved(r, q, CallAt(p))
  BY <1>1, CallStutter
<1>3. ASSUME NEW c \in Chains, NEW e \in Estimates, Arrive(r, c, e)
      PROVE  \E q : Moved(r, q, CallAt(p))
  <2> DEFINE q == [Fresh EXCEPT !.pc = "health", !.chain = c, !.i = 1, !.est = e]
  <2>1. req' = [req EXCEPT ![r] = q] /\ p.pc = "idle"
    BY <1>3 DEF Arrive
  <2>2. q.pc = "health"
    BY DEF Fresh
  <2> HIDE DEF q
  <2>3. Moved(r, q, CallAt(p))
    BY <2>1, <2>2, CallIdle DEF Moved
  <2> QED BY <2>3
<1>4. CASE TakeSlot(r)
  <2> DEFINE q == [p EXCEPT !.pc = "proxy", !.retry = 0, !.tried = p.tried \cup {p.i}]
  <2>1. req' = [req EXCEPT ![r] = q] /\ p.pc = "slot"
    BY <1>1, <1>4 DEF TakeSlot
  <2>2. q.pc = "proxy" /\ q.i = p.i /\ q.chain = p.chain /\ q.est = p.est /\ q.held = p.held
    BY <1>1 DEF Handler
  <2> HIDE DEF q
  <2>3. CallAt(q) = CallAt(p)
    BY <2>1, <2>2, CallOut DEF Sending
  <2>4. Moved(r, q, CallAt(p))
    BY <2>1, <2>3 DEF Moved
  <2> QED BY <2>4
<1>5. CASE Release(r)
  <2> DEFINE q == [p EXCEPT !.pc = "complete", !.reply = NoReply, !.retry = 0]
  <2>1. req' = [req EXCEPT ![r] = q] /\ p.pc = "release"
    BY <1>1, <1>5 DEF Release
  <2>2. /\ q.pc = "complete" /\ q.i = p.i /\ q.chain = p.chain /\ q.out = p.out
        /\ q.est = p.est /\ q.held = p.held
    BY <1>1 DEF Handler
  <2> HIDE DEF q
  <2>3. CallSt(q) = CallSt(p)
    BY <2>1, <2>2 DEF CallSt, Sending
  <2>4. CallAt(q) = CallAt(p)
    BY <2>2, <2>3 DEF CallAt
  <2>5. Moved(r, q, CallAt(p))
    BY <2>1, <2>4 DEF Moved
  <2> QED BY <2>5
<1>6. CASE Conclude(r)
  <2> DEFINE m == IF p.refusal THEN 0 ELSE p.meta
             out == IF p.refusal THEN "refused"
                    ELSE IF p.answer > 0 THEN "answer" ELSE "badgateway"
             q == [p EXCEPT !.pc = "done", !.meta = m, !.out = out]
  <2>1. req' = [req EXCEPT ![r] = q] /\ p.pc = "conclude"
    BY <1>1, <1>6 DEF Conclude
  <2>2. q.pc = "done"
    BY <1>1 DEF Handler
  <2> HIDE DEF q
  <2>3. Moved(r, q, CallAt(p))
    BY <2>1, <2>2, CallIdle DEF Moved
  <2> QED BY <2>3
<1> QED BY <1>3, <1>4, <1>5, <1>6

\* While the attempt is out the tracker hears of it once: when it was served.
LEMMA SendingContract ==
    ASSUME WalkInv, UseQuota, NEW r \in Request,
           \/ \E reply \in Replies : ProxyReturns(r, reply)
           \/ ClientGone(r) \/ Retry(r)
           \/ OkHealth(r) \/ OkCount(r) \/ MidHealth(r) \/ FailHealth(r)
           \/ \E hint \in Hints : OkLimit(r, hint) \/ MidLimit(r, hint) \/ FailLimit(r, hint)
    PROVE  [Contract!UseNext]_(Contract!useVars)
<1> DEFINE p == req[r]
           call == [x \in Request |-> CallOf(x)]
           Out == (Sending \ {"release"}) \cup {"slot"}
<1>1. /\ p \in Handler /\ Walked(p) /\ req \in [Request -> Handler]
      /\ p.pc \in Out /\ UNCHANGED now
  BY DEF WalkInv, RouterInv, TypeOK, ProxyReturns, ClientGone, Retry, OkHealth, OkCount,
         MidHealth, FailHealth, OkLimit, MidLimit, FailLimit, Sending
<1>2. CallAt(p) = [st |-> "sent", srv |-> p.chain[p.i], last |-> (p.i = Len(p.chain)),
                   budget |-> p.est, held |-> p.held]
  BY <1>1, CallOut
<1>3. ASSUME NEW q, req' = [req EXCEPT ![r] = q], UNCHANGED quotaVars,
             q.i = p.i, q.chain = p.chain, q.est = p.est, q.held = p.held,
             q.pc \in Out \/ (q.pc = "release" /\ q.out # "served")
      PROVE  UNCHANGED Contract!useVars
  <2>1. CallAt(q) = CallAt(p)
    BY <1>2, <1>3, CallOut
  <2>2. Moved(r, q, CallAt(p))
    BY <1>3, <2>1 DEF Moved
  <2> QED BY <1>1, <1>3, <2>2, CallStutter
<1>4. ASSUME NEW pc \in Out, Goto(r, pc), UNCHANGED quotaVars
      PROVE  UNCHANGED Contract!useVars
  <2> DEFINE q == [p EXCEPT !.pc = pc]
  <2>1. req' = [req EXCEPT ![r] = q]
    BY <1>1, <1>4 DEF Goto
  <2>2. q.pc = pc /\ q.i = p.i /\ q.chain = p.chain /\ q.est = p.est /\ q.held = p.held
    BY <1>1 DEF Handler
  <2> HIDE DEF q
  <2> QED BY <1>3, <1>4, <2>1, <2>2
<1>5. ASSUME NEW then \in {"next", "done"}, NEW out \in {"gone", "midstream", "none"},
             req' = [req EXCEPT ![r] = [p EXCEPT !.pc = "release", !.then = then, !.out = out]],
             UNCHANGED quotaVars
      PROVE  UNCHANGED Contract!useVars
  <2> DEFINE q == [p EXCEPT !.pc = "release", !.then = then, !.out = out]
  <2>1. /\ q.pc = "release" /\ q.i = p.i /\ q.chain = p.chain /\ q.est = p.est /\ q.held = p.held
        /\ q.out = out
    BY <1>1 DEF Handler
  <2>2. req' = [req EXCEPT ![r] = q]
    BY <1>5
  <2> HIDE DEF q
  <2> QED BY <1>3, <1>5, <2>1, <2>2
<1>6. ASSUME NEW reply \in Replies, ProxyReturns(r, reply)
      PROVE  UNCHANGED Contract!useVars
  <2> DEFINE next == CASE reply.kind = "ok" -> "okHealth"
                       [] reply.kind = "mid" -> "midHealth"
                       [] OTHER -> IF p.retry < Budget(reply) THEN "backoff" ELSE "failHealth"
             err == p.err \/ reply.kind \in {"reset", "refused", "buffered"}
             broke == IF reply.kind \in {"mid", "reset", "refused"}
                      THEN p.broke \cup {p.i} ELSE p.broke
             answer == IF reply.kind = "buffered" THEN p.i ELSE p.answer
             q == [p EXCEPT !.pc = next, !.reply = reply, !.err = err,
                            !.broke = broke, !.answer = answer]
  <2>1. UNCHANGED quotaVars /\ req' = [req EXCEPT ![r] = q]
    BY <1>1, <1>6, ZenonT(60) DEF ProxyReturns, trackers
  <2>2. next \in Out
    BY DEF Sending
  <2> HIDE DEF next, err, broke, answer
  <2>3. q.pc = next /\ q.i = p.i /\ q.chain = p.chain /\ q.est = p.est /\ q.held = p.held
    BY <1>1 DEF Handler
  <2> HIDE DEF q
  <2> QED BY <1>3, <2>1, <2>2, <2>3
<1>7. CASE ClientGone(r)
  <2>1. /\ req' = [req EXCEPT ![r] = [p EXCEPT !.pc = "release", !.then = "done", !.out = "gone"]]
        /\ UNCHANGED quotaVars
    BY <1>1, <1>7 DEF ClientGone, trackers
  <2> QED BY <1>5, <2>1
<1>8. CASE Retry(r)
  <2> DEFINE q == [p EXCEPT !.pc = "proxy", !.retry = p.retry + 1]
  <2>1. req' = [req EXCEPT ![r] = q] /\ UNCHANGED quotaVars
    BY <1>1, <1>8 DEF Retry, trackers
  <2>2. q.pc = "proxy" /\ q.i = p.i /\ q.chain = p.chain /\ q.est = p.est /\ q.held = p.held
    BY <1>1 DEF Handler
  <2> HIDE DEF q
  <2> QED BY <1>3, <2>1, <2>2 DEF Sending
<1>9. CASE OkHealth(r)
  BY <1>4, <1>9 DEF OkHealth, Sending
<1>10. CASE OkCount(r)
  <2> DEFINE q == [p EXCEPT !.pc = "release", !.then = "done", !.out = "served"]
             c == [CallAt(p) EXCEPT !.st = "counted"]
  <2>1. req' = [req EXCEPT ![r] = q] /\ Quota!RecordRequest(Srv(r))
    BY <1>1, <1>10 DEF OkCount
  <2>2. /\ q.pc = "release" /\ q.i = p.i /\ q.chain = p.chain /\ q.out = "served"
        /\ q.est = p.est /\ q.held = p.held
    BY <1>1 DEF Handler
  <2> HIDE DEF q
  <2>3. CallSt(q) = "counted"
    BY <2>2 DEF CallSt, Sending
  <2>4. CallAt(q) = [st |-> "counted", srv |-> p.chain[p.i], last |-> (p.i = Len(p.chain)),
                     budget |-> p.est, held |-> p.held]
    BY <2>2, <2>3 DEF CallAt
  <2>5. CallAt(q) = c
    BY <1>2, <2>4
  <2> HIDE DEF c
  <2>6. Moved(r, q, c)
    BY <2>1, <2>5 DEF Moved
  <2>7. call' = [call EXCEPT ![r] = c]
    BY <1>1, <2>6, CallUpdate
  <2>8. call[r] = CallAt(p)
    BY CallMapped
  <2>9. call' = [call EXCEPT ![r].st = "counted"]
    BY <2>7, <2>8 DEF c
  <2>10. call[r].st = "sent" /\ call[r].srv = Srv(r)
    BY <1>2, <2>8 DEF Srv
  <2>11. Contract!Count(r)
    BY <1>1, <2>1, <2>9, <2>10, SameTracker DEF Contract!Count
  <2> QED BY <2>11 DEF Contract!UseNext
<1>11. CASE MidHealth(r)
  BY <1>4, <1>11 DEF MidHealth, Sending
<1>12. CASE FailHealth(r)
  BY <1>4, <1>12 DEF FailHealth, Sending
<1>13. ASSUME NEW hint \in Hints, OkLimit(r, hint) PROVE UNCHANGED Contract!useVars
  BY <1>4, <1>13 DEF OkLimit, Sending
<1>14. ASSUME NEW hint \in Hints, MidLimit(r, hint) PROVE UNCHANGED Contract!useVars
  <2>1. /\ req' = [req EXCEPT ![r] = [p EXCEPT !.pc = "release", !.then = "done", !.out = "midstream"]]
        /\ UNCHANGED quotaVars
    BY <1>1, <1>14 DEF MidLimit
  <2> QED BY <1>5, <2>1
<1>15. ASSUME NEW hint \in Hints, FailLimit(r, hint) PROVE UNCHANGED Contract!useVars
  <2>1. p.out = "none"
    BY <1>1, <1>15 DEF FailLimit, Walked, Ended
  <2>2. req' = [req EXCEPT ![r] = [p EXCEPT !.pc = "release", !.then = "next", !.out = p.out]]
    BY <1>1, <1>15 DEF FailLimit, Handler
  <2>3. UNCHANGED quotaVars
    BY <1>15 DEF FailLimit
  <2> QED BY <1>5, <2>1, <2>2, <2>3
<1> QED BY <1>6, <1>7, <1>8, <1>9, <1>10, <1>11, <1>12, <1>13, <1>14, <1>15

\* The teardown completes the attempt once, with what it reserved.
LEMMA CompleteContract ==
    ASSUME WalkInv, UseQuota, NEW r \in Request, NEW used \in Usages, CompleteQuota(r, used)
    PROVE  [Contract!UseNext]_(Contract!useVars)
<1> DEFINE p == req[r]
           n == [p EXCEPT !.held = 0]
           q == IF n.then = "done" THEN [n EXCEPT !.pc = "done"] ELSE Following(n)
           call == [x \in Request |-> CallOf(x)]
<1>1. /\ p \in Handler /\ Placed(p) /\ req \in [Request -> Handler]
      /\ p.pc = "complete" /\ UNCHANGED now
  BY DEF WalkInv, RouterInv, TypeOK, CompleteQuota
<1>2. req' = [req EXCEPT ![r] = q] /\ Quota!Complete(Srv(r), p.held, used)
  BY <1>1 DEF CompleteQuota
<1>3. n \in Handler /\ Placed(n) /\ n.pc = "complete"
  BY <1>1 DEF Placed, Handler
<1> HIDE DEF n
<1>4. q.pc \in {"done", "health", "conclude"}
  <2>1. CASE n.then = "done"
    BY <1>3, <2>1, JumpFields
  <2>2. CASE n.then # "done"
    BY <1>3, <2>2, FollowingPlaced
  <2> QED BY <2>1, <2>2
<1> HIDE DEF q
<1>5. Moved(r, q, Contract!Idle)
  BY <1>2, <1>4, CallIdle DEF Moved
<1>6. call' = [call EXCEPT ![r] = Contract!Idle]
  BY <1>1, <1>5, CallUpdate
<1>7. CallSt(p) \in {"sent", "counted"}
  BY <1>1 DEF CallSt, Sending
<1>8. call[r].st \in {"sent", "counted"} /\ call[r].srv = Srv(r) /\ call[r].held = p.held
  BY <1>7, CallMapped DEF CallAt, Srv
<1>9. Contract!Finish(r, used)
  BY <1>1, <1>2, <1>6, <1>8, SameTracker DEF Contract!Finish
<1> QED BY <1>9 DEF Contract!UseNext

\* Every step of the walk is a step of the contract or none.
LEMMA ContractStep ==
    ASSUME WalkInv, UseQuota, [Next]_vars
    PROVE  [Contract!UseNext]_(Contract!useVars)
<1>1. CASE \E r \in Request, c \in Chains, e \in Estimates : Arrive(r, c, e)
  BY <1>1, FrameContract
<1>2. ASSUME NEW r \in Request, Handle(r)
      PROVE  [Contract!UseNext]_(Contract!useVars)
  BY <1>2, GateContract, ReserveContract, FrameContract, SendingContract, CompleteContract
     DEF Handle
<1>3. CASE \/ \E r \in Request : ClientLeaves(r)
           \/ \E s \in Server : ProbeBack(s)
           \/ UNCHANGED vars
  <2>1. UNCHANGED <<req, now, quotaVars>>
    BY <1>3 DEF ClientLeaves, ProbeBack, vars, trackers
  <2>2. \A r \in Request : CallOf(r)' = CallOf(r)
    BY <2>1, CallMapped
  <2> QED BY <2>1, <2>2 DEF Contract!useVars, Contract!quotaVars, quotaVars
<1>4. CASE Tick
  <2>1. UNCHANGED <<req, quotaVars>> /\ now < MaxTime /\ now' = now + 1
    BY <1>4 DEF Tick, trackers
  <2>2. \A r \in Request : CallOf(r)' = CallOf(r)
    BY <2>1, CallMapped
  <2>3. Contract!Tick
    BY <2>1, <2>2 DEF Contract!Tick, Contract!quotaVars, quotaVars
  <2> QED BY <2>3 DEF Contract!UseNext
<1> QED BY <1>1, <1>2, <1>3, <1>4 DEF Next

\* The walk implements the contract the quota tracker's accounting rests on:
\* with a tracker installed, every attempt asks Allow, reserves at most once
\* before it is sent, is counted only when it is served, and is completed
\* exactly once with what it reserved, on every exit path of Handle.
THEOREM ContractHonoured == UseQuota => (Spec => QuotaContract)
<1> SUFFICES ASSUME UseQuota PROVE Spec => QuotaContract
  OBVIOUS
<1>1. ASSUME Init PROVE Contract!UseInit
  <2>1. \A r \in Request : CallOf(r) = Contract!Idle
    BY <1>1, CallMapped, CallIdle DEF Init, Fresh
  <2> QED BY <1>1, <2>1 DEF Init, Contract!UseInit, Contract!QuotaInit, Quota!QuotaInit
<1>2. WalkInv /\ [Next]_vars => [Contract!UseNext]_(Contract!useVars)
  BY ContractStep
<1> QED BY <1>1, <1>2, WalkInvariant, PTL DEF Spec, QuotaContract, Contract!UseSpec

=============================================================================
