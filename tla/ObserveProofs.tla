--------------------------- MODULE ObserveProofs ---------------------------
(***************************************************************************)
(* The rings, the capture window and the summaries tell the truth, for any *)
(* number of handlers, any ring sizes, windows and outcomes.               *)
(***************************************************************************)
EXTENDS Observe, FoldTheorems

-----------------------------------------------------------------------------
(* Arithmetic.                                                             *)

\* What Min and Max return for two numbers.
LEMMA MinMaxOfTwo ==
    ASSUME NEW a \in Int, NEW b \in Int
    PROVE  /\ Min({a, b}) = IF a <= b THEN a ELSE b
           /\ Max({a, b}) = IF a >= b THEN a ELSE b
<1>1. \E x \in {a, b} : \A y \in {a, b} : x <= y
  OBVIOUS
<1>2. \E x \in {a, b} : \A y \in {a, b} : x >= y
  OBVIOUS
<1>3. Min({a, b}) \in {a, b} /\ \A y \in {a, b} : Min({a, b}) <= y
  BY <1>1 DEF Min
<1>4. Max({a, b}) \in {a, b} /\ \A y \in {a, b} : Max({a, b}) >= y
  BY <1>2 DEF Max
<1> QED BY <1>3, <1>4

\* A position in a ring of size max.
Pos(x, max) == x % max

\* An index below twice the size of a ring wraps around once at most.
LEMMA Wrap ==
    ASSUME NEW max \in Nat \ {0}, NEW x \in 0 .. 2 * max - 1
    PROVE  Pos(x, max) = IF x < max THEN x ELSE x - max
BY DEF Pos

-----------------------------------------------------------------------------
(* A ring and the log it holds the end of.                                 *)

\* Where the oldest entry of a ring is.
Oldest(ring, max) == IF ring.count < max THEN 0 ELSE ring.index

\* The ring holds the last entries of the log, the oldest first.
RingOK(ring, max, log) ==
    /\ ring.count \in 0 .. max /\ ring.index \in 0 .. max - 1
    /\ DOMAIN ring.slot = 0 .. ring.count - 1
    /\ ring.count < max => ring.index = ring.count /\ ring.count = Len(log)
    /\ ring.count = max => Len(log) >= max
    /\ \A i \in 1 .. ring.count :
           ring.slot[Pos(Oldest(ring, max) + i - 1, max)] = log[Len(log) - ring.count + i]

\* A new ring belongs to an empty log.
LEMMA RingEmpty ==
    ASSUME NEW max \in Nat \ {0}
    PROVE  RingOK(EmptyRing, max, <<>>)
BY DEF RingOK, EmptyRing

\* Adding to the ring keeps up with appending to the log.
LEMMA RingAdds ==
    ASSUME NEW max \in Nat \ {0}, NEW S, NEW log \in Seq(S), NEW e \in S, NEW ring, RingOK(ring, max, log)
    PROVE  RingOK(RingAdd(ring, max, e), max, Append(log, e))
<1> DEFINE new == RingAdd(ring, max, e)
           lg == Append(log, e)
           n == ring.count
           k == ring.index
<1>1. /\ n \in 0 .. max /\ k \in 0 .. max - 1 /\ DOMAIN ring.slot = 0 .. n - 1
      /\ n < max => k = n /\ n = Len(log)
      /\ n = max => Len(log) >= max
      /\ Len(log) \in Nat
  BY DEF RingOK
<1>2. \A i \in 1 .. n : ring.slot[Pos(Oldest(ring, max) + i - 1, max)] = log[Len(log) - n + i]
  BY DEF RingOK
<1>3. /\ Len(lg) = Len(log) + 1 /\ lg[Len(log) + 1] = e
      /\ \A i \in 1 .. Len(log) : lg[i] = log[i]
  OBVIOUS
<1>4. /\ new.index = Pos(k + 1, max) /\ new.count = Min({n + 1, max})
      /\ new.slot = [i \in DOMAIN ring.slot \cup {k} |-> IF i = k THEN e ELSE ring.slot[i]]
  BY DEF RingAdd, Pos
<1>9. Oldest(ring, max) = IF n < max THEN 0 ELSE k
  BY DEF Oldest
<1> HIDE DEF n, k
<1>5. new.count = IF n < max THEN n + 1 ELSE max
  <2>1. n + 1 \in Int /\ max \in Int
    BY <1>1
  <2>2. Min({n + 1, max}) = IF n + 1 <= max THEN n + 1 ELSE max
    BY <2>1, MinMaxOfTwo
  <2> QED BY <1>1, <1>4, <2>2
<1>6. new.index = IF k + 1 < max THEN k + 1 ELSE 0
  <2>1. k + 1 \in 0 .. 2 * max - 1
    BY <1>1
  <2>2. Pos(k + 1, max) = IF k + 1 < max THEN k + 1 ELSE k + 1 - max
    BY <1>1, <2>1, Wrap
  <2> QED BY <1>1, <1>4, <2>2
<1>7. /\ DOMAIN new.slot = 0 .. new.count - 1 /\ new.slot[k] = e
      /\ \A i \in 0 .. n - 1 : i # k => new.slot[i] = ring.slot[i]
  <2>1. DOMAIN ring.slot \cup {k} = 0 .. new.count - 1
    BY <1>1, <1>5
  <2> QED BY <1>1, <1>4, <2>1
<1> HIDE DEF new, lg
<1>8. ASSUME NEW i \in 1 .. new.count
      PROVE  new.slot[Pos(Oldest(new, max) + i - 1, max)] = lg[Len(lg) - new.count + i]
  <2>1. CASE n < max
    <3>1. Oldest(ring, max) = 0 /\ Oldest(new, max) = 0 /\ new.count = n + 1
      BY <1>1, <1>5, <1>6, <1>9, <2>1 DEF Oldest
    <3>2. i - 1 \in 0 .. 2 * max - 1 /\ i - 1 < max
      BY <1>1, <2>1, <3>1
    <3>3. Pos(Oldest(new, max) + i - 1, max) = i - 1
      BY <3>1, <3>2, Wrap
    <3>4. CASE i = n + 1
      <4>1. i - 1 = k /\ Len(lg) - new.count + i = Len(log) + 1
        BY <1>1, <1>3, <2>1, <3>1, <3>4
      <4> QED BY <1>3, <1>7, <3>3, <4>1
    <3>5. CASE i <= n
      <4>1. Pos(Oldest(ring, max) + i - 1, max) = i - 1
        BY <3>1, <3>2, Wrap
      <4>2. new.slot[i - 1] = ring.slot[i - 1]
        BY <1>1, <1>7, <2>1, <3>5
      <4>3. ring.slot[i - 1] = log[Len(log) - n + i]
        BY <1>1, <1>2, <3>5, <4>1
      <4>4. Len(log) - n + i = Len(lg) - new.count + i /\ Len(log) - n + i \in 1 .. Len(log)
        BY <1>1, <1>3, <2>1, <3>1, <3>5
      <4> QED BY <1>3, <3>3, <4>2, <4>3, <4>4
    <3> QED BY <1>1, <3>1, <3>4, <3>5
  <2>2. CASE n = max
    <3>1. /\ Oldest(ring, max) = k /\ new.count = max
          /\ Oldest(new, max) = IF k + 1 < max THEN k + 1 ELSE 0
      BY <1>1, <1>5, <1>6, <1>9, <2>2 DEF Oldest
    <3> DEFINE at == Oldest(new, max) + i - 1
    <3>2. at \in 0 .. 2 * max - 1
      BY <1>1, <3>1
    <3>3. Pos(at, max) = IF at < max THEN at ELSE at - max
      BY <3>2, Wrap
    <3>4. CASE i = max
      <4>1. Pos(at, max) = k
        BY <1>1, <3>1, <3>3, <3>4
      <4>2. Len(lg) - new.count + i = Len(log) + 1
        BY <1>1, <1>3, <3>1, <3>4
      <4> QED BY <1>3, <1>7, <4>1, <4>2
    <3>5. CASE i < max
      <4> DEFINE old == k + (i + 1) - 1
      <4>1. old \in 0 .. 2 * max - 1
        BY <1>1, <3>1, <3>5
      <4>2. Pos(old, max) = IF old < max THEN old ELSE old - max
        BY <4>1, Wrap
      <4>3. Pos(at, max) = Pos(old, max) /\ Pos(old, max) # k /\ Pos(old, max) \in 0 .. n - 1
        BY <1>1, <2>2, <3>1, <3>3, <3>5, <4>2
      <4>4. ring.slot[Pos(old, max)] = log[Len(log) - n + (i + 1)]
        <5>1. i + 1 \in 1 .. n
          BY <1>1, <2>2, <3>1, <3>5
        <5>2. ring.slot[Pos(Oldest(ring, max) + (i + 1) - 1, max)] = log[Len(log) - n + (i + 1)]
          BY <1>2, <5>1
        <5> QED BY <3>1, <5>2
      <4>5. /\ Len(log) - n + (i + 1) = Len(lg) - new.count + i
            /\ Len(log) - n + (i + 1) \in 1 .. Len(log)
        BY <1>1, <1>3, <2>2, <3>1, <3>5
      <4> QED BY <1>3, <1>7, <4>3, <4>4, <4>5
    <3> QED BY <1>1, <3>1, <3>4, <3>5
  <2> QED BY <1>1, <2>1, <2>2
<1>10. RingOK(new, max, lg)
  <2>1. new.count \in 0 .. max /\ new.index \in 0 .. max - 1
    BY <1>1, <1>5, <1>6
  <2>2. /\ new.count < max => new.index = new.count /\ new.count = Len(lg)
        /\ new.count = max => Len(lg) >= max
    BY <1>1, <1>3, <1>5, <1>6
  <2> QED BY <1>7, <1>8, <2>1, <2>2 DEF RingOK
<1> QED BY <1>10 DEF new, lg

\* What List returns is the end of the log.
LEMMA RingLists ==
    ASSUME NEW max \in Nat \ {0}, NEW S, NEW log \in Seq(S), NEW ring, RingOK(ring, max, log)
    PROVE  RingList(ring, max) = LastOf(log, max)
<1> DEFINE n == ring.count
           from == IF Len(log) - max + 1 >= 1 THEN Len(log) - max + 1 ELSE 1
           last == LastOf(log, max)
           list == RingList(ring, max)
<1>1. /\ n \in 0 .. max /\ Len(log) \in Nat
      /\ n < max => n = Len(log)
      /\ n = max => Len(log) >= max
  BY DEF RingOK
<1>2. last = SubSeq(log, from, Len(log))
  <2> DEFINE a == Len(log) - max + 1
  <2>1. a \in Int /\ 1 \in Int
    BY <1>1
  <2>2. last = SubSeq(log, Max({a, 1}), Len(log))
    BY DEF LastOf
  <2>3. from = IF a >= 1 THEN a ELSE 1
    OBVIOUS
  <2> HIDE DEF a, from, last
  <2>4. Max({a, 1}) = from
    BY <2>1, <2>3, MinMaxOfTwo
  <2> QED BY <2>2, <2>4
<1>3. from = Len(log) - n + 1
  BY <1>1
<1>8. \A i \in 1 .. n : ring.slot[Pos(Oldest(ring, max) + i - 1, max)] = log[Len(log) - n + i]
  BY DEF RingOK
<1> HIDE DEF last, from
<1>5. list = [i \in 1 .. n |-> ring.slot[Pos(Oldest(ring, max) + i - 1, max)]]
  BY DEF RingList, Oldest, Pos
<1> HIDE DEF n, list
<1>4. /\ last \in Seq(S) /\ Len(last) = n
      /\ \A i \in 1 .. n : last[i] = log[Len(log) - n + i]
  <2>1. \A i \in from .. Len(log) : log[i] \in S
    BY <1>1, <1>3, ElementOfSeq
  <2>3. from \in Int /\ Len(log) \in Int
    BY <1>1, <1>3
  <2>2. /\ last \in Seq(S)
        /\ Len(last) = IF from <= Len(log) THEN Len(log) - from + 1 ELSE 0
        /\ \A i \in 1 .. Len(log) - from + 1 : last[i] = log[from + i - 1]
    BY <1>2, <2>1, <2>3, SubSeqProperties
  <2> QED BY <1>1, <1>3, <2>2
<1>6. \A i \in 1 .. n : list[i] = last[i]
  BY <1>4, <1>5, <1>8
<1>7. DOMAIN last = 1 .. n /\ last = [i \in 1 .. n |-> last[i]]
  BY <1>4
<1>9. list = last
  BY <1>5, <1>6, <1>7
<1> QED BY <1>9 DEF last, list

-----------------------------------------------------------------------------
(* The capture window and the captures.                                    *)

WindowType == [enabled : BOOLEAN, left : Int, models : SUBSET Model, servers : SUBSET Server]
Captures == [bytes : Int, kept : Int, binary : BOOLEAN]
HandlerType == [pc : {"idle", "routing", "answer", "trace", "leave"}, id : Nat, model : Model,
                server : Server \cup {""}, capture : Captures]
Entries == [id : Nat, shown : {"error", "nothing", "stub", "body"}, bytes : Nat, kept : Nat,
            truncated : BOOLEAN]

\* The window is the one the operator asked for, or has run out with it.
WindowOK ==
    /\ window \in WindowType /\ asked \in WindowType
    /\ asked.enabled => window = asked /\ asked.left # 0
    /\ ~asked.enabled => Expired(window) /\ asked.left = Never

Prefix(n) == IF n <= MaxResponseBytes THEN n ELSE MaxResponseBytes

\* A handler has a capture exactly when it was routed inside the window; the capture
\* keeps the longest prefix that fits.
HandlerOK(h, traced) ==
    /\ h.capture # NoCapture <=> traced
    /\ traced => /\ h.pc \in {"answer", "trace"} /\ h.capture.bytes \in Nat
                 /\ h.capture.kept = IF h.capture.binary THEN 0 ELSE Prefix(h.capture.bytes)

HandlersOK ==
    /\ handler \in [Handler -> HandlerType] /\ inside \subseteq Handler
    /\ \A q \in Handler : HandlerOK(handler[q], q \in inside)

TraceRingOK == traceLog \in Seq(Entries) /\ RingOK(entries, MaxTrace, traceLog) /\ EntriesHonest

TraceInv == WindowOK /\ HandlersOK /\ TraceRingOK /\ started \in Nat

\* A step of one handler.
LEMMA Moved ==
    ASSUME HandlersOK, NEW q \in Handler, NEW h \in HandlerType,
           handler' = [handler EXCEPT ![q] = h],
           inside' \in {inside, inside \cup {q}, inside \ {q}},
           HandlerOK(h, q \in inside')
    PROVE  HandlersOK'
<1>1. handler' \in [Handler -> HandlerType] /\ inside' \subseteq Handler
  BY DEF HandlersOK
<1>2. /\ handler'[q] = h /\ \A p \in Handler : p # q => handler'[p] = handler[p]
  BY DEF HandlersOK
<1>3. \A p \in Handler : p # q => (p \in inside' <=> p \in inside)
  BY DEF HandlersOK
<1>4. ASSUME NEW p \in Handler PROVE HandlerOK(handler'[p], p \in inside')
  <2>1. CASE p = q
    BY <1>2, <2>1
  <2>2. CASE p # q
    BY <1>2, <1>3, <2>2 DEF HandlersOK, HandlerOK
  <2> QED BY <2>1, <2>2
<1> QED BY <1>1, <1>4 DEF HandlersOK, HandlerOK, NoCapture, Prefix

\* A handler without a capture: not started, or on its way out.
LEMMA Untraced ==
    ASSUME HandlersOK, NEW q \in Handler, handler[q].pc \in {"idle", "routing", "leave"}
    PROVE  q \notin inside /\ handler[q].capture = NoCapture /\ inside = inside \ {q}
BY DEF HandlersOK, HandlerOK

\* The window and the operator's agree on every request.
LEMMA ArmedAlike ==
    ASSUME WindowOK, NEW m, NEW s
    PROVE  Armed(window, m, s) <=> Armed(asked, m, s)
BY DEF WindowOK, WindowType, Armed, Expired

\* A window that is disarmed, or looked at, stays a window.
LEMMA WindowsKept ==
    ASSUME NEW w \in WindowType
    PROVE  /\ Disarmed(w) \in WindowType /\ ~Disarmed(w).enabled /\ Disarmed(w).left = Never
           /\ expireLocked(w) \in WindowType
           /\ Expired(w) => Expired(expireLocked(w))
           /\ ~Expired(w) => expireLocked(w) = w
<1>1. Disarmed(w) \in WindowType /\ ~Disarmed(w).enabled /\ Disarmed(w).left = Never
  <2>1. Never \in Int /\ FALSE \in BOOLEAN
    BY DEF Never
  <2>2. Disarmed(w) = [w EXCEPT !.enabled = FALSE, !.left = Never]
    BY DEF Disarmed
  <2> QED BY <2>1, <2>2 DEF WindowType
<1>2. CASE w.enabled /\ w.left = 0
  BY <1>1, <1>2 DEF expireLocked, Expired
<1>3. CASE ~(w.enabled /\ w.left = 0)
  BY <1>1, <1>3 DEF expireLocked, Expired
<1> QED BY <1>2, <1>3, <1>1

\* A window the operator arms has not run out.
LEMMA WindowArmed ==
    ASSUME NEW c \in Windows
    PROVE  Armed0(c) \in WindowType /\ Armed0(c).enabled /\ Armed0(c).left # 0
BY ObserveAssumption DEF WindowType, Armed0, Never

\* What a chunk does to a capture, and what becomes of it as an entry.
LEMMA ChunkKept ==
    ASSUME NEW c \in Captures, NEW n \in 1 .. 2, c.bytes \in Nat,
           c.kept = IF c.binary THEN 0 ELSE Prefix(c.bytes)
    PROVE  LET d == WriteResponse(c, n) IN
           /\ d \in Captures /\ d.bytes \in Nat
           /\ d.kept = IF d.binary THEN 0 ELSE Prefix(d.bytes)
<1> DEFINE room == MaxResponseBytes - c.kept
           more == Max({room, 0})
           add == Min({n, more})
<1>1. MaxResponseBytes \in Nat
  BY ObserveAssumption
<1>2. c.kept \in Nat /\ c.kept <= MaxResponseBytes
  BY <1>1 DEF Prefix
<1>3. room \in Nat
  BY <1>1, <1>2
<1>4. more = room
  <2> HIDE DEF room
  <2>1. room \in Int /\ 0 \in Int
    BY <1>3
  <2>2. Max({room, 0}) = IF room >= 0 THEN room ELSE 0
    BY <2>1, MinMaxOfTwo
  <2> QED BY <1>3, <2>2
<1> HIDE DEF more
<1>5. add = IF n <= room THEN n ELSE room
  <2>1. more \in Int /\ n \in Int
    BY <1>3, <1>4
  <2>2. Min({n, more}) = IF n <= more THEN n ELSE more
    BY <2>1, MinMaxOfTwo
  <2> QED BY <1>4, <2>2
<1> DEFINE d == WriteResponse(c, n)
<1>6. d = [c EXCEPT !.bytes = c.bytes + n, !.kept = IF c.binary THEN c.kept ELSE c.kept + add]
  BY DEF WriteResponse, more
<1> HIDE DEF add
<1>7. /\ d.bytes = c.bytes + n /\ d.binary = c.binary
      /\ d.kept = IF c.binary THEN c.kept ELSE c.kept + add
  BY <1>6 DEF Captures
<1>8. d.bytes \in Nat
  BY <1>7
<1>9. d.kept = IF d.binary THEN 0 ELSE Prefix(d.bytes)
  BY <1>1, <1>2, <1>5, <1>7 DEF Prefix
<1>10. add \in Int
  BY <1>3, <1>5
<1>11. d \in Captures
  <2>1. c.bytes + n \in Int /\ (IF c.binary THEN c.kept ELSE c.kept + add) \in Int
    BY <1>2, <1>10
  <2> QED BY <1>6, <2>1 DEF Captures
<1> QED BY <1>8, <1>9, <1>11

\* The entry of a traced handler is honest.
LEMMA EntryHonest ==
    ASSUME HandlersOK, NEW q \in Handler, q \in inside, NEW b \in BOOLEAN
    PROVE  LET e == Entry(q, b) IN
           /\ e \in Entries
           /\ e.shown = "body" => /\ e.kept = Min({e.bytes, MaxResponseBytes})
                                  /\ e.truncated <=> e.bytes > MaxResponseBytes
<1> DEFINE c == handler[q].capture
           e == Entry(q, b)
<1>1. MaxResponseBytes \in Nat
  BY ObserveAssumption
<1>2. c \in Captures /\ c.bytes \in Nat /\ handler[q].id \in Nat
      /\ c.kept = IF c.binary THEN 0 ELSE Prefix(c.bytes)
  BY DEF HandlersOK, HandlerOK, HandlerType
<1> DEFINE shown == IF c.bytes = 0 THEN IF b THEN "error" ELSE "nothing"
                    ELSE IF c.binary THEN "stub" ELSE "body"
<1>3. e = [id |-> handler[q].id, shown |-> shown, bytes |-> c.bytes, kept |-> c.kept,
           truncated |-> shown = "body" /\ c.bytes > c.kept]
  BY DEF Entry
<1>4. shown \in {"error", "nothing", "stub", "body"} /\ (shown = "body" => ~c.binary)
  OBVIOUS
<1> HIDE DEF shown, c
<1>5. c.kept \in Nat
  BY <1>1, <1>2 DEF Prefix
<1>6. e \in Entries
  <2>1. (shown = "body" /\ c.bytes > c.kept) \in BOOLEAN
    OBVIOUS
  <2> QED BY <1>2, <1>3, <1>4, <1>5, <2>1 DEF Entries
<1>7. ASSUME e.shown = "body"
      PROVE  e.kept = Min({e.bytes, MaxResponseBytes}) /\ (e.truncated <=> e.bytes > MaxResponseBytes)
  <2>1. /\ e.kept = c.kept /\ e.bytes = c.bytes /\ e.truncated = (shown = "body" /\ c.bytes > c.kept)
        /\ e.shown = shown
    BY <1>3
  <2>2. c.kept = Prefix(c.bytes)
    BY <1>2, <1>4, <1>7, <2>1
  <2>3. Min({c.bytes, MaxResponseBytes}) = Prefix(c.bytes)
    <3>1. c.bytes \in Int /\ MaxResponseBytes \in Int
      BY <1>1, <1>2
    <3>2. Min({c.bytes, MaxResponseBytes}) = IF c.bytes <= MaxResponseBytes THEN c.bytes ELSE MaxResponseBytes
      BY <3>1, MinMaxOfTwo
    <3> QED BY <3>2 DEF Prefix
  <2>4. c.bytes > c.kept <=> c.bytes > MaxResponseBytes
    BY <1>1, <1>2, <2>2 DEF Prefix
  <2> QED BY <1>7, <2>1, <2>2, <2>3, <2>4
<1> QED BY <1>6, <1>7

\* The trace grows by an honest entry.
LEMMA TraceGrows ==
    ASSUME TraceRingOK, HandlersOK, NEW q \in Handler, q \in inside, NEW b \in BOOLEAN,
           entries' = RingAdd(entries, MaxTrace, Entry(q, b)), traceLog' = Append(traceLog, Entry(q, b))
    PROVE  TraceRingOK'
<1> DEFINE e == Entry(q, b)
<1>1. e \in Entries /\ (e.shown = "body" => /\ e.kept = Min({e.bytes, MaxResponseBytes})
                                            /\ e.truncated <=> e.bytes > MaxResponseBytes)
  BY EntryHonest
<1> HIDE DEF e
<1>2. MaxTrace \in Nat \ {0} /\ traceLog \in Seq(Entries) /\ RingOK(entries, MaxTrace, traceLog)
  BY ObserveAssumption DEF TraceRingOK
<1>3. traceLog' = Append(traceLog, e) /\ entries' = RingAdd(entries, MaxTrace, e)
  BY DEF e
<1>4. RingOK(entries', MaxTrace, traceLog')
  BY <1>1, <1>2, <1>3, RingAdds
<1>5. traceLog' \in Seq(Entries)
  BY <1>1, <1>2, <1>3
<1>6. EntriesHonest'
  <2> SUFFICES ASSUME NEW i \in DOMAIN traceLog', traceLog'[i].shown = "body"
               PROVE  /\ traceLog'[i].kept = Min({traceLog'[i].bytes, MaxResponseBytes})
                      /\ traceLog'[i].truncated <=> traceLog'[i].bytes > MaxResponseBytes
    BY DEF EntriesHonest
  <2>1. i \in 1 .. Len(traceLog) + 1
    BY <1>1, <1>2, <1>3
  <2>2. CASE i = Len(traceLog) + 1
    <3>1. traceLog'[i] = e
      BY <1>1, <1>2, <1>3, <2>2
    <3> QED BY <1>1, <2>2, <3>1
  <2>3. CASE i \in 1 .. Len(traceLog)
    <3>1. traceLog'[i] = traceLog[i] /\ i \in DOMAIN traceLog
      BY <1>1, <1>2, <1>3, <2>3
    <3> QED BY <3>1 DEF TraceRingOK, EntriesHonest
  <2>4. Len(traceLog) \in Nat
    BY <1>2
  <2>5. i = Len(traceLog) + 1 \/ i \in 1 .. Len(traceLog)
    BY <2>1, <2>4
  <2> QED BY <2>2, <2>3, <2>5, Zenon
<1> QED BY <1>4, <1>5, <1>6 DEF TraceRingOK, RingOK, Oldest

\* The handler a request starts from.
LEMMA IdleIs ==
    Idle \in HandlerType /\ Idle.pc = "idle" /\ Idle.capture = NoCapture
<1>1. NoCapture \in Captures
  BY DEF NoCapture, Captures
<1>2. (CHOOSE x \in Model : TRUE) \in Model
  BY ObserveAssumption
<1> QED BY <1>1, <1>2 DEF Idle, HandlerType

\* A handler moves on, its capture untouched.
LEMMA MovesOn ==
    ASSUME HandlersOK, NEW q \in Handler, NEW to \in {"routing", "answer", "trace", "leave"},
           q \in inside => to \in {"answer", "trace"},
           handler' = [handler EXCEPT ![q].pc = to], inside' = inside
    PROVE  HandlersOK'
<1> DEFINE h == [handler[q] EXCEPT !.pc = to]
<1>1. handler[q] \in HandlerType /\ HandlerOK(handler[q], q \in inside)
  BY DEF HandlersOK
<1>2. h \in HandlerType /\ h.pc = to /\ h.capture = handler[q].capture
  BY <1>1 DEF HandlerType
<1>3. handler' = [handler EXCEPT ![q] = h]
  BY DEF HandlersOK
<1>4. HandlerOK(h, q \in inside')
  BY <1>1, <1>2 DEF HandlerOK
<1> HIDE DEF h
<1> QED BY <1>2, <1>3, <1>4, Moved

\* Every step keeps the window, the captures and the ring of the trace.
LEMMA TraceStep ==
    ASSUME TraceInv, [ObserveNext]_observeVars
    PROVE  TraceInv'
<1> USE DEF TraceInv
<1>1. CASE UNCHANGED observeVars
  BY <1>1 DEF observeVars, traceVars, WindowOK, HandlersOK, HandlerOK, TraceRingOK, RingOK, Oldest,
              EntriesHonest
<1>2. ASSUME UNCHANGED <<handler, inside>> PROVE HandlersOK'
  BY <1>2 DEF HandlersOK, HandlerOK
<1>3. ASSUME UNCHANGED traceVars PROVE TraceRingOK'
  BY <1>3 DEF traceVars, TraceRingOK, RingOK, Oldest, EntriesHonest
<1>4. ASSUME UNCHANGED <<window, asked>> PROVE WindowOK'
  BY <1>4 DEF WindowOK, Expired
<1>5. CASE \E c \in Windows : StartTrace(c)
  <2>1. PICK c \in Windows : StartTrace(c)
    BY <1>5
  <2>2. WindowOK'
    BY <2>1, WindowArmed DEF StartTrace, WindowOK
  <2> QED BY <1>2, <1>3, <2>1, <2>2 DEF StartTrace
<1>6. CASE StopTrace
  <2>1. window' = Disarmed(window) /\ asked' = Disarmed(asked)
    BY <1>6 DEF StopTrace
  <2>2. WindowOK'
    BY <2>1, WindowsKept DEF WindowOK, Expired
  <2> QED BY <1>2, <1>3, <1>6, <2>2 DEF StopTrace
<1>7. ASSUME window' = expireLocked(window), asked' = asked PROVE WindowOK'
  <2>1. CASE asked.enabled
    <3>1. ~Expired(window)
      BY <2>1 DEF WindowOK, Expired
    <3>2. window' = window
      BY <1>7, <3>1, WindowsKept DEF WindowOK
    <3> QED BY <1>4, <1>7, <3>2
  <2>2. CASE ~asked.enabled
    <3>1. Expired(expireLocked(window)) /\ expireLocked(window) \in WindowType
      BY <2>2, WindowsKept DEF WindowOK
    <3> QED BY <1>7, <2>2, <3>1 DEF WindowOK, Expired
  <2> QED BY <2>1, <2>2
<1>8. CASE PollTrace
  BY <1>2, <1>3, <1>7, <1>8 DEF PollTrace
<1>9. CASE ResetTrace
  <2>1. entries' = EmptyRing /\ traceLog' = <<>> /\ UNCHANGED <<window, handler, asked, inside, started>>
    BY <1>9 DEF ResetTrace
  <2>2. RingOK(entries', MaxTrace, traceLog')
    BY <2>1, RingEmpty, ObserveAssumption
  <2>3. traceLog' \in Seq(Entries) /\ EntriesHonest'
    BY <2>1, EmptySeq DEF EntriesHonest
  <2>4. TraceRingOK'
    BY <2>2, <2>3 DEF TraceRingOK, RingOK, Oldest
  <2> QED BY <1>2, <1>4, <2>1, <2>4
<1>10. CASE ResetMetrics
  BY <1>2, <1>3, <1>4, <1>10 DEF ResetMetrics
<1>11. CASE Tick
  <2>1. /\ asked.left > 0
        /\ window' = [window EXCEPT !.left = IF @ > 0 THEN @ - 1 ELSE @]
        /\ asked' = IF asked.left = 1 THEN Disarmed(asked) ELSE [asked EXCEPT !.left = @ - 1]
    BY <1>11 DEF Tick
  <2>2. asked.enabled /\ window = asked /\ asked \in WindowType
    BY <2>1 DEF WindowOK, Never
  <2>3. window' = [asked EXCEPT !.left = asked.left - 1]
    BY <2>1, <2>2
  <2>4. window' \in WindowType /\ window'.left = asked.left - 1 /\ window'.enabled = asked.enabled
    <3>1. asked.left - 1 \in Int /\ asked.enabled \in BOOLEAN /\ asked.models \in SUBSET Model
          /\ asked.servers \in SUBSET Server
          /\ asked = [enabled |-> asked.enabled, left |-> asked.left, models |-> asked.models,
                       servers |-> asked.servers]
      BY <2>2 DEF WindowType
    <3>2. window' = [enabled |-> asked.enabled, left |-> asked.left - 1, models |-> asked.models,
                     servers |-> asked.servers]
      BY <2>3, <3>1
    <3> QED BY <3>1, <3>2 DEF WindowType
  <2>5. CASE asked.left = 1
    <3>1. Expired(window')
      BY <2>4, <2>5 DEF Expired
    <3>2. asked' = Disarmed(asked)
      BY <2>1, <2>5
    <3>3. asked' \in WindowType /\ ~asked'.enabled /\ asked'.left = Never
      BY <2>2, <3>2, WindowsKept
    <3>4. WindowOK'
      BY <2>4, <3>1, <3>3 DEF WindowOK, Expired
    <3> QED BY <1>2, <1>3, <1>11, <3>4 DEF Tick
  <2>6. CASE asked.left # 1
    <3>1. asked' = window'
      BY <2>1, <2>3, <2>6
    <3>2. asked.left \in Int
      BY <2>2 DEF WindowType
    <3>3. asked'.left # 0 /\ asked'.enabled
      BY <2>1, <2>2, <2>4, <2>6, <3>1, <3>2
    <3>4. WindowOK'
      BY <2>4, <3>1, <3>3 DEF WindowOK
    <3> QED BY <1>2, <1>3, <1>11, <3>4 DEF Tick
  <2> QED BY <2>5, <2>6
<1>12. ASSUME NEW q \in Handler, Handle(q) PROVE TraceInv'
  <2>1. CASE \E x \in Model : Arrive(q, x)
    <3>1. PICK x \in Model : Arrive(q, x)
      BY <2>1
    <3> DEFINE h == [Idle EXCEPT !.pc = "routing", !.id = started + 1, !.model = x]
    <3>2. handler' = [handler EXCEPT ![q] = h] /\ inside' = inside /\ handler[q].pc = "idle"
      BY <3>1 DEF Arrive, At
    <3>3. h \in HandlerType /\ h.capture = NoCapture
      <4>1. started + 1 \in Nat /\ x \in Model
        OBVIOUS
      <4>2. Idle \in HandlerType /\ Idle.capture = NoCapture
        BY IdleIs
      <4> HIDE DEF Idle
      <4> QED BY <4>1, <4>2 DEF HandlerType
    <3> HIDE DEF h
    <3>4. q \notin inside'
      BY <3>2, Untraced
    <3>5. HandlerOK(h, q \in inside')
      BY <3>3, <3>4 DEF HandlerOK
    <3>6. HandlersOK'
      BY <3>2, <3>3, <3>5, Moved
    <3> QED BY <1>3, <1>4, <3>1, <3>6 DEF Arrive
  <2>2. CASE \E s \in Server : Route(q, s)
    <3>1. PICK s \in Server : Route(q, s)
      BY <2>2
    <3> DEFINE on == Armed(window, handler[q].model, s)
               c == [bytes |-> 0, kept |-> 0, binary |-> s \in AudioServer]
               h == [handler[q] EXCEPT !.pc = "answer", !.server = s, !.capture = IF on THEN c ELSE NoCapture]
    <3>2. /\ handler[q].pc = "routing" /\ window' = expireLocked(window)
          /\ inside' = (IF Armed(asked, handler[q].model, s) THEN inside \cup {q} ELSE inside)
          /\ UNCHANGED <<traceVars, asked, started>>
      BY <3>1 DEF Route, At
    <3>3. handler' = [handler EXCEPT ![q] = h]
      BY <3>1 DEF Route, HandlersOK
    <3>4. on <=> Armed(asked, handler[q].model, s)
      BY ArmedAlike
    <3>5. q \notin inside
      BY <3>2, Untraced
    <3>6. q \in inside' <=> on
      BY <3>2, <3>4, <3>5
    <3>7. c \in Captures /\ c # NoCapture /\ NoCapture \in Captures /\ c.bytes = 0 /\ c.kept = 0
      BY DEF Captures, NoCapture
    <3> HIDE DEF on, c
    <3>8. /\ h \in HandlerType /\ h.pc = "answer" /\ h.capture = IF on THEN c ELSE NoCapture
      BY <3>7 DEF HandlersOK, HandlerType
    <3> HIDE DEF h
    <3>9. Prefix(0) = 0
      BY ObserveAssumption DEF Prefix
    <3>10. HandlerOK(h, q \in inside')
      BY <3>6, <3>7, <3>8, <3>9 DEF HandlerOK
    <3>11. HandlersOK'
      BY <3>2, <3>3, <3>8, <3>10, Moved
    <3> QED BY <1>3, <1>7, <3>2, <3>11
  <2>3. CASE \E n \in 1 .. 2 : Chunk(q, n)
    <3>1. PICK n \in 1 .. 2 : Chunk(q, n)
      BY <2>3
    <3> DEFINE c == handler[q].capture
               d == WriteResponse(c, n)
               h == [handler[q] EXCEPT !.capture = d]
    <3>2. handler[q].pc = "answer" /\ c # NoCapture /\ inside' = inside
      BY <3>1 DEF Chunk, At
    <3>3. handler' = [handler EXCEPT ![q] = h]
      BY <3>1 DEF Chunk, HandlersOK
    <3>4. /\ q \in inside /\ c \in Captures /\ c.bytes \in Nat /\ handler[q] \in HandlerType
          /\ c.kept = IF c.binary THEN 0 ELSE Prefix(c.bytes)
      BY <3>2 DEF HandlersOK, HandlerOK, HandlerType
    <3> HIDE DEF c
    <3>5. d \in Captures /\ d.bytes \in Nat /\ d.kept = IF d.binary THEN 0 ELSE Prefix(d.bytes)
      BY <3>4, ChunkKept
    <3> HIDE DEF d
    <3>6. d # NoCapture
      BY <3>5 DEF NoCapture
    <3>7. h \in HandlerType /\ h.capture = d /\ h.pc = handler[q].pc
      BY <3>4, <3>5 DEF HandlerType
    <3> HIDE DEF h
    <3>8. HandlerOK(h, q \in inside')
      BY <3>2, <3>4, <3>5, <3>6, <3>7 DEF HandlerOK
    <3>9. HandlersOK'
      BY <3>2, <3>3, <3>7, <3>8, Moved
    <3> QED BY <1>3, <1>4, <3>1, <3>9 DEF Chunk
  <2>4. CASE \E b \in BOOLEAN : RecordTrace(q, b)
    <3>1. PICK b \in BOOLEAN : RecordTrace(q, b)
      BY <2>4
    <3> DEFINE h == [handler[q] EXCEPT !.pc = "leave", !.capture = NoCapture]
    <3>2. inside' = inside \ {q} /\ UNCHANGED <<window, asked, started>>
      BY <3>1 DEF RecordTrace
    <3>3. handler' = [handler EXCEPT ![q] = h]
      BY <3>1 DEF RecordTrace, HandlersOK
    <3>4. h \in HandlerType /\ h.capture = NoCapture
      <4>1. handler[q] \in HandlerType
        BY DEF HandlersOK
      <4>2. NoCapture \in Captures
        BY DEF NoCapture, Captures
      <4> QED BY <4>1, <4>2 DEF HandlerType
    <3> HIDE DEF h
    <3>5. HandlerOK(h, q \in inside')
      BY <3>2, <3>4 DEF HandlerOK
    <3>6. HandlersOK'
      BY <3>2, <3>3, <3>4, <3>5, Moved
    <3>7. CASE handler[q].capture = NoCapture
      BY <1>3, <1>4, <3>1, <3>2, <3>6, <3>7 DEF RecordTrace
    <3>8. CASE handler[q].capture # NoCapture
      <4>1. q \in inside
        BY <3>8 DEF HandlersOK, HandlerOK
      <4>2. TraceRingOK'
        BY <3>1, <3>8, <4>1, TraceGrows DEF RecordTrace
      <4> QED BY <1>4, <3>2, <3>6, <4>2
    <3> QED BY <3>7, <3>8
  <2>5. CASE Leave(q)
    <3>1. handler' = [handler EXCEPT ![q] = Idle] /\ inside' = inside /\ handler[q].pc = "leave"
      BY <2>5 DEF Leave, At
    <3>2. q \notin inside'
      BY <3>1, Untraced
    <3>3. HandlerOK(Idle, q \in inside')
      BY <3>2, IdleIs DEF HandlerOK
    <3>4. HandlersOK'
      BY <3>1, <3>3, IdleIs, Moved
    <3> QED BY <1>3, <1>4, <2>5, <3>4 DEF Leave
  <2>6. CASE \E s, o : Record(q, s, o)
    <3>1. PICK s, o : Record(q, s, o)
      BY <2>6
    <3>2. handler[q].pc = "answer" /\ handler' = [handler EXCEPT ![q].pc = "trace"] /\ inside' = inside
      BY <3>1 DEF Record, At, To
    <3>3. HandlersOK'
      BY <3>2, MovesOn
    <3> QED BY <1>3, <1>4, <3>1, <3>3 DEF Record
  <2>7. CASE NoRoute(q) \/ Blocked(q)
    <3>1. /\ handler[q].pc = "routing" /\ handler' = [handler EXCEPT ![q].pc = "leave"]
          /\ UNCHANGED <<traceVars, window, asked, inside, started>>
      BY <2>7 DEF NoRoute, Blocked, At, To
    <3>2. q \notin inside
      BY <3>1, Untraced
    <3>3. HandlersOK'
      BY <3>1, <3>2, MovesOn
    <3> QED BY <1>3, <1>4, <3>1, <3>3
  <2>8. CASE \E x, o : LocalAnswer(q, x, o)
    BY <1>2, <1>3, <1>4, <2>8 DEF LocalAnswer
  <2> QED BY <1>12, <2>1, <2>2, <2>3, <2>4, <2>5, <2>6, <2>7, <2>8 DEF Handle
<1> QED BY <1>1, <1>5, <1>6, <1>8, <1>9, <1>10, <1>11, <1>12 DEF ObserveNext, Operator

\* The window, the captures and the ring are right from the start on.
LEMMA TraceStarts == ObserveInit => TraceInv
<1> SUFFICES ASSUME ObserveInit PROVE TraceInv
  OBVIOUS
<1>1. WindowOK
  <2>1. (CHOOSE c \in Windows : TRUE) \in Windows
    BY ObserveAssumption
  <2>2. CASE window \in {Armed0(c) : c \in Windows}
    BY <2>2, WindowArmed DEF ObserveInit, WindowOK
  <2>3. CASE window = Disarmed(Armed0(CHOOSE c \in Windows : TRUE))
    <3>1. window \in WindowType /\ ~window.enabled /\ window.left = Never
      BY <2>1, <2>3, WindowArmed, WindowsKept
    <3> QED BY <3>1 DEF ObserveInit, WindowOK, Expired
  <2> QED BY <2>2, <2>3 DEF ObserveInit
<1>2. HandlersOK
  BY IdleIs DEF ObserveInit, HandlersOK, HandlerOK
<1>3. TraceRingOK
  BY RingEmpty, EmptySeq, ObserveAssumption DEF ObserveInit, TraceRingOK, EntriesHonest
<1> QED BY <1>1, <1>2, <1>3 DEF ObserveInit, TraceInv

\* trace/store.go and trace/capture.go: the trace lists exactly the requests that
\* were routed inside the operator's window, the newest in their order, and every
\* entry says what it lost, for any ring size, window and body limit.
THEOREM TraceTells == ObserveSpec => []TraceFaithful
<1>1. TraceInv /\ [ObserveNext]_observeVars => TraceInv'
  BY TraceStep
<1>2. TraceInv => TraceFaithful
  <2> SUFFICES ASSUME TraceInv PROVE TraceFaithful
    OBVIOUS
  <2>1. TracesInOrder
    BY RingLists, ObserveAssumption DEF TraceInv, TraceRingOK, TracesInOrder
  <2>2. TracedIffInside
    BY DEF TraceInv, HandlersOK, HandlerOK, TracedIffInside
  <2> QED BY <2>1, <2>2 DEF TraceInv, TraceRingOK, TraceFaithful
<1> QED BY <1>1, <1>2, TraceStarts, PTL DEF ObserveSpec

-----------------------------------------------------------------------------
(* Counting the entries of a log.                                          *)

\* A recorded request.
Metrics == [id : Nat, model : Model, server : Server \cup {"router", ""}, class : {"chat", "count_tokens"},
            status : Nat, latency : Nat, fallback : BOOLEAN, api : {"openai", "anthropic"},
            prompt : Nat, cached : Int, created : Nat]

\* Where the log has an element of S.
Hits(log, S) == {i \in DOMAIN log : log[i] \in S}
HowMany(log, S) == Cardinality(Hits(log, S))

\* Appending counts one more where it is one.
LEMMA HitsGrow ==
    ASSUME NEW E, NEW log \in Seq(E), NEW m \in E, NEW S
    PROVE  /\ Hits(Append(log, m), S) = Hits(log, S) \cup (IF m \in S THEN {Len(log) + 1} ELSE {})
           /\ HowMany(log, S) \in Nat
           /\ HowMany(Append(log, m), S) = HowMany(log, S) + IF m \in S THEN 1 ELSE 0
           /\ \A i \in DOMAIN log : Append(log, m)[i] = log[i]
           /\ Append(log, m)[Len(log) + 1] = m
<1>1. /\ Len(log) \in Nat /\ DOMAIN log = 1 .. Len(log) /\ DOMAIN Append(log, m) = 1 .. Len(log) + 1
      /\ \A i \in 1 .. Len(log) : Append(log, m)[i] = log[i]
      /\ Append(log, m)[Len(log) + 1] = m
  BY AppendProperties, LenProperties
<1>2. Hits(Append(log, m), S) = Hits(log, S) \cup (IF m \in S THEN {Len(log) + 1} ELSE {})
  BY <1>1 DEF Hits
<1>3. IsFiniteSet(Hits(log, S)) /\ HowMany(log, S) \in Nat
  <2>1. Hits(log, S) \subseteq 1 .. Len(log) /\ IsFiniteSet(1 .. Len(log))
    BY <1>1, FS_Interval DEF Hits
  <2> QED BY <2>1, FS_Subset, FS_CardinalityType DEF HowMany
<1>4. CASE m \in S
  <2>1. Len(log) + 1 \notin Hits(log, S)
    BY <1>1 DEF Hits
  <2>2. Hits(Append(log, m), S) = Hits(log, S) \cup {Len(log) + 1}
    BY <1>2, <1>4
  <2>3. HowMany(Append(log, m), S) = HowMany(log, S) + 1
    BY <1>3, <2>1, <2>2, FS_AddElement DEF HowMany
  <2> QED BY <1>1, <1>2, <1>3, <1>4, <2>3
<1>5. CASE m \notin S
  <2>1. Hits(Append(log, m), S) = Hits(log, S)
    BY <1>2, <1>5
  <2>2. HowMany(Append(log, m), S) = HowMany(log, S)
    BY <2>1 DEF HowMany
  <2> QED BY <1>1, <1>2, <1>3, <1>5, <2>2
<1> QED BY <1>4, <1>5

-----------------------------------------------------------------------------
(* One summary.                                                            *)

Of(k) == {m \in Metrics : k \in SummaryKeys(m)}
OfClass(k, c) == {m \in Of(k) : StatusClass(m.status) = c}
Within(k, b) == {m \in Of(k) : m.latency <= LatencyBuckets[b]}

\* The backends answer with a final status, and report a cache read inside the prompt
\* where their convention says so.
OutcomesSound ==
    \A o \in Outcomes : o.status \notin 1 .. 199 /\ (o.api = "openai" => o.cached <= o.prompt)

SoundMetric(m) == m \in Metrics /\ m.status \notin 1 .. 199 /\ (m.api = "openai" => m.cached <= m.prompt)

\* The longest latency of the group.
MaxOK(max, log, S) ==
    /\ max \in Nat
    /\ \A i \in Hits(log, S) : log[i].latency <= max
    /\ Hits(log, S) # {} => \E i \in Hits(log, S) : log[i].latency = max
    /\ Hits(log, S) = {} => max = 0

\* The summary of k is that of the entries of the log that belong to k.
SummaryOK(sum, k, log) ==
    /\ sum.total = HowMany(log, Of(k))
    /\ sum.class \in [Classes -> Nat] /\ \A c \in Classes : sum.class[c] = HowMany(log, OfClass(k, c))
    /\ sum.success = sum.class["2xx"] /\ sum.error = sum.total - sum.success
    /\ sum.buckets \in [1 .. Len(LatencyBuckets) + 1 -> Nat] /\ sum.buckets[Len(LatencyBuckets) + 1] = sum.total
    /\ \A b \in 1 .. Len(LatencyBuckets) : sum.buckets[b] = HowMany(log, Within(k, b))
    /\ MaxOK(sum.max, log, Of(k))
    /\ sum.cached \in Int /\ sum.input \in Int /\ sum.cached <= sum.input

\* An entry of another group leaves the summary right.
LEMMA SummaryKept ==
    ASSUME NEW log \in Seq(Metrics), NEW m \in Metrics, NEW k, k \notin SummaryKeys(m), NEW sum, SummaryOK(sum, k, log)
    PROVE  SummaryOK(sum, k, Append(log, m))
<1> DEFINE lg == Append(log, m)
<1>1. ASSUME NEW S, m \notin S PROVE HowMany(lg, S) = HowMany(log, S) /\ Hits(lg, S) = Hits(log, S)
  <2>1. Hits(lg, S) = Hits(log, S) \cup {}
    BY <1>1, HitsGrow, Zenon
  <2> QED BY <2>1 DEF HowMany
<1>2. \A i \in DOMAIN log : lg[i] = log[i]
  BY HitsGrow
<1>3. m \notin Of(k) /\ (\A c : m \notin OfClass(k, c)) /\ \A b : m \notin Within(k, b)
  BY DEF Of, OfClass, Within
<1> HIDE DEF lg
<1>4. MaxOK(sum.max, lg, Of(k))
  <2>1. Hits(lg, Of(k)) = Hits(log, Of(k)) /\ \A i \in Hits(log, Of(k)) : lg[i] = log[i]
    BY <1>1, <1>2, <1>3 DEF Hits
  <2> QED BY <2>1 DEF MaxOK, SummaryOK
<1>5. HowMany(lg, Of(k)) = HowMany(log, Of(k)) /\ (\A c : HowMany(lg, OfClass(k, c)) = HowMany(log, OfClass(k, c)))
      /\ \A b : HowMany(lg, Within(k, b)) = HowMany(log, Within(k, b))
  BY <1>1, <1>3
<1>6. SummaryOK(sum, k, lg)
  BY <1>4, <1>5 DEF SummaryOK
<1> QED BY <1>6 DEF lg

\* The summary of a group that has no entry yet.
LEMMA SummaryNew ==
    ASSUME NEW log \in Seq(Metrics), NEW k, Hits(log, Of(k)) = {}
    PROVE  SummaryOK(NoSummary, k, log)
<1>1. ASSUME NEW S, S \subseteq Of(k) PROVE Hits(log, S) = {} /\ HowMany(log, S) = 0
  <2>1. Hits(log, S) = {}
    BY <1>1 DEF Hits
  <2> QED BY <2>1, FS_EmptySet DEF HowMany
<1>2. HowMany(log, Of(k)) = 0 /\ (\A c : HowMany(log, OfClass(k, c)) = 0) /\ \A b : HowMany(log, Within(k, b)) = 0
  <2>1. (\A c : OfClass(k, c) \subseteq Of(k)) /\ \A b : Within(k, b) \subseteq Of(k)
    BY DEF OfClass, Within
  <2> QED BY <1>1, <2>1
<1>3. Len(LatencyBuckets) \in Nat
  BY ObserveAssumption
<1>4. MaxOK(0, log, Of(k))
  BY <1>1 DEF MaxOK
<1>5. /\ NoSummary.total = 0 /\ NoSummary.success = 0 /\ NoSummary.error = 0 /\ NoSummary.max = 0
      /\ NoSummary.input = 0 /\ NoSummary.cached = 0 /\ NoSummary.class = [c \in Classes |-> 0]
      /\ NoSummary.buckets = [i \in 1 .. Len(LatencyBuckets) + 1 |-> 0]
  BY DEF NoSummary
<1>6. "2xx" \in Classes
  BY DEF Classes
<1> QED BY <1>2, <1>3, <1>4, <1>5, <1>6 DEF SummaryOK

\* A sound report has no more from the cache than its whole input.
LEMMA InputCovers ==
    ASSUME NEW m, SoundMetric(m)
    PROVE  Max({m.cached, 0}) \in Nat /\ InputContext(m) \in Nat /\ Max({m.cached, 0}) <= InputContext(m)
<1>1. m.cached \in Int /\ m.prompt \in Nat /\ m.created \in Nat /\ m.api \in {"openai", "anthropic"}
      /\ (m.api = "openai" => m.cached <= m.prompt)
  BY DEF SoundMetric, Metrics
<1> DEFINE c == Max({m.cached, 0})
<1>2. c = IF m.cached >= 0 THEN m.cached ELSE 0
  <2> DEFINE a == m.cached
  <2>1. a \in Int /\ 0 \in Int
    BY <1>1
  <2> HIDE DEF a
  <2>2. Max({a, 0}) = IF a >= 0 THEN a ELSE 0
    BY <2>1, MinMaxOfTwo
  <2> QED BY <2>2 DEF a
<1>3. InputContext(m) = m.prompt + IF m.api = "anthropic" THEN c + m.created ELSE 0
  BY DEF InputContext
<1> HIDE DEF c
<1>4. c \in Nat /\ InputContext(m) \in Nat /\ c <= InputContext(m)
  BY <1>1, <1>2, <1>3
<1> QED BY <1>4 DEF c

\* A status of a final answer is a success exactly in the class of successes.
LEMMA ClassOf ==
    ASSUME NEW m, SoundMetric(m)
    PROVE  StatusClass(m.status) \in Classes /\ (m.status \in 200 .. 299 <=> StatusClass(m.status) = "2xx")
<1>1. m.status \in Nat /\ m.status \notin 1 .. 199
  BY DEF SoundMetric, Metrics
<1>2. ASSUME NEW st \in Nat, st \notin 1 .. 199
      PROVE  StatusClass(st) \in Classes /\ (st \in 200 .. 299 <=> StatusClass(st) = "2xx")
  <2>1. CASE st = 0
    <3>1. StatusClass(st) = "transport"
      BY <2>1 DEF StatusClass
    <3> QED BY <2>1, <3>1 DEF Classes
  <2>2. CASE st \in 200 .. 299
    <3>1. st # 0 /\ st \in 1 .. 299 /\ st \notin 300 .. 399 /\ st \notin 400 .. 499
      BY <2>2
    <3>2. StatusClass(st) = "2xx"
      BY <3>1 DEF StatusClass
    <3> QED BY <2>2, <3>2 DEF Classes
  <2>3. CASE st \in 300 .. 399
    <3>1. st # 0 /\ st \notin 1 .. 299 /\ st \in 300 .. 399 /\ st \notin 400 .. 499 /\ st \notin 200 .. 299
      BY <2>3
    <3>2. StatusClass(st) = "3xx"
      BY <3>1 DEF StatusClass
    <3> QED BY <3>1, <3>2 DEF Classes
  <2>4. CASE st \in 400 .. 499
    <3>1. st # 0 /\ st \notin 1 .. 299 /\ st \notin 300 .. 399 /\ st \in 400 .. 499 /\ st \notin 200 .. 299
      BY <2>4
    <3>2. StatusClass(st) = "4xx"
      BY <3>1 DEF StatusClass
    <3> QED BY <3>1, <3>2 DEF Classes
  <2>5. CASE st >= 500
    <3>1. st # 0 /\ st \notin 1 .. 299 /\ st \notin 300 .. 399 /\ st \notin 400 .. 499 /\ st \notin 200 .. 299
      BY <2>5
    <3>2. StatusClass(st) = "5xx"
      BY <3>1 DEF StatusClass
    <3> QED BY <3>1, <3>2 DEF Classes
  <2> QED BY <1>2, <2>1, <2>2, <2>3, <2>4, <2>5
<1> QED BY <1>1, <1>2

\* The longest latency keeps up.
LEMMA MaxGrows ==
    ASSUME NEW log \in Seq(Metrics), NEW m \in Metrics, NEW S, m \in S, NEW max, MaxOK(max, log, S)
    PROVE  MaxOK(Max({max, m.latency}), Append(log, m), S)
<1> DEFINE lg == Append(log, m)
           top == Max({max, m.latency})
<1>1. max \in Nat /\ m.latency \in Nat
  BY DEF MaxOK, Metrics
<1>2. top = IF max >= m.latency THEN max ELSE m.latency
  <2> DEFINE a == m.latency
  <2>1. a \in Int /\ max \in Int
    BY <1>1
  <2> HIDE DEF a
  <2>2. Max({max, a}) = IF max >= a THEN max ELSE a
    BY <2>1, MinMaxOfTwo
  <2> QED BY <2>2 DEF a
<1>3. Hits(lg, S) = Hits(log, S) \cup {Len(log) + 1} /\ lg[Len(log) + 1] = m /\ \A i \in DOMAIN log : lg[i] = log[i]
  <2>1. Hits(lg, S) = Hits(log, S) \cup (IF m \in S THEN {Len(log) + 1} ELSE {})
    BY HitsGrow
  <2>2. lg[Len(log) + 1] = m /\ \A i \in DOMAIN log : lg[i] = log[i]
    BY HitsGrow
  <2> QED BY <2>1, <2>2
<1>4. \A i \in Hits(log, S) : lg[i] = log[i] /\ log[i].latency <= max /\ log[i].latency \in Nat
  <2>1. \A i \in DOMAIN log : log[i] \in Metrics
    BY LenProperties, ElementOfSeq
  <2> QED BY <1>3, <2>1 DEF Hits, MaxOK, Metrics
<1> HIDE DEF lg, top
<1>5. \A i \in Hits(lg, S) : lg[i].latency <= top
  BY <1>1, <1>2, <1>3, <1>4
<1>6. \E i \in Hits(lg, S) : lg[i].latency = top
  <2>1. CASE top = m.latency
    BY <1>3, <2>1
  <2>2. CASE top # m.latency
    <3>1. top = max /\ max > m.latency
      BY <1>1, <1>2, <2>2
    <3>2. Hits(log, S) # {}
      BY <1>1, <3>1 DEF MaxOK
    <3>3. PICK i \in Hits(log, S) : log[i].latency = max
      BY <3>2 DEF MaxOK
    <3> QED BY <1>3, <1>4, <3>1, <3>3
  <2> QED BY <2>1, <2>2
<1>7. top \in Nat
  BY <1>1, <1>2
<1>8. MaxOK(top, lg, S)
  BY <1>5, <1>6, <1>7 DEF MaxOK
<1> QED BY <1>8 DEF top, lg

\* updateSummary keeps the summary of a group that of its entries.
LEMMA SummaryGrows ==
    ASSUME NEW log \in Seq(Metrics), NEW m, SoundMetric(m), NEW k, k \in SummaryKeys(m), NEW sum, SummaryOK(sum, k, log)
    PROVE  SummaryOK(updateSummary(sum, m), k, Append(log, m))
<1> DEFINE lg == Append(log, m)
           new == updateSummary(sum, m)
           n == Len(LatencyBuckets)
           class == StatusClass(m.status)
           ok == m.status \in 200 .. 299
<1>1. m \in Metrics /\ m \in Of(k) /\ n \in Nat /\ m.latency \in Nat
  <2>1. m \in Metrics /\ m \in Of(k)
    BY DEF SoundMetric, Of
  <2>2. n \in Nat
    BY ObserveAssumption, LenProperties
  <2>3. m.latency \in Nat
    BY <2>1 DEF Metrics
  <2> QED BY <2>1, <2>2, <2>3
<1>2. \A S : HowMany(log, S) \in Nat /\ HowMany(lg, S) = HowMany(log, S) + IF m \in S THEN 1 ELSE 0
  BY <1>1, HitsGrow
<1>3. class \in Classes /\ (ok <=> class = "2xx")
  BY ClassOf
<1>4. /\ new.total = sum.total + 1
      /\ new.success = sum.success + (IF ok THEN 1 ELSE 0)
      /\ new.error = sum.error + (IF ok THEN 0 ELSE 1)
      /\ new.class = [sum.class EXCEPT ![class] = @ + 1]
      /\ new.buckets = AddLatencyBucket(sum.buckets, m.latency)
      /\ new.max = Max({sum.max, m.latency})
      /\ new.input = sum.input + InputContext(m)
      /\ new.cached = sum.cached + Max({m.cached, 0})
  BY DEF updateSummary
<1> HIDE DEF lg, new, n, class, ok
<1>5. new.total = HowMany(lg, Of(k)) /\ sum.total \in Nat
  BY <1>1, <1>2, <1>4 DEF SummaryOK
<1>6. /\ new.class \in [Classes -> Nat] /\ \A c \in Classes : new.class[c] = HowMany(lg, OfClass(k, c))
      /\ \A c \in Classes : new.class[c] = IF c = class THEN sum.class[c] + 1 ELSE sum.class[c]
  <2>1. sum.class \in [Classes -> Nat] /\ \A c \in Classes : sum.class[c] = HowMany(log, OfClass(k, c))
    BY DEF SummaryOK
  <2>2. \A c \in Classes : m \in OfClass(k, c) <=> c = class
    BY <1>1 DEF OfClass, class
  <2>3. /\ new.class \in [Classes -> Nat]
        /\ \A c \in Classes : new.class[c] = IF c = class THEN sum.class[c] + 1 ELSE sum.class[c]
    BY <1>3, <1>4, <2>1
  <2>4. ASSUME NEW c \in Classes PROVE new.class[c] = HowMany(lg, OfClass(k, c))
    <3>1. HowMany(lg, OfClass(k, c)) = HowMany(log, OfClass(k, c)) + IF m \in OfClass(k, c) THEN 1 ELSE 0
      BY <1>2
    <3>2. sum.class[c] = HowMany(log, OfClass(k, c)) /\ sum.class[c] \in Nat
      BY <2>1
    <3> QED BY <2>2, <2>3, <3>1, <3>2
  <2> QED BY <2>3, <2>4
<1>7. new.success = new.class["2xx"] /\ new.error = new.total - new.success
  <2>1. sum.success = sum.class["2xx"] /\ sum.error = sum.total - sum.success /\ sum.class["2xx"] \in Nat /\ "2xx" \in Classes
    BY DEF SummaryOK, Classes
  <2>2. new.class["2xx"] = IF "2xx" = class THEN sum.class["2xx"] + 1 ELSE sum.class["2xx"]
    BY <1>6, <2>1
  <2> QED BY <1>3, <1>4, <1>5, <2>1, <2>2
<1>8. /\ new.buckets \in [1 .. n + 1 -> Nat] /\ new.buckets[n + 1] = new.total
      /\ \A b \in 1 .. n : new.buckets[b] = HowMany(lg, Within(k, b))
  <2>1. /\ sum.buckets \in [1 .. n + 1 -> Nat] /\ sum.buckets[n + 1] = sum.total
        /\ \A b \in 1 .. n : sum.buckets[b] = HowMany(log, Within(k, b))
    BY DEF SummaryOK, n
  <2>2. Len(sum.buckets) = n + 1
    BY <1>1, <2>1
  <2>3. new.buckets = [i \in 1 .. n + 1 |-> IF i = n + 1 \/ m.latency <= LatencyBuckets[i] THEN sum.buckets[i] + 1 ELSE sum.buckets[i]]
    BY <1>4, <2>1, <2>2 DEF AddLatencyBucket
  <2>4. new.buckets \in [1 .. n + 1 -> Nat] /\ new.buckets[n + 1] = sum.buckets[n + 1] + 1
    BY <1>1, <2>1, <2>3
  <2>5. ASSUME NEW b \in 1 .. n PROVE new.buckets[b] = HowMany(lg, Within(k, b))
    <3>1. HowMany(lg, Within(k, b)) = HowMany(log, Within(k, b)) + IF m \in Within(k, b) THEN 1 ELSE 0
      BY <1>2
    <3>2. m \in Within(k, b) <=> m.latency <= LatencyBuckets[b]
      BY <1>1 DEF Within
    <3>3. b \in 1 .. n + 1 /\ b # n + 1 /\ sum.buckets[b] = HowMany(log, Within(k, b)) /\ sum.buckets[b] \in Nat
      BY <1>1, <2>1
    <3>4. new.buckets[b] = IF m.latency <= LatencyBuckets[b] THEN sum.buckets[b] + 1 ELSE sum.buckets[b]
      BY <2>3, <3>3
    <3> QED BY <3>1, <3>2, <3>3, <3>4
  <2> QED BY <1>4, <2>1, <2>4, <2>5
<1>9. MaxOK(new.max, lg, Of(k))
  BY <1>1, <1>4, MaxGrows DEF SummaryOK, lg
<1>10. new.cached \in Int /\ new.input \in Int /\ new.cached <= new.input
  <2> DEFINE c == Max({m.cached, 0})
             i == InputContext(m)
  <2>1. c \in Nat /\ i \in Nat /\ c <= i
    BY InputCovers
  <2>2. sum.cached \in Int /\ sum.input \in Int /\ sum.cached <= sum.input
    BY DEF SummaryOK
  <2>3. new.input = sum.input + i /\ new.cached = sum.cached + c
    BY <1>4
  <2> HIDE DEF c, i
  <2> QED BY <2>1, <2>2, <2>3
<1>11. SummaryOK(new, k, lg)
  BY <1>5, <1>6, <1>7, <1>8, <1>9, <1>10 DEF SummaryOK, n
<1> QED BY <1>11 DEF new, lg

-----------------------------------------------------------------------------
(* The groups.                                                             *)

Kinds == {"model", "server", "target", "class"}

\* The key of a metric in each kind of group.
KeyOf(m, kind) ==
    IF kind = "model" THEN <<"model", m.model>>
    ELSE IF kind = "server" THEN <<"server", m.server>>
    ELSE IF kind = "target" THEN <<"target", m.server, m.model>>
    ELSE <<"class", m.class>>

Group(kind, dom) == {k \in dom : k[1] = kind}
Totals(kind, sums) == [k \in Group(kind, DOMAIN sums) |-> sums[k].total]

\* A metric has one key of each kind.
LEMMA OneOfEach ==
    ASSUME NEW m
    PROVE  /\ SummaryKeys(m) = {KeyOf(m, kind) : kind \in Kinds}
           /\ \A kind \in Kinds : KeyOf(m, kind)[1] = kind
           /\ IsFiniteSet(SummaryKeys(m))
<1>1. \A kind \in Kinds : KeyOf(m, kind)[1] = kind
  BY DEF Kinds, KeyOf
<1>2. /\ KeyOf(m, "model") = <<"model", m.model>> /\ KeyOf(m, "server") = <<"server", m.server>>
      /\ KeyOf(m, "target") = <<"target", m.server, m.model>> /\ KeyOf(m, "class") = <<"class", m.class>>
  BY DEF KeyOf
<1>3. SummaryKeys(m) = {KeyOf(m, "model"), KeyOf(m, "server"), KeyOf(m, "target"), KeyOf(m, "class")}
  BY <1>2 DEF SummaryKeys
<1>4. SummaryKeys(m) = {KeyOf(m, kind) : kind \in Kinds}
  BY <1>3 DEF Kinds
<1>5. \A a, b, c, d : IsFiniteSet({a, b, c, d})
  <2> TAKE a, b, c, d
  <2>1. {a, b, c, d} = (({a} \cup {b}) \cup {c}) \cup {d}
    OBVIOUS
  <2>2. IsFiniteSet({a}) /\ IsFiniteSet({a} \cup {b})
    BY FS_Singleton, FS_AddElement
  <2>3. IsFiniteSet(({a} \cup {b}) \cup {c})
    BY <2>2, FS_AddElement
  <2>4. IsFiniteSet((({a} \cup {b}) \cup {c}) \cup {d})
    BY <2>3, FS_AddElement
  <2> QED BY <2>1, <2>4
<1>6. IsFiniteSet(SummaryKeys(m))
  <2>1. IsFiniteSet({KeyOf(m, "model"), KeyOf(m, "server"), KeyOf(m, "target"), KeyOf(m, "class")})
    BY <1>5, Zenon
  <2> QED BY <1>3, <2>1
<1> QED BY <1>1, <1>4, <1>6

\* The sum GroupsAddUp speaks of.
LEMMA TotalsAre ==
    ASSUME IsFiniteSet(DOMAIN summaries), NEW kind, Totals(kind, summaries) \in [Group(kind, DOMAIN summaries) -> Int]
    PROVE  MapThenSumSet(LAMBDA x : summaries[x].total, {k \in DOMAIN summaries : k[1] = kind})
           = SumOver(Group(kind, DOMAIN summaries), Totals(kind, summaries))
<1> DEFINE S == {k \in DOMAIN summaries : k[1] = kind}
           f == Totals(kind, summaries)
           g == PartsSum(S, f)
           c == CHOOSE h : h = [R \in SUBSET S |->
                    IF R = {} THEN 0
                    ELSE summaries[CHOOSE x \in R : TRUE].total + h[R \ {CHOOSE x \in R : TRUE}]]
<1>1. MapThenSumSet(LAMBDA x : summaries[x].total, S) = c[S]
  BY Zenon DEF MapThenSumSet, MapThenFoldSet
<1>2. S = Group(kind, DOMAIN summaries) /\ IsFiniteSet(S)
  <2>1. S \subseteq DOMAIN summaries
    OBVIOUS
  <2> QED BY <2>1, FS_Subset DEF Group
<1> HIDE DEF S
<1>3. f \in [S -> Int] /\ \A x \in S : f[x] = summaries[x].total
  BY <1>2 DEF Totals
<1> HIDE DEF f
<1>4. IsSum(g, S, f)
  BY <1>2, <1>3, PartsSummed
<1> HIDE DEF g
<1>5. g = [R \in SUBSET S |-> IF R = {} THEN 0
                             ELSE summaries[CHOOSE x \in R : TRUE].total + g[R \ {CHOOSE x \in R : TRUE}]]
  <2>1. ASSUME NEW R \in SUBSET S, R # {}
        PROVE  g[R] = summaries[CHOOSE x \in R : TRUE].total + g[R \ {CHOOSE x \in R : TRUE}]
    <3>1. (CHOOSE x \in R : TRUE) \in S /\ g[R] = f[CHOOSE x \in R : TRUE] + g[R \ {CHOOSE x \in R : TRUE}]
      BY <1>4, <2>1 DEF IsSum
    <3> QED BY <1>3, <3>1
  <2> QED BY <1>4, <2>1 DEF IsSum
<1>6. c = [R \in SUBSET S |-> IF R = {} THEN 0
                             ELSE summaries[CHOOSE x \in R : TRUE].total + c[R \ {CHOOSE x \in R : TRUE}]]
  BY <1>5, Zenon
<1> HIDE DEF c
<1>7. c[S] = SumOver(S, f)
  <2>1. c[{}] = 0
    BY <1>6
  <2>2. ASSUME NEW R \in SUBSET S, R # {}
        PROVE  c[R] = f[CHOOSE x \in R : TRUE] + c[R \ {CHOOSE x \in R : TRUE}]
    <3>1. (CHOOSE x \in R : TRUE) \in S
      BY <2>2
    <3>2. c[R] = summaries[CHOOSE x \in R : TRUE].total + c[R \ {CHOOSE x \in R : TRUE}]
      BY <1>6, <2>2
    <3> QED BY <1>3, <3>1, <3>2
  <2>3. IsFiniteSet(S) /\ f \in [S -> Int]
    BY <1>2, <1>3
  <2> QED BY <2>1, <2>2, <2>3, SumIs
<1> QED BY <1>1, <1>2, <1>7 DEF f, S

\* The summaries after m was added to them.
Added(sums, m) ==
    [k \in DOMAIN sums \cup SummaryKeys(m) |->
        LET old == IF k \in DOMAIN sums THEN sums[k] ELSE NoSummary
        IN  IF k \in SummaryKeys(m) THEN updateSummary(old, m) ELSE old]

\* The summaries are those of the log, and the groups of each kind add up to it.
SummariesOK(sums, log) ==
    /\ IsFiniteSet(DOMAIN sums)
    /\ \A k \in DOMAIN sums : SummaryOK(sums[k], k, log) /\ sums[k].total \in Nat
    /\ \A i \in DOMAIN log : SummaryKeys(log[i]) \subseteq DOMAIN sums
    /\ \A kind \in Kinds : SumOver(Group(kind, DOMAIN sums), Totals(kind, sums)) = Len(log)

\* The groups of one kind add up to one more.
LEMMA GroupGrows ==
    ASSUME NEW log \in Seq(Metrics), NEW m, NEW sums, SummariesOK(sums, log), NEW kind \in Kinds
    PROVE  SumOver(Group(kind, DOMAIN Added(sums, m)), Totals(kind, Added(sums, m))) = Len(log) + 1
<1> DEFINE new == Added(sums, m)
           S == Group(kind, DOMAIN sums)
           T == Group(kind, DOMAIN new)
           f == Totals(kind, sums)
           g == Totals(kind, new)
           z == KeyOf(m, kind)
<1>1. z \in SummaryKeys(m) /\ z[1] = kind /\ \A y \in SummaryKeys(m) : y[1] = kind => y = z
  BY OneOfEach
<1>2. /\ DOMAIN new = DOMAIN sums \cup SummaryKeys(m)
      /\ \A k \in DOMAIN sums : k \notin SummaryKeys(m) => new[k] = sums[k]
      /\ z \in DOMAIN sums => new[z] = updateSummary(sums[z], m)
      /\ z \notin DOMAIN sums => new[z] = updateSummary(NoSummary, m)
  BY <1>1 DEF Added
<1>3. /\ \A sum : updateSummary(sum, m).total = sum.total + 1
      /\ NoSummary.total = 0
  BY DEF updateSummary, NoSummary
<1>4. IsFiniteSet(S) /\ S \subseteq DOMAIN sums /\ f \in [S -> Int] /\ \A k \in S : f[k] = sums[k].total
  <2>1. S \subseteq DOMAIN sums
    BY DEF Group
  <2>2. IsFiniteSet(S)
    BY <2>1, FS_Subset DEF SummariesOK
  <2>3. f = [k \in S |-> sums[k].total]
    BY DEF Totals
  <2>4. \A k \in S : sums[k].total \in Int
    BY <2>1 DEF SummariesOK
  <2> QED BY <2>1, <2>2, <2>3, <2>4
<1>5. T = S \cup {z} /\ (z \in S <=> z \in DOMAIN sums) /\ \A k \in S : k # z => k \notin SummaryKeys(m)
  BY <1>1, <1>2 DEF Group
<1>6. g = [k \in T |-> new[k].total]
  BY DEF Totals
<1>7. SumOver(S, f) = Len(log) /\ Len(log) \in Nat
  BY LenProperties DEF SummariesOK
<1> HIDE DEF new, S, T, f, g, z
<1>8. \A k \in S : k # z => new[k].total = f[k]
  BY <1>2, <1>4, <1>5
<1>9. CASE z \in S
  <2>1. T = S /\ new[z].total = f[z] + 1
    BY <1>2, <1>3, <1>4, <1>5, <1>9
  <2>2. g \in [S -> Int] /\ g[z] = f[z] + 1 /\ \A y \in S : y # z => g[y] = f[y]
    BY <1>4, <1>6, <1>8, <1>9, <2>1
  <2>3. SumOver(S, g) = SumOver(S, f) + g[z] - f[z]
    BY <1>4, <1>9, <2>2, SumUpdate
  <2>4. f[z] \in Int
    BY <1>4, <1>9
  <2>5. SumOver(S, g) = Len(log) + 1
    BY <1>7, <2>2, <2>3, <2>4
  <2> QED BY <2>1, <2>5 DEF T, g, new
<1>10. CASE z \notin S
  <2>1. new[z].total = 0 + 1
    BY <1>2, <1>3, <1>5, <1>10
  <2>2. g \in [S \cup {z} -> Int] /\ g[z] = 1 /\ \A y \in S : g[y] = f[y]
    BY <1>4, <1>5, <1>6, <1>8, <1>10, <2>1
  <2>3. SumOver(S \cup {z}, g) = SumOver(S, f) + g[z]
    BY <1>4, <1>10, <2>2, SumExtend
  <2>4. SumOver(T, g) = Len(log) + 1
    BY <1>5, <1>7, <2>2, <2>3
  <2> QED BY <2>4 DEF T, g, new
<1> QED BY <1>9, <1>10

\* metrics.Add keeps the summaries those of the log.
LEMMA SummariesGrow ==
    ASSUME NEW log \in Seq(Metrics), NEW m, SoundMetric(m), NEW sums, SummariesOK(sums, log)
    PROVE  SummariesOK(Added(sums, m), Append(log, m))
<1> DEFINE new == Added(sums, m)
           lg == Append(log, m)
<1>1. m \in Metrics
  BY DEF SoundMetric
<1>2. DOMAIN new = DOMAIN sums \cup SummaryKeys(m)
  BY DEF Added
<1>3. IsFiniteSet(DOMAIN new)
  <2>1. IsFiniteSet(DOMAIN sums) /\ IsFiniteSet(SummaryKeys(m))
    BY OneOfEach DEF SummariesOK
  <2>2. IsFiniteSet(DOMAIN sums \cup SummaryKeys(m))
    BY <2>1, FS_Union
  <2> QED BY <1>2, <2>2
<1>4. ASSUME NEW k \in DOMAIN new PROVE SummaryOK(new[k], k, lg) /\ new[k].total \in Nat
  <2> DEFINE old == IF k \in DOMAIN sums THEN sums[k] ELSE NoSummary
  <2>1. SummaryOK(old, k, log)
    <3>1. CASE k \in DOMAIN sums
      BY <3>1 DEF SummariesOK
    <3>2. CASE k \notin DOMAIN sums
      <4>1. Hits(log, Of(k)) = {}
        BY <3>2 DEF Hits, Of, SummariesOK
      <4> QED BY <3>2, <4>1, SummaryNew
    <3> QED BY <3>1, <3>2
  <2>2. new[k] = IF k \in SummaryKeys(m) THEN updateSummary(old, m) ELSE old
    BY <1>2 DEF Added
  <2> HIDE DEF old, new
  <2>3. SummaryOK(new[k], k, lg)
    <3>1. CASE k \in SummaryKeys(m)
      <4>1. SummaryOK(updateSummary(old, m), k, lg)
        BY <2>1, <3>1, SummaryGrows
      <4> QED BY <2>2, <3>1, <4>1
    <3>2. CASE k \notin SummaryKeys(m)
      <4>1. SummaryOK(old, k, lg)
        BY <1>1, <2>1, <3>2, SummaryKept
      <4> QED BY <2>2, <3>2, <4>1
    <3> QED BY <3>1, <3>2
  <2>4. HowMany(lg, Of(k)) \in Nat
    <3>1. lg \in Seq(Metrics)
      BY <1>1, AppendProperties
    <3> HIDE DEF lg
    <3> QED BY <1>1, <3>1, HitsGrow
  <2> QED BY <2>3, <2>4 DEF SummaryOK
<1>5. /\ DOMAIN lg = DOMAIN log \cup {Len(log) + 1} /\ lg[Len(log) + 1] = m
      /\ \A i \in DOMAIN log : lg[i] = log[i]
      /\ Len(lg) = Len(log) + 1
  BY <1>1, AppendProperties, LenProperties
<1>6. ASSUME NEW i \in DOMAIN lg PROVE SummaryKeys(lg[i]) \subseteq DOMAIN new
  BY <1>2, <1>5 DEF SummariesOK
<1>7. \A kind \in Kinds : SumOver(Group(kind, DOMAIN new), Totals(kind, new)) = Len(lg)
  BY <1>5, GroupGrows
<1> HIDE DEF new, lg
<1>8. SummariesOK(new, lg)
  BY <1>3, <1>4, <1>6, <1>7 DEF SummariesOK
<1> QED BY <1>8 DEF new, lg

\* There are no summaries of an empty log.
LEMMA SummariesEmpty == SummariesOK(<<>>, <<>>)
<1>1. DOMAIN <<>> = {} /\ Len(<<>>) = 0 /\ IsFiniteSet({})
  BY FS_EmptySet
<1>2. ASSUME NEW kind PROVE SumOver(Group(kind, {}), Totals(kind, <<>>)) = 0
  <2>1. Group(kind, {}) = {} /\ Totals(kind, <<>>) \in [{} -> Nat]
    BY <1>1 DEF Group, Totals
  <2> QED BY <1>1, <2>1, SumBounds
<1> QED BY <1>1, <1>2 DEF SummariesOK

-----------------------------------------------------------------------------
(* The metrics store.                                                      *)

Busy == {q \in Handler : handler[q].pc # "idle"}

MetricStoreOK ==
    /\ metricLog \in Seq(Metrics)
    /\ RingOK(recent, MaxRecent, metricLog)
    /\ SummariesOK(summaries, metricLog)

MetricInv == MetricStoreOK /\ active = Cardinality(Busy)

\* A step that touches nothing of the store.
LEMMA StoreKept ==
    ASSUME MetricStoreOK, UNCHANGED <<recent, summaries, metricLog>>
    PROVE  MetricStoreOK'
<1>1. RingOK(recent', MaxRecent, metricLog') /\ SummariesOK(summaries', metricLog') /\ metricLog' \in Seq(Metrics)
  BY DEF MetricStoreOK
<1> QED BY <1>1 DEF MetricStoreOK, RingOK, Oldest, SummariesOK, SummaryOK, MaxOK, HowMany, Hits, Totals

\* metrics.Add keeps the ring and the summaries.
LEMMA StoreGrows ==
    ASSUME MetricStoreOK, NEW m, SoundMetric(m), MetricsAdd(m)
    PROVE  MetricStoreOK'
<1>1. CASE scene = "trace"
  <2>1. UNCHANGED <<recent, summaries, metricLog>>
    BY <1>1 DEF MetricsAdd, metricVars
  <2> QED BY <2>1, StoreKept
<1>2. CASE scene # "trace"
  <2>1. /\ recent' = RingAdd(recent, MaxRecent, m) /\ metricLog' = Append(metricLog, m)
        /\ summaries' = Added(summaries, m)
    BY <1>2 DEF MetricsAdd, Added
  <2>2. m \in Metrics /\ metricLog \in Seq(Metrics) /\ MaxRecent \in Nat \ {0}
    BY ObserveAssumption DEF SoundMetric, MetricStoreOK
  <2>3. Append(metricLog, m) \in Seq(Metrics)
    BY <2>2, AppendProperties
  <2>4. RingOK(RingAdd(recent, MaxRecent, m), MaxRecent, Append(metricLog, m))
    BY <2>2, RingAdds DEF MetricStoreOK
  <2>5. SummariesOK(Added(summaries, m), Append(metricLog, m))
    BY <2>2, SummariesGrow DEF MetricStoreOK
  <2>6. RingOK(recent', MaxRecent, metricLog') /\ SummariesOK(summaries', metricLog') /\ metricLog' \in Seq(Metrics)
    BY <2>1, <2>3, <2>4, <2>5
  <2> QED BY <2>6 DEF MetricStoreOK, RingOK, Oldest, SummariesOK, SummaryOK, MaxOK, HowMany, Hits, Totals
<1> QED BY <1>1, <1>2

\* What the handlers record is sound where the outcomes are.
LEMMA RecordedSound ==
    ASSUME OutcomesSound, HandlersOK, started \in Nat, NEW q \in Handler
    PROVE  /\ \A o \in Outcomes, s \in Server \cup {""} : SoundMetric(Metric(q, s, "chat", o))
           /\ \A o \in Outcomes, x \in Model :
                  SoundMetric([Metric(q, "router", "count_tokens", o) EXCEPT !.id = started + 1, !.model = x])
           /\ SoundMetric(Metric(q, "", "chat", [status |-> 400, latency |-> 1, fallback |-> FALSE, api |-> "openai",
                                                 prompt |-> 0, cached |-> 0, created |-> 0]))
<1>1. handler[q].id \in Nat /\ handler[q].model \in Model
  BY DEF HandlersOK, HandlerType
<1>2. ASSUME NEW o \in [status : Nat, latency : Nat, fallback : BOOLEAN, api : {"openai", "anthropic"},
                        prompt : Nat, cached : Int, created : Nat],
             o.status \notin 1 .. 199, o.api = "openai" => o.cached <= o.prompt,
             NEW s \in Server \cup {"router", ""}, NEW c \in {"chat", "count_tokens"}
      PROVE  SoundMetric(Metric(q, s, c, o))
  BY <1>1, <1>2 DEF SoundMetric, Metric, Metrics
<1>3. \A o \in Outcomes :
          /\ o \in [status : Nat, latency : Nat, fallback : BOOLEAN, api : {"openai", "anthropic"},
                    prompt : Nat, cached : Int, created : Nat]
          /\ o.status \notin 1 .. 199 /\ (o.api = "openai" => o.cached <= o.prompt)
  BY ObserveAssumption DEF OutcomesSound
<1>4. ASSUME NEW m, SoundMetric(m), NEW x \in Model
      PROVE  SoundMetric([m EXCEPT !.id = started + 1, !.model = x])
  <2>1. started + 1 \in Nat /\ m \in Metrics
    BY <1>4 DEF SoundMetric
  <2> DEFINE n == [m EXCEPT !.id = started + 1, !.model = x]
  <2>2. n \in Metrics /\ n.status = m.status /\ n.api = m.api /\ n.cached = m.cached /\ n.prompt = m.prompt
    BY <2>1 DEF Metrics
  <2> HIDE DEF n
  <2>3. SoundMetric(n)
    BY <1>4, <2>2 DEF SoundMetric
  <2> QED BY <2>3 DEF n
<1>5. \A o \in Outcomes, s \in Server \cup {""} : SoundMetric(Metric(q, s, "chat", o))
  BY <1>2, <1>3
<1>6. \A o \in Outcomes : SoundMetric(Metric(q, "router", "count_tokens", o))
  BY <1>2, <1>3
<1>7. \A o \in Outcomes, x \in Model :
          SoundMetric([Metric(q, "router", "count_tokens", o) EXCEPT !.id = started + 1, !.model = x])
  BY <1>4, <1>6
<1> DEFINE o == [status |-> 400, latency |-> 1, fallback |-> FALSE, api |-> "openai", prompt |-> 0, cached |-> 0, created |-> 0]
<1>8. /\ o \in [status : Nat, latency : Nat, fallback : BOOLEAN, api : {"openai", "anthropic"},
                prompt : Nat, cached : Int, created : Nat]
      /\ o.status \notin 1 .. 199 /\ (o.api = "openai" => o.cached <= o.prompt)
  OBVIOUS
<1> HIDE DEF o
<1>9. SoundMetric(Metric(q, "", "chat", o))
  BY <1>2, <1>8
<1> QED BY <1>5, <1>7, <1>9 DEF o

\* A handler that moves while it is busy leaves the live requests as they are.
LEMMA BusyMoves ==
    ASSUME HandlersOK, HandlersOK', active = Cardinality(Busy), NEW q \in Handler,
           \A p \in Handler : p # q => handler'[p] = handler[p],
           \/ active' = active /\ (handler[q].pc = "idle" <=> handler'[q].pc = "idle")
           \/ active' = active + 1 /\ handler[q].pc = "idle" /\ handler'[q].pc # "idle"
           \/ active' = active - 1 /\ handler[q].pc # "idle" /\ handler'[q].pc = "idle"
    PROVE  active' = Cardinality(Busy)'
<1>1. Busy \subseteq Handler /\ IsFiniteSet(Busy) /\ Cardinality(Busy) \in Nat
  <2>1. Busy \subseteq Handler
    BY DEF Busy
  <2> QED BY <2>1, ObserveAssumption, FS_Subset, FS_CardinalityType
<1>2. CASE active' = active /\ (handler[q].pc = "idle" <=> handler'[q].pc = "idle")
  <2>1. Busy' = Busy
    BY <1>2 DEF Busy
  <2> QED BY <1>2, <2>1
<1>3. CASE active' = active + 1 /\ handler[q].pc = "idle" /\ handler'[q].pc # "idle"
  <2>1. Busy' = Busy \cup {q} /\ q \notin Busy
    BY <1>3 DEF Busy
  <2>2. Cardinality(Busy \cup {q}) = Cardinality(Busy) + 1
    BY <1>1, <2>1, FS_AddElement
  <2> QED BY <1>3, <2>1, <2>2
<1>4. CASE active' = active - 1 /\ handler[q].pc # "idle" /\ handler'[q].pc = "idle"
  <2>1. Busy' = Busy \ {q} /\ q \in Busy
    BY <1>4 DEF Busy
  <2>2. Cardinality(Busy \ {q}) = Cardinality(Busy) - 1
    BY <1>1, <2>1, FS_RemoveElement
  <2> QED BY <1>4, <2>1, <2>2
<1> QED BY <1>2, <1>3, <1>4

\* Every step keeps the metrics store and the count of live requests.
LEMMA MetricStep ==
    ASSUME OutcomesSound, TraceInv, TraceInv', MetricInv, [ObserveNext]_observeVars
    PROVE  MetricInv'
<1>1. HandlersOK /\ HandlersOK' /\ started \in Nat /\ MetricStoreOK /\ active = Cardinality(Busy)
  BY DEF TraceInv, MetricInv
<1>2. ASSUME UNCHANGED <<handler, active>> PROVE active' = Cardinality(Busy)'
  BY <1>1, <1>2 DEF Busy
<1>3. ASSUME UNCHANGED metricVars PROVE MetricStoreOK'
  BY <1>1, <1>3, StoreKept DEF metricVars
<1>4. CASE UNCHANGED observeVars
  BY <1>2, <1>3, <1>4 DEF observeVars, MetricInv
<1>5. CASE Operator /\ ~ResetMetrics
  <2>1. UNCHANGED <<handler, active, metricVars>>
    BY <1>5 DEF Operator, StartTrace, StopTrace, PollTrace, ResetTrace, Tick
  <2> QED BY <1>2, <1>3, <2>1 DEF MetricInv
<1>6. CASE ResetMetrics
  <2>1. recent' = EmptyRing /\ summaries' = <<>> /\ metricLog' = <<>> /\ UNCHANGED <<handler, active>>
    BY <1>6 DEF ResetMetrics
  <2>2. RingOK(EmptyRing, MaxRecent, <<>>) /\ SummariesOK(<<>>, <<>>) /\ <<>> \in Seq(Metrics)
    BY RingEmpty, SummariesEmpty, EmptySeq, ObserveAssumption
  <2>3. RingOK(recent', MaxRecent, metricLog') /\ SummariesOK(summaries', metricLog') /\ metricLog' \in Seq(Metrics)
    BY <2>1, <2>2
  <2>4. MetricStoreOK'
    BY <2>3 DEF MetricStoreOK, RingOK, Oldest, SummariesOK, SummaryOK, MaxOK, HowMany, Hits, Totals
  <2> QED BY <1>2, <2>1, <2>4 DEF MetricInv
<1>7. ASSUME NEW q \in Handler, Handle(q) PROVE MetricInv'
  <2>1. handler[q] \in HandlerType /\ DOMAIN handler = Handler
    BY <1>1 DEF HandlersOK
  <2>2. CASE \E x \in Model : Arrive(q, x)
    <3>1. PICK x \in Model : Arrive(q, x)
      BY <2>2
    <3> DEFINE h == [Idle EXCEPT !.pc = "routing", !.id = started + 1, !.model = x]
    <3>2. handler[q].pc = "idle" /\ active' = active + 1 /\ UNCHANGED metricVars /\ handler' = [handler EXCEPT ![q] = h]
      BY <3>1 DEF Arrive, At
    <3>3. h.pc = "routing"
      BY DEF Idle
    <3> HIDE DEF h
    <3>4. handler'[q].pc # "idle" /\ \A p \in Handler : p # q => handler'[p] = handler[p]
      BY <2>1, <3>2, <3>3
    <3>5. active' = Cardinality(Busy)'
      BY <1>1, <3>2, <3>4, BusyMoves
    <3> QED BY <1>3, <3>2, <3>5 DEF MetricInv
  <2>3. CASE \/ \E s \in Server : Route(q, s)
             \/ \E n \in 1 .. 2 : Chunk(q, n)
             \/ \E e \in BOOLEAN : RecordTrace(q, e)
             \/ NoRoute(q)
    <3>1. handler[q].pc # "idle" /\ active' = active /\ UNCHANGED metricVars
      BY <2>3 DEF Route, Chunk, RecordTrace, NoRoute, At
    <3>2. handler'[q].pc # "idle" /\ \A p \in Handler : p # q => handler'[p] = handler[p]
      <4>1. CASE \E s \in Server : Route(q, s)
        <5>1. PICK s \in Server : Route(q, s)
          BY <4>1
        <5> DEFINE h == [handler[q] EXCEPT !.pc = "answer", !.server = s,
                             !.capture = IF Armed(window, handler[q].model, s)
                                         THEN [bytes |-> 0, kept |-> 0, binary |-> s \in AudioServer] ELSE NoCapture]
        <5>2. handler' = [handler EXCEPT ![q] = h]
          BY <1>1, <5>1 DEF Route, HandlersOK
        <5>3. h.pc = "answer"
          BY <2>1 DEF HandlerType
        <5> HIDE DEF h
        <5> QED BY <2>1, <5>2, <5>3
      <4>2. CASE \E n \in 1 .. 2 : Chunk(q, n)
        <5>1. PICK n \in 1 .. 2 : Chunk(q, n)
          BY <4>2
        <5> DEFINE c == WriteResponse(handler[q].capture, n)
                   h == [handler[q] EXCEPT !.capture = c]
        <5>2. handler[q].pc = "answer" /\ handler' = [handler EXCEPT ![q] = h]
          BY <2>1, <5>1 DEF Chunk, At
        <5> HIDE DEF c
        <5>3. h.pc = "answer"
          BY <2>1, <5>2 DEF HandlerType
        <5> HIDE DEF h
        <5> QED BY <2>1, <5>2, <5>3
      <4>3. CASE \E e \in BOOLEAN : RecordTrace(q, e)
        <5> DEFINE h == [handler[q] EXCEPT !.pc = "leave", !.capture = NoCapture]
        <5>2. handler' = [handler EXCEPT ![q] = h]
          BY <2>1, <4>3 DEF RecordTrace
        <5>3. h.pc = "leave"
          BY <2>1 DEF HandlerType
        <5> HIDE DEF h
        <5> QED BY <2>1, <5>2, <5>3
      <4>4. CASE NoRoute(q)
        <5> DEFINE h == [handler[q] EXCEPT !.pc = "leave"]
        <5>2. handler' = [handler EXCEPT ![q] = h]
          BY <2>1, <4>4 DEF NoRoute, To
        <5>3. h.pc = "leave"
          BY <2>1 DEF HandlerType
        <5> HIDE DEF h
        <5> QED BY <2>1, <5>2, <5>3
      <4> QED BY <2>3, <4>1, <4>2, <4>3, <4>4
    <3>3. active' = Cardinality(Busy)'
      BY <1>1, <3>1, <3>2, BusyMoves
    <3> QED BY <1>3, <3>1, <3>3 DEF MetricInv
  <2>4. CASE Leave(q)
    <3>1. handler[q].pc = "leave" /\ active' = active - 1 /\ UNCHANGED metricVars /\ handler' = [handler EXCEPT ![q] = Idle]
      BY <2>4 DEF Leave, At
    <3>2. handler'[q].pc = "idle" /\ \A p \in Handler : p # q => handler'[p] = handler[p]
      BY <2>1, <3>1, IdleIs
    <3>3. active' = Cardinality(Busy)'
      BY <1>1, <3>1, <3>2, BusyMoves
    <3> QED BY <1>3, <3>1, <3>3 DEF MetricInv
  <2>5. ASSUME NEW to \in {"trace", "leave"}, handler[q].pc # "idle", To(q, to), active' = active
        PROVE  active' = Cardinality(Busy)'
    <3>1. handler'[q].pc # "idle" /\ \A p \in Handler : p # q => handler'[p] = handler[p]
      BY <2>1, <2>5 DEF To, HandlerType
    <3> QED BY <1>1, <2>5, <3>1, BusyMoves
  <2>6. ASSUME NEW s \in Server \cup {""}, NEW o \in Outcomes, Record(q, s, o) PROVE MetricInv'
    <3>1. handler[q].pc # "idle" /\ To(q, "trace") /\ active' = active /\ MetricsAdd(Metric(q, s, "chat", o))
      BY <2>6 DEF Record, At
    <3>2. SoundMetric(Metric(q, s, "chat", o))
      BY <1>1, RecordedSound
    <3>3. MetricStoreOK'
      BY <1>1, <3>1, <3>2, StoreGrows
    <3> QED BY <2>5, <3>1, <3>3 DEF MetricInv
  <2>7. CASE Record(q, handler[q].server, CHOOSE o \in Outcomes : TRUE)
    <3>1. (CHOOSE o \in Outcomes : TRUE) \in Outcomes /\ handler[q].server \in Server \cup {""}
      BY <2>1, ObserveAssumption DEF HandlerType
    <3> QED BY <2>6, <2>7, <3>1
  <2>8. CASE Blocked(q)
    <3> DEFINE m == Metric(q, "", "chat", [status |-> 400, latency |-> 1, fallback |-> FALSE, api |-> "openai",
                                           prompt |-> 0, cached |-> 0, created |-> 0])
    <3>1. handler[q].pc # "idle" /\ To(q, "leave") /\ active' = active /\ MetricsAdd(m)
      BY <2>8 DEF Blocked, At
    <3>2. SoundMetric(m)
      BY <1>1, RecordedSound
    <3> HIDE DEF m
    <3>3. MetricStoreOK'
      BY <1>1, <3>1, <3>2, StoreGrows
    <3> QED BY <2>5, <3>1, <3>3 DEF MetricInv
  <2>9. CASE \E o \in Outcomes, x \in Model : LocalAnswer(q, x, o)
    <3>1. PICK o \in Outcomes, x \in Model : LocalAnswer(q, x, o)
      BY <2>9
    <3> DEFINE m == [Metric(q, "router", "count_tokens", o) EXCEPT !.id = started + 1, !.model = x]
    <3>2. MetricsAdd(m) /\ UNCHANGED <<handler, active>>
      BY <3>1 DEF LocalAnswer
    <3>3. SoundMetric(m)
      BY <1>1, RecordedSound
    <3> HIDE DEF m
    <3>4. MetricStoreOK'
      BY <1>1, <3>2, <3>3, StoreGrows
    <3> QED BY <1>2, <3>2, <3>4 DEF MetricInv
  <2>10. CASE \E o \in Outcomes, s \in Server : Record(q, s, o)
    BY <2>6, <2>10
  <2> QED BY <1>7, <2>2, <2>3, <2>4, <2>7, <2>8, <2>9, <2>10 DEF Handle
<1> QED BY <1>4, <1>5, <1>6, <1>7 DEF ObserveNext

\* The metrics store is empty at first.
LEMMA MetricStarts == ObserveInit => MetricInv
<1> SUFFICES ASSUME ObserveInit PROVE MetricInv
  OBVIOUS
<1>1. RingOK(EmptyRing, MaxRecent, <<>>) /\ SummariesOK(<<>>, <<>>) /\ <<>> \in Seq(Metrics)
  BY RingEmpty, SummariesEmpty, EmptySeq, ObserveAssumption
<1>2. MetricStoreOK
  BY <1>1 DEF ObserveInit, MetricStoreOK
<1>3. Busy = {}
  BY IdleIs DEF ObserveInit, Busy
<1>4. active = Cardinality(Busy)
  BY <1>3, FS_EmptySet DEF ObserveInit
<1> QED BY <1>2, <1>4 DEF MetricInv

\* What the invariant says of one group.
LEMMA SummaryAgrees ==
    ASSUME MetricStoreOK, NEW k \in DOMAIN summaries
    PROVE  LET sum == summaries[k]
           IN  /\ sum.total = Cardinality(Logged(k))
               /\ sum.success = sum.class["2xx"] /\ sum.error = sum.total - sum.success
               /\ \A c \in Classes : sum.class[c] = Cardinality({i \in Logged(k) : StatusClass(metricLog[i].status) = c})
               /\ sum.buckets[Len(LatencyBuckets) + 1] = sum.total
               /\ \A b \in DOMAIN LatencyBuckets :
                      sum.buckets[b] = Cardinality({i \in Logged(k) : metricLog[i].latency <= LatencyBuckets[b]})
               /\ Logged(k) # {} => sum.max = Max({metricLog[i].latency : i \in Logged(k)})
               /\ sum.cached <= sum.input
<1> DEFINE sum == summaries[k]
<1>1. SummaryOK(sum, k, metricLog) /\ \A i \in DOMAIN metricLog : metricLog[i] \in Metrics
  BY LenProperties, ElementOfSeq DEF MetricStoreOK, SummariesOK
<1>2. Hits(metricLog, Of(k)) = Logged(k)
  BY <1>1 DEF Hits, Of, Logged
<1>3. \A c : Hits(metricLog, OfClass(k, c)) = {i \in Logged(k) : StatusClass(metricLog[i].status) = c}
  BY <1>1 DEF Hits, Of, OfClass, Logged
<1>4. \A b : Hits(metricLog, Within(k, b)) = {i \in Logged(k) : metricLog[i].latency <= LatencyBuckets[b]}
  BY <1>1 DEF Hits, Of, Within, Logged
<1>5. DOMAIN LatencyBuckets = 1 .. Len(LatencyBuckets)
  BY ObserveAssumption, LenProperties
<1> HIDE DEF sum
<1>6. ASSUME Logged(k) # {} PROVE sum.max = Max({metricLog[i].latency : i \in Logged(k)})
  <2> DEFINE S == {metricLog[i].latency : i \in Logged(k)}
  <2>1. sum.max \in S /\ (\A y \in S : y <= sum.max /\ y \in Int) /\ sum.max \in Int
    <3>1. MaxOK(sum.max, metricLog, Of(k))
      BY <1>1 DEF SummaryOK
    <3>2. /\ sum.max \in Nat /\ (\A i \in Logged(k) : metricLog[i].latency <= sum.max)
          /\ \E i \in Logged(k) : metricLog[i].latency = sum.max
      BY <1>2, <1>6, <3>1 DEF MaxOK
    <3>3. \A i \in Logged(k) : metricLog[i].latency \in Int
      <4>1. ASSUME NEW m \in Metrics PROVE m.latency \in Int
        <5>1. m.latency \in Nat
          BY DEF Metrics
        <5> QED BY <5>1
      <4> QED BY <1>1, <4>1 DEF Logged
    <3> QED BY <3>2, <3>3
  <2> HIDE DEF S
  <2>2. \E x \in S : \A y \in S : x >= y
    BY <2>1
  <2>3. Max(S) \in S /\ \A y \in S : Max(S) >= y
    BY <2>2 DEF Max
  <2>4. sum.max = Max(S)
    BY <2>1, <2>3
  <2> QED BY <2>4 DEF S
<1>7. sum.total = Cardinality(Logged(k))
  BY <1>1, <1>2 DEF SummaryOK, HowMany
<1>8. \A c \in Classes : sum.class[c] = Cardinality({i \in Logged(k) : StatusClass(metricLog[i].status) = c})
  BY <1>1, <1>3 DEF SummaryOK, HowMany
<1>9. \A b \in DOMAIN LatencyBuckets :
          sum.buckets[b] = Cardinality({i \in Logged(k) : metricLog[i].latency <= LatencyBuckets[b]})
  BY <1>1, <1>4, <1>5 DEF SummaryOK, HowMany
<1>10. /\ sum.success = sum.class["2xx"] /\ sum.error = sum.total - sum.success
       /\ sum.buckets[Len(LatencyBuckets) + 1] = sum.total /\ sum.cached <= sum.input
  BY <1>1 DEF SummaryOK
<1> QED BY <1>6, <1>7, <1>8, <1>9, <1>10 DEF sum

\* metrics/metrics.go: the ring lists the newest requests in order, every summary is
\* that of its requests, the groups of each kind add up, no group has more from the
\* cache than it has input and the live requests are counted, for any number of
\* handlers, any ring size, histogram and sound outcomes.
THEOREM MetricsTell == OutcomesSound => (ObserveSpec => []MetricsFaithful)
<1> SUFFICES ASSUME OutcomesSound PROVE ObserveSpec => []MetricsFaithful
  OBVIOUS
<1> DEFINE Inv == TraceInv /\ MetricInv
<1>1. ObserveInit => Inv
  BY TraceStarts, MetricStarts
<1>2. Inv /\ [ObserveNext]_observeVars => Inv'
  BY TraceStep, MetricStep
<1>3. ASSUME Inv PROVE MetricsFaithful
  <2>1. ObserveTypeOK
    <3>1. RingOK(recent, MaxRecent, metricLog) /\ RingOK(entries, MaxTrace, traceLog) /\ WindowOK /\ HandlersOK
      BY <1>3 DEF TraceInv, MetricInv, MetricStoreOK, TraceRingOK
    <3>2. \A q \in Handler : handler[q].pc \in {"idle", "routing", "answer", "trace", "leave"}
      BY <3>1 DEF HandlersOK, HandlerType
    <3>3. window.enabled \in BOOLEAN /\ window.left \in Int
      BY <3>1 DEF WindowOK, WindowType
    <3>4. active = Cardinality({q \in Handler : handler[q].pc # "idle"})
      BY <1>3 DEF MetricInv, Busy
    <3> QED BY <3>1, <3>2, <3>3, <3>4 DEF ObserveTypeOK, RingOK
  <2>2. RecentInOrder
    BY <1>3, RingLists, ObserveAssumption DEF MetricInv, MetricStoreOK, RecentInOrder
  <2>3. SummariesAgree /\ HitRateSound
    BY <1>3, SummaryAgrees DEF MetricInv, SummariesAgree, HitRateSound
  <2>4. GroupsAddUp
    <3>1. SummariesOK(summaries, metricLog)
      BY <1>3 DEF MetricInv, MetricStoreOK
    <3>2. ASSUME NEW kind \in Kinds
          PROVE  MapThenSumSet(LAMBDA x : summaries[x].total, {k \in DOMAIN summaries : k[1] = kind}) = Len(metricLog)
      <4>1. IsFiniteSet(DOMAIN summaries) /\ SumOver(Group(kind, DOMAIN summaries), Totals(kind, summaries)) = Len(metricLog)
        BY <3>1 DEF SummariesOK
      <4>2. Totals(kind, summaries) \in [Group(kind, DOMAIN summaries) -> Int]
        BY <3>1 DEF SummariesOK, Totals, Group
      <4> QED BY <4>1, <4>2, TotalsAre
    <3> QED BY <3>2 DEF GroupsAddUp, Kinds
  <2> QED BY <2>1, <2>2, <2>3, <2>4 DEF MetricsFaithful
<1> HIDE DEF Inv
<1> QED BY <1>1, <1>2, <1>3, PTL DEF ObserveSpec

=============================================================================
