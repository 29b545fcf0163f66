--------------------------- MODULE ConvertRequest ---------------------------
(***************************************************************************)
(* Which dialect an attempt is sent in (convert/plan.go Decide) and the    *)
(* request direction of the two conversions (convert/anthropic.go          *)
(* MessagesToChat, convert/responses.go ResponsesToChat).                  *)
(*                                                                         *)
(* A conversation is kept as what a chat backend tells apart: who speaks,  *)
(* which calls a turn makes, which call a result answers.  A piece of      *)
(* content is its place <<turn, block>>; its wording is left out.  A       *)
(* parameter is a name the target dialect can carry or not.                *)
(***************************************************************************)
EXTENDS Integers, Sequences, FiniteSets, SequencesExt

Refused == [refused |-> TRUE, chat |-> <<>>, notes |-> {}]

\* Decide: a path stands for its dialect (DialectForPath; "" has none), forced
\* for the rule's convert setting, an edge being <<from, to>>.
Decide(client, protocols, forced) ==
    LET ident == [ok |-> TRUE, dialect |-> client]
        chat == [ok |-> TRUE, dialect |-> "chat"]
        refusal == [ok |-> FALSE, dialect |-> ""]
        converts == client \in {"messages", "responses"}
    IN  IF forced = "off" \/ client = "" THEN ident
        ELSE IF forced # "auto"
             THEN IF forced = <<client, "chat">> /\ converts THEN chat ELSE refusal
        ELSE IF protocols = <<>> THEN ident
        ELSE IF client = "legacy" THEN refusal
        ELSE IF client \in ToSet(protocols) THEN ident
        ELSE IF converts /\ "chat" \in ToSet(protocols) THEN chat
        ELSE refusal

-----------------------------------------------------------------------------
(* The loss policy: a drop is refused, or noted when drop_params allows it. *)

Noted(acc, what, dropParams) ==
    IF dropParams THEN [acc EXCEPT !.notes = @ \cup {what}] ELSE [acc EXCEPT !.refused = TRUE]

\* Parameters without a representation, in the order the code meets them: any of
\* them refuses the request, or is noted.  Those that do not bear on the answer
\* (store, include, ... of the Responses API) are only reported.
Params(acc, params, dropParams) ==
    FoldLeft(LAMBDA a, p : IF p.carried THEN a ELSE Noted(a, p.name, dropParams \/ p.reported), acc, params)

\* A name that cannot survive the round trip, or that was already declared.
toolNameDefect(t, seen) == t.long \/ t.name \in seen

\* Tools: a hosted tool always refuses, a defective name goes by the loss policy.
Tools(acc, tools, dropParams) ==
    FoldLeft(LAMBDA a, t :
                IF t.hosted THEN [a EXCEPT !.refused = TRUE]
                ELSE IF toolNameDefect(t, a.seen) THEN Noted(a, t.name, dropParams)
                ELSE [a EXCEPT !.seen = @ \cup {t.name}],
             acc, tools)

-----------------------------------------------------------------------------
(* MessagesToChat.                                                         *)

Block(acc, b, at, dropParams) ==
    CASE b.type \in {"text", "image"} -> [acc EXCEPT !.parts = Append(@, at)]
      [] b.type \in {"document", "audio"} -> [acc EXCEPT !.refused = TRUE]
      [] b.type = "tool_use" -> [acc EXCEPT !.calls = Append(@, b.id), !.parts0 = Append(@, at)]
      [] b.type = "tool_result" ->
            [acc EXCEPT !.out = Append(@, [role |-> "tool", of |-> b.id, calls |-> <<>>, parts |-> <<at>>])]
      [] OTHER -> Noted(acc, b.type, dropParams)

\* Mutant of convertMessage: a turn's own text comes before its results.
convertMessage_ResultsFirst(m, i, dropParams) ==
    LET start == [out |-> <<>>, calls |-> <<>>, parts |-> <<>>, parts0 |-> <<>>, notes |-> {}, refused |-> FALSE]
        places == [k \in DOMAIN m.blocks |-> <<m.blocks[k], <<i, k>>>>]
        acc == FoldLeft(LAMBDA a, p : Block(a, p[1], p[2], dropParams), start, places)
        turn == [role |-> m.role, of |-> "", calls |-> acc.calls, parts |-> acc.parts \o acc.parts0]
        said == IF acc.parts = <<>> /\ acc.calls = <<>> THEN <<>> ELSE <<turn>>
    IN  [refused |-> acc.refused, notes |-> acc.notes, chat |-> said \o acc.out]

\* convertMessage: a turn with calls is the assistant's and comes before its tool
\* messages, any other turn after them; a turn of results alone adds no message.
convertMessage(m, i, dropParams) ==
    LET start == [out |-> <<>>, calls |-> <<>>, parts |-> <<>>, parts0 |-> <<>>, notes |-> {}, refused |-> FALSE]
        places == [k \in DOMAIN m.blocks |-> <<m.blocks[k], <<i, k>>>>]
        acc == FoldLeft(LAMBDA a, p : Block(a, p[1], p[2], dropParams), start, places)
        turn == [role |-> IF acc.calls # <<>> THEN "assistant" ELSE m.role, of |-> "",
                 calls |-> acc.calls, parts |-> acc.parts \o acc.parts0]
    IN  [refused |-> acc.refused, notes |-> acc.notes,
         chat |-> IF acc.calls # <<>> THEN <<turn>> \o acc.out
                  ELSE IF acc.parts = <<>> THEN acc.out ELSE Append(acc.out, turn)]

MessagesToChat(ask, dropParams) ==
    LET start == Tools(Params([refused |-> FALSE, notes |-> {}, chat |-> <<>>, seen |-> {}], ask.params, dropParams),
                       ask.tools, dropParams)
        turns == [i \in DOMAIN ask.turns |-> convertMessage(ask.turns[i], i, dropParams)]
        all == FoldLeft(LAMBDA a, t : [a EXCEPT !.refused = @ \/ t.refused, !.notes = @ \cup t.notes,
                                                !.chat = @ \o t.chat], start, turns)
    IN  IF all.refused THEN Refused ELSE [refused |-> FALSE, chat |-> all.chat, notes |-> all.notes]

-----------------------------------------------------------------------------
(* ResponsesToChat.                                                        *)

\* The calls collected so far become one assistant message.
flush(acc) ==
    IF acc.calls = <<>> THEN acc
    ELSE [acc EXCEPT !.calls = <<>>, !.parts0 = <<>>,
            !.chat = Append(@, [role |-> "assistant", of |-> "", calls |-> acc.calls, parts |-> acc.parts0])]

\* Mutant of Item: a result does not end the turn of the calls before it.
Item_NoFlush(acc, it, i, dropParams) ==
    IF it.type = "function_call" THEN [acc EXCEPT !.calls = Append(@, it.id), !.parts0 = Append(@, <<i, 1>>)]
    ELSE IF it.type = "function_call_output"
         THEN [acc EXCEPT !.chat = Append(@, [role |-> "tool", of |-> it.id, calls |-> <<>>, parts |-> <<<<i, 1>>>>])]
    ELSE acc

\* convertInputItem keeps the text and image parts of a message item; parts that
\* have no representation go by the loss policy, a file always refuses.
convertInputItem(acc, it, i, dropParams) ==
    LET places == [k \in DOMAIN it.parts |-> <<i, k>>]
        lost == {k \in DOMAIN it.parts : it.parts[k] \notin {"text", "image"}}
    IN  [kept |-> SelectSeq(places, LAMBDA p : it.parts[p[2]] \in {"text", "image"}),
         acc |-> IF \E k \in lost : it.parts[k] = "file" \/ ~dropParams THEN [acc EXCEPT !.refused = TRUE]
                 ELSE [acc EXCEPT !.notes = @ \cup {it.parts[k] : k \in lost}]]

\* An item of the input.  A system item adds to the system prompt only when it is
\* one piece of text.
Item(acc, it, i, dropParams) ==
    LET m == convertInputItem(acc, it, i, dropParams)
        plain == Len(m.kept) = 1 /\ it.parts[m.kept[1][2]] = "text"
    IN  CASE it.type = "function_call" ->
                [acc EXCEPT !.calls = Append(@, it.id), !.parts0 = Append(@, <<i, 1>>)]
          [] it.type = "function_call_output" ->
                [flush(acc) EXCEPT !.chat = Append(@, [role |-> "tool", of |-> it.id, calls |-> <<>>, parts |-> <<<<i, 1>>>>])]
          [] it.type = "message" /\ it.role = "system" ->
                [m.acc EXCEPT !.system = IF plain THEN @ \o m.kept ELSE @]
          [] it.type = "message" /\ it.role # "system" ->
                [flush(m.acc) EXCEPT !.chat = Append(@, [role |-> it.role, of |-> "", calls |-> <<>>, parts |-> m.kept])]
          [] OTHER -> Noted(acc, it.type, dropParams)

ResponsesToChat(ask, dropParams) ==
    LET start == Tools(Params([refused |-> FALSE, notes |-> {}, chat |-> <<>>, seen |-> {}, calls |-> <<>>,
                               parts0 |-> <<>>, system |-> <<>>], ask.params, dropParams), ask.tools, dropParams)
        items == [i \in DOMAIN ask.turns |-> <<ask.turns[i], i>>]
        all == flush(FoldLeft(LAMBDA a, x : Item(a, x[1], x[2], dropParams), start, items))
        system == IF all.system = <<>> THEN <<>>
                  ELSE <<[role |-> "system", of |-> "", calls |-> <<>>, parts |-> all.system]>>
    IN  IF all.refused \/ ask.continues \/ ask.turns = <<>> THEN Refused
        ELSE [refused |-> FALSE, chat |-> system \o all.chat, notes |-> all.notes]

=============================================================================
