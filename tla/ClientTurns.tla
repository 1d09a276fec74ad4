---------------------------- MODULE ClientTurns ----------------------------
(***************************************************************************)
(* The conversations that clients send, and what the three entry points    *)
(* make of them: turns of the chat wire, which every upstream translation  *)
(* starts from.  A chat client sends them itself, /v1/messages rebuilds    *)
(* them in MessagesRequest and /v1/responses in ResponsesRequest.          *)
(*                                                                         *)
(* A conversation is a sequence of turns made of blocks, the way a client  *)
(* keeps it.  Whatever is said carries the number of its utterance, so     *)
(* what arrives somewhere can be compared with what was said, and when.    *)
(***************************************************************************)
EXTENDS Naturals, SequencesExt

NoId == 0

Text(n) == [kind |-> "text", says |-> n]
Image(n) == [kind |-> "image", says |-> n]
Thinking(n) == [kind |-> "thinking", says |-> n]
Call(n) == [kind |-> "call", says |-> n]
Result(id, parts) == [kind |-> "result", of |-> id, parts |-> parts]

\* A turn of a client: "plain" when its content is a string and not a list.
Turn(role, plain, blocks) == [role |-> role, plain |-> plain, blocks |-> blocks]
Kinds(turn) == {turn.blocks[i].kind : i \in DOMAIN turn.blocks}

\* A turn of the chat wire: its content, the calls of an assistant, the call a tool answers.
ChatTurn(role, plain, parts, calls, of) ==
  [role |-> role, plain |-> plain, parts |-> parts, calls |-> calls, of |-> of]

IsOneText(parts) == Len(parts) = 1 /\ parts[1].kind = "text"

-----------------------------------------------------------------------------
(* /v1/messages *)

\* Mutant: a tool result is reduced to its text.
ToolTurnText(result) ==
  LET texts == SelectSeq(result.parts, LAMBDA p : p.kind = "text")
  IN ChatTurn("tool", Len(texts) < 2, texts, <<>>, result.of)

\* A tool result: text and images survive, nothing at all is an empty string.
ToolTurn(result) ==
  ChatTurn("tool", result.parts = <<>> \/ IsOneText(result.parts), result.parts, <<>>, result.of)

\* Mutant: an assistant turn of calls alone is taken for an empty one.
FlushSpoken(role, done) ==
  IF done.parts = <<>> THEN done
  ELSE [parts |-> <<>>, calls |-> <<>>,
        turns |-> Append(done.turns,
                         ChatTurn(role, IsOneText(done.parts), done.parts, done.calls, NoId))]

\* The text, images and calls gathered so far become one turn.
Flush(role, done) ==
  IF done.parts = <<>> /\ done.calls = <<>> THEN done
  ELSE [parts |-> <<>>, calls |-> <<>>,
        turns |-> Append(done.turns,
                         ChatTurn(role, IsOneText(done.parts), done.parts, done.calls, NoId))]

Block(role, done, block) ==
  CASE block.kind \in {"text", "image"} -> [done EXCEPT !.parts = Append(@, block)]
    [] block.kind = "call"   -> [done EXCEPT !.calls = Append(@, block.says)]
    [] block.kind = "result" ->
         [Flush(role, done) EXCEPT !.turns = Append(@, ToolTurn(block))]
    [] OTHER -> done

\* A tool result flushes the parts in front of it, and thinking is left out.
MessagesContent(turn) ==
  IF turn.plain THEN <<ChatTurn(turn.role, TRUE, turn.blocks, <<>>, NoId)>>
  ELSE Flush(turn.role,
             FoldLeft(LAMBDA done, block : Block(turn.role, done, block),
                      [parts |-> <<>>, calls |-> <<>>, turns |-> <<>>], turn.blocks)).turns

MessagesTurns(talk) == FlattenSeq([i \in DOMAIN talk |-> MessagesContent(talk[i])])

\* System turns are folded into the first: joinText reads strings, and no list.
SystemText(system, turns) ==
  FoldLeft(LAMBDA text, turn : IF turn.role = "system" /\ turn.plain
                               THEN text \o turn.parts ELSE text,
           system, turns)

\* Mutant: a system turn is folded into the first and kept where it was.
MessagesRequestTwice(system, talk) ==
  LET turns == MessagesTurns(talk)
      text  == SystemText(system, turns)
  IN (IF text = <<>> THEN <<>> ELSE <<ChatTurn("system", TRUE, text, <<>>, NoId)>>) \o turns

MessagesRequest(system, talk) ==
  LET turns == MessagesTurns(talk)
      text  == SystemText(system, turns)
  IN (IF text = <<>> THEN <<>> ELSE <<ChatTurn("system", TRUE, text, <<>>, NoId)>>)
     \o SelectSeq(turns, LAMBDA turn : turn.role # "system")

\* 400: no turn at all, a call outside an assistant turn.
MessagesRefuses(talk) ==
  \/ MessagesTurns(talk) = <<>>
  \/ \E i \in DOMAIN talk : talk[i].role # "assistant" /\ "call" \in Kinds(talk[i])

-----------------------------------------------------------------------------
(* /v1/responses *)

\* An item of the input: instructions and text come first, a result has no turn around it.
ResponsesItem(turn) ==
  IF turn.plain THEN <<ChatTurn(turn.role, TRUE, turn.blocks, <<>>, NoId)>>
  ELSE LET said    == SelectSeq(turn.blocks, LAMBDA b : b.kind \in {"text", "image"})
           results == SelectSeq(turn.blocks, LAMBDA b : b.kind = "result")
       IN [i \in DOMAIN results |-> ChatTurn("tool", TRUE, results[i].parts, <<>>, NoId)]
          \o (IF said = <<>> /\ results # <<>> THEN <<>>
              ELSE <<ChatTurn(turn.role, FALSE, said, <<>>, NoId)>>)

\* instructionText and responsesInput.
ResponsesRequest(system, talk) ==
  (IF system = <<>> THEN <<>> ELSE <<ChatTurn("system", TRUE, system, <<>>, NoId)>>)
  \o FlattenSeq([i \in DOMAIN talk |-> ResponsesItem(talk[i])])

\* Server-side items - a function_call, a reasoning - are rejected.
ResponsesRefuses(talk) ==
  \E i \in DOMAIN talk : Kinds(talk[i]) \cap {"call", "thinking"} # {}

-----------------------------------------------------------------------------
(* Tools on offer, [name, kind], and the choice among them.  A "server" tool
   has no schema of its own, an "odd" choice is one no chat upstream defines. *)

Offer(tools, choice) == [tools |-> tools, choice |-> choice]
OnlyFunctions(offer) == \A i \in DOMAIN offer.tools : offer.tools[i].kind = "function"

\* messagesTools and messagesToolChoice refuse rather than drop, and so do
\* responsesTools; responsesToolChoice lets every mode string pass.
MessagesRefusesTools(offer) == ~OnlyFunctions(offer) \/ offer.choice = "odd"
ResponsesRefusesTools(offer) == ~OnlyFunctions(offer)

\* A JSON null is no choice here, and an empty list of tools is left out.
EntryOffer(offer) == [offer EXCEPT !.choice = IF @ = "null" THEN "absent" ELSE @]

-----------------------------------------------------------------------------
(* /v1/chat/completions: the client writes the turns itself. *)

ChatClient(system, talk) ==
  (IF system = <<>> THEN <<>> ELSE <<ChatTurn("system", TRUE, system, <<>>, NoId)>>)
  \o MessagesTurns(talk)
=============================================================================
