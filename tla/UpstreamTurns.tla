--------------------------- MODULE UpstreamTurns ---------------------------
(***************************************************************************)
(* What each upstream is sent for the turns of a chat request: the Codex   *)
(* Responses body, the Anthropic body of opencode, the Gemini envelope of  *)
(* antigravity, and the OpenAI body, which is the chat body itself.  Every *)
(* body is given as its system text and its turns; a turn has a role and   *)
(* parts, and a result names the call it answers.                          *)
(*                                                                         *)
(* A request is [typed, turns]: ResponsesRequest leaves provider.Message   *)
(* values in the parsed body (typed), and the other entry points a list.   *)
(***************************************************************************)
EXTENDS ClientTurns

Request(typed, turns) == [typed |-> typed, turns |-> turns]
Sent(role, parts) == [role |-> role, parts |-> parts]
Body(system, turns) == [system |-> system, turns |-> turns]

IsSystem(turn) == turn.role \in {"system", "developer"}
HasImage(turn) == \E i \in DOMAIN turn.parts : turn.parts[i].kind = "image"
TextsOf(parts) == SelectSeq(parts, LAMBDA p : p.kind = "text")
CallsOf(turn) == [i \in DOMAIN turn.calls |-> Call(turn.calls[i])]

\* The text of system and developer turns, wherever they stand.
SystemParts(turns) ==
  FlattenSeq([i \in DOMAIN turns |-> IF IsSystem(turns[i]) THEN turns[i].parts ELSE <<>>])

\* Images are for users only.
MisplacesImage(turns) ==
  \E i \in DOMAIN turns : turns[i].role \notin {"user", "tool"} /\ HasImage(turns[i])
LosesCall(turns) == \E i \in DOMAIN turns : turns[i].role = "tool" /\ turns[i].of = NoId

-----------------------------------------------------------------------------
(* codex/translate.go *)

\* "messages must be an array", "image is unsupported", "tool_call_id is required",
\* and toolOutput: "content must be a string".
CodexRefuses(req) ==
  \/ req.typed
  \/ MisplacesImage(req.turns)
  \/ LosesCall(req.turns)
  \/ \E i \in DOMAIN req.turns : req.turns[i].role = "tool" /\ ~req.turns[i].plain

CodexItems(turn) ==
  CASE IsSystem(turn)     -> <<>>
    [] turn.role = "tool" -> <<Sent("tool", <<Result(turn.of, turn.parts)>>)>>
    [] OTHER -> (IF turn.parts = <<>> THEN <<>> ELSE <<Sent(turn.role, turn.parts)>>)
                \o [i \in DOMAIN turn.calls |-> Sent("assistant", <<Call(turn.calls[i])>>)]

ToResponsesRequest(req) ==
  Body(SystemParts(req.turns),
       FlattenSeq([i \in DOMAIN req.turns |-> CodexItems(req.turns[i])]))

\* translateTools and translateToolChoice: functions only, a mode or a name.
CodexRefusesTools(offer) == ~OnlyFunctions(offer) \/ offer.choice \in {"odd", "null"}

-----------------------------------------------------------------------------
(* opencode/translate.go *)

AnthropicRefuses(req) ==
  req.typed \/ MisplacesImage(req.turns) \/ LosesCall(req.turns)

\* Results in a row share one user turn.
AppendToolResult(turns, result) ==
  IF turns # <<>> /\ Last(turns).role = "user"
     /\ Last(turns).parts # <<>> /\ Head(Last(turns).parts).kind = "result"
  THEN [turns EXCEPT ![Len(turns)].parts = Append(@, result)]
  ELSE Append(turns, Sent("user", <<result>>))

AnthropicTurn(turns, turn) ==
  CASE IsSystem(turn)          -> turns
    [] turn.role = "user"      -> Append(turns, Sent("user", turn.parts))
    [] turn.role = "assistant" -> Append(turns, Sent("assistant", turn.parts \o CallsOf(turn)))
    [] turn.role = "tool"      -> AppendToolResult(turns, Result(turn.of, turn.parts))

ToAnthropicMessagesBody(req) ==
  Body(SystemParts(req.turns), FoldLeft(AnthropicTurn, <<>>, req.turns))

\* A tool that is no function has no name where translateTools looks for it.
AnthropicRefusesTools(offer) == ~OnlyFunctions(offer) \/ offer.choice \in {"odd", "null"}

-----------------------------------------------------------------------------
(* antigravity/translate.go *)

\* Mutant: once the model has spoken, no system turn counts as such.
StartedAnywhere(turns, i) == \E j \in DOMAIN turns : turns[j].role = "assistant"

\* System turns count as such until the first other turn.
Started(turns, i) == \E j \in 1..i : ~IsSystem(turns[j])

\* The assistant turn whose toolReplies have consumed turn i, or 0.
Consumer(turns, i) ==
  LET before == {j \in 1..(i - 1) : turns[j].role = "assistant"}
      last   == CHOOSE j \in before : \A k \in before : k <= j
  IN IF turns[i].role = "assistant" \/ before = {} \/ turns[last].calls = <<>> THEN 0 ELSE last

\* Every call is answered: by the last result that names it, or with "{}".
ToolReply(turns, i, id) ==
  LET mine == {j \in DOMAIN turns : Consumer(turns, j) = i
                                    /\ turns[j].role = "tool" /\ turns[j].of = id}
  IN Result(id, IF mine = {} THEN <<>>
                ELSE TextsOf(turns[CHOOSE j \in mine : \A k \in mine : k <= j].parts))

ToolReplies(turns, i) ==
  [k \in DOMAIN turns[i].calls |-> ToolReply(turns, i, turns[i].calls[k])]

Spoken(role, parts) == IF parts = <<>> THEN <<>> ELSE <<Sent(role, parts)>>

GeminiTurn(turns, i) ==
  CASE ~Started(turns, i) \/ Consumer(turns, i) # 0 \/ turns[i].role = "tool" -> <<>>
    [] turns[i].role = "assistant" ->
         Spoken("assistant", TextsOf(turns[i].parts) \o CallsOf(turns[i]))
         \o Spoken("user", ToolReplies(turns, i))
    [] OTHER -> Spoken("user", TextsOf(turns[i].parts))

GeminiContents(req) ==
  LET leads(i) == IF Started(req.turns, i) THEN <<>> ELSE TextsOf(req.turns[i].parts)
  IN Body(FlattenSeq([i \in DOMAIN req.turns |-> leads(i)]),
          FlattenSeq([i \in DOMAIN req.turns |-> GeminiTurn(req.turns, i)]))

\* functionDeclarations skips what is no function and every name it has seen.
FunctionDeclarations(tools) ==
  FoldLeft(LAMBDA decls, tool :
             IF tool.kind # "function" \/ \E i \in DOMAIN decls : decls[i].name = tool.name
             THEN decls ELSE Append(decls, tool),
           <<>>, tools)

\* Mutant: only the modes are choices, a named function is not.
GeminiOfferModes(offer) ==
  LET decls == FunctionDeclarations(offer.tools)
  IN Offer(decls, IF decls # <<>> /\ offer.choice \in {"auto", "required", "none"}
                  THEN offer.choice ELSE "absent")

\* A choice goes along with declarations only, and an unknown one is left out.
GeminiOffer(offer) ==
  LET decls == FunctionDeclarations(offer.tools)
  IN Offer(decls, IF decls = <<>> \/ offer.choice \in {"odd", "null"} THEN "absent"
                  ELSE offer.choice)

-----------------------------------------------------------------------------
(* provider.go, openai.go: the chat body, with developers renamed where it can be *)

OpenAITurn(typed, turn) ==
  IF turn.role = "tool" THEN Sent("tool", <<Result(turn.of, turn.parts)>>)
  ELSE Sent(IF turn.role = "developer" /\ ~typed THEN "system" ELSE turn.role,
            turn.parts \o CallsOf(turn))

OpenAIPayload(req) ==
  Body(<<>>, [i \in DOMAIN req.turns |-> OpenAITurn(req.typed, req.turns[i])])
=============================================================================
