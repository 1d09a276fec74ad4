---------------------------- MODULE RequestTurns ----------------------------
(***************************************************************************)
(* A client's conversation, growing turn by turn, and the request that     *)
(* every upstream would be sent for it at each point.  The client's turns  *)
(* are the only steps: translation keeps no state, which is what the       *)
(* properties have to make sure of - the same history must come out the    *)
(* same way in every later request.                                        *)
(***************************************************************************)
EXTENDS UpstreamTurns, TLC

CONSTANTS
  MaxTurns,   \* bound: turns of a conversation
  Offers      \* bound: what is offered as tools, in conversations of one turn

Apis == {"chat", "messages", "responses"}
Upstreams == {"codex", "anthropic", "gemini", "openai"}

NoOffer == Offer(<<>>, "absent")

ASSUME TurnsAssumption == MaxTurns \in Nat

VARIABLES
  api,      \* the endpoint the client talks to
  system,   \* its system text, outside the turns of /v1/messages
  talk,     \* the conversation
  said,     \* utterances so far
  offer     \* tools and tool choice

vars == <<api, system, talk, said, offer>>

-----------------------------------------------------------------------------
(* The client *)

OpenCalls ==
  IF talk = <<>> \/ Last(talk).role # "assistant" THEN <<>>
  ELSE SelectSeq(Last(talk).blocks, LAMBDA b : b.kind = "call")

LastRole == IF talk = <<>> THEN "none" ELSE Last(talk).role

Say(role, plain, blocks, n) ==
  /\ Len(talk) < IF offer = NoOffer THEN MaxTurns ELSE 1
  /\ talk' = Append(talk, Turn(role, plain, blocks))
  /\ said' = said + n
  /\ UNCHANGED <<api, system, offer>>

\* A question, in the shapes clients give it.
UserSays ==
  /\ OpenCalls = <<>>
  /\ LastRole # "user"
  /\ LET n == said + 1
     IN \/ Say("user", TRUE, <<Text(n)>>, 1)
        \/ Say("user", FALSE, <<Image(n)>>, 1)
        \/ Say("user", FALSE, <<Text(n), Image(n + 1)>>, 2)

\* All open calls are answered in one turn, with nothing, a text, two texts, or a text
\* and an image; with a remark behind the results or without.
UserAnswers ==
  /\ OpenCalls # <<>>
  /\ \E shape \in 1..4, remark \in BOOLEAN :
       LET n       == Len(OpenCalls)
           at(i)   == said + 2 * i - 1
           out(i)  == CASE shape = 1 -> <<>>
                        [] shape = 2 -> <<Text(at(i))>>
                        [] shape = 3 -> <<Text(at(i)), Text(at(i) + 1)>>
                        [] OTHER     -> <<Text(at(i)), Image(at(i) + 1)>>
           results == [i \in 1..n |-> Result(OpenCalls[i].says, out(i))]
       IN Say("user", FALSE,
              results \o (IF remark THEN <<Text(said + 2 * n + 1)>> ELSE <<>>), 2 * n + 1)

\* A client of stored responses sends the output of a call without the call.
UserAnswersAlone ==
  /\ api = "responses"
  /\ LastRole # "user"
  /\ Say("user", FALSE, <<Result(NoId, <<Text(said + 1)>>)>>, 1)

\* The reply the client got and keeps.
AssistantSaid ==
  /\ LastRole \in {"user", "system", "developer"}
  /\ LET n == said + 1
     IN \/ Say("assistant", TRUE, <<Text(n)>>, 1)
        \/ Say("assistant", FALSE, <<Thinking(n)>>, 1)
        \/ Say("assistant", FALSE, <<Thinking(n), Text(n + 1), Call(n + 2)>>, 3)
        \/ Say("assistant", FALSE, <<Call(n), Call(n + 1)>>, 2)

\* An instruction between the turns: a string, or a list of two texts.
Instructed ==
  /\ LastRole \in {"none", "user"}
  /\ \E role \in {"system", "developer"} :
       \/ Say(role, TRUE, <<Text(said + 1)>>, 1)
       \/ Say(role, FALSE, <<Text(said + 1), Text(said + 2)>>, 2)

Init ==
  /\ api \in Apis
  /\ said \in {0, 1}
  /\ system = IF said = 1 THEN <<Text(1)>> ELSE <<>>
  /\ talk = <<>>
  /\ offer \in Offers

Next == UserSays \/ UserAnswers \/ UserAnswersAlone \/ AssistantSaid \/ Instructed

Spec == Init /\ [][Next]_vars

-----------------------------------------------------------------------------
(* The gateway *)

\* 400 at the entry point.
EntryRefuses(conversation) ==
  CASE api = "messages"  -> MessagesRefuses(conversation) \/ MessagesRefusesTools(offer)
    [] api = "responses" -> ResponsesRefuses(conversation) \/ ResponsesRefusesTools(offer)
    [] OTHER             -> FALSE

ChatRequest(conversation) ==
  CASE api = "messages"  -> Request(FALSE, MessagesRequest(system, conversation))
    [] api = "responses" -> Request(TRUE, ResponsesRequest(system, conversation))
    [] OTHER             -> Request(FALSE, ChatClient(system, conversation))

ChatOffer == IF api = "chat" THEN offer ELSE EntryOffer(offer)

Refuses(upstream, conversation) ==
  \/ EntryRefuses(conversation)
  \/ upstream = "codex" /\ (CodexRefuses(ChatRequest(conversation)) \/ CodexRefusesTools(ChatOffer))
  \/ upstream = "anthropic"
     /\ (AnthropicRefuses(ChatRequest(conversation)) \/ AnthropicRefusesTools(ChatOffer))

Sends(upstream, conversation) ==
  CASE upstream = "codex"     -> ToResponsesRequest(ChatRequest(conversation))
    [] upstream = "anthropic" -> ToAnthropicMessagesBody(ChatRequest(conversation))
    [] upstream = "gemini"    -> GeminiContents(ChatRequest(conversation))
    [] upstream = "openai"    -> OpenAIPayload(ChatRequest(conversation))

SendsOffer(upstream) == IF upstream = "gemini" THEN GeminiOffer(ChatOffer) ELSE ChatOffer

Served == {u \in Upstreams : ~Refuses(u, talk)}

-----------------------------------------------------------------------------
(* Properties *)

\* Numbers of what is said in parts: in a result, of what the tool said.
Says(part) == IF part.kind = "result" THEN [i \in DOMAIN part.parts |-> part.parts[i].says]
              ELSE <<part.says>>
Said(parts) == FlattenSeq([i \in DOMAIN parts |-> Says(parts[i])])
SaidIn(turns, Roles) ==
  FlattenSeq([i \in DOMAIN turns |->
                IF turns[i].role \in Roles
                THEN Said(IF "parts" \in DOMAIN turns[i] THEN turns[i].parts
                          ELSE turns[i].blocks) ELSE <<>>])
Numbers(s) == {s[i] : i \in DOMAIN s}
Rising(s) == \A i \in 1..(Len(s) - 1) : s[i] < s[i + 1]

Instructors == {"system", "developer"}
Speakers == {"user", "assistant", "tool"}

\* Whatever an upstream is told was said, in the order it was said, once, and by
\* the one who said it: no translation puts words into another mouth.  Instructions may move
\* to the front, those of the system before those of a developer, and antigravity has the
\* user say the ones that follow other turns.
Faithful ==
  \A u \in Served :
    LET body   == Sends(u, talk)
        told   == Said(body.system) \o SaidIn(body.turns, Instructors)
        spoken == SaidIn(body.turns, Speakers)
        mine   == Numbers(SaidIn(talk, {"assistant"}))
        of(role) == SelectSeq(told, LAMBDA n : n \in Numbers(SaidIn(talk, {role})))
    IN /\ Rising(spoken)
       /\ IsInjective(told) /\ \A role \in Instructors : Rising(of(role))
       /\ Numbers(told) \cap Numbers(spoken) = {}
       /\ Numbers(told) \subseteq Numbers(Said(system)) \cup Numbers(SaidIn(talk, Instructors))
       /\ Numbers(SaidIn(body.turns, {"assistant"})) \subseteq mine
       /\ Numbers(SaidIn(body.turns, {"user", "tool"})) \cap mine = {}

\* What does not survive a translation that is accepted, and nothing else does not:
\* thinking; a result without its call; instructions that are a list, within
\* /v1/messages; and on antigravity images, and whatever stands beside the results of a call.
Numbered(turn, kinds) == Numbers(Said(SelectSeq(turn.blocks, LAMBDA b : b.kind \in kinds)))
AnswersCalls(i) ==
  \E j \in 1..(i - 1) : /\ "call" \in Kinds(talk[j])
                        /\ \A k \in (j + 1)..i : talk[k].role # "assistant"
ImagesIn(turn) ==
  LET inside(b) == IF b.kind = "result" THEN b.parts ELSE <<b>>
      parts     == FlattenSeq([i \in DOMAIN turn.blocks |-> inside(turn.blocks[i])])
  IN {parts[i].says : i \in {k \in DOMAIN parts : parts[k].kind = "image"}}
LostWith(u, i) ==
  UNION {Numbered(talk[i], {"thinking"}),
         IF u = "gemini" THEN ImagesIn(talk[i]) ELSE {},
         IF u = "gemini" /\ AnswersCalls(i) THEN Numbered(talk[i], {"text"}) ELSE {},
         IF u = "gemini" /\ api = "responses" THEN Numbered(talk[i], {"result"}) ELSE {},
         IF api = "messages" /\ talk[i].role = "system" /\ ~talk[i].plain
         THEN Numbered(talk[i], {"text"}) ELSE {}}
Arrived(u) ==
  LET body == Sends(u, talk)
  IN Numbers(Said(body.system)) \cup Numbers(SaidIn(body.turns, Instructors \cup Speakers))
OnlyThatIsLost ==
  \A u \in Served : \A i \in DOMAIN talk :
    Numbers(Said(talk[i].blocks)) \ LostWith(u, i) \subseteq Arrived(u)

\* The pairing every upstream insists on: a result answers a call of the
\* assistant's last word, with nothing but calls and results between them, and when it is
\* the model's turn again no call is left without exactly one result.
Talk(u) == Sends(u, talk).turns
CallIn(turn, id) == \E k \in DOMAIN turn.parts : turn.parts[k] = Call(id)
ResultIn(turn, id) ==
  \E k \in DOMAIN turn.parts : turn.parts[k].kind = "result" /\ turn.parts[k].of = id
ResultsOf(turns, id) ==
  {p \in {<<i, k>> : i \in DOMAIN turns, k \in 1..9} :
     p[2] \in DOMAIN turns[p[1]].parts /\ turns[p[1]].parts[p[2]].kind = "result"
     /\ turns[p[1]].parts[p[2]].of = id}
ToolsOnly(turn) == \A k \in DOMAIN turn.parts : turn.parts[k].kind \in {"call", "result"}
Answered(turns, id) ==
  \E i, j \in DOMAIN turns :
    /\ i < j /\ CallIn(turns[i], id) /\ ResultIn(turns[j], id)
    /\ \A k \in (i + 1)..j : ToolsOnly(turns[k])
CallsPaired ==
  api # "responses" /\ OpenCalls = <<>> =>
    \A u \in Served : \A i \in DOMAIN talk : \A b \in {talk[i].blocks[k] : k \in DOMAIN talk[i].blocks} :
      b.kind = "call" =>
        Answered(Talk(u), b.says) /\ \A p, q \in ResultsOf(Talk(u), b.says) : p = q

\* A later request only adds to what an upstream was sent before, unless the
\* client instructs anew: history is never retold, so a prompt cache of the upstream keeps
\* its prefix, and the model does not see its own past change.
Asked(k) == k \in DOMAIN talk /\ talk[k].role \in {"user", "system", "developer"}
GrowsOnly ==
  \A u \in Served : \A k \in 1..(Len(talk) - 1) :
    LET before == SubSeq(talk, 1, k)
    IN /\ Asked(k) /\ ~Refuses(u, before)
       /\ \A j \in (k + 1)..Len(talk) : talk[j].role \notin Instructors
       => /\ Sends(u, before).system = Sends(u, talk).system
          /\ IsPrefix(Sends(u, before).turns, Talk(u))

\* "Silently removing a tool the model was told it has changes the task": a
\* request is refused or carries every tool and the choice.  Only on antigravity, and only
\* behind the chat endpoint, are other tools, second namesakes and odd choices left out.
Namesakes(tools) == \E i, j \in DOMAIN tools : i # j /\ tools[i].name = tools[j].name
FunctionNames(tools) == {tools[i].name : i \in {k \in DOMAIN tools : tools[k].kind = "function"}}
OddOnGemini ==
  \/ api = "chat" /\ (~OnlyFunctions(offer) \/ offer.choice = "null")
  \/ api # "messages" /\ offer.choice = "odd"
  \/ Namesakes(offer.tools)
ToolsKept ==
  \A u \in Served :
    /\ SendsOffer(u) = ChatOffer \/ (u = "gemini" /\ OddOnGemini)
    /\ FunctionNames(SendsOffer(u).tools) = FunctionNames(ChatOffer.tools)
    /\ SendsOffer(u).choice \in {ChatOffer.choice, "absent"}

=============================================================================
