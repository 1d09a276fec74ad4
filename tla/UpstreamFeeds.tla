---------------------------- MODULE UpstreamFeeds ----------------------------
(***************************************************************************)
(* How the providers read the event stream of an upstream and what chat    *)
(* chunks they make of it.  An operator stands for one event of one wire   *)
(* protocol: it takes the translator's state and returns the next one with *)
(* the chunks that are written.  A text or an argument string is a         *)
(* sequence of fragments; calls are numbered from 1.                       *)
(***************************************************************************)
EXTENDS Naturals, SequencesExt

CONSTANT None \* no value: a missing identifier, index or reason

Chunk(k, i, id, v) == [k |-> k, i |-> i, id |-> id, v |-> v]
Role == Chunk("role", 0, None, <<>>)
Text(v) == Chunk("text", 0, None, v)
Think == Chunk("think", 0, None, <<>>)
Announce(i, id, v) == Chunk("call", i, id, v)
Args(i, v) == Chunk("args", i, None, v)
Finish(reason) == Chunk("finish", 0, reason, <<>>)

\* text and calls are what the collected reply is rendered from.
NewFeed == [role |-> FALSE, text |-> <<>>, thought |-> FALSE, calls |-> <<>>,
            events |-> FALSE, completed |-> FALSE, failed |-> FALSE, reason |-> None]

Result(s, out) == [s |-> [s EXCEPT !.events = TRUE], out |-> out]

\* The role goes out once, before the first chunk.
WithRole(r) ==
    IF r.s.role \/ r.out = <<>> THEN r
    ELSE [s |-> [r.s EXCEPT !.role = TRUE], out |-> <<Role>> \o r.out]

\* Errors and unknown events end every translator but codex's the same way.
Failed(s) == Result([s EXCEPT !.failed = TRUE], <<>>)
Ignored(s) == Result(s, <<>>)
-----------------------------------------------------------------------------
(* Anthropic Messages events, read by anthropicState.consume.              *)

AnthropicText(s, v) == WithRole(Result([s EXCEPT !.text = @ \o v], <<Text(v)>>))
AnthropicThinking(s) == WithRole(Result([s EXCEPT !.thought = TRUE], <<Think>>))

AnthropicToolUse(s, id) ==
    LET i == Len(s.calls) + 1
    IN WithRole(Result([s EXCEPT !.calls = Append(@, [id |-> id, item |-> None, out |-> None, args |-> <<>>])],
                       <<Announce(i, id, <<>>)>>))

\* mutant: fragments go to the first call
AnthropicInputFirst(s, v) == WithRole(Result([s EXCEPT !.calls[1].args = @ \o v], <<Args(1, v)>>))

\* The block index of the event is not read: the last call gets the fragment.
AnthropicInput(s, v) ==
    LET i == Len(s.calls) IN WithRole(Result([s EXCEPT !.calls[i].args = @ \o v], <<Args(i, v)>>))

AnthropicReason(reason, tools) ==
    IF reason = "tool_use" THEN "tool_calls"
    ELSE IF reason = "max_tokens" THEN "length"
    ELSE IF reason = None /\ tools THEN "tool_calls" ELSE "stop"

AnthropicEnd(s, reason) ==
    LET r == AnthropicReason(reason, s.calls # <<>>)
    IN WithRole(Result([s EXCEPT !.completed = TRUE, !.reason = r], <<Finish(r)>>))

\* message_stop finishes a generation whose message_delta gave no reason.
AnthropicStop(s) == IF s.completed THEN Ignored(s) ELSE AnthropicEnd(s, None)
-----------------------------------------------------------------------------
(* Responses events, read by responsesState.consume (dialect "opencode")   *)
(* and by streamState.consume ("codex").  What names a call in an event is *)
(* a record [item, call, out] of what the upstream chose to send.          *)

\* codex sends the role ahead of every event of these kinds, chunk or not.
CodexRole(d, r, emits) ==
    IF d = "codex" /\ ~r.s.role
    THEN IF emits THEN [s |-> [r.s EXCEPT !.role = TRUE], out |-> <<Role>> \o r.out] ELSE r
    ELSE WithRole(r)

FindTool(d, s, ev) ==
    LET same(f, v) == {i \in DOMAIN s.calls : v # None /\ s.calls[i][f] = v}
        byItem == same("item", ev.item)
        byCall == same("id", ev.call)
        byOut  == same("out", ev.out)
    IN IF byItem # {} THEN Max(byItem)
       ELSE IF byCall # {} THEN Min(byCall)
       ELSE IF byOut # {} THEN Max(byOut)
       ELSE IF Len(s.calls) = 1 /\ ~(d = "codex" /\ ev.out # None) THEN 1 ELSE 0

AddTool(s, ev, args) ==
    [s EXCEPT !.calls = Append(@, [id |-> ev.call, item |-> ev.item, out |-> ev.out, args |-> args])]

ResponsesText(d, s, v) == CodexRole(d, Result([s EXCEPT !.text = @ \o v], <<Text(v)>>), TRUE)
ResponsesReasoning(d, s) == CodexRole(d, Result([s EXCEPT !.thought = TRUE], <<Think>>), TRUE)

ResponsesItemAdded(d, s, ev) ==
    CodexRole(d, Result(AddTool(s, ev, <<>>), <<Announce(Len(s.calls) + 1, ev.call, <<>>)>>), TRUE)

\* An event that names no call it knows is dropped.
ResponsesArgs(d, s, ev, v) ==
    LET i == FindTool(d, s, ev)
    IN CodexRole(d, IF i = 0 THEN Ignored(s)
                    ELSE Result([s EXCEPT !.calls[i].args = @ \o v], <<Args(i, v)>>), TRUE)

\* The finished item carries all the arguments: they count if none were seen.
ResponsesCallDone(d, s, ev, args) ==
    LET i == FindTool(d, s, ev)
    IN CodexRole(d, IF i = 0 THEN Result(AddTool(s, ev, args), <<Announce(Len(s.calls) + 1, ev.call, args)>>)
                    ELSE IF s.calls[i].args = <<>> /\ args # <<>>
                         THEN Result([s EXCEPT !.calls[i].args = args], <<Args(i, args)>>)
                         ELSE Ignored(s), FALSE)

ResponsesReasoningDone(d, s) ==
    CodexRole(d, IF s.thought THEN Ignored(s) ELSE Result([s EXCEPT !.thought = TRUE], <<Think>>), FALSE)

\* codex has no case for a finished message item.
ResponsesMessageDone(d, s, v) ==
    IF d = "codex" \/ s.text # <<>> THEN Ignored(s)
    ELSE WithRole(Result([s EXCEPT !.text = v], <<Text(v)>>))

\* applyOutput: the output of the completed response fills what no event
\* brought, for the collected reply only: no chunk is written for it.
ApplyOutput(s, output) ==
    LET applied[n \in 0..Len(output.calls)] ==
          IF n = 0 THEN [s EXCEPT !.text = IF @ = <<>> THEN output.text ELSE @]
          ELSE LET t == applied[n - 1]
                   c == output.calls[n]
                   ev == [item |-> c.item, call |-> c.call, out |-> None]
               IN  IF FindTool("opencode", t, ev) # 0 THEN t ELSE AddTool(t, ev, c.args)
    IN  applied[Len(output.calls)]

ResponsesCompleted(d, s, incomplete, output) ==
    LET full == IF d = "codex" THEN s ELSE ApplyOutput(s, output)
        r == IF incomplete THEN "length" ELSE IF full.calls # <<>> THEN "tool_calls" ELSE "stop"
    IN CodexRole(d, Result([full EXCEPT !.completed = TRUE, !.reason = r], <<Finish(r)>>), TRUE)
-----------------------------------------------------------------------------
(* Gemini frames, read by frameToSSE and, for a collected reply, by        *)
(* aggregateSSE.  A frame is [text, thought, calls, reason]; a call comes  *)
(* whole, and its id is its number.                                        *)

GeminiReason(reason, calls) ==
    IF calls THEN "tool_calls" ELSE IF reason = "MAX_TOKENS" THEN "length" ELSE "stop"

\* The streamed reason counts the calls of the last frame, the collected one
\* all of them.
GeminiFrame(s, f) ==
    LET next == Len(s.calls)
        deltas == (IF f.text # <<>> THEN <<Text(f.text)>> ELSE <<>>)
                  \o (IF f.thought THEN <<Think>> ELSE <<>>)
                  \o [j \in 1..Len(f.calls) |-> Announce(next + j, next + j, f.calls[j])]
        all == s.calls \o [j \in 1..Len(f.calls) |->
                              [id |-> next + j, item |-> None, out |-> None, args |-> f.calls[j]]]
        ends == IF f.reason = None THEN <<>> ELSE <<Finish(GeminiReason(f.reason, f.calls # <<>>))>>
    IN Result([s EXCEPT !.text = @ \o f.text, !.thought = @ \/ f.thought, !.calls = all,
                        !.completed = @ \/ f.reason # None,
                        !.reason = IF f.reason = None THEN @ ELSE GeminiReason(f.reason, all # <<>>)],
              deltas \o ends)

GeminiProduced(s) == s.text # <<>> \/ s.thought \/ s.calls # <<>>
-----------------------------------------------------------------------------
(* What ends an exchange.                                                  *)

\* The proxies of OpenAI streams only watch for a completion signal;
\* opencode's does not even do that.
PassedOn(s, c) ==
    Result([s EXCEPT !.completed = @ \/ c.k \in {"finish", "done"}], <<c>>)

Succeeds(proto, s) ==
    CASE proto = "proxy" -> TRUE
      [] proto = "gemini" -> s.completed \/ GeminiProduced(s)
      [] OTHER -> s.completed /\ ~s.failed

\* A Gemini feed that closes after content is closed for it.
Closing(proto, s) ==
    IF proto = "gemini" /\ ~s.completed
    THEN <<Finish(GeminiReason(None, s.calls # <<>>))>> ELSE <<>>

Collected(s) ==
    [text |-> s.text, calls |-> [i \in DOMAIN s.calls |-> [id |-> s.calls[i].id, args |-> s.calls[i].args]]]
=============================================================================
