----------------------------- MODULE ReplyStream -----------------------------
(***************************************************************************)
(* One request, from the events of the upstreams to what the client reads: *)
(* a chain of attempts, each with a translator of its own, that write into *)
(* the client's API.  The upstream follows its protocol, but may say less  *)
(* than it should, close at any moment, or fail.                           *)
(***************************************************************************)
EXTENDS ReplyWires

CONSTANTS
    Protocols, \* what the targets speak: "openai" and "proxy" (passed on by
               \* openai.go and by opencode), "anthropic", "responses"
               \* (opencode), "codex", "gemini"
    Apis,      \* the APIs the clients use
    Labels,    \* what may name a call: sets of "item" and "out"
    Attempts,  \* bound: the targets of a chain
    MaxPieces  \* bound: the fragments of a generation

ASSUME ReplyStreamAssumption ==
    /\ Protocols \subseteq {"openai", "proxy", "anthropic", "responses", "codex", "gemini"}
    /\ Apis \subseteq {"chat", "messages", "responses"}
    /\ {} \in Labels /\ Labels \subseteq SUBSET {"item", "out"}
    /\ {Attempts, MaxPieces, MaxCalls} \subseteq Nat
    /\ None \notin Nat
    /\ None \notin {"call", "done", "error", "tool_use", "max_tokens", "tool_calls", "length", "stop"}

VARIABLES
    phase,   \* "next", "reading", "returned" (the provider), "over", "left" (the handler)
    attempt, \* how many targets were dispatched
    proto,   \* what the current one speaks
    up,      \* where the upstream is in its protocol
    said,    \* history: the generation of the upstream
    feed,    \* the translator
    ok,      \* whether the provider returned without an error
    wire,    \* the writer and its client
    pinger,  \* the keep-alive goroutine of /v1/messages
    late,    \* history: it wrote after the handler had returned
    fresh    \* history: no earlier attempt had left anything in the transaction

vars == <<phase, attempt, proto, up, said, feed, ok, wire, pinger, late, fresh>>

\* labels: what names a call in the events of a Responses upstream; held: it
\* keeps its output for the end; since: the calls there were at the last text;
\* broken: a call went on after a text.
Idle(labels) == [block |-> None, open |-> {}, pieces |-> 0, ended |-> FALSE, labels |-> labels,
                 held |-> FALSE, since |-> 0, broken |-> FALSE]
Nothing == [text |-> <<>>, calls |-> <<>>, reason |-> None]

TypeOK ==
    /\ phase \in {"next", "reading", "returned", "over", "left"}
    /\ attempt \in 0..Attempts
    /\ proto \in Protocols \cup {None}
    /\ Len(feed.calls) <= MaxCalls
    /\ ok \in BOOLEAN
    /\ wire.end \in {None, "done", "error"}
    /\ pinger \in {"off", "waiting", "firing", "gone"}
    /\ late \in BOOLEAN

Init ==
    /\ phase = "next" /\ attempt = 0 /\ proto = None
    /\ up = Idle({}) /\ said = Nothing /\ feed = NewFeed /\ ok = FALSE
    /\ \E api \in Apis, direct \in BOOLEAN, stream \in BOOLEAN :
          LET w == NewWire(api, direct, stream)
          IN IF api = "messages" /\ direct /\ stream
             THEN wire = Begin(w) /\ pinger = "waiting"
             ELSE wire = w /\ pinger = "off"
    /\ late = FALSE /\ fresh = TRUE
-----------------------------------------------------------------------------
\* A target is dispatched.
Dispatch(p, labels) ==
    /\ phase = "next"
    /\ phase' = "reading"
    /\ attempt' = attempt + 1
    /\ proto' = p
    /\ up' = Idle(labels) /\ said' = Nothing /\ feed' = NewFeed
    /\ wire' = IF p \in {"openai", "proxy", "anthropic"} THEN Headers(NextAttempt(wire)) ELSE NextAttempt(wire)
    /\ fresh' = (wire.cut = None /\ ~wire.upstreamDone /\ (wire.api = "responses" => ~wire.committed))
    /\ UNCHANGED <<ok, pinger, late>>

\* The translator takes an event; a collected reply writes nothing yet.
Consume(r) ==
    /\ phase = "reading" /\ ~(feed.completed /\ proto # "anthropic")
    /\ feed' = r.s
    /\ wire' = IF wire.stream THEN WriteAll(wire, r.out) ELSE wire
    /\ pinger' = IF wire'.began /\ pinger = "off" THEN "waiting" ELSE pinger
    /\ UNCHANGED <<phase, attempt, proto, ok, late, fresh>>

Speaks(p) == phase = "reading" /\ proto = p /\ ~up.ended
Piece == <<up.pieces + 1>>
MorePieces == up.pieces < MaxPieces
MoreCalls == Len(said.calls) < MaxCalls
Named(c) == [id |-> c, args |-> <<>>]

SayText == said' = [said EXCEPT !.text = @ \o Piece]
SayCall(c, args) == said' = [said EXCEPT !.calls = Append(@, [id |-> c, args |-> args])]
SayArgs(c) == said' = [said EXCEPT !.calls[c].args = @ \o Piece]
SayEnd(cut) ==
    said' = [said EXCEPT !.reason = IF cut THEN "length" ELSE IF said.calls # <<>> THEN "tool_calls" ELSE "stop"]
TextPiece == up' = [up EXCEPT !.pieces = @ + 1, !.since = Len(said.calls)]
ArgsPiece(c, open) ==
    up' = [up EXCEPT !.pieces = @ + 1, !.open = open, !.broken = @ \/ c <= up.since]
-----------------------------------------------------------------------------
\* An Anthropic upstream: its blocks follow one another.
AnthropicBlock(kind) ==
    /\ Speaks("anthropic") /\ wire.stream /\ up.block = None /\ MorePieces
    /\ up' = [up EXCEPT !.block = kind]
    /\ IF kind = "call"
       THEN MoreCalls /\ SayCall(Len(said.calls) + 1, <<>>) /\ Consume(AnthropicToolUse(feed, Len(said.calls) + 1))
       ELSE UNCHANGED said /\ Consume(Ignored(feed))

AnthropicDelta ==
    /\ Speaks("anthropic") /\ up.block # None /\ MorePieces
    /\ up' = [up EXCEPT !.pieces = @ + 1]
    /\ \/ up.block = "text" /\ SayText /\ Consume(AnthropicText(feed, Piece))
       \/ up.block = "think" /\ UNCHANGED said /\ Consume(AnthropicThinking(feed))
       \/ up.block = "call" /\ SayArgs(Len(said.calls)) /\ Consume(AnthropicInput(feed, Piece))

AnthropicBlockStop ==
    /\ Speaks("anthropic") /\ up.block # None
    /\ up' = [up EXCEPT !.block = None]
    /\ UNCHANGED said /\ Consume(Ignored(feed))

\* message_delta gives the reason, message_stop ends; either may be missing.
AnthropicMessageDelta(cut) ==
    /\ Speaks("anthropic") /\ wire.stream /\ up.block = None
    /\ up' = [up EXCEPT !.ended = TRUE]
    /\ SayEnd(cut)
    /\ Consume(AnthropicEnd(feed, IF cut THEN "max_tokens" ELSE IF said.calls # <<>> THEN "tool_use" ELSE "end_turn"))

AnthropicMessageStop ==
    /\ phase = "reading" /\ proto = "anthropic" /\ wire.stream /\ up.block = None
    /\ up' = [up EXCEPT !.ended = TRUE]
    /\ IF up.ended THEN UNCHANGED said ELSE SayEnd(FALSE)
    /\ Consume(AnthropicStop(feed))
-----------------------------------------------------------------------------
\* A Responses upstream: calls may be open side by side when they are named.
ResponsesSpeaks == (Speaks("responses") \/ Speaks("codex")) /\ ~up.held

\* The names of call c in a delta, and in an item, which has its call_id.
InDelta(c) == [item |-> IF "item" \in up.labels THEN c ELSE None, call |-> None,
               out |-> IF "out" \in up.labels THEN c ELSE None]
InItem(c) == [InDelta(c) EXCEPT !.call = c]

ResponsesSaysText ==
    /\ ResponsesSpeaks /\ MorePieces
    /\ TextPiece /\ SayText
    /\ Consume(ResponsesText(proto, feed, Piece))

\* The text comes with the finished message only.
ResponsesSaysMessage ==
    /\ ResponsesSpeaks /\ proto = "responses" /\ MorePieces /\ said.text = <<>>
    /\ TextPiece /\ SayText
    /\ Consume(ResponsesMessageDone(proto, feed, Piece))

ResponsesThinks ==
    /\ ResponsesSpeaks /\ ~feed.thought
    /\ UNCHANGED <<up, said>>
    /\ Consume(IF MorePieces THEN ResponsesReasoning(proto, feed) ELSE ResponsesReasoningDone(proto, feed))

ResponsesAddsCall ==
    LET c == Len(said.calls) + 1
    IN /\ ResponsesSpeaks /\ MoreCalls /\ (up.labels = {} => up.open = {})
       /\ up' = [up EXCEPT !.open = @ \cup {c}]
       /\ SayCall(c, <<>>)
       /\ Consume(ResponsesItemAdded(proto, feed, InItem(c)))

ResponsesSaysArgs(c) ==
    /\ ResponsesSpeaks /\ c \in up.open /\ MorePieces
    /\ ArgsPiece(c, up.open) /\ SayArgs(c)
    /\ Consume(ResponsesArgs(proto, feed, InDelta(c), Piece))

\* The item ends; arguments that were not streamed come with it.
ResponsesEndsCall(c) ==
    /\ ResponsesSpeaks /\ c \in up.open
    /\ \/ /\ up' = [up EXCEPT !.open = @ \ {c}, !.broken = @ \/ c <= up.since]
          /\ UNCHANGED said
          /\ Consume(ResponsesCallDone(proto, feed, InItem(c), said.calls[c].args))
       \/ /\ said.calls[c].args = <<>> /\ MorePieces
          /\ ArgsPiece(c, up.open \ {c}) /\ SayArgs(c)
          /\ Consume(ResponsesCallDone(proto, feed, InItem(c), Piece))

\* An upstream that streams nothing: all its output comes at the end.
ResponsesHolds(call) ==
    /\ Speaks("responses") /\ MorePieces /\ (said = Nothing \/ up.held)
    /\ up' = [up EXCEPT !.pieces = @ + 1, !.held = TRUE]
    /\ IF call THEN MoreCalls /\ SayCall(Len(said.calls) + 1, Piece) ELSE SayText
    /\ UNCHANGED <<phase, attempt, proto, feed, ok, wire, pinger, late, fresh>>

\* The response completes, with all of its output.
ResponsesCompletes(cut) ==
    /\ Speaks("responses") \/ Speaks("codex")
    /\ up.open = {}
    /\ up' = [up EXCEPT !.ended = TRUE]
    /\ SayEnd(cut)
    /\ Consume(ResponsesCompleted(proto, feed, cut, [text |-> said.text,
               calls |-> [c \in DOMAIN said.calls |->
                             [item |-> InItem(c).item, call |-> c, args |-> said.calls[c].args]]]))
-----------------------------------------------------------------------------
\* A Gemini upstream: a frame has text, thoughts and whole calls.
GeminiSays(text, thought, calls, reason) ==
    LET f == [text |-> IF text THEN Piece ELSE <<>>, thought |-> thought,
              calls |-> [j \in 1..calls |-> <<up.pieces + 1>>], reason |-> reason]
        all == said.calls \o [j \in 1..calls |-> [id |-> Len(said.calls) + j, args |-> Piece]]
    IN /\ Speaks("gemini") /\ (thought => ~feed.thought) /\ Len(all) <= MaxCalls /\ (text \/ calls > 0 => MorePieces)
       /\ up' = [up EXCEPT !.pieces = IF text \/ calls > 0 THEN @ + 1 ELSE @, !.ended = reason # None]
       /\ said' = [text |-> said.text \o f.text, calls |-> all,
                   reason |-> IF reason = None THEN None
                              ELSE IF all # <<>> THEN "tool_calls"
                              ELSE IF reason = "MAX_TOKENS" THEN "length" ELSE "stop"]
       /\ Consume(GeminiFrame(feed, f))

\* An OpenAI upstream, whose lines are passed on.
Passes(c) == Consume(PassedOn(feed, c))
OpenAISays ==
    /\ Speaks("openai") \/ Speaks("proxy")
    /\ wire.stream
    /\ \/ MorePieces /\ TextPiece /\ SayText /\ Passes(Text(Piece))
       \/ /\ MorePieces /\ MoreCalls /\ up' = [up EXCEPT !.pieces = @ + 1]
          /\ SayCall(Len(said.calls) + 1, <<>>) /\ Passes(Announce(Len(said.calls) + 1, Len(said.calls) + 1, <<>>))
       \/ \E c \in DOMAIN said.calls :
             MorePieces /\ ArgsPiece(c, {}) /\ SayArgs(c) /\ Passes(Args(c, Piece))
       \/ /\ up' = [up EXCEPT !.ended = TRUE] /\ SayEnd(FALSE)
          /\ Passes(Finish(IF said.calls # <<>> THEN "tool_calls" ELSE "stop"))

\* Its last line has no newline: half a line, or the whole finish chunk.
OpenAICuts(whole) ==
    /\ Speaks("openai") \/ Speaks("proxy")
    /\ wire.stream
    /\ phase' = "returned"
    /\ ok' = (proto = "proxy" \/ whole)
    /\ IF whole THEN SayEnd(FALSE) /\ wire' = WriteCut(wire, Finish(IF said.calls # <<>> THEN "tool_calls" ELSE "stop"))
       ELSE UNCHANGED said /\ wire' = WriteCut(wire, Think)
    /\ UNCHANGED <<attempt, proto, up, feed, pinger, late, fresh>>

\* The upstreams whose collected reply is one JSON body.
Collects(text, calls) ==
    LET m == [text |-> IF text THEN <<1>> ELSE <<>>, calls |-> [c \in 1..calls |-> [id |-> c, args |-> <<c>>]]]
        reason == IF calls > 0 THEN "tool_calls" ELSE "stop"
    IN /\ ~wire.stream
       /\ Speaks("openai") \/ Speaks("proxy") \/ Speaks("anthropic")
       /\ said' = [text |-> m.text, calls |-> m.calls, reason |-> reason]
       /\ wire' = Collect(wire, m, reason)
       /\ phase' = "returned" /\ ok' = TRUE
       /\ UNCHANGED <<attempt, proto, up, feed, pinger, late, fresh>>
-----------------------------------------------------------------------------
\* An error event of the upstream: noted, and reported when the body ends.
UpstreamError ==
    /\ phase = "reading" /\ proto \in {"anthropic", "responses", "codex"} /\ ~feed.failed
    /\ UNCHANGED <<up, said>>
    /\ Consume(Failed(feed))

\* The body ends, where it should or anywhere.
BodyEnds ==
    LET out == Closing(proto, feed)
    IN /\ phase = "reading" /\ (wire.stream \/ proto \in {"responses", "codex", "gemini"})
       /\ phase' = "returned"
       /\ ok' = Succeeds(proto, feed)
       /\ wire' = IF ~ok' THEN wire
                  ELSE IF wire.stream THEN WriteAll(wire, out)
                  ELSE Collect(wire, Collected(feed),
                               IF proto = "gemini" /\ ~feed.completed
                               THEN GeminiReason(None, feed.calls # <<>>) ELSE feed.reason)
       /\ UNCHANGED <<attempt, proto, up, said, feed, pinger, late, fresh>>

\* A read error, a stall, an event the translator does not know.
BodyBreaks ==
    /\ phase = "reading"
    /\ phase' = "returned" /\ ok' = FALSE
    /\ UNCHANGED <<attempt, proto, up, said, feed, wire, pinger, late, fresh>>

Exhausted == wire.direct \/ attempt = Attempts

TryNext ==
    /\ phase = "returned" /\ Verdict(wire, ok) = "retry" /\ ~Exhausted
    /\ phase' = "next"
    /\ UNCHANGED <<attempt, proto, up, said, feed, ok, wire, pinger, late, fresh>>

\* The last attempt gave no reply: each API answers in its own way, and the
\* Responses one a second time.
Answer(w) ==
    IF w.direct
    THEN IF w.committed \/ w.began THEN Finished(Fail(w)) ELSE ErrorBody(w)
    ELSE CASE w.api = "chat" -> ErrorBody(w)
           [] w.api = "messages" -> ErrorBody(Finished(w))
           [] w.api = "responses" -> Finished(ErrorBody(w))

\* A chain ends the reply in onCommittedFailure and once more in the handler.
\* A collected chat reply whose headers are out is left as it is.
Broken(w) ==
    IF w.api = "chat" /\ ~w.stream THEN w
    ELSE IF w.api = "chat" \/ w.direct THEN Finished(Fail(w)) ELSE Finished(Finished(Fail(w)))

Settle ==
    /\ phase = "returned"
    /\ \/ Verdict(wire, ok) = "done" /\ wire' = Finished(wire)
       \/ Verdict(wire, ok) = "failed" /\ wire' = Broken(wire)
       \/ Verdict(wire, ok) = "retry" /\ Exhausted /\ wire' = Answer(wire)
    /\ phase' = "over"
    /\ UNCHANGED <<attempt, proto, up, said, feed, ok, pinger, late, fresh>>

\* The handler returns.
Leave ==
    /\ phase = "over"
    /\ phase' = "left"
    /\ UNCHANGED <<attempt, proto, up, said, feed, ok, wire, pinger, late, fresh>>

\* ping: its select may take the tick although the reply is over.  The pings
\* before that are left out: they change nothing here.
Tick ==
    /\ pinger = "waiting" /\ phase \in {"over", "left"}
    /\ pinger' = "firing"
    /\ UNCHANGED <<phase, attempt, proto, up, said, feed, ok, wire, late, fresh>>

\* emit writes unless the transaction is closed, which only a complete
\* message does.
Closed == phase = "left" /\ wire.end = "done"

PingUnlessOver ==
    /\ pinger = "firing"
    /\ pinger' = "waiting"
    /\ late' = (late \/ phase = "left")
    /\ UNCHANGED <<phase, attempt, proto, up, said, feed, ok, wire, fresh>>

Ping ==
    /\ pinger = "firing"
    /\ pinger' = "waiting"
    /\ late' = (late \/ (phase = "left" /\ ~Closed))
    /\ UNCHANGED <<phase, attempt, proto, up, said, feed, ok, wire, fresh>>

PingStops ==
    /\ pinger = "waiting" /\ wire.finishedOnce
    /\ pinger' = "gone"
    /\ UNCHANGED <<phase, attempt, proto, up, said, feed, ok, wire, late, fresh>>
-----------------------------------------------------------------------------
Upstream ==
    \/ \E kind \in {"text", "think", "call"} : AnthropicBlock(kind)
    \/ AnthropicDelta \/ AnthropicBlockStop \/ AnthropicMessageStop
    \/ ResponsesSaysText \/ ResponsesSaysMessage \/ ResponsesThinks \/ ResponsesAddsCall
    \/ \E c \in up.open : ResponsesSaysArgs(c) \/ ResponsesEndsCall(c)
    \/ \E b \in BOOLEAN : AnthropicMessageDelta(b) \/ ResponsesHolds(b) \/ ResponsesCompletes(b) \/ OpenAICuts(b)
    \/ \E text, thought \in BOOLEAN, calls \in 0..1, reason \in {None, "STOP", "MAX_TOKENS"} :
          GeminiSays(text, thought, calls, reason)
    \/ OpenAISays
    \/ \E text \in BOOLEAN, calls \in 0..MaxCalls : Collects(text, calls)
    \/ UpstreamError \/ BodyEnds \/ BodyBreaks

Next ==
    \/ \E p \in Protocols, labels \in Labels :
          (p \in {"responses", "codex"} \/ labels = {}) /\ attempt < Attempts /\ Dispatch(p, labels)
    \/ Upstream
    \/ TryNext \/ Settle \/ Leave
    \/ Tick \/ Ping \/ PingStops

Spec == Init /\ [][Next]_vars
-----------------------------------------------------------------------------
\* A reply ends once, and nothing of it follows its end.  The exhausted chain
\* of the Responses API is the exception: it writes the error body of the
\* chat API and then a complete reply.
OneEnding ==
    wire.after => wire.api = "responses" /\ ~wire.direct /\ Verdict(wire, ok) = "retry"

\* A reply that ends as complete is the generation of one upstream: all of
\* its text, each call with its own arguments, and a finish reason that asks
\* for the calls.  The translator may only take a generation for complete
\* that the upstream had ended; opencode's proxy does not look, and Gemini
\* feeds are closed for it.  A frame that ends a Gemini stream without a call
\* hides those before it from the reason.  What an opencode upstream holds
\* back for its last event reaches collected replies only, and of several
\* such calls the first alone is found.
Faithful ==
    wire.end = "done" /\ fresh /\ ~(up.held /\ (wire.stream \/ Len(said.calls) > 1)) =>
        /\ TextRead(wire) = said.text
        /\ wire.api # "responses" => CallsRead(wire) = said.calls
        /\ proto \notin {"proxy", "gemini"} => said.reason # None
        /\ said.reason # None /\ ~(proto = "gemini" /\ wire.stream) => wire.stop = said.reason

\* The Anthropic client gets each delta inside its block, and a complete
\* message leaves no block open, provided the upstream does not go on with a
\* call after a later text.
BlocksWellFormed ==
    wire.api = "messages" =>
        /\ wire.stray => up.broken
        /\ wire.end = "done" => OpenBlocks(wire) = {}

\* Every request is answered before its handler returns, but for two cases: a
\* chain of /v1/messages takes a stream that finished without a reply for a
\* good one, and its client is left with an empty body; a direct chat request
\* for a collected reply gets nothing after the headers of a body that breaks.
Answered ==
    phase = "left" /\ wire.end = None =>
        \/ /\ wire.api = "messages" /\ wire.stream /\ ~wire.direct
           /\ wire.upstreamDone /\ ~wire.committed
        \/ wire.api = "chat" /\ ~wire.stream /\ wire.direct /\ ~ok

\* Once a complete message was delivered and the handler is gone, the
\* keep-alive goroutine writes nothing more.
PingsStop == late => wire.end # "done"
=============================================================================
