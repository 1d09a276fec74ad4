----------------------------- MODULE ReplyWires -----------------------------
(***************************************************************************)
(* What each client API makes of the chat chunks of a provider: the        *)
(* buffered writer of /v1/chat/completions, anthropicTx of /v1/messages    *)
(* and responsesTx of /v1/responses.  A wire is a record that holds the    *)
(* writer's state together with what the client has read: the blocks, how  *)
(* the reply ended, and whether anything was written after that.           *)
(***************************************************************************)
EXTENDS UpstreamFeeds

CONSTANT MaxCalls \* bound: the calls of a generation

\* slots[i] is the block of call i, 0 for none; cut: the unterminated line
\* the next write continues, None for none.
NewWire(api, direct, stream) ==
    [api |-> api, direct |-> direct, stream |-> stream, began |-> FALSE, committed |-> FALSE, body |-> <<>>,
     cut |-> None, upstreamDone |-> FALSE, stop |-> None, blocks |-> <<>>,
     slots |-> [i \in 1..MaxCalls |-> 0], failure |-> FALSE, finishedOnce |-> FALSE,
     end |-> None, after |-> FALSE, stray |-> FALSE]

OpenBlocks(w) == {i \in DOMAIN w.blocks : w.blocks[i].open}
LastOpen(w) == IF OpenBlocks(w) = {} THEN 0 ELSE Max(OpenBlocks(w))

\* The client reads something that is not the end of the reply, or the end.
Writes(w) == [w EXCEPT !.after = @ \/ w.end # None]
Ends(w, kind) == [w EXCEPT !.after = @ \/ w.end # None, !.end = IF @ = None THEN kind ELSE @]

OpenBlock(w, kind, id) ==
    [Writes(w) EXCEPT !.blocks = Append(@, [kind |-> kind, id |-> id, v |-> <<>>, open |-> TRUE])]

CloseBlock(w, i) == IF i = 0 THEN w ELSE [Writes(w) EXCEPT !.blocks[i].open = FALSE]

\* mutant: the last block is left open
CloseMost(w) == [w EXCEPT !.blocks = [i \in DOMAIN @ |-> [@[i] EXCEPT !.open = @ /\ i = LastOpen(w)]]]

CloseBlocks(w) == [w EXCEPT !.blocks = [i \in DOMAIN @ |-> [@[i] EXCEPT !.open = FALSE]]]

Delta(w, i, v) == [Writes(w) EXCEPT !.stray = @ \/ ~w.blocks[i].open, !.blocks[i].v = @ \o v]
-----------------------------------------------------------------------------
(* /v1/messages.                                                           *)

Begin(w) == [Writes(w) EXCEPT !.began = TRUE]
Start(w) == IF w.committed THEN w ELSE [Begin(w) EXCEPT !.committed = TRUE]

MessagesText(w0, v) ==
    LET w == Start(w0)
        there == IF LastOpen(w) # 0 /\ w.blocks[LastOpen(w)].kind = "text" THEN w
                 ELSE OpenBlock(CloseBlock(w, LastOpen(w)), "text", None)
    IN Delta(there, LastOpen(there), v)

\* Only a text block is closed before a tool block is opened.
MessagesTool(w0, i, id, v) ==
    LET w == Start(w0)
        known == w.slots[i] # 0
        closed == IF LastOpen(w) # 0 /\ w.blocks[LastOpen(w)].kind = "text" THEN CloseBlock(w, LastOpen(w)) ELSE w
        there == IF known THEN w
                 ELSE [OpenBlock(closed, "tool", id) EXCEPT !.slots[i] = Len(w.blocks) + 1]
    IN IF v = <<>> THEN there ELSE Delta(there, there.slots[i], v)

MessagesChunk(w, c) ==
    CASE c.k = "text" -> MessagesText(w, c.v)
      [] c.k \in {"call", "args"} -> MessagesTool(w, c.i, c.id, c.v)
      [] c.k = "finish" -> [w EXCEPT !.upstreamDone = TRUE, !.stop = c.id]
      [] OTHER -> w
-----------------------------------------------------------------------------
(* /v1/responses: tool calls are dropped.                                  *)

ResponsesChunk(w, c) ==
    CASE c.k = "text" ->
            LET there == IF w.committed THEN w ELSE OpenBlock([w EXCEPT !.committed = TRUE], "text", None)
            IN Delta(there, 1, c.v)
      [] c.k = "finish" -> [w EXCEPT !.upstreamDone = TRUE, !.stop = c.id]
      [] OTHER -> w
-----------------------------------------------------------------------------
(* /v1/chat/completions: the client itself reads the chunks.  A combo      *)
(* attempt is buffered until its first text or call.                       *)

ReplyChunk(c) == c.k \in {"text", "call", "args"}

ReadChat(w, c) ==
    CASE c.k = "text" ->
            LET there == IF LastOpen(w) # 0 /\ w.blocks[LastOpen(w)].kind = "text" THEN w
                         ELSE OpenBlock(w, "text", None)
            IN Delta(there, LastOpen(there), c.v)
      [] c.k \in {"call", "args"} ->
            LET there == IF w.slots[c.i] # 0 THEN w
                         ELSE [OpenBlock(w, "tool", c.id) EXCEPT !.slots[c.i] = Len(w.blocks) + 1]
            IN Delta(there, there.slots[c.i], c.v)
      [] c.k = "finish" -> [Writes(w) EXCEPT !.upstreamDone = TRUE, !.stop = c.id]
      [] OTHER -> Writes(w)

ReadAll(w, chunks) ==
    LET read[n \in 0..Len(chunks)] ==
          IF n = 0 THEN w ELSE ReadChat(read[n - 1], chunks[n])
    IN  read[Len(chunks)]

Commit(w) == ReadAll([w EXCEPT !.committed = TRUE, !.body = <<>>], w.body)

ChatChunk(w, c) ==
    LET kept == [w EXCEPT !.body = Append(@, c)]
    IN IF w.committed THEN ReadChat(w, c)
       ELSE IF w.direct \/ ReplyChunk(c) THEN Commit(kept) ELSE kept
-----------------------------------------------------------------------------
\* A line that continues an unterminated one cannot be parsed: both are lost.
WriteChunk(w, c) ==
    IF w.api = "chat" THEN ChatChunk(w, c)
    ELSE IF w.cut # None THEN [w EXCEPT !.cut = None]
    ELSE IF w.api = "messages" THEN MessagesChunk(w, c) ELSE ResponsesChunk(w, c)

\* The chunks of an event are written one after the other.
WriteAll(w, chunks) ==
    LET written[n \in 0..Len(chunks)] ==
          IF n = 0 THEN w ELSE WriteChunk(written[n - 1], chunks[n])
    IN  written[Len(chunks)]

\* The upstream closes in the middle of a line, or after the last one but
\* before its newline: a chat client still reads that, a transaction waits.
WriteCut(w, c) ==
    IF w.api # "chat" THEN [w EXCEPT !.cut = IF @ = None THEN c ELSE @]
    ELSE IF w.committed /\ c.k = "finish" THEN ReadChat(w, c) ELSE w

\* The proxies forward the headers before the body: that commits a direct reply.
Headers(w) == [w EXCEPT !.committed = @ \/ (w.api = "chat" /\ w.direct)]

\* A collected reply; only /v1/chat/completions passes an empty one on.
HasReply(m) == m.text # <<>> \/ m.calls # <<>>

Collect(w, m, reason) ==
    IF ~HasReply(m) /\ ~(w.api = "chat" /\ w.direct) THEN w
    ELSE [w EXCEPT !.committed = TRUE, !.upstreamDone = TRUE, !.stop = reason,
                   !.blocks = <<[kind |-> "text", id |-> None, v |-> m.text, open |-> FALSE]>> \o
                              [i \in DOMAIN m.calls |->
                                  [kind |-> "tool", id |-> m.calls[i].id, v |-> m.calls[i].args, open |-> FALSE]]]

\* What finish makes of an attempt whose provider returned: "done", "retry"
\* by the next target, or "failed" once the client has bytes.
Verdict(w, ok) ==
    LET kept == IF w.committed THEN "failed" ELSE "retry"
    IN CASE w.api = "chat" /\ w.direct -> IF ok THEN "done" ELSE kept
         [] w.api = "chat" /\ ~w.direct -> IF w.committed /\ ok THEN "done" ELSE kept
         [] w.api = "messages" -> IF ok /\ w.upstreamDone THEN "done" ELSE kept
         [] w.api = "responses" -> IF ok /\ w.upstreamDone THEN "done"
                                   ELSE IF ok THEN "retry" ELSE kept

\* The attempt of the next target: a buffer of its own on the chat wire, the
\* same transaction on the two others.
NextAttempt(w) == [w EXCEPT !.body = <<>>]

\* mutant: headers and pings do not count as a started reply
MessagesFinishedQuietly(w) ==
    IF w.finishedOnce \/ ~w.committed THEN [w EXCEPT !.finishedOnce = TRUE]
    ELSE Ends(CloseBlocks([w EXCEPT !.finishedOnce = TRUE]), IF w.failure THEN "error" ELSE "done")

\* A collected reply is rendered if there is one.
MessagesFinished(w) ==
    IF w.finishedOnce THEN w
    ELSE LET once == [w EXCEPT !.finishedOnce = TRUE]
         IN IF ~w.committed /\ (~w.began \/ ~w.stream) THEN once
            ELSE IF ~w.committed \/ w.failure THEN Ends(once, "error")
            ELSE Ends(CloseBlocks(once), "done")

\* mutant: the finish is not claimed
ResponsesFinishedAgain(w) ==
    IF w.failure \/ (~w.stream /\ ~w.committed) THEN Ends(w, "error") ELSE Ends(CloseBlocks(w), "done")

\* A stream that never started is completed all the same, and a collected
\* reply that never came is answered as malformed.
ResponsesFinished(w) ==
    IF w.finishedOnce THEN w
    ELSE LET once == [w EXCEPT !.finishedOnce = TRUE]
         IN IF w.failure \/ (~w.stream /\ ~w.committed) THEN Ends(once, "error")
            ELSE Ends(CloseBlocks(once), "done")

Finished(w) ==
    CASE w.api = "chat" -> Ends(w, IF w.failure THEN "error" ELSE "done")
      [] w.api = "messages" -> MessagesFinished(w)
      [] w.api = "responses" -> ResponsesFinished(w)

ErrorBody(w) == Ends(w, "error")
Fail(w) == [w EXCEPT !.failure = TRUE]
-----------------------------------------------------------------------------
\* The message a client puts together.
MessageRead(blocks) ==
    LET read[n \in 0..Len(blocks)] ==
          IF n = 0 THEN [text |-> <<>>, calls |-> <<>>]
          ELSE LET b == blocks[n]
               IN  IF b.kind = "text" THEN [read[n - 1] EXCEPT !.text = @ \o b.v]
                   ELSE [read[n - 1] EXCEPT !.calls = Append(@, [id |-> b.id, args |-> b.v])]
    IN  read[Len(blocks)]
TextRead(w) == MessageRead(w.blocks).text
CallsRead(w) == MessageRead(w.blocks).calls
=============================================================================
