-------------------------- MODULE StreamInvariants --------------------------
(***************************************************************************)
(* The inductive invariants that the safety properties of ReplyStream rest *)
(* on: RInv of the end of a reply, BInv of the content blocks of a         *)
(* message, and FInv of what a client has read of what its upstream said;  *)
(* and the notions of the reply, the translators and the upstream they are *)
(* stated with.                                                            *)
(***************************************************************************)
EXTENDS ReplyStream

-----------------------------------------------------------------------------
(***************************************************************************)
(* Writers.  Whatever chunk a writer takes, the reply stays open: only the *)
(* handler ends it.                                                        *)
(***************************************************************************)
Fields == {"api", "direct", "stream", "began", "committed", "body", "cut", "upstreamDone",
           "stop", "blocks", "slots", "failure", "finishedOnce", "end", "after", "stray"}

IsSeq(s) == \E S : s \in Seq(S)

Open(w) == DOMAIN w = Fields /\ IsSeq(w.body) /\ w.end = None /\ w.after = FALSE

\* The wire is w's, up to what the client has read of the reply.
Same(w, v) ==
    /\ Open(v)
    /\ v.api = w.api /\ v.direct = w.direct /\ v.stream = w.stream
    /\ v.failure = w.failure /\ v.finishedOnce = w.finishedOnce
    /\ v.began = w.began /\ v.committed = w.committed /\ v.body = w.body

\* The reply of w has gone on in v: it may have begun and been committed.
Progress(w, v) ==
    /\ Open(v)
    /\ v.api = w.api /\ v.direct = w.direct /\ v.stream = w.stream
    /\ v.failure = w.failure /\ v.finishedOnce = w.finishedOnce
    /\ w.committed => v.committed
    /\ v.began = w.began \/ (v.began /\ v.committed /\ w.api = "messages")
    /\ w.began => v.began

-----------------------------------------------------------------------------
(***************************************************************************)
(* The invariant.  While targets are tried the reply is open, and what the *)
(* writer of an API has done is bounded by how the request was made; once  *)
(* the request is settled its end is what the properties say.              *)
(***************************************************************************)
LiveWire(w) ==
    /\ Open(w) /\ w.api \in {"chat", "messages", "responses"}
    /\ w.failure = FALSE /\ w.finishedOnce = FALSE
    /\ w.began => w.api = "messages" /\ w.stream
    /\ w.api = "messages" /\ w.began /\ ~w.direct => w.committed
    /\ w.api = "messages" /\ w.stream /\ w.direct => w.began
    /\ ~w.stream /\ w.upstreamDone => w.committed

\* Only a provider that returned a reply has committed a collected chat reply.
Collecting(w, ph, o) ==
    w.api = "chat" /\ ~w.stream /\ ~w.direct /\ w.committed => ph = "returned" /\ o

Settled(w, o) ==
    /\ w.after => w.api = "responses" /\ ~w.direct /\ Verdict(w, o) = "retry"
    /\ w.end = None =>
        \/ w.api = "messages" /\ w.stream /\ ~w.direct /\ w.upstreamDone /\ ~w.committed
        \/ w.api = "chat" /\ ~w.stream /\ w.direct /\ ~o

Trying == {"next", "reading", "returned"}

RInv ==
    /\ phase \in Trying \cup {"over", "left"}
    /\ phase \in Trying => LiveWire(wire) /\ Collecting(wire, phase, ok)
    /\ phase \in {"over", "left"} => Settled(wire, ok)
    /\ late => phase = "left" /\ wire.end # "done"

\* Ending the reply leaves what the verdict is about as it is.
Kept(w, v) ==
    /\ DOMAIN v = Fields
    /\ v.api = w.api /\ v.direct = w.direct /\ v.stream = w.stream /\ v.began = w.began
    /\ v.committed = w.committed /\ v.upstreamDone = w.upstreamDone

\* A translator writes what it made of an event.
Consuming == \E r : IsSeq(r.out) /\ Consume(r)

BlockFields == {"kind", "id", "v", "open"}

GoodBlocks(bs) ==
    IsSeq(bs) /\ \A i \in 1..Len(bs) : DOMAIN bs[i] = BlockFields /\ bs[i].open \in BOOLEAN

\* n: the calls announced; Q: those a text came after.
Shape(w, n, Q) ==
    /\ GoodBlocks(w.blocks) /\ w.stray \in BOOLEAN
    /\ DOMAIN w.slots = 1..MaxCalls
    /\ \A i \in 1..MaxCalls :
          /\ w.slots[i] \in 0..Len(w.blocks)
          /\ w.slots[i] # 0 =>
                /\ i <= n /\ w.blocks[w.slots[i]].kind = "tool"
                /\ w.blocks[w.slots[i]].open \/ i \in Q
    /\ ~w.committed => w.blocks = <<>> /\ w.stray = FALSE

Calling(c) == c.k \in {"call", "args"}

\* The chunks of an event: a text comes before the calls and after those of
\* R; a chunk strays when it belongs to one of these.
Fits(chunks, n, m, R) ==
    /\ IsSeq(chunks)
    /\ \A k \in 1..Len(chunks) :
          /\ chunks[k].k = "text" => 1..n \subseteq R /\ \A j \in 1..k : ~Calling(chunks[j])
          /\ Calling(chunks[k]) => chunks[k].i \in 1..m
Strays(chunks, R) == \E k \in 1..Len(chunks) : Calling(chunks[k]) /\ chunks[k].i \in R

-----------------------------------------------------------------------------
(***************************************************************************)
(* What the translators write and know of the calls.  An event yields one  *)
(* chunk x, or none, beside chunks that are no part of the reply; and the  *)
(* calls of the feed are the calls of the generation, in its order and     *)
(* under the names the upstream gives them.                                *)
(***************************************************************************)
Quiet(c) == c.k \notin {"text", "call", "args"}

Emits(out, x) == IsSeq(out) /\ \A k \in 1..Len(out) : out[k] = x \/ Quiet(out[k])

FeedFields == {"role", "text", "thought", "calls", "events", "completed", "failed", "reason"}

\* The feed after an event: its calls are these.
Knows(r, calls) == DOMAIN r.s = FeedFields /\ r.s.calls = calls

\* Call j as a Responses upstream names it.
LabelledCall(x, j, labels) ==
    /\ DOMAIN x = {"id", "item", "out", "args"} /\ x.id = j
    /\ x.item = IF "item" \in labels THEN j ELSE None
    /\ x.out = IF "out" \in labels THEN j ELSE None

Labelled(calls, labels) == \A j \in 1..Len(calls) : LabelledCall(calls[j], j, labels)

\* The translators that go on with call i.
Continues(r, s, i) ==
    \E a : Knows(r, [s.calls EXCEPT ![i] = [s.calls[i] EXCEPT !.args = a]])

\* Chunks that follow: new calls, or what is no part of the reply.
Follows(b, m, R) ==
    IsSeq(b) /\ \A k \in 1..Len(b) : b[k].k # "text" /\ (Calling(b[k]) => b[k].i \in 1..m /\ b[k].i \notin R)

-----------------------------------------------------------------------------
(***************************************************************************)
(* The upstream and the translator.  While an attempt is read the          *)
(* translator knows the calls of the generation until its end, or until    *)
(* the upstream holds its output back.                                     *)
(***************************************************************************)
UpFields == {"block", "open", "pieces", "ended", "labels", "held", "since", "broken"}
SaidFields == {"text", "calls", "reason"}

\* The calls an upstream does not go on with, unless it breaks its blocks.
Past ==
    IF proto = "gemini" THEN 1..Len(said.calls)
    ELSE IF proto = "anthropic" THEN {c \in 1..Len(said.calls) : up.block = "call" => c < Len(said.calls)}
    ELSE 1..up.since

Translates == proto \in {"anthropic", "gemini", "responses", "codex"}
Responses == proto \in {"responses", "codex"}

\* The feed knows n calls, under their names.
Tells(s, n, labels) ==
    /\ DOMAIN s = FeedFields /\ IsSeq(s.calls) /\ Len(s.calls) = n
    /\ Responses => Labelled(s.calls, labels)

Grounds ==
    /\ DOMAIN up = UpFields /\ up.since \in 0..Len(said.calls) /\ up.open \subseteq 1..Len(said.calls)
    /\ up.held => proto = "responses"
    /\ DOMAIN said = SaidFields /\ IsSeq(said.calls) /\ Len(said.calls) <= MaxCalls
    /\ proto = "anthropic" /\ up.block = "call" => Len(said.calls) > 0
    /\ DOMAIN feed = FeedFields /\ IsSeq(feed.calls)
    /\ ~up.ended /\ ~up.held /\ Translates => Tells(feed, Len(said.calls), up.labels)

\* What the upstream has said, with n calls.
Heard(n) == DOMAIN said' = SaidFields /\ IsSeq(said'.calls) /\ Len(said'.calls) = n

\* An event of the upstream: the translator writes what fits the blocks.
Emitting ==
    /\ Grounds'
    /\ Len(said'.calls) \in Nat /\ Len(said.calls) <= Len(said'.calls)
    /\ up.broken => up'.broken
    /\ \E r, R : /\ Consume(r)
                 /\ Past \subseteq R /\ R \subseteq Past'
                 /\ Fits(r.out, Len(said.calls), Len(said'.calls), R)
                 /\ Strays(r.out, R) => up'.broken

\* How a writer is left: nothing strays that did not, and a complete message
\* has no block open.
Tidy(w, v) ==
    /\ DOMAIN v = Fields /\ v.api = w.api /\ v.stray = w.stray /\ GoodBlocks(v.blocks)
    /\ v.end = "done" => OpenBlocks(v) = {}

-----------------------------------------------------------------------------
(***************************************************************************)
(* The invariant of the blocks.  A target is dispatched only before the    *)
(* client has a block; while one is read a block of a call is open unless  *)
(* the call is past, so what strays is what the upstream broke.            *)
(***************************************************************************)
MessageBlocks ==
    /\ phase = "next" \/ (phase = "reading" /\ ~wire.stream) => ~wire.committed
    /\ phase = "reading" => Shape(wire, Len(said.calls), Past)
    /\ phase \in {"next", "returned"} => \E Q : Shape(wire, MaxCalls, Q)
    /\ wire.stray => up.broken
    /\ wire.end = "done" => OpenBlocks(wire) = {}

BInv ==
    /\ phase = "reading" => Grounds
    /\ wire.api = "messages" => MessageBlocks

-----------------------------------------------------------------------------
(***************************************************************************)
(* What a client has read of a reply, as a function of its content blocks: *)
(* the texts joined, and a call for each block of a tool.                  *)
(***************************************************************************)
Pieces == Seq(Nat)
BlockSet == [kind : {"text", "tool"}, id : Nat \cup {None}, v : Pieces, open : BOOLEAN]
CallSet == [id : Nat \cup {None}, args : Pieces]
Message == [text : Pieces, calls : Seq(CallSet)]
Blank == [text |-> <<>>, calls |-> <<>>]

Joined(m, b) ==
    IF b.kind = "text" THEN [m EXCEPT !.text = @ \o b.v]
    ELSE [m EXCEPT !.calls = Append(@, [id |-> b.id, args |-> b.v])]

\* The message after each of the blocks.
Reads(f, bs) == f = [n \in 0..Len(bs) |-> IF n = 0 THEN Blank ELSE Joined(f[n - 1], bs[n])]
Reading(bs) == CHOOSE f : Reads(f, bs)

\* A block goes on.
Longer(bs, p, v) == [bs EXCEPT ![p] = [bs[p] EXCEPT !.v = bs[p].v \o v]]

\* The arguments of call r are these.
Told(m, r, a) == [m EXCEPT !.calls = [m.calls EXCEPT ![r] = [m.calls[r] EXCEPT !.args = a]]]

\* The blocks of a collected reply are read as the reply.
Collection(m) ==
    <<[kind |-> "text", id |-> None, v |-> m.text, open |-> FALSE]>> \o
    [i \in DOMAIN m.calls |-> [kind |-> "tool", id |-> m.calls[i].id, v |-> m.calls[i].args, open |-> FALSE]]

-----------------------------------------------------------------------------
(***************************************************************************)
(* The writers. Each lays the chunks it takes so that the client reads in  *)
(* its blocks the message they tell.                                       *)
(***************************************************************************)
\* The blocks are read as m, and each call has its slot.
Lays(slots, bs, m) ==
    /\ bs \in Seq(BlockSet) /\ MessageRead(bs) = m
    /\ slots \in [1..MaxCalls -> Nat]
    /\ \A i \in 1..MaxCalls :
          /\ (slots[i] = 0) <=> (i > Len(m.calls))
          /\ slots[i] # 0 =>
                /\ slots[i] \in 1..Len(bs) /\ bs[slots[i]].kind = "tool"
                /\ Len(Reading(bs)[slots[i]].calls) = i

\* The wire is w's but for what the client has read.
On(w, v) == Same(w, v) /\ v.cut = w.cut /\ v.upstreamDone = w.upstreamDone /\ v.stop = w.stop

Wide(w, m) == Open(w) /\ Lays(w.slots, w.blocks, m)

\* The blocks of v are those of w, one of which may have gone on.
Keeps(w, v) ==
    /\ Len(v.blocks) = Len(w.blocks)
    /\ \A j \in 1..Len(w.blocks) : v.blocks[j].kind = w.blocks[j].kind /\ v.blocks[j].open = w.blocks[j].open

\* The blocks of v are those of w and an open one.
Opens(w, v, kind) ==
    /\ Len(v.blocks) = Len(w.blocks) + 1
    /\ \A j \in 1..Len(w.blocks) : v.blocks[j] = w.blocks[j]
    /\ v.blocks[Len(w.blocks) + 1].kind = kind /\ v.blocks[Len(w.blocks) + 1].open = TRUE

\* What a chunk adds to the message, and when it is one that can follow.
Tell(m, c) ==
    IF c.k = "text" THEN [text |-> m.text \o c.v, calls |-> m.calls]
    ELSE IF c.k = "call" THEN [text |-> m.text, calls |-> Append(m.calls, [id |-> c.id, args |-> c.v])]
    ELSE IF c.k = "args" THEN Told(m, c.i, m.calls[c.i].args \o c.v)
    ELSE m

Accepts(m, c) ==
    /\ c.k = "text" => c.v \in Pieces
    /\ c.k = "call" => /\ c.v \in Pieces /\ c.id \in Nat \cup {None}
                       /\ c.i \in 1..MaxCalls /\ c.i = Len(m.calls) + 1
    /\ c.k = "args" => c.v \in Pieces /\ c.v # <<>> /\ c.i \in 1..MaxCalls /\ c.i <= Len(m.calls)

AllOpen(w) == \A j \in 1..Len(w.blocks) : w.blocks[j].open

\* A chat reply that has not been written: only a buffered attempt of a chain
\* ends like that.
Hidden(w) == w.api = "chat" /\ ~w.direct /\ ~w.committed

\* The client reads m in the blocks of w, as the writer of its API laid them.
Laid(w, m) ==
    /\ m \in Message /\ w.blocks \in Seq(BlockSet)
    /\ ~w.committed => w.blocks = <<>>
    /\ w.api # "responses" => Lays(w.slots, w.blocks, m)
    /\ w.api = "chat" => AllOpen(w) /\ (~w.committed => \A k \in 1..Len(w.body) : Quiet(w.body[k]))
    /\ w.api = "messages" =>
          \A i \in 1..Len(w.blocks) : w.blocks[i].open /\ w.blocks[i].kind = "text" => i = Len(w.blocks)
    /\ w.api = "responses" =>
          /\ MessageRead(w.blocks).text = m.text
          /\ w.committed => Len(w.blocks) = 1 /\ w.blocks[1].kind = "text"

\* What is asked of a writer that takes chunk c.
Goes(w, v, m, c) ==
    /\ Laid(v, Tell(m, c)) /\ v.cut = w.cut
    /\ c.k = "finish" => Hidden(v) \/ v.stop = c.id
    /\ c.k # "finish" /\ w.api # "chat" => v.upstreamDone = w.upstreamDone

\* Only the last block may be an open text.
TextLast(w) == \A i \in 1..Len(w.blocks) : w.blocks[i].open /\ w.blocks[i].kind = "text" => i = Len(w.blocks)
NoText(w) == \A i \in 1..Len(w.blocks) : ~(w.blocks[i].open /\ w.blocks[i].kind = "text")

\* A wire on which a message goes on.
Going(s, v, m) == Wide(v, m) /\ TextLast(v) /\ On(s, v)

\* The chunks make k of m, one after the other.
Carries(out, m, k) ==
    /\ IsSeq(out)
    /\ \E g : /\ g[0] = m /\ g[Len(out)] = k
              /\ \A n \in 1..Len(out) : Accepts(g[n - 1], out[n]) /\ g[n] = Tell(g[n - 1], out[n])

Plain(out) == \A n \in 1..Len(out) : out[n].k # "finish"

\* What is not committed has no blocks.
Unwritten(w) == ~w.committed => w.blocks = <<>> /\ w.slots = [i \in 1..MaxCalls |-> 0]

\* What the attempt u of the next target takes over from w.
Takes(w, u) ==
    /\ Unwritten(u) /\ u.cut = w.cut /\ u.upstreamDone = w.upstreamDone /\ u.body = <<>>
    /\ u.blocks = w.blocks /\ u.slots = w.slots /\ u.api = w.api /\ u.direct = w.direct
    /\ u.stream = w.stream

\* The reply of v is the reply of w.
Reread(w, v) ==
    /\ v.blocks \in Seq(BlockSet) /\ MessageRead(v.blocks) = MessageRead(w.blocks)
    /\ v.stop = w.stop /\ v.api = w.api /\ v.stream = w.stream

-----------------------------------------------------------------------------
(***************************************************************************)
(* The translators. An event takes the feed on, and the chunks it yields   *)
(* tell the client the same.                                               *)
(***************************************************************************)
\* A call as a translator keeps it; a collected reply has its name and its
\* arguments.
ToolSet == [id : Nat \cup {None}, item : Nat \cup {None}, out : Nat \cup {None}, args : Pieces]
Brief(cs) == [i \in DOMAIN cs |-> [id |-> cs[i].id, args |-> cs[i].args]]
Heeding(s) == DOMAIN s = FeedFields /\ s.text \in Pieces /\ s.calls \in Seq(ToolSet)

\* Call i has these arguments.
Put(cs, i, a) == [cs EXCEPT ![i] = [cs[i] EXCEPT !.args = a]]

\* An event takes the feed to t and yields the chunks out, behind the role.
Event(r, t, out) ==
    /\ DOMAIN r.s = FeedFields /\ r.s.text = t.text /\ r.s.calls = t.calls
    /\ r.s.completed = t.completed /\ r.s.reason = t.reason
    /\ r.out = out \/ r.out = <<Role>> \o out

\* The feed goes on, and its client with it.
Utters(r, s, text, calls) ==
    /\ Heeding(r.s) /\ r.s.text = text /\ r.s.calls = calls
    /\ r.s.completed = s.completed /\ r.s.reason = s.reason
    /\ Carries(r.out, Collected(s), Collected(r.s)) /\ Plain(r.out)

\* The feed ends.
Concludes(r, s, text, calls, why) ==
    /\ Heeding(r.s) /\ r.s.text = text /\ r.s.calls = calls
    /\ r.s.completed = TRUE /\ r.s.reason = why
    /\ Len(r.out) > 0 /\ r.out[Len(r.out)].k = "finish" /\ r.out[Len(r.out)].id = why
    /\ Carries(r.out, Collected(s), Collected(s))

\* Call i has got v.
Fuller(cs, i, v) == Put(cs, i, cs[i].args \o v)

\* The finished item has all the arguments: they count if none were seen.
Finals(cs, i, v) == IF cs[i].args = <<>> /\ v # <<>> THEN Put(cs, i, v) ELSE cs

\* The recursive function of ApplyOutput does its steps.
Named0(output, n) == [item |-> output.calls[n].item, call |-> output.calls[n].call, out |-> None]
Applied(output, t, n) ==
    IF FindTool("opencode", t, Named0(output, n)) # 0 THEN t
    ELSE AddTool(t, Named0(output, n), output.calls[n].args)
Filled(s, output) == [s EXCEPT !.text = IF @ = <<>> THEN output.text ELSE @]

\* What the finished response says of its calls.
OutputSet == [item : Nat \cup {None}, call : Nat \cup {None}, args : Pieces]

-----------------------------------------------------------------------------
(***************************************************************************)
(* The upstream, the translator and the client, while an attempt is read.  *)
(***************************************************************************)
\* What the upstream has said, and what its client is told.
Spoken == [text |-> said.text, calls |-> said.calls]
Taken == IF Translates THEN Collected(feed) ELSE Spoken

\* The call goes on without a name that the translator knows: the arguments
\* come with its end.
Behind(c) == Responses /\ c \in up.open /\ up.labels = {} /\ Len(said.calls) # 1

Grasps(c) == feed.calls[c].id = c /\ feed.calls[c].args = IF Behind(c) THEN <<>> ELSE said.calls[c].args

Understands ==
    /\ up.held => IF ~feed.completed THEN feed.text = <<>> /\ feed.calls = <<>>
                  ELSE Len(said.calls) <= 1 => Collected(feed) = Spoken
    /\ ~up.held => /\ feed.text = said.text /\ Len(feed.calls) = Len(said.calls)
                   /\ \A c \in 1..Len(said.calls) : Grasps(c)
                   /\ feed.completed /\ Responses => up.open = {}

\* A collected reply has not been written.
Bare(w) == w.blocks = <<>> /\ ~w.upstreamDone /\ (w.committed => w.api = "chat" /\ w.direct)

\* A streamed one is, as far as it was taken.
Wired(w) ==
    /\ w.cut = None /\ Laid(w, Taken)
    /\ said.reason # None => proto = "gemini" \/ Hidden(w) \/ w.stop = said.reason
    /\ said.reason = None => w.api = "chat" \/ ~w.upstreamDone
    /\ proto \in {"openai", "proxy"} /\ w.api = "chat" /\ w.direct => w.committed

Sound == Spoken \in Message /\ \A c \in 1..Len(said.calls) : said.calls[c].id = c

FReading ==
    /\ Sound /\ up.pieces \in Nat /\ up.labels \subseteq {"item", "out"}
    /\ Heeding(feed)
    /\ up.ended <=> said.reason # None
    /\ feed.completed <=> said.reason # None
    /\ Translates => Understands /\ ((up.held /\ Len(said.calls) > 1) \/ feed.reason = said.reason)
    /\ fresh /\ wire.stream /\ ~up.held => Wired(wire)
    /\ fresh /\ ~wire.stream => Bare(wire)

\* The chunks of an event end the reply where the upstream does.
Tallies(out) ==
    \/ out = <<>> /\ said'.reason = said.reason
    \/ said.reason = None /\ said'.reason = None /\ Plain(out)
    \/ /\ said'.reason # None
       /\ \/ proto = "gemini"
          \/ Len(out) > 0 /\ out[Len(out)].k = "finish" /\ out[Len(out)].id = said'.reason

\* A call of a list goes on: the others stay, and so does its name.
Listed(cs, n, i) ==
    /\ IsSeq(cs) /\ n \in Nat /\ Len(cs) = n /\ i \in 1..n
    /\ "id" \in DOMAIN cs[i] /\ "args" \in DOMAIN cs[i]

Extends(cs, new, n, i, v) ==
    /\ Len(new) = n
    /\ \A j \in 1..n : j # i => new[j] = cs[j]
    /\ new[i].id = cs[i].id /\ new[i].args = cs[i].args \o v

\* What the completed response brings.
Output == [text |-> said.text,
           calls |-> [c \in DOMAIN said.calls |->
                         [item |-> InItem(c).item, call |-> c, args |-> said.calls[c].args]]]

-----------------------------------------------------------------------------
(***************************************************************************)
(* The invariant of Faithful.  A writer that has committed nothing has     *)
(* nothing; while an attempt is read, the client has what the translator   *)
(* took, and that is what the upstream said; an attempt that returned a    *)
(* good reply has delivered it.                                            *)
(***************************************************************************)
Excused == up.held /\ (wire.stream \/ Len(said.calls) > 1)

Delivers(w) ==
    /\ w.blocks \in Seq(BlockSet)
    /\ TextRead(w) = said.text
    /\ w.api # "responses" => CallsRead(w) = said.calls
    /\ proto \notin {"proxy", "gemini"} => said.reason # None
    /\ said.reason # None /\ ~(proto = "gemini" /\ w.stream) => w.stop = said.reason

FReturned == fresh /\ Verdict(wire, ok) = "done" /\ ~Excused => Delivers(wire)

FInv ==
    /\ phase \in Trying => Unwritten(wire)
    /\ phase = "next" /\ wire.api # "responses" => ~wire.committed
    /\ phase = "reading" => FReading /\ proto \in Protocols
    /\ phase = "returned" => FReturned
    /\ phase \in {"over", "left"} => Faithful

\* A collected reply that counts as one is read as it was collected.
Collectable(w, m, reason) ==
    /\ DOMAIN w = Fields /\ Bare(w) /\ w.api \in {"chat", "messages", "responses"} /\ m \in Message
    /\ Verdict(Collect(w, m, reason), TRUE) = "done"
Brings(v, m, reason) == v.blocks \in Seq(BlockSet) /\ MessageRead(v.blocks) = m /\ v.stop = reason
=============================================================================
