---------------------------- MODULE StreamProofs ----------------------------
(***************************************************************************)
(* What is proved of ReplyStream for every protocol, client API, number of *)
(* attempts and length of a generation: a reply ends once, every request   *)
(* is answered before its handler returns, the keep-alive goroutine is     *)
(* silent after a complete message, the content blocks of a message are    *)
(* well formed, and a reply that ends as a success holds the text and the  *)
(* calls its upstream sent, each with the exceptions the properties name.  *)
(* The invariants are those of StreamInvariants.                           *)
(***************************************************************************)
EXTENDS StreamInvariants, SequenceTheorems, FiniteSetTheorems, TLAPS

-----------------------------------------------------------------------------
(***************************************************************************)
(* Writers. Whatever chunk a writer takes, the reply stays open: only the  *)
(* handler ends it.                                                        *)
(***************************************************************************)
LEMMA OpenStays ==
    ASSUME NEW w, Open(w)
    PROVE  /\ Same(w, w) /\ Same(w, Writes(w))
           /\ \A kind, id : Same(w, OpenBlock(w, kind, id))
           /\ \A i : Same(w, CloseBlock(w, i))
           /\ \A i, v : Same(w, Delta(w, i, v))
<1> USE DEF Open, Fields
<1>1. Same(w, w) BY DEF Same
<1>2. Same(w, Writes(w)) BY DEF Same, Writes
<1>3. ASSUME NEW kind, NEW id PROVE Same(w, OpenBlock(w, kind, id)) BY <1>2 DEF Same, OpenBlock
<1>4. ASSUME NEW i PROVE Same(w, CloseBlock(w, i)) BY <1>1, <1>2 DEF Same, CloseBlock
<1>5. ASSUME NEW i, NEW v PROVE Same(w, Delta(w, i, v)) BY <1>2 DEF Same, Delta
<1> QED BY <1>1, <1>2, <1>3, <1>4, <1>5

LEMMA SameTrans ==
    ASSUME NEW u, NEW v, NEW w, Same(u, v), Same(v, w)
    PROVE  Same(u, w)
BY DEF Same

LEMMA ProgressTrans ==
    ASSUME NEW u, NEW v, NEW w, Progress(u, v), Progress(v, w)
    PROVE  Progress(u, w)
BY DEF Progress

LEMMA SameIsProgress ==
    ASSUME NEW u, NEW v, Same(u, v)
    PROVE  Progress(u, v)
BY DEF Same, Progress

\* The client of /v1/chat/completions reads a chunk.
LEMMA ReadChatSame ==
    ASSUME NEW w, Open(w), NEW c
    PROVE  Same(w, ReadChat(w, c))
<1>1. CASE c.k = "text"
  <2> DEFINE there == IF LastOpen(w) # 0 /\ w.blocks[LastOpen(w)].kind = "text" THEN w
                      ELSE OpenBlock(w, "text", None)
  <2>1. Same(w, there) /\ Open(there) BY OpenStays DEF Same
  <2>2. ReadChat(w, c) = Delta(there, LastOpen(there), c.v) BY <1>1 DEF ReadChat
  <2> HIDE DEF there
  <2>3. Same(there, Delta(there, LastOpen(there), c.v)) BY <2>1, OpenStays
  <2> QED BY <2>1, <2>2, <2>3, SameTrans
<1>2. CASE c.k \in {"call", "args"}
  <2> DEFINE opened == OpenBlock(w, "tool", c.id)
             there == IF w.slots[c.i] # 0 THEN w
                      ELSE [opened EXCEPT !.slots[c.i] = Len(w.blocks) + 1]
  <2>1. Same(w, opened) BY OpenStays
  <2>2. Same(w, there) /\ Open(there)
    <3> HIDE DEF opened
    <3> QED BY <2>1, OpenStays DEF Same, Open, Fields
  <2>3. ReadChat(w, c) = Delta(there, there.slots[c.i], c.v) BY <1>2 DEF ReadChat
  <2> HIDE DEF there
  <2>4. Same(there, Delta(there, there.slots[c.i], c.v)) BY <2>2, OpenStays
  <2> QED BY <2>2, <2>3, <2>4, SameTrans
<1>3. CASE c.k = "finish"
  <2> DEFINE told == Writes(w)
  <2>1. ReadChat(w, c) = [told EXCEPT !.upstreamDone = TRUE, !.stop = c.id] BY <1>3 DEF ReadChat
  <2>2. Same(w, told) BY OpenStays
  <2> HIDE DEF told
  <2> QED BY <2>1, <2>2 DEF Same, Open, Fields
<1>4. CASE c.k \notin {"text", "call", "args", "finish"} BY <1>4, OpenStays DEF ReadChat
<1> QED BY <1>1, <1>2, <1>3, <1>4

-----------------------------------------------------------------------------
(***************************************************************************)
(* Numbers and the two recursive functions over the chunks.                *)
(***************************************************************************)

\* A set of numbers has a first one.
LEMMA First ==
    ASSUME NEW N \in Nat, NEW S \in SUBSET (0..N), S # {}
    PROVE  \E x \in S : \A y \in S : x <= y
<1> DEFINE Up == {0..x : x \in S}
<1>1. IsFiniteSet(0..N) BY FS_Interval
<1>2. Up # {} /\ Up \subseteq SUBSET (0..N)
  <2>1. ASSUME NEW x \in S PROVE (0..x) \subseteq 0..N OBVIOUS
  <2> QED BY <2>1
<1>3. IsWellFoundedOn(StrictSubsetOrdering(0..N), FiniteSubsetsOf(0..N))
  BY FS_StrictSubsetOrderingWellFounded
<1>4. Up \subseteq FiniteSubsetsOf(0..N) BY <1>1, <1>2, FS_Subset DEF FiniteSubsetsOf
<1>5. PICK A \in Up : \A B \in Up : <<B, A>> \notin StrictSubsetOrdering(0..N)
  BY <1>2, <1>3, <1>4, WFMin
<1>6. PICK x \in S : A = 0..x OBVIOUS
<1>7. ASSUME NEW y \in S PROVE x <= y
  <2>1. x \in 0..N /\ y \in 0..N OBVIOUS
  <2>2. CASE y < x
    <3>1. (0..y) \in Up /\ (0..y) \subseteq A /\ x \in A /\ x \notin 0..y BY <1>6, <2>1, <2>2
    <3>2. <<0..y, A>> \in StrictSubsetOrdering(0..N) BY <1>2, <3>1 DEF StrictSubsetOrdering
    <3> QED BY <1>5, <3>1, <3>2
  <2> QED BY <2>1, <2>2
<1> QED BY <1>7

\* What each chunk does to a wire, all of them do together.
LEMMA Along ==
    ASSUME NEW N \in Nat, NEW f, Open(f[0]),
           \A n \in 1..N : Open(f[n - 1]) => Progress(f[n - 1], f[n])
    PROVE  Progress(f[0], f[N])
<1> DEFINE Bad == {n \in 0..N : ~Progress(f[0], f[n])}
<1>1. Progress(f[0], f[0]) BY OpenStays, SameIsProgress
<1>2. ASSUME Bad # {} PROVE FALSE
  <2>1. PICK n \in Bad : \A m \in Bad : n <= m BY <1>2, First
  <2>2. n \in 1..N /\ n - 1 \in 0..N /\ ~(n <= n - 1) BY <1>1, <2>1
  <2>3. Progress(f[0], f[n - 1]) BY <2>1, <2>2
  <2>4. Progress(f[n - 1], f[n]) BY <2>2, <2>3 DEF Progress
  <2> QED BY <2>1, <2>3, <2>4, ProgressTrans
<1>3. N \in 0..N OBVIOUS
<1> QED BY <1>2, <1>3

\* The recursive function of ReadAll exists, by a least counterexample, and so
\* it does what each of its steps does.
LEMMA ReadAllProgress ==
    ASSUME NEW w, Open(w), NEW chunks, IsSeq(chunks)
    PROVE  Progress(w, ReadAll(w, chunks))
<1> DEFINE N == Len(chunks)
           Steps(f, m) == f = [n \in 0..m |-> IF n = 0 THEN w ELSE ReadChat(f[n - 1], chunks[n])]
           read == CHOOSE f : Steps(f, N)
           Bad == {m \in 0..N : ~\E f : Steps(f, m)}
<1>1. N \in Nat /\ N \in 0..N BY LenProperties DEF IsSeq
<1>2. ReadAll(w, chunks) = read[N] BY DEF ReadAll
<1> HIDE DEF N
<1>3. ASSUME Bad # {} PROVE FALSE
  <2>1. PICK m \in Bad : \A k \in Bad : m <= k BY <1>1, <1>3, First
  <2>2. CASE m = 0
    <3>1. Steps([n \in 0..0 |-> w], 0) OBVIOUS
    <3> QED BY <2>1, <2>2, <3>1
  <2>3. CASE m # 0
    <3>1. m \in 1..N /\ m - 1 \in 0..N /\ ~(m <= m - 1) BY <1>1, <2>1, <2>3
    <3>2. PICK g : Steps(g, m - 1) BY <2>1, <3>1
    <3> DEFINE f == [n \in 0..m |-> IF n = m THEN ReadChat(g[m - 1], chunks[m]) ELSE g[n]]
    <3>3. ASSUME NEW n \in 0..m
          PROVE  f[n] = IF n = 0 THEN w ELSE ReadChat(f[n - 1], chunks[n])
      <4>1. CASE n = m BY <1>1, <3>1, <4>1
      <4>2. CASE n # m BY <1>1, <3>1, <4>2, <3>2
      <4> QED BY <4>1, <4>2
    <3>4. Steps(f, m) BY <3>3
    <3> QED BY <2>1, <3>4
  <2> QED BY <2>2, <2>3
<1>4. Steps(read, N)
  <2>1. \E f : Steps(f, N) BY <1>1, <1>3
  <2> HIDE DEF Steps
  <2> QED BY <2>1
<1> HIDE DEF read
<1>5. read[0] = w BY <1>1, <1>4
<1>6. ASSUME NEW n \in 1..N, Open(read[n - 1])
      PROVE  Progress(read[n - 1], read[n])
  BY <1>1, <1>4, <1>6, ReadChatSame, SameIsProgress
<1> QED BY <1>1, <1>2, <1>5, <1>6, Along

LEMMA CommitProgress ==
    ASSUME NEW w, Open(w)
    PROVE  Progress(w, Commit(w))
<1> DEFINE start == [w EXCEPT !.committed = TRUE, !.body = <<>>]
<1>1. Progress(w, start) /\ Open(start) BY EmptySeq DEF IsSeq, Open, Progress, Fields
<1>2. Commit(w) = ReadAll(start, w.body) BY DEF Commit
<1> HIDE DEF start
<1>3. Progress(start, ReadAll(start, w.body)) BY <1>1, ReadAllProgress DEF Open
<1> QED BY <1>1, <1>2, <1>3, ProgressTrans

\* The writer of /v1/messages: Start is the one step that begins a message.
LEMMA MessagesProgress ==
    ASSUME NEW w, Open(w), w.api = "messages", NEW c
    PROVE  Progress(w, MessagesChunk(w, c))
<1> DEFINE s == Start(w)
<1>1. Progress(w, s) /\ Open(s)
  <2> DEFINE told == Writes(w)
  <2>1. Same(w, told) BY OpenStays
  <2>2. CASE w.committed BY <2>2, OpenStays, SameIsProgress DEF Start
  <2>3. CASE ~w.committed
    <3>1. s = [[told EXCEPT !.began = TRUE] EXCEPT !.committed = TRUE] BY <2>3 DEF Start, Begin
    <3> HIDE DEF told, s
    <3> QED BY <2>1, <2>3, <3>1 DEF Same, Progress, Open, Fields
  <2> QED BY <2>2, <2>3
<1>2. CASE c.k = "text"
  <2> DEFINE closed == CloseBlock(s, LastOpen(s))
             there == IF LastOpen(s) # 0 /\ s.blocks[LastOpen(s)].kind = "text" THEN s
                      ELSE OpenBlock(closed, "text", None)
  <2>1. MessagesChunk(w, c) = Delta(there, LastOpen(there), c.v)
    BY <1>2 DEF MessagesChunk, MessagesText
  <2> HIDE DEF s
  <2>2. Same(s, closed) /\ Same(s, s) BY <1>1, OpenStays
  <2> HIDE DEF closed
  <2>3. Same(s, there) BY <2>2, OpenStays, SameTrans DEF Same
  <2> HIDE DEF there
  <2>4. Same(there, Delta(there, LastOpen(there), c.v)) BY <2>3, OpenStays DEF Same
  <2> QED BY <1>1, <2>1, <2>3, <2>4, SameIsProgress, ProgressTrans
<1>3. CASE c.k \in {"call", "args"}
  <2> DEFINE closed == IF LastOpen(s) # 0 /\ s.blocks[LastOpen(s)].kind = "text"
                       THEN CloseBlock(s, LastOpen(s)) ELSE s
             opened == OpenBlock(closed, "tool", c.id)
             there == IF s.slots[c.i] # 0 THEN s
                      ELSE [opened EXCEPT !.slots[c.i] = Len(s.blocks) + 1]
  <2>1. MessagesChunk(w, c) = IF c.v = <<>> THEN there ELSE Delta(there, there.slots[c.i], c.v)
    BY <1>3 DEF MessagesChunk, MessagesTool
  <2> HIDE DEF s
  <2>2. Same(s, closed) /\ Same(s, s) BY <1>1, OpenStays
  <2> HIDE DEF closed
  <2>3. Same(s, opened) BY <2>2, OpenStays, SameTrans DEF Same
  <2> HIDE DEF opened
  <2>4. Same(s, there) BY <2>2, <2>3 DEF Same, Open, Fields
  <2> HIDE DEF there
  <2>5. Same(there, Delta(there, there.slots[c.i], c.v)) BY <2>4, OpenStays DEF Same
  <2> QED BY <1>1, <2>1, <2>4, <2>5, SameIsProgress, ProgressTrans
<1>4. CASE c.k = "finish" BY <1>4 DEF MessagesChunk, Progress, Open, Fields
<1>5. CASE c.k \notin {"text", "call", "args", "finish"}
  BY <1>5, OpenStays, SameIsProgress DEF MessagesChunk
<1> QED BY <1>2, <1>3, <1>4, <1>5

\* The writer of /v1/responses.
LEMMA ResponsesProgress ==
    ASSUME NEW w, Open(w), NEW c
    PROVE  Progress(w, ResponsesChunk(w, c))
<1>1. CASE c.k = "text"
  <2> DEFINE begun == [w EXCEPT !.committed = TRUE]
             there == IF w.committed THEN w ELSE OpenBlock(begun, "text", None)
  <2>1. ResponsesChunk(w, c) = Delta(there, 1, c.v) BY <1>1 DEF ResponsesChunk
  <2>2. Progress(w, begun) /\ Open(begun) /\ Progress(w, w) BY DEF Progress, Open, Fields
  <2> HIDE DEF begun
  <2>3. Progress(w, there) /\ Open(there)
    BY <2>2, OpenStays, SameIsProgress, ProgressTrans DEF Progress
  <2> HIDE DEF there
  <2>4. Same(there, Delta(there, 1, c.v)) BY <2>3, OpenStays
  <2> QED BY <2>1, <2>3, <2>4, SameIsProgress, ProgressTrans
<1>2. CASE c.k = "finish" BY <1>2 DEF ResponsesChunk, Progress, Open, Fields
<1>3. CASE c.k \notin {"text", "finish"} BY <1>3, OpenStays, SameIsProgress DEF ResponsesChunk
<1> QED BY <1>1, <1>2, <1>3

LEMMA ChatProgress ==
    ASSUME NEW w, Open(w), NEW c
    PROVE  Progress(w, ChatChunk(w, c))
<1> DEFINE kept == [w EXCEPT !.body = Append(@, c)]
<1>1. Progress(w, kept) /\ Open(kept)
  <2>1. PICK S : w.body \in Seq(S) BY DEF Open, IsSeq
  <2>2. w.body \in Seq(S \cup {c}) BY <2>1
  <2>3. Append(w.body, c) \in Seq(S \cup {c}) BY <2>2, AppendProperties
  <2>4. IsSeq(Append(w.body, c)) BY <2>3 DEF IsSeq
  <2> QED BY <2>4 DEF Progress, Open, Fields
<1>2. ChatChunk(w, c) = IF w.committed THEN ReadChat(w, c)
                        ELSE IF w.direct \/ ReplyChunk(c) THEN Commit(kept) ELSE kept
  BY DEF ChatChunk
<1> HIDE DEF kept
<1>3. Progress(w, ReadChat(w, c)) BY ReadChatSame, SameIsProgress
<1>4. Progress(w, Commit(kept)) BY <1>1, CommitProgress, ProgressTrans
<1> QED BY <1>1, <1>2, <1>3, <1>4

\* A chunk on any of the three wires.
LEMMA ChunkProgress ==
    ASSUME NEW w, Open(w), NEW c
    PROVE  Progress(w, WriteChunk(w, c))
<1>1. Progress(w, [w EXCEPT !.cut = None]) BY DEF Progress, Open, Fields
<1> QED BY <1>1, ChatProgress, MessagesProgress, ResponsesProgress DEF WriteChunk

\* The recursive function of WriteAll exists as well.
LEMMA WriteAllSteps ==
    ASSUME NEW w, NEW chunks, IsSeq(chunks)
    PROVE  /\ Len(chunks) \in Nat
           /\ \E f : /\ f[0] = w /\ f[Len(chunks)] = WriteAll(w, chunks)
                    /\ \A n \in 1..Len(chunks) : f[n] = WriteChunk(f[n - 1], chunks[n])
<1> DEFINE N == Len(chunks)
           Writing(f, m) == f = [n \in 0..m |-> IF n = 0 THEN w ELSE WriteChunk(f[n - 1], chunks[n])]
           written == CHOOSE f : Writing(f, N)
           Bad == {m \in 0..N : ~\E f : Writing(f, m)}
<1>1. N \in Nat /\ N \in 0..N BY LenProperties DEF IsSeq
<1>2. WriteAll(w, chunks) = written[N] BY DEF WriteAll
<1> HIDE DEF N
<1>3. ASSUME Bad # {} PROVE FALSE
  <2>1. PICK m \in Bad : \A k \in Bad : m <= k BY <1>1, <1>3, First
  <2>2. CASE m = 0
    <3>1. Writing([n \in 0..0 |-> w], 0) OBVIOUS
    <3> QED BY <2>1, <2>2, <3>1
  <2>3. CASE m # 0
    <3>1. m \in 1..N /\ m - 1 \in 0..N /\ ~(m <= m - 1) BY <1>1, <2>1, <2>3
    <3>2. PICK g : Writing(g, m - 1) BY <2>1, <3>1
    <3> DEFINE f == [n \in 0..m |-> IF n = m THEN WriteChunk(g[m - 1], chunks[m]) ELSE g[n]]
    <3>3. ASSUME NEW n \in 0..m
          PROVE  f[n] = IF n = 0 THEN w ELSE WriteChunk(f[n - 1], chunks[n])
      <4>1. CASE n = m BY <1>1, <3>1, <4>1
      <4>2. CASE n # m BY <1>1, <3>1, <4>2, <3>2
      <4> QED BY <4>1, <4>2
    <3>4. Writing(f, m) BY <3>3
    <3> QED BY <2>1, <3>4
  <2> QED BY <2>2, <2>3
<1>4. Writing(written, N)
  <2>1. \E f : Writing(f, N) BY <1>1, <1>3
  <2> HIDE DEF Writing
  <2> QED BY <2>1
<1> HIDE DEF written
<1>5. written[0] = w /\ \A n \in 1..N : written[n] = WriteChunk(written[n - 1], chunks[n])
  BY <1>1, <1>4
<1> QED BY <1>1, <1>2, <1>5 DEF N

LEMMA WriteAllProgress ==
    ASSUME NEW w, Open(w), NEW chunks, IsSeq(chunks)
    PROVE  Progress(w, WriteAll(w, chunks))
<1>1. PICK f : /\ f[0] = w /\ f[Len(chunks)] = WriteAll(w, chunks)
               /\ \A n \in 1..Len(chunks) : f[n] = WriteChunk(f[n - 1], chunks[n])
  BY WriteAllSteps
<1>2. ASSUME NEW n \in 1..Len(chunks), Open(f[n - 1]) PROVE Progress(f[n - 1], f[n])
  BY <1>1, <1>2, ChunkProgress
<1> QED BY <1>1, <1>2, WriteAllSteps, Along

-----------------------------------------------------------------------------
(***************************************************************************)
(* Translators.  Whatever the state of a feed, an event yields a finite    *)
(* list of chunks.                                                         *)
(***************************************************************************)
LEMMA Lists ==
    /\ IsSeq(<<>>)
    /\ \A a : IsSeq(<<a>>)
    /\ \A s, t : IsSeq(s) /\ IsSeq(t) => IsSeq(s \o t)
<1>1. IsSeq(<<>>) BY EmptySeq DEF IsSeq
<1>2. ASSUME NEW a PROVE IsSeq(<<a>>)
  <2>1. <<a>> \in Seq({a}) OBVIOUS
  <2> QED BY <2>1 DEF IsSeq
<1>3. ASSUME NEW s, NEW t, IsSeq(s), IsSeq(t) PROVE IsSeq(s \o t)
  <2>1. PICK S : s \in Seq(S) BY <1>3 DEF IsSeq
  <2>2. PICK T : t \in Seq(T) BY <1>3 DEF IsSeq
  <2>3. s \in Seq(S \cup T) /\ t \in Seq(S \cup T) BY <2>1, <2>2
  <2>4. s \o t \in Seq(S \cup T) BY <2>3, ConcatProperties
  <2> QED BY <2>4 DEF IsSeq
<1> QED BY <1>1, <1>2, <1>3

\* The role in front of the chunks makes one chunk more.
LEMMA RoleLists ==
    ASSUME NEW r, IsSeq(r.out)
    PROVE  /\ IsSeq(WithRole(r).out)
           /\ \A d, emits : IsSeq(CodexRole(d, r, emits).out)
<1>1. IsSeq(<<Role>> \o r.out) BY Lists
<1> HIDE DEF Role
<1>2. IsSeq(WithRole(r).out) BY <1>1 DEF WithRole
<1> QED BY <1>1, <1>2 DEF CodexRole

LEMMA ResultLists ==
    /\ \A s : IsSeq(Result(s, <<>>).out)
    /\ \A s, a : IsSeq(Result(s, <<a>>).out)
BY Lists DEF Result

LEMMA AnthropicLists ==
    /\ \A s : IsSeq(Ignored(s).out) /\ IsSeq(Failed(s).out)
    /\ \A s, c : IsSeq(PassedOn(s, c).out)
    /\ \A s, v : IsSeq(AnthropicText(s, v).out) /\ IsSeq(AnthropicInput(s, v).out)
    /\ \A s : IsSeq(AnthropicThinking(s).out) /\ IsSeq(AnthropicStop(s).out)
    /\ \A s, id : IsSeq(AnthropicToolUse(s, id).out)
    /\ \A s, reason : IsSeq(AnthropicEnd(s, reason).out)
BY ResultLists, RoleLists DEF Ignored, Failed, PassedOn, AnthropicText, AnthropicInput,
   AnthropicThinking, AnthropicStop, AnthropicToolUse, AnthropicEnd

\* An event yields one chunk or none, and the role in front of it.
LEMMA EventLists ==
    /\ \A s, a : IsSeq(WithRole(Result(s, <<a>>)).out)
    /\ \A d, s, emits : IsSeq(CodexRole(d, Ignored(s), emits).out)
    /\ \A d, s, a, emits : IsSeq(CodexRole(d, Result(s, <<a>>), emits).out)
BY ResultLists, RoleLists, AnthropicLists

LEMMA ResponsesLists ==
    /\ \A d, s, v : IsSeq(ResponsesText(d, s, v).out) /\ IsSeq(ResponsesMessageDone(d, s, v).out)
    /\ \A d, s : IsSeq(ResponsesReasoning(d, s).out) /\ IsSeq(ResponsesReasoningDone(d, s).out)
    /\ \A d, s, ev : IsSeq(ResponsesItemAdded(d, s, ev).out)
    /\ \A d, s, ev, v : IsSeq(ResponsesArgs(d, s, ev, v).out) /\ IsSeq(ResponsesCallDone(d, s, ev, v).out)
    /\ \A d, s, cut, output : IsSeq(ResponsesCompleted(d, s, cut, output).out)
<1>1. ASSUME NEW d, NEW s, NEW v PROVE IsSeq(ResponsesText(d, s, v).out)
  BY EventLists DEF ResponsesText
<1>2. ASSUME NEW d, NEW s, NEW v PROVE IsSeq(ResponsesMessageDone(d, s, v).out)
  BY EventLists, AnthropicLists DEF ResponsesMessageDone
<1>3. ASSUME NEW d, NEW s PROVE IsSeq(ResponsesReasoning(d, s).out)
  BY EventLists DEF ResponsesReasoning
<1>4. ASSUME NEW d, NEW s PROVE IsSeq(ResponsesReasoningDone(d, s).out)
  <2>1. CASE s.thought BY <2>1, EventLists DEF ResponsesReasoningDone
  <2>2. CASE ~s.thought BY <2>2, EventLists DEF ResponsesReasoningDone
  <2> QED BY <2>1, <2>2
<1>5. ASSUME NEW d, NEW s, NEW ev PROVE IsSeq(ResponsesItemAdded(d, s, ev).out)
  BY EventLists DEF ResponsesItemAdded
<1>6. ASSUME NEW d, NEW s, NEW ev, NEW v PROVE IsSeq(ResponsesArgs(d, s, ev, v).out)
  <2> DEFINE i == FindTool(d, s, ev)
  <2>1. CASE i = 0 BY <2>1, EventLists DEF ResponsesArgs
  <2>2. CASE i # 0 BY <2>2, EventLists DEF ResponsesArgs
  <2> QED BY <2>1, <2>2
<1>7. ASSUME NEW d, NEW s, NEW ev, NEW v PROVE IsSeq(ResponsesCallDone(d, s, ev, v).out)
  <2> DEFINE i == FindTool(d, s, ev)
             due == s.calls[i].args = <<>> /\ v # <<>>
  <2>1. CASE i = 0 BY <2>1, EventLists DEF ResponsesCallDone
  <2>2. CASE i # 0 /\ due BY <2>2, EventLists DEF ResponsesCallDone
  <2>3. CASE i # 0 /\ ~due BY <2>3, EventLists DEF ResponsesCallDone
  <2> QED BY <2>1, <2>2, <2>3
<1>8. ASSUME NEW d, NEW s, NEW cut, NEW output PROVE IsSeq(ResponsesCompleted(d, s, cut, output).out)
  BY EventLists DEF ResponsesCompleted
<1> QED BY <1>1, <1>2, <1>3, <1>4, <1>5, <1>6, <1>7, <1>8

LEMMA GeminiLists ==
    ASSUME NEW s, NEW f, IsSeq(f.calls)
    PROVE  IsSeq(GeminiFrame(s, f).out)
<1> DEFINE next == Len(s.calls)
           spoken == IF f.text # <<>> THEN <<Text(f.text)>> ELSE <<>>
           thinks == IF f.thought THEN <<Think>> ELSE <<>>
           calls == [j \in 1..Len(f.calls) |-> Announce(next + j, next + j, f.calls[j])]
           ends == IF f.reason = None THEN <<>> ELSE <<Finish(GeminiReason(f.reason, f.calls # <<>>))>>
<1>1. GeminiFrame(s, f).out = ((spoken \o thinks) \o calls) \o ends BY DEF GeminiFrame, Result
<1>2. IsSeq(spoken) /\ IsSeq(thinks) /\ IsSeq(ends) BY Lists
<1>3. IsSeq(calls)
  <2>1. Len(f.calls) \in Nat BY LenProperties DEF IsSeq
  <2>2. calls \in Seq({Announce(next + j, next + j, f.calls[j]) : j \in 1..Len(f.calls)})
    <3> DEFINE A(j) == Announce(next + j, next + j, f.calls[j])
               n == Len(f.calls)
    <3> HIDE DEF A, n
    <3>1. [j \in 1..n |-> A(j)] \in [1..n -> {A(j) : j \in 1..n}] OBVIOUS
    <3>2. n \in Nat BY <2>1 DEF n
    <3>3. [j \in 1..n |-> A(j)] \in Seq({A(j) : j \in 1..n}) BY <3>1, <3>2
    <3> QED BY <3>3 DEF A, n
  <2> QED BY <2>2 DEF IsSeq
<1> HIDE DEF spoken, thinks, calls, ends
<1> QED BY <1>1, <1>2, <1>3, Lists

LEMMA ClosingList ==
    ASSUME NEW p, NEW s
    PROVE  IsSeq(Closing(p, s))
BY Lists DEF Closing

\* What a step may do to the wire while targets are tried.
LEMMA ProgressLive ==
    ASSUME NEW w, NEW v, LiveWire(w), w.stream, Progress(w, v)
    PROVE  LiveWire(v)
BY DEF LiveWire, Progress

LEMMA NewWireLive ==
    ASSUME NEW api \in {"chat", "messages", "responses"}, NEW direct \in BOOLEAN, NEW stream \in BOOLEAN
    PROVE  LET w == NewWire(api, direct, stream)
           IN  /\ w.committed = FALSE /\ Begin(w).committed = FALSE
               /\ IF api = "messages" /\ direct /\ stream THEN LiveWire(Begin(w)) ELSE LiveWire(w)
<1> DEFINE w == NewWire(api, direct, stream)
<1>1. Open(w) BY Lists DEF NewWire, Open, Fields
<1>2. /\ w.api = api /\ w.direct = direct /\ w.stream = stream /\ w.began = FALSE
      /\ w.committed = FALSE /\ w.failure = FALSE /\ w.finishedOnce = FALSE /\ w.upstreamDone = FALSE
  BY DEF NewWire
<1> HIDE DEF w
<1>3. Same(w, Writes(w)) /\ Writes(w).upstreamDone = FALSE BY <1>1, <1>2, OpenStays DEF Writes
<1>4. /\ Open(Begin(w)) /\ Begin(w).api = api /\ Begin(w).direct = direct /\ Begin(w).stream = stream
      /\ Begin(w).began = TRUE /\ Begin(w).committed = FALSE /\ Begin(w).failure = FALSE
      /\ Begin(w).finishedOnce = FALSE /\ Begin(w).upstreamDone = FALSE
  <2> DEFINE told == Writes(w)
  <2>1. Begin(w) = [told EXCEPT !.began = TRUE] BY DEF Begin
  <2> HIDE DEF told
  <2>2. Same(w, told) /\ told.upstreamDone = FALSE BY <1>3 DEF told
  <2> QED BY <1>2, <2>1, <2>2 DEF Same, Open, Fields
<1> QED BY <1>1, <1>2, <1>4 DEF LiveWire, w

LEMMA DispatchLive ==
    ASSUME NEW w, LiveWire(w)
    PROVE  /\ LiveWire(NextAttempt(w)) /\ LiveWire(Headers(NextAttempt(w)))
           /\ \A u \in {NextAttempt(w), Headers(NextAttempt(w))} :
                /\ u.api = w.api /\ u.direct = w.direct /\ u.stream = w.stream
                /\ ~w.direct => (u.committed <=> w.committed)
<1> DEFINE n == NextAttempt(w)
<1>1. /\ LiveWire(n) /\ n.api = w.api /\ n.direct = w.direct /\ n.stream = w.stream
      /\ n.committed = w.committed
  BY Lists DEF NextAttempt, LiveWire, Open, Fields
<1> HIDE DEF n
<1>2. /\ LiveWire(Headers(n)) /\ Headers(n).api = n.api /\ Headers(n).direct = n.direct
      /\ Headers(n).stream = n.stream
      /\ ~n.direct => (Headers(n).committed <=> n.committed)
  BY <1>1 DEF Headers, LiveWire, Open, Fields
<1> QED BY <1>1, <1>2 DEF n

LEMMA CollectLive ==
    ASSUME NEW w, LiveWire(w), ~w.stream, NEW m, NEW reason
    PROVE  LiveWire(Collect(w, m, reason))
<1>1. CASE Collect(w, m, reason) = w BY <1>1
<1>2. CASE Collect(w, m, reason) # w
  <2> DEFINE bs == <<[kind |-> "text", id |-> None, v |-> m.text, open |-> FALSE]>> \o
                   [i \in DOMAIN m.calls |->
                      [kind |-> "tool", id |-> m.calls[i].id, v |-> m.calls[i].args, open |-> FALSE]]
  <2>1. Collect(w, m, reason) = [w EXCEPT !.committed = TRUE, !.upstreamDone = TRUE, !.stop = reason,
                                          !.blocks = bs]
    BY <1>2 DEF Collect
  <2> HIDE DEF bs
  <2> QED BY <2>1 DEF LiveWire, Open, Fields
<1> QED BY <1>1, <1>2

LEMMA CutLive ==
    ASSUME NEW w, LiveWire(w), w.stream, NEW c
    PROVE  LiveWire(WriteCut(w, c)) /\ WriteCut(w, c).stream
<1>1. CASE w.api # "chat" BY <1>1 DEF WriteCut, LiveWire, Open, Fields
<1>2. CASE w.api = "chat"
  BY <1>2, OpenStays, ReadChatSame, SameIsProgress, ProgressLive DEF WriteCut, LiveWire, Progress
<1> QED BY <1>1, <1>2

LEMMA EndsFacts ==
    ASSUME NEW w, DOMAIN w = Fields, NEW kind
    PROVE  /\ Kept(w, Ends(w, kind))
           /\ Ends(w, kind).after = (w.after \/ w.end # None)
           /\ Ends(w, kind).end = IF w.end = None THEN kind ELSE w.end
           /\ Ends(w, kind).failure = w.failure /\ Ends(w, kind).finishedOnce = w.finishedOnce
BY DEF Ends, Kept, Fields

LEMMA CloseFacts ==
    ASSUME NEW w, DOMAIN w = Fields
    PROVE  /\ Kept(w, CloseBlocks(w))
           /\ CloseBlocks(w).after = w.after /\ CloseBlocks(w).end = w.end
<1> DEFINE bs == [i \in DOMAIN w.blocks |-> [w.blocks[i] EXCEPT !.open = FALSE]]
<1>1. CloseBlocks(w) = [w EXCEPT !.blocks = bs] BY DEF CloseBlocks
<1> HIDE DEF bs
<1> QED BY <1>1 DEF Kept, Fields

LEMMA MarkFacts ==
    ASSUME NEW w, DOMAIN w = Fields
    PROVE  LET f == Fail(w)
               o == [w EXCEPT !.finishedOnce = TRUE]
           IN  /\ Kept(w, f) /\ f.after = w.after /\ f.end = w.end
               /\ f.failure = TRUE /\ f.finishedOnce = w.finishedOnce
               /\ Kept(w, o) /\ o.after = w.after /\ o.end = w.end
               /\ o.failure = w.failure /\ o.finishedOnce = TRUE
BY DEF Fail, Kept, Fields

\* A reply that nobody has ended is ended once by the finish of its API; the
\* one exception is a message that never started.
LEMMA FinishedFacts ==
    ASSUME NEW w, DOMAIN w = Fields, w.api \in {"chat", "messages", "responses"},
           w.finishedOnce = FALSE
    PROVE  LET f == Finished(w)
               quiet == w.api = "messages" /\ ~w.committed /\ (~w.began \/ ~w.stream)
           IN  /\ Kept(w, f)
               /\ w.api # "chat" => f.finishedOnce = TRUE
               /\ quiet => f.end = w.end /\ f.after = w.after
               /\ ~quiet => /\ f.end \in {"done", "error"} \/ (w.end # None /\ f.end = w.end)
                            /\ f.after = (w.after \/ w.end # None)
<1> DEFINE once == [w EXCEPT !.finishedOnce = TRUE]
           closed == CloseBlocks(once)
<1>1. /\ Kept(w, once) /\ once.after = w.after /\ once.end = w.end
      /\ once.failure = w.failure /\ once.finishedOnce = TRUE
  BY MarkFacts
<1>2. /\ Kept(w, closed) /\ closed.after = w.after /\ closed.end = w.end
      /\ closed.finishedOnce = TRUE
  <2> DEFINE bs == [i \in DOMAIN once.blocks |-> [once.blocks[i] EXCEPT !.open = FALSE]]
  <2>1. closed = [once EXCEPT !.blocks = bs] BY DEF CloseBlocks
  <2>2. Kept(once, closed) /\ closed.after = once.after /\ closed.end = once.end
    <3> HIDE DEF once
    <3> QED BY <1>1, CloseFacts DEF Kept
  <2> HIDE DEF bs, once
  <2> QED BY <1>1, <2>1, <2>2 DEF Kept, Fields
<1>3. Finished(w) = CASE w.api = "chat" -> Ends(w, IF w.failure THEN "error" ELSE "done")
                      [] w.api = "messages" ->
                           IF ~w.committed /\ (~w.began \/ ~w.stream) THEN once
                           ELSE IF ~w.committed \/ w.failure THEN Ends(once, "error")
                           ELSE Ends(closed, "done")
                      [] w.api = "responses" ->
                           IF w.failure \/ (~w.stream /\ ~w.committed) THEN Ends(once, "error")
                           ELSE Ends(closed, "done")
  BY DEF Finished, MessagesFinished, ResponsesFinished
<1> HIDE DEF once, closed
<1>4. \A k : LET e == Ends(w, k)
             IN  Kept(w, e) /\ e.after = (w.after \/ w.end # None) /\ e.end = IF w.end = None THEN k ELSE w.end
  BY EndsFacts
<1>5. \A k : LET e == Ends(once, k)
             IN  /\ Kept(w, e) /\ e.after = (w.after \/ w.end # None)
                 /\ e.end = IF w.end = None THEN k ELSE w.end
                 /\ e.finishedOnce = TRUE
  BY <1>1, EndsFacts DEF Kept
<1>6. \A k : LET e == Ends(closed, k)
             IN  /\ Kept(w, e) /\ e.after = (w.after \/ w.end # None)
                 /\ e.end = IF w.end = None THEN k ELSE w.end
                 /\ e.finishedOnce = TRUE
  BY <1>2, EndsFacts DEF Kept
<1>7. CASE w.api = "chat" BY <1>3, <1>4, <1>7
<1>8. CASE w.api = "messages" BY <1>1, <1>3, <1>5, <1>6, <1>8
<1>9. CASE w.api = "responses" BY <1>1, <1>3, <1>5, <1>6, <1>9
<1> QED BY <1>7, <1>8, <1>9

\* A reply whose finish was claimed is not finished again.
LEMMA FinishedOnce ==
    ASSUME NEW w, w.api \in {"messages", "responses"}, w.finishedOnce
    PROVE  Finished(w) = w
BY DEF Finished, MessagesFinished, ResponsesFinished

LEMMA VerdictKept ==
    ASSUME NEW w, NEW v, NEW o, Kept(w, v)
    PROVE  Verdict(v, o) = Verdict(w, o)
BY DEF Kept, Verdict

\* What an ended reply has to satisfy.
LEMMA EndedOnce ==
    ASSUME NEW v, NEW o, v.after = FALSE, v.end \in {"done", "error"}
    PROVE  Settled(v, o)
BY ReplyStreamAssumption DEF Settled

\* The attempt was good.
LEMMA DoneSettles ==
    ASSUME NEW w, NEW o, LiveWire(w), Verdict(w, o) = "done"
    PROVE  Settled(Finished(w), o)
<1> DEFINE f == Finished(w)
           quiet == w.api = "messages" /\ ~w.committed /\ (~w.began \/ ~w.stream)
<1>1. /\ Kept(w, f)
      /\ quiet => f.end = None /\ f.after = FALSE
      /\ ~quiet => f.end \in {"done", "error"} /\ f.after = FALSE
  BY FinishedFacts DEF LiveWire, Open
<1>2. quiet => w.upstreamDone /\ w.stream /\ ~w.direct BY DEF Verdict, LiveWire
<1> HIDE DEF f
<1>3. ASSUME quiet PROVE Settled(f, o) BY <1>1, <1>2, <1>3 DEF Kept, Settled
<1>4. ASSUME ~quiet PROVE Settled(f, o) BY <1>1, <1>4, EndedOnce
<1> QED BY <1>3, <1>4 DEF f

\* The attempt failed after the client had bytes of it.
LEMMA FailedSettles ==
    ASSUME NEW w, NEW o, LiveWire(w), Collecting(w, "returned", o),
           Verdict(w, o) = "failed"
    PROVE  Settled(Broken(w), o)
<1> DEFINE m == Fail(w)
           f == Finished(m)
<1>1. w.committed BY DEF Verdict, LiveWire
<1>2. Kept(w, m) /\ m.after = FALSE /\ m.end = None /\ m.failure = TRUE /\ m.finishedOnce = FALSE
  BY MarkFacts DEF LiveWire, Open
<1> HIDE DEF m
<1>3. /\ Kept(m, f) /\ f.end \in {"done", "error"} /\ f.after = FALSE
      /\ m.api # "chat" => f.finishedOnce = TRUE
  BY <1>1, <1>2, FinishedFacts DEF Kept, LiveWire
<1> HIDE DEF f
<1>4. CASE w.api = "chat" /\ ~w.stream
  BY <1>4, <1>1 DEF Broken, Verdict, Collecting, Settled, LiveWire, Open
<1>5. CASE ~(w.api = "chat" /\ ~w.stream) /\ (w.api = "chat" \/ w.direct)
  BY <1>5, <1>3, EndedOnce DEF Broken, f, m
<1>6. CASE w.api # "chat" /\ ~w.direct
  <2>1. Broken(w) = Finished(f) BY <1>6 DEF Broken, f, m
  <2>2. Finished(f) = f BY <1>2, <1>3, <1>6, FinishedOnce DEF Kept, LiveWire
  <2> QED BY <1>3, <2>1, <2>2, EndedOnce
<1> QED BY <1>4, <1>5, <1>6

\* No target gave a reply.
LEMMA RetrySettles ==
    ASSUME NEW w, NEW o, LiveWire(w), Verdict(w, o) = "retry"
    PROVE  Settled(Answer(w), o)
<1> DEFINE e == ErrorBody(w)
           m == Fail(w)
<1>1. DOMAIN w = Fields /\ w.after = FALSE /\ w.end = None /\ w.finishedOnce = FALSE
  BY DEF LiveWire, Open
<1>2. e.after = FALSE /\ e.end = "error" /\ Kept(w, e) /\ e.finishedOnce = FALSE
  <2>1. e = Ends(w, "error") BY DEF ErrorBody
  <2> HIDE DEF e
  <2>2. /\ Kept(w, e) /\ e.after = (w.after \/ w.end # None) /\ e.finishedOnce = w.finishedOnce
        /\ e.end = IF w.end = None THEN "error" ELSE w.end
    BY <1>1, <2>1, EndsFacts
  <2> QED BY <1>1, <2>2
<1> HIDE DEF e
<1>3. Settled(e, o) BY <1>2, EndedOnce
<1>4. CASE w.direct /\ (w.committed \/ w.began)
  <2>1. Answer(w) = Finished(m) BY <1>4 DEF Answer
  <2>2. Kept(w, m) /\ m.after = FALSE /\ m.end = None /\ m.finishedOnce = FALSE BY <1>1, MarkFacts
  <2> HIDE DEF m
  <2>3. ~(w.api = "messages" /\ ~w.committed /\ (~w.began \/ ~w.stream)) BY <1>4 DEF LiveWire
  <2>4. /\ Finished(m).end \in {"done", "error"}
        /\ Finished(m).after = (m.after \/ m.end # None)
    BY <2>2, <2>3, FinishedFacts DEF Kept, LiveWire
  <2>5. Finished(m).after = FALSE BY <2>2, <2>4
  <2> QED BY <2>1, <2>4, <2>5, EndedOnce
<1>5. CASE w.direct /\ ~(w.committed \/ w.began) BY <1>3, <1>5 DEF Answer, e
<1>6. CASE ~w.direct /\ w.api = "chat" BY <1>3, <1>6 DEF Answer, e
<1>7. CASE ~w.direct /\ w.api = "messages"
  <2> DEFINE f == Finished(w)
  <2>1. Answer(w) = ErrorBody(f) BY <1>7 DEF Answer
  <2>2. ~w.committed /\ ~w.began BY <1>7 DEF Verdict, LiveWire
  <2>3. Kept(w, f) /\ f.end = None /\ f.after = FALSE BY <1>1, <1>7, <2>2, FinishedFacts
  <2> HIDE DEF f
  <2>4. ErrorBody(f).after = (f.after \/ f.end # None) /\ ErrorBody(f).end = "error"
    BY <2>3, EndsFacts DEF ErrorBody, Kept
  <2>5. ErrorBody(f).after = FALSE BY <2>3, <2>4
  <2> QED BY <2>1, <2>4, <2>5, EndedOnce
<1>8. CASE ~w.direct /\ w.api = "responses"
  <2> DEFINE f == Finished(e)
  <2>1. Answer(w) = f BY <1>8 DEF Answer, e
  <2>2. Kept(e, f) /\ f.end \in {"done", "error"} BY <1>2, <1>8, FinishedFacts DEF Kept
  <2> HIDE DEF f
  <2>3. Kept(w, f) /\ f.end # None BY <1>2, <2>2, ReplyStreamAssumption DEF Kept
  <2>4. Verdict(f, o) = "retry" BY <2>3, VerdictKept
  <2> QED BY <1>8, <2>1, <2>3, <2>4 DEF Settled, Kept
<1> QED BY <1>4, <1>5, <1>6, <1>7, <1>8 DEF LiveWire

-----------------------------------------------------------------------------
(***************************************************************************)
(* Steps.                                                                  *)
(***************************************************************************)
LEMMA RInit ==
    Init => RInv
<1> SUFFICES ASSUME Init PROVE RInv OBVIOUS
<1>1. PICK api \in Apis, direct \in BOOLEAN, stream \in BOOLEAN :
        wire = IF api = "messages" /\ direct /\ stream THEN Begin(NewWire(api, direct, stream))
               ELSE NewWire(api, direct, stream)
  BY DEF Init
<1>2. api \in {"chat", "messages", "responses"} BY ReplyStreamAssumption
<1>3. LiveWire(wire) /\ wire.committed = FALSE BY <1>1, <1>2, NewWireLive
<1> QED BY <1>3 DEF Init, RInv, Trying, Collecting

LEMMA ConsumeLive ==
    ASSUME RInv, Consuming
    PROVE  RInv'
<1>1. PICK r : IsSeq(r.out) /\ Consume(r) BY DEF Consuming
<1>2. /\ phase = "reading" /\ phase' = "reading" /\ ok' = ok /\ late' = late
      /\ wire' = IF wire.stream THEN WriteAll(wire, r.out) ELSE wire
  BY <1>1 DEF Consume
<1>3. LiveWire(wire) /\ Collecting(wire, "reading", ok) /\ ~late BY <1>2 DEF RInv, Trying
<1>4. LiveWire(wire') /\ Collecting(wire', "reading", ok)
  <2>1. CASE wire.stream
    BY <1>1, <1>2, <1>3, <2>1, WriteAllProgress, ProgressLive DEF LiveWire, Progress, Collecting
  <2>2. CASE ~wire.stream BY <1>2, <1>3, <2>2
  <2> QED BY <2>1, <2>2
<1> QED BY <1>2, <1>3, <1>4 DEF RInv, Trying

\* The actions of an upstream in which a translator takes an event.
LEMMA AnthropicConsumes ==
    /\ \A kind : AnthropicBlock(kind) => Consuming
    /\ AnthropicDelta => Consuming
    /\ AnthropicBlockStop => Consuming
    /\ \A cut : AnthropicMessageDelta(cut) => Consuming
    /\ AnthropicMessageStop => Consuming
    /\ UpstreamError => Consuming
<1>1. ASSUME NEW kind, AnthropicBlock(kind) PROVE Consuming
  BY <1>1, AnthropicLists DEF AnthropicBlock, Consuming
<1>2. ASSUME AnthropicDelta PROVE Consuming BY <1>2, AnthropicLists DEF AnthropicDelta, Consuming
<1>3. ASSUME AnthropicBlockStop PROVE Consuming
  BY <1>3, AnthropicLists DEF AnthropicBlockStop, Consuming
<1>4. ASSUME NEW cut, AnthropicMessageDelta(cut) PROVE Consuming
  BY <1>4, AnthropicLists DEF AnthropicMessageDelta, Consuming
<1>5. ASSUME AnthropicMessageStop PROVE Consuming
  BY <1>5, AnthropicLists DEF AnthropicMessageStop, Consuming
<1>6. ASSUME UpstreamError PROVE Consuming BY <1>6, AnthropicLists DEF UpstreamError, Consuming
<1> QED BY <1>1, <1>2, <1>3, <1>4, <1>5, <1>6

LEMMA ResponsesConsumes ==
    /\ ResponsesSaysText => Consuming
    /\ ResponsesSaysMessage => Consuming
    /\ ResponsesThinks => Consuming
    /\ ResponsesAddsCall => Consuming
    /\ \A c : ResponsesSaysArgs(c) => Consuming
    /\ \A c : ResponsesEndsCall(c) => Consuming
    /\ \A cut : ResponsesCompletes(cut) => Consuming
<1>1. ASSUME ResponsesSaysText PROVE Consuming
  BY <1>1, ResponsesLists DEF ResponsesSaysText, Consuming
<1>2. ASSUME ResponsesSaysMessage PROVE Consuming
  BY <1>2, ResponsesLists DEF ResponsesSaysMessage, Consuming
<1>3. ASSUME ResponsesThinks PROVE Consuming BY <1>3, ResponsesLists DEF ResponsesThinks, Consuming
<1>4. ASSUME ResponsesAddsCall PROVE Consuming
  BY <1>4, ResponsesLists DEF ResponsesAddsCall, Consuming
<1>5. ASSUME NEW c, ResponsesSaysArgs(c) PROVE Consuming
  BY <1>5, ResponsesLists DEF ResponsesSaysArgs, Consuming
<1>6. ASSUME NEW c, ResponsesEndsCall(c) PROVE Consuming
  BY <1>6, ResponsesLists DEF ResponsesEndsCall, Consuming
<1>7. ASSUME NEW cut, ResponsesCompletes(cut) PROVE Consuming
  BY <1>7, ResponsesLists DEF ResponsesCompletes, Consuming
<1> QED BY <1>1, <1>2, <1>3, <1>4, <1>5, <1>6, <1>7

LEMMA OthersConsume ==
    /\ \A text, thought, calls, reason :
          calls \in 0..1 /\ GeminiSays(text, thought, calls, reason) => Consuming
    /\ OpenAISays => Consuming
<1>1. ASSUME NEW text, NEW thought, NEW calls \in 0..1, NEW reason,
             GeminiSays(text, thought, calls, reason)
      PROVE  Consuming
  <2> DEFINE f == [text |-> IF text THEN Piece ELSE <<>>, thought |-> thought,
                   calls |-> [j \in 1..calls |-> <<up.pieces + 1>>], reason |-> reason]
  <2>1. Consume(GeminiFrame(feed, f)) BY <1>1 DEF GeminiSays
  <2>2. IsSeq(f.calls)
    <3>1. [j \in 1..calls |-> <<up.pieces + 1>>] \in Seq({<<up.pieces + 1>>}) OBVIOUS
    <3> QED BY <3>1 DEF IsSeq
  <2> HIDE DEF f
  <2>3. IsSeq(GeminiFrame(feed, f).out) BY <2>2, GeminiLists
  <2> QED BY <2>1, <2>3 DEF Consuming
<1>2. ASSUME OpenAISays PROVE Consuming
  <2>1. PICK c : Passes(c) BY <1>2 DEF OpenAISays
  <2> QED BY <2>1, AnthropicLists DEF Passes, Consuming
<1> QED BY <1>1, <1>2

\* The provider returns.
LEMMA ReturnLive ==
    ASSUME RInv
    PROVE  /\ \A whole : OpenAICuts(whole) => RInv'
           /\ \A text, calls : Collects(text, calls) => RInv'
           /\ BodyEnds => RInv'
           /\ BodyBreaks => RInv'
<1>1. phase = "reading" => LiveWire(wire) /\ Collecting(wire, "reading", ok) /\ ~late
  BY DEF RInv, Trying
<1>2. ASSUME phase' = "returned", ~late', LiveWire(wire)', Collecting(wire, "returned", ok)'
      PROVE  RInv'
  BY <1>2 DEF RInv, Trying
<1>3. ASSUME NEW whole, OpenAICuts(whole) PROVE RInv'
  <2>1. PICK c : wire' = WriteCut(wire, c) BY <1>3 DEF OpenAICuts
  <2>2. phase = "reading" /\ wire.stream /\ phase' = "returned" /\ late' = late
    BY <1>3 DEF OpenAICuts, Speaks
  <2>3. LiveWire(wire') /\ wire'.stream BY <1>1, <2>1, <2>2, CutLive
  <2> QED BY <1>1, <1>2, <2>2, <2>3 DEF Collecting
<1>4. ASSUME NEW text, NEW calls, Collects(text, calls) PROVE RInv'
  <2>1. PICK m, reason : wire' = Collect(wire, m, reason) BY <1>4 DEF Collects
  <2>2. phase = "reading" /\ ~wire.stream /\ phase' = "returned" /\ late' = late /\ ok' = TRUE
    BY <1>4 DEF Collects, Speaks
  <2>3. LiveWire(wire') BY <1>1, <2>1, <2>2, CollectLive
  <2> QED BY <1>1, <1>2, <2>2, <2>3 DEF Collecting
<1>5. ASSUME BodyEnds PROVE RInv'
  <2>1. phase = "reading" /\ phase' = "returned" /\ late' = late BY <1>5 DEF BodyEnds
  <2>2. CASE ~ok' BY <1>5, <2>2, <1>1, <1>2, <2>1 DEF BodyEnds, Collecting
  <2>3. CASE ok' /\ wire.stream
    <3>1. wire' = WriteAll(wire, Closing(proto, feed)) BY <1>5, <2>3 DEF BodyEnds
    <3>2. Progress(wire, wire') BY <1>1, <2>1, <3>1, ClosingList, WriteAllProgress DEF LiveWire
    <3> QED BY <1>1, <1>2, <2>1, <2>3, <3>2, ProgressLive DEF Progress, Collecting
  <2>4. CASE ok' /\ ~wire.stream
    <3>1. PICK m, reason : wire' = Collect(wire, m, reason) BY <1>5, <2>4 DEF BodyEnds
    <3>2. LiveWire(wire') BY <1>1, <2>1, <2>4, <3>1, CollectLive
    <3> QED BY <1>1, <1>2, <2>1, <2>4, <3>2 DEF Collecting
  <2> QED BY <2>2, <2>3, <2>4
<1>6. ASSUME BodyBreaks PROVE RInv' BY <1>6, <1>1, <1>2 DEF BodyBreaks, Collecting
<1> QED BY <1>3, <1>4, <1>5, <1>6

\* A target is dispatched.
LEMMA DispatchSteps ==
    ASSUME RInv, NEW p, NEW labels, Dispatch(p, labels)
    PROVE  RInv'
BY DispatchLive DEF Dispatch, RInv, Trying, Collecting

\* The request is settled, or goes to the next target.
LEMMA SettleSteps ==
    ASSUME RInv, Settle \/ TryNext
    PROVE  RInv'
<1>1. phase = "returned" /\ late' = late /\ ok' = ok BY DEF Settle, TryNext
<1>2. LiveWire(wire) /\ Collecting(wire, "returned", ok) /\ ~late BY <1>1 DEF RInv, Trying
<1>3. CASE Settle
  BY <1>2, <1>3, DoneSettles, FailedSettles, RetrySettles, <1>1 DEF Settle, RInv, Trying
<1>4. CASE TryNext BY <1>2, <1>4, <1>1 DEF TryNext, Verdict, Collecting, RInv, Trying
<1> QED BY <1>3, <1>4

\* The handler returns, or the keep-alive goroutine runs.
LEMMA OtherSteps ==
    ASSUME RInv, Leave \/ Tick \/ Ping \/ PingStops \/ (\E b : ResponsesHolds(b)) \/ UNCHANGED vars
    PROVE  RInv'
<1>1. wire' = wire /\ ok' = ok BY DEF Leave, Tick, Ping, PingStops, ResponsesHolds, vars
<1>2. CASE Leave BY <1>1, <1>2 DEF Leave, RInv, Trying
<1>3. CASE Ping BY <1>1, <1>3 DEF Ping, Closed, RInv
<1>4. CASE Tick \/ PingStops \/ (\E b : ResponsesHolds(b)) \/ UNCHANGED vars
  BY <1>4, <1>1 DEF Tick, PingStops, ResponsesHolds, vars, RInv
<1> QED BY <1>2, <1>3, <1>4

LEMMA RNext ==
    RInv /\ [Next]_vars => RInv'
<1> SUFFICES ASSUME RInv, [Next]_vars PROVE RInv' OBVIOUS
<1>1. ASSUME NEW p, NEW labels, Dispatch(p, labels) PROVE RInv' BY <1>1, DispatchSteps
<1>2. ASSUME Upstream PROVE RInv'
  <2>1. Consuming => RInv' BY ConsumeLive
  <2>2. ASSUME NEW kind, AnthropicBlock(kind) PROVE RInv' BY <2>1, <2>2, AnthropicConsumes
  <2>3. CASE \/ AnthropicDelta \/ AnthropicBlockStop \/ AnthropicMessageStop \/ UpstreamError
    BY <2>1, <2>3, AnthropicConsumes
  <2>4. CASE \/ ResponsesSaysText \/ ResponsesSaysMessage \/ ResponsesThinks \/ ResponsesAddsCall
    BY <2>1, <2>4, ResponsesConsumes
  <2>5. ASSUME NEW c, ResponsesSaysArgs(c) \/ ResponsesEndsCall(c) PROVE RInv'
    BY <2>1, <2>5, ResponsesConsumes
  <2>6. ASSUME NEW b, AnthropicMessageDelta(b) \/ ResponsesCompletes(b) PROVE RInv'
    BY <2>1, <2>6, AnthropicConsumes, ResponsesConsumes
  <2>7. ASSUME NEW text, NEW thought, NEW calls \in 0..1, NEW reason,
               GeminiSays(text, thought, calls, reason)
        PROVE  RInv'
    BY <2>1, <2>7, OthersConsume
  <2>8. CASE OpenAISays BY <2>1, <2>8, OthersConsume
  <2>9. ASSUME NEW b, ResponsesHolds(b) PROVE RInv' BY <2>9, OtherSteps
  <2>10. ASSUME NEW b, OpenAICuts(b) PROVE RInv' BY <2>10, ReturnLive
  <2>11. ASSUME NEW text, NEW calls, Collects(text, calls) PROVE RInv' BY <2>11, ReturnLive
  <2>12. CASE BodyEnds \/ BodyBreaks BY <2>12, ReturnLive
  <2> QED BY <1>2, <2>2, <2>3, <2>4, <2>5, <2>6, <2>7, <2>8, <2>9, <2>10, <2>11, <2>12 DEF Upstream
<1> QED BY <1>1, <1>2, SettleSteps, OtherSteps DEF Next

\* Whatever the upstreams do, a reply ends once and nothing of it follows, but
\* for the exhausted chain of the Responses API.
THEOREM RepliesEndOnce ==
    Spec => []OneEnding
<1>1. RInv => OneEnding BY DEF RInv, OneEnding, Settled, LiveWire, Open
<1> QED BY <1>1, RInit, RNext, PTL DEF Spec

\* A handler that has returned has answered its request, but for the two cases
\* Answered names.
THEOREM RequestsAreAnswered ==
    Spec => []Answered
<1>1. RInv => Answered BY DEF RInv, Answered, Settled
<1> QED BY <1>1, RInit, RNext, PTL DEF Spec

\* No keep-alive is written behind a complete message and a handler that is
\* gone.
THEOREM PingsAreSilent ==
    Spec => []PingsStop
<1>1. RInv => PingsStop BY DEF RInv, PingsStop
<1> QED BY <1>1, RInit, RNext, PTL DEF Spec

-----------------------------------------------------------------------------
(***************************************************************************)
(* The blocks of a message.  A block of a call may be closed only when a   *)
(* text came after the call, so a delta strays only when the upstream goes *)
(* on with such a call.                                                    *)
(***************************************************************************)
LEMMA ListPut ==
    ASSUME NEW s, IsSeq(s), NEW i \in 1..Len(s), NEW x
    PROVE  LET t == [s EXCEPT ![i] = x]
           IN  /\ IsSeq(t) /\ Len(t) = Len(s)
               /\ \A j \in 1..Len(s) : t[j] = IF j = i THEN x ELSE s[j]
<1>1. PICK S : s \in Seq(S) BY DEF IsSeq
<1>2. s \in Seq(S \cup {x}) BY <1>1
<1> DEFINE t == [s EXCEPT ![i] = x]
<1>3. t \in Seq(S \cup {x}) /\ Len(t) = Len(s) /\ \A j \in 1..Len(s) : t[j] = IF j = i THEN x ELSE s[j]
  BY <1>2
<1> QED BY <1>3 DEF IsSeq

LEMMA ListAdd ==
    ASSUME NEW s, IsSeq(s), NEW x
    PROVE  LET t == Append(s, x)
           IN  /\ IsSeq(t) /\ Len(s) \in Nat /\ Len(t) = Len(s) + 1
               /\ \A j \in 1..Len(t) : t[j] = IF j = Len(s) + 1 THEN x ELSE s[j]
<1>1. PICK S : s \in Seq(S) BY DEF IsSeq
<1>2. s \in Seq(S \cup {x}) BY <1>1
<1> DEFINE t == Append(s, x)
<1>3. t \in Seq(S \cup {x}) /\ Len(t) = Len(s) + 1 /\ \A j \in 1..Len(t) : t[j] = IF j = Len(s) + 1 THEN x ELSE s[j]
  BY <1>2, AppendProperties
<1> QED BY <1>2, <1>3 DEF IsSeq

\* A set of numbers has a last one.
LEMMA Greatest ==
    ASSUME NEW N \in Nat, NEW S \in SUBSET (0..N), S # {}
    PROVE  Max(S) \in S /\ \A y \in S : Max(S) >= y
<1> DEFINE T == {N - x : x \in S}
<1>1. T \in SUBSET (0..N) /\ T # {}
  <2>1. ASSUME NEW x \in S PROVE N - x \in 0..N OBVIOUS
  <2> QED BY <2>1
<1>2. PICK t \in T : \A y \in T : t <= y BY <1>1, First
<1>3. PICK x \in S : t = N - x BY <1>2
<1>4. ASSUME NEW y \in S PROVE x >= y BY <1>2, <1>3
<1> QED BY <1>4 DEF Max

LEMMA LastOpenFacts ==
    ASSUME NEW w, GoodBlocks(w.blocks)
    PROVE  /\ Len(w.blocks) \in Nat
           /\ LastOpen(w) \in 0..Len(w.blocks)
           /\ LastOpen(w) # 0 => w.blocks[LastOpen(w)].open
           /\ \A i \in 1..Len(w.blocks) : w.blocks[i].open => LastOpen(w) # 0
<1> DEFINE bs == w.blocks
           N == Len(bs)
<1>1. N \in Nat /\ DOMAIN bs = 1..N BY LenProperties DEF GoodBlocks, IsSeq
<1>2. OpenBlocks(w) = {i \in 1..N : bs[i].open} BY <1>1 DEF OpenBlocks
<1> HIDE DEF N, bs
<1>3. CASE OpenBlocks(w) = {} BY <1>1, <1>2, <1>3 DEF LastOpen, N, bs
<1>4. CASE OpenBlocks(w) # {}
  <2>1. LastOpen(w) = Max(OpenBlocks(w)) BY <1>4 DEF LastOpen
  <2>2. OpenBlocks(w) \in SUBSET (0..N) BY <1>1, <1>2
  <2>3. LastOpen(w) \in OpenBlocks(w) BY <1>1, <1>4, <2>1, <2>2, Greatest
  <2>4. LastOpen(w) \in 1..N /\ bs[LastOpen(w)].open BY <1>2, <2>3
  <2> QED BY <1>1, <2>4 DEF N, bs
<1> QED BY <1>3, <1>4

LEMMA ShapeOpens ==
    ASSUME NEW w, Open(w), NEW n, NEW Q, Shape(w, n, Q), w.committed, NEW kind, NEW id
    PROVE  LET v == OpenBlock(w, kind, id)
           IN  /\ Shape(v, n, Q) /\ v.stray = w.stray /\ v.slots = w.slots
               /\ Len(w.blocks) \in Nat /\ Len(v.blocks) = Len(w.blocks) + 1
               /\ v.blocks[Len(w.blocks) + 1].kind = kind /\ v.blocks[Len(w.blocks) + 1].open
<1> DEFINE b == [kind |-> kind, id |-> id, v |-> <<>>, open |-> TRUE]
           bs == Append(w.blocks, b)
           v == OpenBlock(w, kind, id)
<1>1. /\ v.blocks = bs /\ v.slots = w.slots /\ v.stray = w.stray /\ v.committed = w.committed
  BY DEF OpenBlock, Writes, Open, Fields
<1>2. DOMAIN b = BlockFields /\ b.open = TRUE /\ b.kind = kind BY DEF BlockFields
<1> HIDE DEF v, b
<1>3. /\ IsSeq(bs) /\ Len(w.blocks) \in Nat /\ Len(bs) = Len(w.blocks) + 1
      /\ \A j \in 1..Len(bs) : bs[j] = IF j = Len(w.blocks) + 1 THEN b ELSE w.blocks[j]
  BY ListAdd DEF Shape, GoodBlocks
<1> HIDE DEF bs
<1>4. GoodBlocks(bs)
  <2>1. ASSUME NEW j \in 1..Len(bs) PROVE DOMAIN bs[j] = BlockFields /\ bs[j].open \in BOOLEAN
    <3>1. CASE j = Len(w.blocks) + 1 BY <1>2, <1>3, <3>1
    <3>2. CASE j # Len(w.blocks) + 1 BY <1>3, <3>2 DEF Shape, GoodBlocks
    <3> QED BY <3>1, <3>2
  <2> QED BY <1>3, <2>1 DEF GoodBlocks
<1>5. Shape(v, n, Q)
  <2>1. ASSUME NEW i \in 1..MaxCalls
        PROVE  /\ w.slots[i] \in 0..Len(bs)
               /\ w.slots[i] # 0 => bs[w.slots[i]] = w.blocks[w.slots[i]]
    BY <1>3 DEF Shape
  <2> QED BY <1>1, <1>4, <2>1 DEF Shape
<1> QED BY <1>1, <1>2, <1>3, <1>5 DEF v

\* Another block in the place of one, of its kind, and open if it has to be.
LEMMA ShapePuts ==
    ASSUME NEW w, NEW n \in Nat, NEW Q, Shape(w, n, Q), w.committed,
           NEW i \in 1..Len(w.blocks), NEW b,
           DOMAIN b = BlockFields, b.open \in BOOLEAN, b.kind = w.blocks[i].kind,
           w.blocks[i].kind = "tool" => b.open = w.blocks[i].open \/ 1..n \subseteq Q,
           NEW v, v.slots = w.slots, v.stray \in BOOLEAN, v.committed,
           IsSeq(v.blocks), Len(v.blocks) = Len(w.blocks),
           \A j \in 1..Len(w.blocks) : v.blocks[j] = IF j = i THEN b ELSE w.blocks[j]
    PROVE  Shape(v, n, Q)
<1>1. GoodBlocks(v.blocks) BY DEF Shape, GoodBlocks
<1>2. ASSUME NEW k \in 1..MaxCalls, w.slots[k] # 0
      PROVE  v.blocks[w.slots[k]].kind = "tool" /\ (v.blocks[w.slots[k]].open \/ k \in Q)
  BY <1>2 DEF Shape
<1> QED BY <1>1, <1>2 DEF Shape

LEMMA ShapeDelta ==
    ASSUME NEW w, Open(w), NEW n \in Nat, NEW Q, Shape(w, n, Q), w.committed,
           NEW i \in 1..Len(w.blocks), NEW x
    PROVE  LET v == Delta(w, i, x)
           IN  Shape(v, n, Q) /\ v.stray = (w.stray \/ ~w.blocks[i].open)
<1> DEFINE v == Delta(w, i, x)
           b == [w.blocks[i] EXCEPT !.v = @ \o x]
<1>1. /\ v.blocks = [w.blocks EXCEPT ![i] = b] /\ v.slots = w.slots
      /\ v.stray = (w.stray \/ ~w.blocks[i].open) /\ v.committed = w.committed
  BY DEF Delta, Writes, Open, Fields
<1>2. DOMAIN w.blocks[i] = BlockFields /\ w.blocks[i].open \in BOOLEAN BY DEF Shape, GoodBlocks
<1>3. DOMAIN b = BlockFields /\ b.open = w.blocks[i].open /\ b.kind = w.blocks[i].kind
  BY <1>2 DEF BlockFields
<1> HIDE DEF v, b
<1>4. /\ IsSeq(v.blocks) /\ Len(v.blocks) = Len(w.blocks)
      /\ \A j \in 1..Len(w.blocks) : v.blocks[j] = IF j = i THEN b ELSE w.blocks[j]
  <2>1. IsSeq(w.blocks) BY DEF Shape, GoodBlocks
  <2> QED BY <1>1, <2>1, ListPut
<1>5. v.stray \in BOOLEAN BY <1>1
<1>6. Shape(v, n, Q) BY <1>1, <1>2, <1>3, <1>4, <1>5, ShapePuts
<1> QED BY <1>1, <1>6 DEF v

LEMMA ShapeCloses ==
    ASSUME NEW w, Open(w), NEW n \in Nat, NEW Q, Shape(w, n, Q), w.committed,
           NEW i \in 0..Len(w.blocks), i = 0 \/ w.blocks[i].kind # "tool" \/ 1..n \subseteq Q
    PROVE  LET v == CloseBlock(w, i)
           IN  /\ Shape(v, n, Q) /\ v.stray = w.stray /\ v.slots = w.slots
               /\ Len(v.blocks) = Len(w.blocks)
<1> DEFINE v == CloseBlock(w, i)
           b == [w.blocks[i] EXCEPT !.open = FALSE]
<1>1. CASE i = 0 BY <1>1 DEF CloseBlock
<1>2. CASE i # 0
  <2>1. i \in 1..Len(w.blocks) BY <1>2, LastOpenFacts DEF Shape
  <2>2. /\ v.blocks = [w.blocks EXCEPT ![i] = b] /\ v.slots = w.slots
        /\ v.stray = w.stray /\ v.committed
    BY <1>2 DEF CloseBlock, Writes, Open, Fields
  <2>3. DOMAIN w.blocks[i] = BlockFields BY <2>1 DEF Shape, GoodBlocks
  <2>4. DOMAIN b = BlockFields /\ b.open = FALSE /\ b.kind = w.blocks[i].kind
    BY <2>3 DEF BlockFields
  <2> HIDE DEF v, b
  <2>5. /\ v.stray \in BOOLEAN /\ b.open \in BOOLEAN
        /\ w.blocks[i].kind = "tool" => b.open = w.blocks[i].open \/ 1..n \subseteq Q
    BY <1>2, <2>2, <2>4 DEF Shape
  <2>6. /\ IsSeq(v.blocks) /\ Len(v.blocks) = Len(w.blocks)
        /\ \A j \in 1..Len(w.blocks) : v.blocks[j] = IF j = i THEN b ELSE w.blocks[j]
    <3>1. IsSeq(w.blocks) BY DEF Shape, GoodBlocks
    <3>2. LET t == [w.blocks EXCEPT ![i] = b]
          IN  /\ IsSeq(t) /\ Len(t) = Len(w.blocks)
              /\ \A j \in 1..Len(w.blocks) : t[j] = IF j = i THEN b ELSE w.blocks[j]
      BY <2>1, <3>1, ListPut
    <3> QED BY <2>2, <3>2
  <2>7. Shape(v, n, Q) BY <2>1, <2>2, <2>4, <2>5, <2>6, ShapePuts
  <2> QED BY <2>2, <2>6, <2>7 DEF v
<1> QED BY <1>1, <1>2

LEMMA ShapeStarts ==
    ASSUME NEW w, Open(w), NEW n, NEW Q, Shape(w, n, Q)
    PROVE  LET v == Start(w)
           IN  /\ Open(v) /\ v.committed /\ Shape(v, n, Q)
               /\ v.stray = w.stray /\ v.slots = w.slots
<1> DEFINE v == Start(w)
<1>1. CASE w.committed BY <1>1 DEF Start
<1>2. CASE ~w.committed
  <2>1. /\ DOMAIN v = Fields /\ v.body = w.body /\ v.end = w.end /\ v.after = (w.after \/ w.end # None)
        /\ v.committed = TRUE
        /\ v.blocks = w.blocks /\ v.slots = w.slots /\ v.stray = w.stray
    BY <1>2 DEF Start, Begin, Writes, Open, Fields
  <2> HIDE DEF v
  <2>2. v.after = FALSE BY <2>1 DEF Open
  <2>3. Shape(v, n, Q) BY <2>1 DEF Shape
  <2> QED BY <2>1, <2>2, <2>3 DEF Open, v
<1> QED BY <1>1, <1>2

\* A text goes to the open text block, or closes what was open and opens one.
LEMMA TextShape ==
    ASSUME NEW w, Open(w), NEW n \in Nat, NEW Q, Shape(w, n, Q), 1..n \subseteq Q, NEW x
    PROVE  LET v == MessagesText(w, x)
           IN  Shape(v, n, Q) /\ v.stray = w.stray
<1> DEFINE s == Start(w)
           closed == CloseBlock(s, LastOpen(s))
           added == OpenBlock(closed, "text", None)
           there == IF LastOpen(s) # 0 /\ s.blocks[LastOpen(s)].kind = "text" THEN s ELSE added
<1>1. Open(s) /\ s.committed /\ Shape(s, n, Q) /\ s.stray = w.stray BY ShapeStarts
<1>2. MessagesText(w, x) = Delta(there, LastOpen(there), x) BY DEF MessagesText
<1> HIDE DEF s
<1>3. LastOpen(s) \in 0..Len(s.blocks) BY <1>1, LastOpenFacts DEF Shape
<1>4. Same(s, closed) /\ Shape(closed, n, Q) /\ closed.stray = s.stray
  BY <1>1, <1>3, OpenStays, ShapeCloses
<1> HIDE DEF closed
<1>5. Open(closed) /\ closed.committed BY <1>1, <1>4 DEF Same
<1>6. /\ Same(closed, added) /\ Shape(added, n, Q) /\ added.stray = closed.stray
      /\ Len(closed.blocks) + 1 \in 1..Len(added.blocks) /\ added.blocks[Len(closed.blocks) + 1].open
  BY <1>4, <1>5, OpenStays, ShapeOpens
<1> HIDE DEF added
<1>7. Open(added) /\ added.committed BY <1>5, <1>6 DEF Same
<1>8. /\ Open(there) /\ there.committed /\ Shape(there, n, Q) /\ there.stray = w.stray
      /\ LastOpen(there) # 0
  <2>1. CASE LastOpen(s) # 0 /\ s.blocks[LastOpen(s)].kind = "text" BY <1>1, <2>1
  <2>2. CASE ~(LastOpen(s) # 0 /\ s.blocks[LastOpen(s)].kind = "text")
    BY <1>6, LastOpenFacts, <1>1, <1>4, <1>7, <2>2 DEF Shape
  <2> QED BY <2>1, <2>2
<1> HIDE DEF there
<1>9. LastOpen(there) \in 1..Len(there.blocks) /\ there.blocks[LastOpen(there)].open
  BY <1>8, LastOpenFacts DEF Shape
<1>10. /\ Shape(Delta(there, LastOpen(there), x), n, Q)
       /\ Delta(there, LastOpen(there), x).stray = (there.stray \/ ~there.blocks[LastOpen(there)].open)
  BY <1>8, <1>9, ShapeDelta
<1>11. Delta(there, LastOpen(there), x).stray = w.stray BY <1>8, <1>9, <1>10 DEF Shape
<1> QED BY <1>2, <1>10, <1>11

\* A call goes to the block of its index, or to one it opens.
LEMMA ToolShape ==
    ASSUME NEW w, Open(w), NEW n \in Nat, NEW Q, Shape(w, n, Q),
           NEW m \in Nat, n <= m, NEW i \in 1..MaxCalls, i <= m, NEW id, NEW x
    PROVE  LET v == MessagesTool(w, i, id, x)
           IN  Shape(v, m, Q) /\ (v.stray => w.stray \/ i \in Q)
<1> DEFINE s == Start(w)
           closed == IF LastOpen(s) # 0 /\ s.blocks[LastOpen(s)].kind = "text"
                     THEN CloseBlock(s, LastOpen(s)) ELSE s
           opened == OpenBlock(closed, "tool", id)
           put == [opened EXCEPT !.slots[i] = Len(s.blocks) + 1]
           there == IF s.slots[i] # 0 THEN s ELSE put
<1>1. Open(s) /\ s.committed /\ Shape(s, n, Q) /\ s.stray = w.stray BY ShapeStarts
<1>2. MessagesTool(w, i, id, x) = IF x = <<>> THEN there ELSE Delta(there, there.slots[i], x)
  BY DEF MessagesTool
<1> HIDE DEF s
<1>3. LastOpen(s) \in 0..Len(s.blocks) BY <1>1, LastOpenFacts DEF Shape
<1>4. /\ Same(s, closed) /\ Shape(closed, n, Q) /\ closed.stray = s.stray
      /\ Len(closed.blocks) = Len(s.blocks)
  <2>1. CASE LastOpen(s) # 0 /\ s.blocks[LastOpen(s)].kind = "text"
    BY <1>1, <1>3, <2>1, OpenStays, ShapeCloses
  <2>2. CASE ~(LastOpen(s) # 0 /\ s.blocks[LastOpen(s)].kind = "text") BY <1>1, <2>2, OpenStays
  <2> QED BY <2>1, <2>2
<1> HIDE DEF closed
<1>5. Open(closed) /\ closed.committed BY <1>1, <1>4 DEF Same
<1> DEFINE l == Len(s.blocks) + 1
<1>6. /\ Same(closed, opened) /\ Shape(opened, n, Q) /\ opened.stray = s.stray
      /\ l \in 1..Len(opened.blocks) /\ opened.blocks[l].kind = "tool" /\ opened.blocks[l].open
  BY <1>4, <1>5, OpenStays, ShapeOpens
<1> HIDE DEF opened
<1>7. Open(opened) /\ opened.committed BY <1>5, <1>6 DEF Same
<1> HIDE DEF l
<1>8. /\ Shape(put, m, Q) /\ put.stray = s.stray /\ put.blocks = opened.blocks /\ put.slots[i] = l
      /\ Open(put) /\ put.committed
  <2>1. /\ DOMAIN put = DOMAIN opened /\ put.body = opened.body /\ put.end = opened.end
        /\ put.after = opened.after /\ put.committed = opened.committed
        /\ put.blocks = opened.blocks /\ put.stray = opened.stray
        /\ put.slots = [opened.slots EXCEPT ![i] = l]
    BY <1>7 DEF Open, Fields, l
  <2> HIDE DEF put
  <2>2. DOMAIN opened.slots = 1..MaxCalls BY <1>6 DEF Shape
  <2>3. /\ DOMAIN put.slots = 1..MaxCalls
        /\ \A k \in 1..MaxCalls : put.slots[k] = IF k = i THEN l ELSE opened.slots[k]
    BY <2>1, <2>2
  <2>4. MaxCalls \in Nat /\ Len(opened.blocks) \in Nat
    BY <1>6, ReplyStreamAssumption, LastOpenFacts DEF Shape
  <2>5. ASSUME NEW k \in 1..MaxCalls
        PROVE  /\ put.slots[k] \in 0..Len(put.blocks)
               /\ put.slots[k] # 0 =>
                    /\ k <= m /\ put.blocks[put.slots[k]].kind = "tool"
                    /\ put.blocks[put.slots[k]].open \/ k \in Q
    <3>1. CASE k = i BY <1>6, <2>1, <2>3, <2>4, <3>1
    <3>2. CASE k # i BY <2>3, <3>2, <1>6, <2>1, <2>4 DEF Shape
    <3> QED BY <3>1, <3>2
  <2>6. Shape(put, m, Q) BY <1>6, <1>7, <2>1, <2>3, <2>5 DEF Shape
  <2> QED BY <1>6, <1>7, <2>1, <2>3, <2>6 DEF Open
<1> HIDE DEF put
<1>9. Shape(s, m, Q) BY <1>1, ReplyStreamAssumption DEF Shape
<1>10. /\ Open(there) /\ there.committed /\ Shape(there, m, Q) /\ there.stray = w.stray
       /\ there.slots[i] \in 1..Len(there.blocks)
       /\ there.blocks[there.slots[i]].open \/ i \in Q
  <2>1. CASE s.slots[i] # 0 BY <1>1, <2>1, <1>9 DEF Shape
  <2>2. CASE s.slots[i] = 0 BY <1>1, <1>6, <1>8, <2>2
  <2> QED BY <2>1, <2>2, <1>1, <1>3 DEF Shape
<1> HIDE DEF there
<1>11. CASE x = <<>> BY <1>2, <1>10, <1>11
<1>12. CASE x # <<>>
  <2>1. /\ Shape(Delta(there, there.slots[i], x), m, Q)
        /\ Delta(there, there.slots[i], x).stray = (there.stray \/ ~there.blocks[there.slots[i]].open)
    BY <1>10, ShapeDelta
  <2> QED BY <1>2, <1>10, <1>12, <2>1
<1> QED BY <1>11, <1>12

LEMMA ShapeWidens ==
    ASSUME NEW w, NEW n \in Nat, NEW Q, Shape(w, n, Q), NEW m \in Nat, n <= m, NEW R, Q \subseteq R
    PROVE  Shape(w, m, R)
BY ReplyStreamAssumption DEF Shape

LEMMA ChunkShape ==
    ASSUME NEW w, Open(w), w.api = "messages", NEW n \in Nat, NEW Q, Shape(w, n, Q),
           NEW m \in Nat, n <= m, m <= MaxCalls,
           NEW c, c.k = "text" => 1..n \subseteq Q, Calling(c) => c.i \in 1..m
    PROVE  LET v == WriteChunk(w, c)
           IN  /\ Shape(v, IF Calling(c) THEN m ELSE n, Q)
               /\ v.stray => w.stray \/ (Calling(c) /\ c.i \in Q)
<1> DEFINE v == WriteChunk(w, c)
<1>1. CASE w.cut # None
  <2>1. /\ v.blocks = w.blocks /\ v.slots = w.slots /\ v.stray = w.stray
        /\ v.committed = w.committed
    BY <1>1 DEF WriteChunk, Open, Fields
  <2> HIDE DEF v
  <2>2. Shape(v, n, Q) BY <2>1 DEF Shape
  <2> QED BY <2>1, <2>2, ShapeWidens DEF v
<1>2. CASE w.cut = None /\ c.k = "text" BY <1>2, TextShape DEF WriteChunk, MessagesChunk, Calling
<1>3. CASE w.cut = None /\ Calling(c)
  <2>1. v = MessagesTool(w, c.i, c.id, c.v) BY <1>3 DEF WriteChunk, MessagesChunk, Calling
  <2>2. MaxCalls \in Nat BY ReplyStreamAssumption
  <2>3. c.i \in 1..MaxCalls /\ c.i <= m BY <1>3, <2>2
  <2> HIDE DEF v
  <2>4. Shape(v, m, Q) /\ (v.stray => w.stray \/ c.i \in Q) BY <2>1, <2>3, ToolShape
  <2> QED BY <1>3, <2>4 DEF v
<1>4. CASE w.cut = None /\ c.k # "text" /\ ~Calling(c)
  <2>1. /\ v.blocks = w.blocks /\ v.slots = w.slots /\ v.stray = w.stray
        /\ v.committed = w.committed
    BY <1>4 DEF WriteChunk, MessagesChunk, Calling, Open, Fields
  <2> HIDE DEF v
  <2>2. Shape(v, n, Q) BY <2>1 DEF Shape
  <2> QED BY <1>4, <2>1, <2>2 DEF v
<1> QED BY <1>1, <1>2, <1>3, <1>4

LEMMA WriteAllShape ==
    ASSUME NEW w, Open(w), w.api = "messages", NEW n \in Nat, NEW Q, Shape(w, n, Q),
           NEW m \in Nat, n <= m, m <= MaxCalls, NEW chunks, Fits(chunks, n, m, Q)
    PROVE  LET v == WriteAll(w, chunks)
           IN  Shape(v, m, Q) /\ (v.stray => w.stray \/ Strays(chunks, Q))
<1> DEFINE N == Len(chunks)
           strays == Strays(chunks, Q)
<1>0. IsSeq(chunks) BY DEF Fits
<1>1. N \in Nat BY <1>0, WriteAllSteps
<1>2. PICK f : /\ f[0] = w /\ f[N] = WriteAll(w, chunks)
               /\ \A k \in 1..N : f[k] = WriteChunk(f[k - 1], chunks[k])
  BY <1>0, WriteAllSteps
<1> DEFINE named(k) == IF \E j \in 1..k : Calling(chunks[j]) THEN m ELSE n
           Holds(k) == /\ Open(f[k]) /\ f[k].api = "messages"
                       /\ Shape(f[k], named(k), Q) /\ (f[k].stray => w.stray \/ strays)
           Bad == {k \in 0..N : ~Holds(k)}
<1>3. Holds(0) BY <1>2
<1>4. ASSUME NEW k \in 1..N, Holds(k - 1) PROVE Holds(k)
  <2> DEFINE c == chunks[k]
             u == f[k - 1]
             v == f[k]
  <2>1. v = WriteChunk(u, c) BY <1>2
  <2>2. named(k - 1) \in Nat /\ named(k - 1) <= m OBVIOUS
  <2>3. (c.k = "text" => 1..named(k - 1) \subseteq Q) /\ (Calling(c) => c.i \in 1..m)
    <3>1. ASSUME c.k = "text" PROVE 1..named(k - 1) \subseteq Q BY <3>1, <1>1 DEF Fits
    <3> QED BY <3>1 DEF Fits
  <2>4. named(k) = IF Calling(c) THEN m ELSE named(k - 1) BY <1>1
  <2>5. Open(u) /\ u.api = "messages" /\ Shape(u, named(k - 1), Q) /\ (u.stray => w.stray \/ strays)
    BY <1>4
  <2>6. (Calling(c) /\ c.i \in Q) => strays BY DEF Strays
  <2> HIDE DEF c, u, v, named, strays
  <2>7. /\ Shape(v, IF Calling(c) THEN m ELSE named(k - 1), Q)
        /\ v.stray => u.stray \/ (Calling(c) /\ c.i \in Q)
    BY <2>1, <2>2, <2>3, <2>5, ChunkShape
  <2>8. Open(v) /\ v.api = "messages" BY <2>1, <2>5, ChunkProgress DEF Progress
  <2> QED BY <2>4, <2>5, <2>6, <2>7, <2>8 DEF v
<1> HIDE DEF Holds
<1>5. Holds(N)
  <2>1. ASSUME Bad # {} PROVE FALSE
    <3>1. PICK k \in Bad : \A j \in Bad : k <= j BY <1>1, <2>1, First
    <3>2. k \in 1..N /\ k - 1 \in 0..N /\ ~(k <= k - 1) BY <1>1, <1>3, <3>1
    <3> QED BY <1>4, <3>1, <3>2
  <2> QED BY <1>1, <2>1
<1>6. Shape(f[N], m, Q)
  <2>1. named(N) \in Nat /\ named(N) <= m OBVIOUS
  <2>2. Shape(f[N], named(N), Q) BY <1>5 DEF Holds
  <2> HIDE DEF named
  <2> QED BY <2>1, <2>2, ShapeWidens
<1> QED BY <1>2, <1>5, <1>6 DEF Holds

LEMMA ListEmits ==
    /\ \A x : Emits(<<>>, x)
    /\ \A x : Emits(<<x>>, x)
    /\ \A out, x : Emits(out, x) => Emits(<<Role>> \o out, x)
<1>1. ASSUME NEW x PROVE Emits(<<>>, x) BY Lists DEF Emits
<1>2. ASSUME NEW x PROVE Emits(<<x>>, x) BY Lists DEF Emits
<1>3. ASSUME NEW out, NEW x, Emits(out, x) PROVE Emits(<<Role>> \o out, x)
  <2>1. Quiet(Role) BY DEF Quiet, Role, Chunk
  <2> HIDE DEF Role
  <2>2. PICK S : out \in Seq(S) BY <1>3 DEF Emits, IsSeq
  <2>3. out \in Seq(S \cup {Role}) /\ <<Role>> \in Seq(S \cup {Role}) BY <2>2
  <2> DEFINE all == <<Role>> \o out
  <2>4. /\ Len(out) \in Nat /\ Len(all) = 1 + Len(out)
        /\ \A k \in 1..Len(all) : all[k] = IF k <= 1 THEN <<Role>>[k] ELSE out[k - 1]
    BY <2>3, ConcatProperties, LenProperties
  <2>5. IsSeq(all) BY <1>3, Lists DEF Emits
  <2> HIDE DEF all
  <2>6. ASSUME NEW k \in 1..Len(all) PROVE all[k] = x \/ Quiet(all[k])
    <3>1. CASE k = 1 BY <2>4, <3>1, <2>1
    <3>2. CASE k # 1 BY <2>4, <3>2, <1>3 DEF Emits
    <3> QED BY <3>1, <3>2
  <2>7. Emits(all, x) BY <2>5, <2>6 DEF Emits
  <2> QED BY <2>7 DEF all
<1> QED BY <1>1, <1>2, <1>3

\* Whatever the feed, what an event writes.
LEMMA EventEmits ==
    /\ \A s, x : Emits(Result(s, <<>>).out, x) /\ Emits(Result(s, <<x>>).out, x)
    /\ \A s, x : Emits(WithRole(Result(s, <<x>>)).out, x)
    /\ \A d, s, e, x : /\ Emits(CodexRole(d, Result(s, <<>>), e).out, x)
                       /\ Emits(CodexRole(d, Result(s, <<x>>), e).out, x)
<1>1. ASSUME NEW r, NEW x, Emits(r.out, x)
      PROVE  Emits(WithRole(r).out, x) /\ \A d, e : Emits(CodexRole(d, r, e).out, x)
  <2>1. Emits(<<Role>> \o r.out, x) BY <1>1, ListEmits
  <2> HIDE DEF Role
  <2>2. Emits(WithRole(r).out, x) BY <1>1, <2>1 DEF WithRole
  <2> QED BY <1>1, <2>1, <2>2 DEF CodexRole
<1>2. \A s, x : Emits(Result(s, <<>>).out, x) /\ Emits(Result(s, <<x>>).out, x)
  BY ListEmits DEF Result
<1> QED BY <1>1, <1>2

LEMMA EventKnows ==
    ASSUME NEW s, DOMAIN s = FeedFields, NEW out
    PROVE  /\ Knows(Result(s, out), s.calls) /\ Knows(WithRole(Result(s, out)), s.calls)
           /\ \A d, e : Knows(CodexRole(d, Result(s, out), e), s.calls)
<1>1. Knows(Result(s, out), s.calls) BY DEF Knows, Result, FeedFields
<1>2. ASSUME NEW r, Knows(r, s.calls)
      PROVE  Knows(WithRole(r), s.calls) /\ \A d, e : Knows(CodexRole(d, r, e), s.calls)
  BY <1>2 DEF Knows, WithRole, FeedFields, CodexRole
<1> QED BY <1>1, <1>2

LEMMA CallsGrow ==
    ASSUME NEW calls, IsSeq(calls), NEW x
    PROVE  LET all == Append(calls, x)
           IN  /\ IsSeq(all) /\ Len(calls) \in Nat /\ Len(all) = Len(calls) + 1
               /\ \A labels : Labelled(calls, labels) /\ LabelledCall(x, Len(calls) + 1, labels)
                                => Labelled(all, labels)
<1> DEFINE all == Append(calls, x)
<1>1. /\ IsSeq(all) /\ Len(calls) \in Nat /\ Len(all) = Len(calls) + 1
      /\ \A j \in 1..Len(all) : all[j] = IF j = Len(calls) + 1 THEN x ELSE calls[j]
  BY ListAdd
<1> HIDE DEF all
<1>2. ASSUME NEW labels, Labelled(calls, labels), LabelledCall(x, Len(calls) + 1, labels)
      PROVE  Labelled(all, labels)
  <2>1. ASSUME NEW j \in 1..Len(all) PROVE LabelledCall(all[j], j, labels)
    <3>1. CASE j = Len(calls) + 1 BY <1>1, <1>2, <3>1
    <3>2. CASE j # Len(calls) + 1 BY <1>1, <3>2, <1>2 DEF Labelled
    <3> QED BY <3>1, <3>2
  <2> QED BY <2>1 DEF Labelled
<1> QED BY <1>1, <1>2 DEF all

LEMMA CallsPut ==
    ASSUME NEW calls, IsSeq(calls), NEW i \in 1..Len(calls), NEW a
    PROVE  LET all == [calls EXCEPT ![i] = [calls[i] EXCEPT !.args = a]]
           IN  /\ IsSeq(all) /\ Len(all) = Len(calls)
               /\ \A labels : Labelled(calls, labels) => Labelled(all, labels)
<1> DEFINE x == [calls[i] EXCEPT !.args = a]
           all == [calls EXCEPT ![i] = x]
<1> HIDE DEF x
<1>1. PICK S : calls \in Seq(S) BY DEF IsSeq
<1>2. calls \in Seq(S \cup {x}) BY <1>1
<1>3. /\ all \in Seq(S \cup {x}) /\ Len(all) = Len(calls)
      /\ \A j \in 1..Len(calls) : all[j] = IF j = i THEN x ELSE calls[j]
  BY <1>2
<1>4. /\ IsSeq(all) /\ Len(all) = Len(calls)
      /\ \A j \in 1..Len(calls) : all[j] = IF j = i THEN x ELSE calls[j]
  BY <1>3 DEF IsSeq
<1> HIDE DEF all
<1>5. ASSUME NEW labels, Labelled(calls, labels) PROVE Labelled(all, labels)
  BY <1>5, <1>4 DEF Labelled, LabelledCall, x
<1> QED BY <1>4, <1>5 DEF all, x

LEMMA OneOf ==
    ASSUME NEW c \in Nat
    PROVE  Max({c}) = c /\ Min({c}) = c
BY DEF Max, Min

\* An event finds the call it names, or the only one there is.
LEMMA Finds ==
    ASSUME NEW s, NEW labels, IsSeq(s.calls), Labelled(s.calls, labels),
           NEW c \in 1..Len(s.calls), NEW ev, ev.call \in {None, c},
           ev.item = IF "item" \in labels THEN c ELSE None,
           ev.out = IF "out" \in labels THEN c ELSE None, NEW d
    PROVE  FindTool(d, s, ev) \in {0, c} /\ (ev.call = c => FindTool(d, s, ev) = c)
<1> DEFINE byItem == {i \in DOMAIN s.calls : ev.item # None /\ s.calls[i].item = ev.item}
           byCall == {i \in DOMAIN s.calls : ev.call # None /\ s.calls[i].id = ev.call}
           byOut == {i \in DOMAIN s.calls : ev.out # None /\ s.calls[i].out = ev.out}
<1>1. /\ Len(s.calls) \in Nat /\ DOMAIN s.calls = 1..Len(s.calls) /\ c \in Nat /\ c # None
      /\ \A i \in 1..Len(s.calls) : i # None
  BY LenProperties, ReplyStreamAssumption DEF IsSeq
<1>2. FindTool(d, s, ev) = IF byItem # {} THEN Max(byItem)
                           ELSE IF byCall # {} THEN Min(byCall)
                           ELSE IF byOut # {} THEN Max(byOut)
                           ELSE IF Len(s.calls) = 1 /\ ~(d = "codex" /\ ev.out # None) THEN 1 ELSE 0
  BY DEF FindTool
<1>3. byItem \in {{}, {c}}
  <2>1. CASE "item" \in labels BY <1>1, <2>1 DEF Labelled, LabelledCall
  <2>2. CASE "item" \notin labels BY <2>2
  <2> QED BY <2>1, <2>2
<1>4. byOut \in {{}, {c}}
  <2>1. CASE "out" \in labels BY <1>1, <2>1 DEF Labelled, LabelledCall
  <2>2. CASE "out" \notin labels BY <2>2
  <2> QED BY <2>1, <2>2
<1>5. byCall \in {{}, {c}} /\ (ev.call = c => byCall = {c}) BY <1>1 DEF Labelled, LabelledCall
<1> HIDE DEF byItem, byCall, byOut
<1>6. Max({c}) = c /\ Min({c}) = c BY <1>1, OneOf
<1>7. Len(s.calls) = 1 => c = 1 BY <1>1
<1> QED BY <1>2, <1>3, <1>4, <1>5, <1>6, <1>7

\* The translators that leave the calls as they are.
LEMMA TextsKnow ==
    ASSUME NEW s, DOMAIN s = FeedFields
    PROVE  /\ Knows(Ignored(s), s.calls) /\ Knows(Failed(s), s.calls)
           /\ \A v : Knows(AnthropicText(s, v), s.calls)
           /\ Knows(AnthropicThinking(s), s.calls)
           /\ \A d, v : Knows(ResponsesText(d, s, v), s.calls) /\ Knows(ResponsesMessageDone(d, s, v), s.calls)
           /\ \A d : Knows(ResponsesReasoning(d, s), s.calls) /\ Knows(ResponsesReasoningDone(d, s), s.calls)
<1>1. /\ DOMAIN [s EXCEPT !.failed = TRUE] = FeedFields /\ [s EXCEPT !.failed = TRUE].calls = s.calls
      /\ DOMAIN [s EXCEPT !.thought = TRUE] = FeedFields /\ [s EXCEPT !.thought = TRUE].calls = s.calls
      /\ \A v : DOMAIN [s EXCEPT !.text = v] = FeedFields /\ [s EXCEPT !.text = v].calls = s.calls
  BY DEF FeedFields
<1>2. Knows(Ignored(s), s.calls) BY EventKnows DEF Ignored
<1>3. Knows(Failed(s), s.calls) BY <1>1, EventKnows DEF Failed
<1>4. ASSUME NEW v PROVE Knows(AnthropicText(s, v), s.calls) BY <1>1, EventKnows DEF AnthropicText
<1>5. Knows(AnthropicThinking(s), s.calls) BY <1>1, EventKnows DEF AnthropicThinking
<1>6. ASSUME NEW d, NEW v PROVE Knows(ResponsesText(d, s, v), s.calls)
  BY <1>1, EventKnows DEF ResponsesText
<1>7. ASSUME NEW d, NEW v PROVE Knows(ResponsesMessageDone(d, s, v), s.calls)
  <2>1. CASE d = "codex" \/ s.text # <<>> BY <1>2, <2>1 DEF ResponsesMessageDone
  <2>2. CASE ~(d = "codex" \/ s.text # <<>>) BY <1>1, <2>2, EventKnows DEF ResponsesMessageDone
  <2> QED BY <2>1, <2>2
<1>8. ASSUME NEW d PROVE Knows(ResponsesReasoning(d, s), s.calls)
  BY <1>1, EventKnows DEF ResponsesReasoning
<1>9. ASSUME NEW d PROVE Knows(ResponsesReasoningDone(d, s), s.calls)
  <2>1. CASE s.thought BY <2>1, EventKnows DEF ResponsesReasoningDone, Ignored
  <2>2. CASE ~s.thought BY <1>1, <2>2, EventKnows DEF ResponsesReasoningDone
  <2> QED BY <2>1, <2>2
<1> QED BY <1>2, <1>3, <1>4, <1>5, <1>6, <1>7, <1>8, <1>9

\* The translators that announce a call.
LEMMA AnnouncesKnow ==
    ASSUME NEW s, DOMAIN s = FeedFields
    PROVE  /\ \A id : Knows(AnthropicToolUse(s, id),
                            Append(s.calls, [id |-> id, item |-> None, out |-> None, args |-> <<>>]))
           /\ \A d, ev : Knows(ResponsesItemAdded(d, s, ev),
                               Append(s.calls, [id |-> ev.call, item |-> ev.item, out |-> ev.out, args |-> <<>>]))
<1>1. \A cs : DOMAIN [s EXCEPT !.calls = cs] = FeedFields /\ [s EXCEPT !.calls = cs].calls = cs
  BY DEF FeedFields
<1>2. ASSUME NEW id
      PROVE  Knows(AnthropicToolUse(s, id),
                   Append(s.calls, [id |-> id, item |-> None, out |-> None, args |-> <<>>]))
  <2> DEFINE cs == Append(s.calls, [id |-> id, item |-> None, out |-> None, args |-> <<>>])
  <2>1. AnthropicToolUse(s, id) = WithRole(Result([s EXCEPT !.calls = cs], <<Announce(Len(s.calls) + 1, id, <<>>)>>))
    BY DEF AnthropicToolUse
  <2> HIDE DEF cs
  <2>2. Knows(AnthropicToolUse(s, id), cs) BY <1>1, <2>1, EventKnows
  <2> QED BY <2>2 DEF cs
<1>3. ASSUME NEW d, NEW ev
      PROVE  Knows(ResponsesItemAdded(d, s, ev),
                   Append(s.calls, [id |-> ev.call, item |-> ev.item, out |-> ev.out, args |-> <<>>]))
  <2> DEFINE cs == Append(s.calls, [id |-> ev.call, item |-> ev.item, out |-> ev.out, args |-> <<>>])
  <2>1. ResponsesItemAdded(d, s, ev) =
          CodexRole(d, Result([s EXCEPT !.calls = cs], <<Announce(Len(s.calls) + 1, ev.call, <<>>)>>), TRUE)
    BY DEF ResponsesItemAdded, AddTool
  <2> HIDE DEF cs
  <2>2. Knows(ResponsesItemAdded(d, s, ev), cs) BY <1>1, <2>1, EventKnows
  <2> QED BY <2>2 DEF cs
<1> QED BY <1>2, <1>3

LEMMA ArgsKnow ==
    ASSUME NEW s, DOMAIN s = FeedFields
    PROVE  /\ \A v : Continues(AnthropicInput(s, v), s, Len(s.calls))
           /\ \A d, ev, v : LET i == FindTool(d, s, ev)
                                r == ResponsesArgs(d, s, ev, v)
                            IN  IF i = 0 THEN Knows(r, s.calls) ELSE Continues(r, s, i)
           /\ \A d, ev, v : LET i == FindTool(d, s, ev)
                                r == ResponsesCallDone(d, s, ev, v)
                            IN  i # 0 => Knows(r, s.calls) \/ Continues(r, s, i)
<1>1. \A cs : DOMAIN [s EXCEPT !.calls = cs] = FeedFields /\ [s EXCEPT !.calls = cs].calls = cs
  BY DEF FeedFields
<1>2. ASSUME NEW i, NEW a, NEW out, NEW d, NEW e
      PROVE  LET t == [s EXCEPT !.calls[i].args = a]
             IN  /\ Continues(WithRole(Result(t, out)), s, i)
                 /\ Continues(CodexRole(d, Result(t, out), e), s, i)
  <2> DEFINE cs == [s.calls EXCEPT ![i] = [s.calls[i] EXCEPT !.args = a]]
             t == [s EXCEPT !.calls[i].args = a]
  <2>1. t = [s EXCEPT !.calls = cs] OBVIOUS
  <2> HIDE DEF cs, t
  <2>2. Knows(WithRole(Result(t, out)), cs) /\ Knows(CodexRole(d, Result(t, out), e), cs)
    BY <1>1, <2>1, EventKnows
  <2> QED BY <2>2 DEF cs, t, Continues
<1>3. ASSUME NEW v PROVE Continues(AnthropicInput(s, v), s, Len(s.calls)) BY <1>2 DEF AnthropicInput
<1>4. ASSUME NEW d, NEW ev, NEW v
      PROVE  LET i == FindTool(d, s, ev)
                 r == ResponsesArgs(d, s, ev, v)
             IN  IF i = 0 THEN Knows(r, s.calls) ELSE Continues(r, s, i)
  <2> DEFINE i == FindTool(d, s, ev)
  <2>1. CASE i = 0 BY <2>1, EventKnows DEF ResponsesArgs, Ignored
  <2>2. CASE i # 0
    <3>1. ResponsesArgs(d, s, ev, v) =
            CodexRole(d, Result([s EXCEPT !.calls[i].args = s.calls[i].args \o v], <<Args(i, v)>>), TRUE)
      BY <2>2 DEF ResponsesArgs
    <3> DEFINE a == s.calls[i].args \o v
               out == <<Args(i, v)>>
    <3> HIDE DEF i, a, out
    <3>3. Continues(CodexRole(d, Result([s EXCEPT !.calls[i].args = a], out), TRUE), s, i) BY <1>2
    <3>2. Continues(ResponsesArgs(d, s, ev, v), s, i) BY <3>1, <3>3 DEF a, out
    <3> QED BY <2>2, <3>2 DEF i
  <2> QED BY <2>1, <2>2
<1>5. ASSUME NEW d, NEW ev, NEW v, FindTool(d, s, ev) # 0
      PROVE  LET i == FindTool(d, s, ev)
                 r == ResponsesCallDone(d, s, ev, v)
             IN  Knows(r, s.calls) \/ Continues(r, s, i)
  <2> DEFINE i == FindTool(d, s, ev)
             due == s.calls[i].args = <<>> /\ v # <<>>
  <2>1. CASE due
    <3>1. ResponsesCallDone(d, s, ev, v) =
            CodexRole(d, Result([s EXCEPT !.calls[i].args = v], <<Args(i, v)>>), FALSE)
      BY <1>5, <2>1 DEF ResponsesCallDone
    <3> DEFINE out == <<Args(i, v)>>
    <3> HIDE DEF i, out
    <3>3. Continues(CodexRole(d, Result([s EXCEPT !.calls[i].args = v], out), FALSE), s, i) BY <1>2
    <3>2. Continues(ResponsesCallDone(d, s, ev, v), s, i) BY <3>1, <3>3 DEF out
    <3> QED BY <3>2 DEF i
  <2>2. CASE ~due BY <1>5, <2>2, EventKnows DEF ResponsesCallDone, Ignored
  <2> QED BY <2>1, <2>2
<1> QED BY <1>3, <1>4, <1>5

\* What each translator writes.
LEMMA AnthropicEmits ==
    ASSUME NEW s
    PROVE  /\ \A x : Emits(Ignored(s).out, x) /\ Emits(Failed(s).out, x)
           /\ \A v : Emits(AnthropicText(s, v).out, Text(v))
           /\ Emits(AnthropicThinking(s).out, Think)
           /\ \A id : Emits(AnthropicToolUse(s, id).out, Announce(Len(s.calls) + 1, id, <<>>))
           /\ \A v : Emits(AnthropicInput(s, v).out, Args(Len(s.calls), v))
           /\ \A reason : \E x : Quiet(x) /\ Emits(AnthropicEnd(s, reason).out, x)
           /\ \E x : Quiet(x) /\ Emits(AnthropicStop(s).out, x)
           /\ \A c : Emits(PassedOn(s, c).out, c)
<1>1. ASSUME NEW x PROVE Emits(Ignored(s).out, x) /\ Emits(Failed(s).out, x)
  BY EventEmits DEF Ignored, Failed
<1>2. ASSUME NEW v PROVE Emits(AnthropicText(s, v).out, Text(v)) BY EventEmits DEF AnthropicText
<1>3. Emits(AnthropicThinking(s).out, Think) BY EventEmits DEF AnthropicThinking
<1>4. ASSUME NEW id PROVE Emits(AnthropicToolUse(s, id).out, Announce(Len(s.calls) + 1, id, <<>>))
  BY EventEmits DEF AnthropicToolUse
<1>5. ASSUME NEW v PROVE Emits(AnthropicInput(s, v).out, Args(Len(s.calls), v))
  BY EventEmits DEF AnthropicInput
<1>6. ASSUME NEW reason PROVE \E x : Quiet(x) /\ Emits(AnthropicEnd(s, reason).out, x)
  <2> DEFINE x == Finish(AnthropicReason(reason, s.calls # <<>>))
  <2>1. Quiet(x) BY DEF Quiet, Finish, Chunk
  <2>2. Emits(AnthropicEnd(s, reason).out, x) BY EventEmits DEF AnthropicEnd
  <2> QED BY <2>1, <2>2
<1>7. \E x : Quiet(x) /\ Emits(AnthropicStop(s).out, x)
  <2>1. CASE s.completed
    <3>1. Quiet(Think) BY DEF Quiet, Think, Chunk
    <3> QED BY <1>1, <2>1, <3>1 DEF AnthropicStop
  <2>2. CASE ~s.completed BY <1>6, <2>2 DEF AnthropicStop
  <2> QED BY <2>1, <2>2
<1>8. ASSUME NEW c PROVE Emits(PassedOn(s, c).out, c) BY EventEmits DEF PassedOn
<1> QED BY <1>1, <1>2, <1>3, <1>4, <1>5, <1>6, <1>7, <1>8

LEMMA ResponsesEmits ==
    ASSUME NEW s, NEW d
    PROVE  /\ \A v : Emits(ResponsesText(d, s, v).out, Text(v)) /\ Emits(ResponsesMessageDone(d, s, v).out, Text(v))
           /\ Emits(ResponsesReasoning(d, s).out, Think) /\ Emits(ResponsesReasoningDone(d, s).out, Think)
           /\ \A ev : Emits(ResponsesItemAdded(d, s, ev).out, Announce(Len(s.calls) + 1, ev.call, <<>>))
           /\ \A ev, v : Emits(ResponsesArgs(d, s, ev, v).out, Args(FindTool(d, s, ev), v))
           /\ \A ev, v : FindTool(d, s, ev) # 0 =>
                 Emits(ResponsesCallDone(d, s, ev, v).out, Args(FindTool(d, s, ev), v))
           /\ \A cut, output : \E x : Quiet(x) /\ Emits(ResponsesCompleted(d, s, cut, output).out, x)
<1>1. ASSUME NEW v PROVE Emits(ResponsesText(d, s, v).out, Text(v)) BY EventEmits DEF ResponsesText
<1>2. ASSUME NEW v PROVE Emits(ResponsesMessageDone(d, s, v).out, Text(v))
  <2>1. CASE d = "codex" \/ s.text # <<>> BY <2>1, AnthropicEmits DEF ResponsesMessageDone
  <2>2. CASE ~(d = "codex" \/ s.text # <<>>) BY <2>2, EventEmits DEF ResponsesMessageDone
  <2> QED BY <2>1, <2>2
<1>3. Emits(ResponsesReasoning(d, s).out, Think) BY EventEmits DEF ResponsesReasoning
<1>4. Emits(ResponsesReasoningDone(d, s).out, Think)
  <2>1. CASE s.thought BY <2>1, EventEmits DEF ResponsesReasoningDone, Ignored
  <2>2. CASE ~s.thought BY <2>2, EventEmits DEF ResponsesReasoningDone
  <2> QED BY <2>1, <2>2
<1>5. ASSUME NEW ev PROVE Emits(ResponsesItemAdded(d, s, ev).out, Announce(Len(s.calls) + 1, ev.call, <<>>))
  BY EventEmits DEF ResponsesItemAdded
<1>6. ASSUME NEW ev, NEW v PROVE Emits(ResponsesArgs(d, s, ev, v).out, Args(FindTool(d, s, ev), v))
  <2>1. CASE FindTool(d, s, ev) = 0 BY <2>1, EventEmits DEF ResponsesArgs, Ignored
  <2>2. CASE FindTool(d, s, ev) # 0 BY <2>2, EventEmits DEF ResponsesArgs
  <2> QED BY <2>1, <2>2
<1>7. ASSUME NEW ev, NEW v, FindTool(d, s, ev) # 0
      PROVE  Emits(ResponsesCallDone(d, s, ev, v).out, Args(FindTool(d, s, ev), v))
  <2> DEFINE due == s.calls[FindTool(d, s, ev)].args = <<>> /\ v # <<>>
  <2>1. CASE due BY <1>7, <2>1, EventEmits DEF ResponsesCallDone
  <2>2. CASE ~due BY <1>7, <2>2, EventEmits DEF ResponsesCallDone, Ignored
  <2> QED BY <2>1, <2>2
<1>8. ASSUME NEW cut, NEW output PROVE \E x : Quiet(x) /\ Emits(ResponsesCompleted(d, s, cut, output).out, x)
  <2>1. PICK t, r : ResponsesCompleted(d, s, cut, output) = CodexRole(d, Result(t, <<Finish(r)>>), TRUE)
    BY DEF ResponsesCompleted
  <2>2. Quiet(Finish(r)) BY DEF Quiet, Finish, Chunk
  <2>3. Emits(ResponsesCompleted(d, s, cut, output).out, Finish(r)) BY <2>1, EventEmits
  <2> QED BY <2>2, <2>3
<1> QED BY <1>1, <1>2, <1>3, <1>4, <1>5, <1>6, <1>7, <1>8

\* One chunk beside chunks that are no part of the reply.
LEMMA EmitsFits ==
    ASSUME NEW out, NEW x, Emits(out, x), NEW n, NEW m, NEW R,
           x.k = "text" => 1..n \subseteq R, Calling(x) => x.i \in 1..m
    PROVE  Fits(out, n, m, R) /\ (Strays(out, R) => Calling(x) /\ x.i \in R)
<1>1. ASSUME NEW k \in 1..Len(out), out[k].k = "text"
      PROVE  1..n \subseteq R /\ \A j \in 1..k : ~Calling(out[j])
  <2>1. out[k] = x BY <1>1 DEF Emits, Quiet
  <2>2. Len(out) \in Nat BY LenProperties DEF Emits, IsSeq
  <2>3. ASSUME NEW j \in 1..k PROVE ~Calling(out[j]) BY <2>2, <1>1, <2>1 DEF Emits, Quiet, Calling
  <2> QED BY <1>1, <2>1, <2>3
<1>2. ASSUME NEW k \in 1..Len(out), Calling(out[k]) PROVE out[k] = x
  BY <1>2 DEF Emits, Quiet, Calling
<1> QED BY <1>1, <1>2 DEF Fits, Strays, Emits

LEMMA FitsOn ==
    ASSUME NEW a, NEW b, NEW n, NEW m, NEW R, Fits(a, n, m, R), ~Strays(a, R), Follows(b, m, R)
    PROVE  Fits(a \o b, n, m, R) /\ ~Strays(a \o b, R)
<1> DEFINE all == a \o b
<1>1. PICK S : a \in Seq(S) BY DEF Fits, IsSeq
<1>2. PICK T : b \in Seq(T) BY DEF Follows, IsSeq
<1>3. a \in Seq(S \cup T) /\ b \in Seq(S \cup T) BY <1>1, <1>2
<1>4. /\ all \in Seq(S \cup T) /\ Len(a) \in Nat /\ Len(b) \in Nat /\ Len(all) = Len(a) + Len(b)
      /\ \A k \in 1..Len(all) : all[k] = IF k <= Len(a) THEN a[k] ELSE b[k - Len(a)]
  BY <1>3, ConcatProperties, LenProperties
<1> HIDE DEF all
<1>5. ASSUME NEW k \in 1..Len(all), k <= Len(a)
      PROVE  /\ all[k].k = "text" => 1..n \subseteq R /\ \A j \in 1..k : ~Calling(all[j])
             /\ Calling(all[k]) => all[k].i \in 1..m /\ all[k].i \notin R
  BY <1>4, <1>5 DEF Fits, Strays
<1>6. ASSUME NEW k \in 1..Len(all), ~(k <= Len(a))
      PROVE  all[k].k # "text" /\ (Calling(all[k]) => all[k].i \in 1..m /\ all[k].i \notin R)
  BY <1>4, <1>6 DEF Follows
<1>7. IsSeq(all) BY <1>4 DEF IsSeq
<1>8. Fits(all, n, m, R) /\ ~Strays(all, R) BY <1>5, <1>6, <1>7 DEF Fits, Strays
<1> QED BY <1>8 DEF all

LEMMA IsList ==
    ASSUME NEW n \in Nat, NEW f, f = [j \in 1..n |-> f[j]]
    PROVE  IsSeq(f) /\ Len(f) = n
<1>1. f \in Seq({f[j] : j \in 1..n}) /\ Len(f) = n OBVIOUS
<1> QED BY <1>1 DEF IsSeq

\* A frame: its text, and then its calls, which are new.
LEMMA GeminiFits ==
    ASSUME NEW s, DOMAIN s = FeedFields, IsSeq(s.calls), NEW f, IsSeq(f.calls)
    PROVE  LET r == GeminiFrame(s, f)
               n == Len(s.calls)
               m == n + Len(f.calls)
           IN  /\ Fits(r.out, n, m, 1..n) /\ ~Strays(r.out, 1..n)
               /\ DOMAIN r.s = FeedFields /\ IsSeq(r.s.calls) /\ Len(r.s.calls) = m
<1> DEFINE n == Len(s.calls)
           m == n + Len(f.calls)
           spoken == IF f.text # <<>> THEN <<Text(f.text)>> ELSE <<>>
           thinks == IF f.thought THEN <<Think>> ELSE <<>>
           calls == [j \in 1..Len(f.calls) |-> Announce(n + j, n + j, f.calls[j])]
           ends == IF f.reason = None THEN <<>> ELSE <<Finish(GeminiReason(f.reason, f.calls # <<>>))>>
           more == [j \in 1..Len(f.calls) |->
                       [id |-> n + j, item |-> None, out |-> None, args |-> f.calls[j]]]
           r == GeminiFrame(s, f)
<1>1. r.out = ((spoken \o thinks) \o calls) \o ends BY DEF GeminiFrame, Result
<1>2. n \in Nat /\ Len(f.calls) \in Nat BY LenProperties DEF IsSeq
<1>3. Fits(spoken, n, m, 1..n) /\ ~Strays(spoken, 1..n)
  <2> DEFINE x == Text(f.text)
  <2>1. Emits(spoken, x) BY ListEmits
  <2>2. ~Calling(x) BY DEF Calling, Text, Chunk
  <2> HIDE DEF spoken, x, n, m
  <2> QED BY <2>1, <2>2, EmitsFits
<1>4. Follows(thinks, m, 1..n) /\ Follows(ends, m, 1..n)
  <2>1. ASSUME NEW x, Quiet(x) PROVE Follows(<<x>>, m, 1..n)
    <3> DEFINE one == <<x>>
    <3>1. Len(one) = 1 /\ one[1] = x OBVIOUS
    <3>2. IsSeq(one) BY Lists
    <3> HIDE DEF one, n, m
    <3>3. ASSUME NEW k \in 1..Len(one) PROVE one[k].k # "text" /\ ~Calling(one[k])
      BY <3>1, <2>1 DEF Quiet, Calling
    <3>4. Follows(one, m, 1..n) BY <3>2, <3>3 DEF Follows
    <3> QED BY <3>4 DEF one
  <2>2. Follows(<<>>, m, 1..n) BY Lists DEF Follows
  <2>3. Quiet(Think) /\ \A reason : Quiet(Finish(reason)) BY DEF Quiet, Think, Finish, Chunk
  <2> QED BY <2>1, <2>2, <2>3
<1>5. Follows(calls, m, 1..n)
  <2>1. IsSeq(calls) /\ Len(calls) = Len(f.calls)
    <3> HIDE DEF n
    <3> QED BY <1>2, IsList
  <2>2. ASSUME NEW k \in 1..Len(f.calls)
        PROVE  calls[k].k = "call" /\ calls[k].i = n + k
    <3>1. calls[k] = Announce(n + k, n + k, f.calls[k]) OBVIOUS
    <3> HIDE DEF calls, n
    <3> QED BY <3>1 DEF Announce, Chunk
  <2> HIDE DEF calls, n, m
  <2>3. ASSUME NEW k \in 1..Len(f.calls) PROVE n + k \in 1..m /\ n + k \notin 1..n BY <1>2 DEF m
  <2> QED BY <2>1, <2>2, <2>3 DEF Follows
<1>6. Fits(r.out, n, m, 1..n) /\ ~Strays(r.out, 1..n)
  <2> HIDE DEF spoken, thinks, calls, ends, n, m, r
  <2>1. Fits(spoken \o thinks, n, m, 1..n) /\ ~Strays(spoken \o thinks, 1..n) BY <1>3, <1>4, FitsOn
  <2>2. Fits((spoken \o thinks) \o calls, n, m, 1..n) /\ ~Strays((spoken \o thinks) \o calls, 1..n)
    BY <1>5, <2>1, FitsOn
  <2> QED BY <1>1, <1>4, <2>2, FitsOn
<1>7. DOMAIN r.s = FeedFields /\ r.s.calls = s.calls \o more BY DEF GeminiFrame, Result, FeedFields
<1>8. IsSeq(s.calls \o more) /\ Len(s.calls \o more) = m
  <2>1. IsSeq(more) /\ Len(more) = Len(f.calls)
    <3> HIDE DEF n
    <3> QED BY <1>2, IsList
  <2> HIDE DEF more
  <2>2. PICK S, T : s.calls \in Seq(S) /\ more \in Seq(T) BY <2>1 DEF IsSeq
  <2>3. s.calls \in Seq(S \cup T) /\ more \in Seq(S \cup T) BY <2>2
  <2>4. Len(s.calls \o more) = Len(s.calls) + Len(more) BY <2>3
  <2>5. IsSeq(s.calls \o more) BY <2>1, Lists
  <2> QED BY <2>1, <2>4, <2>5
<1> QED BY <1>6, <1>7, <1>8

\* What the finished response brings leaves the calls a list.
LEMMA ApplyKeeps ==
    ASSUME NEW s, DOMAIN s = FeedFields, IsSeq(s.calls), NEW output, IsSeq(output.calls)
    PROVE  LET t == ApplyOutput(s, output) IN DOMAIN t = FeedFields /\ IsSeq(t.calls)
<1> DEFINE N == Len(output.calls)
           s0 == [s EXCEPT !.text = IF @ = <<>> THEN output.text ELSE @]
           ev(n) == [item |-> output.calls[n].item, call |-> output.calls[n].call, out |-> None]
           next(t, n) == IF FindTool("opencode", t, ev(n)) # 0 THEN t ELSE AddTool(t, ev(n), output.calls[n].args)
           Applying(f, m) == f = [n \in 0..m |-> IF n = 0 THEN s0 ELSE next(f[n - 1], n)]
           applied == CHOOSE f : Applying(f, N)
           Good(t) == DOMAIN t = FeedFields /\ IsSeq(t.calls)
           None0 == {m \in 0..N : ~\E f : Applying(f, m)}
           Bad == {m \in 0..N : ~Good(applied[m])}
<1>1. N \in Nat /\ N \in 0..N BY LenProperties DEF IsSeq
<1>2. ApplyOutput(s, output) = applied[N] BY DEF ApplyOutput
<1>3. Good(s0) BY DEF FeedFields
<1>4. ASSUME NEW t, NEW n, Good(t) PROVE Good(next(t, n))
  <2>1. CASE FindTool("opencode", t, ev(n)) # 0 BY <1>4, <2>1
  <2>2. CASE ~(FindTool("opencode", t, ev(n)) # 0)
    <3> DEFINE x == [id |-> ev(n).call, item |-> ev(n).item, out |-> ev(n).out, args |-> output.calls[n].args]
    <3>1. next(t, n) = [t EXCEPT !.calls = Append(t.calls, x)] BY <2>2 DEF AddTool
    <3> HIDE DEF x, next
    <3>2. IsSeq(Append(t.calls, x)) BY <1>4, ListAdd
    <3> QED BY <1>4, <3>1, <3>2 DEF FeedFields
  <2> QED BY <2>1, <2>2
<1> HIDE DEF N, s0, next
<1>5. ASSUME None0 # {} PROVE FALSE
  <2>1. PICK m \in None0 : \A k \in None0 : m <= k BY <1>1, <1>5, First
  <2>2. CASE m = 0
    <3>1. Applying([n \in 0..0 |-> s0], 0) OBVIOUS
    <3> QED BY <2>1, <2>2, <3>1
  <2>3. CASE m # 0
    <3>1. m \in 1..N /\ m - 1 \in 0..N /\ ~(m <= m - 1) BY <1>1, <2>1, <2>3
    <3>2. PICK g : Applying(g, m - 1) BY <2>1, <3>1
    <3> DEFINE f == [n \in 0..m |-> IF n = m THEN next(g[m - 1], m) ELSE g[n]]
    <3>3. ASSUME NEW n \in 0..m
          PROVE  f[n] = IF n = 0 THEN s0 ELSE next(f[n - 1], n)
      <4>1. CASE n = m BY <1>1, <3>1, <4>1
      <4>2. CASE n # m BY <1>1, <3>1, <4>2, <3>2
      <4> QED BY <4>1, <4>2
    <3>4. Applying(f, m) BY <3>3
    <3> QED BY <2>1, <3>4
  <2> QED BY <2>2, <2>3
<1>6. Applying(applied, N)
  <2>1. \E f : Applying(f, N) BY <1>1, <1>5
  <2> HIDE DEF Applying
  <2> QED BY <2>1
<1> HIDE DEF applied, Good
<1>7. ASSUME Bad # {} PROVE FALSE
  <2>1. PICK m \in Bad : \A k \in Bad : m <= k BY <1>1, <1>7, First
  <2>2. m # 0 BY <1>1, <1>3, <1>6, <2>1
  <2>3. m \in 1..N /\ m - 1 \in 0..N /\ ~(m <= m - 1) BY <1>1, <2>1, <2>2
  <2>4. applied[m] = next(applied[m - 1], m) BY <1>1, <1>6, <2>3
  <2>5. Good(applied[m - 1]) BY <2>1, <2>3
  <2> QED BY <1>4, <2>1, <2>4, <2>5
<1>8. Good(applied[N]) BY <1>1, <1>7
<1> QED BY <1>2, <1>8 DEF Good

LEMMA CompletedFeeds ==
    ASSUME NEW s, DOMAIN s = FeedFields, IsSeq(s.calls), NEW output, IsSeq(output.calls), NEW d, NEW cut
    PROVE  LET r == ResponsesCompleted(d, s, cut, output) IN DOMAIN r.s = FeedFields /\ IsSeq(r.s.calls)
<1> DEFINE full == IF d = "codex" THEN s ELSE ApplyOutput(s, output)
<1>1. DOMAIN full = FeedFields /\ IsSeq(full.calls) BY ApplyKeeps
<1>2. PICK reason : ResponsesCompleted(d, s, cut, output) =
        CodexRole(d, Result([full EXCEPT !.completed = TRUE, !.reason = reason], <<Finish(reason)>>), TRUE)
  BY DEF ResponsesCompleted
<1> HIDE DEF full
<1>3. Knows(ResponsesCompleted(d, s, cut, output), full.calls)
  <2> DEFINE t == [full EXCEPT !.completed = TRUE, !.reason = reason]
             out == <<Finish(reason)>>
  <2>1. DOMAIN t = FeedFields /\ t.calls = full.calls BY <1>1 DEF FeedFields
  <2> HIDE DEF t, out
  <2>2. Knows(CodexRole(d, Result(t, out), TRUE), t.calls) BY <2>1, EventKnows
  <2> QED BY <1>2, <2>1, <2>2 DEF t, out
<1> QED BY <1>1, <1>3 DEF Knows

LEMMA Counts ==
    ASSUME Grounds
    PROVE  /\ Len(said.calls) \in Nat /\ DOMAIN said.calls = 1..Len(said.calls) /\ MaxCalls \in Nat
           /\ up.since \in Nat
BY LenProperties, ReplyStreamAssumption DEF Grounds, IsSeq

LEMMA Saying ==
    ASSUME Grounds
    PROVE  /\ UNCHANGED said => Heard(Len(said.calls))
           /\ SayText => Heard(Len(said.calls))
           /\ \A cut : SayEnd(cut) => Heard(Len(said.calls))
           /\ \A c, args : SayCall(c, args) => Heard(Len(said.calls) + 1)
           /\ \A c \in 1..Len(said.calls) : SayArgs(c) => Heard(Len(said.calls))
<1>1. DOMAIN said = SaidFields /\ IsSeq(said.calls) BY DEF Grounds
<1>2. ASSUME UNCHANGED said PROVE Heard(Len(said.calls)) BY <1>1, <1>2 DEF Heard
<1>3. ASSUME SayText PROVE Heard(Len(said.calls)) BY <1>1, <1>3 DEF SayText, SaidFields, Heard
<1>4. ASSUME NEW cut, SayEnd(cut) PROVE Heard(Len(said.calls))
  BY <1>1, <1>4 DEF SayEnd, SaidFields, Heard
<1>5. ASSUME NEW c, NEW args, SayCall(c, args) PROVE Heard(Len(said.calls) + 1)
  <2> DEFINE x == [id |-> c, args |-> args]
  <2>1. DOMAIN said' = SaidFields /\ said'.calls = Append(said.calls, x)
    BY <1>1, <1>5 DEF SayCall, SaidFields
  <2> HIDE DEF x
  <2>2. IsSeq(Append(said.calls, x)) /\ Len(Append(said.calls, x)) = Len(said.calls) + 1
    BY <1>1, ListAdd
  <2> QED BY <2>1, <2>2 DEF Heard
<1>6. ASSUME NEW c \in 1..Len(said.calls), SayArgs(c) PROVE Heard(Len(said.calls))
  <2> DEFINE a == said.calls[c].args \o Piece
             cs == [said.calls EXCEPT ![c] = [said.calls[c] EXCEPT !.args = a]]
  <2>1. said' = [said EXCEPT !.calls = cs] BY <1>6 DEF SayArgs
  <2> HIDE DEF a
  <2>2. IsSeq(cs) /\ Len(cs) = Len(said.calls) BY <1>1, CallsPut
  <2> HIDE DEF cs
  <2>3. DOMAIN said' = SaidFields /\ said'.calls = cs BY <1>1, <2>1 DEF SaidFields
  <2> QED BY <2>2, <2>3 DEF Heard
<1> QED BY <1>2, <1>3, <1>4, <1>5, <1>6

\* A translator that leaves the calls, goes on with one, or gets a new one.
LEMMA Telling ==
    ASSUME NEW s, NEW n \in Nat, NEW labels, Tells(s, n, labels), NEW r
    PROVE  /\ Knows(r, s.calls) => Tells(r.s, n, labels)
           /\ \A i \in 1..n : Continues(r, s, i) => Tells(r.s, n, labels)
           /\ \A x : /\ Knows(r, Append(s.calls, x))
                     /\ Responses => LabelledCall(x, n + 1, labels)
                     => Tells(r.s, n + 1, labels)
<1>1. ASSUME Knows(r, s.calls) PROVE Tells(r.s, n, labels) BY <1>1 DEF Knows, Tells
<1>2. ASSUME NEW i \in 1..n, Continues(r, s, i) PROVE Tells(r.s, n, labels)
  <2>1. PICK a : Knows(r, [s.calls EXCEPT ![i] = [s.calls[i] EXCEPT !.args = a]])
    BY <1>2 DEF Continues
  <2> DEFINE cs == [s.calls EXCEPT ![i] = [s.calls[i] EXCEPT !.args = a]]
  <2>2. /\ IsSeq(cs) /\ Len(cs) = Len(s.calls)
        /\ Labelled(s.calls, labels) => Labelled(cs, labels)
    BY CallsPut DEF Tells
  <2> HIDE DEF cs
  <2>3. DOMAIN r.s = FeedFields /\ r.s.calls = cs BY <2>1 DEF Knows, cs
  <2> QED BY <2>2, <2>3 DEF Tells
<1>3. ASSUME NEW x, Knows(r, Append(s.calls, x)), Responses => LabelledCall(x, n + 1, labels)
      PROVE  Tells(r.s, n + 1, labels)
  <2> DEFINE cs == Append(s.calls, x)
  <2>1. /\ IsSeq(cs) /\ Len(cs) = Len(s.calls) + 1
        /\ Labelled(s.calls, labels) /\ LabelledCall(x, Len(s.calls) + 1, labels) => Labelled(cs, labels)
    BY CallsGrow DEF Tells
  <2> HIDE DEF cs
  <2>2. DOMAIN r.s = FeedFields /\ r.s.calls = cs BY <1>3 DEF Knows, cs
  <2> QED BY <1>3, <2>1, <2>2 DEF Tells
<1> QED BY <1>1, <1>2, <1>3

LEMMA Voices ==
    ASSUME Grounds', Len(said.calls) <= Len(said'.calls), Len(said'.calls) \in Nat, up.broken => up'.broken,
           NEW r, Consume(r), NEW x, Emits(r.out, x), NEW R, Past \subseteq R, R \subseteq Past',
           x.k = "text" => 1..Len(said.calls) \subseteq R,
           Calling(x) => x.i \in 1..Len(said'.calls) /\ (x.i \in R => up'.broken)
    PROVE  Emitting
BY EmitsFits DEF Emitting

LEMMA EndsKnow ==
    ASSUME NEW s, DOMAIN s = FeedFields
    PROVE  /\ \A reason : Knows(AnthropicEnd(s, reason), s.calls)
           /\ Knows(AnthropicStop(s), s.calls)
           /\ \A c : Knows(PassedOn(s, c), s.calls)
<1>1. ASSUME NEW reason PROVE Knows(AnthropicEnd(s, reason), s.calls)
  <2> DEFINE why == AnthropicReason(reason, s.calls # <<>>)
             t == [s EXCEPT !.completed = TRUE, !.reason = why]
             out == <<Finish(why)>>
  <2>1. AnthropicEnd(s, reason) = WithRole(Result(t, out)) BY DEF AnthropicEnd
  <2>2. DOMAIN t = FeedFields /\ t.calls = s.calls BY DEF FeedFields
  <2> HIDE DEF t, out
  <2> QED BY <2>1, <2>2, EventKnows
<1>2. Knows(AnthropicStop(s), s.calls) BY TextsKnow, <1>1 DEF AnthropicStop
<1>3. ASSUME NEW c PROVE Knows(PassedOn(s, c), s.calls)
  <2> DEFINE t == [s EXCEPT !.completed = s.completed \/ c.k \in {"finish", "done"}]
             out == <<c>>
  <2>1. PassedOn(s, c) = Result(t, out) BY DEF PassedOn
  <2>2. DOMAIN t = FeedFields /\ t.calls = s.calls BY DEF FeedFields
  <2> HIDE DEF t, out
  <2> QED BY <2>1, <2>2, EventKnows
<1> QED BY <1>1, <1>2, <1>3

\* What is to be shown of an event.
LEMMA Stepping ==
    ASSUME Grounds, NEW r, Consume(r), NEW m \in Nat, Heard(m), Len(said.calls) <= m, m <= MaxCalls,
           DOMAIN up' = UpFields, up'.since \in 0..m, up'.open \subseteq 1..m, up'.held => up.held,
           up.broken => up'.broken, proto = "anthropic" /\ up'.block = "call" => m > 0,
           DOMAIN r.s = FeedFields, IsSeq(r.s.calls),
           ~up'.ended /\ ~up'.held /\ Translates => Tells(r.s, m, up'.labels),
           NEW x, Emits(r.out, x), NEW R, Past \subseteq R, R \subseteq Past',
           x.k = "text" => 1..Len(said.calls) \subseteq R,
           Calling(x) => x.i \in 1..m /\ (x.i \in R => up'.broken)
    PROVE  Emitting
BY Voices DEF Consume, Grounds, Heard, Translates, Tells, Responses

\* An event that brings no call.
LEMMA SameCalls ==
    ASSUME Grounds, NEW r, Consume(r), Heard(Len(said.calls)), Knows(r, feed.calls),
           DOMAIN up' = UpFields, up'.since \in 0..Len(said.calls), up'.open \subseteq 1..Len(said.calls),
           up'.held = up.held, up'.labels = up.labels, up.ended => up'.ended,
           up.broken => up'.broken, proto = "anthropic" /\ up'.block = "call" => Len(said.calls) > 0,
           NEW x, Emits(r.out, x), NEW R, Past \subseteq R, R \subseteq Past',
           x.k = "text" => 1..Len(said.calls) \subseteq R,
           Calling(x) => x.i \in 1..Len(said.calls) /\ (x.i \in R => up'.broken)
    PROVE  Emitting
<1>1. Len(said.calls) \in Nat BY Counts
<1>2. DOMAIN r.s = FeedFields /\ IsSeq(r.s.calls) BY DEF Knows, Grounds
<1>3. ASSUME ~up'.ended, ~up'.held, Translates PROVE Tells(r.s, Len(said.calls), up'.labels)
  BY <1>3, <1>1, Telling DEF Grounds
<1>4. Len(said.calls) <= MaxCalls BY DEF Grounds
<1>5. feed' = r.s /\ proto' = proto BY DEF Consume
<1>6. Grounds' BY <1>1, <1>2, <1>3, <1>4, <1>5 DEF Grounds, Heard, Translates, Tells, Responses
<1>7. Len(said'.calls) = Len(said.calls) BY DEF Heard
<1>8. Len(said'.calls) \in Nat /\ Len(said.calls) <= Len(said'.calls) BY <1>1, <1>7
<1>9. Calling(x) => x.i \in 1..Len(said'.calls) /\ (x.i \in R => up'.broken) BY <1>7
<1> QED BY <1>6, <1>8, <1>9, Voices

LEMMA Shapes ==
    /\ \A v : Text(v).k = "text" /\ ~Calling(Text(v))
    /\ \A i, id, v : Calling(Announce(i, id, v)) /\ Announce(i, id, v).i = i /\ Announce(i, id, v).k # "text"
    /\ \A i, v : Calling(Args(i, v)) /\ Args(i, v).i = i /\ Args(i, v).k # "text"
    /\ \A x : Quiet(x) => ~Calling(x) /\ x.k # "text"
    /\ Quiet(Think) /\ \A reason : Quiet(Finish(reason))
BY DEF Text, Announce, Args, Think, Finish, Chunk, Calling, Quiet

\* Anthropic: a call goes on in its block only, and the last one alone.
LEMMA AnthropicBlocks ==
    ASSUME Grounds, NEW kind, AnthropicBlock(kind)
    PROVE  Emitting
<1> DEFINE n == Len(said.calls)
<1>1. n \in Nat /\ MaxCalls \in Nat /\ up.since \in Nat BY Counts
<1>2. /\ phase = "reading" /\ proto = "anthropic" /\ ~up.ended /\ up.block = None /\ ~up.held
      /\ DOMAIN up = UpFields /\ up.since \in 0..n /\ up.open \subseteq 1..n
      /\ DOMAIN feed = FeedFields /\ IsSeq(feed.calls) /\ Tells(feed, n, up.labels)
  BY DEF AnthropicBlock, Speaks, Grounds, Translates
<1>3. up' = [up EXCEPT !.block = kind] BY DEF AnthropicBlock
<1>4. /\ DOMAIN up' = UpFields /\ up'.block = kind /\ up'.since = up.since /\ up'.open = up.open
      /\ up'.held = up.held /\ up'.labels = up.labels /\ up'.ended = up.ended /\ up'.broken = up.broken
  BY <1>2, <1>3 DEF UpFields
<1>5. Past = 1..n BY <1>2, ReplyStreamAssumption DEF Past
<1>6. CASE kind = "call"
  <2> DEFINE r == AnthropicToolUse(feed, n + 1)
             x == Announce(Len(feed.calls) + 1, n + 1, <<>>)
             m == n + 1
  <2>1. Consume(r) /\ SayCall(n + 1, <<>>) /\ n < MaxCalls BY <1>6 DEF AnthropicBlock, MoreCalls
  <2>2. m \in Nat /\ n <= m /\ m <= MaxCalls /\ m > 0 /\ up'.since \in 0..m /\ up'.open \subseteq 1..m
    BY <1>1, <1>2, <1>4, <2>1
  <2>3. Heard(m) BY <2>1, Saying
  <2>4. Knows(r, Append(feed.calls, [id |-> n + 1, item |-> None, out |-> None, args |-> <<>>]))
    BY <1>2, AnnouncesKnow
  <2>5. ~Responses BY <1>2 DEF Responses
  <2> DEFINE c == [id |-> n + 1, item |-> None, out |-> None, args |-> <<>>]
  <2>6. Tells(r.s, m, up.labels)
    <3> HIDE DEF r, c
    <3> QED BY <1>1, <1>2, <2>4, <2>5, Telling DEF c
  <2>7. DOMAIN r.s = FeedFields /\ IsSeq(r.s.calls) BY <2>6 DEF Tells
  <2>8. Emits(r.out, x) BY AnthropicEmits
  <2>9. x.i = m /\ x.k # "text" BY <1>2, Shapes DEF Tells
  <2>10. Past' = 1..n BY <1>2, <2>1, <2>3, <1>4, <1>6, <1>1 DEF Heard, Consume, Past
  <2> HIDE DEF r, x, m
  <2>11. m \in 1..m /\ m \notin 1..n BY <1>1 DEF m
  <2> QED BY <1>2, <1>4, <1>5, <2>1, <2>2, <2>3, <2>6, <2>7, <2>8, <2>9, <2>10, <2>11, Stepping
<1>7. CASE kind # "call"
  <2> DEFINE r == Ignored(feed)
  <2>1. Consume(r) /\ UNCHANGED said BY <1>7 DEF AnthropicBlock
  <2>2. Heard(n) BY <2>1, Saying
  <2>3. Knows(r, feed.calls) BY <1>2, TextsKnow
  <2>4. Emits(r.out, Think) BY AnthropicEmits
  <2>5. Past' = 1..n BY <1>2, <2>1, <1>4, <1>7 DEF Consume, Past
  <2>6. Think.k # "text" /\ ~Calling(Think) BY Shapes
  <2> HIDE DEF r
  <2> QED BY <1>2, <1>4, <1>5, <1>7, <2>1, <2>2, <2>3, <2>4, <2>5, <2>6, SameCalls
<1> QED BY <1>6, <1>7

LEMMA AnthropicSpeaks ==
    ASSUME Grounds
    PROVE  /\ AnthropicDelta => Emitting
           /\ AnthropicBlockStop => Emitting
           /\ \A cut : AnthropicMessageDelta(cut) => Emitting
           /\ AnthropicMessageStop => Emitting
<1> DEFINE n == Len(said.calls)
<1>1. /\ n \in Nat /\ DOMAIN up = UpFields /\ up.since \in 0..n /\ up.open \subseteq 1..n
      /\ DOMAIN feed = FeedFields /\ IsSeq(feed.calls)
  BY Counts DEF Grounds
<1>2. Think.k # "text" /\ ~Calling(Think) BY Shapes
<1>3. ASSUME AnthropicDelta PROVE Emitting
  <2>1. /\ phase = "reading" /\ proto = "anthropic" /\ ~up.ended /\ ~up.held
        /\ Tells(feed, n, up.labels) /\ (up.block = "call" => n > 0)
    BY <1>3 DEF AnthropicDelta, Speaks, Grounds, Translates
  <2>2. up' = [up EXCEPT !.pieces = @ + 1] BY <1>3 DEF AnthropicDelta
  <2>3. /\ DOMAIN up' = UpFields /\ up'.block = up.block /\ up'.since = up.since /\ up'.open = up.open
        /\ up'.held = up.held /\ up'.labels = up.labels /\ up'.ended = up.ended /\ up'.broken = up.broken
    BY <1>1, <2>2 DEF UpFields
  <2>4. ASSUME Heard(n), proto' = proto PROVE Past' = Past BY <2>1, <2>3, <2>4 DEF Past, Heard
  <2>5. CASE up.block = "text" /\ SayText /\ Consume(AnthropicText(feed, Piece))
    <3> DEFINE r == AnthropicText(feed, Piece)
               x == Text(Piece)
    <3>1. Heard(n) /\ Knows(r, feed.calls) /\ Emits(r.out, x) /\ ~Calling(x)
      BY <1>1, <2>5, Saying, TextsKnow, AnthropicEmits, Shapes
    <3>2. Past' = Past BY <2>4, <2>5, <3>1 DEF Consume
    <3>3. Past = 1..n BY <2>1, <2>5 DEF Past
    <3> HIDE DEF r, x
    <3> QED BY <1>1, <2>1, <2>3, <2>5, <3>1, <3>2, <3>3, SameCalls DEF r, x
  <2>6. CASE up.block = "think" /\ UNCHANGED said /\ Consume(AnthropicThinking(feed))
    <3> DEFINE r == AnthropicThinking(feed)
    <3>1. Heard(n) /\ Knows(r, feed.calls) /\ Emits(r.out, Think)
      BY <1>1, <2>6, Saying, TextsKnow, AnthropicEmits
    <3>2. Past' = Past BY <2>4, <2>6, <3>1 DEF Consume
    <3> HIDE DEF r
    <3> QED BY <1>1, <1>2, <2>1, <2>3, <2>6, <3>1, <3>2, SameCalls DEF r
  <2>7. CASE up.block = "call" /\ SayArgs(n) /\ Consume(AnthropicInput(feed, Piece))
    <3> DEFINE r == AnthropicInput(feed, Piece)
               x == Args(Len(feed.calls), Piece)
    <3>1. Len(feed.calls) = n /\ n \in 1..n BY <1>1, <2>1, <2>7 DEF Tells
    <3>2. Heard(n) BY <2>7, <3>1, Saying
    <3>3. Continues(r, feed, n) BY <1>1, <3>1, ArgsKnow
    <3>4. Emits(r.out, x) /\ x.i = n /\ x.k # "text" BY <3>1, AnthropicEmits, Shapes
    <3>5. Past' = Past BY <2>4, <2>7, <3>2 DEF Consume
    <3>6. n \notin Past BY <1>1, <2>1, <2>7 DEF Past
    <3> HIDE DEF r, x
    <3>7. Tells(r.s, n, up.labels) BY <1>1, <2>1, <3>1, <3>3, Telling
    <3>8. DOMAIN r.s = FeedFields /\ IsSeq(r.s.calls) BY <3>7 DEF Tells
    <3>9. n <= n /\ n <= MaxCalls BY <1>1 DEF Grounds
    <3> HIDE DEF n
    <3> QED
      BY <1>1, <2>1, <2>3, <2>7, <3>1, <3>2, <3>4, <3>5, <3>6, <3>7, <3>8, <3>9, Stepping DEF n, r
  <2> QED BY <1>3, <2>5, <2>6, <2>7 DEF AnthropicDelta
<1>4. ASSUME AnthropicBlockStop PROVE Emitting
  <2> DEFINE r == Ignored(feed)
  <2>1. proto = "anthropic" /\ Consume(r) /\ UNCHANGED said /\ up' = [up EXCEPT !.block = None]
    BY <1>4 DEF AnthropicBlockStop, Speaks
  <2>2. /\ DOMAIN up' = UpFields /\ up'.block = None /\ up'.since = up.since /\ up'.open = up.open
        /\ up'.held = up.held /\ up'.labels = up.labels /\ up'.ended = up.ended /\ up'.broken = up.broken
    BY <1>1, <2>1 DEF UpFields
  <2>3. Heard(n) /\ Knows(r, feed.calls) /\ Emits(r.out, Think)
    BY <1>1, <2>1, Saying, TextsKnow, AnthropicEmits
  <2>4. None # "call" BY ReplyStreamAssumption
  <2>5. Past \subseteq Past' BY <2>1, <2>2, <2>4 DEF Past, Consume
  <2> HIDE DEF r
  <2> QED BY <1>1, <1>2, <2>1, <2>2, <2>3, <2>4, <2>5, SameCalls
<1>5. ASSUME proto = "anthropic", up.block = None, up' = [up EXCEPT !.ended = TRUE], Heard(n),
             NEW r, Consume(r), Knows(r, feed.calls), NEW x, Quiet(x), Emits(r.out, x)
      PROVE  Emitting
  <2>1. /\ DOMAIN up' = UpFields /\ up'.block = up.block /\ up'.since = up.since /\ up'.open = up.open
        /\ up'.held = up.held /\ up'.labels = up.labels /\ up'.ended = TRUE /\ up'.broken = up.broken
    BY <1>1, <1>5 DEF UpFields
  <2>2. Past' = Past BY <1>5, <2>1 DEF Past, Heard, Consume
  <2>3. x.k # "text" /\ ~Calling(x) /\ None # "call" BY <1>5, Shapes, ReplyStreamAssumption
  <2> QED BY <1>1, <1>5, <2>1, <2>2, <2>3, SameCalls
<1>6. ASSUME NEW cut, AnthropicMessageDelta(cut) PROVE Emitting
  <2>1. PICK reason : Consume(AnthropicEnd(feed, reason)) BY <1>6 DEF AnthropicMessageDelta
  <2>2. PICK x : Quiet(x) /\ Emits(AnthropicEnd(feed, reason).out, x) BY AnthropicEmits
  <2>3. Knows(AnthropicEnd(feed, reason), feed.calls) BY <1>1, EndsKnow
  <2>4. proto = "anthropic" /\ up.block = None /\ up' = [up EXCEPT !.ended = TRUE] /\ Heard(n)
    BY <1>6, Saying DEF AnthropicMessageDelta, Speaks
  <2> QED BY <1>5, <2>1, <2>2, <2>3, <2>4
<1>7. ASSUME AnthropicMessageStop PROVE Emitting
  <2>1. Consume(AnthropicStop(feed)) BY <1>7 DEF AnthropicMessageStop
  <2>2. PICK x : Quiet(x) /\ Emits(AnthropicStop(feed).out, x) BY AnthropicEmits
  <2>3. Knows(AnthropicStop(feed), feed.calls) BY <1>1, EndsKnow
  <2>4. proto = "anthropic" /\ up.block = None /\ up' = [up EXCEPT !.ended = TRUE] /\ Heard(n)
    BY <1>7, Saying DEF AnthropicMessageStop
  <2> QED BY <1>5, <2>1, <2>2, <2>3, <2>4
<1> QED BY <1>3, <1>4, <1>6, <1>7

\* Responses: a call goes on as long as it is open, and strays behind a text.
LEMMA ResponsesTexts ==
    ASSUME Grounds
    PROVE  /\ ResponsesSaysText => Emitting
           /\ ResponsesSaysMessage => Emitting
           /\ ResponsesThinks => Emitting
           /\ \A cut : ResponsesCompletes(cut) => Emitting
<1> DEFINE n == Len(said.calls)
<1>1. /\ n \in Nat /\ DOMAIN up = UpFields /\ up.since \in 0..n /\ up.open \subseteq 1..n
      /\ DOMAIN feed = FeedFields /\ IsSeq(feed.calls)
  BY Counts DEF Grounds
<1>2. ASSUME Responses PROVE Past = 1..up.since /\ proto # "anthropic" BY <1>2 DEF Past, Responses
<1>3. ASSUME Responses, TextPiece, SayText, NEW r, Consume(r), Knows(r, feed.calls), Emits(r.out, Text(Piece))
      PROVE  Emitting
  <2>1. up' = [up EXCEPT !.pieces = @ + 1, !.since = n] BY <1>3 DEF TextPiece
  <2>2. /\ DOMAIN up' = UpFields /\ up'.since = n /\ up'.open = up.open
        /\ up'.held = up.held /\ up'.labels = up.labels /\ up'.ended = up.ended /\ up'.broken = up.broken
    BY <1>1, <2>1 DEF UpFields
  <2>3. Heard(n) /\ ~Calling(Text(Piece)) BY <1>3, Saying, Shapes
  <2>4. Past' = 1..n BY <1>3, <2>2 DEF Past, Consume, Responses
  <2>5. Past \subseteq 1..n /\ up'.since \in 0..n BY <1>1, <1>2, <1>3, <2>2
  <2> QED BY <1>1, <1>2, <1>3, <2>2, <2>3, <2>4, <2>5, SameCalls
<1>4. ASSUME ResponsesSaysText PROVE Emitting
  <2> DEFINE r == ResponsesText(proto, feed, Piece)
  <2>1. Responses /\ TextPiece /\ SayText /\ Consume(r)
    BY <1>4 DEF ResponsesSaysText, ResponsesSpeaks, Speaks, Responses
  <2>2. Knows(r, feed.calls) /\ Emits(r.out, Text(Piece)) BY <1>1, TextsKnow, ResponsesEmits
  <2> HIDE DEF r
  <2> QED BY <1>3, <2>1, <2>2
<1>5. ASSUME ResponsesSaysMessage PROVE Emitting
  <2> DEFINE r == ResponsesMessageDone(proto, feed, Piece)
  <2>1. Responses /\ TextPiece /\ SayText /\ Consume(r)
    BY <1>5 DEF ResponsesSaysMessage, ResponsesSpeaks, Speaks, Responses
  <2>2. Knows(r, feed.calls) /\ Emits(r.out, Text(Piece)) BY <1>1, TextsKnow, ResponsesEmits
  <2> HIDE DEF r
  <2> QED BY <1>3, <2>1, <2>2
<1>6. ASSUME ResponsesThinks PROVE Emitting
  <2>1. PICK r : Consume(r) /\ r \in {ResponsesReasoning(proto, feed), ResponsesReasoningDone(proto, feed)}
    BY <1>6 DEF ResponsesThinks
  <2>2. Knows(r, feed.calls) /\ Emits(r.out, Think) BY <1>1, <2>1, TextsKnow, ResponsesEmits
  <2>3. Responses /\ up' = up /\ said' = said
    BY <1>6 DEF ResponsesThinks, ResponsesSpeaks, Speaks, Responses
  <2>4. Past' = Past BY <2>1, <2>3 DEF Past, Consume
  <2>5. Heard(n) /\ Think.k # "text" /\ ~Calling(Think) BY <2>3, Saying, Shapes
  <2> QED BY <1>1, <1>2, <2>1, <2>2, <2>3, <2>4, <2>5, SameCalls
<1>7. ASSUME NEW cut, ResponsesCompletes(cut) PROVE Emitting
  <2> DEFINE cs == [c \in DOMAIN said.calls |->
                      [item |-> InItem(c).item, call |-> c, args |-> said.calls[c].args]]
             output == [text |-> said.text, calls |-> cs]
             r == ResponsesCompleted(proto, feed, cut, output)
  <2>1. Responses /\ up' = [up EXCEPT !.ended = TRUE] /\ SayEnd(cut) /\ Consume(r)
    BY <1>7 DEF ResponsesCompletes, Speaks, Responses
  <2>2. IsSeq(output.calls)
    <3>1. cs = [c \in 1..n |-> cs[c]] BY Counts
    <3> HIDE DEF cs, n
    <3> QED BY <1>1, <3>1, IsList
  <2> HIDE DEF output, cs
  <2>3. DOMAIN r.s = FeedFields /\ IsSeq(r.s.calls) BY <1>1, <2>2, CompletedFeeds
  <2>4. PICK x : Quiet(x) /\ Emits(r.out, x) BY ResponsesEmits
  <2>5. /\ DOMAIN up' = UpFields /\ up'.since = up.since /\ up'.open = up.open
        /\ up'.held = up.held /\ up'.labels = up.labels /\ up'.ended = TRUE /\ up'.broken = up.broken
    BY <1>1, <2>1 DEF UpFields
  <2>6. Heard(n) BY <2>1, Saying
  <2>7. Past' = Past BY <1>2, <2>1, <2>5 DEF Past, Consume, Responses
  <2>8. x.k # "text" /\ ~Calling(x) /\ n <= n /\ n <= MaxCalls BY <1>1, <2>4, Shapes DEF Grounds
  <2> HIDE DEF r, n
  <2> QED BY <1>1, <1>2, <2>1, <2>3, <2>4, <2>5, <2>6, <2>7, <2>8, Stepping DEF n
<1> QED BY <1>4, <1>5, <1>6, <1>7

LEMMA ResponsesCalls ==
    ASSUME Grounds
    PROVE  /\ ResponsesAddsCall => Emitting
           /\ \A c : ResponsesSaysArgs(c) => Emitting
           /\ \A c : ResponsesEndsCall(c) => Emitting
<1> DEFINE n == Len(said.calls)
<1>1. /\ n \in Nat /\ n <= MaxCalls /\ MaxCalls \in Nat /\ up.since \in Nat
      /\ DOMAIN up = UpFields /\ up.since \in 0..n /\ up.open \subseteq 1..n
      /\ DOMAIN feed = FeedFields /\ IsSeq(feed.calls)
  BY Counts DEF Grounds
<1>2. ASSUME ResponsesSpeaks
      PROVE  Responses /\ proto # "anthropic" /\ Past = 1..up.since /\ Tells(feed, n, up.labels)
  BY <1>2 DEF ResponsesSpeaks, Speaks, Responses, Grounds, Translates, Past
<1>3. ASSUME ResponsesAddsCall PROVE Emitting
  <2> DEFINE m == n + 1
             r == ResponsesItemAdded(proto, feed, InItem(m))
             x == Announce(Len(feed.calls) + 1, InItem(m).call, <<>>)
             call == [id |-> InItem(m).call, item |-> InItem(m).item, out |-> InItem(m).out, args |-> <<>>]
  <2>1. /\ ResponsesSpeaks /\ n < MaxCalls /\ up' = [up EXCEPT !.open = @ \cup {m}]
        /\ SayCall(m, <<>>) /\ Consume(r)
    BY <1>3 DEF ResponsesAddsCall, MoreCalls
  <2>2. Responses /\ proto # "anthropic" /\ Past = 1..up.since /\ Tells(feed, n, up.labels)
    BY <1>2, <2>1
  <2>3. /\ DOMAIN up' = UpFields /\ up'.since = up.since /\ up'.open = up.open \cup {m}
        /\ up'.held = up.held /\ up'.labels = up.labels /\ up'.ended = up.ended /\ up'.broken = up.broken
    BY <1>1, <2>1 DEF UpFields
  <2>4. Heard(m) BY <2>1, Saying
  <2>5. LabelledCall(call, m, up.labels) BY DEF LabelledCall, InItem, InDelta
  <2>6. Knows(r, Append(feed.calls, call)) BY <1>1, AnnouncesKnow
  <2>7. Emits(r.out, x) /\ x.i = m /\ x.k # "text"
    <3>1. Emits(r.out, x) BY ResponsesEmits
    <3>2. Len(feed.calls) = n BY <2>2 DEF Tells
    <3> QED BY <3>1, <3>2, Shapes
  <2>8. Past' = Past BY <2>2, <2>3, <2>1 DEF Past, Consume, Responses
  <2> HIDE DEF r, x, call
  <2>9. Tells(r.s, m, up.labels) BY <1>1, <2>2, <2>5, <2>6, Telling
  <2>10. DOMAIN r.s = FeedFields /\ IsSeq(r.s.calls) BY <2>9 DEF Tells
  <2>11. /\ m \in Nat /\ n <= m /\ m <= MaxCalls /\ m \in 1..m /\ m \notin Past
         /\ up'.since \in 0..m /\ up'.open \subseteq 1..m
    BY <1>1, <2>1, <2>2, <2>3
  <2> HIDE DEF m
  <2> QED BY <2>1, <2>2, <2>3, <2>4, <2>7, <2>8, <2>9, <2>10, <2>11, Stepping DEF r
\* What the events of an open call have in common.
<1>4. ASSUME ResponsesSpeaks, NEW c \in up.open, NEW r, Consume(r), Heard(n),
             Knows(r, feed.calls) \/ Continues(r, feed, c),
             NEW v, Emits(r.out, Args(c, v)) \/ Emits(r.out, Think),
             DOMAIN up' = UpFields, up'.since = up.since, up'.open \subseteq up.open,
             up'.held = up.held, up'.labels = up.labels, up'.ended = up.ended,
             up.broken \/ c <= up.since => up'.broken
      PROVE  Emitting
  <2>1. Responses /\ proto # "anthropic" /\ Past = 1..up.since /\ Tells(feed, n, up.labels)
    BY <1>2, <1>4
  <2>2. Past' = Past BY <1>4, <2>1 DEF Past, Consume, Responses
  <2>3. c \in 1..n BY <1>1, <1>4
  <2>4. Tells(r.s, n, up.labels) BY <1>1, <1>4, <2>1, <2>3, Telling
  <2>5. DOMAIN r.s = FeedFields /\ IsSeq(r.s.calls) BY <2>4 DEF Tells
  <2>6. PICK x : Emits(r.out, x) /\ x.k # "text" /\ (Calling(x) => x.i = c) BY <1>4, Shapes
  <2>7. c \in Past => up'.broken BY <1>1, <1>4, <2>1, <2>3
  <2>8. n <= n /\ n <= MaxCalls /\ up'.since \in 0..n /\ up'.open \subseteq 1..n /\ (up.broken => up'.broken)
    BY <1>1, <1>4
  <2> HIDE DEF n
  <2> QED BY <1>1, <1>4, <2>1, <2>2, <2>3, <2>4, <2>5, <2>6, <2>7, <2>8, Stepping DEF n
<1>5. ASSUME NEW c, ResponsesSaysArgs(c) PROVE Emitting
  <2> DEFINE r == ResponsesArgs(proto, feed, InDelta(c), Piece)
             i == FindTool(proto, feed, InDelta(c))
  <2>1. /\ ResponsesSpeaks /\ c \in up.open /\ ArgsPiece(c, up.open) /\ SayArgs(c) /\ Consume(r)
    BY <1>5 DEF ResponsesSaysArgs
  <2>2. c \in 1..n /\ Heard(n) BY <1>1, <2>1, Saying
  <2>3. i \in {0, c}
    <3>1. IsSeq(feed.calls) /\ Labelled(feed.calls, up.labels) /\ c \in 1..Len(feed.calls)
      BY <1>2, <2>1, <2>2 DEF Tells
    <3> DEFINE ev == InDelta(c)
    <3>2. /\ ev.call \in {None, c} /\ ev.item = (IF "item" \in up.labels THEN c ELSE None)
          /\ ev.out = (IF "out" \in up.labels THEN c ELSE None)
      BY DEF InDelta
    <3> HIDE DEF ev
    <3>3. FindTool(proto, feed, ev) \in {0, c} BY <3>1, <3>2, Finds
    <3> QED BY <3>3 DEF ev
  <2>4. IF i = 0 THEN Knows(r, feed.calls) ELSE Continues(r, feed, i) BY <1>1, ArgsKnow
  <2>5. Emits(r.out, Args(i, Piece)) BY ResponsesEmits
  <2>6. i = 0 => Emits(r.out, Think) BY EventEmits DEF ResponsesArgs, Ignored
  <2>7. up' = [up EXCEPT !.pieces = @ + 1, !.open = up.open, !.broken = @ \/ c <= up.since]
    BY <2>1 DEF ArgsPiece
  <2>8. /\ DOMAIN up' = UpFields /\ up'.since = up.since /\ up'.open = up.open
        /\ up'.held = up.held /\ up'.labels = up.labels /\ up'.ended = up.ended
        /\ up.broken \/ c <= up.since => up'.broken
    BY <1>1, <2>7 DEF UpFields
  <2> HIDE DEF r, i
  <2> QED BY <1>4, <2>1, <2>2, <2>3, <2>4, <2>5, <2>6, <2>8 DEF r
<1>6. ASSUME NEW c, ResponsesEndsCall(c) PROVE Emitting
  <2> DEFINE i == FindTool(proto, feed, InItem(c))
             r(v) == ResponsesCallDone(proto, feed, InItem(c), v)
  <2>1. ResponsesSpeaks /\ c \in up.open /\ c \in 1..n /\ c # 0 BY <1>1, <1>6 DEF ResponsesEndsCall
  <2>2. i = c
    <3>1. IsSeq(feed.calls) /\ Labelled(feed.calls, up.labels) /\ c \in 1..Len(feed.calls)
      BY <1>2, <2>1 DEF Tells
    <3> DEFINE ev == InItem(c)
    <3>2. /\ ev.call = c /\ ev.item = (IF "item" \in up.labels THEN c ELSE None)
          /\ ev.out = (IF "out" \in up.labels THEN c ELSE None)
      BY DEF InItem, InDelta
    <3> HIDE DEF ev
    <3>3. FindTool(proto, feed, ev) = c BY <3>1, <3>2, Finds
    <3> QED BY <3>3 DEF ev
  <2>3. \A v : Knows(r(v), feed.calls) \/ Continues(r(v), feed, c) BY <1>1, <2>1, <2>2, ArgsKnow
  <2>4. \A v : Emits(r(v).out, Args(c, v)) BY <2>1, <2>2, ResponsesEmits
  <2> DEFINE Ending(v) ==
               /\ up' \in {[up EXCEPT !.open = @ \ {c}, !.broken = @ \/ c <= up.since],
                          [up EXCEPT !.pieces = @ + 1, !.open = up.open \ {c}, !.broken = @ \/ c <= up.since]}
               /\ UNCHANGED said \/ SayArgs(c)
               /\ Consume(r(v))
  <2>5. \E v : Ending(v) BY <1>6 DEF ResponsesEndsCall, ArgsPiece
  <2> HIDE DEF r, Ending
  <2>6. PICK v : Ending(v) BY <2>5
  <2>7. Heard(n) BY <2>1, <2>6, Saying DEF Ending
  <2>8. /\ DOMAIN up' = UpFields /\ up'.since = up.since /\ up'.open \subseteq up.open
        /\ up'.held = up.held /\ up'.labels = up.labels /\ up'.ended = up.ended
        /\ up.broken \/ c <= up.since => up'.broken
    BY <1>1, <2>6 DEF UpFields, Ending
  <2>9. /\ Knows(r(v), feed.calls) \/ Continues(r(v), feed, c)
        /\ Emits(r(v).out, Args(c, v)) /\ Consume(r(v))
    BY <2>3, <2>4, <2>6 DEF Ending
  <2> QED BY <1>4, <2>1, <2>7, <2>8, <2>9
<1> QED BY <1>3, <1>5, <1>6

LEMMA GeminiSpeaks ==
    ASSUME Grounds, NEW text, NEW thought, NEW calls \in 0..1, NEW reason,
           GeminiSays(text, thought, calls, reason)
    PROVE  Emitting
<1> DEFINE n == Len(said.calls)
           m == n + calls
           f == [text |-> IF text THEN Piece ELSE <<>>, thought |-> thought,
                 calls |-> [j \in 1..calls |-> <<up.pieces + 1>>], reason |-> reason]
           more == [j \in 1..calls |-> [id |-> Len(said.calls) + j, args |-> Piece]]
           all == said.calls \o more
           r == GeminiFrame(feed, f)
           ended == reason # None
           pieces == IF text \/ calls > 0 THEN up.pieces + 1 ELSE up.pieces
<1>1. /\ n \in Nat /\ calls \in Nat /\ DOMAIN up = UpFields /\ up.since \in 0..n /\ up.open \subseteq 1..n
      /\ DOMAIN feed = FeedFields /\ IsSeq(feed.calls) /\ IsSeq(said.calls)
  BY Counts DEF Grounds
<1>2. /\ phase = "reading" /\ proto = "gemini" /\ ~up.ended /\ ~up.held /\ Tells(feed, n, up.labels)
  BY DEF GeminiSays, Speaks, Grounds, Translates
<1>3. /\ Len(all) <= MaxCalls /\ Consume(r)
      /\ up' = [up EXCEPT !.pieces = pieces, !.ended = ended]
      /\ DOMAIN said' = SaidFields /\ said'.calls = all
  BY DEF GeminiSays, SaidFields
<1>4. IsSeq(all) /\ Len(all) = m
  <2>1. IsSeq(more) /\ Len(more) = calls
    <3> HIDE DEF n
    <3> QED BY <1>1, IsList
  <2> HIDE DEF more
  <2>2. PICK S, T : said.calls \in Seq(S) /\ more \in Seq(T) BY <1>1, <2>1 DEF IsSeq
  <2>3. said.calls \in Seq(S \cup T) /\ more \in Seq(S \cup T) BY <2>2
  <2>4. Len(all) = Len(said.calls) + Len(more) BY <2>3
  <2>5. IsSeq(all) BY <1>1, <2>1, Lists
  <2> QED BY <2>1, <2>4, <2>5
<1>5. IsSeq(f.calls) /\ Len(f.calls) = calls
  <2> DEFINE cs == [j \in 1..calls |-> <<up.pieces + 1>>]
  <2>1. cs = [j \in 1..calls |-> cs[j]] OBVIOUS
  <2> HIDE DEF cs
  <2>2. IsSeq(cs) /\ Len(cs) = calls BY <1>1, <2>1, IsList
  <2> QED BY <2>2 DEF cs
<1>6. Len(feed.calls) = n BY <1>2 DEF Tells
<1> HIDE DEF f
<1>7. /\ Fits(r.out, n, m, 1..n) /\ ~Strays(r.out, 1..n)
      /\ DOMAIN r.s = FeedFields /\ IsSeq(r.s.calls) /\ Len(r.s.calls) = m
  BY <1>1, <1>5, <1>6, GeminiFits
<1> HIDE DEF all, r, ended, pieces
<1>8. /\ DOMAIN up' = UpFields /\ up'.block = up.block /\ up'.since = up.since /\ up'.open = up.open
      /\ up'.held = up.held /\ up'.labels = up.labels /\ up'.broken = up.broken
  BY <1>1, <1>3 DEF UpFields
<1>9. feed' = r.s /\ proto' = proto BY <1>3 DEF Consume
<1>10. Len(said'.calls) = m /\ m \in Nat /\ n <= m /\ m <= MaxCalls BY <1>1, <1>3, <1>4
<1>11. Past = 1..n /\ Past' = 1..m /\ 1..n \subseteq 1..m BY <1>2, <1>9, <1>10, <1>1 DEF Past
<1>12. Grounds'
  <2>1. up'.since \in 0..m /\ up'.open \subseteq 1..m BY <1>1, <1>8, <1>10
  <2>2. Tells(r.s, m, up'.labels) BY <1>2, <1>7 DEF Tells, Responses
  <2> HIDE DEF m, n
  <2> QED BY <1>2, <1>3, <1>4, <1>7, <1>8, <1>9, <1>10, <2>1, <2>2 DEF Grounds, Tells, Responses
<1>13. Fits(r.out, Len(said.calls), Len(said'.calls), 1..n) BY <1>7, <1>10
<1> HIDE DEF m
<1> QED BY <1>3, <1>7, <1>8, <1>10, <1>11, <1>12, <1>13 DEF Emitting

\* An OpenAI upstream writes the blocks of the client itself.
LEMMA OpenAISpeaks ==
    ASSUME Grounds, OpenAISays
    PROVE  Emitting
<1> DEFINE n == Len(said.calls)
<1>1. /\ n \in Nat /\ n <= MaxCalls /\ MaxCalls \in Nat /\ up.since \in Nat /\ DOMAIN said.calls = 1..n
      /\ DOMAIN up = UpFields /\ up.since \in 0..n /\ up.open \subseteq 1..n
      /\ DOMAIN feed = FeedFields /\ IsSeq(feed.calls)
  BY Counts DEF Grounds
<1>2. proto \in {"openai", "proxy"} /\ ~Translates /\ Past = 1..up.since
  BY DEF OpenAISays, Speaks, Translates, Past
<1>3. \A c : Knows(PassedOn(feed, c), feed.calls) /\ Emits(PassedOn(feed, c).out, c)
  BY <1>1, EndsKnow, AnthropicEmits
<1>4. CASE TextPiece /\ SayText /\ Passes(Text(Piece))
  <2> DEFINE r == PassedOn(feed, Text(Piece))
  <2>1. up' = [up EXCEPT !.pieces = @ + 1, !.since = n] /\ Consume(r) BY <1>4 DEF TextPiece, Passes
  <2>2. /\ DOMAIN up' = UpFields /\ up'.since = n /\ up'.open = up.open
        /\ up'.held = up.held /\ up'.labels = up.labels /\ up'.ended = up.ended /\ up'.broken = up.broken
    BY <1>1, <2>1 DEF UpFields
  <2>3. Heard(n) /\ ~Calling(Text(Piece)) BY <1>4, Saying, Shapes
  <2>4. Past' = 1..n BY <1>2, <2>1, <2>2 DEF Past, Consume
  <2>5. Past \subseteq 1..n /\ up'.since \in 0..n BY <1>1, <1>2, <2>2
  <2>6. Knows(r, feed.calls) /\ Emits(r.out, Text(Piece)) BY <1>3
  <2> HIDE DEF r
  <2> QED BY <1>1, <1>2, <2>1, <2>2, <2>3, <2>4, <2>5, <2>6, SameCalls
<1>5. CASE /\ MoreCalls /\ up' = [up EXCEPT !.pieces = @ + 1]
           /\ SayCall(n + 1, <<>>) /\ Passes(Announce(n + 1, n + 1, <<>>))
  <2> DEFINE m == n + 1
             x == Announce(m, m, <<>>)
             r == PassedOn(feed, x)
  <2>1. Consume(r) /\ n < MaxCalls /\ Heard(m) BY <1>5, Saying DEF MoreCalls, Passes
  <2>2. /\ DOMAIN up' = UpFields /\ up'.since = up.since /\ up'.open = up.open
        /\ up'.held = up.held /\ up'.labels = up.labels /\ up'.ended = up.ended /\ up'.broken = up.broken
    BY <1>1, <1>5 DEF UpFields
  <2>3. Past' = Past BY <1>2, <2>1, <2>2 DEF Past, Consume
  <2>4. DOMAIN r.s = FeedFields /\ IsSeq(r.s.calls) /\ Emits(r.out, x) BY <1>1, <1>3 DEF Knows
  <2>5. x.i = m /\ x.k # "text" BY Shapes
  <2>6. /\ m \in Nat /\ n <= m /\ m <= MaxCalls /\ m \in 1..m /\ m \notin Past
        /\ up'.since \in 0..m /\ up'.open \subseteq 1..m
    BY <1>1, <1>2, <2>1, <2>2
  <2> HIDE DEF r, x, m
  <2> QED BY <1>2, <2>1, <2>2, <2>3, <2>4, <2>5, <2>6, Stepping
<1>6. ASSUME NEW c \in DOMAIN said.calls, ArgsPiece(c, {}), SayArgs(c), Passes(Args(c, Piece)) PROVE Emitting
  <2> DEFINE x == Args(c, Piece)
             r == PassedOn(feed, x)
  <2>1. /\ Consume(r) /\ c \in 1..n
        /\ up' = [up EXCEPT !.pieces = @ + 1, !.open = {}, !.broken = @ \/ c <= up.since]
    BY <1>1, <1>6 DEF Passes, ArgsPiece
  <2>2. /\ DOMAIN up' = UpFields /\ up'.since = up.since /\ up'.open = {}
        /\ up'.held = up.held /\ up'.labels = up.labels /\ up'.ended = up.ended
        /\ up.broken \/ c <= up.since => up'.broken
    BY <1>1, <2>1 DEF UpFields
  <2>3. Heard(n) BY <1>6, <2>1, Saying
  <2>4. Past' = Past BY <1>2, <2>1, <2>2 DEF Past, Consume
  <2>5. Knows(r, feed.calls) /\ Emits(r.out, x) /\ x.i = c /\ x.k # "text" BY <1>3, Shapes
  <2>6. c \in Past => up'.broken BY <1>1, <1>2, <2>2
  <2> HIDE DEF r, x
  <2> QED BY <1>1, <1>2, <2>1, <2>2, <2>3, <2>4, <2>5, <2>6, SameCalls
<1>7. ASSUME up' = [up EXCEPT !.ended = TRUE], SayEnd(FALSE), NEW reason, Passes(Finish(reason)) PROVE Emitting
  <2> DEFINE x == Finish(reason)
             r == PassedOn(feed, x)
  <2>1. Consume(r) /\ Heard(n) BY <1>7, Saying DEF Passes
  <2>2. /\ DOMAIN up' = UpFields /\ up'.since = up.since /\ up'.open = up.open
        /\ up'.held = up.held /\ up'.labels = up.labels /\ up'.ended = TRUE /\ up'.broken = up.broken
    BY <1>1, <1>7 DEF UpFields
  <2>3. Past' = Past BY <1>2, <2>1, <2>2 DEF Past, Consume
  <2>4. Knows(r, feed.calls) /\ Emits(r.out, x) /\ x.k # "text" /\ ~Calling(x) BY <1>3, Shapes
  <2> HIDE DEF r, x
  <2> QED BY <1>1, <1>2, <2>1, <2>2, <2>3, <2>4, SameCalls
<1> QED BY <1>4, <1>5, <1>6, <1>7 DEF OpenAISays

\* An error event: nothing is written.
LEMMA ErrorSpeaks ==
    ASSUME Grounds, UpstreamError
    PROVE  Emitting
<1> DEFINE n == Len(said.calls)
           r == Failed(feed)
<1>1. /\ n \in Nat /\ DOMAIN up = UpFields /\ up.since \in 0..n /\ up.open \subseteq 1..n
      /\ DOMAIN feed = FeedFields /\ IsSeq(feed.calls) /\ (proto = "anthropic" /\ up.block = "call" => n > 0)
  BY Counts DEF Grounds
<1>2. Consume(r) /\ up' = up /\ said' = said BY DEF UpstreamError
<1>3. Knows(r, feed.calls) /\ Emits(r.out, Think) /\ Think.k # "text" /\ ~Calling(Think)
  BY <1>1, TextsKnow, AnthropicEmits, Shapes
<1>4. Past' = Past /\ Heard(n) BY <1>2, Saying DEF Past, Consume
<1> HIDE DEF r
<1> QED BY <1>1, <1>2, <1>3, <1>4, SameCalls

-----------------------------------------------------------------------------
(***************************************************************************)
(* The end of a message: complete only behind the stop of every block.     *)
(***************************************************************************)
LEMMA TidyTrans ==
    ASSUME NEW u, NEW v, NEW w, Tidy(u, v), Tidy(v, w)
    PROVE  Tidy(u, w)
BY DEF Tidy

LEMMA TidyEnds ==
    ASSUME NEW w, Tidy(w, w)
    PROVE  Tidy(w, Fail(w)) /\ Tidy(w, ErrorBody(w)) /\ Tidy(w, [w EXCEPT !.finishedOnce = TRUE])
<1>1. DOMAIN w = Fields /\ GoodBlocks(w.blocks) /\ (w.end = "done" => OpenBlocks(w) = {})
  BY DEF Tidy
<1>2. \A v : v.blocks = w.blocks => OpenBlocks(v) = OpenBlocks(w) BY DEF OpenBlocks
<1>3. Tidy(w, Fail(w))
  <2> DEFINE v == Fail(w)
  <2>1. DOMAIN v = Fields /\ v.api = w.api /\ v.stray = w.stray /\ v.blocks = w.blocks /\ v.end = w.end
    BY <1>1 DEF Fail, Fields
  <2> HIDE DEF v
  <2>2. Tidy(w, v) BY <1>1, <1>2, <2>1 DEF Tidy
  <2> QED BY <2>2 DEF v
<1>4. Tidy(w, ErrorBody(w))
  <2> DEFINE v == ErrorBody(w)
  <2>1. /\ DOMAIN v = Fields /\ v.api = w.api /\ v.stray = w.stray /\ v.blocks = w.blocks
        /\ v.end = IF w.end = None THEN "error" ELSE w.end
    BY <1>1 DEF ErrorBody, Ends, Fields
  <2> HIDE DEF v
  <2>2. Tidy(w, v) BY <1>1, <1>2, <2>1 DEF Tidy
  <2> QED BY <2>2 DEF v
<1>5. Tidy(w, [w EXCEPT !.finishedOnce = TRUE])
  <2> DEFINE v == [w EXCEPT !.finishedOnce = TRUE]
  <2>1. DOMAIN v = Fields /\ v.api = w.api /\ v.stray = w.stray /\ v.blocks = w.blocks /\ v.end = w.end
    BY <1>1 DEF Fields
  <2> HIDE DEF v
  <2>2. Tidy(w, v) BY <1>1, <1>2, <2>1 DEF Tidy
  <2> QED BY <2>2 DEF v
<1> QED BY <1>3, <1>4, <1>5

LEMMA TidyCloses ==
    ASSUME NEW w, Tidy(w, w)
    PROVE  Tidy(w, Ends(CloseBlocks(w), "done"))
<1> DEFINE bs == [i \in DOMAIN w.blocks |-> [w.blocks[i] EXCEPT !.open = FALSE]]
           v == Ends(CloseBlocks(w), "done")
<1>1. DOMAIN w = Fields /\ GoodBlocks(w.blocks) BY DEF Tidy
<1>2. DOMAIN v = Fields /\ v.api = w.api /\ v.stray = w.stray /\ v.blocks = bs
  <2>1. CloseBlocks(w) = [w EXCEPT !.blocks = bs] BY DEF CloseBlocks
  <2> HIDE DEF bs
  <2> QED BY <1>1, <2>1 DEF Ends, Fields
<1>3. Len(w.blocks) \in Nat /\ DOMAIN w.blocks = 1..Len(w.blocks)
  BY <1>1, LenProperties DEF GoodBlocks, IsSeq
<1>4. IsSeq(bs) /\ Len(bs) = Len(w.blocks)
  <2> DEFINE n == Len(w.blocks)
  <2>1. bs = [i \in 1..n |-> bs[i]] BY <1>3
  <2> HIDE DEF bs, n
  <2> QED BY <1>3, <2>1, IsList DEF n
<1>5. ASSUME NEW i \in 1..Len(w.blocks) PROVE DOMAIN bs[i] = BlockFields /\ bs[i].open = FALSE
  <2>1. bs[i] = [w.blocks[i] EXCEPT !.open = FALSE] /\ DOMAIN w.blocks[i] = BlockFields
    BY <1>1, <1>3 DEF GoodBlocks
  <2> HIDE DEF bs
  <2> QED BY <2>1 DEF BlockFields
<1>6. DOMAIN bs = 1..Len(w.blocks) BY <1>3
<1> HIDE DEF bs, v
<1>7. GoodBlocks(v.blocks) /\ OpenBlocks(v) = {}
  BY <1>2, <1>4, <1>5, <1>6 DEF GoodBlocks, OpenBlocks
<1>8. Tidy(w, v) BY <1>2, <1>7 DEF Tidy
<1> QED BY <1>8 DEF v

LEMMA TidyFinished ==
    ASSUME NEW w, Tidy(w, w), w.api = "messages"
    PROVE  Tidy(w, Finished(w))
<1> DEFINE once == [w EXCEPT !.finishedOnce = TRUE]
<1>1. Tidy(w, once) /\ once.api = "messages" BY TidyEnds DEF Tidy
<1>2. Finished(w) \in {w, once, ErrorBody(once), Ends(CloseBlocks(once), "done")}
  BY DEF Finished, MessagesFinished, ErrorBody
<1> HIDE DEF once
<1>3. Tidy(once, once) BY <1>1 DEF Tidy
<1>4. Tidy(once, ErrorBody(once)) /\ Tidy(once, Ends(CloseBlocks(once), "done"))
  BY <1>3, TidyEnds, TidyCloses
<1>5. Tidy(w, ErrorBody(once)) /\ Tidy(w, Ends(CloseBlocks(once), "done")) BY <1>1, <1>4, TidyTrans
<1> QED BY <1>1, <1>2, <1>5

\* However a request for a message is settled.
LEMMA TidySettles ==
    ASSUME NEW w, LiveWire(w), w.api = "messages", GoodBlocks(w.blocks)
    PROVE  Tidy(w, Finished(w)) /\ Tidy(w, Broken(w)) /\ Tidy(w, Answer(w))
<1>1. ASSUME NEW u, NEW v, Tidy(u, v) PROVE Tidy(v, v) /\ v.api = u.api BY <1>1 DEF Tidy
<1>2. ASSUME NEW v, Tidy(w, v)
      PROVE  Tidy(w, Finished(v)) /\ Tidy(w, ErrorBody(v)) /\ Tidy(w, Fail(v))
  BY <1>1, <1>2, TidyFinished, TidyEnds, TidyTrans
<1>3. Tidy(w, w) BY ReplyStreamAssumption DEF Tidy, LiveWire, Open
<1>4. Tidy(w, Finished(w)) /\ Tidy(w, ErrorBody(w)) /\ Tidy(w, Fail(w)) BY <1>2, <1>3
<1>5. Tidy(w, Finished(Fail(w))) /\ Tidy(w, ErrorBody(Finished(w))) BY <1>2, <1>4
<1>6. Tidy(w, Finished(Finished(Fail(w)))) BY <1>2, <1>5
<1>7. Broken(w) \in {Finished(Fail(w)), Finished(Finished(Fail(w)))} BY DEF Broken
<1>8. Answer(w) \in {Finished(Fail(w)), ErrorBody(w), ErrorBody(Finished(w))} BY DEF Answer
<1> QED BY <1>4, <1>5, <1>6, <1>7, <1>8

LEMMA BInit ==
    Init => BInv
<1> SUFFICES ASSUME Init PROVE BInv OBVIOUS
<1>1. PICK api \in Apis, direct \in BOOLEAN, stream \in BOOLEAN :
        wire \in {Begin(NewWire(api, direct, stream)), NewWire(api, direct, stream)}
  BY DEF Init
<1>2. /\ wire.blocks = <<>> /\ wire.stray = FALSE /\ wire.committed = FALSE /\ wire.end = None
      /\ wire.slots = [i \in 1..MaxCalls |-> 0]
  <2> DEFINE w == NewWire(api, direct, stream)
  <2>1. /\ w.blocks = <<>> /\ w.stray = FALSE /\ w.committed = FALSE /\ w.end = None
        /\ w.slots = [i \in 1..MaxCalls |-> 0] /\ DOMAIN w = Fields
    BY DEF NewWire, Fields
  <2> HIDE DEF w
  <2>2. wire = w \/ wire = [[w EXCEPT !.after = @ \/ w.end # None] EXCEPT !.began = TRUE]
    BY <1>1 DEF Begin, Writes, w
  <2> QED BY <2>1, <2>2 DEF Fields
<1>3. GoodBlocks(<<>>) /\ Len(<<>>) = 0 BY Lists DEF GoodBlocks
<1>4. Shape(wire, MaxCalls, {})
  <2>1. DOMAIN wire.slots = 1..MaxCalls /\ \A i \in 1..MaxCalls : wire.slots[i] = 0 BY <1>2
  <2>2. GoodBlocks(wire.blocks) /\ Len(wire.blocks) = 0 /\ 0 \in 0..0 BY <1>2, <1>3
  <2> QED BY <1>2, <2>1, <2>2 DEF Shape
<1>5. phase = "next" /\ wire.end # "done" BY <1>2, ReplyStreamAssumption DEF Init
<1> QED BY <1>2, <1>4, <1>5 DEF BInv, MessageBlocks

LEMMA DispatchBlocks ==
    ASSUME RInv, BInv, NEW p, NEW labels, Dispatch(p, labels)
    PROVE  BInv'
<1>1. /\ phase = "next" /\ phase' = "reading" /\ proto' = p
      /\ up' = Idle(labels) /\ said' = Nothing /\ feed' = NewFeed
      /\ wire' \in {NextAttempt(wire), Headers(NextAttempt(wire))}
  BY DEF Dispatch
<1>2. /\ DOMAIN up' = UpFields /\ up'.since = 0 /\ up'.open = {} /\ up'.held = FALSE
      /\ up'.block = None /\ up'.labels = labels /\ up'.broken = FALSE
  BY <1>1 DEF Idle, UpFields
<1>3. DOMAIN said' = SaidFields /\ said'.calls = <<>> /\ DOMAIN feed' = FeedFields /\ feed'.calls = <<>>
  BY <1>1 DEF Nothing, SaidFields, NewFeed, FeedFields
<1>4. IsSeq(<<>>) /\ Len(<<>>) = 0 /\ MaxCalls \in Nat /\ None # "call"
  BY Lists, ReplyStreamAssumption
<1>5. Len(said'.calls) = 0 BY <1>3, <1>4
<1>6. Grounds' BY <1>4, <1>5, <1>2, <1>3 DEF Labelled, Grounds, Tells
<1>7. LiveWire(wire) BY <1>1 DEF RInv, Trying
<1>8. /\ wire'.api = wire.api /\ wire'.blocks = wire.blocks /\ wire'.slots = wire.slots
      /\ wire'.stray = wire.stray /\ wire'.end = None
      /\ wire.api = "messages" => (wire'.committed <=> wire.committed)
  BY <1>1, <1>7 DEF NextAttempt, Headers, LiveWire, Open, Fields
<1>9. ASSUME wire.api = "messages" PROVE MessageBlocks'
  BY <1>1, <1>9, <1>4, <1>8, <1>5, ReplyStreamAssumption DEF BInv, MessageBlocks, Shape
<1> QED BY <1>6, <1>8, <1>9 DEF BInv

\* The writer takes what the translator made of an event.
LEMMA EmittingBlocks ==
    ASSUME RInv, BInv, Emitting
    PROVE  BInv'
<1> DEFINE n == Len(said.calls)
           m == Len(said'.calls)
<1>1. PICK r, R : /\ Consume(r) /\ Past \subseteq R /\ R \subseteq Past'
                  /\ Fits(r.out, n, m, R) /\ (Strays(r.out, R) => up'.broken)
  BY DEF Emitting
<1>2. Grounds' /\ m \in Nat /\ n <= m /\ (up.broken => up'.broken) BY DEF Emitting
<1>3. /\ phase = "reading" /\ phase' = "reading"
      /\ wire' = IF wire.stream THEN WriteAll(wire, r.out) ELSE wire
  BY <1>1 DEF Consume
<1>4. LiveWire(wire) /\ Open(wire) BY <1>3 DEF RInv, Trying, LiveWire
<1>5. Grounds /\ n \in Nat /\ m <= MaxCalls BY <1>2, <1>3, Counts DEF BInv, Grounds
<1>6. Open(wire') /\ wire'.api = wire.api /\ wire'.stream = wire.stream /\ (wire.committed => wire'.committed)
  BY <1>1, <1>4, WriteAllProgress, <1>3 DEF Fits, Progress
<1>7. ASSUME wire.api = "messages" PROVE MessageBlocks'
  <2>1. Shape(wire, n, Past) /\ (wire.stray => up.broken) /\ (~wire.stream => ~wire.committed)
    BY <1>3, <1>7 DEF BInv, MessageBlocks
  <2> HIDE DEF n, m
  <2>2. Shape(wire, n, R) BY <1>1, <1>5, <2>1, ShapeWidens
  <2>3. Shape(wire', m, R) /\ (wire'.stray => wire.stray \/ Strays(r.out, R))
    <3>1. CASE wire.stream BY <1>1, <1>2, <1>3, <1>4, <1>5, <1>7, <2>2, <3>1, WriteAllShape
    <3>2. CASE ~wire.stream BY <1>2, <1>3, <1>5, <2>2, <3>2, ShapeWidens
    <3> QED BY <3>1, <3>2
  <2>4. Shape(wire', m, Past') BY <1>1, <1>2, <2>3, ShapeWidens
  <2>5. wire'.stray => up'.broken BY <1>1, <1>2, <2>1, <2>3
  <2>6. ~wire'.stream => ~wire'.committed BY <1>3, <1>6, <2>1
  <2>7. wire'.end # "done" BY <1>6, ReplyStreamAssumption DEF Open
  <2> QED BY <1>3, <2>4, <2>5, <2>6, <2>7 DEF MessageBlocks, m
<1> QED BY <1>2, <1>6, <1>7 DEF BInv

\* An upstream that holds its output back writes nothing.
LEMMA HoldsBlocks ==
    ASSUME RInv, BInv, NEW call, ResponsesHolds(call)
    PROVE  BInv'
<1> DEFINE n == Len(said.calls)
           m == IF call THEN n + 1 ELSE n
<1>1. /\ phase = "reading" /\ phase' = phase /\ proto = "responses" /\ proto' = proto
      /\ feed' = feed /\ wire' = wire /\ up' = [up EXCEPT !.pieces = @ + 1, !.held = TRUE]
  BY DEF ResponsesHolds, Speaks
<1>2. Grounds BY <1>1 DEF BInv
<1>3. n \in Nat /\ MaxCalls \in Nat /\ up.since \in Nat BY <1>2, Counts
<1>4. /\ DOMAIN up' = UpFields /\ up'.since = up.since /\ up'.open = up.open
      /\ up'.held = TRUE /\ up'.broken = up.broken
  BY <1>1, <1>2 DEF Grounds, UpFields
<1>5. Heard(m) /\ m \in Nat /\ n <= m /\ m <= MaxCalls
  <2>1. CASE call BY <2>1, <1>2, <1>3, Saying DEF ResponsesHolds, MoreCalls
  <2>2. CASE ~call BY <1>2, <2>2, <1>3, Saying DEF ResponsesHolds, Grounds
  <2> QED BY <2>1, <2>2
<1>6. Past = 1..up.since /\ Past' = 1..up.since BY <1>1, <1>4 DEF Past
<1>7. Grounds'
  <2>1. up'.since \in 0..m /\ up'.open \subseteq 1..m BY <1>2, <1>3, <1>4, <1>5 DEF Grounds
  <2>2. Len(said'.calls) = m /\ IsSeq(said'.calls) /\ DOMAIN said' = SaidFields BY <1>5 DEF Heard
  <2>3. DOMAIN feed = FeedFields /\ IsSeq(feed.calls) BY <1>2 DEF Grounds
  <2> HIDE DEF m
  <2> QED BY <1>1, <1>4, <1>5, <2>1, <2>2, <2>3 DEF Grounds
<1>8. ASSUME wire.api = "messages" PROVE MessageBlocks'
  <2>1. /\ Shape(wire, n, Past) /\ (wire.stray => up.broken) /\ (~wire.stream => ~wire.committed)
        /\ (wire.end = "done" => OpenBlocks(wire) = {})
    BY <1>1, <1>8 DEF BInv, MessageBlocks
  <2> HIDE DEF n, m
  <2>2. Shape(wire, m, Past') BY <1>3, <1>5, <1>6, <2>1, ShapeWidens DEF n
  <2>3. Len(said'.calls) = m BY <1>5 DEF Heard
  <2> QED BY <1>1, <1>4, <2>1, <2>2, <2>3 DEF MessageBlocks, OpenBlocks
<1> QED BY <1>1, <1>7, <1>8 DEF BInv

\* A collected reply: its blocks are whole.
LEMMA CollectBlocks ==
    ASSUME NEW w, DOMAIN w = Fields, NEW Q, Shape(w, MaxCalls, Q), ~w.committed, NEW m, IsSeq(m.calls), NEW reason
    PROVE  LET v == Collect(w, m, reason)
           IN  Shape(v, MaxCalls, Q) /\ v.api = w.api /\ v.stray = w.stray /\ v.end = w.end
<1> DEFINE v == Collect(w, m, reason)
           first == [kind |-> "text", id |-> None, v |-> m.text, open |-> FALSE]
           rest == [i \in DOMAIN m.calls |->
                      [kind |-> "tool", id |-> m.calls[i].id, v |-> m.calls[i].args, open |-> FALSE]]
           bs == <<first>> \o rest
<1>1. CASE v = w BY <1>1
<1>2. CASE v # w
  <2>1. v = [w EXCEPT !.committed = TRUE, !.upstreamDone = TRUE, !.stop = reason, !.blocks = bs]
    BY <1>2 DEF Collect
  <2>2. Len(m.calls) \in Nat /\ DOMAIN m.calls = 1..Len(m.calls) BY LenProperties DEF IsSeq
  <2>3. IsSeq(rest) /\ Len(rest) = Len(m.calls)
    <3> DEFINE n == Len(m.calls)
    <3>1. rest = [i \in 1..n |-> rest[i]] BY <2>2
    <3> HIDE DEF rest, n
    <3> QED BY <2>2, <3>1, IsList DEF n
  <2>4. DOMAIN first = BlockFields /\ first.open \in BOOLEAN BY DEF BlockFields
  <2>5. ASSUME NEW i \in 1..Len(m.calls) PROVE DOMAIN rest[i] = BlockFields /\ rest[i].open \in BOOLEAN
    <3>1. rest[i] = [kind |-> "tool", id |-> m.calls[i].id, v |-> m.calls[i].args, open |-> FALSE]
      BY <2>2
    <3> HIDE DEF rest
    <3> QED BY <3>1 DEF BlockFields
  <2> HIDE DEF first, rest
  <2>6. PICK S : rest \in Seq(S) BY <2>3 DEF IsSeq
  <2>7. rest \in Seq(S \cup {first}) /\ <<first>> \in Seq(S \cup {first}) BY <2>6
  <2>8. /\ bs \in Seq(S \cup {first}) /\ Len(bs) = 1 + Len(rest)
        /\ \A k \in 1..Len(bs) : bs[k] = IF k <= 1 THEN <<first>>[k] ELSE rest[k - 1]
    BY <2>7, ConcatProperties, LenProperties
  <2> HIDE DEF bs
  <2>9. ASSUME NEW k \in 1..Len(bs) PROVE DOMAIN bs[k] = BlockFields /\ bs[k].open \in BOOLEAN
    <3>1. CASE k = 1 BY <2>4, <2>8, <3>1
    <3>2. CASE k # 1
      <4>1. k - 1 \in 1..Len(m.calls) /\ bs[k] = rest[k - 1] BY <2>2, <2>3, <2>8, <3>2
      <4> QED BY <2>5, <4>1
    <3> QED BY <3>1, <3>2
  <2>10. GoodBlocks(bs) BY <2>8, <2>9 DEF GoodBlocks, IsSeq
  <2>11. /\ v.blocks = bs /\ v.slots = w.slots /\ v.stray = w.stray /\ v.committed
         /\ v.api = w.api /\ v.end = w.end
    BY <2>1 DEF Fields
  <2>12. Len(w.blocks) = 0 /\ Len(bs) \in Nat BY <2>2, <2>3, <2>8 DEF Shape
  <2>13. \A i \in 1..MaxCalls : w.slots[i] = 0 BY <2>12 DEF Shape
  <2> HIDE DEF v
  <2>14. Shape(v, MaxCalls, Q) BY <2>10, <2>11, <2>12, <2>13 DEF Shape
  <2> QED BY <2>11, <2>14 DEF v
<1> QED BY <1>1, <1>2

\* The provider returns.
LEMMA ReturnBlocks ==
    ASSUME RInv, BInv
    PROVE  /\ \A whole : OpenAICuts(whole) => BInv'
           /\ \A text, calls : calls \in Nat /\ Collects(text, calls) => BInv'
           /\ BodyEnds => BInv'
           /\ BodyBreaks => BInv'
<1>1. ASSUME phase = "reading"
      PROVE  /\ LiveWire(wire) /\ Open(wire) /\ DOMAIN wire = Fields /\ wire.end = None /\ Grounds
             /\ MaxCalls \in Nat
  BY <1>1, Counts DEF RInv, Trying, BInv, Grounds, LiveWire, Open
<1>2. ASSUME phase = "reading", wire.api = "messages"
      PROVE  /\ Shape(wire, MaxCalls, Past) /\ (wire.stray => up.broken)
             /\ ~wire.stream => ~wire.committed
  <2>1. Grounds /\ MessageBlocks BY <1>2 DEF BInv
  <2>2. MaxCalls \in Nat /\ Len(said.calls) \in Nat /\ Len(said.calls) <= MaxCalls
    BY <2>1, Counts DEF Grounds
  <2>3. Shape(wire, Len(said.calls), Past) BY <1>2, <2>1 DEF MessageBlocks
  <2> DEFINE n == Len(said.calls)
  <2> HIDE DEF n
  <2>4. Shape(wire, MaxCalls, Past) BY <2>2, <2>3, ShapeWidens DEF n
  <2> QED BY <1>2, <2>1, <2>4 DEF MessageBlocks
<1>3. ASSUME phase' = "returned", up' = up, wire'.api = wire.api, wire'.end = None,
             wire.api = "messages" => (wire'.stray => up.broken),
             wire.api = "messages" => \E Q : Shape(wire', MaxCalls, Q)
      PROVE  BInv'
  BY <1>3, ReplyStreamAssumption DEF BInv, MessageBlocks
<1>4. ASSUME phase = "reading", phase' = "returned", up' = up, wire' = wire PROVE BInv'
  BY <1>1, <1>4, <1>2, <1>3
<1>5. ASSUME NEW whole, OpenAICuts(whole) PROVE BInv'
  <2>1. phase = "reading" /\ wire.stream /\ phase' = "returned" /\ up' = up
    BY <1>5 DEF OpenAICuts, Speaks
  <2>2. PICK c : wire' = WriteCut(wire, c) BY <1>5 DEF OpenAICuts
  <2>3. wire'.api = wire.api /\ wire'.end = None
    <3>1. CASE wire.api # "chat" BY <1>1, <2>1, <2>2, <3>1 DEF WriteCut, Fields
    <3>2. CASE wire.api = "chat"
      <4>1. wire' \in {wire, ReadChat(wire, c)} BY <2>2, <3>2 DEF WriteCut
      <4>2. Same(wire, wire) /\ Same(wire, ReadChat(wire, c)) BY <1>1, <2>1, OpenStays, ReadChatSame
      <4> QED BY <4>1, <4>2 DEF Same, Open
    <3> QED BY <3>1, <3>2
  <2>4. ASSUME wire.api = "messages" PROVE (wire'.stray => up.broken) /\ \E Q : Shape(wire', MaxCalls, Q)
    BY <1>1, <2>1, <2>2, <2>4, <1>2 DEF WriteCut, Fields, Shape
  <2> QED BY <1>3, <2>1, <2>3, <2>4
\* A reply is collected.
<1>6. ASSUME phase = "reading", phase' = "returned", up' = up, ~wire.stream,
             NEW m, IsSeq(m.calls), NEW reason, wire' = Collect(wire, m, reason)
      PROVE  BInv'
  <2>1. ASSUME wire.api = "messages" PROVE (wire'.stray => up.broken) /\ \E Q : Shape(wire', MaxCalls, Q)
    BY <1>1, <1>6, <1>2, <2>1, CollectBlocks
  <2>2. wire'.api = wire.api /\ wire'.end = None
    <3> DEFINE bs == <<[kind |-> "text", id |-> None, v |-> m.text, open |-> FALSE]>> \o
                     [i \in DOMAIN m.calls |->
                        [kind |-> "tool", id |-> m.calls[i].id, v |-> m.calls[i].args, open |-> FALSE]]
    <3>1. \/ wire' = wire
          \/ wire' = [wire EXCEPT !.committed = TRUE, !.upstreamDone = TRUE, !.stop = reason, !.blocks = bs]
      BY <1>6 DEF Collect
    <3> HIDE DEF bs
    <3> QED BY <1>1, <1>6, <3>1 DEF Fields
  <2> QED BY <1>3, <1>6, <2>1, <2>2
<1>7. ASSUME NEW text, NEW calls \in Nat, Collects(text, calls) PROVE BInv'
  <2> DEFINE cs == [c \in 1..calls |-> [id |-> c, args |-> <<c>>]]
             m == [text |-> IF text THEN <<1>> ELSE <<>>, calls |-> cs]
             reason == IF calls > 0 THEN "tool_calls" ELSE "stop"
  <2>1. /\ phase = "reading" /\ phase' = "returned" /\ up' = up /\ ~wire.stream
        /\ wire' = Collect(wire, m, reason)
    BY <1>7 DEF Collects, Speaks
  <2>2. IsSeq(m.calls)
    <3>1. cs = [c \in 1..calls |-> cs[c]] OBVIOUS
    <3> HIDE DEF cs
    <3>2. IsSeq(cs) BY <3>1, IsList
    <3> QED BY <3>2
  <2> HIDE DEF m, reason
  <2> QED BY <1>6, <2>1, <2>2
<1>8. ASSUME BodyEnds PROVE BInv'
  <2>1. phase = "reading" /\ phase' = "returned" /\ up' = up BY <1>8 DEF BodyEnds
  <2>2. CASE ~ok' BY <1>8, <2>2, <1>4, <2>1 DEF BodyEnds
  <2>3. CASE ok' /\ wire.stream
    <3> DEFINE out == Closing(proto, feed)
    <3>1. wire' = WriteAll(wire, out) BY <1>8, <2>3 DEF BodyEnds
    <3>2. PICK x : Quiet(x) /\ Emits(out, x) BY Shapes, ListEmits DEF Closing
    <3> HIDE DEF out
    <3>3. Fits(out, MaxCalls, MaxCalls, Past) /\ ~Strays(out, Past) BY <3>2, Shapes, EmitsFits
    <3>4. ASSUME wire.api = "messages" PROVE Shape(wire', MaxCalls, Past) /\ (wire'.stray => wire.stray)
      BY <1>1, <2>1, <1>2, <3>4, <3>3, WriteAllShape, <3>1
    <3>5. Progress(wire, wire') BY <3>2, <1>1, <2>1, <3>1, WriteAllProgress DEF Emits
    <3>6. wire'.api = wire.api /\ wire'.end = None BY <3>5 DEF Progress, Open
    <3>7. wire.api = "messages" => (wire'.stray => up.broken) BY <1>2, <2>1, <3>4
    <3>8. wire.api = "messages" => \E Q : Shape(wire', MaxCalls, Q) BY <3>4
    <3> QED BY <1>3, <2>1, <3>6, <3>7, <3>8
  <2>4. CASE ok' /\ ~wire.stream
    <3> DEFINE m == Collected(feed)
               cs == [i \in DOMAIN feed.calls |-> [id |-> feed.calls[i].id, args |-> feed.calls[i].args]]
    <3>1. PICK reason : wire' = Collect(wire, m, reason) BY <1>8, <2>4 DEF BodyEnds
    <3>2. m.calls = cs BY DEF Collected
    <3>3. Len(feed.calls) \in Nat /\ DOMAIN feed.calls = 1..Len(feed.calls)
      BY <1>1, <2>1, LenProperties DEF Grounds, IsSeq
    <3>4. IsSeq(cs)
      <4> DEFINE n == Len(feed.calls)
      <4>1. cs = [i \in 1..n |-> cs[i]] BY <3>3
      <4> HIDE DEF cs, n
      <4> QED BY <3>3, <4>1, IsList DEF n
    <3> HIDE DEF m, cs
    <3> QED BY <1>6, <2>1, <2>4, <3>1, <3>2, <3>4
  <2> QED BY <2>2, <2>3, <2>4
<1>9. ASSUME BodyBreaks PROVE BInv' BY <1>9, <1>4 DEF BodyBreaks
<1> QED BY <1>5, <1>7, <1>8, <1>9

\* However a request is settled, its API is the same.
LEMMA EndsKeep ==
    ASSUME NEW w, DOMAIN w = Fields, w.api \in {"chat", "messages", "responses"}
    PROVE  Kept(w, Finished(w)) /\ Kept(w, ErrorBody(w)) /\ Kept(w, Fail(w))
<1> DEFINE once == [w EXCEPT !.finishedOnce = TRUE]
           closed == CloseBlocks(once)
<1>1. ASSUME NEW u, NEW v, Kept(w, u), Kept(u, v) PROVE Kept(w, v) BY <1>1 DEF Kept
<1>2. Kept(w, w) /\ Kept(w, once) /\ Kept(w, Fail(w)) BY MarkFacts DEF Kept
<1>3. Kept(w, closed)
  <2>1. DOMAIN once = Fields BY <1>2 DEF Kept
  <2> HIDE DEF once
  <2>2. Kept(once, closed) BY <2>1, CloseFacts
  <2> QED BY <1>1, <1>2, <2>2
<1>4. ASSUME NEW u, Kept(w, u), NEW kind PROVE Kept(w, Ends(u, kind))
  BY <1>4, EndsFacts, <1>1 DEF Kept
<1>5. Finished(w) \in {w, once, Ends(w, "error"), Ends(w, "done"), Ends(once, "error"), Ends(closed, "done")}
  BY DEF Finished, MessagesFinished, ResponsesFinished
<1> HIDE DEF once, closed
<1>6. /\ Kept(w, Ends(w, "error")) /\ Kept(w, Ends(w, "done"))
      /\ Kept(w, Ends(once, "error")) /\ Kept(w, Ends(closed, "done"))
  BY <1>2, <1>3, <1>4
<1>7. Kept(w, Finished(w)) BY <1>2, <1>5, <1>6
<1> QED BY <1>2, <1>6, <1>7 DEF ErrorBody

LEMMA SettleKeeps ==
    ASSUME NEW w, LiveWire(w)
    PROVE  Finished(w).api = w.api /\ Broken(w).api = w.api /\ Answer(w).api = w.api
<1> DEFINE Like(v) == DOMAIN v = Fields /\ v.api = w.api
<1>1. Like(w) /\ w.api \in {"chat", "messages", "responses"} BY DEF LiveWire, Open
<1>2. ASSUME NEW v, Like(v) PROVE Like(Finished(v)) /\ Like(ErrorBody(v)) /\ Like(Fail(v))
  BY <1>1, <1>2, EndsKeep DEF Kept
<1> HIDE DEF Like
<1>3. Like(Finished(w)) /\ Like(ErrorBody(w)) /\ Like(Fail(w)) BY <1>1, <1>2
<1>4. Like(Finished(Fail(w))) /\ Like(ErrorBody(Finished(w))) /\ Like(Finished(ErrorBody(w)))
  BY <1>2, <1>3
<1>5. Like(Finished(Finished(Fail(w)))) BY <1>2, <1>4
<1>6. Broken(w) \in {w, Finished(Fail(w)), Finished(Finished(Fail(w)))} BY DEF Broken
<1>7. Answer(w) \in {Finished(Fail(w)), ErrorBody(w), ErrorBody(Finished(w)), Finished(ErrorBody(w))}
  BY <1>1 DEF Answer
<1> QED BY <1>1, <1>3, <1>4, <1>5, <1>6, <1>7 DEF Like

\* The request is settled, or goes to the next target.
LEMMA SettleBlocks ==
    ASSUME RInv, BInv, Settle \/ TryNext
    PROVE  BInv'
<1>1. phase = "returned" /\ up' = up /\ LiveWire(wire) BY DEF Settle, TryNext, RInv, Trying
<1>2. ASSUME wire.api = "messages"
      PROVE  (wire.stray => up.broken) /\ \E Q : Shape(wire, MaxCalls, Q)
  BY <1>1, <1>2 DEF BInv, MessageBlocks
<1>3. CASE Settle
  <2>1. phase' = "over" /\ wire' \in {Finished(wire), Broken(wire), Answer(wire)} BY <1>3 DEF Settle
  <2>2. CASE wire.api = "messages"
    BY <1>2, <2>2, <1>1, <2>1, TidySettles DEF Shape, Tidy, BInv, MessageBlocks, OpenBlocks
  <2>3. CASE wire.api # "messages" BY <1>1, <2>1, SettleKeeps, <2>3 DEF BInv
  <2> QED BY <2>2, <2>3
<1>4. CASE TryNext
  BY <1>4, <1>1, ReplyStreamAssumption, <1>2 DEF TryNext, Verdict, LiveWire, Open, BInv,
     MessageBlocks
<1> QED BY <1>3, <1>4

\* The handler returns, or the keep-alive goroutine runs.
LEMMA OtherBlocks ==
    ASSUME BInv, Leave \/ Tick \/ Ping \/ PingStops \/ UNCHANGED vars
    PROVE  BInv'
<1>1. /\ wire' = wire /\ up' = up /\ said' = said /\ feed' = feed /\ proto' = proto
      /\ phase' = phase \/ phase' = "left"
  BY DEF Leave, Tick, Ping, PingStops, vars
<1>2. CASE phase' = phase
  BY <1>1, <1>2 DEF BInv, MessageBlocks, Grounds, Past, Translates, Tells, Responses, OpenBlocks
<1>3. CASE phase' = "left" BY <1>1, <1>3 DEF BInv, MessageBlocks, OpenBlocks
<1> QED BY <1>1, <1>2, <1>3

LEMMA BNext ==
    RInv /\ BInv /\ [Next]_vars => BInv'
<1> SUFFICES ASSUME RInv, BInv, [Next]_vars PROVE BInv' OBVIOUS
<1>1. ASSUME NEW p, NEW labels, Dispatch(p, labels) PROVE BInv' BY <1>1, DispatchBlocks
<1>2. ASSUME Upstream PROVE BInv'
  <2>1. phase = "reading"
    BY <1>2 DEF Upstream, AnthropicBlock, AnthropicDelta, AnthropicBlockStop, AnthropicMessageStop,
                AnthropicMessageDelta, ResponsesSaysText, ResponsesSaysMessage, ResponsesThinks,
                ResponsesAddsCall, ResponsesSaysArgs, ResponsesEndsCall, ResponsesHolds, ResponsesCompletes,
                ResponsesSpeaks, OpenAICuts, OpenAISays, GeminiSays, Collects, UpstreamError, BodyEnds,
                BodyBreaks, Speaks
  <2>2. Grounds BY <2>1 DEF BInv
  <2>3. Emitting => BInv' BY EmittingBlocks
  <2>4. ASSUME NEW kind, AnthropicBlock(kind) PROVE BInv' BY <2>2, <2>3, <2>4, AnthropicBlocks
  <2>5. CASE AnthropicDelta \/ AnthropicBlockStop \/ AnthropicMessageStop
    BY <2>2, <2>3, <2>5, AnthropicSpeaks
  <2>6. CASE ResponsesSaysText \/ ResponsesSaysMessage \/ ResponsesThinks
    BY <2>2, <2>3, <2>6, ResponsesTexts
  <2>7. CASE ResponsesAddsCall BY <2>2, <2>3, <2>7, ResponsesCalls
  <2>8. ASSUME NEW c, ResponsesSaysArgs(c) \/ ResponsesEndsCall(c) PROVE BInv'
    BY <2>2, <2>3, <2>8, ResponsesCalls
  <2>9. ASSUME NEW b, AnthropicMessageDelta(b) \/ ResponsesCompletes(b) PROVE BInv'
    BY <2>2, <2>3, <2>9, AnthropicSpeaks, ResponsesTexts
  <2>10. ASSUME NEW b, ResponsesHolds(b) PROVE BInv' BY <2>10, HoldsBlocks
  <2>11. ASSUME NEW b, OpenAICuts(b) PROVE BInv' BY <2>11, ReturnBlocks
  <2>12. ASSUME NEW text, NEW thought, NEW calls \in 0..1, NEW reason,
                GeminiSays(text, thought, calls, reason)
         PROVE  BInv'
    BY <2>2, <2>3, <2>12, GeminiSpeaks
  <2>13. CASE OpenAISays BY <2>2, <2>3, <2>13, OpenAISpeaks
  <2>14. ASSUME NEW text, NEW calls \in 0..MaxCalls, Collects(text, calls) PROVE BInv'
    BY ReplyStreamAssumption, <2>14, ReturnBlocks
  <2>15. CASE UpstreamError BY <2>2, <2>3, <2>15, ErrorSpeaks
  <2>16. CASE BodyEnds \/ BodyBreaks BY <2>16, ReturnBlocks
  <2> QED
    BY <1>2, <2>4, <2>5, <2>6, <2>7, <2>8, <2>9, <2>10, <2>11, <2>12, <2>13, <2>14, <2>15, <2>16 DEF Upstream
<1> QED BY <1>1, <1>2, SettleBlocks, OtherBlocks DEF Next

\* The client of /v1/messages gets each delta inside its block, unless the
\* upstream went on with a call behind a later text, and a complete message
\* leaves no block open.
THEOREM BlocksAreWellFormed ==
    Spec => []BlocksWellFormed
<1>1. BInv => BlocksWellFormed BY DEF BInv, MessageBlocks, BlocksWellFormed
<1> QED BY <1>1, RInit, RNext, BInit, BNext, PTL DEF Spec

-----------------------------------------------------------------------------
(***************************************************************************)
(* What is read in the blocks of a reply. MessageRead is a recursive       *)
(* function, so it is determined by its steps: a block that is added, goes *)
(* on or closes changes the message as Joined says.                        *)
(***************************************************************************)
LEMMA Upward ==
    ASSUME NEW N \in Nat, NEW S, 0 \in S, \A n \in 1..N : n - 1 \in S => n \in S
    PROVE  \A n \in 0..N : n \in S
<1> DEFINE Bad == {n \in 0..N : n \notin S}
<1>1. ASSUME Bad # {} PROVE FALSE
  <2>1. PICK n \in Bad : \A m \in Bad : n <= m BY <1>1, First
  <2>2. n \in 1..N /\ n - 1 \in 0..N /\ ~(n <= n - 1) BY <2>1
  <2>3. n - 1 \in S BY <2>1, <2>2
  <2> QED BY <2>1, <2>2, <2>3
<1> QED BY <1>1

LEMMA JoinedType ==
    ASSUME NEW m \in Message, NEW b \in BlockSet
    PROVE  /\ Joined(m, b) \in Message
           /\ b.kind = "text" => Joined(m, b) = [text |-> m.text \o b.v, calls |-> m.calls]
           /\ b.kind # "text" =>
                Joined(m, b) = [text |-> m.text, calls |-> Append(m.calls, [id |-> b.id, args |-> b.v])]
BY ConcatProperties, AppendProperties DEF Message, BlockSet, CallSet, Pieces, Joined

\* What a block adds to the calls that were read.
LEMMA JoinedCalls ==
    ASSUME NEW m \in Message, NEW b \in BlockSet
    PROVE  LET y == [id |-> b.id, args |-> b.v]
               k == Joined(m, b).calls
           IN  /\ Len(m.calls) \in Nat
               /\ b.kind = "text" => k = m.calls
               /\ b.kind # "text" => /\ Len(k) = Len(m.calls) + 1 /\ k[Len(m.calls) + 1] = y
                                     /\ \A j \in 1..Len(m.calls) : k[j] = m.calls[j]
<1> DEFINE y == [id |-> b.id, args |-> b.v]
<1>1. m.calls \in Seq(CallSet) /\ y \in CallSet BY DEF Message, BlockSet, CallSet
<1>2. Len(m.calls) \in Nat BY <1>1, LenProperties
<1>3. CASE b.kind = "text"
  <2>1. Joined(m, b) = [text |-> m.text \o b.v, calls |-> m.calls] BY <1>3, JoinedType
  <2> QED BY <1>2, <1>3, <2>1
<1>4. CASE b.kind # "text"
  <2>4. Joined(m, b) = [text |-> m.text, calls |-> Append(m.calls, y)] BY <1>4, JoinedType
  <2> HIDE DEF y
  <2>1. Joined(m, b).calls = Append(m.calls, y) BY <2>4
  <2>2. /\ Len(Append(m.calls, y)) = Len(m.calls) + 1 /\ Append(m.calls, y)[Len(m.calls) + 1] = y
        /\ \A j \in 1..Len(m.calls) : Append(m.calls, y)[j] = m.calls[j]
    BY <1>1, AppendProperties
  <2> QED BY <1>2, <1>4, <2>1, <2>2 DEF y
<1> QED BY <1>3, <1>4

LEMMA ReadingSteps ==
    ASSUME NEW bs, IsSeq(bs)
    PROVE  /\ MessageRead(bs) = Reading(bs)[Len(bs)]
           /\ Reading(bs)[0] = Blank
           /\ \A n \in 1..Len(bs) : Reading(bs)[n] = Joined(Reading(bs)[n - 1], bs[n])
           /\ DOMAIN Reading(bs) = 0..Len(bs)
<1> DEFINE N == Len(bs)
           Upto(f, m) == f = [n \in 0..m |-> IF n = 0 THEN Blank ELSE Joined(f[n - 1], bs[n])]
           Good == {m \in 0..N : \E f : Upto(f, m)}
<1>1. N \in Nat BY LenProperties DEF IsSeq
<1>2. MessageRead(bs) = Reading(bs)[N] BY DEF MessageRead, Reading, Reads, Joined, Blank
<1> HIDE DEF N
<1>3. 0 \in Good
  <2>1. Upto([n \in 0..0 |-> Blank], 0) OBVIOUS
  <2>2. 0 \in 0..N BY <1>1
  <2> HIDE DEF Upto
  <2> QED BY <2>1, <2>2
<1>4. ASSUME NEW m \in 1..N, m - 1 \in Good PROVE m \in Good
  <2>1. PICK g : Upto(g, m - 1) BY <1>4
  <2> DEFINE f == [n \in 0..m |-> IF n = m THEN Joined(g[m - 1], bs[m]) ELSE g[n]]
  <2>2. ASSUME NEW n \in 0..m
        PROVE  f[n] = IF n = 0 THEN Blank ELSE Joined(f[n - 1], bs[n])
    <3>1. CASE n = m BY <1>1, <3>1
    <3>2. CASE n # m BY <1>1, <3>2, <2>1
    <3> QED BY <3>1, <3>2
  <2>3. Upto(f, m) BY <2>2
  <2>4. m \in 0..N BY <1>1
  <2> QED BY <2>3, <2>4
<1>5. N \in Good
  <2> HIDE DEF Good
  <2>1. \A n \in 0..N : n \in Good BY <1>1, <1>3, <1>4, Upward
  <2> QED BY <1>1, <2>1
<1>6. Reads(Reading(bs), bs) BY <1>5 DEF Reads, N, Reading
<1>7. /\ Reading(bs)[0] = Blank
      /\ \A n \in 1..N : Reading(bs)[n] = Joined(Reading(bs)[n - 1], bs[n])
      /\ DOMAIN Reading(bs) = 0..N
  BY <1>1, <1>6 DEF Reads, N
<1> QED BY <1>2, <1>7 DEF N

LEMMA ReadingType ==
    ASSUME NEW bs \in Seq(BlockSet)
    PROVE  /\ Len(bs) \in Nat /\ IsSeq(bs)
           /\ \A n \in 0..Len(bs) : Reading(bs)[n] \in Message
           /\ MessageRead(bs) \in Message
<1>1. Len(bs) \in Nat /\ IsSeq(bs) /\ \A n \in 1..Len(bs) : bs[n] \in BlockSet
  BY LenProperties, ElementOfSeq DEF IsSeq
<1> DEFINE S == {n \in 0..Len(bs) : Reading(bs)[n] \in Message}
<1>2. Blank \in Message BY DEF Blank, Message, Pieces
<1>3. 0 \in S BY <1>1, <1>2, ReadingSteps
<1>4. ASSUME NEW n \in 1..Len(bs), n - 1 \in S PROVE n \in S BY <1>1, <1>4, ReadingSteps, JoinedType
<1>5. \A n \in 0..Len(bs) : n \in S
  <2> HIDE DEF S
  <2> QED BY <1>1, <1>3, <1>4, Upward
<1> QED BY <1>1, <1>5, ReadingSteps

\* Whatever does its steps is the reading.
LEMMA ReadingIs ==
    ASSUME NEW bs \in Seq(BlockSet), NEW g, g[0] = Blank,
           \A n \in 1..Len(bs) : g[n] = Joined(g[n - 1], bs[n])
    PROVE  /\ \A n \in 0..Len(bs) : Reading(bs)[n] = g[n]
           /\ MessageRead(bs) = g[Len(bs)]
<1> DEFINE S == {n \in 0..Len(bs) : Reading(bs)[n] = g[n]}
<1>1. Len(bs) \in Nat /\ IsSeq(bs) BY ReadingType
<1>2. 0 \in S BY <1>1, ReadingSteps
<1>3. ASSUME NEW n \in 1..Len(bs), n - 1 \in S PROVE n \in S BY <1>1, <1>3, ReadingSteps
<1>4. \A n \in 0..Len(bs) : n \in S
  <2> HIDE DEF S
  <2> QED BY <1>1, <1>2, <1>3, Upward
<1> QED BY <1>1, <1>4, ReadingSteps

LEMMA ReadingAppends ==
    ASSUME NEW bs \in Seq(BlockSet), NEW b \in BlockSet
    PROVE  LET cs == Append(bs, b)
           IN  /\ cs \in Seq(BlockSet) /\ Len(cs) = Len(bs) + 1
               /\ \A n \in 1..Len(bs) : cs[n] = bs[n]
               /\ cs[Len(bs) + 1] = b
               /\ \A n \in 0..Len(bs) : Reading(cs)[n] = Reading(bs)[n]
               /\ Reading(cs)[Len(bs) + 1] = MessageRead(cs)
               /\ MessageRead(cs) = Joined(MessageRead(bs), b)
<1> DEFINE N == Len(bs)
           cs == Append(bs, b)
           g == [n \in 0..(N + 1) |-> IF n = N + 1 THEN Joined(Reading(bs)[N], b) ELSE Reading(bs)[n]]
<1>1. N \in Nat /\ IsSeq(bs) /\ MessageRead(bs) = Reading(bs)[N] BY ReadingType, ReadingSteps
<1>2. /\ cs \in Seq(BlockSet) /\ Len(cs) = N + 1 /\ \A n \in 1..N : cs[n] = bs[n]
      /\ cs[N + 1] = b
  BY AppendProperties
<1> HIDE DEF cs
<1>3. g[0] = Blank BY <1>1, ReadingSteps
<1>4. ASSUME NEW n \in 1..Len(cs) PROVE g[n] = Joined(g[n - 1], cs[n])
  <2>1. CASE n = N + 1 BY <1>1, <1>2, <2>1
  <2>2. CASE n # N + 1 BY <1>1, <1>2, <2>2, ReadingSteps
  <2> QED BY <2>1, <2>2
<1>5. \A n \in 0..N : g[n] = Reading(bs)[n] BY <1>1
<1>6. g[N + 1] = Joined(MessageRead(bs), b) BY <1>1
<1> HIDE DEF g
<1>7. /\ \A n \in 0..(N + 1) : Reading(cs)[n] = g[n]
      /\ MessageRead(cs) = g[N + 1]
  <2> HIDE DEF N
  <2>1. /\ \A n \in 0..Len(cs) : Reading(cs)[n] = g[n]
        /\ MessageRead(cs) = g[Len(cs)]
    BY <1>2, <1>3, <1>4, ReadingIs
  <2> QED BY <1>2, <2>1
<1>8. \A n \in 0..N : Reading(cs)[n] = Reading(bs)[n] BY <1>1, <1>5, <1>7
<1>9. Reading(cs)[N + 1] = MessageRead(cs) BY <1>1, <1>7
<1> QED BY <1>2, <1>6, <1>7, <1>8, <1>9 DEF N, cs

\* Whether a block is open is no part of what is read.
LEMMA ReadingSame ==
    ASSUME NEW bs \in Seq(BlockSet), NEW cs \in Seq(BlockSet), Len(cs) = Len(bs),
           \A n \in 1..Len(bs) : cs[n].kind = bs[n].kind /\ cs[n].id = bs[n].id /\ cs[n].v = bs[n].v
    PROVE  (\A n \in 0..Len(bs) : Reading(cs)[n] = Reading(bs)[n]) /\ MessageRead(cs) = MessageRead(bs)
<1>1. IsSeq(bs) /\ Len(bs) \in Nat BY ReadingType
<1>2. ASSUME NEW n \in 1..Len(cs) PROVE Reading(bs)[n] = Joined(Reading(bs)[n - 1], cs[n])
  <2>1. Reading(bs)[n] = Joined(Reading(bs)[n - 1], bs[n]) BY <1>1, ReadingSteps
  <2>2. cs[n].kind = bs[n].kind /\ cs[n].id = bs[n].id /\ cs[n].v = bs[n].v OBVIOUS
  <2> QED BY <2>1, <2>2 DEF Joined
<1> DEFINE g == Reading(bs)
<1>3. g[0] = Blank /\ MessageRead(bs) = g[Len(cs)] BY <1>1, ReadingSteps
<1>4. \A n \in 1..Len(cs) : g[n] = Joined(g[n - 1], cs[n]) BY <1>2
<1> HIDE DEF g
<1>5. (\A n \in 0..Len(cs) : Reading(cs)[n] = g[n]) /\ MessageRead(cs) = g[Len(cs)]
  BY <1>3, <1>4, ReadingIs
<1> QED BY <1>3, <1>5 DEF g

LEMMA BlockPut ==
    ASSUME NEW bs \in Seq(BlockSet), NEW p \in 1..Len(bs), NEW v \in Pieces
    PROVE  LET cs == Longer(bs, p, v)
           IN  /\ cs \in Seq(BlockSet) /\ Len(cs) = Len(bs)
               /\ \A n \in 1..Len(bs) : n # p => cs[n] = bs[n]
               /\ cs[p] = [bs[p] EXCEPT !.v = @ \o v]
               /\ cs[p].kind = bs[p].kind /\ cs[p].id = bs[p].id /\ cs[p].open = bs[p].open
               /\ cs[p].v = bs[p].v \o v
<1> DEFINE b == [bs[p] EXCEPT !.v = bs[p].v \o v]
<1>1. bs[p] \in BlockSet BY ElementOfSeq
<1>2. bs[p].v \o v \in Pieces BY <1>1, ConcatProperties DEF BlockSet, Pieces
<1>3. b \in BlockSet /\ b.kind = bs[p].kind /\ b.id = bs[p].id /\ b.open = bs[p].open /\ b.v = bs[p].v \o v
  BY <1>1, <1>2 DEF BlockSet
<1> DEFINE cs == [bs EXCEPT ![p] = b]
<1>4. cs = Longer(bs, p, v) BY DEF Longer
<1> HIDE DEF b
<1>5. /\ cs \in Seq(BlockSet) /\ Len(cs) = Len(bs) /\ cs[p] = b
      /\ \A n \in 1..Len(bs) : n # p => cs[n] = bs[n]
  BY <1>3
<1> HIDE DEF cs
<1> QED BY <1>3, <1>4, <1>5 DEF b

\* More text in the last block.
LEMMA ReadingText ==
    ASSUME NEW bs \in Seq(BlockSet), NEW p \in 1..Len(bs), p = Len(bs), bs[p].kind = "text", NEW v \in Pieces
    PROVE  LET cs == Longer(bs, p, v)
               m == MessageRead(bs)
           IN  /\ cs \in Seq(BlockSet) /\ Len(cs) = Len(bs)
               /\ \A n \in 0..(Len(bs) - 1) : Reading(cs)[n] = Reading(bs)[n]
               /\ MessageRead(cs) = [text |-> m.text \o v, calls |-> m.calls]
<1> DEFINE N == Len(bs)
           cs == Longer(bs, p, v)
           last == Joined(Reading(bs)[N - 1], cs[N])
           g == [n \in 0..N |-> IF n = N THEN last ELSE Reading(bs)[n]]
<1>1. N \in Nat /\ IsSeq(bs) /\ MessageRead(bs) = Reading(bs)[N] /\ N - 1 \in 0..N /\ N \in 1..N
  BY ReadingType, ReadingSteps
<1>2. /\ cs \in Seq(BlockSet) /\ Len(cs) = N /\ \A n \in 1..N : n # p => cs[n] = bs[n]
      /\ cs[p].kind = bs[p].kind /\ cs[p].v = bs[p].v \o v
  BY BlockPut
<1> HIDE DEF cs
<1>3. g[0] = Blank BY <1>1, ReadingSteps
<1>4. ASSUME NEW n \in 1..Len(cs) PROVE g[n] = Joined(g[n - 1], cs[n])
  <2>1. CASE n = N BY <1>1, <1>2, <2>1
  <2>2. CASE n # N BY <1>1, <1>2, <2>2, ReadingSteps
  <2> QED BY <2>1, <2>2
<1>5. \A n \in 0..(N - 1) : g[n] = Reading(bs)[n] BY <1>1
<1>6. g[N] = last BY <1>1
<1>7. last = [text |-> MessageRead(bs).text \o v, calls |-> MessageRead(bs).calls]
  <2> DEFINE m == Reading(bs)[N - 1]
  <2>1. m \in Message /\ bs[N] \in BlockSet /\ cs[N] \in BlockSet /\ bs[N].kind = "text" /\ cs[N].kind = "text"
    BY <1>1, <1>2, ReadingType, ElementOfSeq
  <2>2. MessageRead(bs) = Joined(m, bs[N]) BY <1>1, ReadingSteps
  <2>3. MessageRead(bs) = [text |-> m.text \o bs[N].v, calls |-> m.calls] BY <2>1, <2>2, JoinedType
  <2>4. last = [text |-> m.text \o (bs[N].v \o v), calls |-> m.calls]
    BY <1>1, <1>2, <2>1, JoinedType
  <2>5. m.text \in Seq(Nat) /\ bs[N].v \in Seq(Nat) /\ v \in Seq(Nat)
    BY <2>1 DEF Message, BlockSet, Pieces
  <2>6. m.text \o (bs[N].v \o v) = (m.text \o bs[N].v) \o v
    <3> DEFINE a == m.text
               b == bs[N].v
    <3> HIDE DEF a, b, m
    <3>1. a \in Seq(Nat) /\ b \in Seq(Nat) /\ v \in Seq(Nat) BY <2>5 DEF a, b
    <3>2. (a \o b) \o v = a \o (b \o v) BY <3>1, ConcatAssociative
    <3> QED BY <3>2 DEF a, b
  <2> QED BY <2>3, <2>4, <2>6
<1> HIDE DEF g, last
<1>8. /\ \A n \in 0..N : Reading(cs)[n] = g[n]
      /\ MessageRead(cs) = g[N]
  BY <1>2, <1>3, <1>4, ReadingIs
<1>9. \A n \in 0..(N - 1) : Reading(cs)[n] = Reading(bs)[n] BY <1>1, <1>5, <1>8
<1> QED BY <1>2, <1>6, <1>7, <1>8, <1>9 DEF N, cs

LEMMA ToldFacts ==
    ASSUME NEW m \in Message, NEW r \in 1..Len(m.calls), NEW a \in Pieces
    PROVE  /\ Told(m, r, a) \in Message /\ Told(m, r, a).text = m.text
           /\ Len(Told(m, r, a).calls) = Len(m.calls)
           /\ \A j \in 1..Len(m.calls) :
                 Told(m, r, a).calls[j] = IF j = r THEN [m.calls[j] EXCEPT !.args = a] ELSE m.calls[j]
<1> DEFINE x == [m.calls[r] EXCEPT !.args = a]
           cs == [m.calls EXCEPT ![r] = x]
<1>1. m.calls \in Seq(CallSet) /\ m.text \in Pieces BY DEF Message
<1>2. m.calls[r] \in CallSet BY <1>1, ElementOfSeq
<1>3. x \in CallSet BY <1>2 DEF CallSet
<1>4. Told(m, r, a) = [m EXCEPT !.calls = cs] BY DEF Told
<1> HIDE DEF x
<1>5. cs \in Seq(CallSet) /\ Len(cs) = Len(m.calls) /\ \A j \in 1..Len(m.calls) : cs[j] = IF j = r THEN x ELSE m.calls[j]
  BY <1>1, <1>3
<1> HIDE DEF cs
<1>6. Told(m, r, a) = [text |-> m.text, calls |-> cs] BY <1>1, <1>4 DEF Message
<1> QED BY <1>1, <1>5, <1>6 DEF Message, x

LEMMA ToldJoins ==
    ASSUME NEW m \in Message, NEW r \in 1..Len(m.calls), NEW a \in Pieces, NEW b \in BlockSet
    PROVE  Joined(Told(m, r, a), b) = Told(Joined(m, b), r, a)
<1> DEFINE t == Told(m, r, a)
           y == [id |-> b.id, args |-> b.v]
<1>1. /\ t \in Message /\ t.text = m.text /\ Len(t.calls) = Len(m.calls)
      /\ \A j \in 1..Len(m.calls) : t.calls[j] = IF j = r THEN [m.calls[j] EXCEPT !.args = a] ELSE m.calls[j]
  BY ToldFacts
<1>2. /\ m.calls \in Seq(CallSet) /\ t.calls \in Seq(CallSet) /\ y \in CallSet /\ Len(m.calls) \in Nat
      /\ m.text \in Pieces
  BY <1>1, LenProperties DEF Message, BlockSet, CallSet
<1>3. CASE b.kind = "text"
  <2>1. Joined(m, b) = [text |-> m.text \o b.v, calls |-> m.calls] BY <1>3, JoinedType
  <2>2. Joined(t, b) = [text |-> m.text \o b.v, calls |-> t.calls] BY <1>1, <1>3, JoinedType
  <2>3. t.calls = [m.calls EXCEPT ![r] = [m.calls[r] EXCEPT !.args = a]] BY DEF Told, Message
  <2> HIDE DEF t
  <2> DEFINE x == m.text \o b.v
  <2> HIDE DEF x
  <2> DEFINE M == [text |-> x, calls |-> m.calls]
             C == [m.calls EXCEPT ![r] = [m.calls[r] EXCEPT !.args = a]]
  <2>5. Told(M, r, a) = [M EXCEPT !.calls = C] BY DEF Told
  <2> HIDE DEF C
  <2>4. Told(M, r, a) = [text |-> x, calls |-> t.calls] BY <2>3, <2>5 DEF C
  <2> QED BY <2>1, <2>2, <2>4 DEF t, x
<1>4. CASE b.kind # "text"
  <2> DEFINE n == Append(m.calls, y)
             k == Append(t.calls, y)
             x == [m.calls[r] EXCEPT !.args = a]
             p == [n EXCEPT ![r] = x]
  <2>1. Joined(m, b) = [text |-> m.text, calls |-> n] BY <1>4, JoinedType
  <2>2. Joined(t, b) = [text |-> m.text, calls |-> k] BY <1>1, <1>4, JoinedType
  <2> HIDE DEF t, y
  <2>3. /\ n \in Seq(CallSet) /\ Len(n) = Len(m.calls) + 1
        /\ \A j \in 1..Len(n) : n[j] = IF j = Len(m.calls) + 1 THEN y ELSE m.calls[j]
    BY <1>2, AppendProperties
  <2>4. /\ k \in Seq(CallSet) /\ Len(k) = Len(m.calls) + 1
        /\ \A j \in 1..Len(k) : k[j] = IF j = Len(m.calls) + 1 THEN y ELSE t.calls[j]
    BY <1>1, <1>2, AppendProperties
  <2>5. m.calls[r] \in CallSet BY <1>2, ElementOfSeq
  <2>6. x \in CallSet BY <2>5 DEF CallSet
  <2> HIDE DEF n, k, x
  <2>7. p \in Seq(CallSet) /\ Len(p) = Len(n) /\ \A j \in 1..Len(n) : p[j] = IF j = r THEN x ELSE n[j]
    BY <1>2, <2>3, <2>6
  <2> HIDE DEF p
  <2>8. k = p
    <3>1. ASSUME NEW j \in 1..Len(k) PROVE k[j] = p[j]
      <4>1. r # Len(m.calls) + 1 /\ (j # Len(m.calls) + 1 => j \in 1..Len(m.calls)) BY <1>2, <2>4
      <4> QED BY <1>1, <2>3, <2>4, <2>7, <4>1 DEF x
    <3> QED BY <2>3, <2>4, <2>7, <3>1, SeqEqual
  <2>9. n[r] = m.calls[r] BY <1>2, <2>3
  <2>10. Told(Joined(m, b), r, a) = [text |-> m.text, calls |-> p] BY <2>1, <2>9 DEF Told, p, x
  <2> QED BY <2>2, <2>8, <2>10 DEF t
<1> QED BY <1>3, <1>4

\* The block of a call: what is read of it, and what is when it goes on.
LEMMA CallRead ==
    ASSUME NEW bs \in Seq(BlockSet), NEW p \in 1..Len(bs), bs[p].kind # "text"
    PROVE  LET r == Len(Reading(bs)[p].calls)
           IN  /\ r \in Nat \ {0}
               /\ \A n \in p..Len(bs) : /\ r <= Len(Reading(bs)[n].calls)
                                        /\ Reading(bs)[n].calls[r] = [id |-> bs[p].id, args |-> bs[p].v]
<1> DEFINE N == Len(bs)
           R == Reading(bs)
           r == Len(R[p].calls)
           y == [id |-> bs[p].id, args |-> bs[p].v]
           S == {n \in 0..N : n >= p => r <= Len(R[n].calls) /\ R[n].calls[r] = y}
<1>1. /\ N \in Nat /\ IsSeq(bs) /\ p \in 1..N /\ p - 1 \in 0..N /\ p \in 0..N
      /\ \A n \in 0..N : R[n] \in Message
      /\ \A n \in 1..N : R[n] = Joined(R[n - 1], bs[n]) /\ bs[n] \in BlockSet
  BY ReadingType, ReadingSteps, ElementOfSeq
<1>2. \A n \in 0..N : R[n].calls \in Seq(CallSet) /\ Len(R[n].calls) \in Nat
  BY <1>1, LenProperties DEF Message
<1>3. R[p - 1] \in Message /\ bs[p] \in BlockSet /\ R[p] = Joined(R[p - 1], bs[p]) BY <1>1
<1>4. r = Len(R[p - 1].calls) + 1 /\ R[p].calls[r] = y
  <2> DEFINE m == R[p - 1]
             b == bs[p]
  <2> HIDE DEF m, b
  <2>1. m \in Message /\ b \in BlockSet /\ b.kind # "text" BY <1>3 DEF m, b
  <2>2. LET k == Joined(m, b).calls
        IN  Len(k) = Len(m.calls) + 1 /\ k[Len(m.calls) + 1] = [id |-> b.id, args |-> b.v]
    BY <2>1, JoinedCalls
  <2> QED BY <1>3, <2>2 DEF m, b
<1>5. r \in Nat \ {0} BY <1>1, <1>2, <1>4
<1> HIDE DEF N, R, r, y
<1>6. 0 \in S BY <1>1
<1>7. ASSUME NEW n \in 1..N, n - 1 \in S PROVE n \in S
  <2>1. n \in 0..N /\ n - 1 \in 0..N BY <1>1
  <2>2. CASE n = p BY <1>2, <1>4, <1>5, <2>1, <2>2 DEF r
  <2>3. CASE n > p
    <3>1. r <= Len(R[n - 1].calls) /\ R[n - 1].calls[r] = y BY <1>1, <1>7, <2>1, <2>3
    <3> DEFINE m == R[n - 1]
               b == bs[n]
    <3> HIDE DEF m, b
    <3>2. m \in Message /\ b \in BlockSet /\ R[n] = Joined(m, b) /\ Len(m.calls) \in Nat
      BY <1>1, <1>2, <2>1 DEF m, b
    <3>3. r <= Len(m.calls) /\ m.calls[r] = y BY <3>1 DEF m
    <3>4. CASE b.kind = "text"
      <4>1. Joined(m, b).calls = m.calls BY <3>2, <3>4, JoinedCalls
      <4> QED BY <2>1, <3>2, <3>3, <4>1
    <3>5. CASE b.kind # "text"
      <4>1. /\ Len(Joined(m, b).calls) = Len(m.calls) + 1
            /\ \A j \in 1..Len(m.calls) : Joined(m, b).calls[j] = m.calls[j]
        BY <3>2, <3>5, JoinedCalls
      <4> QED BY <1>5, <2>1, <3>2, <3>3, <4>1
    <3> QED BY <3>4, <3>5
  <2>4. CASE n < p BY <1>1, <2>1, <2>4
  <2> QED BY <1>1, <2>2, <2>3, <2>4
<1>8. \A n \in 0..N : n \in S
  <2> HIDE DEF S
  <2> QED BY <1>1, <1>6, <1>7, Upward
<1>9. ASSUME NEW n \in p..N PROVE r <= Len(R[n].calls) /\ R[n].calls[r] = y BY <1>1, <1>8
<1> QED BY <1>5, <1>9 DEF N, R, r, y

LEMMA ToldLast ==
    ASSUME NEW m \in Message, NEW b \in BlockSet, b.kind # "text", NEW c \in BlockSet, c.kind # "text", c.id = b.id
    PROVE  Joined(m, c) = Told(Joined(m, b), Len(m.calls) + 1, c.v)
<1> DEFINE y == [id |-> b.id, args |-> b.v]
           z == [id |-> c.id, args |-> c.v]
           r == Len(m.calls) + 1
           n == Append(m.calls, y)
           k == Append(m.calls, z)
           M == [text |-> m.text, calls |-> n]
           C == [n EXCEPT ![r] = z]
<1>1. m.calls \in Seq(CallSet) /\ y \in CallSet /\ z \in CallSet /\ z = [y EXCEPT !.args = c.v]
  BY DEF Message, BlockSet, CallSet
<1>2. Joined(m, b) = M /\ Joined(m, c) = [text |-> m.text, calls |-> k] BY JoinedType
<1>3. Len(m.calls) \in Nat BY <1>1, LenProperties
<1> HIDE DEF y, z
<1>4. /\ n \in Seq(CallSet) /\ Len(n) = r /\ n[r] = y
      /\ \A j \in 1..Len(m.calls) : n[j] = m.calls[j]
  BY <1>1, AppendProperties
<1>5. /\ k \in Seq(CallSet) /\ Len(k) = r /\ k[r] = z
      /\ \A j \in 1..Len(m.calls) : k[j] = m.calls[j]
  BY <1>1, AppendProperties
<1> HIDE DEF n, k
<1>6. C \in Seq(CallSet) /\ Len(C) = r /\ \A j \in 1..r : C[j] = IF j = r THEN z ELSE n[j]
  <2>1. r \in 1..Len(n) BY <1>3, <1>4
  <2> HIDE DEF r
  <2> QED BY <1>1, <1>4, <2>1
<1>7. Told(M, r, c.v) = [M EXCEPT !.calls = C]
  <2>1. M.calls = n /\ n[r] = y BY <1>4
  <2> HIDE DEF r
  <2> QED BY <1>1, <2>1 DEF Told
<1> HIDE DEF C
<1>8. C = k
  <2>1. ASSUME NEW j \in 1..r PROVE C[j] = k[j] BY <1>3, <1>4, <1>5, <1>6
  <2> QED BY <1>5, <1>6, <2>1, SeqEqual
<1> QED BY <1>2, <1>7, <1>8

LEMMA ReadingArgs ==
    ASSUME NEW bs \in Seq(BlockSet), NEW p \in 1..Len(bs), bs[p].kind # "text", NEW v \in Pieces
    PROVE  LET cs == Longer(bs, p, v)
               r == Len(Reading(bs)[p].calls)
               a == bs[p].v \o v
           IN  /\ cs \in Seq(BlockSet) /\ Len(cs) = Len(bs)
               /\ \A n \in 0..Len(bs) : Len(Reading(cs)[n].calls) = Len(Reading(bs)[n].calls)
               /\ MessageRead(cs) = Told(MessageRead(bs), r, a)
<1> DEFINE N == Len(bs)
           R == Reading(bs)
           cs == Longer(bs, p, v)
           r == Len(R[p].calls)
           a == bs[p].v \o v
           g == [n \in 0..N |-> IF n < p THEN R[n] ELSE Told(R[n], r, a)]
<1>1. /\ N \in Nat /\ IsSeq(bs) /\ p \in 1..N /\ p - 1 \in 0..N /\ N \in 0..N /\ p \in 0..N
      /\ MessageRead(bs) = R[N] /\ R[0] = Blank
      /\ \A n \in 0..N : R[n] \in Message
      /\ \A n \in 1..N : R[n] = Joined(R[n - 1], bs[n]) /\ bs[n] \in BlockSet
  BY ReadingType, ReadingSteps, ElementOfSeq
<1>2. /\ cs \in Seq(BlockSet) /\ Len(cs) = N /\ \A n \in 1..N : n # p => cs[n] = bs[n]
      /\ cs[p].kind = bs[p].kind /\ cs[p].id = bs[p].id /\ cs[p].v = a
  BY BlockPut
<1>3. /\ r \in Nat \ {0} /\ \A n \in p..N : r <= Len(R[n].calls) BY CallRead
<1>4. \A n \in 0..N : Len(R[n].calls) \in Nat BY <1>1, LenProperties DEF Message
<1>5. a \in Pieces /\ cs[p] \in BlockSet /\ cs[p].kind # "text"
  <2>1. cs[p] \in BlockSet BY <1>1, <1>2, ElementOfSeq
  <2> QED BY <1>2, <2>1 DEF BlockSet
<1>6. r = Len(R[p - 1].calls) + 1
  <2> DEFINE m == R[p - 1]
             b == bs[p]
  <2>1. m \in Message /\ b \in BlockSet /\ R[p] = Joined(m, b) /\ b.kind # "text" BY <1>1
  <2> HIDE DEF m, b
  <2>2. Len(Joined(m, b).calls) = Len(m.calls) + 1 BY <2>1, JoinedCalls
  <2> QED BY <2>1, <2>2 DEF m
<1> HIDE DEF N, R, cs, r, a
<1>7. g[0] = Blank BY <1>1
<1>8. ASSUME NEW n \in 1..Len(cs) PROVE g[n] = Joined(g[n - 1], cs[n])
  <2>1. n \in 1..N /\ n \in 0..N /\ n - 1 \in 0..N BY <1>1, <1>2
  <2>2. CASE n < p
    <3>1. g[n] = R[n] /\ g[n - 1] = R[n - 1] /\ cs[n] = bs[n] BY <1>1, <1>2, <2>1, <2>2
    <3> QED BY <1>1, <2>1, <3>1
  <2>3. CASE n = p BY <1>1, <2>1, <2>3, <1>2, <1>5, ToldLast, <1>6
  <2>4. CASE n > p
    <3>1. g[n] = Told(R[n], r, a) /\ g[n - 1] = Told(R[n - 1], r, a) /\ cs[n] = bs[n]
      BY <1>1, <1>2, <2>1, <2>4
    <3>2. R[n - 1] \in Message /\ bs[n] \in BlockSet /\ R[n] = Joined(R[n - 1], bs[n]) BY <1>1, <2>1
    <3>3. r \in 1..Len(R[n - 1].calls) BY <1>1, <1>3, <1>4, <2>1, <2>4
    <3>4. Joined(Told(R[n - 1], r, a), bs[n]) = Told(Joined(R[n - 1], bs[n]), r, a)
      BY <1>5, <3>2, <3>3, ToldJoins
    <3> QED BY <3>1, <3>2, <3>4
  <2> QED BY <1>1, <2>1, <2>2, <2>3, <2>4
<1>9. g[N] = Told(MessageRead(bs), r, a) BY <1>1
<1>10. ASSUME NEW n \in 0..N PROVE Len(g[n].calls) = Len(R[n].calls)
  <2>1. CASE n < p BY <1>1, <2>1
  <2>2. CASE ~(n < p) BY <2>2, <1>1, <1>3, <1>4, <1>5, ToldFacts
  <2> QED BY <2>1, <2>2
<1> HIDE DEF g
<1>11. (\A n \in 0..N : Reading(cs)[n] = g[n]) /\ MessageRead(cs) = g[N]
  BY <1>2, <1>7, <1>8, ReadingIs
<1>12. \A n \in 0..N : Len(Reading(cs)[n].calls) = Len(R[n].calls) BY <1>10, <1>11
<1> QED BY <1>2, <1>9, <1>11, <1>12 DEF N, R, cs, r, a

LEMMA CollectionRead ==
    ASSUME NEW m \in Message
    PROVE  MessageRead(Collection(m)) = m
<1> DEFINE N == Len(m.calls)
           head == [kind |-> "text", id |-> None, v |-> m.text, open |-> FALSE]
           tool(i) == [kind |-> "tool", id |-> m.calls[i].id, v |-> m.calls[i].args, open |-> FALSE]
           tools == [i \in 1..N |-> tool(i)]
           bs == Collection(m)
           part(n) == [j \in 1..n |-> m.calls[j]]
           g == [n \in 0..(N + 1) |-> IF n = 0 THEN Blank ELSE [text |-> m.text, calls |-> part(n - 1)]]
<1>1. /\ m.calls \in Seq(CallSet) /\ m.text \in Pieces /\ N \in Nat /\ DOMAIN m.calls = 1..N
      /\ \A i \in 1..N : m.calls[i] \in CallSet
      /\ m = [text |-> m.text, calls |-> m.calls]
  BY LenProperties, ElementOfSeq DEF Message
<1>2. head \in BlockSet /\ \A i \in 1..N : tool(i) \in BlockSet BY <1>1 DEF BlockSet, CallSet
<1>3. bs = <<head>> \o tools BY <1>1 DEF Collection
<1> HIDE DEF head, tool
<1>4. tools \in Seq(BlockSet) /\ Len(tools) = N /\ \A i \in 1..N : tools[i] = tool(i) BY <1>1, <1>2
<1> HIDE DEF tools, bs
<1>5. /\ bs \in Seq(BlockSet) /\ Len(bs) = N + 1 /\ bs[1] = head
      /\ \A i \in 1..N : bs[i + 1] = tool(i)
  <2>1. <<head>> \in Seq(BlockSet) /\ Len(<<head>>) = 1 /\ <<head>>[1] = head BY <1>2
  <2>2. /\ bs \in Seq(BlockSet) /\ Len(bs) = 1 + N
        /\ \A k \in 1..(1 + N) : bs[k] = IF k <= 1 THEN <<head>>[k] ELSE tools[k - 1]
    BY <1>3, <1>4, <2>1, ConcatProperties
  <2>3. bs[1] = head BY <1>1, <2>1, <2>2
  <2>4. ASSUME NEW i \in 1..N PROVE bs[i + 1] = tool(i)
    <3>1. i + 1 \in 1..(1 + N) /\ ~(i + 1 <= 1) /\ (i + 1) - 1 = i BY <1>1
    <3> QED BY <1>4, <2>2, <3>1
  <2> QED BY <1>1, <2>2, <2>3, <2>4
<1>6. \A n \in 0..N : part(n) \in Seq(CallSet) /\ Len(part(n)) = n /\ \A j \in 1..n : part(n)[j] = m.calls[j]
  <2>1. ASSUME NEW n \in 0..N
        PROVE  part(n) \in Seq(CallSet) /\ Len(part(n)) = n /\ \A j \in 1..n : part(n)[j] = m.calls[j]
    <3>1. n \in Nat /\ \A j \in 1..n : m.calls[j] \in CallSet BY <1>1
    <3> DEFINE f == [j \in 1..n |-> m.calls[j]]
    <3>2. f \in [1..n -> CallSet] /\ \A j \in 1..n : f[j] = m.calls[j] BY <3>1
    <3> HIDE DEF f
    <3>3. f \in Seq(CallSet) /\ Len(f) = n BY <3>1, <3>2
    <3> QED BY <3>2, <3>3 DEF f
  <2> QED BY <2>1
<1>7. g[0] = Blank /\ \A n \in 1..(N + 1) : g[n] = [text |-> m.text, calls |-> part(n - 1)] BY <1>1
<1> HIDE DEF g, part
<1>8. Blank \in Message /\ Blank.text = <<>> /\ Blank.calls = <<>> BY DEF Blank, Message, Pieces
<1>9. part(0) = <<>> BY <1>1, <1>6, EmptySeq
<1>10. part(N) = m.calls BY <1>1, <1>6, SeqEqual
<1>11. ASSUME NEW n \in 1..Len(bs) PROVE g[n] = Joined(g[n - 1], bs[n])
  <2>1. CASE n = 1
    <3>1. g[1] = [text |-> m.text, calls |-> <<>>] /\ g[0] = Blank
      <4>1. 1 \in 1..(N + 1) /\ 1 - 1 = 0 BY <1>1
      <4>2. g[1] = [text |-> m.text, calls |-> part(1 - 1)] BY <1>7, <4>1
      <4> QED BY <1>7, <1>9, <4>1, <4>2
    <3>2. Joined(Blank, head) = [text |-> Blank.text \o head.v, calls |-> Blank.calls]
      BY <1>2, <1>8, JoinedType DEF head
    <3>3. <<>> \o m.text = m.text BY <1>1, ConcatSimplifications DEF Pieces
    <3> QED BY <1>5, <1>8, <2>1, <3>1, <3>2, <3>3 DEF head
  <2>2. CASE n # 1
    <3> DEFINE k == n - 1
               M == [text |-> m.text, calls |-> part(k - 1)]
    <3>1. k \in 1..N /\ k - 1 \in 0..N /\ k \in 0..N /\ n \in 1..(N + 1) /\ k \in 1..(N + 1) /\ n = k + 1
      BY <1>1, <1>5, <2>2
    <3>2. g[n] = [text |-> m.text, calls |-> part(k)] /\ g[k] = M /\ bs[n] = tool(k)
      BY <1>5, <1>7, <3>1
    <3>3. M \in Message BY <1>1, <1>6, <3>1 DEF Message
    <3>4. tool(k).kind # "text" /\ tool(k).id = m.calls[k].id /\ tool(k).v = m.calls[k].args
      BY DEF tool
    <3>5. Joined(M, tool(k)) = [text |-> M.text, calls |-> Append(M.calls, [id |-> tool(k).id, args |-> tool(k).v])]
      BY <1>2, <3>1, <3>3, <3>4, JoinedType
    <3>6. m.calls[k] = [id |-> m.calls[k].id, args |-> m.calls[k].args] /\ m.calls[k] \in CallSet
      BY <1>1, <3>1 DEF CallSet
    <3>7. Append(part(k - 1), m.calls[k]) = part(k)
      <4> DEFINE s == Append(part(k - 1), m.calls[k])
      <4>1. /\ s \in Seq(CallSet) /\ Len(s) = k
            /\ \A j \in 1..k : s[j] = IF j = k THEN m.calls[k] ELSE part(k - 1)[j]
        BY <1>6, <3>1, <3>6, AppendProperties
      <4> HIDE DEF s
      <4> HIDE DEF k
      <4>3. \A j \in 1..(k - 1) : part(k - 1)[j] = m.calls[j] BY <1>6, <3>1
      <4>4. \A j \in 1..k : part(k)[j] = m.calls[j] BY <1>6, <3>1
      <4>5. \A j \in 1..k : j # k => j \in 1..(k - 1) BY <3>1
      <4>2. \A j \in 1..k : s[j] = part(k)[j] BY <4>1, <4>3, <4>4, <4>5
      <4> QED BY <1>6, <3>1, <4>1, <4>2, SeqEqual DEF s
    <3> HIDE DEF k
    <3>8. M.text = m.text /\ M.calls = part(k - 1) OBVIOUS
    <3> HIDE DEF M
    <3>9. Joined(M, tool(k)) = [text |-> m.text, calls |-> part(k)] BY <3>4, <3>5, <3>6, <3>7, <3>8
    <3> QED BY <3>2, <3>9 DEF k
  <2> QED BY <2>1, <2>2
<1>12. MessageRead(bs) = g[N + 1] BY <1>5, <1>7, <1>11, ReadingIs
<1>13. g[N + 1] = [text |-> m.text, calls |-> part(N)]
  <2>1. N + 1 \in 1..(N + 1) /\ (N + 1) - 1 = N BY <1>1
  <2>2. g[N + 1] = [text |-> m.text, calls |-> part((N + 1) - 1)] BY <1>7, <2>1
  <2> QED BY <2>1, <2>2
<1> QED BY <1>1, <1>10, <1>12, <1>13 DEF bs

-----------------------------------------------------------------------------
(***************************************************************************)
(* Blocks and slots. The call at slot i is the i-th call that is read, so  *)
(* arguments written to it reach that call and no other.                   *)
(***************************************************************************)
\* Calls that were read the same way in the same blocks have the same slots.
LEMMA LaysOn ==
    ASSUME NEW slots, NEW bs, NEW m, Lays(slots, bs, m),
           NEW cs \in Seq(BlockSet), Len(bs) <= Len(cs), NEW k, MessageRead(cs) = k, Len(k.calls) = Len(m.calls),
           \A n \in 1..Len(bs) : bs[n].kind = "tool" =>
               cs[n].kind = bs[n].kind /\ Len(Reading(cs)[n].calls) = Len(Reading(bs)[n].calls)
    PROVE  Lays(slots, cs, k)
<1>1. Len(bs) \in Nat /\ Len(cs) \in Nat BY LenProperties DEF Lays
<1>2. ASSUME NEW i \in 1..MaxCalls, slots[i] # 0
      PROVE  /\ slots[i] \in 1..Len(cs) /\ cs[slots[i]].kind = "tool"
             /\ Len(Reading(cs)[slots[i]].calls) = i
  BY <1>2, <1>1 DEF Lays
<1>3. \A i \in 1..MaxCalls : (slots[i] = 0) <=> (i > Len(k.calls)) BY DEF Lays
<1> QED BY <1>2, <1>3 DEF Lays

LEMMA LaysOpenText ==
    ASSUME NEW slots, NEW bs, NEW m, Lays(slots, bs, m), NEW b \in BlockSet, b.kind = "text", b.v = <<>>
    PROVE  Lays(slots, Append(bs, b), m)
<1> DEFINE cs == Append(bs, b)
<1>1. bs \in Seq(BlockSet) /\ MessageRead(bs) = m /\ Len(bs) \in Nat /\ m \in Message
  BY ReadingType DEF Lays
<1>2. /\ cs \in Seq(BlockSet) /\ Len(cs) = Len(bs) + 1 /\ \A n \in 1..Len(bs) : cs[n] = bs[n]
      /\ \A n \in 0..Len(bs) : Reading(cs)[n] = Reading(bs)[n]
      /\ MessageRead(cs) = Joined(m, b)
  BY <1>1, ReadingAppends
<1> HIDE DEF cs
<1>3. Joined(m, b) = m
  <2>1. Joined(m, b) = [text |-> m.text \o <<>>, calls |-> m.calls] BY <1>1, JoinedType
  <2>2. m.text \o <<>> = m.text BY <1>1, ConcatSimplifications DEF Message, Pieces
  <2> QED BY <1>1, <2>1, <2>2 DEF Message
<1>4. \A n \in 1..Len(bs) : n \in 0..Len(bs) BY <1>1
<1>5. Lays(slots, cs, m) BY <1>1, <1>2, <1>3, <1>4, LaysOn
<1> QED BY <1>5 DEF cs

LEMMA LaysOpenTool ==
    ASSUME NEW slots, NEW bs, NEW m, Lays(slots, bs, m), NEW b \in BlockSet, b.kind = "tool",
           NEW i \in 1..MaxCalls, i = Len(m.calls) + 1
    PROVE  Lays([slots EXCEPT ![i] = Len(bs) + 1], Append(bs, b), Joined(m, b))
<1> DEFINE cs == Append(bs, b)
           k == Joined(m, b)
           t == [slots EXCEPT ![i] = Len(bs) + 1]
<1>1. /\ bs \in Seq(BlockSet) /\ MessageRead(bs) = m /\ Len(bs) \in Nat /\ m \in Message
      /\ slots \in [1..MaxCalls -> Nat] /\ MaxCalls \in Nat
  BY ReadingType, ReplyStreamAssumption DEF Lays
<1>2. /\ cs \in Seq(BlockSet) /\ Len(cs) = Len(bs) + 1 /\ \A n \in 1..Len(bs) : cs[n] = bs[n]
      /\ cs[Len(bs) + 1] = b
      /\ \A n \in 0..Len(bs) : Reading(cs)[n] = Reading(bs)[n]
      /\ MessageRead(cs) = k /\ Reading(cs)[Len(bs) + 1] = MessageRead(cs)
  BY <1>1, ReadingAppends
<1>3. Len(k.calls) = Len(m.calls) + 1 /\ Len(m.calls) \in Nat BY <1>1, JoinedCalls
<1>4. t \in [1..MaxCalls -> Nat] /\ \A j \in 1..MaxCalls : t[j] = IF j = i THEN Len(bs) + 1 ELSE slots[j]
  BY <1>1
<1> HIDE DEF cs, k, t
<1>5. ASSUME NEW j \in 1..MaxCalls
      PROVE  /\ (t[j] = 0) <=> (j > Len(k.calls))
             /\ t[j] # 0 =>
                   /\ t[j] \in 1..Len(cs) /\ cs[t[j]].kind = "tool"
                   /\ Len(Reading(cs)[t[j]].calls) = j
  <2>1. CASE j = i BY <1>1, <1>2, <1>3, <1>4, <2>1
  <2>2. CASE j # i
    <3>1. t[j] = slots[j] BY <1>4, <2>2
    <3>2. /\ (slots[j] = 0) <=> (j > Len(m.calls))
          /\ slots[j] # 0 =>
                /\ slots[j] \in 1..Len(bs) /\ bs[slots[j]].kind = "tool"
                /\ Len(Reading(bs)[slots[j]].calls) = j
      BY DEF Lays
    <3>3. \A n \in 1..Len(bs) : n \in 0..Len(bs) /\ n \in 1..Len(cs) BY <1>1, <1>2
    <3>4. (j > Len(m.calls)) <=> (j > Len(k.calls)) BY <1>1, <1>3, <2>2
    <3> QED BY <1>2, <3>1, <3>2, <3>3, <3>4
  <2> QED BY <2>1, <2>2
<1>6. Lays(t, cs, k) BY <1>2, <1>4, <1>5 DEF Lays
<1> QED BY <1>6 DEF t, cs, k

LEMMA LaysText ==
    ASSUME NEW slots, NEW bs, NEW m, Lays(slots, bs, m), NEW p \in 1..Len(bs), p = Len(bs),
           bs[p].kind = "text", NEW v \in Pieces
    PROVE  Lays(slots, Longer(bs, p, v), [text |-> m.text \o v, calls |-> m.calls])
<1> DEFINE cs == Longer(bs, p, v)
           k == [text |-> m.text \o v, calls |-> m.calls]
<1>1. bs \in Seq(BlockSet) /\ MessageRead(bs) = m /\ Len(bs) \in Nat /\ m \in Message
  BY ReadingType DEF Lays
<1>2. /\ cs \in Seq(BlockSet) /\ Len(cs) = Len(bs)
      /\ \A n \in 0..(Len(bs) - 1) : Reading(cs)[n] = Reading(bs)[n]
      /\ MessageRead(cs) = k
  BY <1>1, ReadingText
<1>3. \A n \in 1..Len(bs) : n # p => cs[n] = bs[n] BY <1>1, BlockPut
<1> HIDE DEF cs
<1>4. ASSUME NEW n \in 1..Len(bs), bs[n].kind = "tool"
      PROVE  cs[n].kind = bs[n].kind /\ Len(Reading(cs)[n].calls) = Len(Reading(bs)[n].calls)
  <2>1. n # p /\ n \in 0..(Len(bs) - 1) BY <1>1, <1>4
  <2> QED BY <1>2, <1>3, <2>1
<1>5. k.calls = m.calls OBVIOUS
<1> HIDE DEF k
<1>7. Len(bs) <= Len(cs) BY <1>1, <1>2
<1>6. Lays(slots, cs, k) BY <1>2, <1>4, <1>5, <1>7, LaysOn
<1> QED BY <1>6 DEF cs, k

LEMMA LaysArgs ==
    ASSUME NEW slots, NEW bs, NEW m, Lays(slots, bs, m), NEW i \in 1..MaxCalls, i <= Len(m.calls), NEW v \in Pieces
    PROVE  /\ slots[i] \in 1..Len(bs) /\ bs[slots[i]].kind = "tool"
           /\ i \in 1..Len(m.calls)
           /\ Lays(slots, Longer(bs, slots[i], v), Told(m, i, m.calls[i].args \o v))
<1> DEFINE p == slots[i]
           cs == Longer(bs, p, v)
           k == Told(m, i, m.calls[i].args \o v)
<1>1. bs \in Seq(BlockSet) /\ MessageRead(bs) = m /\ Len(bs) \in Nat /\ m \in Message /\ IsSeq(bs)
  BY ReadingType DEF Lays
<1>2. Len(m.calls) \in Nat /\ MaxCalls \in Nat /\ m.calls \in Seq(CallSet)
  BY <1>1, LenProperties, ReplyStreamAssumption DEF Message
<1>3. i \in 1..Len(m.calls) /\ ~(i > Len(m.calls)) BY <1>2
<1>4. p \in 1..Len(bs) /\ bs[p].kind = "tool" /\ Len(Reading(bs)[p].calls) = i BY <1>3 DEF Lays
<1> HIDE DEF p
<1>5. m.calls[i].args = bs[p].v
  <2>1. Len(bs) \in p..Len(bs) /\ Reading(bs)[Len(bs)] = m BY <1>1, <1>4, ReadingSteps
  <2>2. Reading(bs)[Len(bs)].calls[i] = [id |-> bs[p].id, args |-> bs[p].v]
    BY <1>1, <1>4, <2>1, CallRead
  <2> QED BY <2>1, <2>2
<1>6. /\ cs \in Seq(BlockSet) /\ Len(cs) = Len(bs)
      /\ \A n \in 0..Len(bs) : Len(Reading(cs)[n].calls) = Len(Reading(bs)[n].calls)
      /\ MessageRead(cs) = k
  BY <1>1, <1>4, <1>5, ReadingArgs
<1>7. \A n \in 1..Len(bs) : cs[n].kind = bs[n].kind
  <2>1. (\A n \in 1..Len(bs) : n # p => cs[n] = bs[n]) /\ cs[p].kind = bs[p].kind
    BY <1>1, <1>4, BlockPut
  <2> HIDE DEF cs
  <2> QED BY <2>1
<1> HIDE DEF cs
<1>8. Len(k.calls) = Len(m.calls)
  <2>1. m.calls[i] \in CallSet BY <1>2, <1>3, ElementOfSeq
  <2>2. m.calls[i].args \o v \in Pieces BY <2>1, ConcatProperties DEF CallSet, Pieces
  <2> QED BY <1>1, <1>3, <2>2, ToldFacts
<1> HIDE DEF k
<1>9. \A n \in 1..Len(bs) : n \in 0..Len(bs) BY <1>1
<1>10. Lays(slots, cs, k) BY <1>1, <1>6, <1>7, <1>8, <1>9, LaysOn
<1> QED BY <1>3, <1>4, <1>10 DEF p, cs, k

LEMMA LaysClosed ==
    ASSUME NEW slots, NEW bs, NEW m, Lays(slots, bs, m), NEW cs \in Seq(BlockSet), Len(cs) = Len(bs),
           \A n \in 1..Len(bs) : cs[n].kind = bs[n].kind /\ cs[n].id = bs[n].id /\ cs[n].v = bs[n].v
    PROVE  Lays(slots, cs, m)
BY ReadingType, ReadingSame, LaysOn DEF Lays

-----------------------------------------------------------------------------
(***************************************************************************)
(* The writers. Whatever chunk a writer of one of the three APIs takes,    *)
(* the client reads in its blocks what Tell makes of the message and the   *)
(* chunk.                                                                  *)
(***************************************************************************)
LEMMA OnTrans ==
    ASSUME NEW u, NEW v, NEW w, On(u, v), On(v, w)
    PROVE  On(u, w)
BY SameTrans DEF On

LEMMA OnFacts ==
    ASSUME NEW w, Open(w)
    PROVE  /\ On(w, w)
           /\ On(w, Writes(w)) /\ Writes(w).blocks = w.blocks /\ Writes(w).slots = w.slots
           /\ \A kind, id : LET v == OpenBlock(w, kind, id)
                            IN  /\ On(w, v) /\ v.slots = w.slots
                                /\ v.blocks = Append(w.blocks, [kind |-> kind, id |-> id, v |-> <<>>, open |-> TRUE])
           /\ \A i : LET v == CloseBlock(w, i)
                     IN  /\ On(w, v) /\ v.slots = w.slots /\ (i = 0 => v = w)
                         /\ i # 0 => v.blocks = [w.blocks EXCEPT ![i] = [w.blocks[i] EXCEPT !.open = FALSE]]
           /\ \A i, x : LET v == Delta(w, i, x)
                        IN  On(w, v) /\ v.slots = w.slots /\ v.blocks = Longer(w.blocks, i, x)
<1>1. On(w, w) BY OpenStays DEF On
<1> DEFINE told == Writes(w)
<1>2. /\ On(w, told) /\ told.blocks = w.blocks /\ told.slots = w.slots
      /\ DOMAIN told = Fields /\ IsSeq(told.body) /\ told.end = None /\ told.after = FALSE
  BY OpenStays DEF On, Writes, Open, Fields
<1>3. ASSUME NEW kind, NEW id
      PROVE  LET v == OpenBlock(w, kind, id)
             IN  /\ On(w, v) /\ v.slots = w.slots
                 /\ v.blocks = Append(w.blocks, [kind |-> kind, id |-> id, v |-> <<>>, open |-> TRUE])
  <2> DEFINE bs == Append(w.blocks, [kind |-> kind, id |-> id, v |-> <<>>, open |-> TRUE])
  <2>1. OpenBlock(w, kind, id) = [told EXCEPT !.blocks = bs] BY <1>2 DEF OpenBlock
  <2>2. Same(w, OpenBlock(w, kind, id)) BY OpenStays
  <2> HIDE DEF told, bs
  <2>3. /\ [told EXCEPT !.blocks = bs].cut = told.cut /\ [told EXCEPT !.blocks = bs].stop = told.stop
        /\ [told EXCEPT !.blocks = bs].upstreamDone = told.upstreamDone
        /\ [told EXCEPT !.blocks = bs].slots = told.slots /\ [told EXCEPT !.blocks = bs].blocks = bs
    BY <1>2 DEF Fields
  <2> QED BY <1>2, <2>1, <2>2, <2>3 DEF On, bs
<1>4. ASSUME NEW i
      PROVE  LET v == CloseBlock(w, i)
             IN  /\ On(w, v) /\ v.slots = w.slots /\ (i = 0 => v = w)
                 /\ i # 0 => v.blocks = [w.blocks EXCEPT ![i] = [w.blocks[i] EXCEPT !.open = FALSE]]
  <2>1. CASE i = 0 BY <1>1, <2>1 DEF CloseBlock
  <2>2. CASE i # 0
    <3> DEFINE bs == [w.blocks EXCEPT ![i] = [w.blocks[i] EXCEPT !.open = FALSE]]
    <3>1. CloseBlock(w, i) = [told EXCEPT !.blocks = bs] BY <1>2, <2>2 DEF CloseBlock
    <3>2. Same(w, CloseBlock(w, i)) BY OpenStays
    <3> HIDE DEF told, bs
    <3>3. /\ [told EXCEPT !.blocks = bs].cut = told.cut /\ [told EXCEPT !.blocks = bs].stop = told.stop
          /\ [told EXCEPT !.blocks = bs].upstreamDone = told.upstreamDone
          /\ [told EXCEPT !.blocks = bs].slots = told.slots /\ [told EXCEPT !.blocks = bs].blocks = bs
      BY <1>2 DEF Fields
    <3> QED BY <1>2, <2>2, <3>1, <3>2, <3>3 DEF On, bs
  <2> QED BY <2>1, <2>2
<1>5. ASSUME NEW i, NEW x
      PROVE  LET v == Delta(w, i, x)
             IN  On(w, v) /\ v.slots = w.slots /\ v.blocks = Longer(w.blocks, i, x)
  <2> DEFINE bs == [w.blocks EXCEPT ![i] = [w.blocks[i] EXCEPT !.v = w.blocks[i].v \o x]]
             st == told.stray \/ ~w.blocks[i].open
  <2>1. Delta(w, i, x) = [told EXCEPT !.stray = st, !.blocks = bs] BY <1>2 DEF Delta
  <2>2. Same(w, Delta(w, i, x)) BY OpenStays
  <2>4. bs = Longer(w.blocks, i, x) BY DEF Longer
  <2> HIDE DEF told, bs, st
  <2> DEFINE v == [told EXCEPT !.stray = st, !.blocks = bs]
  <2>3. v.cut = told.cut /\ v.stop = told.stop /\ v.upstreamDone = told.upstreamDone /\ v.slots = told.slots /\ v.blocks = bs
    BY <1>2 DEF Fields
  <2> QED BY <1>2, <2>1, <2>2, <2>3, <2>4 DEF On
<1> QED BY <1>1, <1>2, <1>3, <1>4, <1>5

LEMMA WideFacts ==
    ASSUME NEW w, NEW m, Wide(w, m)
    PROVE  /\ w.blocks \in Seq(BlockSet) /\ Len(w.blocks) \in Nat /\ GoodBlocks(w.blocks)
           /\ m \in Message /\ Len(m.calls) \in Nat /\ MaxCalls \in Nat
           /\ \A j \in 1..Len(w.blocks) : w.blocks[j] \in BlockSet
<1>1. /\ w.blocks \in Seq(BlockSet) /\ Len(w.blocks) \in Nat /\ IsSeq(w.blocks) /\ m \in Message
      /\ \A j \in 1..Len(w.blocks) : w.blocks[j] \in BlockSet
  BY ReadingType, ElementOfSeq DEF Wide, Lays
<1>2. Len(m.calls) \in Nat /\ MaxCalls \in Nat
  BY <1>1, LenProperties, ReplyStreamAssumption DEF Message
<1>3. \A j \in 1..Len(w.blocks) : DOMAIN w.blocks[j] = BlockFields /\ w.blocks[j].open \in BOOLEAN
  BY <1>1 DEF BlockSet, BlockFields
<1> QED BY <1>1, <1>2, <1>3 DEF GoodBlocks

LEMMA WideOpensText ==
    ASSUME NEW w, NEW m, Wide(w, m)
    PROVE  LET v == OpenBlock(w, "text", None) IN On(w, v) /\ Wide(v, m) /\ Opens(w, v, "text")
<1> DEFINE b == [kind |-> "text", id |-> None, v |-> <<>>, open |-> TRUE]
           v == OpenBlock(w, "text", None)
<1>1. On(w, v) /\ v.slots = w.slots /\ v.blocks = Append(w.blocks, b) /\ Open(v)
  BY OnFacts DEF Wide, On, Same
<1>2. b \in BlockSet /\ b.kind = "text" /\ b.v = <<>> /\ b.open = TRUE BY DEF BlockSet, Pieces
<1> HIDE DEF b, v
<1>3. Lays(w.slots, Append(w.blocks, b), m) BY <1>2, LaysOpenText DEF Wide
<1>4. Opens(w, v, "text") BY <1>1, <1>2, WideFacts, ReadingAppends DEF Opens
<1> QED BY <1>1, <1>3, <1>4 DEF Wide, v

LEMMA WideOpensTool ==
    ASSUME NEW w, NEW m, Wide(w, m), NEW i \in 1..MaxCalls, i = Len(m.calls) + 1, NEW id \in Nat \cup {None},
           NEW l, l = Len(w.blocks) + 1
    PROVE  LET v == [OpenBlock(w, "tool", id) EXCEPT !.slots[i] = l]
               b == [kind |-> "tool", id |-> id, v |-> <<>>, open |-> TRUE]
           IN  On(w, v) /\ Wide(v, Joined(m, b)) /\ Opens(w, v, "tool") /\ b \in BlockSet
<1> DEFINE b == [kind |-> "tool", id |-> id, v |-> <<>>, open |-> TRUE]
           o == OpenBlock(w, "tool", id)
           v == [o EXCEPT !.slots[i] = l]
<1>1. On(w, o) /\ o.slots = w.slots /\ o.blocks = Append(w.blocks, b) /\ Open(o)
  BY OnFacts DEF Wide, On, Same
<1>2. b \in BlockSet /\ b.kind = "tool" /\ b.open = TRUE BY DEF BlockSet, Pieces
<1> HIDE DEF b, o
<1>3. Lays([w.slots EXCEPT ![i] = l], Append(w.blocks, b), Joined(m, b))
  BY <1>2, LaysOpenTool DEF Wide
<1> DEFINE t == [w.slots EXCEPT ![i] = l]
<1>4. v = [o EXCEPT !.slots = t] BY <1>1
<1> HIDE DEF t
<1>5. /\ DOMAIN [o EXCEPT !.slots = t] = Fields /\ [o EXCEPT !.slots = t].slots = t
      /\ \A f \in Fields \ {"slots"} : [o EXCEPT !.slots = t][f] = o[f]
  BY <1>1 DEF Open, Fields
<1> HIDE DEF v
<1>6. v.slots = t /\ v.blocks = Append(w.blocks, b) /\ On(o, v)
  BY <1>1, <1>4, <1>5 DEF On, Same, Open, Fields
<1>7. On(w, v) BY <1>1, <1>6, OnTrans
<1>8. Opens(w, v, "tool") BY <1>2, <1>6, WideFacts, ReadingAppends DEF Opens
<1>9. Wide(v, Joined(m, b)) BY <1>3, <1>6 DEF Wide, On, Same, t
<1> QED BY <1>2, <1>7, <1>8, <1>9 DEF v, o, b

LEMMA WideText ==
    ASSUME NEW w, NEW m, Wide(w, m), NEW p \in 1..Len(w.blocks), p = Len(w.blocks),
           w.blocks[p].kind = "text", NEW x \in Pieces
    PROVE  LET v == Delta(w, p, x)
           IN  On(w, v) /\ Wide(v, [text |-> m.text \o x, calls |-> m.calls]) /\ Keeps(w, v)
<1> DEFINE v == Delta(w, p, x)
<1>1. On(w, v) /\ v.slots = w.slots /\ v.blocks = Longer(w.blocks, p, x) /\ Open(v)
  BY OnFacts DEF Wide, On, Same
<1> HIDE DEF v
<1>2. Lays(w.slots, Longer(w.blocks, p, x), [text |-> m.text \o x, calls |-> m.calls])
  BY LaysText DEF Wide
<1>3. Keeps(w, v)
  <2> DEFINE bs == w.blocks
  <2>1. bs \in Seq(BlockSet) /\ p \in 1..Len(bs) BY WideFacts
  <2> HIDE DEF bs
  <2>2. LET cs == Longer(bs, p, x)
        IN  /\ Len(cs) = Len(bs) /\ \A n \in 1..Len(bs) : n # p => cs[n] = bs[n]
            /\ cs[p].kind = bs[p].kind /\ cs[p].open = bs[p].open
    BY <2>1, BlockPut
  <2> QED BY <1>1, <2>2 DEF Keeps, bs
<1> QED BY <1>1, <1>2, <1>3 DEF Wide, v

LEMMA WideArgs ==
    ASSUME NEW w, NEW m, Wide(w, m), NEW i \in 1..MaxCalls, i <= Len(m.calls), NEW x \in Pieces
    PROVE  LET v == Delta(w, w.slots[i], x)
           IN  On(w, v) /\ Wide(v, Told(m, i, m.calls[i].args \o x)) /\ Keeps(w, v)
<1> DEFINE p == w.slots[i]
           v == Delta(w, p, x)
<1>1. On(w, v) /\ v.slots = w.slots /\ v.blocks = Longer(w.blocks, p, x) /\ Open(v)
  BY OnFacts DEF Wide, On, Same
<1>2. /\ p \in 1..Len(w.blocks)
      /\ Lays(w.slots, Longer(w.blocks, p, x), Told(m, i, m.calls[i].args \o x))
  BY LaysArgs DEF Wide
<1> HIDE DEF v, p
<1>3. Keeps(w, v)
  <2> DEFINE bs == w.blocks
  <2>1. bs \in Seq(BlockSet) /\ p \in 1..Len(bs) BY <1>2, WideFacts
  <2> HIDE DEF bs
  <2>2. LET cs == Longer(bs, p, x)
        IN  /\ Len(cs) = Len(bs) /\ \A n \in 1..Len(bs) : n # p => cs[n] = bs[n]
            /\ cs[p].kind = bs[p].kind /\ cs[p].open = bs[p].open
    BY <2>1, BlockPut
  <2> QED BY <1>1, <2>2 DEF Keeps, bs
<1> QED BY <1>1, <1>2, <1>3 DEF Wide, v, p

LEMMA WideCloses ==
    ASSUME NEW w, NEW m, Wide(w, m), NEW i \in 0..Len(w.blocks)
    PROVE  LET v == CloseBlock(w, i)
           IN  /\ On(w, v) /\ Wide(v, m) /\ Len(v.blocks) = Len(w.blocks)
               /\ \A j \in 1..Len(w.blocks) : /\ v.blocks[j].kind = w.blocks[j].kind
                                              /\ v.blocks[j].open = (w.blocks[j].open /\ j # i)
<1> DEFINE v == CloseBlock(w, i)
<1>1. /\ On(w, v) /\ v.slots = w.slots /\ (i = 0 => v = w) /\ Open(v)
      /\ i # 0 => v.blocks = [w.blocks EXCEPT ![i] = [w.blocks[i] EXCEPT !.open = FALSE]]
  BY OnFacts DEF Wide, On, Same
<1> HIDE DEF v
<1>2. /\ w.blocks \in Seq(BlockSet) /\ Len(w.blocks) \in Nat
      /\ \A j \in 1..Len(w.blocks) : w.blocks[j] \in BlockSet /\ w.blocks[j].open \in BOOLEAN
  BY WideFacts DEF GoodBlocks
<1>3. CASE i = 0 BY <1>2, <1>3, <1>1 DEF v
<1>4. CASE i # 0
  <2> DEFINE b == [w.blocks[i] EXCEPT !.open = FALSE]
  <2>1. i \in 1..Len(w.blocks) BY <1>2, <1>4
  <2>2. b \in BlockSet /\ b.kind = w.blocks[i].kind /\ b.id = w.blocks[i].id /\ b.v = w.blocks[i].v /\ b.open = FALSE
    BY <1>2, <2>1 DEF BlockSet
  <2>3. v.blocks = [w.blocks EXCEPT ![i] = b] BY <1>1, <1>4
  <2> HIDE DEF b
  <2>4. /\ v.blocks \in Seq(BlockSet) /\ Len(v.blocks) = Len(w.blocks)
        /\ \A j \in 1..Len(w.blocks) : v.blocks[j] = IF j = i THEN b ELSE w.blocks[j]
    BY <1>2, <2>1, <2>2, <2>3
  <2>5. /\ \A j \in 1..Len(w.blocks) : /\ v.blocks[j].kind = w.blocks[j].kind /\ v.blocks[j].id = w.blocks[j].id
                                       /\ v.blocks[j].v = w.blocks[j].v
        /\ \A j \in 1..Len(w.blocks) : v.blocks[j].open = (w.blocks[j].open /\ j # i)
    BY <1>2, <2>2, <2>4
  <2>6. Lays(w.slots, v.blocks, m) BY <2>4, <2>5, LaysClosed DEF Wide
  <2> QED BY <1>1, <2>4, <2>5, <2>6 DEF Wide, v
<1> QED BY <1>3, <1>4

\* An open last block is the last open one.
LEMMA LastIs ==
    ASSUME NEW w, NEW m, Wide(w, m)
    PROVE  /\ LastOpen(w) \in 0..Len(w.blocks)
           /\ LastOpen(w) # 0 => w.blocks[LastOpen(w)].open
           /\ \A j \in 1..Len(w.blocks) : w.blocks[j].open => LastOpen(w) >= j
<1> DEFINE N == Len(w.blocks)
<1>1. N \in Nat /\ w.blocks \in Seq(BlockSet) /\ GoodBlocks(w.blocks) BY WideFacts
<1>2. DOMAIN w.blocks = 1..N BY <1>1, LenProperties
<1>3. OpenBlocks(w) = {j \in 1..N : w.blocks[j].open} BY <1>2 DEF OpenBlocks
<1>4. LastOpen(w) \in 0..N /\ (LastOpen(w) # 0 => w.blocks[LastOpen(w)].open) BY <1>1, LastOpenFacts
<1> HIDE DEF N
<1>5. ASSUME NEW j \in 1..N, w.blocks[j].open PROVE LastOpen(w) >= j
  <2>1. j \in OpenBlocks(w) /\ OpenBlocks(w) # {} /\ OpenBlocks(w) \in SUBSET (0..N)
    BY <1>1, <1>3, <1>5
  <2>2. LastOpen(w) = Max(OpenBlocks(w)) BY <2>1 DEF LastOpen
  <2> QED BY <1>1, <2>1, <2>2, Greatest
<1> QED BY <1>4, <1>5 DEF N

\* A call that is announced and goes on is the call with what it went on with.
LEMMA NewCall ==
    ASSUME NEW m \in Message, NEW id \in Nat \cup {None}, NEW x \in Pieces
    PROVE  LET k == Joined(m, [kind |-> "tool", id |-> id, v |-> <<>>, open |-> TRUE])
               i == Len(m.calls) + 1
               all == [text |-> m.text, calls |-> Append(m.calls, [id |-> id, args |-> x])]
           IN  /\ k \in Message /\ Len(k.calls) = i
               /\ Told(k, i, k.calls[i].args \o x) = all
               /\ x = <<>> => k = all
<1> DEFINE b == [kind |-> "tool", id |-> id, v |-> <<>>, open |-> TRUE]
           c == [kind |-> "tool", id |-> id, v |-> x, open |-> TRUE]
           k == Joined(m, b)
           i == Len(m.calls) + 1
<1>1. b \in BlockSet /\ c \in BlockSet /\ b.kind # "text" /\ c.kind # "text" /\ c.id = b.id /\ c.v = x
  BY DEF BlockSet, Pieces
<1>2. b.id = id /\ b.v = <<>> /\ c.id = id OBVIOUS
<1> HIDE DEF b, c
<1>3. k \in Message /\ Len(k.calls) = i /\ k.calls[i] = [id |-> b.id, args |-> b.v]
  BY <1>1, JoinedType, JoinedCalls
<1>4. Joined(m, c) = [text |-> m.text, calls |-> Append(m.calls, [id |-> id, args |-> x])]
  BY <1>1, <1>2, JoinedType
<1>5. Joined(m, c) = Told(k, i, x) BY <1>1, ToldLast
<1>6. k.calls[i].args \o x = x BY <1>2, <1>3, ConcatSimplifications DEF Pieces
<1>7. k = [text |-> m.text, calls |-> Append(m.calls, [id |-> id, args |-> <<>>])]
  BY <1>1, <1>2, JoinedType
<1> QED BY <1>3, <1>4, <1>5, <1>6, <1>7 DEF b

LEMMA AllOpenKeeps ==
    ASSUME NEW w, NEW m, Wide(w, m), AllOpen(w), NEW v
    PROVE  /\ Keeps(w, v) => AllOpen(v)
           /\ \A kind : Opens(w, v, kind) => AllOpen(v)
<1>1. Len(w.blocks) \in Nat BY WideFacts
<1>2. ASSUME Keeps(w, v) PROVE AllOpen(v) BY <1>2 DEF Keeps, AllOpen
<1>3. ASSUME NEW kind, Opens(w, v, kind) PROVE AllOpen(v)
  <2>1. ASSUME NEW j \in 1..Len(v.blocks) PROVE v.blocks[j].open BY <1>1, <1>3 DEF Opens, AllOpen
  <2> QED BY <2>1 DEF AllOpen
<1> QED BY <1>2, <1>3

\* The client of /v1/chat/completions.
LEMMA ChatReads ==
    ASSUME NEW w, NEW m, Wide(w, m), AllOpen(w), NEW c, Accepts(m, c)
    PROVE  LET v == ReadChat(w, c)
           IN  /\ Same(w, v) /\ v.cut = w.cut /\ Wide(v, Tell(m, c)) /\ AllOpen(v)
               /\ c.k = "finish" => v.stop = c.id
               /\ c.k # "finish" => v.stop = w.stop
<1> DEFINE v == ReadChat(w, c)
           N == Len(w.blocks)
<1>1. Open(w) /\ N \in Nat /\ m \in Message /\ Len(m.calls) \in Nat /\ MaxCalls \in Nat
  BY WideFacts DEF Wide
<1>2. CASE c.k = "text"
  <2> DEFINE added == OpenBlock(w, "text", None)
             there == IF LastOpen(w) # 0 /\ w.blocks[LastOpen(w)].kind = "text" THEN w ELSE added
  <2>1. v = Delta(there, LastOpen(there), c.v) BY <1>2 DEF ReadChat
  <2>2. On(w, w) /\ On(w, added) /\ Wide(added, m) /\ Opens(w, added, "text")
    BY <1>1, OnFacts, WideOpensText
  <2> HIDE DEF added
  <2>3. /\ On(w, there) /\ Wide(there, m) /\ AllOpen(there) /\ Len(there.blocks) \in Nat \ {0}
        /\ there.blocks[Len(there.blocks)].kind = "text"
    <3>1. CASE LastOpen(w) # 0 /\ w.blocks[LastOpen(w)].kind = "text"
      BY <1>1, <3>1, LastIs, <2>2 DEF AllOpen
    <3>2. CASE ~(LastOpen(w) # 0 /\ w.blocks[LastOpen(w)].kind = "text")
      <4>1. Len(added.blocks) = N + 1 /\ added.blocks[N + 1].kind = "text" BY <2>2 DEF Opens
      <4>2. AllOpen(added) BY <2>2, AllOpenKeeps
      <4> QED BY <1>1, <2>2, <3>2, <4>1, <4>2
    <3> QED BY <3>1, <3>2
  <2> HIDE DEF there
  <2> DEFINE p == LastOpen(there)
  <2>4. p \in 1..Len(there.blocks) /\ p = Len(there.blocks) BY <2>3, LastIs DEF AllOpen
  <2> HIDE DEF p
  <2>5. c.v \in Pieces BY <1>2 DEF Accepts
  <2>6. On(there, v) /\ Wide(v, [text |-> m.text \o c.v, calls |-> m.calls]) /\ Keeps(there, v)
    BY <2>1, <2>3, <2>4, <2>5, WideText DEF p
  <2> HIDE DEF v
  <2>7. AllOpen(v) BY <2>3, <2>6, AllOpenKeeps
  <2>8. On(w, v) BY <2>3, <2>6, OnTrans
  <2> QED BY <1>2, <2>6, <2>7, <2>8 DEF v, Tell, On
<1>3. CASE c.k \in {"call", "args"}
  <2> DEFINE b == [kind |-> "tool", id |-> c.id, v |-> <<>>, open |-> TRUE]
             put == [OpenBlock(w, "tool", c.id) EXCEPT !.slots[c.i] = Len(w.blocks) + 1]
             there == IF w.slots[c.i] # 0 THEN w ELSE put
  <2>1. v = Delta(there, there.slots[c.i], c.v) BY <1>3 DEF ReadChat
  <2>2. c.v \in Pieces /\ c.i \in 1..MaxCalls BY <1>3 DEF Accepts
  <2>3. (w.slots[c.i] = 0) <=> (c.i > Len(m.calls)) BY <2>2 DEF Wide, Lays
  <2>4. CASE c.k = "call"
    <3>1. c.i = Len(m.calls) + 1 /\ c.id \in Nat \cup {None} /\ w.slots[c.i] = 0
      BY <1>1, <2>3, <2>4 DEF Accepts
    <3>2. there = put BY <3>1
    <3>3. On(w, put) /\ Wide(put, Joined(m, b)) /\ Opens(w, put, "tool")
      BY <2>2, <3>1, WideOpensTool
    <3> DEFINE k == Joined(m, b)
    <3>4. k \in Message /\ Len(k.calls) = c.i /\ Told(k, c.i, k.calls[c.i].args \o c.v) = Tell(m, c)
      BY <1>1, <2>2, <2>4, <3>1, NewCall DEF Tell
    <3> HIDE DEF k, put
    <3>5. Wide(put, k) /\ c.i <= Len(k.calls) BY <1>1, <2>2, <3>3, <3>4 DEF k
    <3>6. On(put, v) /\ Wide(v, Tell(m, c)) /\ Keeps(put, v)
      BY <2>1, <2>2, <3>2, <3>4, <3>5, WideArgs
    <3>7. AllOpen(put) BY <3>3, AllOpenKeeps
    <3> HIDE DEF v
    <3>8. AllOpen(v) BY <3>5, <3>6, <3>7, AllOpenKeeps
    <3>9. On(w, v) BY <3>3, <3>6, OnTrans
    <3> QED BY <2>4, <3>6, <3>8, <3>9 DEF v, On
  <2>5. CASE c.k = "args"
    <3>1. c.i <= Len(m.calls) /\ w.slots[c.i] # 0 BY <1>1, <2>2, <2>3, <2>5 DEF Accepts
    <3>2. v = Delta(w, w.slots[c.i], c.v) BY <2>1, <3>1
    <3>3. On(w, v) /\ Wide(v, Told(m, c.i, m.calls[c.i].args \o c.v)) /\ Keeps(w, v)
      BY <2>2, <3>1, <3>2, WideArgs
    <3> HIDE DEF v
    <3>4. AllOpen(v) BY <3>3, AllOpenKeeps
    <3> QED BY <2>5, <3>3, <3>4 DEF v, On, Tell
  <2> QED BY <1>3, <2>4, <2>5
<1>4. CASE c.k = "finish"
  <2> DEFINE told == Writes(w)
  <2>1. v = [told EXCEPT !.upstreamDone = TRUE, !.stop = c.id] BY <1>4 DEF ReadChat
  <2>2. On(w, told) /\ told.blocks = w.blocks /\ told.slots = w.slots BY <1>1, OnFacts
  <2>3. Tell(m, c) = m BY <1>4 DEF Tell
  <2> HIDE DEF told
  <2>4. /\ v.stop = c.id /\ v.blocks = told.blocks /\ v.slots = told.slots /\ v.cut = told.cut
    BY <2>1, <2>2 DEF On, Same, Open, Fields
  <2>5. Same(w, v) BY <1>1, ReadChatSame
  <2> HIDE DEF v
  <2>6. Wide(v, m) /\ AllOpen(v) /\ v.cut = w.cut BY <2>2, <2>4, <2>5 DEF Wide, AllOpen, On, Same
  <2> QED BY <1>4, <2>3, <2>4, <2>5, <2>6 DEF v
<1>5. CASE c.k \notin {"text", "call", "args", "finish"}
  <2>1. v = Writes(w) BY <1>5 DEF ReadChat
  <2>2. On(w, v) /\ v.blocks = w.blocks /\ v.slots = w.slots BY <1>1, <2>1, OnFacts
  <2>3. Tell(m, c) = m BY <1>5 DEF Tell
  <2> HIDE DEF v
  <2> QED BY <1>5, <2>2, <2>3 DEF v, Wide, AllOpen, On, Same
<1> QED BY <1>2, <1>3, <1>4, <1>5

\* The recursive function of ReadAll does its steps.
LEMMA ReadAllSteps ==
    ASSUME NEW w, NEW chunks, IsSeq(chunks)
    PROVE  /\ Len(chunks) \in Nat
           /\ \E f : /\ f[0] = w /\ f[Len(chunks)] = ReadAll(w, chunks)
                    /\ \A n \in 1..Len(chunks) : f[n] = ReadChat(f[n - 1], chunks[n])
<1> DEFINE N == Len(chunks)
           Upto(f, m) == f = [n \in 0..m |-> IF n = 0 THEN w ELSE ReadChat(f[n - 1], chunks[n])]
           read == CHOOSE f : Upto(f, N)
           Good == {m \in 0..N : \E f : Upto(f, m)}
<1>1. N \in Nat BY LenProperties DEF IsSeq
<1>2. ReadAll(w, chunks) = read[N] BY DEF ReadAll
<1> HIDE DEF N
<1>3. 0 \in Good
  <2>1. Upto([n \in 0..0 |-> w], 0) OBVIOUS
  <2>2. 0 \in 0..N BY <1>1
  <2> HIDE DEF Upto
  <2> QED BY <2>1, <2>2
<1>4. ASSUME NEW m \in 1..N, m - 1 \in Good PROVE m \in Good
  <2>1. PICK g : Upto(g, m - 1) BY <1>4
  <2> DEFINE f == [n \in 0..m |-> IF n = m THEN ReadChat(g[m - 1], chunks[m]) ELSE g[n]]
  <2>2. ASSUME NEW n \in 0..m
        PROVE  f[n] = IF n = 0 THEN w ELSE ReadChat(f[n - 1], chunks[n])
    <3>1. CASE n = m BY <1>1, <3>1
    <3>2. CASE n # m BY <1>1, <3>2, <2>1
    <3> QED BY <3>1, <3>2
  <2>3. Upto(f, m) BY <2>2
  <2>4. m \in 0..N BY <1>1
  <2> QED BY <2>3, <2>4
<1>5. N \in Good
  <2> HIDE DEF Good
  <2>1. \A n \in 0..N : n \in Good BY <1>1, <1>3, <1>4, Upward
  <2> QED BY <1>1, <2>1
<1>6. Upto(read, N)
  <2>1. \E f : Upto(f, N) BY <1>5
  <2> HIDE DEF Upto
  <2> QED BY <2>1
<1> HIDE DEF read
<1>7. read[0] = w /\ \A n \in 1..N : read[n] = ReadChat(read[n - 1], chunks[n]) BY <1>1, <1>6
<1> QED BY <1>1, <1>2, <1>7 DEF N

LEMMA QuietTells ==
    ASSUME NEW c, Quiet(c), NEW m
    PROVE  Accepts(m, c) /\ Tell(m, c) = m
BY DEF Quiet, Accepts, Tell

\* The buffer of a chat attempt is let through.
LEMMA CommitLays ==
    ASSUME NEW w, Open(w), w.api = "chat", NEW m, Laid(w, m), ~w.committed, NEW c, Accepts(m, c)
    PROVE  LET v == Commit([w EXCEPT !.body = Append(@, c)])
           IN  /\ Wide(v, Tell(m, c)) /\ AllOpen(v) /\ v.cut = w.cut /\ v.api = w.api /\ v.committed
               /\ c.k = "finish" => v.stop = c.id
<1> DEFINE all == Append(w.body, c)
           kept == [w EXCEPT !.body = all]
           start == [kept EXCEPT !.committed = TRUE, !.body = <<>>]
           N == Len(w.body)
           v == Commit(kept)
<1>1. /\ IsSeq(all) /\ N \in Nat /\ Len(all) = N + 1
      /\ \A j \in 1..(N + 1) : all[j] = IF j = N + 1 THEN c ELSE w.body[j]
  BY ListAdd DEF Open
<1> HIDE DEF N
<1>2. kept.body = all /\ DOMAIN kept = Fields BY DEF Open, Fields
<1>3. v = ReadAll(start, all) BY <1>2 DEF Commit
<1>4. /\ Open(start) /\ start.blocks = w.blocks /\ start.slots = w.slots /\ start.cut = w.cut
      /\ start.api = w.api /\ start.committed
  <2>1. IsSeq(<<>>) BY Lists
  <2> HIDE DEF all
  <2> QED BY <2>1 DEF Open, Fields
<1> HIDE DEF start, v, kept, all
<1>5. Wide(start, m) /\ AllOpen(start) BY <1>4 DEF Laid, Wide, AllOpen
<1>6. PICK f : /\ f[0] = start /\ f[N + 1] = v
               /\ \A n \in 1..(N + 1) : f[n] = ReadChat(f[n - 1], all[n])
  BY <1>1, <1>3, ReadAllSteps
<1> DEFINE Fine(u) == /\ Wide(u, m) /\ AllOpen(u) /\ u.cut = w.cut /\ u.api = w.api /\ u.committed
           S == {n \in 0..N : Fine(f[n])}
<1>7. 0 \in S BY <1>1, <1>4, <1>5, <1>6
<1>8. ASSUME NEW n \in 1..N, n - 1 \in S PROVE n \in S
  <2>1. n \in 1..(N + 1) /\ n # N + 1 BY <1>1
  <2>2. f[n] = ReadChat(f[n - 1], w.body[n]) BY <1>1, <1>6, <2>1
  <2>3. Quiet(w.body[n]) BY DEF Laid, N
  <2>4. Accepts(m, w.body[n]) /\ Tell(m, w.body[n]) = m BY <2>3, QuietTells
  <2>5. Fine(f[n - 1]) BY <1>8
  <2>6. Same(f[n - 1], f[n]) /\ f[n].cut = f[n - 1].cut /\ Wide(f[n], m) /\ AllOpen(f[n])
    BY <2>2, <2>4, <2>5, ChatReads
  <2>7. Fine(f[n]) BY <2>5, <2>6 DEF Same
  <2> QED BY <1>1, <2>7
<1>9. Fine(f[N])
  <2> HIDE DEF S
  <2>1. \A n \in 0..N : n \in S BY <1>1, <1>7, <1>8, Upward
  <2> QED BY <1>1, <2>1 DEF S
<1>10. v = ReadChat(f[N], c) BY <1>1, <1>6
<1>11. /\ Same(f[N], v) /\ v.cut = f[N].cut /\ Wide(v, Tell(m, c)) /\ AllOpen(v)
       /\ c.k = "finish" => v.stop = c.id
  BY <1>9, <1>10, ChatReads
<1>12. v.cut = w.cut /\ v.api = w.api /\ v.committed BY <1>9, <1>11 DEF Same
<1> QED BY <1>11, <1>12 DEF v, kept, all

LEMMA WideLaid ==
    ASSUME NEW w, NEW m, Wide(w, m), w.api = "chat", AllOpen(w), w.committed
    PROVE  Laid(w, m)
BY WideFacts DEF Laid, Wide

LEMMA ChatLays ==
    ASSUME NEW w, Open(w), w.api = "chat", NEW m, Laid(w, m), NEW c, Accepts(m, c)
    PROVE  Goes(w, WriteChunk(w, c), m, c)
<1> DEFINE v == WriteChunk(w, c)
           kept == [w EXCEPT !.body = Append(@, c)]
<1>1. v = IF w.committed THEN ReadChat(w, c) ELSE IF w.direct \/ ReplyChunk(c) THEN Commit(kept) ELSE kept
  BY DEF WriteChunk, ChatChunk
<1>2. CASE w.committed
  <2>1. v = ReadChat(w, c) /\ Wide(w, m) /\ AllOpen(w) BY <1>1, <1>2 DEF Laid, Wide
  <2> HIDE DEF v
  <2>2. /\ Same(w, v) /\ v.cut = w.cut /\ Wide(v, Tell(m, c)) /\ AllOpen(v)
        /\ c.k = "finish" => v.stop = c.id
    BY <2>1, ChatReads
  <2>3. Laid(v, Tell(m, c)) BY <1>2, <2>2, WideLaid DEF Same
  <2> QED BY <2>2, <2>3 DEF Goes, v
<1>3. CASE ~w.committed /\ (w.direct \/ ReplyChunk(c))
  <2>1. v = Commit(kept) BY <1>1, <1>3
  <2>3. LET u == Commit(kept)
        IN  /\ Wide(u, Tell(m, c)) /\ AllOpen(u) /\ u.cut = w.cut /\ u.api = w.api /\ u.committed
            /\ c.k = "finish" => u.stop = c.id
    BY <1>3, CommitLays
  <2> HIDE DEF kept
  <2>2. /\ Wide(v, Tell(m, c)) /\ AllOpen(v) /\ v.cut = w.cut /\ v.api = w.api /\ v.committed
        /\ c.k = "finish" => v.stop = c.id
    BY <2>1, <2>3
  <2> HIDE DEF v
  <2>4. Laid(v, Tell(m, c)) BY <2>2, WideLaid
  <2> QED BY <2>2, <2>4 DEF Goes, v
<1>4. CASE ~w.committed /\ ~w.direct /\ ~ReplyChunk(c)
  <2> DEFINE all == Append(w.body, c)
  <2>1. v = [w EXCEPT !.body = all] BY <1>1, <1>4
  <2>2. Quiet(c) /\ Tell(m, c) = m BY <1>4, QuietTells DEF ReplyChunk, Quiet
  <2>3. /\ Len(w.body) \in Nat /\ Len(all) = Len(w.body) + 1
        /\ \A j \in 1..Len(all) : all[j] = IF j = Len(w.body) + 1 THEN c ELSE w.body[j]
    BY ListAdd DEF Open
  <2>4. \A j \in 1..Len(all) : Quiet(all[j])
    <3> HIDE DEF all
    <3>1. ASSUME NEW j \in 1..Len(all), j # Len(w.body) + 1 PROVE j \in 1..Len(w.body) BY <2>3, <3>1
    <3> QED BY <1>4, <2>2, <2>3, <3>1 DEF Laid
  <2> HIDE DEF all, v
  <2>5. /\ v.blocks = w.blocks /\ v.slots = w.slots /\ v.cut = w.cut /\ v.api = w.api /\ v.direct = w.direct
        /\ v.committed = w.committed /\ v.body = all
    BY <2>1 DEF Open, Fields
  <2>6. Laid(v, m) BY <1>4, <2>4, <2>5 DEF Laid, AllOpen
  <2> QED BY <1>4, <2>2, <2>5, <2>6 DEF Goes, Hidden, v
<1> QED BY <1>2, <1>3, <1>4

LEMMA OpenTextIs ==
    ASSUME NEW w, NEW m, Wide(w, m), TextLast(w), NEW j \in 1..Len(w.blocks), w.blocks[j].open,
           w.blocks[j].kind = "text"
    PROVE  LastOpen(w) = j /\ j = Len(w.blocks) /\ LastOpen(w) # 0
BY WideFacts, LastIs DEF TextLast

\* The message begins.
LEMMA StartLays ==
    ASSUME NEW w, Open(w), w.api = "messages", NEW m, Laid(w, m)
    PROVE  LET s == Start(w)
           IN  /\ Wide(s, m) /\ TextLast(s) /\ s.committed /\ s.api = w.api
               /\ s.cut = w.cut /\ s.upstreamDone = w.upstreamDone /\ s.stop = w.stop
<1> DEFINE s == Start(w)
           told == Writes(w)
<1>1. On(w, told) /\ told.blocks = w.blocks /\ told.slots = w.slots BY OnFacts
<1>2. CASE w.committed
  <2>1. s = w BY <1>2 DEF Start
  <2> HIDE DEF s
  <2> QED BY <1>2, <2>1 DEF Laid, Wide, TextLast, s
<1>3. CASE ~w.committed
  <2>1. s = [[told EXCEPT !.began = TRUE] EXCEPT !.committed = TRUE] BY <1>3 DEF Start, Begin
  <2> HIDE DEF told, s
  <2>2. /\ Open(s) /\ s.blocks = w.blocks /\ s.slots = w.slots /\ s.cut = w.cut /\ s.stop = w.stop
        /\ s.upstreamDone = w.upstreamDone /\ s.committed /\ s.api = w.api
    BY <1>1, <2>1 DEF On, Same, Open, Fields
  <2>3. Wide(s, m) /\ TextLast(s) BY <2>2 DEF Laid, Wide, TextLast
  <2> QED BY <2>2, <2>3 DEF s
<1> QED BY <1>2, <1>3

LEMMA TextLastKeeps ==
    ASSUME NEW w, NEW m, Wide(w, m), NEW v
    PROVE  /\ TextLast(w) /\ Keeps(w, v) => TextLast(v)
           /\ \A kind : NoText(w) /\ Opens(w, v, kind) => TextLast(v)
<1>1. Len(w.blocks) \in Nat BY WideFacts
<1>2. ASSUME TextLast(w), Keeps(w, v) PROVE TextLast(v) BY <1>2 DEF Keeps, TextLast
<1>3. ASSUME NEW kind, NoText(w), Opens(w, v, kind) PROVE TextLast(v)
  <2>1. ASSUME NEW j \in 1..Len(v.blocks), v.blocks[j].open, v.blocks[j].kind = "text", j # Len(v.blocks)
        PROVE  FALSE
    BY <1>1, <1>3, <2>1 DEF Opens, NoText
  <2> QED BY <2>1 DEF TextLast
<1> QED BY <1>2, <1>3

LEMMA MessagesTextLays ==
    ASSUME NEW s, NEW m, Wide(s, m), TextLast(s), NEW x \in Pieces
    PROVE  LET there == IF LastOpen(s) # 0 /\ s.blocks[LastOpen(s)].kind = "text" THEN s
                        ELSE OpenBlock(CloseBlock(s, LastOpen(s)), "text", None)
           IN  Going(s, Delta(there, LastOpen(there), x), [text |-> m.text \o x, calls |-> m.calls])
<1> DEFINE p == LastOpen(s)
           closed == CloseBlock(s, p)
           added == OpenBlock(closed, "text", None)
           there == IF p # 0 /\ s.blocks[p].kind = "text" THEN s ELSE added
           N == Len(there.blocks)
<1>1. p \in 0..Len(s.blocks) /\ (p # 0 => s.blocks[p].open) /\ Len(s.blocks) \in Nat /\ Open(s)
  BY LastIs, WideFacts DEF Wide
<1>2. Going(s, there, m) /\ N \in Nat /\ N # 0 /\ there.blocks[N].kind = "text" /\ there.blocks[N].open
  <2>1. CASE p # 0 /\ s.blocks[p].kind = "text" BY <2>1, <1>1, OnFacts DEF TextLast, Going
  <2>2. CASE ~(p # 0 /\ s.blocks[p].kind = "text")
    <3>1. there = added BY <2>2
    <3> HIDE DEF p
    <3>2. /\ On(s, closed) /\ Wide(closed, m) /\ Len(closed.blocks) = Len(s.blocks)
          /\ \A j \in 1..Len(s.blocks) : /\ closed.blocks[j].kind = s.blocks[j].kind
                                         /\ closed.blocks[j].open = (s.blocks[j].open /\ j # p)
      BY <1>1, WideCloses
    <3> HIDE DEF closed
    <3>3. NoText(closed)
      <4>1. ASSUME NEW j \in 1..Len(closed.blocks), closed.blocks[j].open, closed.blocks[j].kind = "text" PROVE FALSE
        BY <3>2, <4>1, OpenTextIs DEF p
      <4> QED BY <4>1 DEF NoText
    <3>4. On(closed, added) /\ Wide(added, m) /\ Opens(closed, added, "text") BY <3>2, WideOpensText
    <3> HIDE DEF added
    <3>5. TextLast(added) BY <3>2, <3>3, <3>4, TextLastKeeps
    <3>6. Len(closed.blocks) \in Nat BY <3>2, WideFacts
    <3>7. Len(added.blocks) \in Nat /\ Len(added.blocks) # 0
          /\ added.blocks[Len(added.blocks)].kind = "text" /\ added.blocks[Len(added.blocks)].open
      BY <3>4, <3>6 DEF Opens
    <3>8. On(s, added) BY <3>2, <3>4, OnTrans
    <3> QED BY <3>1, <3>4, <3>5, <3>7, <3>8 DEF Going
  <2> QED BY <2>1, <2>2
<1> HIDE DEF there
<1> DEFINE q == LastOpen(there)
           v == Delta(there, q, x)
<1>3. q \in 1..Len(there.blocks) /\ q = Len(there.blocks) /\ there.blocks[q].kind = "text"
  BY <1>2, OpenTextIs DEF Going
<1> HIDE DEF q
<1>4. On(there, v) /\ Wide(v, [text |-> m.text \o x, calls |-> m.calls]) /\ Keeps(there, v)
  BY <1>2, <1>3, WideText DEF Going
<1> HIDE DEF v
<1>5. On(s, v) BY <1>2, <1>4, OnTrans DEF Going
<1>6. TextLast(v) BY <1>2, <1>4, TextLastKeeps DEF Going
<1>7. Going(s, v, [text |-> m.text \o x, calls |-> m.calls]) BY <1>4, <1>5, <1>6 DEF Going
<1> QED BY <1>7 DEF v, q, there, added, closed, p

LEMMA MessagesToolLays ==
    ASSUME NEW s, NEW m, Wide(s, m), TextLast(s), NEW c, c.k \in {"call", "args"}, Accepts(m, c)
    PROVE  LET closed == IF LastOpen(s) # 0 /\ s.blocks[LastOpen(s)].kind = "text"
                         THEN CloseBlock(s, LastOpen(s)) ELSE s
               there == IF s.slots[c.i] # 0 THEN s
                        ELSE [OpenBlock(closed, "tool", c.id) EXCEPT !.slots[c.i] = Len(s.blocks) + 1]
           IN  Going(s, IF c.v = <<>> THEN there ELSE Delta(there, there.slots[c.i], c.v), Tell(m, c))
<1> DEFINE p == LastOpen(s)
           closed == IF p # 0 /\ s.blocks[p].kind = "text" THEN CloseBlock(s, p) ELSE s
           put == [OpenBlock(closed, "tool", c.id) EXCEPT !.slots[c.i] = Len(s.blocks) + 1]
           there == IF s.slots[c.i] # 0 THEN s ELSE put
           v == IF c.v = <<>> THEN there ELSE Delta(there, there.slots[c.i], c.v)
<1>1. /\ p \in 0..Len(s.blocks) /\ (p # 0 => s.blocks[p].open) /\ Len(s.blocks) \in Nat /\ Open(s)
      /\ m \in Message /\ Len(m.calls) \in Nat /\ MaxCalls \in Nat
  BY LastIs, WideFacts DEF Wide
<1>2. c.v \in Pieces /\ c.i \in 1..MaxCalls BY DEF Accepts
<1>3. (s.slots[c.i] = 0) <=> (c.i > Len(m.calls)) BY <1>2 DEF Wide, Lays
<1>4. CASE c.k = "call"
  <2>1. c.i = Len(m.calls) + 1 /\ c.id \in Nat \cup {None} /\ s.slots[c.i] = 0
    BY <1>1, <1>3, <1>4 DEF Accepts
  <2>2. there = put BY <2>1
  <2>3. On(s, closed) /\ Wide(closed, m) /\ Len(closed.blocks) = Len(s.blocks) /\ NoText(closed)
    <3>1. CASE p # 0 /\ s.blocks[p].kind = "text"
      <4> DEFINE u == CloseBlock(s, p)
      <4>1. closed = u BY <3>1
      <4>2. /\ On(s, u) /\ Wide(u, m) /\ Len(u.blocks) = Len(s.blocks)
            /\ \A j \in 1..Len(s.blocks) : /\ u.blocks[j].kind = s.blocks[j].kind
                                           /\ u.blocks[j].open = (s.blocks[j].open /\ j # p)
        <5> HIDE DEF p
        <5> QED BY <1>1, WideCloses
      <4> HIDE DEF u
      <4>3. ASSUME NEW j \in 1..Len(u.blocks), u.blocks[j].open, u.blocks[j].kind = "text" PROVE FALSE
        BY <4>2, <4>3, OpenTextIs
      <4> QED BY <4>1, <4>2, <4>3 DEF NoText
    <3>2. CASE ~(p # 0 /\ s.blocks[p].kind = "text") BY <1>1, <3>2, OnFacts, OpenTextIs DEF NoText
    <3> QED BY <3>1, <3>2
  <2> HIDE DEF closed
  <2> DEFINE b == [kind |-> "tool", id |-> c.id, v |-> <<>>, open |-> TRUE]
             k == Joined(m, b)
  <2>4. On(closed, put) /\ Wide(put, k) /\ Opens(closed, put, "tool")
    BY <1>2, <2>1, <2>3, WideOpensTool
  <2>5. k \in Message /\ Len(k.calls) = c.i /\ Told(k, c.i, k.calls[c.i].args \o c.v) = Tell(m, c)
        /\ (c.v = <<>> => k = Tell(m, c))
    BY <1>1, <1>2, <1>4, <2>1, NewCall DEF Tell
  <2> HIDE DEF put, k
  <2>6. Going(s, put, k) BY <2>3, <2>4, OnTrans, TextLastKeeps DEF Going
  <2>7. CASE c.v = <<>> BY <2>2, <2>5, <2>6, <2>7 DEF put, closed
  <2>8. CASE c.v # <<>>
    <3>1. v = Delta(put, put.slots[c.i], c.v) BY <2>2, <2>8
    <3>2. c.i <= Len(k.calls) BY <1>1, <1>2, <2>5
    <3> HIDE DEF v
    <3>3. On(put, v) /\ Wide(v, Tell(m, c)) /\ Keeps(put, v)
      BY <1>2, <2>5, <2>6, <3>1, <3>2, WideArgs DEF Going
    <3>4. Going(s, v, Tell(m, c)) BY <2>6, <3>3, OnTrans, TextLastKeeps DEF Going
    <3> QED BY <3>4 DEF v, put, closed
  <2> QED BY <2>7, <2>8
<1>5. CASE c.k = "args"
  <2>1. c.i <= Len(m.calls) /\ s.slots[c.i] # 0 /\ c.v # <<>> BY <1>1, <1>2, <1>3, <1>5 DEF Accepts
  <2>2. v = Delta(s, s.slots[c.i], c.v) BY <2>1
  <2>3. On(s, v) /\ Wide(v, Tell(m, c)) /\ Keeps(s, v) BY <1>2, <1>5, <2>1, <2>2, WideArgs DEF Tell
  <2> HIDE DEF v
  <2>4. Going(s, v, Tell(m, c)) BY <2>3, TextLastKeeps DEF Going
  <2> QED BY <2>4 DEF v
<1> QED BY <1>4, <1>5

LEMMA MessagesLays ==
    ASSUME NEW w, Open(w), w.api = "messages", NEW m, Laid(w, m), NEW c, Accepts(m, c)
    PROVE  Goes(w, MessagesChunk(w, c), m, c)
<1> DEFINE v == MessagesChunk(w, c)
           s == Start(w)
<1>1. /\ Wide(s, m) /\ TextLast(s) /\ s.committed /\ s.api = w.api
      /\ s.cut = w.cut /\ s.upstreamDone = w.upstreamDone /\ s.stop = w.stop
  BY StartLays
<1>2. ASSUME Going(s, v, Tell(m, c)), c.k # "finish" PROVE Goes(w, v, m, c)
  <2> HIDE DEF s, v
  <2>1. v.committed /\ v.api = "messages" /\ v.cut = w.cut /\ v.upstreamDone = w.upstreamDone
    BY <1>1, <1>2 DEF Going, On, Same
  <2>2. Laid(v, Tell(m, c)) BY <1>2, <2>1, WideFacts DEF Going, Laid, TextLast, Wide
  <2> QED BY <1>2, <2>1, <2>2 DEF Goes
<1>3. CASE c.k = "text"
  <2>1. v = MessagesText(w, c.v) /\ c.v \in Pieces /\ Tell(m, c) = [text |-> m.text \o c.v, calls |-> m.calls]
    BY <1>3 DEF MessagesChunk, Accepts, Tell
  <2> DEFINE there == IF LastOpen(s) # 0 /\ s.blocks[LastOpen(s)].kind = "text" THEN s
                      ELSE OpenBlock(CloseBlock(s, LastOpen(s)), "text", None)
  <2>2. v = Delta(there, LastOpen(there), c.v) BY <2>1 DEF MessagesText
  <2> HIDE DEF s, v
  <2>3. Going(s, Delta(there, LastOpen(there), c.v), Tell(m, c)) BY <1>1, <2>1, MessagesTextLays
  <2> QED BY <1>2, <1>3, <2>2, <2>3 DEF v
<1>4. CASE c.k \in {"call", "args"}
  <2>1. v = MessagesTool(w, c.i, c.id, c.v) BY <1>4 DEF MessagesChunk
  <2> DEFINE closed == IF LastOpen(s) # 0 /\ s.blocks[LastOpen(s)].kind = "text"
                       THEN CloseBlock(s, LastOpen(s)) ELSE s
             there == IF s.slots[c.i] # 0 THEN s
                      ELSE [OpenBlock(closed, "tool", c.id) EXCEPT !.slots[c.i] = Len(s.blocks) + 1]
             u == IF c.v = <<>> THEN there ELSE Delta(there, there.slots[c.i], c.v)
  <2>2. v = u BY <2>1 DEF MessagesTool
  <2> HIDE DEF s, v
  <2>3. Going(s, u, Tell(m, c)) BY <1>1, <1>4, MessagesToolLays
  <2> QED BY <1>2, <1>4, <2>2, <2>3 DEF v
<1>5. CASE c.k = "finish"
  <2>1. v = [w EXCEPT !.upstreamDone = TRUE, !.stop = c.id] BY <1>5 DEF MessagesChunk
  <2>2. Tell(m, c) = m BY <1>5 DEF Tell
  <2> HIDE DEF v
  <2>3. /\ v.blocks = w.blocks /\ v.slots = w.slots /\ v.committed = w.committed /\ v.api = w.api
        /\ v.cut = w.cut /\ v.stop = c.id
    BY <2>1 DEF Open, Fields
  <2>4. Laid(v, m) BY <2>3 DEF Laid
  <2> QED BY <1>5, <2>2, <2>3, <2>4 DEF Goes, v
<1>6. CASE c.k \notin {"text", "call", "args", "finish"} BY <1>6 DEF MessagesChunk, Tell, Goes
<1> QED BY <1>3, <1>4, <1>5, <1>6

LEMMA TellType ==
    ASSUME NEW m \in Message, NEW c, Accepts(m, c)
    PROVE  /\ Tell(m, c) \in Message
           /\ c.k # "text" => Tell(m, c).text = m.text
<1>1. m.text \in Pieces /\ m.calls \in Seq(CallSet) /\ Len(m.calls) \in Nat /\ m = [text |-> m.text, calls |-> m.calls]
  BY LenProperties DEF Message
<1>2. CASE c.k = "text" BY <1>1, <1>2, ConcatProperties DEF Accepts, Pieces, Tell, Message
<1>3. CASE c.k = "call"
  <2>1. [id |-> c.id, args |-> c.v] \in CallSet BY <1>3 DEF Accepts, CallSet
  <2> DEFINE cs == Append(m.calls, [id |-> c.id, args |-> c.v])
  <2>2. cs \in Seq(CallSet) BY <1>1, <2>1, AppendProperties
  <2>3. Tell(m, c) = [text |-> m.text, calls |-> cs] BY <1>3 DEF Tell
  <2> HIDE DEF cs
  <2> QED BY <1>1, <1>3, <2>2, <2>3 DEF Message
<1>4. CASE c.k = "args"
  <2>1. c.i \in 1..Len(m.calls) BY <1>1, <1>4, ReplyStreamAssumption DEF Accepts
  <2>2. m.calls[c.i] \in CallSet BY <1>1, <2>1, ElementOfSeq
  <2>3. m.calls[c.i].args \o c.v \in Pieces
    BY <1>4, <2>2, ConcatProperties DEF Accepts, CallSet, Pieces
  <2> QED BY <1>4, <2>1, <2>3, ToldFacts DEF Tell
<1>5. CASE Quiet(c) BY <1>5, QuietTells DEF Quiet
<1> QED BY <1>2, <1>3, <1>4, <1>5 DEF Quiet

\* /v1/responses has one block of text, and no calls.
LEMMA ResponsesLays ==
    ASSUME NEW w, Open(w), w.api = "responses", NEW m, Laid(w, m), NEW c, Accepts(m, c)
    PROVE  Goes(w, ResponsesChunk(w, c), m, c)
<1> DEFINE v == ResponsesChunk(w, c)
<1>1. m \in Message /\ w.blocks \in Seq(BlockSet) /\ MessageRead(w.blocks).text = m.text BY DEF Laid
<1>2. CASE c.k = "text"
  <2> DEFINE begun == [w EXCEPT !.committed = TRUE]
             b == [kind |-> "text", id |-> None, v |-> <<>>, open |-> TRUE]
             there == IF w.committed THEN w ELSE OpenBlock(begun, "text", None)
  <2>1. v = Delta(there, 1, c.v) BY <1>2 DEF ResponsesChunk
  <2>2. /\ Open(there) /\ there.committed /\ there.api = w.api /\ there.cut = w.cut
        /\ there.upstreamDone = w.upstreamDone
        /\ there.blocks \in Seq(BlockSet) /\ Len(there.blocks) = 1 /\ there.blocks[1].kind = "text"
        /\ MessageRead(there.blocks).text = m.text
    <3>1. CASE w.committed BY <3>1, <1>1 DEF Laid
    <3>2. CASE ~w.committed
      <4> DEFINE u == OpenBlock(begun, "text", None)
      <4>1. there = u BY <3>2
      <4>2. /\ Open(begun) /\ begun.committed /\ begun.api = w.api /\ begun.cut = w.cut /\ begun.blocks = <<>>
            /\ begun.upstreamDone = w.upstreamDone
        BY <3>2 DEF Laid, Open, Fields
      <4> HIDE DEF begun
      <4>3. On(begun, u) /\ u.blocks = Append(<<>>, b) BY <4>2, OnFacts
      <4>4. b \in BlockSet /\ b.kind = "text" /\ b.v = <<>> BY DEF BlockSet, Pieces
      <4>5. <<>> \in Seq(BlockSet) /\ Len(<<>>) = 0 /\ MessageRead(<<>>) \in Message /\ MessageRead(<<>>).text = m.text
        BY <3>2, <1>1, ReadingType DEF Laid
      <4> HIDE DEF b, u
      <4> DEFINE e == <<>>
      <4>9. e \in Seq(BlockSet) /\ Len(e) = 0 /\ MessageRead(e) \in Message /\ MessageRead(e).text = m.text
        BY <4>5
      <4>10. u.blocks = Append(e, b) BY <4>3
      <4> HIDE DEF e
      <4>6. /\ Append(e, b) \in Seq(BlockSet) /\ Len(Append(e, b)) = Len(e) + 1
            /\ Append(e, b)[Len(e) + 1] = b /\ MessageRead(Append(e, b)) = Joined(MessageRead(e), b)
        BY <4>4, <4>9, ReadingAppends
      <4>8. Joined(MessageRead(e), b).text = m.text
        <5> DEFINE r == MessageRead(e)
                   x == r.text \o b.v
        <5>1. Joined(r, b) = [text |-> r.text \o b.v, calls |-> r.calls] BY <4>4, <4>9, JoinedType
        <5>2. r.text = m.text /\ m.text \in Seq(Nat) BY <1>1, <4>9 DEF Message, Pieces
        <5>3. x = m.text \o <<>> BY <4>4, <5>2
        <5>4. m.text \o <<>> = m.text BY <5>2, ConcatSimplifications
        <5>6. x = m.text BY <5>3, <5>4
        <5>7. Joined(r, b) = [text |-> x, calls |-> r.calls] BY <5>1
        <5> HIDE DEF r, x
        <5>5. Joined(r, b).text = x BY <5>7
        <5> QED BY <5>5, <5>6 DEF r
      <4>11. /\ u.blocks \in Seq(BlockSet) /\ Len(u.blocks) = 1 /\ u.blocks[1].kind = "text"
             /\ MessageRead(u.blocks).text = m.text
        <5> DEFINE bs == Append(e, b)
        <5>1. bs \in Seq(BlockSet) /\ Len(bs) = 1 /\ bs[1] = b /\ MessageRead(bs).text = m.text
          BY <4>6, <4>8, <4>9
        <5> HIDE DEF bs
        <5> QED BY <4>4, <4>10, <5>1 DEF bs
      <4>12. /\ Open(u) /\ u.committed /\ u.api = w.api /\ u.cut = w.cut /\ u.upstreamDone = w.upstreamDone
        BY <4>2, <4>3 DEF On, Same
      <4> HIDE DEF there
      <4> QED BY <4>1, <4>11, <4>12
    <3> QED BY <3>1, <3>2
  <2> HIDE DEF there, begun, b
  <2>3. On(there, v) /\ v.blocks = Longer(there.blocks, 1, c.v) BY <2>1, <2>2, OnFacts
  <2> DEFINE bs == there.blocks
             cs == Longer(bs, 1, c.v)
  <2>4. bs \in Seq(BlockSet) /\ 1 \in 1..Len(bs) /\ 1 = Len(bs) /\ bs[1].kind = "text" /\ c.v \in Pieces
        /\ MessageRead(bs).text = m.text
    BY <1>2, <2>2 DEF Accepts
  <2> HIDE DEF bs
  <2>5. /\ cs \in Seq(BlockSet) /\ Len(cs) = 1
        /\ MessageRead(cs) = [text |-> MessageRead(bs).text \o c.v, calls |-> MessageRead(bs).calls]
    BY <2>4, ReadingText
  <2>6. cs[1].kind = "text" BY <2>4, BlockPut
  <2> HIDE DEF cs
  <2>10. v.blocks = cs BY <2>3 DEF cs, bs
  <2>7. Tell(m, c) \in Message /\ MessageRead(cs).text = Tell(m, c).text
    <3> DEFINE x == MessageRead(bs).text \o c.v
    <3>1. x = m.text \o c.v BY <2>4
    <3>2. Tell(m, c) = [text |-> m.text \o c.v, calls |-> m.calls] /\ Tell(m, c) \in Message
      BY <1>1, <1>2, TellType DEF Tell
    <3>3. MessageRead(cs).text = x
      <4> HIDE DEF x
      <4>1. MessageRead(cs) = [text |-> x, calls |-> MessageRead(bs).calls] BY <2>5 DEF x
      <4> QED BY <4>1
    <3>4. Tell(m, c).text = x
      <4> HIDE DEF x
      <4>1. Tell(m, c) = [text |-> x, calls |-> m.calls] BY <3>1, <3>2
      <4> QED BY <4>1
    <3> QED BY <3>2, <3>3, <3>4
  <2> HIDE DEF v
  <2>8. v.api = "responses" /\ v.committed /\ v.cut = w.cut /\ v.upstreamDone = w.upstreamDone
    BY <2>2, <2>3 DEF On, Same
  <2>9. Laid(v, Tell(m, c)) BY <2>5, <2>6, <2>7, <2>8, <2>10 DEF Laid
  <2> QED BY <1>2, <2>8, <2>9 DEF Goes, v
<1>3. CASE c.k = "finish"
  <2>1. v = [w EXCEPT !.upstreamDone = TRUE, !.stop = c.id] BY <1>3 DEF ResponsesChunk
  <2>2. Tell(m, c) = m BY <1>3 DEF Tell
  <2> HIDE DEF v
  <2>3. /\ v.blocks = w.blocks /\ v.slots = w.slots /\ v.committed = w.committed /\ v.api = w.api
        /\ v.cut = w.cut /\ v.stop = c.id
    BY <2>1 DEF Open, Fields
  <2>4. Laid(v, m) BY <2>3 DEF Laid
  <2> QED BY <1>3, <2>2, <2>3, <2>4 DEF Goes, v
<1>4. CASE c.k \notin {"text", "finish"} BY <1>4, <1>1, TellType DEF ResponsesChunk, Laid, Goes
<1> QED BY <1>2, <1>3, <1>4

\* A chunk on any of the three wires.
LEMMA ChunkLays ==
    ASSUME NEW w, Open(w), w.api \in {"chat", "messages", "responses"}, w.cut = None, NEW m, Laid(w, m),
           NEW c, Accepts(m, c)
    PROVE  Goes(w, WriteChunk(w, c), m, c)
<1>1. CASE w.api = "chat" BY <1>1, ChatLays
<1>2. CASE w.api = "messages" BY <1>2, MessagesLays DEF WriteChunk
<1>3. CASE w.api = "responses" BY <1>3, ResponsesLays DEF WriteChunk
<1> QED BY <1>1, <1>2, <1>3

LEMMA WriteAllLays ==
    ASSUME NEW w, Open(w), w.api \in {"chat", "messages", "responses"}, w.cut = None, NEW m, Laid(w, m),
           NEW out, NEW k, Carries(out, m, k)
    PROVE  LET v == WriteAll(w, out)
           IN  /\ Laid(v, k) /\ v.cut = None
               /\ Plain(out) /\ w.api # "chat" => v.upstreamDone = w.upstreamDone
               /\ Len(out) > 0 /\ out[Len(out)].k = "finish" => Hidden(v) \/ v.stop = out[Len(out)].id
<1> DEFINE N == Len(out)
<1>1. PICK g : /\ g[0] = m /\ g[N] = k
               /\ \A n \in 1..N : Accepts(g[n - 1], out[n]) /\ g[n] = Tell(g[n - 1], out[n])
  BY DEF Carries
<1>2. N \in Nat /\ IsSeq(out) BY LenProperties DEF Carries, IsSeq
<1>3. PICK f : /\ f[0] = w /\ f[N] = WriteAll(w, out)
               /\ \A n \in 1..N : f[n] = WriteChunk(f[n - 1], out[n])
  BY <1>2, WriteAllSteps
<1> HIDE DEF N
<1> DEFINE Fine(n) == /\ Open(f[n]) /\ f[n].api = w.api /\ f[n].cut = None /\ Laid(f[n], g[n])
                      /\ Plain(out) /\ w.api # "chat" => f[n].upstreamDone = w.upstreamDone
           S == {n \in 0..N : Fine(n)}
<1>4. 0 \in S BY <1>1, <1>2, <1>3
<1>5. ASSUME NEW n \in 1..N, Fine(n - 1)
      PROVE  Fine(n) /\ (out[n].k = "finish" => Hidden(f[n]) \/ f[n].stop = out[n].id)
  BY <1>1, <1>3, <1>5, ChunkLays, ChunkProgress DEF Plain, N, Goes, Progress
<1>6. \A n \in 0..N : Fine(n)
  <2>1. ASSUME NEW n \in 1..N, n - 1 \in S PROVE n \in S
    <3>1. Fine(n - 1) BY <2>1
    <3>2. Fine(n) BY <1>5, <3>1
    <3> HIDE DEF Fine
    <3> QED BY <1>2, <3>2
  <2> HIDE DEF S
  <2>2. \A n \in 0..N : n \in S BY <1>2, <1>4, <2>1, Upward
  <2> QED BY <2>2 DEF S
<1>7. Fine(N) BY <1>2, <1>6
<1>8. N > 0 /\ out[N].k = "finish" => Hidden(f[N]) \/ f[N].stop = out[N].id
  <2>1. SUFFICES ASSUME N > 0 PROVE out[N].k = "finish" => Hidden(f[N]) \/ f[N].stop = out[N].id
    OBVIOUS
  <2>2. N \in 1..N /\ N - 1 \in 0..N BY <1>2, <2>1
  <2>3. Fine(N - 1) BY <1>6, <2>2
  <2> HIDE DEF Fine
  <2> QED BY <1>5, <2>2, <2>3
<1> QED BY <1>1, <1>3, <1>7, <1>8 DEF N

\* What the lists of chunks carry.
LEMMA CarriesFacts ==
    ASSUME NEW m
    PROVE  /\ Carries(<<>>, m, m) /\ Plain(<<>>)
           /\ \A x : Accepts(m, x) => Carries(<<x>>, m, Tell(m, x)) /\ (x.k # "finish" => Plain(<<x>>))
<1>1. Carries(<<>>, m, m)
  <2> DEFINE g == [n \in 0..0 |-> m]
             e == <<>>
  <2>1. g[0] = m /\ Len(e) = 0 /\ IsSeq(e) /\ \A n \in 1..Len(e) : FALSE BY Lists
  <2> HIDE DEF g, e
  <2>2. Carries(e, m, m) BY <2>1 DEF Carries
  <2> QED BY <2>2 DEF e
<1>2. Plain(<<>>) BY DEF Plain
<1>3. ASSUME NEW x, Accepts(m, x) PROVE Carries(<<x>>, m, Tell(m, x))
  <2> DEFINE g == [n \in 0..1 |-> IF n = 0 THEN m ELSE Tell(m, x)]
             out == <<x>>
  <2>1. g[0] = m /\ g[1] = Tell(m, x) /\ Len(out) = 1 /\ IsSeq(out) /\ out[1] = x BY Lists
  <2> HIDE DEF g, out
  <2>2. \A n \in 1..Len(out) : Accepts(g[n - 1], out[n]) /\ g[n] = Tell(g[n - 1], out[n])
    <3>1. ASSUME NEW n \in 1..Len(out) PROVE n = 1 /\ n - 1 = 0 BY <2>1
    <3> QED BY <1>3, <2>1, <3>1
  <2>3. Carries(out, m, Tell(m, x)) BY <2>1, <2>2 DEF Carries
  <2> QED BY <2>3 DEF out
<1>4. ASSUME NEW x, x.k # "finish" PROVE Plain(<<x>>) BY <1>4 DEF Plain
<1> QED BY <1>1, <1>2, <1>3, <1>4

LEMMA CarriesOn ==
    ASSUME NEW a, NEW b, NEW m, NEW k, NEW l, Carries(a, m, k), Carries(b, k, l)
    PROVE  /\ Carries(a \o b, m, l)
           /\ Plain(a) /\ Plain(b) => Plain(a \o b)
           /\ Len(b) > 0 => Len(a \o b) > 0 /\ (a \o b)[Len(a \o b)] = b[Len(b)]
<1> DEFINE N == Len(a)
           M == Len(b)
           all == a \o b
<1>1. N \in Nat /\ M \in Nat /\ IsSeq(a) /\ IsSeq(b) BY LenProperties DEF Carries, IsSeq
<1>2. /\ IsSeq(all) /\ Len(all) = N + M
      /\ \A n \in 1..(N + M) : all[n] = IF n <= N THEN a[n] ELSE b[n - N]
  <2>1. PICK A, B : a \in Seq(A) /\ b \in Seq(B) BY <1>1 DEF IsSeq
  <2>2. a \in Seq(A \cup B) /\ b \in Seq(A \cup B) BY <2>1
  <2>3. /\ all \in Seq(A \cup B) /\ Len(all) = N + M
        /\ \A n \in 1..(N + M) : all[n] = IF n <= N THEN a[n] ELSE b[n - N]
    BY <2>2, ConcatProperties
  <2> QED BY <2>3 DEF IsSeq
<1>3. PICK g : /\ g[0] = m /\ g[N] = k
               /\ \A n \in 1..N : Accepts(g[n - 1], a[n]) /\ g[n] = Tell(g[n - 1], a[n])
  BY DEF Carries
<1>4. PICK h : /\ h[0] = k /\ h[M] = l
               /\ \A n \in 1..M : Accepts(h[n - 1], b[n]) /\ h[n] = Tell(h[n - 1], b[n])
  BY DEF Carries
<1> HIDE DEF N, M, all
<1> DEFINE f == [n \in 0..(N + M) |-> IF n <= N THEN g[n] ELSE h[n - N]]
<1>5. f[0] = m /\ f[N + M] = l
  <2>1. 0 \in 0..(N + M) /\ N + M \in 0..(N + M) /\ (N + M <= N => M = 0) /\ 0 <= N /\ (N + M) - N = M /\ (M = 0 => N + M = N)
    BY <1>1
  <2> QED BY <1>3, <1>4, <2>1
<1>6. ASSUME NEW n \in 1..(N + M) PROVE Accepts(f[n - 1], all[n]) /\ f[n] = Tell(f[n - 1], all[n])
  <2>1. CASE n <= N BY <1>1, <2>1, <1>2, <1>3
  <2>2. CASE ~(n <= N)
    <3>1. n - N \in 1..M /\ n - 1 \in 0..(N + M) /\ n \in 0..(N + M) /\ (n - N) - 1 = (n - 1) - N
          /\ (n - 1 <= N => n - 1 = N /\ (n - N) - 1 = 0)
      BY <1>1, <2>2
    <3>2. f[n] = h[n - N] /\ all[n] = b[n - N] BY <1>2, <2>2, <3>1
    <3>3. f[n - 1] = h[(n - N) - 1]
      <4>1. CASE n - 1 <= N BY <3>1, <4>1, <1>3, <1>4
      <4>2. CASE ~(n - 1 <= N) BY <3>1, <4>2
      <4> QED BY <4>1, <4>2
    <3> QED BY <1>4, <3>1, <3>2, <3>3
  <2> QED BY <2>1, <2>2
<1> HIDE DEF f
<1>7. Carries(all, m, l) BY <1>2, <1>5, <1>6 DEF Carries
<1>8. ASSUME Plain(a), Plain(b) PROVE Plain(all)
  <2>1. ASSUME NEW n \in 1..(N + M) PROVE all[n].k # "finish"
    <3>1. CASE n <= N BY <1>1, <3>1, <1>2, <1>8 DEF Plain, N
    <3>2. CASE ~(n <= N) BY <1>1, <3>2, <1>2, <1>8 DEF Plain, M
    <3> QED BY <3>1, <3>2
  <2> QED BY <1>2, <2>1 DEF Plain
<1>9. M > 0 => Len(all) > 0 /\ all[Len(all)] = b[M]
  <2>1. SUFFICES ASSUME M > 0 PROVE Len(all) > 0 /\ all[Len(all)] = b[M] OBVIOUS
  <2>2. N + M \in 1..(N + M) /\ ~(N + M <= N) /\ (N + M) - N = M BY <1>1, <2>1
  <2> QED BY <1>1, <1>2, <2>2
<1> QED BY <1>7, <1>8, <1>9 DEF all, M

-----------------------------------------------------------------------------
(***************************************************************************)
(* A writer that has committed nothing has no blocks, whichever of its     *)
(* operations runs; and what ends a reply or collects one leaves it read   *)
(* as it was.                                                              *)
(***************************************************************************)
LEMMA ChunkUnwritten ==
    ASSUME NEW w, Open(w), Unwritten(w), NEW c
    PROVE  Unwritten(WriteChunk(w, c))
<1>1. ASSUME NEW v, v.committed = w.committed, v.blocks = w.blocks, v.slots = w.slots PROVE Unwritten(v)
  BY <1>1 DEF Unwritten
<1>2. ASSUME NEW v, NEW u, u.committed, Progress(u, v) PROVE Unwritten(v)
  BY <1>2 DEF Unwritten, Progress
<1>3. CASE w.api = "chat"
  <2> DEFINE v == WriteChunk(w, c)
             all == Append(w.body, c)
             kept == [w EXCEPT !.body = all]
             start == [kept EXCEPT !.committed = TRUE, !.body = <<>>]
  <2>1. v = IF w.committed THEN ReadChat(w, c) ELSE IF w.direct \/ ReplyChunk(c) THEN Commit(kept) ELSE kept
    BY <1>3 DEF WriteChunk, ChatChunk
  <2>2. CASE w.committed
    <3>1. v = ReadChat(w, c) /\ Progress(w, ReadChat(w, c))
      BY <2>1, <2>2, ReadChatSame, SameIsProgress
    <3> HIDE DEF v
    <3> QED BY <1>2, <2>2, <3>1 DEF v
  <2>3. CASE ~w.committed /\ (w.direct \/ ReplyChunk(c))
    <3>1. IsSeq(all) /\ IsSeq(<<>>) BY ListAdd, Lists DEF Open
    <3>2. v = Commit(kept) BY <2>1, <2>3
    <3> HIDE DEF all, v
    <3>3. /\ kept.body = all /\ Open(start) /\ start.committed BY <3>1 DEF Open, Fields
    <3>4. Commit(kept) = ReadAll(start, all) BY <3>3 DEF Commit
    <3> HIDE DEF start, kept
    <3>5. Progress(start, v) BY <3>1, <3>2, <3>3, <3>4, ReadAllProgress
    <3> QED BY <1>2, <3>3, <3>5 DEF v
  <2>4. CASE ~w.committed /\ ~(w.direct \/ ReplyChunk(c))
    <3>1. v = kept BY <2>1, <2>4
    <3> HIDE DEF v, all
    <3>2. v.committed = w.committed /\ v.blocks = w.blocks /\ v.slots = w.slots
      BY <3>1 DEF Open, Fields
    <3> QED BY <1>1, <3>2 DEF v
  <2> QED BY <2>2, <2>3, <2>4
<1>4. CASE w.api # "chat" /\ w.cut # None
  <2> DEFINE v == [w EXCEPT !.cut = None]
  <2>1. WriteChunk(w, c) = v BY <1>4 DEF WriteChunk
  <2>2. v.committed = w.committed /\ v.blocks = w.blocks /\ v.slots = w.slots BY DEF Open, Fields
  <2> HIDE DEF v
  <2> QED BY <1>1, <2>1, <2>2
<1>5. CASE w.api = "messages" /\ w.cut = None
  <2> DEFINE v == MessagesChunk(w, c)
             s == Start(w)
  <2>1. WriteChunk(w, c) = v BY <1>5 DEF WriteChunk
  <2>2. CASE c.k \in {"text", "call", "args"}
    <3>1. Open(s) /\ s.committed /\ s.api = "messages"
      <4> DEFINE told == Writes(w)
      <4>1. Same(w, told) /\ (w.committed => s = w) BY OpenStays DEF Start
      <4>2. ~w.committed => s = [[told EXCEPT !.began = TRUE] EXCEPT !.committed = TRUE]
        BY DEF Start, Begin
      <4> HIDE DEF told, s
      <4> QED BY <1>5, <4>1, <4>2 DEF Same, Open, Fields
    <3>2. Start(s) = s
      <4> HIDE DEF s
      <4> QED BY <3>1 DEF Start
    <3>3. MessagesChunk(s, c) = v BY <2>2, <3>2 DEF MessagesChunk, MessagesText, MessagesTool
    <3> HIDE DEF s, v
    <3>4. Progress(s, v) BY <3>1, <3>3, MessagesProgress
    <3> QED BY <1>2, <2>1, <3>1, <3>4
  <2>3. CASE c.k \notin {"text", "call", "args"}
    <3> DEFINE u == [w EXCEPT !.upstreamDone = TRUE, !.stop = c.id]
    <3>1. v = w \/ v = u BY <2>3 DEF MessagesChunk
    <3>2. u.committed = w.committed /\ u.blocks = w.blocks /\ u.slots = w.slots BY DEF Open, Fields
    <3> HIDE DEF u, v
    <3> QED BY <1>1, <2>1, <3>1, <3>2
  <2> QED BY <2>2, <2>3
<1>6. CASE w.api # "chat" /\ w.api # "messages" /\ w.cut = None
  <2> DEFINE v == ResponsesChunk(w, c)
  <2>1. WriteChunk(w, c) = v BY <1>6 DEF WriteChunk
  <2>2. CASE c.k = "text"
    <3> DEFINE begun == [w EXCEPT !.committed = TRUE]
               there == IF w.committed THEN w ELSE OpenBlock(begun, "text", None)
    <3>1. v = Delta(there, 1, c.v) BY <2>2 DEF ResponsesChunk
    <3>2. Open(begun) /\ begun.committed BY DEF Open, Fields
    <3>3. Open(there) /\ there.committed
      <4> HIDE DEF begun
      <4>1. Same(begun, OpenBlock(begun, "text", None)) BY <3>2, OpenStays
      <4> QED BY <3>2, <4>1 DEF Same
    <3> HIDE DEF there, v
    <3>4. Same(there, v) BY <3>1, <3>3, OpenStays
    <3> QED BY <1>2, <2>1, <3>3, <3>4, SameIsProgress
  <2>3. CASE c.k # "text"
    <3> DEFINE u == [w EXCEPT !.upstreamDone = TRUE, !.stop = c.id]
    <3>1. v = w \/ v = u BY <2>3 DEF ResponsesChunk
    <3>2. u.committed = w.committed /\ u.blocks = w.blocks /\ u.slots = w.slots BY DEF Open, Fields
    <3> HIDE DEF u, v
    <3> QED BY <1>1, <2>1, <3>1, <3>2
  <2> QED BY <2>2, <2>3
<1> QED BY <1>3, <1>4, <1>5, <1>6

LEMMA WriteAllUnwritten ==
    ASSUME NEW w, Open(w), Unwritten(w), NEW out, IsSeq(out)
    PROVE  Unwritten(WriteAll(w, out))
<1> DEFINE N == Len(out)
<1>1. PICK f : /\ f[0] = w /\ f[N] = WriteAll(w, out)
               /\ \A n \in 1..N : f[n] = WriteChunk(f[n - 1], out[n])
  BY WriteAllSteps
<1>2. N \in Nat BY WriteAllSteps
<1> HIDE DEF N
<1> DEFINE S == {n \in 0..N : Open(f[n]) /\ Unwritten(f[n])}
<1>3. 0 \in S BY <1>1, <1>2
<1>4. ASSUME NEW n \in 1..N, n - 1 \in S PROVE n \in S
  BY <1>1, <1>4, ChunkProgress, ChunkUnwritten, <1>2 DEF Progress
<1>5. N \in S
  <2> HIDE DEF S
  <2>1. \A n \in 0..N : n \in S BY <1>2, <1>3, <1>4, Upward
  <2> QED BY <1>2, <2>1
<1> QED BY <1>1, <1>5

LEMMA OthersUnwritten ==
    ASSUME NEW w, Open(w), Unwritten(w)
    PROVE  /\ \A m, reason : Unwritten(Collect(w, m, reason))
           /\ \A c : Unwritten(WriteCut(w, c))
           /\ Takes(w, NextAttempt(w)) /\ NextAttempt(w).committed = w.committed
           /\ Takes(w, Headers(NextAttempt(w)))
           /\ Headers(NextAttempt(w)).committed = (w.committed \/ (w.api = "chat" /\ w.direct))
<1>1. ASSUME NEW v, v.committed = w.committed, v.blocks = w.blocks, v.slots = w.slots PROVE Unwritten(v)
  BY <1>1 DEF Unwritten
<1>2. ASSUME NEW m, NEW reason PROVE Unwritten(Collect(w, m, reason))
  <2> DEFINE bs == <<[kind |-> "text", id |-> None, v |-> m.text, open |-> FALSE]>> \o
                   [i \in DOMAIN m.calls |->
                      [kind |-> "tool", id |-> m.calls[i].id, v |-> m.calls[i].args, open |-> FALSE]]
             u == [w EXCEPT !.committed = TRUE, !.upstreamDone = TRUE, !.stop = reason, !.blocks = bs]
  <2>1. Collect(w, m, reason) = w \/ Collect(w, m, reason) = u BY DEF Collect
  <2> HIDE DEF bs
  <2>2. u.committed BY DEF Open, Fields
  <2> HIDE DEF u
  <2> QED BY <2>1, <2>2 DEF Unwritten
<1>3. ASSUME NEW c PROVE Unwritten(WriteCut(w, c))
  <2> DEFINE cut == IF w.cut = None THEN c ELSE w.cut
             u == [w EXCEPT !.cut = cut]
  <2>1. WriteCut(w, c) = u \/ WriteCut(w, c) = w \/ (w.committed /\ WriteCut(w, c) = ReadChat(w, c))
    BY DEF WriteCut
  <2> HIDE DEF cut
  <2>2. u.committed = w.committed /\ u.blocks = w.blocks /\ u.slots = w.slots BY DEF Open, Fields
  <2> HIDE DEF u
  <2>3. Same(w, ReadChat(w, c)) BY ReadChatSame
  <2> QED BY <1>1, <2>1, <2>2, <2>3 DEF Unwritten, Same
<1> DEFINE n == NextAttempt(w)
           h == Headers(n)
           on == n.committed \/ (n.api = "chat" /\ n.direct)
<1>4. /\ DOMAIN n = Fields /\ n.cut = w.cut /\ n.upstreamDone = w.upstreamDone /\ n.body = <<>>
      /\ n.blocks = w.blocks /\ n.slots = w.slots /\ n.api = w.api /\ n.direct = w.direct /\ n.stream = w.stream
      /\ n.committed = w.committed
  BY DEF NextAttempt, Open, Fields
<1> HIDE DEF n
<1>5. h = [n EXCEPT !.committed = on] BY DEF Headers
<1> HIDE DEF on
<1>6. /\ h.cut = n.cut /\ h.upstreamDone = n.upstreamDone /\ h.body = n.body
      /\ h.blocks = n.blocks /\ h.slots = n.slots /\ h.api = n.api /\ h.direct = n.direct /\ h.stream = n.stream
      /\ h.committed = on
  BY <1>4, <1>5 DEF Fields
<1> HIDE DEF h
<1>7. Takes(w, n) /\ n.committed = w.committed BY <1>4 DEF Takes, Unwritten
<1>8. Takes(w, h) /\ h.committed = (w.committed \/ (w.api = "chat" /\ w.direct))
  BY <1>4, <1>6 DEF on, Takes, Unwritten
<1> QED BY <1>2, <1>3, <1>7, <1>8 DEF n, h

LEMMA CollectionType ==
    ASSUME NEW m \in Message
    PROVE  Collection(m) \in Seq(BlockSet)
<1> DEFINE N == Len(m.calls)
           head == [kind |-> "text", id |-> None, v |-> m.text, open |-> FALSE]
           tool(i) == [kind |-> "tool", id |-> m.calls[i].id, v |-> m.calls[i].args, open |-> FALSE]
           tools == [i \in 1..N |-> tool(i)]
<1>1. m.calls \in Seq(CallSet) /\ m.text \in Pieces /\ N \in Nat /\ DOMAIN m.calls = 1..N
      /\ \A i \in 1..N : m.calls[i] \in CallSet
  BY LenProperties, ElementOfSeq DEF Message
<1>2. head \in BlockSet /\ \A i \in 1..N : tool(i) \in BlockSet BY <1>1 DEF BlockSet, CallSet
<1>3. Collection(m) = <<head>> \o tools BY <1>1 DEF Collection
<1> HIDE DEF head, tool, N
<1>4. tools \in Seq(BlockSet) /\ <<head>> \in Seq(BlockSet) BY <1>1, <1>2
<1> HIDE DEF tools
<1>5. <<head>> \o tools \in Seq(BlockSet) BY <1>4, ConcatProperties
<1> QED BY <1>3, <1>5

\* What ends a reply leaves what was read of it.
LEMMA FinishedRereads ==
    ASSUME NEW w, DOMAIN w = Fields, w.blocks \in Seq(BlockSet), w.api \in {"chat", "messages", "responses"}
    PROVE  Reread(w, Finished(w))
<1> DEFINE once == [w EXCEPT !.finishedOnce = TRUE]
           closed == CloseBlocks(once)
           bs == [i \in DOMAIN once.blocks |-> [once.blocks[i] EXCEPT !.open = FALSE]]
<1>1. /\ DOMAIN once = Fields /\ once.blocks = w.blocks /\ once.stop = w.stop /\ once.api = w.api
      /\ once.stream = w.stream
  BY DEF Fields
<1>2. closed = [once EXCEPT !.blocks = bs] BY DEF CloseBlocks
<1>3. Len(w.blocks) \in Nat /\ DOMAIN w.blocks = 1..Len(w.blocks) /\ \A n \in 1..Len(w.blocks) : w.blocks[n] \in BlockSet
  BY LenProperties, ElementOfSeq
<1>4. bs \in Seq(BlockSet) /\ MessageRead(bs) = MessageRead(w.blocks)
  <2> HIDE DEF once
  <2>1. bs = [i \in 1..Len(w.blocks) |-> [w.blocks[i] EXCEPT !.open = FALSE]] BY <1>1, <1>3
  <2> DEFINE b(i) == [w.blocks[i] EXCEPT !.open = FALSE]
             N == Len(w.blocks)
  <2>2. \A i \in 1..N : /\ b(i) \in BlockSet /\ b(i).kind = w.blocks[i].kind /\ b(i).id = w.blocks[i].id
                        /\ b(i).v = w.blocks[i].v
    BY <1>3 DEF BlockSet
  <2>3. bs = [i \in 1..N |-> b(i)] /\ N \in Nat BY <1>3, <2>1
  <2> HIDE DEF b, bs, N
  <2>4. bs \in Seq(BlockSet) /\ Len(bs) = N /\ \A i \in 1..N : bs[i] = b(i) BY <2>2, <2>3
  <2>5. bs \in Seq(BlockSet) /\ Len(bs) = Len(w.blocks)
        /\ \A i \in 1..Len(w.blocks) : /\ bs[i].kind = w.blocks[i].kind /\ bs[i].id = w.blocks[i].id
                                       /\ bs[i].v = w.blocks[i].v
    BY <2>2, <2>4 DEF N
  <2> QED BY <2>5, ReadingSame
<1> HIDE DEF bs, once
<1>5. DOMAIN closed = Fields /\ closed.blocks = bs /\ closed.stop = w.stop /\ closed.api = w.api /\ closed.stream = w.stream
  BY <1>1, <1>2 DEF Fields
<1> HIDE DEF closed
<1>6. ASSUME NEW v, DOMAIN v = Fields, Reread(w, v), NEW k PROVE Reread(w, Ends(v, k))
  BY <1>6 DEF Reread, Ends, Fields
<1>7. Reread(w, w) /\ Reread(w, once) /\ Reread(w, closed) BY <1>1, <1>4, <1>5 DEF Reread
<1>8. \/ Finished(w) \in {w, once}
      \/ \E v \in {w, once, closed} : \E k : Finished(w) = Ends(v, k)
  BY DEF Finished, MessagesFinished, ResponsesFinished, once, closed
<1> QED BY <1>1, <1>5, <1>6, <1>7, <1>8

LEMMA FinishedNotDone ==
    ASSUME NEW w, DOMAIN w = Fields, w.api \in {"chat", "messages", "responses"},
           w.end # "done", w.failure \/ w.end # None
    PROVE  Finished(w).end # "done" /\ DOMAIN Finished(w) = Fields
<1> DEFINE once == [w EXCEPT !.finishedOnce = TRUE]
           closed == CloseBlocks(once)
<1>1. DOMAIN once = Fields /\ once.end = w.end BY DEF Fields
<1> HIDE DEF once
<1>2. DOMAIN closed = Fields /\ closed.end = w.end BY <1>1, CloseFacts DEF Kept
<1> HIDE DEF closed
<1>3. /\ \A k : Ends(w, k).end = (IF w.end = None THEN k ELSE w.end) /\ DOMAIN Ends(w, k) = Fields
      /\ \A k : Ends(once, k).end = (IF w.end = None THEN k ELSE w.end) /\ DOMAIN Ends(once, k) = Fields
      /\ \A k : Ends(closed, k).end = (IF w.end = None THEN k ELSE w.end) /\ DOMAIN Ends(closed, k) = Fields
  BY <1>1, <1>2, EndsFacts DEF Kept
<1>4. CASE w.api = "chat" BY <1>4, <1>3 DEF Finished
<1>5. CASE w.api = "messages" BY <1>5, <1>1, <1>3 DEF Finished, MessagesFinished, once, closed
<1>6. CASE w.api = "responses" BY <1>6, <1>1, <1>3 DEF Finished, ResponsesFinished, once, closed
<1> QED BY <1>4, <1>5, <1>6

LEMMA OnlyGoodIsDone ==
    ASSUME NEW w, LiveWire(w), NEW o
    PROVE  /\ Broken(w).end # "done"
           /\ Verdict(w, o) = "retry" => Answer(w).end # "done"
<1> DEFINE m == Fail(w)
           e == ErrorBody(w)
<1>1. /\ DOMAIN w = Fields /\ w.end = None /\ None # "done" /\ w.api \in {"chat", "messages", "responses"}
      /\ w.finishedOnce = FALSE
  BY ReplyStreamAssumption DEF LiveWire, Open
<1>2. DOMAIN m = Fields /\ m.end = None /\ m.failure = TRUE /\ m.api = w.api
  BY <1>1, MarkFacts DEF Kept
<1>3. DOMAIN e = Fields /\ e.end = "error" /\ e.api = w.api BY <1>1, EndsFacts DEF Kept, ErrorBody
<1>8. "error" # None BY ReplyStreamAssumption
<1> HIDE DEF m, e
<1>4. Finished(m).end # "done" /\ DOMAIN Finished(m) = Fields BY <1>1, <1>2, FinishedNotDone
<1>5. Finished(e).end # "done" BY <1>1, <1>3, <1>8, FinishedNotDone
<1>6. Broken(w).end # "done"
  <2>1. w.api # "chat" => Finished(Finished(m)) = Finished(m)
    <3>1. ASSUME w.api # "chat" PROVE Finished(m).finishedOnce /\ Finished(m).api \in {"messages", "responses"}
      <4>1. m.finishedOnce = FALSE BY <1>1, MarkFacts DEF m
      <4> QED BY <1>1, <1>2, <3>1, <4>1, FinishedFacts DEF Kept
    <3> QED BY <3>1, FinishedOnce
  <2>2. Broken(w) \in {w, Finished(m)} \/ (w.api # "chat" /\ Broken(w) = Finished(Finished(m)))
    BY DEF Broken, m
  <2> QED BY <1>1, <1>4, <2>1, <2>2
<1>7. ASSUME Verdict(w, o) = "retry" PROVE Answer(w).end # "done"
  <2>1. CASE w.direct BY <2>1, <1>3, <1>4 DEF Answer, m, e
  <2>2. CASE ~w.direct /\ w.api = "chat" BY <2>2, <1>3 DEF Answer, e
  <2>3. CASE ~w.direct /\ w.api = "messages"
    <3> DEFINE f == Finished(w)
    <3>1. Answer(w) = ErrorBody(f) BY <2>3 DEF Answer
    <3>2. ~w.committed /\ ~w.began BY <1>7, <2>3 DEF Verdict, LiveWire
    <3>3. DOMAIN f = Fields /\ f.end = None BY <1>1, <2>3, <3>2, FinishedFacts DEF Kept
    <3> HIDE DEF f
    <3>4. ErrorBody(f).end = "error" BY <3>3, EndsFacts DEF ErrorBody
    <3> QED BY <3>1, <3>4
  <2>4. CASE ~w.direct /\ w.api = "responses" BY <2>4, <1>5 DEF Answer, e
  <2> QED BY <1>1, <2>1, <2>2, <2>3, <2>4
<1> QED BY <1>6, <1>7

-----------------------------------------------------------------------------
(***************************************************************************)
(* The translators. Each yields chunks that tell a client exactly what it  *)
(* adds to its own feed.                                                   *)
(***************************************************************************)
LEMMA BriefIs ==
    ASSUME NEW cs \in Seq(ToolSet)
    PROVE  /\ Len(cs) \in Nat /\ Brief(cs) \in Seq(CallSet) /\ Len(Brief(cs)) = Len(cs)
           /\ DOMAIN cs = 1..Len(cs) /\ DOMAIN Brief(cs) = 1..Len(cs)
           /\ \A i \in 1..Len(cs) : /\ cs[i] \in ToolSet
                                    /\ Brief(cs)[i] = [id |-> cs[i].id, args |-> cs[i].args]
<1>1. Len(cs) \in Nat /\ DOMAIN cs = 1..Len(cs) /\ \A i \in 1..Len(cs) : cs[i] \in ToolSet
  BY LenProperties, ElementOfSeq
<1> DEFINE N == Len(cs)
           b(i) == [id |-> cs[i].id, args |-> cs[i].args]
<1>2. \A i \in 1..N : b(i) \in CallSet BY <1>1 DEF ToolSet, CallSet
<1>3. Brief(cs) = [i \in 1..N |-> b(i)] /\ N \in Nat BY <1>1 DEF Brief
<1> HIDE DEF b, N
<1>4. Brief(cs) \in Seq(CallSet) /\ Len(Brief(cs)) = N /\ DOMAIN Brief(cs) = 1..N /\ \A i \in 1..N : Brief(cs)[i] = b(i)
  BY <1>2, <1>3
<1> QED BY <1>1, <1>4 DEF b, N

LEMMA BriefAdds ==
    ASSUME NEW cs \in Seq(ToolSet), NEW x \in ToolSet
    PROVE  /\ Append(cs, x) \in Seq(ToolSet)
           /\ Brief(Append(cs, x)) = Append(Brief(cs), [id |-> x.id, args |-> x.args])
<1> DEFINE all == Append(cs, x)
           y == [id |-> x.id, args |-> x.args]
           N == Len(cs)
           old == Brief(cs)
<1>1. all \in Seq(ToolSet) /\ Len(all) = N + 1 /\ N \in Nat
      /\ \A j \in 1..(N + 1) : all[j] = IF j = N + 1 THEN x ELSE cs[j]
  BY AppendProperties, LenProperties
<1>2. y \in CallSet BY DEF ToolSet, CallSet
<1>3. old \in Seq(CallSet) /\ Len(old) = N /\ \A i \in 1..N : old[i] = [id |-> cs[i].id, args |-> cs[i].args]
  BY BriefIs
<1> HIDE DEF all, y, N, old
<1>4. Brief(all) \in Seq(CallSet) /\ Len(Brief(all)) = N + 1
      /\ \A i \in 1..(N + 1) : Brief(all)[i] = [id |-> all[i].id, args |-> all[i].args]
  BY <1>1, BriefIs
<1>5. Append(old, y) \in Seq(CallSet) /\ Len(Append(old, y)) = N + 1
      /\ \A j \in 1..(N + 1) : Append(old, y)[j] = IF j = N + 1 THEN y ELSE old[j]
  BY <1>1, <1>2, <1>3, AppendProperties
<1>6. \A j \in 1..(N + 1) : Brief(all)[j] = Append(old, y)[j] BY <1>1, <1>3, <1>4, <1>5 DEF y
<1> DEFINE p == Brief(all)
           q == Append(old, y)
<1> HIDE DEF p, q
<1>7. p = q BY <1>4, <1>5, <1>6, SeqEqual DEF p, q
<1> QED BY <1>1, <1>7 DEF p, q, all, y, old

LEMMA BriefPuts ==
    ASSUME NEW cs \in Seq(ToolSet), NEW i \in 1..Len(cs), NEW a \in Pieces
    PROVE  /\ Put(cs, i, a) \in Seq(ToolSet) /\ Len(Put(cs, i, a)) = Len(cs)
           /\ \A j \in 1..Len(cs) : Put(cs, i, a)[j] = IF j = i THEN [cs[j] EXCEPT !.args = a] ELSE cs[j]
           /\ Put(cs, i, a)[i].id = cs[i].id /\ Put(cs, i, a)[i].args = a
           /\ Brief(Put(cs, i, a)) = Put(Brief(cs), i, a)
<1> DEFINE x == [cs[i] EXCEPT !.args = a]
           all == [cs EXCEPT ![i] = x]
           N == Len(cs)
           old == Brief(cs)
           y == [old[i] EXCEPT !.args = a]
           new == [old EXCEPT ![i] = y]
<1>1. /\ N \in Nat /\ old \in Seq(CallSet) /\ Len(old) = N /\ \A j \in 1..N : cs[j] \in ToolSet
      /\ \A j \in 1..N : old[j] = [id |-> cs[j].id, args |-> cs[j].args]
  BY BriefIs
<1>2. x \in ToolSet /\ x.id = cs[i].id /\ x.args = a BY <1>1 DEF ToolSet
<1>3. y = [id |-> cs[i].id, args |-> a] /\ y \in CallSet
  <2> DEFINE o == old[i]
  <2>1. o = [id |-> cs[i].id, args |-> cs[i].args] BY <1>1
  <2> HIDE DEF o
  <2>2. [o EXCEPT !.args = a] = [id |-> cs[i].id, args |-> a] BY <2>1
  <2>3. y = [id |-> cs[i].id, args |-> a] BY <2>2 DEF o
  <2> QED BY <1>1, <2>3 DEF ToolSet, CallSet
<1> HIDE DEF x, old, y
<1>4. all \in Seq(ToolSet) /\ Len(all) = N /\ \A j \in 1..N : all[j] = IF j = i THEN x ELSE cs[j]
  BY <1>2
<1>5. new \in Seq(CallSet) /\ Len(new) = N /\ \A j \in 1..N : new[j] = IF j = i THEN y ELSE old[j]
  BY <1>1, <1>3
<1> HIDE DEF all, new, N
<1>6. Brief(all) \in Seq(CallSet) /\ Len(Brief(all)) = N
      /\ \A j \in 1..N : Brief(all)[j] = [id |-> all[j].id, args |-> all[j].args]
  BY <1>4, BriefIs
<1>7. \A j \in 1..N : Brief(all)[j] = new[j] BY <1>1, <1>2, <1>3, <1>4, <1>5, <1>6
<1> DEFINE p == Brief(all)
<1> HIDE DEF p
<1>8. p = new BY <1>5, <1>6, <1>7, SeqEqual DEF p
<1>9. all[i] = x BY <1>4 DEF N
<1> QED BY <1>2, <1>4, <1>8, <1>9 DEF p, all, new, N, old, x, y, Put

LEMMA HeedingCollects ==
    ASSUME NEW s, Heeding(s)
    PROVE  Collected(s) \in Message /\ Collected(s) = [text |-> s.text, calls |-> Brief(s.calls)]
BY BriefIs DEF Collected, Brief, Heeding, Message

LEMMA EventIs ==
    ASSUME NEW t, DOMAIN t = FeedFields, NEW out
    PROVE  /\ Event(Result(t, out), t, out) /\ Event(WithRole(Result(t, out)), t, out)
           /\ \A d, e : Event(CodexRole(d, Result(t, out), e), t, out)
<1> DEFINE r == Result(t, out)
<1>1. Event(r, t, out) BY DEF Result, FeedFields, Event
<1> HIDE DEF r
<1>2. Event([s |-> [r.s EXCEPT !.role = TRUE], out |-> <<Role>> \o r.out], t, out) \/ r.out # out
  <2> DEFINE q == [r.s EXCEPT !.role = TRUE]
             o == <<Role>> \o r.out
  <2>1. DOMAIN q = FeedFields /\ q.text = r.s.text /\ q.calls = r.s.calls
        /\ q.completed = r.s.completed /\ q.reason = r.s.reason
    BY <1>1 DEF Event, FeedFields
  <2> HIDE DEF q
  <2>2. r.out = out => o = <<Role>> \o out OBVIOUS
  <2> DEFINE p == [s |-> q, out |-> o]
  <2>3. p.s = q /\ p.out = o OBVIOUS
  <2> HIDE DEF o, p
  <2>4. r.out = out => Event(p, t, out) BY <1>1, <2>1, <2>2, <2>3 DEF Event
  <2> QED BY <2>4 DEF p, q, o
<1>3. r.out = out BY DEF r, Result
<1>4. WithRole(r) = r \/ WithRole(r) = [s |-> [r.s EXCEPT !.role = TRUE], out |-> <<Role>> \o r.out]
  BY DEF WithRole
<1>5. \A d, e : \/ CodexRole(d, r, e) \in {r, WithRole(r)}
                \/ CodexRole(d, r, e) = [s |-> [r.s EXCEPT !.role = TRUE], out |-> <<Role>> \o r.out]
  BY DEF CodexRole
<1> QED BY <1>1, <1>2, <1>3, <1>4, <1>5 DEF r

LEMMA RoleCarries ==
    ASSUME NEW m, NEW k, NEW out, Carries(out, m, k)
    PROVE  /\ Carries(<<Role>> \o out, m, k)
           /\ Plain(out) => Plain(<<Role>> \o out)
           /\ Len(out) > 0 => /\ Len(<<Role>> \o out) > 0
                              /\ (<<Role>> \o out)[Len(<<Role>> \o out)] = out[Len(out)]
<1> DEFINE q == Role
<1>1. Quiet(q) /\ q.k # "finish" BY DEF Quiet, Role, Chunk
<1> HIDE DEF q
<1>2. Accepts(m, q) /\ Tell(m, q) = m BY <1>1, QuietTells
<1>3. Carries(<<q>>, m, m) /\ Plain(<<q>>) BY <1>1, <1>2, CarriesFacts
<1> DEFINE a == <<q>>
<1> HIDE DEF a
<1>4. /\ Carries(a \o out, m, k)
      /\ Plain(out) => Plain(a \o out)
      /\ Len(out) > 0 => Len(a \o out) > 0 /\ (a \o out)[Len(a \o out)] = out[Len(out)]
  BY <1>3, CarriesOn DEF a
<1> QED BY <1>4 DEF a, q

LEMMA EventUtters ==
    ASSUME NEW s, NEW t, Heeding(t), t.completed = s.completed, t.reason = s.reason,
           NEW out, Carries(out, Collected(s), Collected(t)), Plain(out), NEW r, Event(r, t, out)
    PROVE  Utters(r, s, t.text, t.calls)
<1>1. Heeding(r.s) /\ Collected(r.s) = Collected(t) BY DEF Heeding, Event, Collected
<1>2. Carries(r.out, Collected(s), Collected(t)) /\ Plain(r.out) BY RoleCarries DEF Event
<1> QED BY <1>1, <1>2 DEF Utters, Event

LEMMA EventConcludes ==
    ASSUME NEW s, NEW t, Heeding(t), t.completed = TRUE, NEW r, Event(r, t, <<Finish(t.reason)>>)
    PROVE  Concludes(r, s, t.text, t.calls, t.reason)
<1> DEFINE x == Finish(t.reason)
           out == <<x>>
           m == Collected(s)
<1>1. x.k = "finish" /\ x.id = t.reason /\ Quiet(x) BY DEF Finish, Chunk, Quiet
<1>2. Len(out) > 0 /\ out[Len(out)] = x OBVIOUS
<1> HIDE DEF x, m
<1>3. Carries(out, m, m) BY <1>1, QuietTells, CarriesFacts
<1>4. Event(r, t, out) BY DEF x
<1> HIDE DEF out
<1>5. Carries(r.out, m, m) /\ Len(r.out) > 0 /\ r.out[Len(r.out)] = x
  <2>1. r.out = out \/ r.out = <<Role>> \o out BY <1>4 DEF Event
  <2> DEFINE o == <<Role>> \o out
  <2>2. Carries(o, m, m) /\ Len(o) > 0 /\ o[Len(o)] = x BY <1>2, <1>3, RoleCarries
  <2> HIDE DEF o
  <2> QED BY <1>2, <1>3, <2>1, <2>2 DEF o
<1>6. /\ Heeding(r.s) /\ r.s.completed = TRUE /\ r.s.reason = t.reason
      /\ r.s.text = t.text /\ r.s.calls = t.calls
  BY <1>4 DEF Heeding, Event
<1> QED BY <1>1, <1>5, <1>6 DEF Concludes, m

LEMMA QuietUtters ==
    ASSUME NEW s, Heeding(s), NEW t, DOMAIN t = FeedFields, t.text = s.text, t.calls = s.calls,
           t.completed = s.completed, t.reason = s.reason, NEW out,
           out = <<>> \/ \E q : Quiet(q) /\ q.k # "finish" /\ out = <<q>>, NEW r, Event(r, t, out)
    PROVE  Utters(r, s, s.text, s.calls)
<1>1. Heeding(t) /\ Collected(t) = Collected(s) BY DEF Heeding, Collected
<1> DEFINE m == Collected(s)
<1> HIDE DEF m
<1>2. Carries(out, m, m) /\ Plain(out)
  <2>1. CASE out = <<>> BY <2>1, CarriesFacts
  <2>2. ASSUME NEW q, Quiet(q), q.k # "finish", out = <<q>> PROVE Carries(out, m, m) /\ Plain(out)
    BY <2>2, QuietTells, CarriesFacts
  <2> QED BY <2>1, <2>2
<1> QED BY <1>1, <1>2, EventUtters DEF m

LEMMA TextUtters ==
    ASSUME NEW s, Heeding(s), NEW v \in Pieces, NEW t, DOMAIN t = FeedFields, t.text = s.text \o v,
           t.calls = s.calls, t.completed = s.completed, t.reason = s.reason,
           NEW r, Event(r, t, <<Text(v)>>)
    PROVE  Utters(r, s, s.text \o v, s.calls)
<1>1. s.text \o v \in Pieces BY DEF Heeding, Pieces
<1>2. Heeding(t) BY <1>1 DEF Heeding
<1>3. /\ Collected(s) = [text |-> s.text, calls |-> Brief(s.calls)]
      /\ Collected(t) = [text |-> t.text, calls |-> Brief(t.calls)]
  BY <1>2, HeedingCollects
<1> DEFINE x == Text(v)
<1>4. x.k = "text" /\ x.v = v BY DEF Text, Chunk
<1> HIDE DEF x
<1>5. Accepts(Collected(s), x) /\ Tell(Collected(s), x) = Collected(t)
  BY <1>3, <1>4 DEF Accepts, Tell
<1>6. Carries(<<x>>, Collected(s), Collected(t)) /\ Plain(<<x>>) BY <1>4, <1>5, CarriesFacts
<1> QED BY <1>2, <1>6, EventUtters DEF x

LEMMA AddUtters ==
    ASSUME NEW s, Heeding(s), NEW x \in ToolSet, NEW t, DOMAIN t = FeedFields, t.text = s.text,
           t.calls = Append(s.calls, x), t.completed = s.completed, t.reason = s.reason,
           Len(s.calls) + 1 <= MaxCalls,
           NEW r, Event(r, t, <<Announce(Len(s.calls) + 1, x.id, x.args)>>)
    PROVE  Utters(r, s, s.text, Append(s.calls, x))
<1>1. /\ Append(s.calls, x) \in Seq(ToolSet)
      /\ Brief(Append(s.calls, x)) = Append(Brief(s.calls), [id |-> x.id, args |-> x.args])
  BY BriefAdds DEF Heeding
<1>2. Heeding(t) BY <1>1 DEF Heeding
<1>3. /\ Collected(s) = [text |-> s.text, calls |-> Brief(s.calls)]
      /\ Collected(t) = [text |-> t.text, calls |-> Brief(t.calls)]
  BY <1>2, HeedingCollects
<1>4. Len(s.calls) \in Nat /\ Len(Brief(s.calls)) = Len(s.calls) /\ MaxCalls \in Nat
  BY BriefIs, ReplyStreamAssumption DEF Heeding
<1> DEFINE c == Announce(Len(s.calls) + 1, x.id, x.args)
<1>5. c.k = "call" /\ c.v = x.args /\ c.id = x.id /\ c.i = Len(s.calls) + 1 BY DEF Announce, Chunk
<1>6. x.args \in Pieces /\ x.id \in Nat \cup {None} BY DEF ToolSet
<1> HIDE DEF c
<1>7. Accepts(Collected(s), c) BY <1>3, <1>4, <1>5, <1>6 DEF Accepts
<1>8. Tell(Collected(s), c) = Collected(t)
  <2> DEFINE m == Collected(s)
             new == Append(Brief(s.calls), [id |-> x.id, args |-> x.args])
  <2>1. m = [text |-> s.text, calls |-> Brief(s.calls)] /\ Collected(t) = [text |-> s.text, calls |-> new]
    BY <1>1, <1>3
  <2> HIDE DEF m
  <2>2. Tell(m, c) = [text |-> m.text, calls |-> Append(m.calls, [id |-> c.id, args |-> c.v])]
    BY <1>5 DEF Tell
  <2>3. m.text = s.text /\ Append(m.calls, [id |-> c.id, args |-> c.v]) = new BY <1>5, <2>1
  <2> HIDE DEF new
  <2> QED BY <2>1, <2>2, <2>3 DEF m
<1>9. Carries(<<c>>, Collected(s), Collected(t)) /\ Plain(<<c>>) BY <1>5, <1>7, <1>8, CarriesFacts
<1> QED BY <1>2, <1>9, EventUtters DEF c

LEMMA ArgsUtters ==
    ASSUME NEW s, Heeding(s), NEW i \in 1..Len(s.calls), i <= MaxCalls, NEW v \in Pieces, v # <<>>,
           NEW t, DOMAIN t = FeedFields, t.text = s.text,
           t.calls = Fuller(s.calls, i, v), t.completed = s.completed, t.reason = s.reason,
           NEW r, Event(r, t, <<Args(i, v)>>)
    PROVE  Utters(r, s, s.text, Fuller(s.calls, i, v))
<1> DEFINE a == s.calls[i].args \o v
<1>1. /\ Len(s.calls) \in Nat /\ Len(Brief(s.calls)) = Len(s.calls) /\ MaxCalls \in Nat
      /\ s.calls[i] \in ToolSet /\ Brief(s.calls)[i] = [id |-> s.calls[i].id, args |-> s.calls[i].args]
  BY BriefIs, ReplyStreamAssumption DEF Heeding
<1>2. a \in Pieces BY <1>1 DEF ToolSet, Pieces
<1>3. Brief(s.calls)[i].args \o v = a BY <1>1
<1> HIDE DEF a
<1> DEFINE new == Put(s.calls, i, a)
<1>4. new \in Seq(ToolSet) /\ Brief(new) = Put(Brief(s.calls), i, a) BY <1>2, BriefPuts DEF Heeding
<1>5. Fuller(s.calls, i, v) = new BY DEF Fuller, a
<1> HIDE DEF new
<1>6. Heeding(t) /\ t.calls = new BY <1>4, <1>5 DEF Heeding
<1>7. /\ Collected(s) = [text |-> s.text, calls |-> Brief(s.calls)]
      /\ Collected(t) = [text |-> t.text, calls |-> Brief(t.calls)]
  BY <1>6, HeedingCollects
<1> DEFINE c == Args(i, v)
<1>8. c.k = "args" /\ c.v = v /\ c.i = i BY DEF Args, Chunk
<1> HIDE DEF c
<1>9. Accepts(Collected(s), c) BY <1>1, <1>7, <1>8 DEF Accepts
<1>10. Tell(Collected(s), c) = Collected(t)
  <2> DEFINE m == Collected(s)
             old == Brief(s.calls)
             calls == Put(old, i, a)
  <2>1. m = [text |-> s.text, calls |-> old] /\ old[i].args \o v = a BY <1>3, <1>7
  <2>2. Tell(m, c) = Told(m, i, m.calls[i].args \o v) BY <1>8 DEF Tell
  <2>3. Collected(t) = [text |-> s.text, calls |-> calls] BY <1>4, <1>6, <1>7
  <2> HIDE DEF m, old
  <2>4. m.calls[i].args \o v = a BY <2>1
  <2>5. Told(m, i, a) = [m EXCEPT !.calls = [old EXCEPT ![i] = [old[i] EXCEPT !.args = a]]]
    BY <2>1 DEF Told
  <2> HIDE DEF calls
  <2>6. Told(m, i, a) = [text |-> s.text, calls |-> calls] BY <2>1, <2>5 DEF calls, Put
  <2> QED BY <2>2, <2>3, <2>4, <2>6 DEF m
<1>11. Carries(<<c>>, Collected(s), Collected(t)) /\ Plain(<<c>>) BY <1>8, <1>9, <1>10, CarriesFacts
<1>12. Event(r, t, <<c>>) BY DEF c
<1>13. Utters(r, s, t.text, t.calls) BY <1>6, <1>11, <1>12, EventUtters
<1> QED BY <1>13

\* The events of an Anthropic upstream.
LEMMA AnthropicUtters ==
    ASSUME NEW s, Heeding(s)
    PROVE  /\ Utters(Ignored(s), s, s.text, s.calls) /\ Utters(Failed(s), s, s.text, s.calls)
           /\ \A v \in Pieces : Utters(AnthropicText(s, v), s, s.text \o v, s.calls)
           /\ Utters(AnthropicThinking(s), s, s.text, s.calls)
           /\ \A id \in Nat : Len(s.calls) + 1 <= MaxCalls =>
                 Utters(AnthropicToolUse(s, id), s, s.text,
                        Append(s.calls, [id |-> id, item |-> None, out |-> None, args |-> <<>>]))
           /\ \A v \in Pieces : v # <<>> /\ Len(s.calls) \in 1..MaxCalls =>
                 Utters(AnthropicInput(s, v), s, s.text, Fuller(s.calls, Len(s.calls), v))
           /\ \A reason : Concludes(AnthropicEnd(s, reason), s, s.text, s.calls,
                                    AnthropicReason(reason, s.calls # <<>>))
<1>1. DOMAIN s = FeedFields BY DEF Heeding
<1>2. Utters(Ignored(s), s, s.text, s.calls) BY <1>1, EventIs, QuietUtters DEF Ignored
<1>3. Utters(Failed(s), s, s.text, s.calls)
  <2> DEFINE t == [s EXCEPT !.failed = TRUE]
  <2>1. /\ DOMAIN t = FeedFields /\ t.text = s.text /\ t.calls = s.calls
        /\ t.completed = s.completed /\ t.reason = s.reason
    BY <1>1 DEF FeedFields
  <2>2. Failed(s) = Result(t, <<>>) BY DEF Failed
  <2> HIDE DEF t
  <2> DEFINE r == Failed(s)
  <2>3. Event(r, t, <<>>) BY <2>1, <2>2, EventIs
  <2> HIDE DEF r
  <2>4. Utters(r, s, s.text, s.calls) BY <2>1, <2>3, QuietUtters
  <2> QED BY <2>4 DEF r
<1>4. ASSUME NEW v \in Pieces PROVE Utters(AnthropicText(s, v), s, s.text \o v, s.calls)
  <2> DEFINE text == s.text \o v
             t == [s EXCEPT !.text = text]
             r == AnthropicText(s, v)
             out == <<Text(v)>>
  <2>1. r = WithRole(Result(t, out)) BY DEF AnthropicText
  <2> HIDE DEF text
  <2>2. /\ DOMAIN t = FeedFields /\ t.text = text /\ t.calls = s.calls
        /\ t.completed = s.completed /\ t.reason = s.reason
    BY <1>1 DEF FeedFields
  <2> HIDE DEF t, r, out
  <2>3. Event(r, t, out) BY <2>1, <2>2, EventIs
  <2>4. Utters(r, s, text, s.calls) BY <2>2, <2>3, TextUtters DEF text, out
  <2> QED BY <2>4 DEF r, text
<1>5. Utters(AnthropicThinking(s), s, s.text, s.calls)
  <2> DEFINE t == [s EXCEPT !.thought = TRUE]
             r == AnthropicThinking(s)
             out == <<Think>>
  <2>1. r = WithRole(Result(t, out)) BY DEF AnthropicThinking
  <2>2. /\ DOMAIN t = FeedFields /\ t.text = s.text /\ t.calls = s.calls
        /\ t.completed = s.completed /\ t.reason = s.reason
    BY <1>1 DEF FeedFields
  <2>3. Quiet(Think) /\ Think.k # "finish" BY DEF Quiet, Think, Chunk
  <2> HIDE DEF t, r
  <2>4. Event(r, t, out) BY <2>1, <2>2, EventIs
  <2>5. Utters(r, s, s.text, s.calls) BY <2>2, <2>3, <2>4, QuietUtters
  <2> QED BY <2>5 DEF r
<1>6. ASSUME NEW id \in Nat, Len(s.calls) + 1 <= MaxCalls
      PROVE  Utters(AnthropicToolUse(s, id), s, s.text,
                    Append(s.calls, [id |-> id, item |-> None, out |-> None, args |-> <<>>]))
  <2> DEFINE x == [id |-> id, item |-> None, out |-> None, args |-> <<>>]
             cs == Append(s.calls, x)
             t == [s EXCEPT !.calls = cs]
             r == AnthropicToolUse(s, id)
             out == <<Announce(Len(s.calls) + 1, x.id, x.args)>>
  <2>1. r = WithRole(Result(t, out)) BY DEF AnthropicToolUse
  <2>2. x \in ToolSet BY DEF ToolSet, Pieces
  <2> HIDE DEF x, cs
  <2>3. /\ DOMAIN t = FeedFields /\ t.text = s.text /\ t.calls = cs
        /\ t.completed = s.completed /\ t.reason = s.reason
    BY <1>1 DEF FeedFields
  <2> HIDE DEF t, r, out
  <2>4. Event(r, t, out) BY <2>1, <2>3, EventIs
  <2>5. Utters(r, s, s.text, cs) BY <1>6, <2>2, <2>3, <2>4, AddUtters DEF cs, out
  <2> QED BY <2>5 DEF r, cs, x
<1>7. ASSUME NEW v \in Pieces, v # <<>>, Len(s.calls) \in 1..MaxCalls
      PROVE  Utters(AnthropicInput(s, v), s, s.text, Fuller(s.calls, Len(s.calls), v))
  <2> DEFINE i == Len(s.calls)
             cs == Fuller(s.calls, i, v)
             t == [s EXCEPT !.calls = cs]
             r == AnthropicInput(s, v)
             out == <<Args(i, v)>>
  <2>1. r = WithRole(Result(t, out)) BY DEF AnthropicInput, Fuller, Put
  <2>2. i \in 1..Len(s.calls) /\ i <= MaxCalls BY <1>7, ReplyStreamAssumption
  <2> HIDE DEF i, cs
  <2>3. /\ DOMAIN t = FeedFields /\ t.text = s.text /\ t.calls = cs
        /\ t.completed = s.completed /\ t.reason = s.reason
    BY <1>1 DEF FeedFields
  <2> HIDE DEF t, r, out
  <2>4. Event(r, t, out) BY <2>1, <2>3, EventIs
  <2>5. Utters(r, s, s.text, cs) BY <1>7, <2>2, <2>3, <2>4, ArgsUtters DEF cs, out
  <2> QED BY <2>5 DEF r, cs, i
<1>8. ASSUME NEW reason
      PROVE  Concludes(AnthropicEnd(s, reason), s, s.text, s.calls, AnthropicReason(reason, s.calls # <<>>))
  <2> DEFINE why == AnthropicReason(reason, s.calls # <<>>)
             t == [s EXCEPT !.completed = TRUE, !.reason = why]
             r == AnthropicEnd(s, reason)
             out == <<Finish(why)>>
  <2>1. r = WithRole(Result(t, out)) BY DEF AnthropicEnd
  <2> HIDE DEF why
  <2>2. /\ DOMAIN t = FeedFields /\ t.text = s.text /\ t.calls = s.calls
        /\ t.completed = TRUE /\ t.reason = why
    BY <1>1 DEF FeedFields
  <2> HIDE DEF t, r
  <2>3. Event(r, t, <<Finish(t.reason)>>) /\ Heeding(t) BY <2>1, <2>2, EventIs DEF Heeding
  <2>4. Concludes(r, s, s.text, s.calls, why) BY <2>2, <2>3, EventConcludes
  <2> QED BY <2>4 DEF r, why
<1> QED BY <1>2, <1>3, <1>4, <1>5, <1>6, <1>7, <1>8

\* The events of a Responses upstream.
LEMMA ResponsesUtters ==
    ASSUME NEW s, Heeding(s), NEW d
    PROVE  /\ \A v \in Pieces : Utters(ResponsesText(d, s, v), s, s.text \o v, s.calls)
           /\ \A v \in Pieces : d # "codex" /\ s.text = <<>> =>
                 Utters(ResponsesMessageDone(d, s, v), s, s.text \o v, s.calls)
           /\ Utters(ResponsesReasoning(d, s), s, s.text, s.calls)
           /\ Utters(ResponsesReasoningDone(d, s), s, s.text, s.calls)
<1>1. DOMAIN s = FeedFields BY DEF Heeding
<1>2. ASSUME NEW v \in Pieces, NEW r,
             LET t == [s EXCEPT !.text = s.text \o v]
             IN r \in {CodexRole(d, Result(t, <<Text(v)>>), TRUE), WithRole(Result(t, <<Text(v)>>))}
      PROVE  Utters(r, s, s.text \o v, s.calls)
  <2> DEFINE text == s.text \o v
             t == [s EXCEPT !.text = text]
             out == <<Text(v)>>
  <2>1. r \in {CodexRole(d, Result(t, out), TRUE), WithRole(Result(t, out))} BY <1>2
  <2> HIDE DEF text
  <2>2. /\ DOMAIN t = FeedFields /\ t.text = text /\ t.calls = s.calls
        /\ t.completed = s.completed /\ t.reason = s.reason
    BY <1>1 DEF FeedFields
  <2> HIDE DEF t, out
  <2>3. Event(r, t, out) BY <2>1, <2>2, EventIs
  <2>4. Utters(r, s, text, s.calls) BY <2>2, <2>3, TextUtters DEF text, out
  <2> QED BY <2>4 DEF text
<1>3. ASSUME NEW v \in Pieces PROVE Utters(ResponsesText(d, s, v), s, s.text \o v, s.calls)
  BY <1>2 DEF ResponsesText
<1>4. ASSUME NEW v \in Pieces, d # "codex", s.text = <<>>
      PROVE  Utters(ResponsesMessageDone(d, s, v), s, s.text \o v, s.calls)
  <2>1. s.text \o v = v BY <1>4 DEF Pieces
  <2>2. ResponsesMessageDone(d, s, v) = WithRole(Result([s EXCEPT !.text = v], <<Text(v)>>))
    BY <1>4 DEF ResponsesMessageDone
  <2> QED BY <1>2, <2>1, <2>2
<1>5. Utters(Ignored(s), s, s.text, s.calls) BY AnthropicUtters
<1>6. \A e : /\ Utters(CodexRole(d, Result([s EXCEPT !.thought = TRUE], <<Think>>), e), s, s.text, s.calls)
             /\ Utters(CodexRole(d, Ignored(s), e), s, s.text, s.calls)
  <2> DEFINE t == [s EXCEPT !.thought = TRUE]
             out == <<Think>>
             r(e) == CodexRole(d, Result(t, out), e)
             q(e) == CodexRole(d, Result(s, <<>>), e)
  <2>1. /\ DOMAIN t = FeedFields /\ t.text = s.text /\ t.calls = s.calls
        /\ t.completed = s.completed /\ t.reason = s.reason
    BY <1>1 DEF FeedFields
  <2>2. Quiet(Think) /\ Think.k # "finish" BY DEF Quiet, Think, Chunk
  <2>3. \A e : Event(q(e), s, <<>>) BY <1>1, EventIs
  <2> HIDE DEF t
  <2>4. \A e : Event(r(e), t, out) BY <2>1, EventIs
  <2> HIDE DEF r, q
  <2>5. \A e : Utters(r(e), s, s.text, s.calls) BY <2>1, <2>2, <2>4, QuietUtters
  <2>6. \A e : Utters(q(e), s, s.text, s.calls) BY <1>1, <2>3, QuietUtters
  <2> QED BY <2>5, <2>6 DEF r, q, t, Ignored
<1>7. Utters(ResponsesReasoning(d, s), s, s.text, s.calls) BY <1>6 DEF ResponsesReasoning
<1>8. Utters(ResponsesReasoningDone(d, s), s, s.text, s.calls) BY <1>6 DEF ResponsesReasoningDone
<1> QED BY <1>3, <1>4, <1>7, <1>8

\* The events of the calls of a Responses upstream.
LEMMA ResponsesCallsUtter ==
    ASSUME NEW s, Heeding(s), NEW d, NEW ev
    PROVE  /\ {ev.call, ev.item, ev.out} \subseteq Nat \cup {None} /\ Len(s.calls) + 1 <= MaxCalls =>
                 Utters(ResponsesItemAdded(d, s, ev), s, s.text,
                        Append(s.calls, [id |-> ev.call, item |-> ev.item, out |-> ev.out, args |-> <<>>]))
           /\ \A v \in Pieces :
                 /\ FindTool(d, s, ev) = 0 => Utters(ResponsesArgs(d, s, ev, v), s, s.text, s.calls)
                 /\ FindTool(d, s, ev) \in 1..Len(s.calls) /\ FindTool(d, s, ev) <= MaxCalls /\ v # <<>> =>
                       Utters(ResponsesArgs(d, s, ev, v), s, s.text, Fuller(s.calls, FindTool(d, s, ev), v))
           /\ \A v \in Pieces : \A i \in 1..Len(s.calls) : FindTool(d, s, ev) = i /\ i <= MaxCalls =>
                 Utters(ResponsesCallDone(d, s, ev, v), s, s.text,
                        Finals(s.calls, i, v))
<1>1. DOMAIN s = FeedFields /\ Len(s.calls) \in Nat BY BriefIs DEF Heeding
<1>2. ASSUME {ev.call, ev.item, ev.out} \subseteq Nat \cup {None}, Len(s.calls) + 1 <= MaxCalls
      PROVE  Utters(ResponsesItemAdded(d, s, ev), s, s.text,
                    Append(s.calls, [id |-> ev.call, item |-> ev.item, out |-> ev.out, args |-> <<>>]))
  <2> DEFINE x == [id |-> ev.call, item |-> ev.item, out |-> ev.out, args |-> <<>>]
             cs == Append(s.calls, x)
             t == [s EXCEPT !.calls = cs]
             r == ResponsesItemAdded(d, s, ev)
             out == <<Announce(Len(s.calls) + 1, x.id, x.args)>>
  <2>1. r = CodexRole(d, Result(t, out), TRUE) BY DEF ResponsesItemAdded, AddTool
  <2>2. x \in ToolSet BY <1>2 DEF ToolSet, Pieces
  <2> HIDE DEF x, cs
  <2>3. /\ DOMAIN t = FeedFields /\ t.text = s.text /\ t.calls = cs
        /\ t.completed = s.completed /\ t.reason = s.reason
    BY <1>1 DEF FeedFields
  <2> HIDE DEF t, r, out
  <2>4. Event(r, t, out) BY <2>1, <2>3, EventIs
  <2>5. Utters(r, s, s.text, cs) BY <1>2, <2>2, <2>3, <2>4, AddUtters DEF cs, out
  <2> QED BY <2>5 DEF r, cs, x
<1>3. \A e : Utters(CodexRole(d, Ignored(s), e), s, s.text, s.calls)
  <2> DEFINE q(e) == CodexRole(d, Result(s, <<>>), e)
  <2>1. \A e : Event(q(e), s, <<>>) BY <1>1, EventIs
  <2> HIDE DEF q
  <2>2. \A e : Utters(q(e), s, s.text, s.calls) BY <1>1, <2>1, QuietUtters
  <2> QED BY <2>2 DEF q, Ignored
<1>4. ASSUME NEW i \in 1..Len(s.calls), i <= MaxCalls, NEW v \in Pieces, v # <<>>, NEW e
      PROVE  Utters(CodexRole(d, Result([s EXCEPT !.calls = Fuller(s.calls, i, v)], <<Args(i, v)>>), e), s, s.text,
                    Fuller(s.calls, i, v))
  <2> DEFINE cs == Fuller(s.calls, i, v)
             t == [s EXCEPT !.calls = cs]
             out == <<Args(i, v)>>
             r == CodexRole(d, Result(t, out), e)
  <2> HIDE DEF cs
  <2>1. /\ DOMAIN t = FeedFields /\ t.text = s.text /\ t.calls = cs
        /\ t.completed = s.completed /\ t.reason = s.reason
    BY <1>1 DEF FeedFields
  <2>2. Event(r, t, out)
    <3> HIDE DEF t, out
    <3> QED BY <2>1, EventIs
  <2> HIDE DEF t, r, out
  <2>3. Utters(r, s, s.text, cs) BY <1>4, <2>1, <2>2, ArgsUtters DEF cs, out
  <2> QED BY <2>3 DEF r, cs, t, out
<1>5. ASSUME NEW v \in Pieces
      PROVE  /\ FindTool(d, s, ev) = 0 => Utters(ResponsesArgs(d, s, ev, v), s, s.text, s.calls)
             /\ FindTool(d, s, ev) \in 1..Len(s.calls) /\ FindTool(d, s, ev) <= MaxCalls /\ v # <<>> =>
                   Utters(ResponsesArgs(d, s, ev, v), s, s.text, Fuller(s.calls, FindTool(d, s, ev), v))
  <2> DEFINE i == FindTool(d, s, ev)
  <2>1. ASSUME i = 0 PROVE Utters(ResponsesArgs(d, s, ev, v), s, s.text, s.calls)
    BY <2>1, <1>3 DEF ResponsesArgs
  <2>2. ASSUME i \in 1..Len(s.calls), i <= MaxCalls, v # <<>>
        PROVE  Utters(ResponsesArgs(d, s, ev, v), s, s.text, Fuller(s.calls, i, v))
    <3>1. i # 0 BY <1>1, <2>2
    <3>2. ResponsesArgs(d, s, ev, v) =
            CodexRole(d, Result([s EXCEPT !.calls = Fuller(s.calls, i, v)], <<Args(i, v)>>), TRUE)
      BY <3>1 DEF ResponsesArgs, Fuller, Put
    <3> HIDE DEF i
    <3> QED BY <1>4, <2>2, <3>2
  <2> QED BY <2>1, <2>2
<1>6. ASSUME NEW v \in Pieces, NEW i \in 1..Len(s.calls), FindTool(d, s, ev) = i, i <= MaxCalls
      PROVE  Utters(ResponsesCallDone(d, s, ev, v), s, s.text,
                    Finals(s.calls, i, v))
  <2>1. i # 0 BY <1>1
  <2>2. ASSUME s.calls[i].args = <<>>, v # <<>> PROVE Utters(ResponsesCallDone(d, s, ev, v), s, s.text, Put(s.calls, i, v))
    <3>1. Fuller(s.calls, i, v) = Put(s.calls, i, v) BY <2>2 DEF Pieces, Fuller
    <3>2. ResponsesCallDone(d, s, ev, v) =
            CodexRole(d, Result([s EXCEPT !.calls = Put(s.calls, i, v)], <<Args(i, v)>>), FALSE)
      BY <1>6, <2>1, <2>2 DEF ResponsesCallDone, Put
    <3> QED BY <1>4, <1>6, <2>2, <3>1, <3>2
  <2>3. ASSUME ~(s.calls[i].args = <<>> /\ v # <<>>) PROVE Utters(ResponsesCallDone(d, s, ev, v), s, s.text, s.calls)
    BY <1>6, <2>1, <2>3, <1>3 DEF ResponsesCallDone
  <2>4. CASE s.calls[i].args = <<>> /\ v # <<>> BY <2>2, <2>4 DEF Finals
  <2>5. CASE ~(s.calls[i].args = <<>> /\ v # <<>>) BY <2>3, <2>5 DEF Finals
  <2> QED BY <2>4, <2>5
<1> QED BY <1>2, <1>5, <1>6

\* A frame of a Gemini upstream.
LEMMA GeminiUtters ==
    ASSUME NEW s, Heeding(s), NEW f, f.text \in Pieces,
           NEW v \in Pieces, f.calls = <<>> \/ (f.calls = <<v>> /\ Len(s.calls) + 1 <= MaxCalls)
    PROVE  LET r == GeminiFrame(s, f)
               x == [id |-> Len(s.calls) + 1, item |-> None, out |-> None, args |-> v]
               all == IF f.calls = <<>> THEN s.calls ELSE Append(s.calls, x)
           IN  /\ Heeding(r.s) /\ r.s.text = s.text \o f.text /\ r.s.calls = all
               /\ r.s.completed = (s.completed \/ f.reason # None)
               /\ r.s.reason = IF f.reason = None THEN s.reason ELSE GeminiReason(f.reason, all # <<>>)
               /\ Carries(r.out, Collected(s), Collected(r.s))
               /\ f.reason = None => Plain(r.out)
<1> DEFINE N == Len(s.calls)
           x == [id |-> N + 1, item |-> None, out |-> None, args |-> v]
           text == s.text \o f.text
           all == IF f.calls = <<>> THEN s.calls ELSE Append(s.calls, x)
           r == GeminiFrame(s, f)
           s1 == [s EXCEPT !.text = text]
           s2 == [s1 EXCEPT !.calls = all]
           spoken == IF f.text # <<>> THEN <<Text(f.text)>> ELSE <<>>
           thinks == IF f.thought THEN <<Think>> ELSE <<>>
           calls == IF f.calls = <<>> THEN <<>> ELSE <<Announce(N + 1, N + 1, v)>>
           why == GeminiReason(f.reason, f.calls # <<>>)
           ends == IF f.reason = None THEN <<>> ELSE <<Finish(why)>>
<1>1. DOMAIN s = FeedFields /\ N \in Nat /\ s.calls \in Seq(ToolSet) /\ s.text \in Pieces
  BY BriefIs DEF Heeding
<1>2. x \in ToolSet BY <1>1 DEF ToolSet
<1>3. Len(<<v>>) = 1 /\ <<v>> # <<>> /\ <<v>>[1] = v /\ Len(<<>>) = 0 OBVIOUS
<1>4. /\ [j \in 1..Len(f.calls) |-> Announce(N + j, N + j, f.calls[j])] = calls
      /\ s.calls \o [j \in 1..Len(f.calls) |->
                        [id |-> N + j, item |-> None, out |-> None, args |-> f.calls[j]]] = all
  <2>1. CASE f.calls = <<>> BY <1>3, <2>1, <1>1
  <2>2. CASE f.calls = <<v>>
    <3>1. /\ [j \in 1..Len(f.calls) |-> Announce(N + j, N + j, f.calls[j])] =
               [j \in 1..1 |-> Announce(N + j, N + j, f.calls[j])]
          /\ [j \in 1..Len(f.calls) |-> [id |-> N + j, item |-> None, out |-> None, args |-> f.calls[j]]] =
               [j \in 1..1 |-> [id |-> N + j, item |-> None, out |-> None, args |-> f.calls[j]]]
      BY <1>3, <2>2
    <3>2. [j \in 1..1 |-> Announce(N + j, N + j, f.calls[j])] = <<Announce(N + 1, N + 1, v)>>
      <4> DEFINE a(j) == Announce(N + j, N + j, f.calls[j])
      <4>1. a(1) = Announce(N + 1, N + 1, v) BY <1>3, <2>2
      <4> HIDE DEF a
      <4>2. [j \in 1..1 |-> a(j)] = <<a(1)>> OBVIOUS
      <4> QED BY <4>1, <4>2 DEF a
    <3>3. [j \in 1..1 |-> [id |-> N + j, item |-> None, out |-> None, args |-> f.calls[j]]] = <<x>>
      <4> DEFINE a(j) == [id |-> N + j, item |-> None, out |-> None, args |-> f.calls[j]]
      <4>1. a(1) = x BY <1>3, <2>2
      <4> HIDE DEF a, x
      <4>2. [j \in 1..1 |-> a(j)] = <<a(1)>> OBVIOUS
      <4> QED BY <4>1, <4>2 DEF a
    <3>4. s.calls \o <<x>> = Append(s.calls, x)
      <4> HIDE DEF x
      <4> QED BY <1>1, <1>2, AppendIsConcat
    <3> QED BY <1>3, <2>2, <3>1, <3>2, <3>3, <3>4
  <2> QED BY <2>1, <2>2
<1>5. r.out = ((spoken \o thinks) \o calls) \o ends BY <1>4 DEF GeminiFrame, Result
<1>6. /\ DOMAIN r.s = FeedFields /\ r.s.text = text /\ r.s.calls = all
      /\ r.s.completed = (s.completed \/ f.reason # None)
      /\ r.s.reason = IF f.reason = None THEN s.reason ELSE GeminiReason(f.reason, all # <<>>)
  <2> DEFINE cs == s.calls \o [j \in 1..Len(f.calls) |->
                        [id |-> N + j, item |-> None, out |-> None, args |-> f.calls[j]]]
             done == s.completed \/ f.reason # None
             reason == IF f.reason = None THEN s.reason ELSE GeminiReason(f.reason, cs # <<>>)
             thought == s.thought \/ f.thought
  <2>1. r.s = [[s EXCEPT !.text = text, !.thought = thought, !.calls = cs, !.completed = done, !.reason = reason]
                  EXCEPT !.events = TRUE]
    BY DEF GeminiFrame, Result
  <2>2. cs = all BY <1>4
  <2> HIDE DEF cs, done, reason, thought, text
  <2>3. /\ DOMAIN r.s = FeedFields /\ r.s.text = text /\ r.s.calls = cs
        /\ r.s.completed = done /\ r.s.reason = reason
    BY <1>1, <2>1 DEF FeedFields
  <2> QED BY <2>2, <2>3 DEF done, reason
<1>7. all \in Seq(ToolSet) /\ text \in Pieces BY <1>1, <1>2, AppendProperties DEF Pieces
<1>8. Heeding(r.s) BY <1>6, <1>7 DEF Heeding
<1>9. /\ DOMAIN s1 = FeedFields /\ s1.text = text /\ s1.calls = s.calls
      /\ s1.completed = s.completed /\ s1.reason = s.reason
  BY <1>1 DEF FeedFields
<1>10. Heeding(s1) BY <1>1, <1>7, <1>9 DEF Heeding
<1>11. Carries(spoken, Collected(s), Collected(s1)) /\ Plain(spoken)
  <2>1. CASE f.text # <<>>
    <3> DEFINE q == Result(s1, spoken)
    <3> HIDE DEF s1, text, spoken
    <3>1. Event(q, s1, spoken) BY <1>9, EventIs
    <3>2. q.out = spoken BY DEF Result
    <3> HIDE DEF q
    <3>3. Utters(q, s, s.text \o f.text, s.calls) BY <1>9, <2>1, <3>1, TextUtters DEF spoken, text
    <3>4. Collected(q.s) = Collected(s1) BY <3>1 DEF Event, Collected
    <3> QED BY <3>2, <3>3, <3>4 DEF Utters
  <2>2. CASE f.text = <<>>
    <3>1. text = s.text BY <1>1, <2>2 DEF Pieces
    <3>2. Collected(s1) = Collected(s) BY <1>9, <3>1 DEF Collected
    <3> DEFINE m == Collected(s)
    <3> HIDE DEF m
    <3>3. Carries(<<>>, m, m) /\ Plain(<<>>) BY CarriesFacts
    <3>4. spoken = <<>> BY <2>2
    <3> QED BY <3>2, <3>3, <3>4 DEF m
  <2> QED BY <2>1, <2>2
<1>12. Carries(thinks, Collected(s1), Collected(s1)) /\ Plain(thinks)
  <2> DEFINE q == Think
             m == Collected(s1)
  <2>1. Quiet(q) /\ q.k # "finish" BY DEF Think, Chunk, Quiet
  <2> HIDE DEF q, m
  <2>2. Accepts(m, q) /\ Tell(m, q) = m BY <2>1, QuietTells
  <2>3. Carries(<<q>>, m, m) /\ Plain(<<q>>) /\ Carries(<<>>, m, m) /\ Plain(<<>>)
    BY <2>1, <2>2, CarriesFacts
  <2>4. thinks = <<q>> \/ thinks = <<>> BY DEF q
  <2> QED BY <2>3, <2>4 DEF m
<1> DEFINE m1 == Collected(s1)
           m2 == Collected(r.s)
<1>13. Carries(calls, m1, m2) /\ Plain(calls)
  <2>1. CASE f.calls = <<>>
    <3>1. m2 = m1 /\ calls = <<>> BY <1>6, <1>9, <2>1 DEF Collected
    <3> HIDE DEF m1, m2, calls
    <3>2. Carries(<<>>, m1, m1) /\ Plain(<<>>) BY CarriesFacts
    <3> QED BY <3>1, <3>2
  <2>2. CASE f.calls # <<>>
    <3> DEFINE out == <<Announce(N + 1, x.id, x.args)>>
               q == Result(s2, out)
    <3>1. calls = out /\ all = Append(s.calls, x) /\ N + 1 <= MaxCalls BY <2>2
    <3>2. /\ DOMAIN s2 = FeedFields /\ s2.text = text /\ s2.calls = all
          /\ s2.completed = s1.completed /\ s2.reason = s1.reason
      <4> HIDE DEF s1, all
      <4> QED BY <1>9 DEF FeedFields
    <3> HIDE DEF s1, s2, all, calls, x, out, N, r
    <3>3. Event(q, s2, out) BY <3>2, EventIs
    <3>4. q.out = out BY DEF Result
    <3> HIDE DEF q
    <3>5. Utters(q, s1, s1.text, Append(s1.calls, x))
      BY <1>2, <1>9, <1>10, <3>1, <3>2, <3>3, AddUtters DEF out, N
    <3>6. Collected(q.s) = m2 BY <1>6, <3>2, <3>3 DEF Event, Collected
    <3> HIDE DEF m2
    <3> QED BY <3>1, <3>4, <3>5, <3>6 DEF Utters
  <2> QED BY <2>1, <2>2
<1>14. Carries(ends, m2, m2) /\ (f.reason = None => Plain(ends))
  <2> DEFINE q == Finish(why)
  <2>1. Quiet(q) BY DEF Finish, Chunk, Quiet
  <2>2. ends = <<q>> \/ ends = <<>> OBVIOUS
  <2>3. f.reason = None => ends = <<>> OBVIOUS
  <2> HIDE DEF q, m2, ends
  <2>4. Accepts(m2, q) /\ Tell(m2, q) = m2 BY <2>1, QuietTells
  <2>5. Carries(<<q>>, m2, m2) /\ Carries(<<>>, m2, m2) /\ Plain(<<>>) BY <2>4, CarriesFacts
  <2> QED BY <2>2, <2>3, <2>5
<1>15. Carries(r.out, Collected(s), m2) /\ (f.reason = None => Plain(r.out))
  <2> DEFINE m == Collected(s)
             o == r.out
  <2>1. o = ((spoken \o thinks) \o calls) \o ends /\ Carries(spoken, m, m1) /\ Carries(thinks, m1, m1)
    BY <1>5, <1>11, <1>12
  <2> HIDE DEF m, m1, m2, o, spoken, thinks, calls, ends
  <2>2. Carries(spoken \o thinks, m, m1) /\ Plain(spoken \o thinks) BY <1>11, <1>12, <2>1, CarriesOn
  <2> DEFINE o1 == spoken \o thinks
             o2 == o1 \o calls
  <2> HIDE DEF o1
  <2>3. Carries(o2, m, m2) /\ Plain(o2) BY <1>13, <2>2, CarriesOn DEF o1
  <2> HIDE DEF o2
  <2>4. Carries(o2 \o ends, m, m2) /\ (Plain(ends) => Plain(o2 \o ends)) BY <1>14, <2>3, CarriesOn
  <2> QED BY <1>14, <2>1, <2>4 DEF o, o1, o2, m
<1> QED BY <1>6, <1>8, <1>15

-----------------------------------------------------------------------------
(***************************************************************************)
(* The completed response of a Responses upstream: it adds what the events *)
(* did not bring and changes nothing they did.                             *)
(***************************************************************************)
LEMMA ApplySteps ==
    ASSUME NEW s, NEW output, IsSeq(output.calls)
    PROVE  /\ Len(output.calls) \in Nat
           /\ \E f : /\ f[0] = Filled(s, output) /\ f[Len(output.calls)] = ApplyOutput(s, output)
                     /\ \A n \in 1..Len(output.calls) : f[n] = Applied(output, f[n - 1], n)
<1> DEFINE N == Len(output.calls)
           s0 == Filled(s, output)
           next(t, n) == Applied(output, t, n)
           Applying(f, m) == f = [n \in 0..m |-> IF n = 0 THEN s0 ELSE next(f[n - 1], n)]
           applied == CHOOSE f : Applying(f, N)
           S == {m \in 0..N : \E f : Applying(f, m)}
<1>1. N \in Nat BY LenProperties DEF IsSeq
<1>2. ApplyOutput(s, output) = applied[N] BY DEF ApplyOutput, Applied, Named0, Filled
<1> HIDE DEF N, s0, next
<1>3. 0 \in S
  <2>1. Applying([n \in 0..0 |-> s0], 0) OBVIOUS
  <2>2. \E f : Applying(f, 0) BY <2>1
  <2> HIDE DEF Applying
  <2> QED BY <1>1, <2>2
<1>4. ASSUME NEW m \in 1..N, m - 1 \in S PROVE m \in S
  <2>1. m \in 0..N /\ m \in Nat /\ m # 0 BY <1>1
  <2>2. PICK g : Applying(g, m - 1) BY <1>4
  <2> DEFINE f == [n \in 0..m |-> IF n = m THEN next(g[m - 1], m) ELSE g[n]]
  <2>3. ASSUME NEW n \in 0..m
        PROVE  f[n] = IF n = 0 THEN s0 ELSE next(f[n - 1], n)
    <3>1. CASE n = m BY <1>1, <2>1, <3>1
    <3>2. CASE n # m BY <1>1, <2>1, <3>2, <2>2
    <3> QED BY <3>1, <3>2
  <2>4. Applying(f, m) BY <2>3
  <2> QED BY <2>1, <2>4
<1>5. N \in S
  <2> HIDE DEF S
  <2>1. \A n \in 0..N : n \in S BY <1>1, <1>3, <1>4, Upward
  <2> QED BY <1>1, <2>1
<1>6. Applying(applied, N)
  <2>1. \E f : Applying(f, N) BY <1>5
  <2> HIDE DEF Applying
  <2> QED BY <2>1
<1> HIDE DEF applied
<1>7. applied[0] = s0 /\ \A n \in 1..N : applied[n] = next(applied[n - 1], n) BY <1>1, <1>6
<1> QED BY <1>1, <1>2, <1>7 DEF N, s0, next

LEMMA AddsTool ==
    ASSUME NEW s, Heeding(s), NEW output, output.calls \in Seq(OutputSet), NEW n \in 1..Len(output.calls)
    PROVE  LET x == [id |-> output.calls[n].call, item |-> output.calls[n].item, out |-> None,
                     args |-> output.calls[n].args]
               t == AddTool(s, Named0(output, n), output.calls[n].args)
           IN  /\ x \in ToolSet /\ Heeding(t) /\ t.text = s.text /\ t.calls = Append(s.calls, x)
<1> DEFINE c == output.calls[n]
           x == [id |-> c.call, item |-> c.item, out |-> None, args |-> c.args]
           t == AddTool(s, Named0(output, n), c.args)
           cs == Append(s.calls, x)
<1>1. c \in OutputSet BY ElementOfSeq
<1>2. x \in ToolSet BY <1>1 DEF OutputSet, ToolSet
<1>3. t = [s EXCEPT !.calls = cs] BY DEF AddTool, Named0
<1> HIDE DEF x
<1>4. cs \in Seq(ToolSet) BY <1>2, AppendProperties DEF Heeding
<1> HIDE DEF cs, t
<1>5. Heeding(t) /\ t.text = s.text /\ t.calls = cs BY <1>3, <1>4 DEF Heeding, FeedFields
<1> QED BY <1>2, <1>5 DEF x, t, cs

LEMMA FilledHeeds ==
    ASSUME NEW s, Heeding(s), NEW output, output.text \in Pieces
    PROVE  LET t == Filled(s, output)
           IN  /\ Heeding(t) /\ t.calls = s.calls
               /\ t.text = IF s.text = <<>> THEN output.text ELSE s.text
<1> DEFINE text == IF s.text = <<>> THEN output.text ELSE s.text
           t == Filled(s, output)
<1>1. text \in Pieces BY DEF Heeding
<1>2. t = [s EXCEPT !.text = text] BY DEF Filled
<1> HIDE DEF t, text
<1>3. Heeding(t) /\ t.calls = s.calls /\ t.text = text BY <1>1, <1>2 DEF Heeding, FeedFields
<1> QED BY <1>3 DEF t, text

LEMMA ApplyHeeds ==
    ASSUME NEW s, Heeding(s), NEW output, output.text \in Pieces, output.calls \in Seq(OutputSet)
    PROVE  Heeding(ApplyOutput(s, output))
<1> DEFINE N == Len(output.calls)
<1>1. IsSeq(output.calls) BY DEF IsSeq
<1>2. N \in Nat /\ \E f : /\ f[0] = Filled(s, output) /\ f[N] = ApplyOutput(s, output)
                         /\ \A n \in 1..N : f[n] = Applied(output, f[n - 1], n)
  BY <1>1, ApplySteps
<1>3. PICK f : /\ f[0] = Filled(s, output) /\ f[N] = ApplyOutput(s, output)
               /\ \A n \in 1..N : f[n] = Applied(output, f[n - 1], n)
  BY <1>2
<1> DEFINE S == {n \in 0..N : Heeding(f[n])}
<1>4. 0 \in S BY <1>2, <1>3, FilledHeeds
<1>5. ASSUME NEW n \in 1..N, n - 1 \in S PROVE n \in S
  <2>1. Heeding(AddTool(f[n - 1], Named0(output, n), output.calls[n].args)) BY <1>5, AddsTool
  <2>2. Heeding(f[n]) BY <1>3, <1>5, <2>1 DEF Applied
  <2> QED BY <1>2, <2>2
<1>6. N \in S
  <2> HIDE DEF S, N
  <2>1. \A n \in 0..N : n \in S BY <1>2, <1>4, <1>5, Upward
  <2> QED BY <1>2, <2>1
<1> QED BY <1>3, <1>6

\* A call whose id is known is found.
LEMMA FindsCall ==
    ASSUME NEW s, s.calls \in Seq(ToolSet), NEW ev, ev.call # None, NEW i \in 1..Len(s.calls),
           s.calls[i].id = ev.call, NEW d
    PROVE  FindTool(d, s, ev) # 0
<1> DEFINE byItem == {j \in DOMAIN s.calls : ev.item # None /\ s.calls[j].item = ev.item}
           byCall == {j \in DOMAIN s.calls : ev.call # None /\ s.calls[j].id = ev.call}
           N == Len(s.calls)
<1>1. N \in Nat /\ DOMAIN s.calls = 1..N BY BriefIs
<1>2. /\ byItem # {} => FindTool(d, s, ev) = Max(byItem)
      /\ byItem = {} /\ byCall # {} => FindTool(d, s, ev) = Min(byCall)
  BY DEF FindTool
<1>3. i \in byCall /\ byItem \in SUBSET (1..N) /\ byCall \in SUBSET (1..N) BY <1>1
<1> HIDE DEF byItem, byCall, N
<1>4. byItem # {} => Max(byItem) \in 1..N
  <2>1. byItem \in SUBSET (0..N) BY <1>1, <1>3
  <2> QED BY <1>1, <1>3, <2>1, Greatest
<1>5. Min(byCall) \in 1..N
  <2>1. PICK m \in byCall : \A k \in byCall : m <= k
    <3>1. byCall \in SUBSET (0..N) BY <1>1, <1>3
    <3> QED BY <1>1, <1>3, <3>1, First
  <2>2. \E x \in byCall : \A y \in byCall : x <= y BY <2>1
  <2>3. Min(byCall) \in byCall BY <2>2 DEF Min
  <2> QED BY <1>3, <2>3
<1> QED BY <1>1, <1>2, <1>3, <1>4, <1>5

\* A response whose calls and text are known brings nothing.
LEMMA ApplyKnown ==
    ASSUME NEW s, Heeding(s), NEW output, output.text = s.text, output.calls \in Seq(OutputSet),
           \A n \in 1..Len(output.calls) :
               output.calls[n].call # None /\ \E i \in 1..Len(s.calls) : s.calls[i].id = output.calls[n].call
    PROVE  ApplyOutput(s, output).text = s.text /\ ApplyOutput(s, output).calls = s.calls
<1> DEFINE N == Len(output.calls)
           t == Filled(s, output)
<1>1. IsSeq(output.calls) /\ output.text \in Pieces BY DEF IsSeq, Heeding
<1>2. N \in Nat /\ \E f : /\ f[0] = t /\ f[N] = ApplyOutput(s, output)
                         /\ \A n \in 1..N : f[n] = Applied(output, f[n - 1], n)
  BY <1>1, ApplySteps
<1>3. PICK f : /\ f[0] = t /\ f[N] = ApplyOutput(s, output)
               /\ \A n \in 1..N : f[n] = Applied(output, f[n - 1], n)
  BY <1>2
<1>4. Heeding(t) /\ t.calls = s.calls /\ t.text = s.text BY <1>1, FilledHeeds
<1> HIDE DEF t
<1>5. ASSUME NEW n \in 1..N PROVE Applied(output, t, n) = t
  <2> DEFINE ev == Named0(output, n)
  <2>1. PICK i \in 1..Len(s.calls) : s.calls[i].id = output.calls[n].call OBVIOUS
  <2>2. ev.call # None /\ ev.call = output.calls[n].call BY DEF Named0
  <2> HIDE DEF ev
  <2>3. t.calls \in Seq(ToolSet) /\ i \in 1..Len(t.calls) /\ t.calls[i].id = ev.call
    BY <1>4, <2>1, <2>2 DEF Heeding
  <2>4. FindTool("opencode", t, ev) # 0 BY <2>2, <2>3, FindsCall
  <2> QED BY <2>4 DEF Applied, ev
<1> DEFINE S == {n \in 0..N : f[n] = t}
<1>6. 0 \in S BY <1>2, <1>3
<1>7. ASSUME NEW n \in 1..N, n - 1 \in S PROVE n \in S BY <1>3, <1>5, <1>7, <1>2
<1>8. N \in S
  <2> HIDE DEF S, N
  <2>1. \A n \in 0..N : n \in S BY <1>2, <1>6, <1>7, Upward
  <2> QED BY <1>2, <2>1
<1> QED BY <1>3, <1>4, <1>8

\* A feed that knows nothing gets the text, and the call if there is one.
LEMMA ApplyHeld ==
    ASSUME NEW s, Heeding(s), s.text = <<>>, s.calls = <<>>, NEW output, output.text \in Pieces,
           output.calls \in Seq(OutputSet), Len(output.calls) <= 1
    PROVE  LET x == [id |-> output.calls[1].call, item |-> output.calls[1].item, out |-> None,
                     args |-> output.calls[1].args]
           IN  /\ ApplyOutput(s, output).text = output.text
               /\ Len(output.calls) = 0 => ApplyOutput(s, output).calls = <<>>
               /\ Len(output.calls) = 1 => ApplyOutput(s, output).calls = <<x>> /\ x \in ToolSet
<1> DEFINE N == Len(output.calls)
           t == Filled(s, output)
           x == [id |-> output.calls[1].call, item |-> output.calls[1].item, out |-> None,
                 args |-> output.calls[1].args]
<1>1. IsSeq(output.calls) /\ Len(<<>>) = 0 /\ DOMAIN <<>> = {} BY DEF IsSeq
<1>2. N \in Nat /\ \E f : /\ f[0] = t /\ f[N] = ApplyOutput(s, output)
                         /\ \A n \in 1..N : f[n] = Applied(output, f[n - 1], n)
  BY <1>1, ApplySteps
<1>3. PICK f : /\ f[0] = t /\ f[N] = ApplyOutput(s, output)
               /\ \A n \in 1..N : f[n] = Applied(output, f[n - 1], n)
  BY <1>2
<1>4. Heeding(t) /\ t.calls = <<>> /\ t.text = output.text BY FilledHeeds
<1> HIDE DEF t
<1>5. CASE N = 0 BY <1>3, <1>4, <1>5
<1>6. CASE N = 1
  <2> DEFINE u == AddTool(t, Named0(output, 1), output.calls[1].args)
  <2>1. 1 \in 1..N /\ 1 - 1 = 0 BY <1>6
  <2>2. x \in ToolSet /\ u.text = t.text /\ u.calls = Append(t.calls, x) BY <1>4, <2>1, AddsTool
  <2>3. \A ev : FindTool("opencode", t, ev) = 0 BY <1>1, <1>4 DEF FindTool
  <2>4. f[1] = u BY <1>3, <2>1, <2>3 DEF Applied
  <2> HIDE DEF u, x
  <2>5. Append(<<>>, x) = <<x>> OBVIOUS
  <2> QED BY <1>3, <1>4, <1>6, <2>2, <2>4, <2>5 DEF x
<1>7. N = 0 \/ N = 1
  <2>1. N \in Nat /\ N <= 1 BY <1>2
  <2> HIDE DEF N
  <2> QED BY <2>1
<1> QED BY <1>5, <1>6, <1>7

LEMMA CompletedConcludes ==
    ASSUME NEW s, NEW d, NEW cut, NEW output, NEW full,
           full = IF d = "codex" THEN s ELSE ApplyOutput(s, output), Heeding(full)
    PROVE  Concludes(ResponsesCompleted(d, s, cut, output), s, full.text, full.calls,
                     IF cut THEN "length" ELSE IF full.calls # <<>> THEN "tool_calls" ELSE "stop")
<1> DEFINE why == IF cut THEN "length" ELSE IF full.calls # <<>> THEN "tool_calls" ELSE "stop"
           t == [full EXCEPT !.completed = TRUE, !.reason = why]
           r == ResponsesCompleted(d, s, cut, output)
<1>1. r = CodexRole(d, Result(t, <<Finish(why)>>), TRUE) BY DEF ResponsesCompleted
<1> HIDE DEF why, r
<1>2. /\ DOMAIN t = FeedFields /\ t.text = full.text /\ t.calls = full.calls
      /\ t.completed = TRUE /\ t.reason = why
  BY DEF FeedFields, Heeding
<1> HIDE DEF t
<1>3. Heeding(t) /\ Event(r, t, <<Finish(t.reason)>>) BY <1>1, <1>2, EventIs DEF Heeding
<1>4. Concludes(r, s, t.text, t.calls, t.reason) BY <1>2, <1>3, EventConcludes
<1> QED BY <1>2, <1>4 DEF r, why

-----------------------------------------------------------------------------
(***************************************************************************)
(* The events of the upstreams. Whatever one says, the translator takes it *)
(* up and the writer passes it on, so that FReading holds again.           *)
(***************************************************************************)
LEMMA SoundFacts ==
    ASSUME FReading, Grounds
    PROVE  /\ said.text \in Pieces /\ said.calls \in Seq(CallSet) /\ Len(said.calls) \in Nat
           /\ Piece \in Pieces /\ Piece # <<>>
           /\ \A c \in 1..Len(said.calls) : said.calls[c] \in CallSet /\ said.calls[c].id = c
BY LenProperties, ElementOfSeq DEF FReading, Sound, Spoken, Message, Piece, Pieces

LEMMA PutFacts ==
    ASSUME NEW cs \in Seq(CallSet), NEW i \in 1..Len(cs), NEW a \in Pieces
    PROVE  /\ Put(cs, i, a) \in Seq(CallSet) /\ Len(Put(cs, i, a)) = Len(cs)
           /\ \A j \in 1..Len(cs) : j # i => Put(cs, i, a)[j] = cs[j]
           /\ Put(cs, i, a)[i].id = cs[i].id /\ Put(cs, i, a)[i].args = a
<1> DEFINE x == [cs[i] EXCEPT !.args = a]
           all == [cs EXCEPT ![i] = x]
<1>1. cs[i] \in CallSet BY ElementOfSeq
<1>2. x \in CallSet /\ x.id = cs[i].id /\ x.args = a BY <1>1 DEF CallSet
<1>3. Put(cs, i, a) = all BY DEF Put
<1> HIDE DEF x
<1>4. all \in Seq(CallSet) /\ Len(all) = Len(cs) /\ \A j \in 1..Len(cs) : all[j] = IF j = i THEN x ELSE cs[j]
  BY <1>2
<1> QED BY <1>2, <1>3, <1>4

\* What the upstream says stays sound.
LEMMA Sounds ==
    ASSUME FReading, Grounds
    PROVE  /\ UNCHANGED said => Sound'
           /\ SayText => /\ Sound' /\ said'.text = said.text \o Piece /\ said'.calls = said.calls
                         /\ said'.reason = said.reason
           /\ \A args \in Pieces : SayCall(Len(said.calls) + 1, args) =>
                 /\ Sound' /\ said'.text = said.text /\ said'.reason = said.reason
                 /\ said'.calls = Append(said.calls, [id |-> Len(said.calls) + 1, args |-> args])
           /\ \A c \in 1..Len(said.calls) : SayArgs(c) =>
                 /\ Sound' /\ said'.text = said.text /\ said'.reason = said.reason
                 /\ said'.calls = Fuller(said.calls, c, Piece)
           /\ \A cut : SayEnd(cut) =>
                 /\ Sound' /\ said'.text = said.text /\ said'.calls = said.calls
                 /\ said'.reason = IF cut THEN "length" ELSE IF said.calls # <<>> THEN "tool_calls" ELSE "stop"
<1> DEFINE n == Len(said.calls)
<1>1. DOMAIN said = SaidFields /\ Sound BY DEF Grounds, FReading
<1>2. /\ said.text \in Pieces /\ said.calls \in Seq(CallSet) /\ n \in Nat
      /\ Piece \in Pieces /\ \A c \in 1..n : said.calls[c] \in CallSet /\ said.calls[c].id = c
  BY SoundFacts
<1>3. ASSUME NEW text \in Pieces, NEW calls \in Seq(CallSet), said'.text = text, said'.calls = calls,
             \A c \in 1..Len(calls) : calls[c].id = c
      PROVE  Sound'
  BY <1>3 DEF Sound, Spoken, Message
<1>4. UNCHANGED said => Sound' BY <1>1 DEF Sound, Spoken
<1>5. ASSUME SayText
      PROVE  Sound' /\ said'.text = said.text \o Piece /\ said'.calls = said.calls /\ said'.reason = said.reason
  <2> DEFINE text == said.text \o Piece
  <2>1. said' = [said EXCEPT !.text = text] BY <1>5 DEF SayText
  <2>2. text \in Pieces BY <1>2 DEF Pieces
  <2> HIDE DEF text
  <2>3. said'.text = text /\ said'.calls = said.calls /\ said'.reason = said.reason
    BY <1>1, <2>1 DEF SaidFields
  <2> QED BY <1>2, <1>3, <2>2, <2>3 DEF text
<1>6. ASSUME NEW args \in Pieces, SayCall(n + 1, args)
      PROVE  /\ Sound' /\ said'.text = said.text /\ said'.reason = said.reason
             /\ said'.calls = Append(said.calls, [id |-> n + 1, args |-> args])
  <2> DEFINE x == [id |-> n + 1, args |-> args]
             calls == Append(said.calls, x)
  <2>1. said' = [said EXCEPT !.calls = calls] BY <1>6 DEF SayCall
  <2>2. x \in CallSet /\ x.id = n + 1 BY <1>2 DEF CallSet
  <2> HIDE DEF x
  <2>3. calls \in Seq(CallSet) /\ Len(calls) = n + 1 /\ \A j \in 1..(n + 1) : calls[j] = IF j = n + 1 THEN x ELSE said.calls[j]
    BY <1>2, <2>2, AppendProperties
  <2> HIDE DEF calls, n
  <2>4. \A c \in 1..Len(calls) : calls[c].id = c BY <1>2, <2>2, <2>3
  <2>5. said'.text = said.text /\ said'.calls = calls /\ said'.reason = said.reason
    BY <1>1, <2>1 DEF SaidFields
  <2> QED BY <1>2, <1>3, <2>3, <2>4, <2>5 DEF calls, x, n
<1>7. ASSUME NEW c \in 1..n, SayArgs(c)
      PROVE  /\ Sound' /\ said'.text = said.text /\ said'.reason = said.reason
             /\ said'.calls = Fuller(said.calls, c, Piece)
  <2> DEFINE a == said.calls[c].args \o Piece
             calls == Put(said.calls, c, a)
  <2>1. said' = [said EXCEPT !.calls = calls] BY <1>7 DEF SayArgs, Put
  <2> DEFINE old == said.calls[c].args
  <2>7. old \in Pieces /\ Piece \in Pieces BY <1>2 DEF CallSet
  <2>8. a = old \o Piece OBVIOUS
  <2> HIDE DEF old
  <2>2. a \in Pieces BY <2>7, <2>8 DEF Pieces
  <2>3. calls = Fuller(said.calls, c, Piece) BY DEF Fuller
  <2> HIDE DEF a
  <2>4. /\ calls \in Seq(CallSet) /\ Len(calls) = n
        /\ \A j \in 1..n : j # c => calls[j] = said.calls[j]
        /\ calls[c].id = said.calls[c].id
    BY <1>2, <2>2, PutFacts
  <2> HIDE DEF calls, n
  <2>5. \A j \in 1..Len(calls) : calls[j].id = j BY <1>2, <2>4
  <2>6. said'.text = said.text /\ said'.calls = calls /\ said'.reason = said.reason
    BY <1>1, <2>1 DEF SaidFields
  <2> QED BY <1>2, <1>3, <2>3, <2>4, <2>5, <2>6
<1>8. ASSUME NEW cut, SayEnd(cut)
      PROVE  /\ Sound' /\ said'.text = said.text /\ said'.calls = said.calls
             /\ said'.reason = IF cut THEN "length" ELSE IF said.calls # <<>> THEN "tool_calls" ELSE "stop"
  <2> DEFINE why == IF cut THEN "length" ELSE IF said.calls # <<>> THEN "tool_calls" ELSE "stop"
  <2>1. said' = [said EXCEPT !.reason = why] BY <1>8 DEF SayEnd
  <2> HIDE DEF why
  <2>2. said'.text = said.text /\ said'.calls = said.calls /\ said'.reason = why
    BY <1>1, <2>1 DEF SaidFields
  <2> QED BY <1>2, <1>3, <2>2 DEF why
<1> QED BY <1>4, <1>5, <1>6, <1>7, <1>8

\* The chunks of an event reach the client.
LEMMA WiredOn ==
    ASSUME LiveWire(wire), wire.stream, Wired(wire), NEW r, Consume(r), Carries(r.out, Taken, Taken'),
           Tallies(r.out)
    PROVE  Wired(wire)'
<1>1. /\ Open(wire) /\ wire.api \in {"chat", "messages", "responses"} /\ wire.cut = None /\ Laid(wire, Taken)
  BY DEF LiveWire, Wired
<1>2. wire' = WriteAll(wire, r.out) /\ proto' = proto BY DEF Consume
<1>3. IsSeq(r.out) BY DEF Carries
<1>4. Progress(wire, wire') BY <1>1, <1>2, <1>3, WriteAllProgress
<1>5. /\ Laid(wire', Taken') /\ wire'.cut = None
      /\ Plain(r.out) /\ wire.api # "chat" => wire'.upstreamDone = wire.upstreamDone
      /\ Len(r.out) > 0 /\ r.out[Len(r.out)].k = "finish" => Hidden(wire') \/ wire'.stop = r.out[Len(r.out)].id
  <2> DEFINE m == Taken
             k == Taken'
             out == r.out
             v == WriteAll(wire, out)
  <2>1. Carries(out, m, k) /\ Laid(wire, m) /\ v = wire' BY <1>1, <1>2
  <2> HIDE DEF m, k, out
  <2>2. /\ Laid(v, k) /\ v.cut = None
        /\ Plain(out) /\ wire.api # "chat" => v.upstreamDone = wire.upstreamDone
        /\ Len(out) > 0 /\ out[Len(out)].k = "finish" => Hidden(v) \/ v.stop = out[Len(out)].id
    BY <1>1, <2>1, WriteAllLays
  <2> HIDE DEF v
  <2> QED BY <2>1, <2>2 DEF k, out
<1>6. proto \in {"openai", "proxy"} /\ wire'.api = "chat" /\ wire'.direct => wire'.committed
  BY <1>4 DEF Progress, Wired
<1>7. CASE r.out = <<>> /\ said'.reason = said.reason
  <2>1. wire' = wire
    <3>1. PICK f : f[0] = wire /\ f[Len(r.out)] = WriteAll(wire, r.out) BY <1>3, WriteAllSteps
    <3>2. Len(<<>>) = 0 OBVIOUS
    <3> QED BY <1>2, <1>7, <3>1, <3>2
  <2> QED BY <1>2, <1>5, <1>7, <2>1 DEF Wired
<1>8. CASE said.reason = None /\ said'.reason = None /\ Plain(r.out)
  BY <1>4, <1>5, <1>8, <1>2, <1>6 DEF Progress, Wired
<1>9. CASE /\ said'.reason # None
           /\ proto = "gemini" \/ /\ Len(r.out) > 0 /\ r.out[Len(r.out)].k = "finish"
                                  /\ r.out[Len(r.out)].id = said'.reason
  BY <1>2, <1>5, <1>6, <1>9 DEF Wired
<1> QED BY <1>7, <1>8, <1>9 DEF Tallies

\* What is to be shown of an event.
LEMMA FollowsOn ==
    ASSUME RInv, FReading, NEW r, Consume(r), Sound', up'.pieces \in Nat, up'.labels = up.labels,
           up'.held = up.held, Heeding(r.s), up'.ended <=> said'.reason # None,
           r.s.completed <=> said'.reason # None,
           Translates => Understands' /\ ((up.held /\ Len(said'.calls) > 1) \/ r.s.reason = said'.reason),
           IsSeq(r.out), ~up.held => Carries(r.out, Taken, Taken') /\ Tallies(r.out)
    PROVE  FReading' /\ phase' = "reading"
<1>1. /\ phase = "reading" /\ phase' = "reading" /\ proto' = proto /\ fresh' = fresh /\ feed' = r.s
      /\ wire' = IF wire.stream THEN WriteAll(wire, r.out) ELSE wire
  BY DEF Consume
<1>2. LiveWire(wire) BY <1>1 DEF RInv, Trying
<1>3. wire'.stream = wire.stream
  <2>1. CASE wire.stream BY <1>1, <1>2, <2>1, WriteAllProgress DEF LiveWire, Progress
  <2>2. CASE ~wire.stream BY <1>1, <2>2
  <2> QED BY <2>1, <2>2
<1>4. fresh' /\ wire'.stream /\ ~up'.held => Wired(wire)' BY <1>1, <1>2, <1>3, WiredOn DEF FReading
<1>5. fresh' /\ ~wire'.stream => Bare(wire)' BY <1>1, <1>3 DEF FReading, Bare
<1>6. Translates' <=> Translates BY <1>1 DEF Translates
<1> QED BY <1>1, <1>4, <1>5, <1>6 DEF FReading

\* What a translator knows of an upstream that streams its output.
LEMMA Grasped ==
    ASSUME FReading, Grounds, Translates, ~up.held
    PROVE  /\ Heeding(feed) /\ feed.text = said.text /\ feed.calls \in Seq(ToolSet)
           /\ Len(feed.calls) = Len(said.calls) /\ feed.reason = said.reason
           /\ \A c \in 1..Len(said.calls) : feed.calls[c] \in ToolSet /\ Grasps(c)
           /\ feed.calls = <<>> <=> said.calls = <<>>
BY SoundFacts, ElementOfSeq, EmptySeq, LenProperties DEF FReading, Understands, Heeding

\* What Taken is after an event.
LEMMA TakenNext ==
    ASSUME Translates, NEW r, Consume(r)
    PROVE  Taken = Collected(feed) /\ Taken' = Collected(r.s)
BY DEF Taken, Translates, Consume

\* An event in which the upstream says something.
LEMMA SpeaksOn ==
    ASSUME RInv, FReading, Translates, ~up.held, NEW r, IsSeq(r.out), Consume(r), Sound',
           said.reason = None, said'.reason = None,
           up'.pieces \in Nat, up'.labels = up.labels, up'.held = up.held, up'.ended = up.ended,
           NEW calls, Utters(r, feed, said'.text, calls), Len(calls) = Len(said'.calls),
           \A c \in 1..Len(said'.calls) :
               /\ calls[c].id = c
               /\ calls[c].args = IF Responses /\ c \in up'.open /\ up.labels = {} /\ Len(said'.calls) # 1
                                  THEN <<>> ELSE said'.calls[c].args
    PROVE  FReading' /\ phase' = "reading"
BY TakenNext, FollowsOn DEF Utters, Consume, FReading, Grasps, Behind, Responses, Understands,
   Tallies

\* An event that ends the generation.
LEMMA EndsOn ==
    ASSUME RInv, FReading, Translates, ~up.held, NEW r, IsSeq(r.out), Consume(r), Sound',
           said'.text = said.text, said'.calls = said.calls, said'.reason # None,
           up'.pieces \in Nat, up'.labels = up.labels, up'.held = up.held, up'.ended, up'.open = up.open,
           Responses => up.open = {},
           Concludes(r, feed, feed.text, feed.calls, said'.reason)
    PROVE  FReading' /\ phase' = "reading"
<1>1. /\ Heeding(r.s) /\ r.s.text = feed.text /\ r.s.calls = feed.calls
      /\ r.s.completed = TRUE /\ r.s.reason = said'.reason
      /\ Len(r.out) > 0 /\ r.out[Len(r.out)].k = "finish" /\ r.out[Len(r.out)].id = said'.reason
      /\ Carries(r.out, Collected(feed), Collected(feed))
  BY DEF Concludes
<1>2. feed' = r.s /\ proto' = proto BY DEF Consume
<1>3. Understands' BY <1>1, <1>2 DEF FReading, Understands, Grasps, Behind, Responses
<1>4. Carries(r.out, Taken, Taken') BY <1>1, TakenNext DEF Collected
<1>5. Tallies(r.out) BY <1>1 DEF Tallies
<1>6. (up'.ended <=> said'.reason # None) /\ (r.s.completed <=> said'.reason # None) BY <1>1
<1> QED BY <1>1, <1>3, <1>4, <1>5, <1>6, FollowsOn

\* An event that says nothing and leaves the feed as it is.
LEMMA SilenceOn ==
    ASSUME RInv, FReading, Grounds, Translates, NEW r, IsSeq(r.out), Consume(r), UNCHANGED said,
           up'.pieces \in Nat, up'.labels = up.labels, up'.held = up.held, up'.ended = up.ended, up'.open = up.open,
           Utters(r, feed, feed.text, feed.calls), said.reason = None \/ r.out = <<>>
    PROVE  FReading' /\ phase' = "reading"
<1>1. Heeding(r.s) /\ r.s.text = feed.text /\ r.s.calls = feed.calls
      /\ r.s.completed = feed.completed /\ r.s.reason = feed.reason /\ Plain(r.out)
      /\ Carries(r.out, Collected(feed), Collected(r.s))
  BY DEF Utters
<1>2. feed' = r.s /\ proto' = proto /\ said' = said BY DEF Consume
<1>3. Understands'
  BY <1>1, <1>2 DEF FReading, Collected, Grasps, Behind, Responses, Spoken, Understands
<1>4. Carries(r.out, Taken, Taken') BY <1>1, TakenNext
<1>5. Tallies(r.out) BY <1>1, <1>2 DEF Tallies
<1>6. /\ (up'.ended <=> said'.reason # None) /\ (r.s.completed <=> said'.reason # None)
      /\ (up.held /\ Len(said'.calls) > 1) \/ r.s.reason = said'.reason
  BY <1>1, <1>2 DEF FReading
<1>7. Sound' BY Sounds
<1> QED BY <1>1, <1>3, <1>4, <1>5, <1>6, <1>7, FollowsOn

\* A generation that was still going on.
LEMMA StillOn ==
    ASSUME FReading, Grounds
    PROVE  /\ DOMAIN up = UpFields /\ Len(said.calls) \in Nat /\ MaxCalls \in Nat /\ Len(said.calls) <= MaxCalls
           /\ ~up.ended => said.reason = None
           /\ up.pieces \in Nat /\ Piece \in Pieces /\ Piece # <<>> /\ <<>> \in Pieces
           /\ proto # "responses" => ~up.held
BY Counts, SoundFacts DEF Grounds, FReading, Pieces

LEMMA ListsCalls ==
    ASSUME NEW cs, cs \in Seq(ToolSet) \/ cs \in Seq(CallSet), NEW n \in Nat, Len(cs) = n, NEW i \in 1..n
    PROVE  Listed(cs, n, i)
<1>1. cs[i] \in ToolSet \/ cs[i] \in CallSet BY ElementOfSeq
<1> QED BY <1>1 DEF ToolSet, CallSet, IsSeq, Listed

LEMMA FullerFacts ==
    ASSUME NEW cs, NEW n, NEW i, Listed(cs, n, i), NEW v
    PROVE  Extends(cs, Fuller(cs, i, v), n, i, v)
<1> DEFINE a == cs[i].args \o v
           x == [cs[i] EXCEPT !.args = a]
           all == [cs EXCEPT ![i] = x]
<1>1. Fuller(cs, i, v) = all BY DEF Fuller, Put
<1> HIDE DEF a
<1>2. x.id = cs[i].id /\ x.args = a /\ i \in 1..Len(cs) BY DEF Listed
<1> HIDE DEF x
<1>3. Len(all) = Len(cs) /\ \A j \in 1..Len(cs) : all[j] = IF j = i THEN x ELSE cs[j]
  BY <1>2, ListPut DEF Listed
<1> HIDE DEF all
<1>4. all[i] = x /\ \A j \in 1..Len(cs) : j # i => all[j] = cs[j] BY <1>2, <1>3
<1>5. all[i].id = cs[i].id /\ all[i].args = a BY <1>2, <1>4
<1> QED BY <1>1, <1>3, <1>4, <1>5 DEF a, Extends, Listed

LEMMA AnthropicBlocksFollow ==
    ASSUME RInv, FReading, Grounds, NEW kind, AnthropicBlock(kind)
    PROVE  FReading' /\ phase' = "reading"
<1> DEFINE n == Len(said.calls)
<1>1. /\ Translates /\ ~Responses /\ ~up.held /\ ~up.ended /\ said.reason = None /\ DOMAIN up = UpFields
      /\ n \in Nat /\ MaxCalls \in Nat /\ up.pieces \in Nat
  BY StillOn DEF AnthropicBlock, Speaks, Translates, Responses
<1>2. up' = [up EXCEPT !.block = kind] BY DEF AnthropicBlock
<1>3. up'.pieces \in Nat /\ up'.labels = up.labels /\ up'.held = up.held /\ up'.ended = up.ended /\ up'.open = up.open
  BY <1>1, <1>2 DEF UpFields
<1>4. /\ Heeding(feed) /\ feed.text = said.text /\ feed.calls \in Seq(ToolSet) /\ Len(feed.calls) = n
      /\ \A c \in 1..n : feed.calls[c].id = c /\ feed.calls[c].args = said.calls[c].args
  BY <1>1, Grasped DEF Grasps, Behind
<1>5. CASE kind = "call"
  <2> DEFINE r == AnthropicToolUse(feed, n + 1)
             x == [id |-> n + 1, item |-> None, out |-> None, args |-> <<>>]
             y == [id |-> n + 1, args |-> <<>>]
             calls == Append(feed.calls, x)
             e == <<>>
  <2>1. Consume(r) /\ n < MaxCalls /\ SayCall(n + 1, e) BY <1>5 DEF AnthropicBlock, MoreCalls
  <2>2. Sound' /\ said'.text = said.text /\ said'.reason = said.reason /\ said'.calls = Append(said.calls, y)
    <3>1. e \in Pieces BY StillOn
    <3>2. y = [id |-> n + 1, args |-> e] OBVIOUS
    <3> HIDE DEF e, y
    <3> QED BY <2>1, <3>1, <3>2, Sounds
  <2>3. Utters(r, feed, feed.text, calls) BY <1>1, <1>4, <2>1, AnthropicUtters
  <2>4. IsSeq(r.out) BY AnthropicLists
  <2>5. x.id = n + 1 /\ x.args = <<>> /\ y.args = <<>> OBVIOUS
  <2>6. IsSeq(said.calls) BY DEF Grounds
  <2> HIDE DEF r, x, y
  <2>7. /\ Len(calls) = n + 1
        /\ \A j \in 1..(n + 1) : calls[j] = IF j = n + 1 THEN x ELSE feed.calls[j]
    BY <1>4, ListAdd DEF IsSeq
  <2>8. /\ Len(said'.calls) = n + 1
        /\ \A j \in 1..(n + 1) : said'.calls[j] = IF j = n + 1 THEN y ELSE said.calls[j]
    BY <2>2, <2>6, ListAdd
  <2> HIDE DEF calls, n, e
  <2>9. Len(calls) = Len(said'.calls) /\ \A c \in 1..Len(said'.calls) : calls[c].id = c /\ calls[c].args = said'.calls[c].args
    BY <1>1, <1>4, <2>5, <2>7, <2>8
  <2>10. Utters(r, feed, said'.text, calls) /\ said'.reason = None BY <1>1, <1>4, <2>2, <2>3
  <2> QED BY <1>1, <1>3, <2>1, <2>2, <2>4, <2>9, <2>10, SpeaksOn
<1>6. CASE kind # "call"
  <2> DEFINE r == Ignored(feed)
  <2>1. Consume(r) /\ UNCHANGED said BY <1>6 DEF AnthropicBlock
  <2>2. Utters(r, feed, feed.text, feed.calls) /\ IsSeq(r.out)
    BY <1>4, AnthropicUtters, AnthropicLists
  <2> HIDE DEF r
  <2> QED BY <1>1, <1>3, <2>1, <2>2, SilenceOn
<1> QED BY <1>5, <1>6

LEMMA AnthropicDeltasFollow ==
    ASSUME RInv, FReading, Grounds, AnthropicDelta
    PROVE  FReading' /\ phase' = "reading"
<1> DEFINE n == Len(said.calls)
<1>1. /\ Translates /\ ~Responses /\ ~up.held /\ ~up.ended /\ said.reason = None /\ DOMAIN up = UpFields
      /\ n \in Nat /\ MaxCalls \in Nat /\ n <= MaxCalls /\ up.pieces \in Nat /\ Piece \in Pieces /\ Piece # <<>>
  BY StillOn DEF AnthropicDelta, Speaks, Translates, Responses
<1>2. up' = [up EXCEPT !.pieces = @ + 1] BY DEF AnthropicDelta
<1>3. up'.pieces \in Nat /\ up'.labels = up.labels /\ up'.held = up.held /\ up'.ended = up.ended /\ up'.open = up.open
  BY <1>1, <1>2 DEF UpFields
<1>4. /\ Heeding(feed) /\ feed.text = said.text /\ feed.calls \in Seq(ToolSet) /\ Len(feed.calls) = n
      /\ \A c \in 1..n : feed.calls[c].id = c /\ feed.calls[c].args = said.calls[c].args
  BY <1>1, Grasped DEF Grasps, Behind
<1>5. CASE SayText /\ Consume(AnthropicText(feed, Piece))
  <2> DEFINE r == AnthropicText(feed, Piece)
  <2>1. Sound' /\ said'.text = said.text \o Piece /\ said'.calls = said.calls /\ said'.reason = None
    BY <1>1, <1>5, Sounds
  <2>2. Utters(r, feed, feed.text \o Piece, feed.calls) /\ IsSeq(r.out)
    BY <1>1, <1>4, AnthropicUtters, AnthropicLists
  <2> HIDE DEF r
  <2>3. Utters(r, feed, said'.text, feed.calls) BY <1>4, <2>1, <2>2
  <2> QED BY <1>1, <1>3, <1>4, <1>5, <2>1, <2>2, <2>3, SpeaksOn DEF r
<1>6. CASE UNCHANGED said /\ Consume(AnthropicThinking(feed))
  <2> DEFINE r == AnthropicThinking(feed)
  <2>1. Utters(r, feed, feed.text, feed.calls) /\ IsSeq(r.out)
    BY <1>4, AnthropicUtters, AnthropicLists
  <2> HIDE DEF r
  <2> QED BY <1>1, <1>3, <1>6, <2>1, SilenceOn DEF r
<1>7. CASE up.block = "call" /\ SayArgs(n) /\ Consume(AnthropicInput(feed, Piece))
  <2> DEFINE r == AnthropicInput(feed, Piece)
             calls == Fuller(feed.calls, n, Piece)
  <2>1. n \in 1..n BY <1>1, <1>7 DEF Grounds, AnthropicDelta, Speaks
  <2>2. Sound' /\ said'.text = said.text /\ said'.reason = None /\ said'.calls = Fuller(said.calls, n, Piece)
    BY <1>1, <1>7, <2>1, Sounds
  <2>3. Utters(r, feed, feed.text, calls) /\ IsSeq(r.out)
    BY <1>1, <1>4, <2>1, AnthropicUtters, AnthropicLists
  <2> DEFINE more == Fuller(said.calls, n, Piece)
  <2>4. /\ Len(calls) = n /\ Len(more) = n
        /\ \A j \in 1..n : j # n => calls[j] = feed.calls[j] /\ more[j] = said.calls[j]
        /\ calls[n].id = feed.calls[n].id /\ calls[n].args = feed.calls[n].args \o Piece
        /\ more[n].args = said.calls[n].args \o Piece
    <3>1. feed.calls \in Seq(ToolSet) /\ said.calls \in Seq(CallSet) /\ Len(feed.calls) = n /\ Len(said.calls) = n
      BY <1>4, SoundFacts
    <3>2. n \in Nat /\ n \in 1..n BY <1>1, <2>1
    <3> HIDE DEF n, calls, more
    <3>3. Listed(feed.calls, n, n) /\ Listed(said.calls, n, n) BY <3>1, <3>2, ListsCalls
    <3>4. Extends(feed.calls, calls, n, n, Piece) /\ Extends(said.calls, more, n, n, Piece)
      BY <3>3, FullerFacts DEF calls, more
    <3> QED BY <3>4 DEF Extends
  <2> HIDE DEF more
  <2>6. said'.calls = more BY <2>2 DEF more
  <2> HIDE DEF r, calls, n
  <2>7. Len(calls) = Len(said'.calls) /\ \A c \in 1..Len(said'.calls) : calls[c].id = c /\ calls[c].args = said'.calls[c].args
    BY <1>4, <2>1, <2>4, <2>6
  <2>8. Utters(r, feed, said'.text, calls) BY <1>4, <2>2, <2>3
  <2> QED BY <1>1, <1>3, <1>7, <2>2, <2>3, <2>7, <2>8, SpeaksOn DEF r
<1> QED BY <1>5, <1>6, <1>7 DEF AnthropicDelta

LEMMA AnthropicEndsFollow ==
    ASSUME RInv, FReading, Grounds
    PROVE  /\ AnthropicBlockStop => FReading' /\ phase' = "reading"
           /\ \A cut : AnthropicMessageDelta(cut) => FReading' /\ phase' = "reading"
           /\ AnthropicMessageStop => FReading' /\ phase' = "reading"
<1>1. DOMAIN up = UpFields /\ up.pieces \in Nat /\ Heeding(feed) BY StillOn DEF FReading
<1>2. ASSUME AnthropicBlockStop PROVE FReading' /\ phase' = "reading"
  <2> DEFINE r == Ignored(feed)
  <2>1. Translates /\ said.reason = None /\ Consume(r) /\ UNCHANGED said /\ up' = [up EXCEPT !.block = None]
    BY <1>2, StillOn DEF AnthropicBlockStop, Speaks, Translates
  <2>2. up'.pieces \in Nat /\ up'.labels = up.labels /\ up'.held = up.held /\ up'.ended = up.ended /\ up'.open = up.open
    BY <1>1, <2>1 DEF UpFields
  <2>3. Utters(r, feed, feed.text, feed.calls) /\ IsSeq(r.out)
    BY <1>1, AnthropicUtters, AnthropicLists
  <2> HIDE DEF r
  <2> QED BY <2>1, <2>2, <2>3, SilenceOn
<1>3. ASSUME NEW cut, NEW reason, proto = "anthropic", Consume(AnthropicEnd(feed, reason)), SayEnd(cut),
             up' = [up EXCEPT !.ended = TRUE],
             AnthropicReason(reason, said.calls # <<>>) =
                IF cut THEN "length" ELSE IF said.calls # <<>> THEN "tool_calls" ELSE "stop"
      PROVE  FReading' /\ phase' = "reading"
  <2> DEFINE r == AnthropicEnd(feed, reason)
             why == AnthropicReason(reason, feed.calls # <<>>)
  <2>1. Translates /\ ~Responses /\ ~up.held BY <1>3, StillOn DEF Translates, Responses
  <2>2. up'.pieces \in Nat /\ up'.labels = up.labels /\ up'.held = up.held /\ up'.ended /\ up'.open = up.open
    BY <1>1, <1>3 DEF UpFields
  <2>3. /\ Sound' /\ said'.text = said.text /\ said'.calls = said.calls
        /\ said'.reason = IF cut THEN "length" ELSE IF said.calls # <<>> THEN "tool_calls" ELSE "stop"
    BY <1>3, Sounds
  <2>4. why = said'.reason /\ said'.reason # None
    BY <2>1, Grasped, <1>3, <2>3, ReplyStreamAssumption
  <2>5. Concludes(r, feed, feed.text, feed.calls, why) /\ IsSeq(r.out)
    BY <1>1, AnthropicUtters, AnthropicLists
  <2> HIDE DEF r, why
  <2> QED BY <1>3, <2>1, <2>2, <2>3, <2>4, <2>5, EndsOn DEF r
<1>4. ASSUME NEW cut, AnthropicMessageDelta(cut) PROVE FReading' /\ phase' = "reading"
  <2> DEFINE reason == IF cut THEN "max_tokens" ELSE IF said.calls # <<>> THEN "tool_use" ELSE "end_turn"
  <2>1. proto = "anthropic" /\ Consume(AnthropicEnd(feed, reason)) /\ SayEnd(cut) /\ up' = [up EXCEPT !.ended = TRUE]
    BY <1>4 DEF AnthropicMessageDelta, Speaks
  <2>2. AnthropicReason(reason, said.calls # <<>>) =
           IF cut THEN "length" ELSE IF said.calls # <<>> THEN "tool_calls" ELSE "stop"
    <3>1. CASE cut BY <3>1 DEF AnthropicReason
    <3>2. CASE ~cut /\ said.calls # <<>> BY <3>2 DEF AnthropicReason
    <3>3. CASE ~cut /\ said.calls = <<>> BY <3>3 DEF AnthropicReason
    <3> QED BY <3>1, <3>2, <3>3
  <2> HIDE DEF reason
  <2> QED BY <1>3, <2>1, <2>2
<1>5. ASSUME AnthropicMessageStop PROVE FReading' /\ phase' = "reading"
  <2>1. proto = "anthropic" /\ Consume(AnthropicStop(feed)) /\ up' = [up EXCEPT !.ended = TRUE] /\ Translates
    BY <1>5 DEF AnthropicMessageStop, Translates
  <2>2. (up.ended <=> said.reason # None) /\ (feed.completed <=> said.reason # None) BY DEF FReading
  <2>3. CASE up.ended
    <3> DEFINE r == Ignored(feed)
    <3>1. UNCHANGED said /\ Consume(r)
      BY <1>5, <2>1, <2>2, <2>3 DEF AnthropicMessageStop, AnthropicStop
    <3>2. up'.pieces \in Nat /\ up'.labels = up.labels /\ up'.held = up.held /\ up'.ended /\ up'.open = up.open
      BY <1>1, <2>1 DEF UpFields
    <3>3. Utters(r, feed, feed.text, feed.calls) /\ IsSeq(r.out) /\ r.out = <<>>
      BY <1>1, AnthropicUtters, AnthropicLists DEF Ignored, Result
    <3>4. up'.ended = up.ended BY <1>1, <2>1, <2>3 DEF UpFields
    <3> HIDE DEF r
    <3> QED BY <2>1, <3>1, <3>2, <3>3, <3>4, SilenceOn
  <2>4. CASE ~up.ended
    BY <1>5, <2>1, <2>2, <2>4, ReplyStreamAssumption, <1>3 DEF AnthropicMessageStop, AnthropicStop,
       AnthropicReason
  <2> QED BY <2>3, <2>4
<1> QED BY <1>2, <1>4, <1>5

LEMMA ErrorsFollow ==
    ASSUME RInv, FReading, Grounds, UpstreamError
    PROVE  FReading' /\ phase' = "reading"
<1> DEFINE r == Failed(feed)
<1>1. Translates /\ Consume(r) /\ UNCHANGED <<up, said>> BY DEF UpstreamError, Translates
<1>2. up'.pieces \in Nat /\ up' = up BY <1>1 DEF FReading
<1>3. Utters(r, feed, feed.text, feed.calls) /\ IsSeq(r.out) /\ r.out = <<>>
  BY AnthropicUtters, AnthropicLists DEF FReading, Failed, Result
<1> HIDE DEF r
<1> QED BY <1>1, <1>2, <1>3, SilenceOn

\* A delta of a call that has a name is of that call; without one, it is of
\* the only call there is, or of none.
LEMMA FindsDelta ==
    ASSUME Grounds, Responses, Labelled(feed.calls, up.labels), up.labels \subseteq {"item", "out"},
           NEW c \in 1..Len(feed.calls), Len(feed.calls) = Len(said.calls)
    PROVE  FindTool(proto, feed, InDelta(c)) =
              IF up.labels = {} /\ Len(said.calls) # 1 THEN 0 ELSE c
<1> DEFINE ev == InDelta(c)
           byItem == {i \in DOMAIN feed.calls : ev.item # None /\ feed.calls[i].item = ev.item}
           byCall == {i \in DOMAIN feed.calls : ev.call # None /\ feed.calls[i].id = ev.call}
           byOut == {i \in DOMAIN feed.calls : ev.out # None /\ feed.calls[i].out = ev.out}
           f == FindTool(proto, feed, ev)
           N == Len(feed.calls)
<1>1. /\ ev.call = None /\ ev.item = (IF "item" \in up.labels THEN c ELSE None)
      /\ ev.out = (IF "out" \in up.labels THEN c ELSE None)
  BY DEF InDelta
<1>2. IsSeq(feed.calls) /\ N \in Nat /\ DOMAIN feed.calls = 1..N /\ c # None /\ c # 0
  BY LenProperties, ReplyStreamAssumption DEF Grounds, IsSeq
<1>3. f = IF byItem # {} THEN Max(byItem)
          ELSE IF byCall # {} THEN Min(byCall)
          ELSE IF byOut # {} THEN Max(byOut)
          ELSE IF N = 1 /\ ~(proto = "codex" /\ ev.out # None) THEN 1 ELSE 0
  BY DEF FindTool
<1>4. LabelledCall(feed.calls[c], c, up.labels) BY DEF Labelled
<1> HIDE DEF ev
<1>5. f \in {0, c} BY <1>1, <1>2, Finds
<1>6. byCall = {} BY <1>1
<1>7. CASE "item" \in up.labels
  <2>1. c \in byItem BY <1>1, <1>2, <1>4, <1>7 DEF LabelledCall
  <2>2. byItem \in SUBSET (0..N) /\ 0 \notin byItem BY <1>2
  <2>3. Max(byItem) \in byItem
    <3> HIDE DEF byItem, N
    <3> QED BY <1>2, <2>1, <2>2, Greatest
  <2> HIDE DEF byItem, byOut, byCall, f
  <2>4. f = Max(byItem) BY <1>3, <2>1
  <2>5. f = c BY <1>5, <2>2, <2>3, <2>4
  <2> QED BY <1>7, <2>5 DEF f, ev
<1>8. CASE "item" \notin up.labels /\ "out" \in up.labels
  <2>1. byItem = {} BY <1>1, <1>8
  <2>2. c \in byOut BY <1>1, <1>2, <1>4, <1>8 DEF LabelledCall
  <2>3. byOut \in SUBSET (0..N) /\ 0 \notin byOut BY <1>2
  <2>4. Max(byOut) \in byOut
    <3> HIDE DEF byOut, N
    <3> QED BY <1>2, <2>2, <2>3, Greatest
  <2> HIDE DEF byItem, byOut, byCall, f
  <2>5. f = Max(byOut) BY <1>3, <1>6, <2>1, <2>2
  <2>6. f = c BY <1>5, <2>3, <2>4, <2>5
  <2> QED BY <1>8, <2>6 DEF f, ev
<1>9. CASE up.labels = {}
  <2>1. byItem = {} /\ byOut = {} /\ ev.out = None BY <1>1, <1>9
  <2> HIDE DEF byItem, byOut, byCall, f, N
  <2>2. f = IF N = 1 THEN 1 ELSE 0 BY <1>3, <1>6, <2>1
  <2>3. N = 1 => c = 1 BY DEF N
  <2>4. N = Len(said.calls) BY DEF N
  <2> QED BY <1>9, <2>2, <2>3, <2>4 DEF f, ev
<1> QED BY <1>7, <1>8, <1>9 DEF f, ev

\* What there is in common to the events of a Responses upstream.
LEMMA ResponsesGoesOn ==
    ASSUME FReading, Grounds, ResponsesSpeaks
    PROVE  /\ Translates /\ Responses /\ ~up.held /\ said.reason = None /\ DOMAIN up = UpFields
           /\ Len(said.calls) \in Nat /\ MaxCalls \in Nat /\ Len(said.calls) <= MaxCalls
           /\ up.pieces \in Nat /\ Piece \in Pieces /\ Piece # <<>> /\ <<>> \in Pieces
           /\ up.labels \subseteq {"item", "out"} /\ up.open \subseteq 1..Len(said.calls)
           /\ Heeding(feed) /\ feed.text = said.text /\ feed.calls \in Seq(ToolSet)
           /\ Len(feed.calls) = Len(said.calls)
           /\ \A c \in 1..Len(said.calls) :
                 /\ feed.calls[c].id = c
                 /\ feed.calls[c].args = IF c \in up.open /\ up.labels = {} /\ Len(said.calls) # 1
                                         THEN <<>> ELSE said.calls[c].args
           /\ Labelled(feed.calls, up.labels)
BY Grasped, StillOn DEF ResponsesSpeaks, Speaks, Responses, Translates, Grounds, Tells, FReading,
   Grasps, Behind

LEMMA ResponsesTextsFollow ==
    ASSUME RInv, FReading, Grounds
    PROVE  /\ ResponsesSaysText => FReading' /\ phase' = "reading"
           /\ ResponsesSaysMessage => FReading' /\ phase' = "reading"
           /\ ResponsesThinks => FReading' /\ phase' = "reading"
<1>1. ASSUME ResponsesSpeaks, TextPiece, SayText, NEW r, Consume(r), IsSeq(r.out),
             Utters(r, feed, feed.text \o Piece, feed.calls)
      PROVE  FReading' /\ phase' = "reading"
  <2> DEFINE n == Len(said.calls)
  <2>1. /\ Translates /\ ~up.held /\ said.reason = None /\ DOMAIN up = UpFields /\ up.pieces \in Nat
        /\ feed.text = said.text /\ Len(feed.calls) = n
        /\ \A c \in 1..n :
              /\ feed.calls[c].id = c
              /\ feed.calls[c].args = IF c \in up.open /\ up.labels = {} /\ n # 1 THEN <<>> ELSE said.calls[c].args
    BY <1>1, ResponsesGoesOn
  <2>2. up' = [up EXCEPT !.pieces = @ + 1, !.since = n] BY <1>1 DEF TextPiece
  <2>3. up'.pieces \in Nat /\ up'.labels = up.labels /\ up'.held = up.held /\ up'.ended = up.ended /\ up'.open = up.open
    BY <2>1, <2>2 DEF UpFields
  <2>4. Sound' /\ said'.text = said.text \o Piece /\ said'.calls = said.calls /\ said'.reason = None
    BY <1>1, <2>1, Sounds
  <2>5. Utters(r, feed, said'.text, feed.calls) BY <1>1, <2>1, <2>4
  <2>6. \A c \in 1..Len(said'.calls) :
           /\ feed.calls[c].id = c
           /\ feed.calls[c].args = IF Responses /\ c \in up'.open /\ up.labels = {} /\ Len(said'.calls) # 1
                                   THEN <<>> ELSE said'.calls[c].args
    BY <1>1, <2>1, <2>3, <2>4, ResponsesGoesOn
  <2> QED BY <1>1, <2>1, <2>3, <2>4, <2>5, <2>6, SpeaksOn
<1>2. ASSUME ResponsesSaysText PROVE FReading' /\ phase' = "reading"
  <2> DEFINE r == ResponsesText(proto, feed, Piece)
  <2>1. ResponsesSpeaks /\ TextPiece /\ SayText /\ Consume(r) BY <1>2 DEF ResponsesSaysText
  <2>2. Heeding(feed) /\ Piece \in Pieces BY <2>1, ResponsesGoesOn
  <2>3. Utters(r, feed, feed.text \o Piece, feed.calls) /\ IsSeq(r.out)
    BY <2>2, ResponsesUtters, ResponsesLists
  <2> HIDE DEF r
  <2> QED BY <1>1, <2>1, <2>3
<1>3. ASSUME ResponsesSaysMessage PROVE FReading' /\ phase' = "reading"
  <2> DEFINE r == ResponsesMessageDone(proto, feed, Piece)
  <2>1. ResponsesSpeaks /\ TextPiece /\ SayText /\ Consume(r) /\ proto # "codex" /\ said.text = <<>>
    BY <1>3 DEF ResponsesSaysMessage
  <2>2. Heeding(feed) /\ Piece \in Pieces /\ feed.text = <<>> BY <2>1, ResponsesGoesOn
  <2>3. Utters(r, feed, feed.text \o Piece, feed.calls) /\ IsSeq(r.out)
    BY <2>1, <2>2, ResponsesUtters, ResponsesLists
  <2> HIDE DEF r
  <2> QED BY <1>1, <2>1, <2>3
<1>4. ASSUME ResponsesThinks PROVE FReading' /\ phase' = "reading"
  <2>1. ResponsesSpeaks /\ UNCHANGED <<up, said>> BY <1>4 DEF ResponsesThinks
  <2>2. PICK r : Consume(r) /\ r \in {ResponsesReasoning(proto, feed), ResponsesReasoningDone(proto, feed)}
    BY <1>4 DEF ResponsesThinks
  <2>3. Translates /\ said.reason = None /\ up.pieces \in Nat /\ Heeding(feed)
    BY <2>1, ResponsesGoesOn
  <2>4. Utters(r, feed, feed.text, feed.calls) /\ IsSeq(r.out)
    BY <2>3, ResponsesUtters, ResponsesLists, <2>2
  <2> QED BY <2>1, <2>2, <2>3, <2>4, SilenceOn
<1> QED BY <1>2, <1>3, <1>4

LEMMA ResponsesAddsFollow ==
    ASSUME RInv, FReading, Grounds, ResponsesAddsCall
    PROVE  FReading' /\ phase' = "reading"
<1> DEFINE n == Len(said.calls)
           ev == InItem(n + 1)
           r == ResponsesItemAdded(proto, feed, ev)
           x == [id |-> ev.call, item |-> ev.item, out |-> ev.out, args |-> <<>>]
           y == [id |-> n + 1, args |-> <<>>]
           calls == Append(feed.calls, x)
           e == <<>>
<1>1. /\ ResponsesSpeaks /\ n < MaxCalls /\ (up.labels = {} => up.open = {})
      /\ up' = [up EXCEPT !.open = @ \cup {n + 1}] /\ SayCall(n + 1, e) /\ Consume(r)
  BY DEF ResponsesAddsCall, MoreCalls
<1>2. /\ Translates /\ ~up.held /\ said.reason = None /\ DOMAIN up = UpFields /\ up.pieces \in Nat
      /\ n \in Nat /\ MaxCalls \in Nat /\ e \in Pieces
      /\ Heeding(feed) /\ feed.text = said.text /\ feed.calls \in Seq(ToolSet) /\ Len(feed.calls) = n
      /\ \A c \in 1..n :
            /\ feed.calls[c].id = c
            /\ feed.calls[c].args = IF c \in up.open /\ up.labels = {} /\ n # 1 THEN <<>> ELSE said.calls[c].args
  BY <1>1, ResponsesGoesOn
<1>3. /\ up'.pieces \in Nat /\ up'.labels = up.labels /\ up'.held = up.held /\ up'.ended = up.ended
      /\ up'.open = up.open \cup {n + 1}
  BY <1>1, <1>2 DEF UpFields
<1>4. Sound' /\ said'.text = said.text /\ said'.reason = None /\ said'.calls = Append(said.calls, y)
  <2>1. y = [id |-> n + 1, args |-> e] OBVIOUS
  <2> HIDE DEF e, y
  <2> QED BY <1>1, <1>2, <2>1, Sounds
<1>5. ev.call = n + 1 /\ {ev.call, ev.item, ev.out} \subseteq Nat \cup {None}
  BY <1>2 DEF InItem, InDelta
<1>6. Utters(r, feed, feed.text, calls) /\ IsSeq(r.out)
  <2>1. Len(feed.calls) + 1 <= MaxCalls BY <1>1, <1>2
  <2> HIDE DEF ev
  <2> QED BY <1>2, <1>5, <2>1, ResponsesCallsUtter, ResponsesLists
<1>7. x.id = n + 1 /\ x.args = <<>> /\ y.args = <<>> BY <1>5
<1>8. IsSeq(said.calls) BY DEF Grounds
<1> HIDE DEF r, x, y, ev
<1>9. /\ Len(calls) = n + 1
      /\ \A j \in 1..(n + 1) : calls[j] = IF j = n + 1 THEN x ELSE feed.calls[j]
  BY <1>2, ListAdd DEF IsSeq
<1>10. /\ Len(said'.calls) = n + 1
       /\ \A j \in 1..(n + 1) : said'.calls[j] = IF j = n + 1 THEN y ELSE said.calls[j]
  BY <1>4, <1>8, ListAdd
<1> HIDE DEF calls, n, e
<1>11. ASSUME NEW c \in 1..(n + 1)
       PROVE  /\ calls[c].id = c
              /\ calls[c].args = IF c \in up'.open /\ up.labels = {} /\ n + 1 # 1
                                 THEN <<>> ELSE said'.calls[c].args
  <2>1. CASE c = n + 1 BY <1>2, <1>7, <1>9, <1>10, <2>1
  <2>2. CASE c # n + 1
    <3>1. c \in 1..n /\ calls[c] = feed.calls[c] /\ said'.calls[c] = said.calls[c]
      BY <1>2, <1>9, <1>10, <2>2
    <3>2. up.labels = {} => c \notin up.open /\ c \notin up'.open BY <1>1, <1>3, <2>2
    <3> QED BY <1>2, <3>1, <3>2
  <2> QED BY <2>1, <2>2
<1>12. Utters(r, feed, said'.text, calls) BY <1>2, <1>4, <1>6
<1>13. \A c \in 1..Len(said'.calls) :
          /\ calls[c].id = c
          /\ calls[c].args = IF Responses /\ c \in up'.open /\ up.labels = {} /\ Len(said'.calls) # 1
                             THEN <<>> ELSE said'.calls[c].args
  BY <1>1, <1>10, <1>11, ResponsesGoesOn
<1> QED BY <1>1, <1>2, <1>3, <1>4, <1>6, <1>9, <1>10, <1>12, <1>13, SpeaksOn

\* The event is about call c, and all others are as they were.
LEMMA OneCallOn ==
    ASSUME RInv, FReading, Grounds, ResponsesSpeaks, NEW c \in 1..Len(said.calls),
           NEW r, IsSeq(r.out), Consume(r), Sound', said'.text = said.text, said'.reason = None,
           up'.pieces \in Nat, up'.labels = up.labels, up'.held = up.held, up'.ended = up.ended,
           up'.open \in {up.open, up.open \ {c}},
           Len(said'.calls) = Len(said.calls),
           \A j \in 1..Len(said.calls) : j # c => said'.calls[j] = said.calls[j],
           NEW calls, Utters(r, feed, feed.text, calls), Len(calls) = Len(said.calls),
           \A j \in 1..Len(said.calls) : j # c => calls[j] = feed.calls[j],
           calls[c].id = c,
           calls[c].args = IF c \in up'.open /\ up.labels = {} /\ Len(said.calls) # 1 THEN <<>> ELSE said'.calls[c].args
    PROVE  FReading' /\ phase' = "reading"
<1> DEFINE n == Len(said.calls)
<1>1. /\ Translates /\ Responses /\ ~up.held /\ said.reason = None /\ feed.text = said.text
      /\ \A j \in 1..n :
            /\ feed.calls[j].id = j
            /\ feed.calls[j].args = IF j \in up.open /\ up.labels = {} /\ n # 1 THEN <<>> ELSE said.calls[j].args
  BY ResponsesGoesOn
<1>2. ASSUME NEW j \in 1..n
      PROVE  /\ calls[j].id = j
             /\ calls[j].args = IF j \in up'.open /\ up.labels = {} /\ n # 1 THEN <<>> ELSE said'.calls[j].args
  <2>1. CASE j = c BY <2>1
  <2>2. CASE j # c BY <2>2, <1>1
  <2> QED BY <2>1, <2>2
<1>3. \A j \in 1..Len(said'.calls) :
         /\ calls[j].id = j
         /\ calls[j].args = IF Responses /\ j \in up'.open /\ up.labels = {} /\ Len(said'.calls) # 1
                            THEN <<>> ELSE said'.calls[j].args
  BY <1>1, <1>2
<1>4. Utters(r, feed, said'.text, calls) /\ Len(calls) = Len(said'.calls) BY <1>1
<1> HIDE DEF n
<1> QED BY <1>1, <1>3, <1>4, SpeaksOn

LEMMA ResponsesArgsFollow ==
    ASSUME RInv, FReading, Grounds, NEW c, ResponsesSaysArgs(c)
    PROVE  FReading' /\ phase' = "reading"
<1> DEFINE n == Len(said.calls)
           ev == InDelta(c)
           i == FindTool(proto, feed, ev)
           r == ResponsesArgs(proto, feed, ev, Piece)
           more == Fuller(said.calls, c, Piece)
<1>1. ResponsesSpeaks /\ c \in up.open /\ ArgsPiece(c, up.open) /\ SayArgs(c) /\ Consume(r)
  BY DEF ResponsesSaysArgs
<1>2. /\ Translates /\ Responses /\ said.reason = None /\ DOMAIN up = UpFields /\ up.pieces \in Nat
      /\ n \in Nat /\ MaxCalls \in Nat /\ n <= MaxCalls /\ Piece \in Pieces /\ Piece # <<>>
      /\ c \in 1..n /\ up.labels \subseteq {"item", "out"} /\ Labelled(feed.calls, up.labels)
      /\ Heeding(feed) /\ feed.text = said.text /\ feed.calls \in Seq(ToolSet) /\ Len(feed.calls) = n
      /\ \A j \in 1..n :
            /\ feed.calls[j].id = j
            /\ feed.calls[j].args = IF j \in up.open /\ up.labels = {} /\ n # 1 THEN <<>> ELSE said.calls[j].args
  BY <1>1, ResponsesGoesOn
<1>3. up' = [up EXCEPT !.pieces = @ + 1, !.open = up.open, !.broken = @ \/ c <= up.since]
  BY <1>1 DEF ArgsPiece
<1>4. /\ up'.pieces \in Nat /\ up'.labels = up.labels /\ up'.held = up.held /\ up'.ended = up.ended
      /\ up'.open = up.open
  BY <1>2, <1>3 DEF UpFields
<1>5. Sound' /\ said'.text = said.text /\ said'.reason = None /\ said'.calls = more
  BY <1>1, <1>2, Sounds
<1>6. Listed(feed.calls, n, c) /\ Listed(said.calls, n, c) BY <1>2, SoundFacts, ListsCalls
<1>7. Extends(said.calls, more, n, c, Piece) BY <1>6, FullerFacts
<1>8. i = IF up.labels = {} /\ n # 1 THEN 0 ELSE c BY <1>2, FindsDelta
<1>9. IsSeq(r.out) BY ResponsesLists
<1> HIDE DEF more, ev
<1>10. CASE up.labels = {} /\ n # 1
  <2>1. i = 0 BY <1>8, <1>10
  <2>2. Utters(r, feed, feed.text, feed.calls) BY <1>2, <2>1, ResponsesCallsUtter
  <2>3. feed.calls[c].args = <<>> /\ feed.calls[c].id = c BY <1>1, <1>2, <1>10
  <2>4. Len(said'.calls) = n /\ \A j \in 1..n : j # c => said'.calls[j] = said.calls[j]
    BY <1>5, <1>7 DEF Extends
  <2> HIDE DEF r, i
  <2> QED BY <1>1, <1>2, <1>4, <1>5, <1>9, <1>10, <2>2, <2>3, <2>4, OneCallOn
<1>11. CASE ~(up.labels = {} /\ n # 1)
  <2> DEFINE calls == Fuller(feed.calls, c, Piece)
  <2>1. i = c /\ i \in 1..Len(feed.calls) /\ i <= MaxCalls BY <1>2, <1>8, <1>11
  <2>2. Utters(r, feed, feed.text, calls)
    <3>1. Utters(r, feed, feed.text, Fuller(feed.calls, i, Piece))
      <4> HIDE DEF calls
      <4> QED BY <1>2, <2>1, ResponsesCallsUtter
    <3> HIDE DEF i, r
    <3> QED BY <2>1, <3>1
  <2>3. Extends(feed.calls, calls, n, c, Piece) BY <1>6, FullerFacts
  <2> HIDE DEF calls, r, i
  <2>4. /\ Len(said'.calls) = n /\ Len(calls) = n
        /\ \A j \in 1..n : j # c => said'.calls[j] = said.calls[j] /\ calls[j] = feed.calls[j]
        /\ calls[c].id = c /\ calls[c].args = feed.calls[c].args \o Piece
        /\ said'.calls[c].args = said.calls[c].args \o Piece
    BY <1>2, <1>5, <1>7, <2>3 DEF Extends
  <2>5. feed.calls[c].args = said.calls[c].args BY <1>2, <1>11
  <2>6. calls[c].args = said'.calls[c].args BY <2>4, <2>5
  <2> QED BY <1>1, <1>2, <1>4, <1>5, <1>9, <1>11, <2>2, <2>4, <2>6, OneCallOn
<1> QED BY <1>10, <1>11

LEMMA ResponsesEndsFollow ==
    ASSUME RInv, FReading, Grounds, NEW c, ResponsesEndsCall(c)
    PROVE  FReading' /\ phase' = "reading"
<1> DEFINE n == Len(said.calls)
           ev == InItem(c)
           r(v) == ResponsesCallDone(proto, feed, ev, v)
           now(v) == Finals(feed.calls, c, v)
<1>1. ResponsesSpeaks /\ c \in up.open BY DEF ResponsesEndsCall
<1>2. /\ Translates /\ Responses /\ said.reason = None /\ DOMAIN up = UpFields /\ up.pieces \in Nat
      /\ n \in Nat /\ MaxCalls \in Nat /\ n <= MaxCalls /\ Piece \in Pieces /\ Piece # <<>>
      /\ c \in 1..n /\ up.labels \subseteq {"item", "out"} /\ Labelled(feed.calls, up.labels)
      /\ Heeding(feed) /\ feed.text = said.text /\ feed.calls \in Seq(ToolSet) /\ Len(feed.calls) = n
      /\ \A j \in 1..n :
            /\ feed.calls[j].id = j
            /\ feed.calls[j].args = IF j \in up.open /\ up.labels = {} /\ n # 1 THEN <<>> ELSE said.calls[j].args
  BY <1>1, ResponsesGoesOn
<1>3. FindTool(proto, feed, ev) = c
  <2>1. /\ ev.call = c /\ ev.item = (IF "item" \in up.labels THEN c ELSE None)
        /\ ev.out = (IF "out" \in up.labels THEN c ELSE None)
    BY DEF InItem, InDelta
  <2> HIDE DEF ev
  <2>2. IsSeq(feed.calls) BY DEF Grounds
  <2> QED BY <1>2, <2>1, <2>2, Finds
<1>4. ASSUME NEW v \in Pieces
      PROVE  /\ IsSeq(r(v).out) /\ Utters(r(v), feed, feed.text, now(v)) /\ Len(now(v)) = n
             /\ \A j \in 1..n : j # c => now(v)[j] = feed.calls[j]
             /\ now(v)[c].id = c
             /\ now(v)[c].args = IF feed.calls[c].args = <<>> THEN v ELSE feed.calls[c].args
  <2>1. IsSeq(r(v).out) BY ResponsesLists
  <2>2. Utters(r(v), feed, feed.text, now(v))
    <3>1. c \in 1..Len(feed.calls) /\ c <= MaxCalls /\ Heeding(feed) BY <1>2
    <3> HIDE DEF ev, n
    <3>2. Utters(ResponsesCallDone(proto, feed, ev, v), feed, feed.text,
                 Finals(feed.calls, c, v))
      BY <1>3, <1>4, <3>1, ResponsesCallsUtter
    <3> QED BY <3>2
  <2>3. CASE feed.calls[c].args = <<>> /\ v # <<>>
    <3> DEFINE a == v
               calls == Put(feed.calls, c, a)
    <3>1. /\ Len(calls) = n /\ calls[c].id = c /\ calls[c].args = a
          /\ \A j \in 1..n : j # c => calls[j] = feed.calls[j]
      <4> DEFINE x == [feed.calls[c] EXCEPT !.args = a]
                 all == [feed.calls EXCEPT ![c] = x]
      <4>1. calls = all BY DEF Put
      <4>2. feed.calls[c] \in ToolSet BY <1>2, ElementOfSeq
      <4>3. x.id = feed.calls[c].id /\ x.args = a BY <4>2 DEF ToolSet
      <4>4. IsSeq(feed.calls) /\ c \in 1..Len(feed.calls) BY <1>2 DEF Grounds
      <4> HIDE DEF x
      <4>5. Len(all) = Len(feed.calls) /\ \A j \in 1..Len(feed.calls) : all[j] = IF j = c THEN x ELSE feed.calls[j]
        BY <4>4, ListPut
      <4> HIDE DEF all
      <4>6. all[c] = x /\ \A j \in 1..n : j # c => all[j] = feed.calls[j] BY <1>2, <4>5
      <4> QED BY <1>2, <4>1, <4>3, <4>5, <4>6
    <3>2. now(v) = calls BY <2>3 DEF Finals
    <3> HIDE DEF now, calls
    <3> QED BY <2>1, <2>2, <2>3, <3>1, <3>2
  <2>4. CASE ~(feed.calls[c].args = <<>> /\ v # <<>>)
    <3>1. now(v) = feed.calls BY <2>4 DEF Finals
    <3>2. feed.calls[c].args = IF feed.calls[c].args = <<>> THEN v ELSE feed.calls[c].args BY <2>4
    <3> HIDE DEF now
    <3> QED BY <1>2, <2>1, <2>2, <3>1, <3>2
  <2> QED BY <2>3, <2>4
<1> HIDE DEF r, now, ev
<1>5. ASSUME NEW v \in Pieces, Consume(r(v)), Sound', said'.text = said.text, said'.reason = None,
             up'.pieces \in Nat, up'.labels = up.labels, up'.held = up.held, up'.ended = up.ended,
             up'.open = up.open \ {c}, Len(said'.calls) = n,
             \A j \in 1..n : j # c => said'.calls[j] = said.calls[j],
             (IF feed.calls[c].args = <<>> THEN v ELSE feed.calls[c].args) = said'.calls[c].args
      PROVE  FReading' /\ phase' = "reading"
  <2>1. now(v)[c].args = IF c \in up'.open /\ up.labels = {} /\ n # 1 THEN <<>> ELSE said'.calls[c].args
    BY <1>4, <1>5
  <2>2. up'.open \in {up.open, up.open \ {c}} BY <1>5
  <2>3. IsSeq(r(v).out) /\ Utters(r(v), feed, feed.text, now(v)) /\ Len(now(v)) = n /\ now(v)[c].id = c
    BY <1>4
  <2>4. \A j \in 1..n : j # c => now(v)[j] = feed.calls[j] BY <1>4
  <2> HIDE DEF n
  <2> QED BY <1>1, <1>2, <1>5, <2>1, <2>2, <2>3, <2>4, OneCallOn DEF n
<1>6. CASE /\ up' = [up EXCEPT !.open = @ \ {c}, !.broken = @ \/ c <= up.since]
           /\ UNCHANGED said
           /\ Consume(r(said.calls[c].args))
  <2> DEFINE v == said.calls[c].args
  <2>1. v \in Pieces BY <1>2, SoundFacts DEF CallSet
  <2>2. /\ up'.pieces \in Nat /\ up'.labels = up.labels /\ up'.held = up.held /\ up'.ended = up.ended
        /\ up'.open = up.open \ {c}
    BY <1>2, <1>6 DEF UpFields
  <2>3. Sound' /\ said' = said BY <1>6, Sounds
  <2>4. (IF feed.calls[c].args = <<>> THEN v ELSE feed.calls[c].args) = said.calls[c].args BY <1>2
  <2>5. Consume(r(v)) BY <1>6
  <2>6. v = said.calls[c].args OBVIOUS
  <2> HIDE DEF v
  <2> QED BY <1>2, <1>5, <2>1, <2>2, <2>3, <2>4, <2>5
<1>7. CASE /\ said.calls[c].args = <<>>
           /\ ArgsPiece(c, up.open \ {c}) /\ SayArgs(c)
           /\ Consume(r(Piece))
  <2> DEFINE more == Fuller(said.calls, c, Piece)
  <2>1. up' = [up EXCEPT !.pieces = @ + 1, !.open = up.open \ {c}, !.broken = @ \/ c <= up.since]
    BY <1>7 DEF ArgsPiece
  <2>2. /\ up'.pieces \in Nat /\ up'.labels = up.labels /\ up'.held = up.held /\ up'.ended = up.ended
        /\ up'.open = up.open \ {c}
    BY <1>2, <2>1 DEF UpFields
  <2>3. Sound' /\ said'.text = said.text /\ said'.reason = None /\ said'.calls = more
    BY <1>2, <1>7, Sounds
  <2>4. Extends(said.calls, more, n, c, Piece) BY <1>2, SoundFacts, ListsCalls, FullerFacts
  <2> HIDE DEF more
  <2>5. /\ Len(said'.calls) = n /\ \A j \in 1..n : j # c => said'.calls[j] = said.calls[j]
        /\ said'.calls[c].args = said.calls[c].args \o Piece
    BY <2>3, <2>4 DEF Extends
  <2>6. said'.calls[c].args = Piece BY <1>2, <1>7, <2>5 DEF Pieces
  <2>7. feed.calls[c].args = <<>> BY <1>2, <1>7
  <2>8. (IF feed.calls[c].args = <<>> THEN Piece ELSE feed.calls[c].args) = said'.calls[c].args
    BY <2>6, <2>7
  <2> QED BY <1>2, <1>5, <1>7, <2>2, <2>3, <2>5, <2>8
<1> QED BY <1>6, <1>7 DEF ResponsesEndsCall, r, ev

LEMMA OutputIs ==
    ASSUME FReading, Grounds
    PROVE  /\ Output.text = said.text /\ Output.text \in Pieces
           /\ Output.calls \in Seq(OutputSet) /\ Len(Output.calls) = Len(said.calls)
           /\ \A c \in 1..Len(said.calls) : Output.calls[c].call = c /\ Output.calls[c].args = said.calls[c].args
<1> DEFINE n == Len(said.calls)
           x(c) == [item |-> InItem(c).item, call |-> c, args |-> said.calls[c].args]
           cs == [c \in 1..n |-> x(c)]
<1>1. n \in Nat /\ DOMAIN said.calls = 1..n BY Counts
<1>2. Output = [text |-> said.text, calls |-> cs] BY <1>1 DEF Output
<1>3. ASSUME NEW c \in 1..n PROVE x(c) \in OutputSet /\ x(c).call = c /\ x(c).args = said.calls[c].args
  <2>1. said.calls[c] \in CallSet BY <1>3, SoundFacts
  <2>2. InItem(c).item \in Nat \cup {None} BY <1>1, <1>3 DEF InItem, InDelta
  <2> DEFINE i == InItem(c).item
  <2> HIDE DEF i
  <2> QED BY <1>1, <1>3, <2>1, <2>2 DEF OutputSet, CallSet, i
<1> HIDE DEF x, n
<1>4. cs \in Seq(OutputSet) /\ Len(cs) = n /\ \A c \in 1..n : cs[c] = x(c) BY <1>1, <1>3
<1>5. Output.text = said.text /\ Output.calls = cs BY <1>2
<1> HIDE DEF cs
<1> QED BY <1>3, <1>4, <1>5, SoundFacts DEF n

\* The response is completed.
LEMMA CompletesFollow ==
    ASSUME RInv, FReading, Grounds, NEW cut, ResponsesCompletes(cut)
    PROVE  FReading' /\ phase' = "reading"
<1> DEFINE n == Len(said.calls)
           output == Output
           r == ResponsesCompleted(proto, feed, cut, output)
           full == IF proto = "codex" THEN feed ELSE ApplyOutput(feed, output)
           why == IF cut THEN "length" ELSE IF full.calls # <<>> THEN "tool_calls" ELSE "stop"
<1>1. /\ up.open = {} /\ up' = [up EXCEPT !.ended = TRUE] /\ SayEnd(cut) /\ Consume(r) /\ ~up.ended
      /\ proto \in {"responses", "codex"}
  BY DEF ResponsesCompletes, Speaks, Output
<1>2. /\ Translates /\ Responses /\ said.reason = None /\ DOMAIN up = UpFields /\ up.pieces \in Nat
      /\ n \in Nat /\ (up.held => proto = "responses") /\ Heeding(feed) /\ ~feed.completed
  BY <1>1, StillOn DEF Translates, Responses, FReading
<1>3. /\ up'.pieces \in Nat /\ up'.labels = up.labels /\ up'.held = up.held /\ up'.ended /\ up'.open = up.open
  BY <1>1, <1>2 DEF UpFields
<1>4. /\ Sound' /\ said'.text = said.text /\ said'.calls = said.calls
      /\ said'.reason = IF cut THEN "length" ELSE IF said.calls # <<>> THEN "tool_calls" ELSE "stop"
  BY <1>1, Sounds
<1>5. said'.reason # None BY <1>4, ReplyStreamAssumption
<1>6. /\ output.text = said.text /\ output.text \in Pieces
      /\ output.calls \in Seq(OutputSet) /\ Len(output.calls) = n
      /\ \A c \in 1..n : output.calls[c].call = c /\ output.calls[c].args = said.calls[c].args
  BY OutputIs
<1>7. IsSeq(r.out) BY ResponsesLists
<1> HIDE DEF output
<1>8. Heeding(full) BY <1>2, <1>6, ApplyHeeds
<1>9. Concludes(r, feed, full.text, full.calls, why)
  <2> HIDE DEF full
  <2>1. Heeding(full) /\ full = IF proto = "codex" THEN feed ELSE ApplyOutput(feed, output)
    BY <1>8 DEF full
  <2> QED BY <2>1, CompletedConcludes
<1>10. CASE ~up.held
  <2>1. /\ feed.text = said.text /\ feed.calls \in Seq(ToolSet) /\ Len(feed.calls) = n
        /\ \A c \in 1..n : feed.calls[c].id = c
        /\ feed.calls = <<>> <=> said.calls = <<>>
    BY <1>2, <1>10, Grasped DEF Grasps
  <2>2. ASSUME proto # "codex" PROVE full.text = feed.text /\ full.calls = feed.calls
    <3>1. \A k \in 1..Len(output.calls) :
             output.calls[k].call # None /\ \E i \in 1..Len(feed.calls) : feed.calls[i].id = output.calls[k].call
      <4> TAKE k \in 1..Len(output.calls)
      <4>1. k \in 1..n /\ k # None BY <1>2, <1>6, ReplyStreamAssumption
      <4>2. output.calls[k].call = k /\ feed.calls[k].id = k /\ k \in 1..Len(feed.calls)
        BY <1>6, <2>1, <4>1
      <4> QED BY <4>1, <4>2
    <3>2. full = ApplyOutput(feed, output) BY <2>2
    <3> HIDE DEF full
    <3>3. output.text = feed.text BY <1>6, <2>1
    <3> QED BY <1>2, <1>6, <3>1, <3>2, <3>3, ApplyKnown
  <2>3. full.text = feed.text /\ full.calls = feed.calls BY <2>2
  <2> HIDE DEF full
  <2>4. why = said'.reason BY <1>4, <2>1, <2>3
  <2> HIDE DEF r, why
  <2>5. Concludes(r, feed, feed.text, feed.calls, said'.reason) BY <1>9, <2>3, <2>4
  <2> QED BY <1>1, <1>2, <1>3, <1>4, <1>5, <1>7, <1>10, <2>5, EndsOn
<1>11. CASE up.held
  <2>1. feed.text = <<>> /\ feed.calls = <<>> /\ proto # "codex"
    BY <1>2, <1>11 DEF FReading, Understands
  <2>2. full = ApplyOutput(feed, output) BY <2>1
  <2> HIDE DEF full
  <2> DEFINE x == [id |-> output.calls[1].call, item |-> output.calls[1].item, out |-> None,
                   args |-> output.calls[1].args]
  <2>3. ASSUME n <= 1
        PROVE  /\ full.text = said.text
               /\ n = 0 => full.calls = <<>>
               /\ n = 1 => full.calls = <<x>> /\ x \in ToolSet
    <3>1. Len(output.calls) <= 1 BY <1>6, <2>3
    <3>2. /\ ApplyOutput(feed, output).text = output.text
          /\ Len(output.calls) = 0 => ApplyOutput(feed, output).calls = <<>>
          /\ Len(output.calls) = 1 => ApplyOutput(feed, output).calls = <<x>> /\ x \in ToolSet
      BY <1>2, <1>6, <2>1, <3>1, ApplyHeld
    <3> HIDE DEF x
    <3> QED BY <1>6, <2>2, <3>2
  <2>4. /\ Heeding(r.s) /\ r.s.text = full.text /\ r.s.calls = full.calls
        /\ r.s.completed = TRUE /\ r.s.reason = why
    BY <1>9 DEF Concludes
  <2>5. ASSUME n <= 1 PROVE r.s.reason = said'.reason /\ Collected(r.s) = Spoken'
    <3>1. Collected(r.s) = [text |-> full.text, calls |-> Brief(full.calls)]
      BY <2>4, HeedingCollects
    <3>2. Spoken' = [text |-> said.text, calls |-> said.calls] BY <1>4 DEF Spoken
    <3>3. said.calls \in Seq(CallSet) /\ \A c \in 1..n : said.calls[c] \in CallSet /\ said.calls[c].id = c
      BY SoundFacts
    <3>4. CASE n = 0 BY <2>3, <2>5, <3>3, <3>4, EmptySeq, <1>4, <2>4, <3>1, <3>2 DEF Brief
    <3>5. CASE n = 1
      <4>1. full.calls = <<x>> /\ x \in ToolSet BY <2>3, <2>5, <3>5
      <4>2. x.id = 1 /\ x.args = said.calls[1].args BY <1>6, <3>5
      <4> HIDE DEF x
      <4>3. Brief(full.calls) = <<[id |-> x.id, args |-> x.args]>> BY <4>1 DEF Brief
      <4>4. said.calls = <<said.calls[1]>> BY <3>3, <3>5
      <4>5. said.calls[1] \in CallSet /\ said.calls[1].id = 1 BY <3>3, <3>5
      <4>6. said.calls[1] = [id |-> x.id, args |-> x.args] BY <4>2, <4>5 DEF CallSet
      <4>7. Brief(full.calls) = said.calls BY <4>3, <4>4, <4>6
      <4>8. full.calls # <<>> /\ said.calls # <<>> BY <4>1, <4>4
      <4> QED BY <1>4, <2>3, <2>4, <2>5, <3>1, <3>2, <4>7, <4>8
    <3> HIDE DEF n, r, why, x
    <3>6. n = 0 \/ n = 1 BY <1>2, <2>5
    <3> QED BY <3>4, <3>5, <3>6
  <2>6. feed' = r.s /\ proto' = proto BY <1>1 DEF Consume
  <2> HIDE DEF r, why
  <2>7. Understands' BY <1>1, <1>3, <1>4, <1>11, <2>4, <2>5, <2>6 DEF Understands, Responses
  <2>8. (up.held /\ Len(said'.calls) > 1) \/ r.s.reason = said'.reason BY <1>2, <1>4, <1>11, <2>5
  <2> QED BY <1>1, <1>2, <1>3, <1>4, <1>5, <1>7, <1>11, <2>4, <2>7, <2>8, FollowsOn
<1> QED BY <1>10, <1>11

\* An upstream that holds its output back.
LEMMA HoldsFollow ==
    ASSUME RInv, FReading, Grounds, NEW call, ResponsesHolds(call)
    PROVE  FReading' /\ phase' = "reading"
<1> DEFINE n == Len(said.calls)
           p == Piece
<1>1. /\ Speaks("responses") /\ (said = Nothing \/ up.held)
      /\ up' = [up EXCEPT !.pieces = @ + 1, !.held = TRUE]
      /\ SayCall(n + 1, p) \/ SayText
      /\ UNCHANGED <<phase, attempt, proto, feed, ok, wire, pinger, late, fresh>>
  BY DEF ResponsesHolds
<1>2. /\ Translates /\ phase = "reading" /\ proto = "responses" /\ said.reason = None /\ DOMAIN up = UpFields
      /\ up.pieces \in Nat /\ n \in Nat /\ p \in Pieces /\ ~feed.completed /\ ~up.ended
  BY <1>1, StillOn DEF Translates, Speaks, FReading
<1>3. /\ up'.pieces \in Nat /\ up'.labels = up.labels /\ up'.held = TRUE /\ up'.ended = up.ended
  BY <1>1, <1>2 DEF UpFields
<1>4. feed.text = <<>> /\ feed.calls = <<>>
  <2>1. CASE up.held BY <1>2, <2>1 DEF FReading, Understands
  <2>2. CASE ~up.held /\ said = Nothing BY <1>2, <2>2, Grasped DEF Nothing
  <2> QED BY <1>1, <2>1, <2>2
<1>5. /\ Sound' /\ said'.reason = None /\ Len(said'.calls) \in Nat /\ Len(said'.calls) >= n
  <2>1. CASE SayText BY <1>2, <2>1, Sounds
  <2>2. CASE SayCall(n + 1, p)
    <3> DEFINE y == [id |-> n + 1, args |-> p]
    <3>1. Sound' /\ said'.reason = said.reason /\ said'.calls = Append(said.calls, y)
      <4> HIDE DEF p
      <4> QED BY <1>2, <2>2, Sounds
    <3>2. IsSeq(said.calls) BY DEF Grounds
    <3> HIDE DEF y
    <3>3. Len(said'.calls) = n + 1 BY <3>1, <3>2, ListAdd
    <3> QED BY <1>2, <3>1, <3>3
  <2> QED BY <1>1, <2>1, <2>2
<1>6. Understands' BY <1>1, <1>2, <1>3, <1>4 DEF Understands
<1>7. (up'.held /\ Len(said'.calls) > 1) \/ feed'.reason = said'.reason
  BY <1>1, <1>2, <1>3, <1>5 DEF FReading
<1>8. Heeding(feed') /\ (up'.ended <=> said'.reason # None) /\ (feed'.completed <=> said'.reason # None)
  BY <1>1, <1>2, <1>3, <1>5 DEF FReading
<1>9. fresh' /\ ~wire'.stream => Bare(wire)' BY <1>1 DEF FReading, Bare
<1>10. up'.labels \subseteq {"item", "out"} BY <1>3 DEF FReading
<1> QED BY <1>1, <1>2, <1>3, <1>5, <1>6, <1>7, <1>8, <1>9, <1>10 DEF FReading

\* A list of one value or none.
LEMMA OneOrNone ==
    ASSUME NEW calls \in 0..1, NEW x
    PROVE  /\ calls = 0 => [j \in 1..calls |-> x] = <<>>
           /\ calls = 1 => [j \in 1..calls |-> x] = <<x>>
OBVIOUS

\* What a Gemini frame adds to what was said.
LEMMA GeminiAdds ==
    ASSUME FReading, Grounds, NEW text \in BOOLEAN, NEW thought, NEW calls \in 0..1, NEW reason,
           GeminiSays(text, thought, calls, reason)
    PROVE  LET n == Len(said.calls)
               f == [text |-> IF text THEN Piece ELSE <<>>, thought |-> thought,
                     calls |-> [j \in 1..calls |-> Piece], reason |-> reason]
               all == IF calls = 0 THEN said.calls ELSE Append(said.calls, [id |-> n + 1, args |-> Piece])
           IN  /\ Consume(GeminiFrame(feed, f)) /\ f.text \in Pieces /\ IsSeq(f.calls)
               /\ calls = 0 => f.calls = <<>>
               /\ calls = 1 => f.calls = <<Piece>> /\ n + 1 <= MaxCalls
               /\ proto = "gemini" /\ ~up.ended /\ ~up.held
               /\ up'.pieces \in Nat /\ up'.labels = up.labels /\ up'.held = up.held
               /\ up'.ended = (reason # None)
               /\ said'.text = said.text \o f.text /\ said'.calls = all
               /\ said'.reason = IF reason = None THEN None
                                 ELSE IF all # <<>> THEN "tool_calls"
                                 ELSE IF reason = "MAX_TOKENS" THEN "length" ELSE "stop"
               /\ Sound'
<1> DEFINE n == Len(said.calls)
           f == [text |-> IF text THEN Piece ELSE <<>>, thought |-> thought,
                 calls |-> [j \in 1..calls |-> Piece], reason |-> reason]
           y == [id |-> n + 1, args |-> Piece]
           all == IF calls = 0 THEN said.calls ELSE Append(said.calls, y)
           more == [j \in 1..calls |-> [id |-> Len(said.calls) + j, args |-> Piece]]
           whole == said.calls \o more
           pieces == IF text \/ calls > 0 THEN up.pieces + 1 ELSE up.pieces
           why(cs) == IF reason = None THEN None ELSE IF cs # <<>> THEN "tool_calls"
                      ELSE IF reason = "MAX_TOKENS" THEN "length" ELSE "stop"
<1>1. /\ said.text \in Pieces /\ said.calls \in Seq(CallSet) /\ n \in Nat /\ Piece \in Pieces
      /\ \A c \in 1..n : said.calls[c] \in CallSet /\ said.calls[c].id = c
  BY SoundFacts
<1>2. /\ phase = "reading" /\ proto = "gemini" /\ ~up.ended /\ ~up.held /\ DOMAIN up = UpFields
      /\ up.pieces \in Nat
  BY StillOn DEF GeminiSays, Speaks
<1>3. /\ Len(whole) <= MaxCalls /\ Consume(GeminiFrame(feed, f))
      /\ up' = [up EXCEPT !.pieces = pieces, !.ended = (reason # None)]
      /\ said'.text = said.text \o f.text /\ said'.calls = whole /\ said'.reason = why(whole)
  BY DEF GeminiSays, Piece
<1>4. pieces \in Nat BY <1>2
<1> HIDE DEF pieces
<1>5. /\ up'.pieces \in Nat /\ up'.labels = up.labels /\ up'.held = up.held
      /\ up'.ended = (reason # None)
  BY <1>2, <1>3, <1>4 DEF UpFields
<1>6. y \in CallSet /\ y.id = n + 1 BY <1>1 DEF CallSet
<1>7. /\ whole = all
      /\ calls = 1 => Len(whole) = n + 1
      /\ all \in Seq(CallSet) /\ \A c \in 1..Len(all) : all[c].id = c
  <2>1. CASE calls = 0
    <3>1. more = <<>> BY <2>1
    <3> HIDE DEF more, n
    <3>2. whole = said.calls BY <1>1, <3>1
    <3> QED BY <1>1, <2>1, <3>2 DEF n
  <2>2. CASE calls = 1
    <3>1. more = <<y>>
      <4> DEFINE z(j) == [id |-> Len(said.calls) + j, args |-> Piece]
      <4>1. more = [j \in 1..1 |-> z(j)] BY <2>2
      <4>2. z(1) = y OBVIOUS
      <4> HIDE DEF z, y
      <4>3. [j \in 1..1 |-> z(j)] = <<z(1)>> OBVIOUS
      <4> QED BY <4>1, <4>2, <4>3
    <3> HIDE DEF more, y, n
    <3>2. whole = Append(said.calls, y) BY <1>1, <1>6, <3>1
    <3>3. /\ Append(said.calls, y) \in Seq(CallSet) /\ Len(Append(said.calls, y)) = n + 1
          /\ \A j \in 1..(n + 1) : Append(said.calls, y)[j] = IF j = n + 1 THEN y ELSE said.calls[j]
      BY <1>1, <1>6, AppendProperties DEF n
    <3>4. all = Append(said.calls, y) BY <2>2
    <3> HIDE DEF all, whole
    <3>5. \A c \in 1..Len(all) : all[c].id = c BY <1>1, <1>6, <3>3, <3>4
    <3> QED BY <2>2, <3>2, <3>3, <3>4, <3>5
  <2>3. calls = 0 \/ calls = 1 OBVIOUS
  <2> QED BY <2>1, <2>2, <2>3
<1>8. f.text \in Pieces BY <1>1 DEF Pieces
<1>9. /\ IsSeq(f.calls) /\ (calls = 0 => f.calls = <<>>) /\ (calls = 1 => f.calls = <<Piece>>)
  <2> DEFINE cs == [j \in 1..calls |-> Piece]
  <2>1. cs = [j \in 1..calls |-> cs[j]] OBVIOUS
  <2>2. (calls = 0 => cs = <<>>) /\ (calls = 1 => cs = <<Piece>>)
    <3> DEFINE p == Piece
    <3> HIDE DEF p
    <3>1. (calls = 0 => [j \in 1..calls |-> p] = <<>>) /\ (calls = 1 => [j \in 1..calls |-> p] = <<p>>)
      BY OneOrNone
    <3> QED BY <3>1 DEF p
  <2> HIDE DEF cs
  <2>3. IsSeq(cs) BY <2>1, IsList
  <2> QED BY <2>2, <2>3 DEF cs
<1>10. Sound'
  <2> DEFINE t == said.text \o f.text
  <2>1. t \in Pieces BY <1>1, <1>8 DEF Pieces
  <2>2. said'.text = t /\ said'.calls = all BY <1>3, <1>7
  <2> HIDE DEF t, all
  <2> QED BY <1>7, <2>1, <2>2 DEF Sound, Spoken, Message
<1>11. calls = 1 => n + 1 <= MaxCalls BY <1>3, <1>7
<1> HIDE DEF whole
<1>12. said'.calls = all /\ said'.reason = why(all) BY <1>3, <1>7
<1> HIDE DEF f, all, n, y
<1> QED BY <1>2, <1>3, <1>5, <1>8, <1>9, <1>10, <1>11, <1>12 DEF f, all, n, y

\* A Gemini frame.
LEMMA GeminiFollows ==
    ASSUME RInv, FReading, Grounds, NEW text \in BOOLEAN, NEW thought, NEW calls \in 0..1,
           NEW reason \in {None, "STOP", "MAX_TOKENS"}, GeminiSays(text, thought, calls, reason)
    PROVE  FReading' /\ phase' = "reading"
<1> DEFINE n == Len(said.calls)
           f == [text |-> IF text THEN Piece ELSE <<>>, thought |-> thought,
                 calls |-> [j \in 1..calls |-> Piece], reason |-> reason]
           y == [id |-> n + 1, args |-> Piece]
           x == [id |-> n + 1, item |-> None, out |-> None, args |-> Piece]
           all == IF calls = 0 THEN said.calls ELSE Append(said.calls, y)
           tools == IF f.calls = <<>> THEN feed.calls ELSE Append(feed.calls, x)
           r == GeminiFrame(feed, f)
<1>1. /\ Consume(r) /\ f.text \in Pieces /\ IsSeq(f.calls)
      /\ calls = 0 => f.calls = <<>>
      /\ calls = 1 => f.calls = <<Piece>> /\ n + 1 <= MaxCalls
      /\ proto = "gemini" /\ ~up.ended /\ ~up.held
      /\ up'.pieces \in Nat /\ up'.labels = up.labels /\ up'.held = up.held
      /\ up'.ended = (reason # None)
      /\ said'.text = said.text \o f.text /\ said'.calls = all
      /\ said'.reason = IF reason = None THEN None
                        ELSE IF all # <<>> THEN "tool_calls"
                        ELSE IF reason = "MAX_TOKENS" THEN "length" ELSE "stop"
      /\ Sound'
  BY GeminiAdds
<1>2. /\ Translates /\ ~Responses /\ said.reason = None /\ n \in Nat /\ Piece \in Pieces
      /\ said.calls \in Seq(CallSet) /\ f.reason = reason
  BY <1>1, StillOn, SoundFacts DEF Translates, Responses
<1>3. /\ Heeding(feed) /\ feed.text = said.text /\ feed.calls \in Seq(ToolSet) /\ Len(feed.calls) = n
      /\ \A c \in 1..n : feed.calls[c].id = c /\ feed.calls[c].args = said.calls[c].args
      /\ feed.calls = <<>> <=> said.calls = <<>>
      /\ feed.reason = None
  BY <1>1, <1>2, Grasped DEF Grasps, Behind
<1>4. ~feed.completed BY <1>2 DEF FReading
<1>5. f.calls = <<>> \/ (f.calls = <<Piece>> /\ Len(feed.calls) + 1 <= MaxCalls)
  <2> HIDE DEF f, n
  <2> QED BY <1>1, <1>3
<1>6. x = [id |-> Len(feed.calls) + 1, item |-> None, out |-> None, args |-> Piece] BY <1>3
<1> HIDE DEF f, x
<1>7. /\ Heeding(r.s) /\ r.s.text = feed.text \o f.text /\ r.s.calls = tools
      /\ r.s.completed = (feed.completed \/ f.reason # None)
      /\ r.s.reason = IF f.reason = None THEN feed.reason ELSE GeminiReason(f.reason, tools # <<>>)
      /\ Carries(r.out, Collected(feed), Collected(r.s))
      /\ f.reason = None => Plain(r.out)
  <2> DEFINE x0 == [id |-> Len(feed.calls) + 1, item |-> None, out |-> None, args |-> Piece]
             tools0 == IF f.calls = <<>> THEN feed.calls ELSE Append(feed.calls, x0)
  <2>1. /\ Heeding(r.s) /\ r.s.text = feed.text \o f.text /\ r.s.calls = tools0
        /\ r.s.completed = (feed.completed \/ f.reason # None)
        /\ r.s.reason = IF f.reason = None THEN feed.reason ELSE GeminiReason(f.reason, tools0 # <<>>)
        /\ Carries(r.out, Collected(feed), Collected(r.s))
        /\ f.reason = None => Plain(r.out)
    BY <1>1, <1>2, <1>3, <1>5, GeminiUtters
  <2>2. tools0 = tools BY <1>6
  <2> HIDE DEF tools0, tools, r
  <2> QED BY <2>1, <2>2
<1>8. IsSeq(r.out) BY <1>1, GeminiLists
<1> HIDE DEF r
<1>9. calls = 0 \/ calls = 1 OBVIOUS
<1>10. /\ Len(tools) = Len(all) /\ (tools = <<>> <=> all = <<>>)
       /\ \A c \in 1..Len(all) : tools[c].id = c /\ tools[c].args = all[c].args
  <2>1. CASE calls = 0
    <3>1. tools = feed.calls /\ all = said.calls BY <1>1, <2>1
    <3> HIDE DEF tools, all
    <3> QED BY <1>3, <3>1
  <2>2. CASE calls = 1
    <3>1. f.calls # <<>>
      <4>1. <<Piece>> # <<>> OBVIOUS
      <4> QED BY <1>1, <2>2, <4>1
    <3>2. tools = Append(feed.calls, x) /\ all = Append(said.calls, y) BY <2>2, <3>1
    <3>3. x.id = n + 1 /\ x.args = Piece /\ y.args = Piece BY DEF x
    <3> HIDE DEF x, y, tools, all
    <3>4. IsSeq(feed.calls) /\ IsSeq(said.calls) BY <1>2, <1>3 DEF IsSeq
    <3>5. /\ Len(tools) = n + 1 /\ \A j \in 1..(n + 1) : tools[j] = IF j = n + 1 THEN x ELSE feed.calls[j]
      BY <1>3, <3>2, <3>4, ListAdd
    <3>6. /\ Len(all) = n + 1 /\ \A j \in 1..(n + 1) : all[j] = IF j = n + 1 THEN y ELSE said.calls[j]
      BY <3>2, <3>4, ListAdd
    <3> HIDE DEF n
    <3>7. tools # <<>> /\ all # <<>> BY <1>2, <3>5, <3>6
    <3>8. \A c \in 1..(n + 1) : tools[c].id = c /\ tools[c].args = all[c].args
      <4> TAKE c \in 1..(n + 1)
      <4>1. CASE c = n + 1 BY <3>3, <3>5, <3>6, <4>1
      <4>2. CASE c # n + 1 BY <1>2, <4>2, <1>3, <3>5, <3>6
      <4> QED BY <4>1, <4>2
    <3> QED BY <3>5, <3>6, <3>7, <3>8
  <2> QED BY <1>9, <2>1, <2>2
<1> HIDE DEF n
<1>11. feed' = r.s /\ proto' = proto BY <1>1 DEF Consume
<1> HIDE DEF tools, all, y
<1>12. r.s.text = said'.text /\ r.s.calls = tools /\ said'.calls = all BY <1>1, <1>3, <1>7
<1>13. Understands' BY <1>1, <1>10, <1>11, <1>12, <1>2 DEF Grasps, Behind, Responses, Understands
<1>14. r.s.reason = said'.reason BY <1>1, <1>2, <1>3, <1>7, <1>10 DEF GeminiReason
<1>15. said'.reason # None <=> reason # None BY <1>1, ReplyStreamAssumption
<1>16. (up'.ended <=> said'.reason # None) /\ (r.s.completed <=> said'.reason # None)
  BY <1>1, <1>2, <1>4, <1>7, <1>15
<1>17. Carries(r.out, Taken, Taken') BY <1>1, <1>2, <1>7, TakenNext
<1>18. Tallies(r.out)
  <2>1. CASE reason = None BY <1>2, <1>7, <1>15, <2>1 DEF Tallies
  <2>2. CASE reason # None BY <1>1, <1>15, <2>2 DEF Tallies
  <2> QED BY <2>1, <2>2
<1> QED BY <1>1, <1>2, <1>7, <1>8, <1>13, <1>14, <1>16, <1>17, <1>18, FollowsOn

LEMMA PassedIs ==
    ASSUME NEW s, Heeding(s), NEW c
    PROVE  LET r == PassedOn(s, c)
           IN  /\ Heeding(r.s) /\ r.s.completed = (s.completed \/ c.k \in {"finish", "done"})
               /\ r.out = <<c>>
<1> DEFINE done == s.completed \/ c.k \in {"finish", "done"}
           t == [s EXCEPT !.completed = done]
           r == PassedOn(s, c)
<1>1. r = Result(t, <<c>>) BY DEF PassedOn
<1> HIDE DEF done
<1>2. DOMAIN t = FeedFields /\ t.text = s.text /\ t.calls = s.calls /\ t.completed = done
  BY DEF Heeding, FeedFields
<1> DEFINE u == [t EXCEPT !.events = TRUE]
<1> HIDE DEF t
<1>3. u.text = t.text /\ u.calls = t.calls /\ u.completed = t.completed /\ DOMAIN u = FeedFields
  BY <1>2 DEF FeedFields
<1> DEFINE out == <<c>>
<1> HIDE DEF out
<1>4. r = [s |-> u, out |-> out] BY <1>1 DEF Result, out
<1> HIDE DEF r, u
<1>5. r.s = u /\ r.out = out BY <1>4
<1>6. r.out = <<c>> BY <1>5 DEF out
<1> QED BY <1>2, <1>3, <1>5, <1>6 DEF Heeding, done, r

\* A line that is passed on is the chunk that the upstream spoke.
LEMMA PassOn ==
    ASSUME RInv, FReading, Grounds, proto \in {"openai", "proxy"}, said.reason = None, NEW c,
           Consume(PassedOn(feed, c)), Accepts(Spoken, c), Tell(Spoken, c) = Spoken', Sound',
           up'.pieces \in Nat, up'.labels = up.labels, up'.held = up.held,
           \/ said'.reason = None /\ c.k \notin {"finish", "done"} /\ up'.ended = up.ended
           \/ said'.reason # None /\ c.k = "finish" /\ c.id = said'.reason /\ up'.ended = TRUE
    PROVE  FReading' /\ phase' = "reading"
<1> DEFINE r == PassedOn(feed, c)
           e == <<c>>
           m == Spoken
           k == Spoken'
<1>1. /\ ~Translates /\ proto' = proto
      /\ (up.ended <=> said.reason # None) /\ (feed.completed <=> said.reason # None) /\ Heeding(feed)
  BY DEF Translates, FReading, Consume
<1>2. Heeding(r.s) /\ r.s.completed = (feed.completed \/ c.k \in {"finish", "done"}) /\ r.out = e
  BY <1>1, PassedIs
<1>3. Taken = m /\ Taken' = k BY <1>1 DEF Taken, Translates
<1>4. Len(e) = 1 /\ e[1] = c OBVIOUS
<1>5. Carries(e, m, k) /\ (c.k # "finish" => Plain(e)) /\ IsSeq(e)
  <2>1. Accepts(m, c) /\ Tell(m, c) = k OBVIOUS
  <2> HIDE DEF m, k
  <2>2. Carries(<<c>>, m, Tell(m, c)) /\ (c.k # "finish" => Plain(<<c>>)) BY <2>1, CarriesFacts
  <2>3. Carries(e, m, k) BY <2>1, <2>2
  <2> QED BY <2>2, <2>3 DEF Carries
<1> HIDE DEF r, e, m, k
<1>6. Consume(r) BY DEF r
<1>7. Carries(r.out, Taken, Taken') /\ IsSeq(r.out) BY <1>2, <1>3, <1>5
<1>8. CASE said'.reason = None /\ c.k \notin {"finish", "done"} /\ up'.ended = up.ended
  BY <1>2, <1>5, <1>8, <1>1, <1>6, <1>7, FollowsOn DEF Tallies
<1>9. CASE said'.reason # None /\ c.k = "finish" /\ c.id = said'.reason /\ up'.ended = TRUE
  <2>1. Len(r.out) > 0 /\ r.out[Len(r.out)] = c BY <1>2, <1>4
  <2>2. Tallies(r.out) BY <1>9, <2>1 DEF Tallies
  <2>3. (up'.ended <=> said'.reason # None) /\ (r.s.completed <=> said'.reason # None)
    BY <1>1, <1>2, <1>9
  <2> QED BY <1>1, <1>2, <1>6, <1>7, <2>2, <2>3, FollowsOn
<1> QED BY <1>8, <1>9

\* The lines of an OpenAI upstream.
LEMMA OpenAIFollows ==
    ASSUME RInv, FReading, Grounds, OpenAISays
    PROVE  FReading' /\ phase' = "reading"
<1> DEFINE n == Len(said.calls)
           p == Piece
           m == Spoken
<1>1. /\ proto \in {"openai", "proxy"} /\ ~up.ended /\ said.reason = None
      /\ DOMAIN up = UpFields /\ up.pieces \in Nat /\ n \in Nat /\ MaxCalls \in Nat
      /\ p \in Pieces /\ p # <<>> /\ <<>> \in Pieces /\ DOMAIN said.calls = 1..n
  BY StillOn, Counts DEF OpenAISays, Speaks
<1>2. m = [text |-> said.text, calls |-> said.calls] /\ Spoken' = [text |-> said'.text, calls |-> said'.calls]
  BY DEF Spoken
<1>3. /\ said.text \in Pieces /\ said.calls \in Seq(CallSet)
      /\ \A c \in 1..n : said.calls[c] \in CallSet /\ said.calls[c].id = c
  BY SoundFacts
<1>4. m.text = said.text /\ m.calls = said.calls BY <1>2
<1>5. CASE TextPiece /\ SayText /\ Passes(Text(Piece))
  <2> DEFINE c == Text(p)
  <2>1. c.k = "text" /\ c.v = p BY DEF Text, Chunk
  <2>2. Consume(PassedOn(feed, c)) /\ up' = [up EXCEPT !.pieces = @ + 1, !.since = n]
    BY <1>5 DEF Passes, TextPiece
  <2>3. Sound' /\ said'.text = said.text \o p /\ said'.calls = said.calls /\ said'.reason = None
    BY <1>1, <1>5, Sounds
  <2>4. up'.pieces \in Nat /\ up'.labels = up.labels /\ up'.held = up.held /\ up'.ended = up.ended
    BY <1>1, <2>2 DEF UpFields
  <2> HIDE DEF c, p, m, n
  <2>5. Accepts(m, c) /\ Tell(m, c) = Spoken' BY <1>1, <1>2, <1>4, <2>1, <2>3 DEF Accepts, Tell
  <2>6. c.k \notin {"finish", "done"} BY <2>1
  <2> QED BY <1>1, <2>2, <2>3, <2>4, <2>5, <2>6, PassOn DEF m
<1>6. CASE /\ MoreCalls /\ up' = [up EXCEPT !.pieces = @ + 1]
           /\ SayCall(n + 1, <<>>) /\ Passes(Announce(n + 1, n + 1, <<>>))
  <2> DEFINE e == <<>>
             c == Announce(n + 1, n + 1, e)
             y == [id |-> n + 1, args |-> e]
  <2>1. c.k = "call" /\ c.v = e /\ c.i = n + 1 /\ c.id = n + 1 BY DEF Announce, Chunk
  <2>2. Consume(PassedOn(feed, c)) /\ n < MaxCalls /\ SayCall(n + 1, e)
    BY <1>6 DEF Passes, MoreCalls
  <2>3. Sound' /\ said'.text = said.text /\ said'.reason = None /\ said'.calls = Append(said.calls, y)
    <3>1. e \in Pieces BY <1>1
    <3>2. y = [id |-> n + 1, args |-> e] OBVIOUS
    <3> HIDE DEF e, y
    <3> QED BY <1>1, <2>2, <3>1, <3>2, Sounds
  <2>4. up'.pieces \in Nat /\ up'.labels = up.labels /\ up'.held = up.held /\ up'.ended = up.ended
    BY <1>1, <1>6 DEF UpFields
  <2>5. e \in Pieces BY <1>1
  <2>6. y = [id |-> c.id, args |-> c.v] BY <2>1
  <2> HIDE DEF c, p, m, y, e
  <2>7. Accepts(m, c) BY <1>1, <2>2, <1>4, <2>1, <2>5 DEF Accepts
  <2> HIDE DEF n
  <2>8. Tell(m, c) = Spoken' BY <2>1, <1>2, <1>4, <2>3, <2>6 DEF Tell
  <2>9. c.k \notin {"finish", "done"} BY <2>1
  <2> QED BY <1>1, <2>2, <2>3, <2>4, <2>7, <2>8, <2>9, PassOn DEF m
<1>7. ASSUME NEW i \in DOMAIN said.calls, ArgsPiece(i, {}), SayArgs(i), Passes(Args(i, Piece))
      PROVE  FReading' /\ phase' = "reading"
  <2> DEFINE c == Args(i, p)
             more == Fuller(said.calls, i, p)
             a == said.calls[i].args \o p
  <2>1. c.k = "args" /\ c.v = p /\ c.i = i BY DEF Args, Chunk
  <2>2. /\ Consume(PassedOn(feed, c)) /\ i \in 1..n
        /\ up' = [up EXCEPT !.pieces = @ + 1, !.open = {}, !.broken = @ \/ i <= up.since]
    BY <1>1, <1>7 DEF Passes, ArgsPiece
  <2>3. Sound' /\ said'.text = said.text /\ said'.reason = None /\ said'.calls = more
    BY <1>1, <1>7, <2>2, Sounds
  <2>4. up'.pieces \in Nat /\ up'.labels = up.labels /\ up'.held = up.held /\ up'.ended = up.ended
    BY <1>1, <2>2 DEF UpFields
  <2> DEFINE cs == said.calls
             x == [cs[i] EXCEPT !.args = a]
  <2>5. more = [cs EXCEPT ![i] = x] BY DEF Fuller, Put
  <2>6. c.k \notin {"finish", "done"} BY <2>1
  <2>7. n <= MaxCalls BY DEF Grounds
  <2> HIDE DEF c, p, m, more
  <2>8. Accepts(m, c) BY <1>1, <1>4, <2>1, <2>2, <2>7 DEF Accepts
  <2>9. Tell(m, c) = [text |-> said.text, calls |-> [cs EXCEPT ![i] = x]]
    <3>1. Tell(m, c) = Told(m, i, m.calls[i].args \o p) BY <2>1 DEF Tell
    <3>2. m.calls[i].args \o p = a BY <1>4
    <3> HIDE DEF a
    <3>3. Told(m, i, a) = [m EXCEPT !.calls = [cs EXCEPT ![i] = x]] BY <1>4 DEF Told
    <3> DEFINE z == [cs EXCEPT ![i] = x]
    <3> HIDE DEF z, x, cs
    <3>4. [m EXCEPT !.calls = z] = [text |-> said.text, calls |-> z] BY <1>2
    <3> QED BY <3>1, <3>2, <3>3, <3>4 DEF z
  <2> HIDE DEF x, cs
  <2>10. Tell(m, c) = Spoken' BY <1>2, <2>3, <2>5, <2>9
  <2> QED BY <1>1, <2>2, <2>3, <2>4, <2>6, <2>8, <2>10, PassOn DEF m
<1>8. CASE /\ up' = [up EXCEPT !.ended = TRUE] /\ SayEnd(FALSE)
           /\ Passes(Finish(IF said.calls # <<>> THEN "tool_calls" ELSE "stop"))
  <2> DEFINE why == IF said.calls # <<>> THEN "tool_calls" ELSE "stop"
             c == Finish(why)
  <2> HIDE DEF why
  <2>1. c.k = "finish" /\ c.id = why BY DEF Finish, Chunk
  <2>2. Consume(PassedOn(feed, c)) BY <1>8 DEF Passes, why
  <2>3. Sound' /\ said'.text = said.text /\ said'.calls = said.calls /\ said'.reason = why
    BY <1>8, Sounds DEF why
  <2>4. up'.pieces \in Nat /\ up'.labels = up.labels /\ up'.held = up.held /\ up'.ended = TRUE
    BY <1>1, <1>8 DEF UpFields
  <2>5. why # None BY ReplyStreamAssumption DEF why
  <2> HIDE DEF c, p, n
  <2>6. Accepts(m, c) /\ Tell(m, c) = m /\ m = Spoken' BY <1>2, <2>1, <2>3 DEF Accepts, Tell
  <2> HIDE DEF m
  <2>7. Accepts(Spoken, c) /\ Tell(Spoken, c) = Spoken' BY <2>6 DEF m
  <2> QED BY <1>1, <2>1, <2>2, <2>3, <2>4, <2>5, <2>7, PassOn
<1> QED BY <1>5, <1>6, <1>7, <1>8 DEF OpenAISays

-----------------------------------------------------------------------------
(***************************************************************************)
(* The ends of an attempt: it is dispatched, collected, cut or read to its *)
(* end. One that counts as a success has delivered what the upstream said. *)
(***************************************************************************)
LEMMA NewBegins ==
    /\ Heeding(NewFeed) /\ Collected(NewFeed) = Blank
    /\ NewFeed.text = <<>> /\ NewFeed.calls = <<>> /\ NewFeed.completed = FALSE /\ NewFeed.reason = None
    /\ Blank \in Message /\ MessageRead(<<>>) = Blank /\ <<>> \in Seq(BlockSet) /\ Len(<<>>) = 0
    /\ Blank.calls = <<>> /\ Blank.text = <<>>
<1>1. <<>> \in Seq(BlockSet) /\ <<>> \in Pieces /\ <<>> \in Seq(ToolSet) /\ <<>> \in Seq(CallSet) /\ Len(<<>>) = 0
  BY DEF Pieces
<1>2. /\ DOMAIN NewFeed = FeedFields /\ NewFeed.text = <<>> /\ NewFeed.calls = <<>>
      /\ NewFeed.completed = FALSE /\ NewFeed.reason = None
  BY DEF NewFeed, FeedFields
<1>3. Heeding(NewFeed) BY <1>1, <1>2 DEF Heeding
<1>4. Blank \in Message /\ Blank.calls = <<>> /\ Blank.text = <<>> BY <1>1 DEF Blank, Message
<1>5. Collected(NewFeed) = Blank BY <1>2, <1>3, HeedingCollects DEF Brief, Blank
<1>6. MessageRead(<<>>) = Blank
  <2> DEFINE e == <<>>
  <2>1. Len(e) = 0 /\ IsSeq(e) BY Lists
  <2> HIDE DEF e
  <2>2. MessageRead(e) = Blank BY <2>1, ReadingSteps
  <2> QED BY <2>2 DEF e
<1> QED BY <1>1, <1>2, <1>3, <1>4, <1>5, <1>6

\* A writer that has nothing has the empty message.
LEMMA NothingLaid ==
    ASSUME NEW u, u.blocks = <<>>, u.slots = [i \in 1..MaxCalls |-> 0], u.body = <<>>, ~u.committed \/ u.api # "responses"
    PROVE  Laid(u, Blank)
<1> DEFINE e == <<>>
           z == [i \in 1..MaxCalls |-> 0]
<1>1. /\ Blank \in Message /\ MessageRead(e) = Blank /\ e \in Seq(BlockSet) /\ Len(e) = 0
      /\ Blank.calls = e /\ Blank.text = e /\ u.blocks = e /\ u.body = e
  BY NewBegins
<1>2. MaxCalls \in Nat BY ReplyStreamAssumption
<1>3. z \in [1..MaxCalls -> Nat] /\ \A i \in 1..MaxCalls : z[i] = 0 /\ i > 0 BY <1>2
<1>4. u.slots = z OBVIOUS
<1> HIDE DEF e, z
<1>5. Lays(z, e, Blank) BY <1>1, <1>3 DEF Lays
<1>6. \A i \in 1..Len(e) : FALSE BY <1>1
<1> QED BY <1>1, <1>4, <1>5, <1>6 DEF Laid, AllOpen

\* A target is dispatched.
LEMMA DispatchFollows ==
    ASSUME RInv, FInv, NEW p \in Protocols, NEW labels \in Labels, Dispatch(p, labels)
    PROVE  FInv'
<1> DEFINE u == wire'
<1>1. /\ phase = "next" /\ phase' = "reading" /\ proto' = p
      /\ up' = Idle(labels) /\ said' = Nothing /\ feed' = NewFeed
      /\ u = IF p \in {"openai", "proxy", "anthropic"} THEN Headers(NextAttempt(wire)) ELSE NextAttempt(wire)
      /\ fresh' = (wire.cut = None /\ ~wire.upstreamDone /\ (wire.api = "responses" => ~wire.committed))
  BY DEF Dispatch
<1>2. Open(wire) /\ Unwritten(wire) /\ (wire.api # "responses" => ~wire.committed)
  BY <1>1 DEF RInv, FInv, Trying, LiveWire
<1>3. Takes(wire, u) BY <1>1, <1>2, OthersUnwritten
<1>4. u.committed <=> (wire.committed \/ (p \in {"openai", "proxy", "anthropic"} /\ wire.api = "chat" /\ wire.direct))
  <2> DEFINE n == NextAttempt(wire)
  <2>1. n.committed = wire.committed /\ Headers(n).committed = (wire.committed \/ (wire.api = "chat" /\ wire.direct))
    BY <1>2, OthersUnwritten
  <2> HIDE DEF n, u
  <2>2. u = IF p \in {"openai", "proxy", "anthropic"} THEN Headers(n) ELSE n BY <1>1 DEF n
  <2>3. CASE p \in {"openai", "proxy", "anthropic"} BY <2>1, <2>2, <2>3
  <2>4. CASE p \notin {"openai", "proxy", "anthropic"} BY <2>1, <2>2, <2>4
  <2> QED BY <2>3, <2>4
<1>5. labels \subseteq {"item", "out"} BY ReplyStreamAssumption
<1>6. /\ up'.pieces = 0 /\ up'.labels = labels /\ up'.ended = FALSE /\ up'.held = FALSE
      /\ said'.text = <<>> /\ said'.calls = <<>> /\ said'.reason = None
  BY <1>1 DEF Idle, Nothing
<1>7. /\ Heeding(feed') /\ Collected(feed') = Blank /\ feed'.text = <<>> /\ feed'.calls = <<>>
      /\ feed'.completed = FALSE /\ feed'.reason = None /\ Spoken' = Blank
      /\ Blank \in Message /\ Len(<<>>) = 0
  BY <1>1, <1>6, NewBegins DEF Spoken, Blank
<1>8. Sound' BY <1>6, <1>7 DEF Sound
<1>9. Taken' = Blank BY <1>7 DEF Taken
<1>10. Understands' BY <1>6, <1>7 DEF Understands
<1> HIDE DEF u
<1>11. ASSUME fresh'
       PROVE  /\ u.blocks = <<>> /\ u.slots = [i \in 1..MaxCalls |-> 0] /\ u.body = <<>>
              /\ u.cut = None /\ ~u.upstreamDone
              /\ u.committed => u.api = "chat" /\ u.direct
              /\ p \in {"openai", "proxy"} /\ u.api = "chat" /\ u.direct => u.committed
  BY <1>1, <1>2, <1>3, <1>4, <1>11 DEF Takes, Unwritten
<1>12. ASSUME fresh' PROVE Laid(u, Blank) BY <1>11, <1>12, NothingLaid
<1>13. fresh' => Wired(wire)' /\ Bare(wire)' BY <1>1, <1>6, <1>9, <1>11, <1>12 DEF Wired, Bare, u
<1>14. FReading' BY <1>5, <1>6, <1>7, <1>8, <1>10, <1>13 DEF FReading
<1>15. Unwritten(wire') BY <1>3 DEF Takes, u
<1> QED BY <1>1, <1>14, <1>15 DEF FInv

\* What a translator collected is what the upstream said, once no call is open.
LEMMA CollectedIsSpoken ==
    ASSUME FReading, Grounds, Translates, ~(up.held /\ Len(said.calls) > 1),
           up.held \/ Responses => feed.completed
    PROVE  Collected(feed) = Spoken
<1>1. CASE up.held BY <1>1, Counts DEF FReading, Understands
<1>2. CASE ~up.held
  <2> DEFINE n == Len(said.calls)
  <2>1. /\ Heeding(feed) /\ feed.text = said.text /\ feed.calls \in Seq(ToolSet) /\ Len(feed.calls) = n
        /\ \A c \in 1..n : feed.calls[c] \in ToolSet /\ Grasps(c)
    BY <1>2, Grasped
  <2>2. /\ said.calls \in Seq(CallSet) /\ n \in Nat
        /\ \A c \in 1..n : said.calls[c] \in CallSet /\ said.calls[c].id = c
    BY SoundFacts
  <2>3. Responses => up.open = {} BY <1>2 DEF FReading, Understands
  <2>4. \A c \in 1..n : feed.calls[c].id = said.calls[c].id /\ feed.calls[c].args = said.calls[c].args
    BY <2>1, <2>2, <2>3 DEF Grasps, Behind
  <2> DEFINE b == Brief(feed.calls)
  <2>5. /\ b \in Seq(CallSet) /\ Len(b) = n
        /\ \A c \in 1..n : b[c] = [id |-> feed.calls[c].id, args |-> feed.calls[c].args]
    BY <2>1, BriefIs
  <2> HIDE DEF b, n
  <2>6. \A c \in 1..n : b[c] = said.calls[c]
    <3> TAKE c \in 1..n
    <3>1. said.calls[c] = [id |-> said.calls[c].id, args |-> said.calls[c].args] BY <2>2 DEF CallSet
    <3> QED BY <2>4, <2>5, <3>1
  <2>7. b = said.calls BY <2>2, <2>5, <2>6 DEF n
  <2> QED BY <2>1, <2>7, HeedingCollects DEF Spoken, b
<1> QED BY <1>1, <1>2

LEMMA CollectDelivers ==
    ASSUME NEW w, NEW m, NEW reason, Collectable(w, m, reason)
    PROVE  Brings(Collect(w, m, reason), m, reason)
<1>0. /\ DOMAIN w = Fields /\ Bare(w) /\ w.api \in {"chat", "messages", "responses"} /\ m \in Message
      /\ Verdict(Collect(w, m, reason), TRUE) = "done"
  BY DEF Collectable
<1> DEFINE v == Collect(w, m, reason)
           cs == Collection(m)
<1>1. CASE ~HasReply(m) /\ ~(w.api = "chat" /\ w.direct)
  <2>1. v = w BY <1>1 DEF Collect
  <2> HIDE DEF v
  <2>2. Verdict(w, TRUE) # "done" BY <1>0, <1>1 DEF Verdict, Bare
  <2> QED BY <1>0, <2>1, <2>2 DEF v
<1>2. CASE ~(~HasReply(m) /\ ~(w.api = "chat" /\ w.direct))
  <2>1. v = [w EXCEPT !.committed = TRUE, !.upstreamDone = TRUE, !.stop = reason, !.blocks = cs]
    BY <1>2 DEF Collect, Collection
  <2>2. cs \in Seq(BlockSet) /\ MessageRead(cs) = m BY <1>0, CollectionType, CollectionRead
  <2> HIDE DEF cs
  <2>3. v.blocks = cs /\ v.stop = reason BY <1>0, <2>1 DEF Fields
  <2> HIDE DEF v
  <2>4. Brings(v, m, reason) BY <2>2, <2>3 DEF Brings
  <2> QED BY <2>4 DEF v
<1> QED BY <1>1, <1>2

\* The message a client has is delivered.
LEMMA MessageDelivers ==
    ASSUME NEW v, v.blocks \in Seq(BlockSet), MessageRead(v.blocks) = Spoken',
           (proto \notin {"proxy", "gemini"} => said.reason # None)',
           (said.reason # None)' /\ ~(proto' = "gemini" /\ v.stream) => v.stop = said'.reason
    PROVE  v = wire' => Delivers(wire)'
<1> SUFFICES ASSUME v = wire' PROVE Delivers(wire)' OBVIOUS
<1>1. Spoken'.text = said'.text /\ Spoken'.calls = said'.calls BY DEF Spoken
<1>2. TextRead(wire)' = MessageRead(v.blocks).text /\ CallsRead(wire)' = MessageRead(v.blocks).calls
  BY DEF TextRead, CallsRead
<1> QED BY <1>1, <1>2 DEF Delivers

\* The body breaks off.
LEMMA BreaksFollow ==
    ASSUME RInv, FInv, BodyBreaks
    PROVE  FInv'
BY DEF BodyBreaks, RInv, Trying, LiveWire, Verdict, FInv, FReturned

\* The reply is one JSON body.
LEMMA CollectsFollow ==
    ASSUME RInv, FInv, Grounds, NEW text \in BOOLEAN, NEW calls \in 0..MaxCalls, Collects(text, calls)
    PROVE  FInv'
<1> DEFINE t == IF text THEN <<1>> ELSE <<>>
           cs == [c \in 1..calls |-> [id |-> c, args |-> <<c>>]]
           m == [text |-> t, calls |-> cs]
           reason == IF calls > 0 THEN "tool_calls" ELSE "stop"
<1>1. /\ phase = "reading" /\ phase' = "returned" /\ ok' = TRUE /\ ~wire.stream /\ UNCHANGED <<proto, up, fresh>>
      /\ said' = [text |-> t, calls |-> cs, reason |-> reason] /\ wire' = Collect(wire, m, reason)
  BY DEF Collects, Speaks
<1>2. /\ Open(wire) /\ DOMAIN wire = Fields /\ wire.api \in {"chat", "messages", "responses"}
      /\ Unwritten(wire) /\ (fresh => Bare(wire))
  BY <1>1 DEF RInv, Trying, LiveWire, Open, FInv, FReading
<1>3. m \in Message
  <2>1. t \in Pieces BY DEF Pieces
  <2>2. cs \in Seq(CallSet)
    <3>1. calls \in Nat BY ReplyStreamAssumption
    <3>2. \A c \in 1..calls : [id |-> c, args |-> <<c>>] \in CallSet
      <4> TAKE c \in 1..calls
      <4>1. c \in Nat /\ <<c>> \in Pieces BY <3>1 DEF Pieces
      <4> DEFINE a == <<c>>
      <4> HIDE DEF a
      <4>2. [id |-> c, args |-> a] \in CallSet BY <4>1 DEF CallSet, a
      <4> QED BY <4>2 DEF a
    <3> DEFINE z(c) == [id |-> c, args |-> <<c>>]
    <3>3. \A c \in 1..calls : z(c) \in CallSet BY <3>2
    <3>4. cs = [c \in 1..calls |-> z(c)] OBVIOUS
    <3> HIDE DEF z, cs
    <3> QED BY <3>1, <3>3, <3>4
  <2> HIDE DEF t, cs
  <2> QED BY <2>1, <2>2 DEF Message
<1>4. reason # None BY ReplyStreamAssumption
<1> HIDE DEF t, cs, reason
<1>5. said'.reason = reason /\ Spoken' = m BY <1>1 DEF Spoken
<1> HIDE DEF m
<1>6. Unwritten(wire') BY <1>1, <1>2, OthersUnwritten
<1>7. ASSUME fresh', Verdict(wire', ok') = "done" PROVE Delivers(wire)'
  <2>1. Bare(wire) /\ Verdict(Collect(wire, m, reason), TRUE) = "done" BY <1>1, <1>2, <1>7
  <2> DEFINE v == Collect(wire, m, reason)
  <2>2. v.blocks \in Seq(BlockSet) /\ MessageRead(v.blocks) = m /\ v.stop = reason
    <3>1. Collectable(wire, m, reason) BY <1>2, <1>3, <2>1 DEF Collectable
    <3>2. Brings(v, m, reason) BY <3>1, CollectDelivers
    <3> HIDE DEF v
    <3> QED BY <3>2 DEF Brings
  <2> HIDE DEF v
  <2> QED BY <1>1, <1>4, <1>5, <2>2, MessageDelivers DEF v
<1> QED BY <1>1, <1>6, <1>7 DEF FInv, FReturned, Trying

\* What the client of a writer that lays out m has read.
LEMMA LaidReads ==
    ASSUME NEW w, NEW m, Laid(w, m)
    PROVE  /\ w.blocks \in Seq(BlockSet) /\ TextRead(w) = m.text
           /\ w.api # "responses" => CallsRead(w) = m.calls
BY DEF Laid, Lays, TextRead, CallsRead

\* The last line of an OpenAI upstream is cut off.
LEMMA CutsFollow ==
    ASSUME RInv, FInv, Grounds, NEW whole \in BOOLEAN, OpenAICuts(whole)
    PROVE  FInv'
<1> DEFINE why == IF said.calls # <<>> THEN "tool_calls" ELSE "stop"
           c == IF whole THEN Finish(why) ELSE Think
<1>1. /\ phase = "reading" /\ phase' = "returned" /\ wire.stream /\ UNCHANGED <<proto, up, fresh>>
      /\ proto \in {"openai", "proxy"} /\ ~up.ended /\ ok' = (proto = "proxy" \/ whole)
      /\ wire' = WriteCut(wire, c)
      /\ IF whole THEN SayEnd(FALSE) ELSE UNCHANGED said
  BY DEF OpenAICuts, Speaks
<1>2. /\ Open(wire) /\ wire.api \in {"chat", "messages", "responses"} /\ Unwritten(wire)
      /\ FReading /\ said.reason = None /\ ~up.held
  BY <1>1, StillOn DEF RInv, Trying, LiveWire, FInv
<1>3. Taken = Spoken BY <1>1 DEF Taken, Translates
<1>4. /\ said'.text = said.text /\ said'.calls = said.calls
      /\ said'.reason = IF whole THEN why ELSE None
  <2>1. CASE whole BY <1>1, <1>2, <2>1, Sounds
  <2>2. CASE ~whole BY <1>1, <1>2, <2>2
  <2> QED BY <2>1, <2>2
<1>5. why # None BY ReplyStreamAssumption
<1>6. /\ whole => c.k = "finish" /\ c.id = why
      /\ ~whole => c.k = "think"
  BY DEF Finish, Think, Chunk
<1> HIDE DEF c, why
<1>7. Unwritten(wire') BY <1>1, <1>2, OthersUnwritten
<1>8. Spoken' = Spoken /\ Spoken.text = said.text /\ Spoken.calls = said.calls BY <1>4 DEF Spoken
<1>9. ASSUME fresh', Verdict(wire', ok') = "done" PROVE Delivers(wire)'
  <2>1. Wired(wire) /\ Laid(wire, Spoken) BY <1>1, <1>2, <1>3, <1>9 DEF FReading, Wired
  <2>2. CASE wire.api # "chat"
    BY <1>1, <2>2, <1>2, <2>1, <1>9 DEF WriteCut, Open, Fields, Wired, Verdict
  <2>3. CASE wire.api = "chat"
    <3>1. wire' = IF wire.committed /\ c.k = "finish" THEN ReadChat(wire, c) ELSE wire
      BY <1>1, <2>3 DEF WriteCut
    <3>2. CASE wire.committed /\ whole
      <4> DEFINE v == ReadChat(wire, c)
                 m == Spoken
      <4>1. Wide(wire, m) /\ AllOpen(wire) /\ m \in Message BY <1>2, <2>1, <2>3 DEF Wide, Laid
      <4>2. Accepts(m, c) /\ Tell(m, c) = m /\ c.k = "finish" BY <1>6, <3>2 DEF Accepts, Tell
      <4> HIDE DEF m
      <4>3. Wide(v, m) /\ v.stop = why BY <1>6, <3>2, <4>1, <4>2, ChatReads
      <4>4. v = wire' BY <3>1, <3>2, <4>2
      <4> HIDE DEF v
      <4>5. v.blocks \in Seq(BlockSet) /\ MessageRead(v.blocks) = m BY <4>3 DEF Wide, Lays
      <4> QED BY <1>4, <1>5, <1>8, <3>2, <4>3, <4>4, <4>5, MessageDelivers DEF m
    <3>3. CASE ~wire.committed BY <3>1, <3>3, <1>1, <2>1, <2>3, <1>9 DEF Wired, Verdict
    <3>4. CASE ~whole
      BY <1>6, <3>1, <3>4, <1>1, <2>3, <1>9, <2>1, <1>4, <1>8, MessageDelivers DEF Verdict, Laid,
         Lays
    <3> QED BY <3>2, <3>3, <3>4
  <2> QED BY <2>2, <2>3
<1> QED BY <1>1, <1>7, <1>9 DEF FInv, FReturned, Trying

LEMMA Success ==
    ASSUME FReading, Succeeds(proto, feed), proto \in {"openai", "anthropic", "responses", "codex"}
    PROVE  feed.completed /\ said.reason # None
BY DEF Succeeds, FReading

\* A stream ends well.
LEMMA StreamEnds ==
    ASSUME RInv, FInv, Grounds, BodyEnds, ok', wire.stream, fresh, ~up.held, Verdict(wire', ok') = "done"
    PROVE  Delivers(wire)'
<1> DEFINE out == Closing(proto, feed)
           v == WriteAll(wire, out)
           m == Taken
<1>1. /\ phase = "reading" /\ ok' = Succeeds(proto, feed) /\ wire' = v /\ UNCHANGED <<proto, said>>
  BY DEF BodyEnds
<1>2. /\ Open(wire) /\ wire.api \in {"chat", "messages", "responses"} /\ FReading /\ Wired(wire)
      /\ proto \in Protocols
  BY <1>1 DEF RInv, Trying, LiveWire, FInv, FReading
<1>3. Succeeds(proto, feed) BY <1>1
<1>4. m = Spoken
  <2>1. Responses => feed.completed BY <1>2, <1>3, Success DEF Responses
  <2>2. CASE Translates BY <1>2, <2>1, <2>2, CollectedIsSpoken DEF Taken
  <2>3. CASE ~Translates BY <2>3 DEF Taken
  <2> QED BY <2>2, <2>3
<1>5. IsSeq(out) BY ClosingList
<1>6. Laid(wire, m) /\ wire.cut = None BY <1>2 DEF Wired
<1>7. out = <<>> \/ proto = "gemini" BY DEF Closing
<1>8. Carries(out, m, m)
  <2> HIDE DEF m
  <2>1. CASE out = <<>> BY <2>1, CarriesFacts
  <2>2. CASE out # <<>>
    <3> DEFINE x == Finish(GeminiReason(None, feed.calls # <<>>))
    <3>1. out = <<x>> BY <2>2 DEF Closing
    <3>2. x.k = "finish" BY DEF Finish, Chunk
    <3> HIDE DEF x, out
    <3>3. Accepts(m, x) /\ Tell(m, x) = m BY <3>2 DEF Accepts, Tell
    <3>4. Carries(<<x>>, m, Tell(m, x)) BY <3>3, CarriesFacts
    <3> QED BY <3>1, <3>3, <3>4
  <2> QED BY <2>1, <2>2
<1> HIDE DEF out, m
<1>9. Laid(v, m) BY <1>2, <1>6, <1>8, WriteAllLays
<1>10. v.api = wire.api /\ v.stream = wire.stream BY <1>2, <1>5, WriteAllProgress DEF Progress
<1>11. out = <<>> => v = wire
  <2>1. ASSUME out = <<>> PROVE v = wire
    <3>1. PICK f : f[0] = wire /\ f[Len(out)] = v BY <1>5, WriteAllSteps
    <3>2. Len(<<>>) = 0 OBVIOUS
    <3> QED BY <2>1, <3>1, <3>2
  <2> QED BY <2>1
<1> HIDE DEF v
<1>12. v.blocks \in Seq(BlockSet) /\ TextRead(v) = m.text /\ (v.api # "responses" => CallsRead(v) = m.calls)
  BY <1>9, LaidReads
<1>13. m.text = said.text /\ m.calls = said.calls BY <1>4 DEF Spoken
<1>14. ASSUME said.reason # None, proto # "gemini" PROVE v.stop = said.reason
  BY <1>7, <1>11, <1>14, <1>1, <1>2 DEF Verdict, Hidden, Wired
<1>15. proto \notin {"proxy", "gemini"} => said.reason # None
  BY <1>2, <1>3, Success, ReplyStreamAssumption
<1> QED BY <1>1, <1>10, <1>12, <1>13, <1>14, <1>15 DEF Delivers, TextRead, CallsRead

\* A collected body ends well.
LEMMA CollectionEnds ==
    ASSUME RInv, FInv, Grounds, BodyEnds, ok', ~wire.stream, fresh, ~(up.held /\ Len(said.calls) > 1),
           Verdict(wire', ok') = "done"
    PROVE  Delivers(wire)'
<1> DEFINE m == Collected(feed)
           reason == IF proto = "gemini" /\ ~feed.completed THEN GeminiReason(None, feed.calls # <<>>) ELSE feed.reason
           v == Collect(wire, m, reason)
<1>1. /\ phase = "reading" /\ ok' = Succeeds(proto, feed) /\ wire' = v /\ UNCHANGED <<proto, said>>
      /\ proto \in {"responses", "codex", "gemini"}
  BY DEF BodyEnds
<1>2. /\ DOMAIN wire = Fields /\ wire.api \in {"chat", "messages", "responses"} /\ FReading /\ Bare(wire)
  BY <1>1 DEF RInv, Trying, LiveWire, Open, FInv, FReading
<1>3. proto # "gemini" => feed.completed /\ said.reason # None BY <1>1, <1>2, Success
<1>4. Translates /\ (up.held \/ Responses => feed.completed)
  BY <1>1, <1>3 DEF Translates, Responses, Grounds
<1>5. m = Spoken BY <1>2, <1>4, CollectedIsSpoken
<1>6. said.reason # None => feed.completed /\ feed.reason = said.reason BY <1>2, <1>4 DEF FReading
<1>7. said.reason # None => reason = said.reason BY <1>6
<1> HIDE DEF reason
<1>8. Collectable(wire, m, reason)
  <2>1. m \in Message BY <1>2, HeedingCollects DEF FReading
  <2>2. Verdict(v, TRUE) = "done" BY <1>1
  <2> HIDE DEF m
  <2> QED BY <1>2, <2>1, <2>2 DEF Collectable
<1> HIDE DEF m
<1>9. Brings(v, m, reason) BY <1>8, CollectDelivers
<1> HIDE DEF v
<1>10. Spoken' = Spoken BY <1>1 DEF Spoken
<1> QED BY <1>1, <1>3, <1>5, <1>7, <1>9, <1>10, MessageDelivers DEF Brings

\* The body ends.
LEMMA BodyFollows ==
    ASSUME RInv, FInv, Grounds, BodyEnds
    PROVE  FInv'
<1>1. /\ phase = "reading" /\ phase' = "returned" /\ UNCHANGED <<proto, up, said, fresh>>
      /\ ok' = Succeeds(proto, feed)
  BY DEF BodyEnds
<1>2. /\ Open(wire) /\ wire.api \in {"chat", "messages", "responses"} /\ Unwritten(wire)
  BY <1>1 DEF RInv, Trying, LiveWire, FInv
<1>3. CASE ~ok' BY <1>3, <1>2, <1>1 DEF BodyEnds, Verdict, FInv, FReturned, Trying
<1>4. CASE ok' /\ wire.stream
  <2>1. wire' = WriteAll(wire, Closing(proto, feed)) BY <1>4 DEF BodyEnds
  <2>2. Unwritten(wire') BY <1>2, <2>1, ClosingList, WriteAllUnwritten
  <2>3. wire'.stream BY <1>2, <1>4, <2>1, ClosingList, WriteAllProgress DEF Progress
  <2>4. fresh' /\ Verdict(wire', ok') = "done" /\ ~Excused' => Delivers(wire)'
    BY <1>1, <1>4, <2>3, StreamEnds DEF Excused
  <2> QED BY <1>1, <2>2, <2>4 DEF FInv, FReturned, Trying
<1>5. CASE ok' /\ ~wire.stream
  <2>1. PICK m, reason : wire' = Collect(wire, m, reason) BY <1>5 DEF BodyEnds
  <2>2. Unwritten(wire') BY <1>2, <2>1, OthersUnwritten
  <2>4. fresh' /\ Verdict(wire', ok') = "done" /\ ~Excused' => Delivers(wire)'
    BY <1>1, <1>5, CollectionEnds DEF Excused
  <2> QED BY <1>1, <2>2, <2>4 DEF FInv, FReturned, Trying
<1> QED BY <1>3, <1>4, <1>5

-----------------------------------------------------------------------------
(***************************************************************************)
(* The invariant of Faithful is inductive.                                 *)
(***************************************************************************)
LEMMA FInit ==
    Init => FInv
<1> SUFFICES ASSUME Init PROVE FInv OBVIOUS
<1>1. PICK api \in Apis, direct \in BOOLEAN, stream \in BOOLEAN :
        wire \in {Begin(NewWire(api, direct, stream)), NewWire(api, direct, stream)}
  BY DEF Init
<1> DEFINE w == NewWire(api, direct, stream)
<1>2. w.blocks = <<>> /\ w.committed = FALSE /\ w.slots = [i \in 1..MaxCalls |-> 0] /\ DOMAIN w = Fields
  BY DEF NewWire, Fields
<1> HIDE DEF w
<1>3. wire = w \/ wire = [[w EXCEPT !.after = @ \/ w.end # None] EXCEPT !.began = TRUE]
  BY <1>1 DEF Begin, Writes, w
<1>4. wire.blocks = <<>> /\ wire.committed = FALSE /\ wire.slots = [i \in 1..MaxCalls |-> 0]
  BY <1>2, <1>3 DEF Fields
<1>5. phase = "next" BY DEF Init
<1> QED BY <1>4, <1>5 DEF FInv, Unwritten

\* A translator took an event.
LEMMA ConsumedFollows ==
    ASSUME RInv, FInv, Consuming, FReading'
    PROVE  FInv'
<1>1. PICK r : IsSeq(r.out) /\ Consume(r) BY DEF Consuming
<1>2. /\ phase = "reading" /\ phase' = "reading" /\ proto' = proto
      /\ wire' = IF wire.stream THEN WriteAll(wire, r.out) ELSE wire
  BY <1>1 DEF Consume
<1>3. Open(wire) /\ Unwritten(wire) /\ proto \in Protocols BY <1>2 DEF RInv, Trying, LiveWire, FInv
<1>4. Unwritten(wire')
  <2>1. CASE wire.stream BY <1>1, <1>2, <1>3, <2>1, WriteAllUnwritten
  <2>2. CASE ~wire.stream BY <1>2, <1>3, <2>2
  <2> QED BY <2>1, <2>2
<1> QED BY <1>2, <1>3, <1>4 DEF FInv

\* The request goes to the next target.
LEMMA RetryFollows ==
    ASSUME RInv, FInv, TryNext
    PROVE  FInv'
BY DEF TryNext, RInv, Trying, LiveWire, FInv, Verdict

\* The request is settled.
LEMMA SettlesFaithfully ==
    ASSUME RInv, FInv, Settle
    PROVE  FInv'
<1>1. phase = "returned" /\ phase' = "over" /\ UNCHANGED <<proto, up, said, fresh>> BY DEF Settle
<1>2. LiveWire(wire) /\ FReturned BY <1>1 DEF RInv, Trying, FInv
<1>3. Faithful'
  <2>1. ASSUME Verdict(wire, ok) = "done", wire' = Finished(wire) PROVE Faithful'
    <3>1. SUFFICES ASSUME (wire.end = "done" /\ fresh /\ ~(up.held /\ (wire.stream \/ Len(said.calls) > 1)))'
                   PROVE  /\ (TextRead(wire) = said.text)'
                          /\ (wire.api # "responses" => CallsRead(wire) = said.calls)'
                          /\ (proto \notin {"proxy", "gemini"} => said.reason # None)'
                          /\ (said.reason # None /\ ~(proto = "gemini" /\ wire.stream) => wire.stop = said.reason)'
      BY DEF Faithful
    <3> DEFINE v == Finished(wire)
    <3>2. fresh /\ ~(up.held /\ Len(said.calls) > 1) /\ ~(up.held /\ v.stream) BY <1>1, <2>1, <3>1
    <3>3. DOMAIN wire = Fields /\ wire.api \in {"chat", "messages", "responses"}
      BY <1>2 DEF LiveWire, Open
    <3>4. v.stream = wire.stream BY <1>2, <3>3, FinishedFacts DEF LiveWire, Kept
    <3>5. Delivers(wire) BY <1>2, <2>1, <3>2, <3>4 DEF FReturned, Excused
    <3>6. Reread(wire, v) BY <3>3, <3>5, FinishedRereads DEF Delivers
    <3> HIDE DEF v
    <3>7. /\ MessageRead(v.blocks) = MessageRead(wire.blocks) /\ v.stop = wire.stop /\ v.api = wire.api
      BY <3>6 DEF Reread
    <3>8. wire' = v BY <2>1 DEF v
    <3> QED BY <1>1, <3>4, <3>5, <3>7, <3>8 DEF Delivers, TextRead, CallsRead
  <2>2. ASSUME wire' = Broken(wire) \/ (Verdict(wire, ok) = "retry" /\ wire' = Answer(wire)) PROVE Faithful'
    BY <1>2, <2>2, OnlyGoodIsDone DEF Faithful
  <2> QED BY <2>1, <2>2 DEF Settle
<1> QED BY <1>1, <1>3 DEF FInv, Trying

\* The handler returns, or the keep-alive goroutine runs.
LEMMA OthersFollow ==
    ASSUME RInv, FInv, Leave \/ Tick \/ Ping \/ PingStops \/ UNCHANGED vars
    PROVE  FInv'
<1>1. UNCHANGED <<proto, up, said, feed, ok, wire, fresh>> BY DEF Leave, Tick, Ping, PingStops, vars
<1>2. (phase = "over" /\ phase' = "left") \/ phase' = phase
  BY DEF Leave, Tick, Ping, PingStops, vars
<1>3. /\ FReading' <=> FReading
      /\ FReturned' <=> FReturned
      /\ Faithful' <=> Faithful
  <2>1. Faithful' <=> Faithful BY <1>1 DEF Faithful, TextRead, CallsRead
  <2>2. FReturned' <=> FReturned BY <1>1 DEF FReturned, Excused, Delivers, TextRead, CallsRead
  <2>3. (Understands' <=> Understands) /\ (Sound' <=> Sound) /\ (Bare(wire)' <=> Bare(wire))
    BY <1>1 DEF Understands, Sound, Spoken, Grasps, Behind, Responses, Bare
  <2>4. Taken' = Taken /\ (Translates' <=> Translates) BY <1>1 DEF Taken, Spoken, Translates
  <2>5. Wired(wire)' <=> Wired(wire) BY <1>1, <2>4 DEF Wired
  <2>6. FReading' <=> FReading BY <1>1, <2>3, <2>4, <2>5 DEF FReading
  <2> QED BY <2>1, <2>2, <2>6
<1> QED BY <1>1, <1>2, <1>3 DEF FInv, Trying

LEMMA FNext ==
    RInv /\ BInv /\ FInv /\ [Next]_vars => FInv'
<1> SUFFICES ASSUME RInv, BInv, FInv, [Next]_vars PROVE FInv' OBVIOUS
<1>1. ASSUME NEW p \in Protocols, NEW labels \in Labels, Dispatch(p, labels) PROVE FInv'
  BY <1>1, DispatchFollows
<1>2. ASSUME Upstream PROVE FInv'
  <2>1. phase = "reading"
    BY <1>2 DEF Upstream, AnthropicBlock, AnthropicDelta, AnthropicBlockStop, AnthropicMessageStop,
                ResponsesSaysText, ResponsesSaysMessage, ResponsesThinks, ResponsesAddsCall, ResponsesSaysArgs,
                ResponsesEndsCall, AnthropicMessageDelta, ResponsesHolds, ResponsesCompletes, OpenAICuts,
                GeminiSays, OpenAISays, Collects, UpstreamError, BodyEnds, BodyBreaks, ResponsesSpeaks, Speaks
  <2>2. FReading /\ Grounds /\ Unwritten(wire) /\ proto \in Protocols BY <2>1 DEF FInv, BInv, Trying
  <2>3. ASSUME NEW kind, AnthropicBlock(kind) PROVE FInv'
    BY <2>2, <2>3, AnthropicBlocksFollow, AnthropicConsumes, ConsumedFollows
  <2>4. CASE AnthropicDelta \/ AnthropicBlockStop \/ AnthropicMessageStop \/ UpstreamError
    BY <2>2, <2>4, AnthropicDeltasFollow, AnthropicEndsFollow, ErrorsFollow, AnthropicConsumes,
       ConsumedFollows
  <2>5. CASE ResponsesSaysText \/ ResponsesSaysMessage \/ ResponsesThinks \/ ResponsesAddsCall
    BY <2>2, <2>5, ResponsesTextsFollow, ResponsesAddsFollow, ResponsesConsumes, ConsumedFollows
  <2>6. ASSUME NEW c, ResponsesSaysArgs(c) \/ ResponsesEndsCall(c) PROVE FInv'
    BY <2>2, <2>6, ResponsesArgsFollow, ResponsesEndsFollow, ResponsesConsumes, ConsumedFollows
  <2>7. ASSUME NEW b, AnthropicMessageDelta(b) \/ ResponsesCompletes(b) PROVE FInv'
    BY <2>2, <2>7, AnthropicEndsFollow, CompletesFollow, AnthropicConsumes, ResponsesConsumes,
       ConsumedFollows
  <2>8. ASSUME NEW text \in BOOLEAN, NEW thought \in BOOLEAN, NEW calls \in 0..1,
               NEW reason \in {None, "STOP", "MAX_TOKENS"}, GeminiSays(text, thought, calls, reason)
        PROVE  FInv'
    BY <2>2, <2>8, GeminiFollows, OthersConsume, ConsumedFollows
  <2>9. CASE OpenAISays BY <2>2, <2>9, OpenAIFollows, OthersConsume, ConsumedFollows
  <2>10. ASSUME NEW b, ResponsesHolds(b) PROVE FInv'
    BY <2>2, <2>10, HoldsFollow DEF ResponsesHolds, FInv
  <2>11. ASSUME NEW b \in BOOLEAN, OpenAICuts(b) PROVE FInv' BY <2>2, <2>11, CutsFollow
  <2>12. ASSUME NEW text \in BOOLEAN, NEW calls \in 0..MaxCalls, Collects(text, calls) PROVE FInv'
    BY <2>2, <2>12, CollectsFollow
  <2>13. CASE BodyEnds \/ BodyBreaks BY <2>2, <2>13, BodyFollows, BreaksFollow
  <2> QED BY <1>2, <2>3, <2>4, <2>5, <2>6, <2>7, <2>8, <2>9, <2>10, <2>11, <2>12, <2>13 DEF Upstream
<1> QED BY <1>1, <1>2, RetryFollows, SettlesFaithfully, OthersFollow DEF Next

\* A reply that ends as complete is, for every generation of every upstream and
\* whatever happens before and after, what that upstream said, read by the
\* client of each API.
THEOREM RepliesAreFaithful ==
    Spec => []Faithful
<1>1. RInv /\ FInv => Faithful
  <2> SUFFICES ASSUME RInv, FInv PROVE Faithful OBVIOUS
  <2>1. phase \in Trying \cup {"over", "left"} BY DEF RInv
  <2>2. CASE phase \in Trying BY <2>2, ReplyStreamAssumption DEF RInv, LiveWire, Open, Faithful
  <2>3. CASE phase \in {"over", "left"} BY <2>3 DEF FInv
  <2> QED BY <2>1, <2>2, <2>3
<1> QED BY <1>1, RInit, RNext, BInit, BNext, FInit, FNext, PTL DEF Spec
=============================================================================
