--------------------------- MODULE EvaluationProofs ---------------------------
(***************************************************************************)
(* Proofs about Chunker, for any settings, any model window and texts of   *)
(* any length, and about Evaluation, for any golden answer and any chunks  *)
(* retrieved.                                                              *)
(*                                                                         *)
(* The invariant of the chunker says how far the windows have reached:     *)
(* every token before that is in a chunk, and the next window starts an    *)
(* overlap before it.  What the loops of the metrics compute is proved by  *)
(* induction over their turns: a set of numbers that holds 0 and, with     *)
(* each n, n + 1 is all of Nat.                                            *)
(***************************************************************************)
EXTENDS Evaluation, FiniteSetTheorems, TLAPS

\* Chunker.__init__ has accepted the window and the overlap, build_chunker the window.
Configured ==
  pc \in {"ready", "cutting", "returned"} =>
    /\ maxSize \in Nat /\ overlap \in Nat
    /\ overlap < maxSize /\ maxSize <= ceiling

InText == pc \in {"cutting", "returned"}

\* Where the last window ended.
Reached == IF chunks = <<>> THEN 0 ELSE chunks[Len(chunks)].to

ChunkOf(c, t, size) ==
  /\ c.from < c.to /\ c.to <= t.tokens
  /\ c.to - c.from <= size
  /\ c.start = t.at[c.from].start
  /\ t.at[c.to - 1].end <= c.end

InChunk(i) == \E k \in 1..Len(chunks) : chunks[k].from <= i /\ i < chunks[k].to

IInv ==
  /\ TypeOK
  /\ Configured
  /\ NeighboursOverlap
  /\ ~ InText => chunks = <<>>
  /\ InText => /\ text \in Texts
               /\ \A k \in 1..Len(chunks) : ChunkOf(chunks[k], text, maxSize)
               /\ \A i \in 0..text.tokens - 1 : i < Reached => InChunk(i)
  /\ pc = "cutting" => /\ tokStart < text.tokens
                       /\ IF chunks = <<>> THEN tokStart = 0
                          ELSE tokStart = Reached - overlap /\ Reached < text.tokens
  /\ pc = "returned" => Reached = text.tokens

\* The chunks cut so far are records of natural numbers.
LEMMA ChunkFields ==
  ASSUME NEW s \in Seq(ChunkOffsets), NEW k \in 1..Len(s)
  PROVE  s[k].from \in Nat /\ s[k].to \in Nat /\ s[k].start \in Nat /\ s[k].end \in Nat
<1>1. s[k] \in ChunkOffsets
  OBVIOUS
<1> QED BY <1>1 DEF ChunkOffsets

\* The spans of the tokens of a text, in text order and within it.
LEMMA TokenSpans ==
  ASSUME NEW t \in Texts, NEW i \in 0..t.tokens - 1
  PROVE  t.at[i].start \in Nat /\ t.at[i].end \in Nat /\ t.at[i].end <= t.length
<1>1. t.at[i] \in Span
  BY TokenizerAssumption
<1> QED BY <1>1, TokenizerAssumption DEF Span

\* As far as the windows have reached is a token, before the end while cutting.
LEMMA ReachedType == IInv => Reached \in Nat /\ (pc = "cutting" => Reached < text.tokens)
<1> SUFFICES ASSUME IInv PROVE Reached \in Nat /\ (pc = "cutting" => Reached < text.tokens)
  OBVIOUS
<1>1. CASE chunks = <<>>
  BY <1>1 DEF IInv, Reached, TypeOK
<1>2. CASE chunks # <<>>
  <2>1. chunks \in Seq(ChunkOffsets) /\ Len(chunks) \in 1..Len(chunks)
    BY <1>2 DEF IInv, TypeOK
  <2>2. chunks[Len(chunks)].to \in Nat
    BY <2>1, ChunkFields
  <2> QED BY <1>2, <2>2 DEF IInv, Reached
<1> QED BY <1>1, <1>2

\* Before anything is configured nothing has been cut.
LEMMA InitIInv == Init => IInv
<1> SUFFICES ASSUME Init PROVE IInv
  OBVIOUS
<1>1. TypeOK
  BY DEF Init, TypeOK
<1>2. Configured /\ NeighboursOverlap /\ ~ InText /\ chunks = <<>>
  BY DEF Init, Configured, NeighboursOverlap, InText
<1> QED BY <1>1, <1>2 DEF Init, IInv, InText

\* build_chunker lets only usable settings through.
LEMMA BuildIInv == IInv /\ BuildChunker => IInv'
<1> SUFFICES ASSUME IInv, BuildChunker PROVE IInv'
  OBVIOUS
<1>1. ASSUME NEW size \in ChunkSizes \cup Ceilings, NEW percent \in Percents,
             Configure(size, percent)
      PROVE  TypeOK' /\ Configured' /\ pc' \in {"ready", "rejected"}
  <2>1. size \in Int /\ RoundedShare(size, percent) \in Int
    BY SettingsAssumption DEF RoundedShare
  <2> QED BY <1>1, <2>1, SettingsAssumption
          DEF Configure, BuildChunker, IInv, TypeOK, Configured, Accepted
<1>2. ASSUME pc' = "rejected", UNCHANGED <<maxSize, overlap>>
      PROVE  TypeOK' /\ Configured'
  BY <1>2 DEF BuildChunker, IInv, TypeOK, Configured
<1>3. TypeOK' /\ Configured' /\ pc' \in {"ready", "rejected"}
  BY <1>1, <1>2 DEF BuildChunker, IInv, TypeOK
<1>4. chunks' = <<>>
  BY DEF BuildChunker, IInv, InText
<1>5. NeighboursOverlap' /\ ~ InText'
  BY <1>3, <1>4 DEF NeighboursOverlap, InText
<1> QED BY <1>3, <1>4, <1>5 DEF IInv

\* Starting on a text: no window yet.
LEMMA TokenizeIInv == IInv /\ Tokenize => IInv'
<1> SUFFICES ASSUME IInv, Tokenize PROVE IInv'
  OBVIOUS
<1>1. text' \in Texts /\ text'.tokens \in Nat /\ chunks' = <<>> /\ tokStart' = 0
  BY TokenizerAssumption DEF Tokenize
<1>2. TypeOK' /\ Configured'
  BY <1>1 DEF Tokenize, IInv, TypeOK, Configured, settings
<1>3. NeighboursOverlap' /\ Reached' = 0
  BY <1>1 DEF NeighboursOverlap, Reached
<1>4. /\ pc' = "cutting" => tokStart' < text'.tokens
      /\ pc' = "returned" => Reached' = text'.tokens
  BY <1>1, <1>3 DEF Tokenize
<1> QED BY <1>1, <1>2, <1>3, <1>4 DEF IInv

\* Appending a chunk that starts at tokStart, is no wider than the window, reaches
\* further than the windows before it and holds its last token.
LEMMA AppendWindow ==
  ASSUME IInv, pc = "cutting", NEW to \in Nat, NEW end \in Nat,
         chunks' = Append(chunks, Chunk(tokStart, to, end)),
         UNCHANGED <<ceiling, maxSize, overlap, text>>,
         tokStart < to, Reached < to, to <= text.tokens, to - tokStart <= maxSize,
         text.at[to - 1].end <= end
  PROVE  /\ chunks' \in Seq(ChunkOffsets)
         /\ chunks' # <<>> /\ Reached' = to
         /\ NeighboursOverlap'
         /\ \A k \in 1..Len(chunks') : ChunkOf(chunks'[k], text, maxSize)
         /\ \A i \in 0..text.tokens - 1 : i < to => InChunk(i)'
<1> DEFINE new == Chunk(tokStart, to, end)
           n == Len(chunks)
<1>1. text \in Texts /\ text.tokens \in Nat /\ text.at \in [0..text.tokens - 1 -> Span]
  BY TokenizerAssumption DEF IInv, InText
<1>2. /\ maxSize \in Nat /\ overlap \in Nat /\ overlap < maxSize
      /\ tokStart \in 0..text.tokens - 1
  BY <1>1 DEF IInv, Configured, TypeOK
<1>3. /\ new \in ChunkOffsets
      /\ new.from = tokStart /\ new.to = to /\ new.start = text.at[tokStart].start
      /\ new.end = end
  <2>1. text.at[tokStart].start \in Nat
    BY <1>1, <1>2, TokenSpans
  <2> QED BY <2>1, <1>2 DEF Chunk, ChunkOffsets
<1> HIDE DEF new
<1>4. chunks \in Seq(ChunkOffsets) /\ n \in Nat
  BY DEF IInv, TypeOK
<1>5. /\ Len(chunks') = n + 1 /\ chunks'[n + 1] = new
      /\ \A k \in 1..n : chunks'[k] = chunks[k]
      /\ chunks' \in Seq(ChunkOffsets)
  BY <1>3, <1>4 DEF new
<1>6. chunks' # <<>> /\ Reached' = to
  <2>1. chunks' # <<>>
    BY <1>4, <1>5
  <2> QED BY <2>1, <1>3, <1>5 DEF Reached
<1>7. NeighboursOverlap'
  <2>1. ASSUME n > 0 PROVE new.from = chunks[n].to - overlap /\ new.to > chunks[n].to
    <3>1. chunks # <<>> /\ Reached = chunks[n].to
      BY <2>1, <1>4 DEF Reached
    <3> QED BY <3>1, <1>3 DEF IInv
  <2>2. ASSUME NEW k \in 1..Len(chunks') - 1
        PROVE  /\ chunks'[k + 1].from = chunks'[k].to - overlap
               /\ chunks'[k + 1].to > chunks'[k].to
    <3>1. CASE k = n
      BY <3>1, <2>1, <2>2, <1>4, <1>5
    <3>2. CASE k < n
      <4>1. k \in 1..n - 1 /\ k \in 1..n /\ k + 1 \in 1..n
        BY <3>2, <1>4, <1>5
      <4> QED BY <4>1, <1>5 DEF IInv, NeighboursOverlap
    <3> QED BY <3>1, <3>2, <1>4, <1>5
  <2> QED BY <2>2 DEF NeighboursOverlap
<1>8. \A k \in 1..Len(chunks') : ChunkOf(chunks'[k], text, maxSize)
  <2>1. ChunkOf(new, text, maxSize)
    BY <1>3 DEF ChunkOf
  <2>2. ASSUME NEW k \in 1..n PROVE ChunkOf(chunks[k], text, maxSize)
    BY DEF IInv, InText, ChunkOf
  <2>3. ASSUME NEW k \in 1..Len(chunks') PROVE ChunkOf(chunks'[k], text, maxSize)
    <3>1. CASE k = n + 1
      BY <3>1, <2>1, <1>5
    <3>2. CASE k \in 1..n
      BY <3>2, <2>2, <1>5
    <3> QED BY <3>1, <3>2, <1>4, <1>5
  <2> QED BY <2>3
<1>9. ASSUME NEW i \in 0..text.tokens - 1, i < to PROVE InChunk(i)'
  <2>1. CASE i < Reached
    BY <2>1, <1>4, <1>5 DEF IInv, InText, InChunk
  <2>2. CASE i >= tokStart
    <3>1. n + 1 \in 1..Len(chunks') /\ chunks'[n + 1].from <= i /\ i < chunks'[n + 1].to
      BY <2>2, <1>9, <1>3, <1>4, <1>5
    <3> QED BY <3>1 DEF InChunk
  <2>3. i < Reached \/ i >= tokStart
    <3>1. CASE chunks = <<>>
      BY <3>1, <1>1 DEF IInv
    <3>2. CASE chunks # <<>>
      <4>1. Reached \in Nat
        BY ReachedType
      <4> QED BY <3>2, <4>1, <1>1, <1>2 DEF IInv
    <3> QED BY <3>1, <3>2
  <2> QED BY <2>1, <2>2, <2>3
<1> QED BY <1>5, <1>6, <1>7, <1>8, <1>9

\* The last window reaches the last token.
LEMMA LastWindowIInv == IInv /\ LastWindow => IInv'
<1> SUFFICES ASSUME IInv, LastWindow PROVE IInv'
  OBVIOUS
<1>1. /\ text \in Texts /\ text.tokens \in Nat /\ text.length \in Nat
      /\ \A i \in 0..text.tokens - 1 : text.at[i].end <= text.length
  BY TokenizerAssumption DEF IInv, InText, LastWindow
<1>2. /\ maxSize \in Nat /\ tokStart \in Nat /\ tokStart < text.tokens
      /\ tokStart + maxSize >= text.tokens
  BY DEF IInv, Configured, TypeOK, LastWindow, AtTheEnd
<1>3. text.at[text.tokens - 1].end <= text.length /\ text.tokens - tokStart <= maxSize
  BY <1>1, <1>2
<1>4. /\ chunks' \in Seq(ChunkOffsets)
      /\ chunks' # <<>> /\ Reached' = text.tokens
      /\ NeighboursOverlap'
      /\ \A k \in 1..Len(chunks') : ChunkOf(chunks'[k], text, maxSize)
      /\ \A i \in 0..text.tokens - 1 : i < text.tokens => InChunk(i)'
  <2> DEFINE to == text.tokens
             end == text.length
  <2>1. /\ pc = "cutting" /\ UNCHANGED <<ceiling, maxSize, overlap, text>>
        /\ chunks' = Append(chunks, Chunk(tokStart, to, end))
    BY DEF LastWindow
  <2>2. Reached < to
    BY <2>1, ReachedType
  <2>3. /\ to \in Nat /\ end \in Nat /\ tokStart < to /\ to <= text.tokens
        /\ to - tokStart <= maxSize /\ text.at[to - 1].end <= end
    BY <1>1, <1>2, <1>3
  <2> HIDE DEF to, end
  <2>4. /\ chunks' \in Seq(ChunkOffsets)
        /\ chunks' # <<>> /\ Reached' = to
        /\ NeighboursOverlap'
        /\ \A k \in 1..Len(chunks') : ChunkOf(chunks'[k], text, maxSize)
        /\ \A i \in 0..text.tokens - 1 : i < to => InChunk(i)'
    BY <2>1, <2>2, <2>3, AppendWindow
  <2> QED BY <2>4 DEF to
<1>5. TypeOK' /\ Configured'
  BY <1>4 DEF IInv, TypeOK, Configured, LastWindow
<1> QED BY <1>1, <1>4, <1>5 DEF IInv, InText, LastWindow

\* What a full window does, used for the invariant and for WindowsAdvance.
LEMMA FullWindow ==
  ASSUME IInv, NextWindow
  PROVE  /\ tokStart < tokStart' /\ tokStart' < text.tokens
         /\ IInv'
<1> DEFINE tokEnd == tokStart + maxSize
<1>1. text \in Texts /\ text.tokens \in Nat /\ text.at \in [0..text.tokens - 1 -> Span]
  BY TokenizerAssumption DEF IInv, InText, NextWindow
<1>2. /\ maxSize \in Nat /\ overlap \in Nat /\ overlap < maxSize
      /\ tokStart \in Nat /\ tokStart < text.tokens
      /\ tokEnd \in Nat /\ tokStart < tokEnd /\ tokEnd < text.tokens
      /\ tokStart' = tokEnd - overlap
  BY <1>1 DEF IInv, Configured, TypeOK, NextWindow, AtTheEnd
<1>3. tokStart < tokStart' /\ tokStart' < text.tokens /\ tokStart' \in Nat
  BY <1>1, <1>2
<1>4. Reached < tokEnd
  <2>1. CASE chunks = <<>>
    BY <2>1, <1>2 DEF Reached
  <2>2. CASE chunks # <<>>
    BY <2>2, <1>2, ReachedType DEF IInv, NextWindow
  <2> QED BY <2>1, <2>2
<1>5. text.at[tokEnd - 1].end \in Nat
  BY <1>1, <1>2, SMTT(30) DEF Span
<1>6. chunks' = Append(chunks, Chunk(tokStart, tokEnd, text.at[tokEnd - 1].end))
  BY DEF NextWindow
<1> HIDE DEF tokEnd
<1>7. /\ tokEnd - tokStart <= maxSize /\ tokEnd <= text.tokens
      /\ text.at[tokEnd - 1].end <= text.at[tokEnd - 1].end
      /\ pc = "cutting" /\ UNCHANGED <<ceiling, maxSize, overlap, text>>
  BY <1>1, <1>2, <1>5 DEF tokEnd, NextWindow
<1>8. /\ chunks' \in Seq(ChunkOffsets)
      /\ chunks' # <<>> /\ Reached' = tokEnd
      /\ NeighboursOverlap'
      /\ \A k \in 1..Len(chunks') : ChunkOf(chunks'[k], text, maxSize)
      /\ \A i \in 0..text.tokens - 1 : i < tokEnd => InChunk(i)'
  <2> DEFINE end == text.at[tokEnd - 1].end
  <2> HIDE DEF end
  <2>1. /\ end \in Nat /\ text.at[tokEnd - 1].end <= end
        /\ chunks' = Append(chunks, Chunk(tokStart, tokEnd, end))
    BY <1>5, <1>6, <1>7 DEF end
  <2> QED BY <2>1, <1>2, <1>4, <1>7, AppendWindow
<1>9. TypeOK' /\ Configured'
  BY <1>3, <1>8 DEF IInv, TypeOK, Configured, NextWindow
<1> QED BY <1>1, <1>2, <1>3, <1>8, <1>9 DEF IInv, InText, NextWindow

\* Every step keeps the invariant.
LEMMA NextIInv == IInv /\ [Next]_vars => IInv'
<1> SUFFICES ASSUME IInv, [Next]_vars PROVE IInv'
  OBVIOUS
<1>1. CASE UNCHANGED vars
  <2>1. TypeOK' /\ Configured' /\ NeighboursOverlap'
    BY <1>1 DEF vars, IInv, TypeOK, Configured, NeighboursOverlap
  <2>2. /\ \A i : InChunk(i)' <=> InChunk(i)
        /\ Reached' = Reached /\ InText' = InText
    BY <1>1 DEF vars, InChunk, Reached, InText
  <2> QED BY <1>1, <2>1, <2>2 DEF vars, IInv
<1> QED
  BY <1>1, BuildIInv, TokenizeIInv, LastWindowIInv, FullWindow DEF Next

\* Every reachable state satisfies the inductive invariant.
THEOREM Invariance == Spec => []IInv
BY InitIInv, NextIInv, PTL DEF Spec

\* The variables keep their types; tok_start never becomes negative.
THEOREM TypeCorrect == Spec => []TypeOK
BY Invariance, PTL DEF IInv

\* Consecutive chunks share exactly the overlap and each brings new tokens.
THEOREM Neighbours == Spec => []NeighboursOverlap
BY Invariance, PTL DEF IInv

\* No chunk is wider than the model's window, so nothing is truncated at embedding.
THEOREM FitTheModel == Spec => []ChunksFitTheModel
<1>1. IInv => ChunksFitTheModel
  <2> SUFFICES ASSUME IInv, NEW k \in 1..Len(chunks)
               PROVE  chunks[k].to - chunks[k].from <= ceiling
    BY DEF ChunksFitTheModel
  <2>1. InText /\ ChunkOf(chunks[k], text, maxSize) /\ maxSize \in Int /\ maxSize <= ceiling
    BY DEF IInv, InText, Configured
  <2>2. chunks[k].to \in Nat /\ chunks[k].from \in Nat /\ ceiling \in Nat
    BY SettingsAssumption, ChunkFields DEF IInv, TypeOK
  <2> QED BY <2>1, <2>2 DEF ChunkOf
<1> QED BY <1>1, Invariance, PTL

\* Every token of a text that was cut lies wholly inside some chunk.
THEOREM Coverage == Spec => []TokensAreCovered
<1>1. IInv => TokensAreCovered
  <2> SUFFICES ASSUME IInv, pc = "returned", NEW i \in 0..text.tokens - 1
               PROVE  \E k \in 1..Len(chunks) :
                        /\ chunks[k].from <= i /\ i < chunks[k].to
                        /\ chunks[k].start <= text.at[i].start
                        /\ text.at[i].end <= chunks[k].end
    BY DEF TokensAreCovered
  <2>1. text \in Texts /\ text.tokens \in Nat /\ text.at \in [0..text.tokens - 1 -> Span]
    BY TokenizerAssumption DEF IInv, InText
  <2>2. PICK k \in 1..Len(chunks) : chunks[k].from <= i /\ i < chunks[k].to
    BY <2>1 DEF IInv, InText, InChunk
  <2> DEFINE c == chunks[k]
  <2>3. c.from \in Nat /\ c.to \in Nat /\ c.start \in Nat /\ c.end \in Nat /\ ChunkOf(c, text, maxSize)
    BY ChunkFields DEF IInv, InText, TypeOK
  <2>a. c.from < c.to /\ c.to <= text.tokens
    BY <2>3 DEF ChunkOf
  <2>b. c.from <= i /\ i < c.to
    BY <2>2
  <2> HIDE DEF c
  <2>4. c.from \in 0..text.tokens - 1 /\ c.to - 1 \in 0..text.tokens - 1 /\ i <= c.to - 1
    BY <2>1, <2>3, <2>a, <2>b
  <2> USE DEF c
  <2>5. text.at[c.from].start <= text.at[i].start /\ text.at[i].end <= text.at[c.to - 1].end
    BY <2>1, <2>2, <2>4, TokenizerAssumption
  <2>6. /\ text.at[i].end \in Nat /\ text.at[c.to - 1].end \in Nat
        /\ text.at[i].start \in Nat /\ text.at[c.from].start \in Nat
    BY <2>1, <2>4, TokenSpans
  <2>c. c.start = text.at[c.from].start /\ text.at[c.to - 1].end <= c.end
    BY <2>3 DEF ChunkOf
  <2>7. c.start <= text.at[i].start /\ text.at[i].end <= c.end
    BY <2>3, <2>5, <2>6, <2>c, SMTT(30)
  <2> QED BY <2>2, <2>7
<1> QED BY <1>1, Invariance, PTL

\* Cutting always ends: every step that does not return moves the window forward,
\* and never past the last token.
THEOREM Advance == Spec => WindowsAdvance
<1>1. IInv /\ [Next]_vars
        => [pc = "cutting" /\ pc' = "cutting" =>
              tokStart < tokStart' /\ tokStart' < text.tokens]_vars
  BY FullWindow DEF Next, BuildChunker, Tokenize, LastWindow
<1> QED BY <1>1, Invariance, PTL DEF Spec, WindowsAdvance
-----------------------------------------------------------------------------
(* Induction, and the loops of the metrics as functions of the turn. *)

\* Every set of natural numbers that has one has a least one.
LEMMA Least ==
  ASSUME NEW T \in SUBSET Nat, T # {}
  PROVE  \E n \in T : \A m \in T : n <= m
<1> DEFINE R == OpToRel(<, Nat)
<1>1. IsWellFoundedOn(R, Nat)
  BY NatLessThanWellFounded
<1>2. PICK n \in T : \A m \in T : <<m, n>> \notin R
  <2> HIDE DEF R
  <2> QED BY <1>1, WFMin
<1>3. \A m \in T : ~ (m < n)
  BY <1>2 DEF OpToRel
<1> QED BY <1>3

\* Induction: what holds of 0 and passes from n to n + 1 holds of every number.
LEMMA SetInduction ==
  ASSUME NEW S, 0 \in S, \A n \in Nat : n \in S => n + 1 \in S
  PROVE  Nat \subseteq S
<1> SUFFICES ASSUME Nat \ S # {} PROVE FALSE
  OBVIOUS
<1>1. PICK n \in Nat \ S : \A m \in Nat \ S : n <= m
  BY Least
<1> QED BY <1>1

\* g is what a loop of N turns computes, turn by turn.
IsLoop(g, V, base, N, step) ==
  /\ g \in [0..N -> V]
  /\ g[0] = base
  /\ \A n \in 1..N : g[n] = step[<<g[n - 1], n>>]

\* There is such a g, whatever the turn does.
LEMMA Recursion ==
  ASSUME NEW V, NEW base \in V, NEW N \in Nat, NEW step \in [V \X (1..N) -> V]
  PROVE  \E g : IsLoop(g, V, base, N, step)
<1> DEFINE Upto(g, n) == /\ g \in [0..N -> V]
                         /\ g[0] = base
                         /\ \A k \in 1..N : k <= n => g[k] = step[<<g[k - 1], k>>]
           S == {n \in Nat : n <= N => \E g \in [0..N -> V] : Upto(g, n)}
<1>1. 0 \in S
  <2>1. Upto([k \in 0..N |-> base], 0)
    OBVIOUS
  <2> QED BY <2>1
<1>2. ASSUME NEW n \in Nat, n \in S PROVE n + 1 \in S
  <2> SUFFICES ASSUME n + 1 <= N PROVE \E g \in [0..N -> V] : Upto(g, n + 1)
    OBVIOUS
  <2>1. PICK g \in [0..N -> V] : Upto(g, n)
    BY <1>2
  <2> DEFINE h == [g EXCEPT ![n + 1] = step[<<g[n], n + 1>>]]
  <2>2. g[n] \in V /\ n + 1 \in 1..N
    BY <2>1
  <2>3. step[<<g[n], n + 1>>] \in V
    BY <2>2
  <2>4. h \in [0..N -> V] /\ h[0] = base
    BY <2>1, <2>3
  <2>5. ASSUME NEW k \in 1..N, k <= n + 1 PROVE h[k] = step[<<h[k - 1], k>>]
    <3>1. CASE k = n + 1
      <4>1. h[n + 1] = step[<<g[n], n + 1>>] /\ h[n] = g[n] /\ k - 1 = n
        BY <3>1, <2>1, <2>2
      <4> HIDE DEF h
      <4> QED BY <3>1, <4>1
    <3>2. CASE k <= n
      BY <3>2, <2>1
    <3> QED BY <3>1, <3>2, <2>5
  <2> QED BY <2>4, <2>5
<1>3. N \in S
  <2> HIDE DEF S
  <2> QED BY <1>1, <1>2, SetInduction
<1> QED BY <1>3 DEF IsLoop

\* Spans; the empty ones, which Span refuses, do no harm.
CharSpans == {s \in [doc : Nat, start : Nat, end : Nat] : s.start <= s.end}

-----------------------------------------------------------------------------
(* merge: sorting, then joining span by span. *)

\* How merge comes to its result, over the sorted spans s.
Merging(g, V, s, merged) ==
  /\ g \in [0..Len(s) -> V] /\ g[0] = <<>>
  /\ \A n \in 1..Len(s) : g[n] = Joined(g[n - 1], s[n])
  /\ merged = g[Len(s)]

\* merge is its loop over the sorted spans.
LEMMA MergeLoop ==
  ASSUME NEW spans, NEW here, NEW V, <<>> \in V,
         NEW N \in Nat, N = Len(Sorted(spans, here)),
         \A m \in V, n \in 1..N : Joined(m, Sorted(spans, here)[n]) \in V
  PROVE  \E g : Merging(g, V, Sorted(spans, here), Merge(spans, here))
<1> DEFINE sorted == Sorted(spans, here)
           step == [p \in V \X (1..N) |-> Joined(p[1], sorted[p[2]])]
           Loop(f) == [n \in 0..N |-> IF n = 0 THEN <<>> ELSE Joined(f[n - 1], sorted[n])]
           after == CHOOSE f : f = Loop(f)
<1>1. step \in [V \X (1..N) -> V]
  OBVIOUS
<1>2. PICK g : IsLoop(g, V, <<>>, N, step)
  <2> HIDE DEF step
  <2> QED BY <1>1, Recursion
<1>3. /\ g \in [0..N -> V] /\ g[0] = <<>>
      /\ \A n \in 1..N : g[n] = Joined(g[n - 1], sorted[n])
  <2>1. /\ g \in [0..N -> V] /\ g[0] = <<>>
        /\ \A n \in 1..N : g[n] = step[<<g[n - 1], n>>]
    <3> HIDE DEF step
    <3> QED BY <1>2 DEF IsLoop
  <2> SUFFICES ASSUME NEW n \in 1..N PROVE g[n] = Joined(g[n - 1], sorted[n])
    BY <2>1
  <2>2. <<g[n - 1], n>> \in V \X (1..N)
    BY <2>1
  <2> QED BY <2>1, <2>2
<1> HIDE DEF sorted
<1>4. \A f : f = Loop(f) => f[N] = g[N]
  <2> SUFFICES ASSUME NEW f, f = Loop(f) PROVE f[N] = g[N]
    OBVIOUS
  <2> DEFINE S == {n \in Nat : n <= N => f[n] = g[n]}
  <2>1. 0 \in S
    BY <1>3
  <2>2. ASSUME NEW n \in Nat, n \in S PROVE n + 1 \in S
    <3> SUFFICES ASSUME n + 1 <= N PROVE f[n + 1] = g[n + 1]
      OBVIOUS
    <3>1. f[n + 1] = Joined(f[n], sorted[n + 1])
      OBVIOUS
    <3>2. g[n + 1] = Joined(g[n], sorted[n + 1])
      BY <1>3
    <3> QED BY <3>1, <3>2, <2>2
  <2>3. N \in S
    <3> HIDE DEF S
    <3> QED BY <2>1, <2>2, SetInduction
  <2> QED BY <2>3
<1>5. g = Loop(g)
  BY <1>3
<1>6. after = Loop(after)
  <2> HIDE DEF Loop
  <2> QED BY <1>5
<1>7. Merge(spans, here) = after[N]
  BY DEF Merge, sorted
<1>8. after[N] = g[N]
  <2> HIDE DEF Loop, after
  <2> QED BY <1>4, <1>6
<1>9. Merging(g, V, sorted, Merge(spans, here))
  BY <1>3, <1>7, <1>8 DEF Merging, sorted
<1> QED BY <1>9 DEF sorted


\* Positions are put in a total order by the key and, for equal keys, the position.
LEMMA Ordered ==
  ASSUME NEW spans, NEW here \in SUBSET Nat, \A i \in here : spans[i] \in CharSpans
  PROVE  /\ \A i, j \in here : NotAfter(spans, i, j) \/ NotAfter(spans, j, i)
         /\ \A i, j \in here : NotAfter(spans, i, j) /\ NotAfter(spans, j, i) => i = j
         /\ \A i, j, k \in here :
              NotAfter(spans, i, j) /\ NotAfter(spans, j, k) => NotAfter(spans, i, k)
<1>1. \A i \in here : spans[i].doc \in Nat /\ spans[i].start \in Nat /\ i \in Nat
  BY DEF CharSpans
<1> QED BY <1>1 DEF NotAfter, Before

\* Sorting gives back the spans at the positions here, none of them left out, in the
\* order of their starts.
LEMMA SortedIsSorted ==
  ASSUME NEW spans, NEW here \in SUBSET Nat, IsFiniteSet(here),
         \A i \in here : spans[i] \in CharSpans
  PROVE  /\ Sorted(spans, here) \in Seq(CharSpans)
         /\ \A n \in 1..Len(Sorted(spans, here)) : \E i \in here : Sorted(spans, here)[n] = spans[i]
         /\ \A i \in here : \E n \in 1..Len(Sorted(spans, here)) : Sorted(spans, here)[n] = spans[i]
         /\ \A n, m \in 1..Len(Sorted(spans, here)) :
              n < m => ~ Before(Sorted(spans, here)[m], Sorted(spans, here)[n])
<1> DEFINE N == Cardinality(here)
           Upto(i) == {j \in here : NotAfter(spans, j, i)}
           rank == [i \in here |-> Cardinality(Upto(i))]
           at(n) == CHOOSE i \in here : Cardinality(Upto(i)) = n
           sorted == Sorted(spans, here)
<1>1. N \in Nat /\ IsFiniteSet(1..N) /\ Cardinality(1..N) = N
  <2>1. N \in Nat
    BY FS_CardinalityType
  <2> HIDE DEF N
  <2> QED BY <2>1, FS_Interval
<1>2. ASSUME NEW i \in here
      PROVE  IsFiniteSet(Upto(i)) /\ Cardinality(Upto(i)) \in 1..N
  <2>1. Upto(i) \in SUBSET here /\ i \in Upto(i)
    BY Ordered
  <2> HIDE DEF Upto
  <2>2. IsFiniteSet(Upto(i)) /\ Cardinality(Upto(i)) <= N
    BY <2>1, FS_Subset
  <2>3. Cardinality(Upto(i)) \in Nat
    BY <2>2, FS_CardinalityType
  <2>4. Cardinality(Upto(i)) # 0
    BY <2>1, <2>2, FS_EmptySet
  <2> HIDE DEF N
  <2> QED BY <2>2, <2>3, <2>4, <1>1
<1>3. ASSUME NEW i \in here, NEW j \in here, NotAfter(spans, i, j), i # j
      PROVE  Cardinality(Upto(i)) < Cardinality(Upto(j))
  <2>1. Upto(i) \in SUBSET Upto(j) /\ j \in Upto(j) /\ j \notin Upto(i)
    BY <1>3, Ordered
  <2> HIDE DEF Upto
  <2>2. Cardinality(Upto(i)) <= Cardinality(Upto(j)) /\ Cardinality(Upto(i)) # Cardinality(Upto(j))
    BY <2>1, <1>2, FS_Subset
  <2> QED BY <2>2, <1>2
<1> HIDE DEF Upto
<1>4. \A i, j \in here : rank[i] = rank[j] => i = j
  <2> SUFFICES ASSUME NEW i \in here, NEW j \in here, Cardinality(Upto(i)) = Cardinality(Upto(j)), i # j
               PROVE  FALSE
    OBVIOUS
  <2>1. NotAfter(spans, i, j) \/ NotAfter(spans, j, i)
    BY Ordered
  <2> QED BY <2>1, <1>2, <1>3
<1>5. rank \in Surjection(here, 1..N)
  <2>1. rank \in [here -> 1..N]
    BY <1>2
  <2>2. rank \in Injection(here, 1..N)
    BY <2>1, <1>4 DEF Injection, IsInjective
  <2> HIDE DEF rank, N
  <2> QED BY <2>2, <1>1, FS_Injection DEF N
<1>6. ASSUME NEW n \in 1..N PROVE at(n) \in here /\ Cardinality(Upto(at(n))) = n
  <2>1. \E i \in here : Cardinality(Upto(i)) = n
    BY <1>5 DEF Surjection
  <2> QED BY <2>1
<1>7. \A i \in here : at(Cardinality(Upto(i))) = i
  BY <1>2, <1>4, <1>6
<1>8. sorted = [n \in 1..N |-> spans[at(n)]]
  BY DEF Sorted, Upto
<1> HIDE DEF at, sorted, N
<1>9. sorted \in Seq(CharSpans) /\ Len(sorted) = N
  <2>1. \A n \in 1..N : spans[at(n)] \in CharSpans
    BY <1>6
  <2>2. [n \in 1..N |-> spans[at(n)]] \in [1..N -> CharSpans]
    BY <2>1
  <2> QED BY <2>2, <1>1, <1>8, SMT
<1>10. \A n \in 1..N : \E i \in here : sorted[n] = spans[i]
  BY <1>6, <1>8
<1>11. \A i \in here : \E n \in 1..N : sorted[n] = spans[i]
  BY <1>2, <1>7, <1>8
<1>12. ASSUME NEW n \in 1..N, NEW m \in 1..N, n < m PROVE ~ Before(sorted[m], sorted[n])
  <2>1. ~ NotAfter(spans, at(m), at(n))
    <3>1. SUFFICES ASSUME NotAfter(spans, at(m), at(n)) PROVE FALSE
      OBVIOUS
    <3>2. at(m) \in here /\ at(n) \in here
      BY <1>6
    <3>3. Cardinality(Upto(at(m))) = m /\ Cardinality(Upto(at(n))) = n
      BY <1>6
    <3>4. at(m) # at(n)
      BY <3>3, <1>12
    <3>5. m < n
      BY <3>1, <3>2, <3>3, <3>4, <1>3
    <3> QED BY <3>5, <1>12
  <2> QED BY <2>1, <1>6, <1>8 DEF NotAfter
<1> QED BY <1>9, <1>10, <1>11, <1>12 DEF sorted


\* A character that some span of m holds.
Held(x, m) == \E i \in 1..Len(m) : x \in Characters(m[i])

\* What merge has made of spans of document d: spans apart from each other, in order.
Apart(m, d) ==
  /\ m \in Seq(CharSpans)
  /\ \A i \in 1..Len(m) : m[i].doc = d
  /\ \A i, j \in 1..Len(m) : i < j => m[i].end < m[j].start

\* max() of two numbers.
LEMMA MaxOfTwo ==
  ASSUME NEW a \in Nat, NEW b \in Nat
  PROVE  Max({a, b}) = IF a >= b THEN a ELSE b
<1> DEFINE m == IF a >= b THEN a ELSE b
<1>1. m \in {a, b} /\ \A y \in {a, b} : m >= y
  OBVIOUS
<1>2. \A x \in {a, b} : (\A y \in {a, b} : x >= y) => x = m
  OBVIOUS
<1>3. Max({a, b}) \in {a, b} /\ \A y \in {a, b} : Max({a, b}) >= y
  <2> HIDE DEF m
  <2> QED BY <1>1 DEF Max
<1> HIDE DEF m
<1>4. Max({a, b}) = m
  BY <1>2, <1>3
<1> QED BY <1>4 DEF m

\* A span is its three fields.
LEMMA SpanFields ==
  ASSUME NEW s \in CharSpans
  PROVE  /\ s = [doc |-> s.doc, start |-> s.start, end |-> s.end]
         /\ s.doc \in Nat /\ s.start \in Nat /\ s.end \in Nat /\ s.start <= s.end
BY DEF CharSpans

\* ... and three fields make a span.
LEMMA SpanOf ==
  ASSUME NEW d \in Nat, NEW a \in Nat, NEW b \in Nat, a <= b
  PROVE  [doc |-> d, start |-> a, end |-> b] \in CharSpans
BY DEF CharSpans

\* One turn of merge: the result is still apart and holds the characters of both.
LEMMA JoinedStaysApart ==
  ASSUME NEW d, NEW m, Apart(m, d), NEW s \in CharSpans, s.doc = d,
         m # <<>> => Last(m).start <= s.start
  PROVE  /\ Apart(Joined(m, s), d)
         /\ Joined(m, s) # <<>> /\ Last(Joined(m, s)).start <= s.start
         /\ \A x : Held(x, Joined(m, s)) <=> Held(x, m) \/ x \in Characters(s)
<1> DEFINE n == Len(m)
           r == Joined(m, s)
<1>1. n \in Nat /\ m \in Seq(CharSpans) /\ (m # <<>> => n \in 1..n)
  BY DEF Apart
<1>2. \A i \in 1..n : /\ m[i] \in CharSpans /\ m[i].doc = d
                      /\ m[i].start \in Nat /\ m[i].end \in Nat /\ m[i].start <= m[i].end
  BY <1>1, SpanFields DEF Apart
<1>3. s.start \in Nat /\ s.end \in Nat /\ s.start <= s.end
  BY SpanFields
<1>4. CASE m = <<>> \/ s.start > m[n].end
  <2>1. r = Append(m, s)
    BY <1>4, <1>1, <1>2 DEF Joined, Last
  <2>2. /\ r \in Seq(CharSpans) /\ Len(r) = n + 1 /\ r[n + 1] = s
        /\ \A i \in 1..n : r[i] = m[i]
    BY <2>1, <1>1
  <2> HIDE DEF r
  <2>3. \A i \in 1..n : m[i].end < s.start
    <3> SUFFICES ASSUME NEW i \in 1..n PROVE m[i].end < s.start
      OBVIOUS
    <3>1. m # <<>> /\ n \in 1..n
      BY <1>1
    <3>2. i = n \/ m[i].end < m[n].start
      BY <1>1, <3>1 DEF Apart
    <3> QED BY <3>1, <3>2, <1>2, <1>3, <1>4
  <2>4. Apart(r, d)
    <3>1. \A i \in 1..Len(r) : r[i].doc = d
      BY <2>2, <1>1, <1>2
    <3>2. ASSUME NEW i \in 1..Len(r), NEW j \in 1..Len(r), i < j PROVE r[i].end < r[j].start
      <4>1. i \in 1..n /\ r[i] = m[i]
        BY <3>2, <2>2, <1>1
      <4>2. CASE j = n + 1
        BY <4>1, <4>2, <2>2, <2>3
      <4>3. CASE j \in 1..n
        BY <4>1, <4>3, <3>2, <2>2 DEF Apart
      <4> QED BY <4>2, <4>3, <2>2, <1>1
    <3> QED BY <3>1, <3>2, <2>2 DEF Apart
  <2>5. r # <<>> /\ Last(r).start <= s.start
    BY <2>2, <1>1, <1>3 DEF Last
  <2>6. ASSUME NEW x PROVE Held(x, r) <=> Held(x, m) \/ x \in Characters(s)
    <3>1. Held(x, m) \/ x \in Characters(s) => Held(x, r)
      BY <2>2, <1>1 DEF Held
    <3>2. Held(x, r) => Held(x, m) \/ x \in Characters(s)
      BY <2>2, <1>1 DEF Held
    <3> QED BY <3>1, <3>2
  <2> QED BY <2>4, <2>5, <2>6 DEF r
<1>5. CASE m # <<>> /\ ~ (s.start > m[n].end)
  <2> DEFINE last == m[n]
             end == IF last.end >= s.end THEN last.end ELSE s.end
             new == [doc |-> d, start |-> last.start, end |-> end]
  <2>0. n \in 1..n /\ last.start <= s.start /\ s.start <= last.end
    BY <1>1, <1>2, <1>3, <1>5 DEF Last
  <2>1. r = [m EXCEPT ![n].end = end]
    <3>1. Max({m[n].end, s.end}) = end
      BY <2>0, <1>2, <1>3, MaxOfTwo
    <3> HIDE DEF end
    <3> QED BY <3>1, <1>2, <1>5, <2>0 DEF Joined, Last
  <2>2. end \in Nat /\ last.end <= end /\ s.end <= end
    BY <2>0, <1>2, <1>3
  <2>3. [m[n] EXCEPT !.end = end] = new
    <3> HIDE DEF end
    <3> QED BY <2>0, <1>2, SpanFields
  <2>4. r = [m EXCEPT ![n] = new]
    <3> HIDE DEF end, new
    <3> QED BY <2>1, <2>3
  <2>5. new \in CharSpans /\ new.doc = d /\ new.start = last.start /\ new.end = end
    BY <2>0, <2>2, <1>2, SpanOf, SpanFields
  <2> HIDE DEF new, r
  <2>6. /\ r \in Seq(CharSpans) /\ Len(r) = n /\ r[n] = new
        /\ \A i \in 1..n : i # n => r[i] = m[i]
    BY <2>0, <2>4, <2>5, <1>1
  <2>7. Apart(r, d)
    <3>1. \A i \in 1..Len(r) : r[i].doc = d
      BY <2>5, <2>6, <1>2
    <3>2. ASSUME NEW i \in 1..Len(r), NEW j \in 1..Len(r), i < j PROVE r[i].end < r[j].start
      <4>1. i \in 1..n /\ j \in 1..n /\ r[i] = m[i] /\ m[i].end < m[j].start
        BY <3>2, <2>6, <1>1 DEF Apart
      <4>2. r[j].start = m[j].start
        BY <4>1, <2>5, <2>6
      <4> QED BY <4>1, <4>2
    <3> QED BY <3>1, <3>2, <2>6 DEF Apart
  <2>8. r # <<>> /\ Last(r).start <= s.start
    BY <2>0, <2>5, <2>6 DEF Last
  <2>9. Characters(new) = Characters(last) \cup Characters(s)
    BY <2>0, <2>2, <2>5, <1>2, <1>3 DEF Characters
  <2>10. ASSUME NEW x PROVE Held(x, r) <=> Held(x, m) \/ x \in Characters(s)
    <3> HIDE DEF last
    <3>1. x \in Characters(r[n]) <=> x \in Characters(last) \/ x \in Characters(s)
      BY <2>6, <2>9
    <3>2. \A i \in 1..n : i # n => r[i] = m[i]
      BY <2>6
    <3>3. Held(x, r) <=> x \in Characters(r[n]) \/ \E i \in 1..n : i # n /\ x \in Characters(m[i])
      BY <2>0, <2>6, <3>2 DEF Held
    <3>4. Held(x, m) <=> x \in Characters(last) \/ \E i \in 1..n : i # n /\ x \in Characters(m[i])
      BY <2>0 DEF Held, last
    <3> QED BY <3>1, <3>3, <3>4
  <2> QED BY <2>7, <2>8, <2>10 DEF r
<1> QED BY <1>4, <1>5

\* A turn of merge makes spans of spans.
LEMMA JoinedType ==
  ASSUME NEW m \in Seq(CharSpans), NEW s \in CharSpans
  PROVE  Joined(m, s) \in Seq(CharSpans)
<1> DEFINE n == Len(m)
<1>1. CASE m = <<>> \/ Last(m).doc # s.doc \/ s.start > Last(m).end
  BY <1>1 DEF Joined
<1>2. CASE ~ (m = <<>> \/ Last(m).doc # s.doc \/ s.start > Last(m).end)
  <2> DEFINE last == m[n]
             end == IF last.end >= s.end THEN last.end ELSE s.end
             new == [doc |-> last.doc, start |-> last.start, end |-> end]
  <2>1. n \in 1..n /\ last \in CharSpans
    BY <1>2
  <2>2. end \in Nat /\ last.start <= end /\ Max({last.end, s.end}) = end
    BY <2>1, SpanFields, MaxOfTwo
  <2>3. new \in CharSpans
    <3> HIDE DEF end
    <3> QED BY <2>1, <2>2, SpanFields, SpanOf
  <2>4. [last EXCEPT !.end = end] = new
    <3> HIDE DEF end, last
    <3> QED BY <2>1, SpanFields
  <2>5. Joined(m, s) = [m EXCEPT ![n] = new]
    <3>1. Joined(m, s) = [m EXCEPT ![n].end = end]
      <4> HIDE DEF end
      <4> QED BY <1>2, <2>1, <2>2 DEF Joined, Last
    <3> HIDE DEF new, end
    <3> QED BY <3>1, <2>4
  <2> HIDE DEF new
  <2> QED BY <2>1, <2>3, <2>5
<1> QED BY <1>1, <1>2

\* merge, of spans of one document: it loses no character and adds none, and no two
\* of the spans it returns overlap or touch.
THEOREM MergeIsApart ==
  ASSUME NEW d, NEW spans, NEW here \in SUBSET Nat, IsFiniteSet(here),
         \A i \in here : spans[i] \in CharSpans /\ spans[i].doc = d
  PROVE  /\ Apart(Merge(spans, here), d)
         /\ \A x : Held(x, Merge(spans, here)) <=> \E i \in here : x \in Characters(spans[i])
<1> DEFINE s == Sorted(spans, here)
           N == Len(s)
<1>1. /\ s \in Seq(CharSpans)
      /\ \A n \in 1..N : \E i \in here : s[n] = spans[i]
      /\ \A i \in here : \E n \in 1..N : s[n] = spans[i]
      /\ \A n, m \in 1..N : n < m => ~ Before(s[m], s[n])
  BY SortedIsSorted
<1>2. PICK g : /\ g \in [0..N -> Seq(CharSpans)] /\ g[0] = <<>>
               /\ \A n \in 1..N : g[n] = Joined(g[n - 1], s[n])
               /\ Merge(spans, here) = g[N]
  <2> DEFINE V == Seq(CharSpans)
             L == N
  <2>1. <<>> \in V /\ L \in Nat /\ L = Len(Sorted(spans, here))
    BY <1>1
  <2>2. \A m \in V, n \in 1..L : Joined(m, s[n]) \in V
    <3> HIDE DEF s
    <3> QED BY <1>1, JoinedType
  <2> HIDE DEF V, L
  <2>3. \E g : Merging(g, V, Sorted(spans, here), Merge(spans, here))
    BY <2>1, <2>2, MergeLoop
  <2> QED BY <2>3 DEF Merging, V
<1> HIDE DEF s
<1>3. \A n \in 1..N : s[n] \in CharSpans /\ s[n].doc = d /\ s[n].start \in Nat
  BY <1>1, SpanFields
<1>4. \A n \in 1..N : n + 1 \in 1..N => s[n].start <= s[n + 1].start
  <2> SUFFICES ASSUME NEW n \in 1..N, n + 1 \in 1..N PROVE s[n].start <= s[n + 1].start
    OBVIOUS
  <2>1. ~ Before(s[n + 1], s[n])
    BY <1>1
  <2> QED BY <2>1, <1>3 DEF Before
<1> DEFINE Good(n) ==
             /\ Apart(g[n], d)
             /\ n > 0 => g[n] # <<>> /\ Last(g[n]).start <= s[n].start
             /\ \A x : Held(x, g[n]) <=> \E k \in 1..n : x \in Characters(s[k])
           S == {n \in Nat : n <= N => Good(n)}
<1>5. N \in Nat
  BY <1>1
<1>6. 0 \in S
  <2>1. Apart(<<>>, d) /\ \A x : ~ Held(x, <<>>)
    BY DEF Apart, Held
  <2> QED BY <2>1, <1>2
<1>7. ASSUME NEW n \in Nat, n \in S PROVE n + 1 \in S
  <2> SUFFICES ASSUME n + 1 <= N PROVE Good(n + 1)
    OBVIOUS
  <2> DEFINE m == g[n]
             t == s[n + 1]
  <2>1. /\ Apart(m, d)
        /\ \A x : Held(x, m) <=> \E k \in 1..n : x \in Characters(s[k])
    BY <1>7, <1>5
  <2>2. g[n + 1] = Joined(m, t) /\ n + 1 \in 1..N /\ t \in CharSpans /\ t.doc = d
    BY <1>2, <1>3, <1>5
  <2>3. m # <<>> => Last(m).start <= t.start
    <3>1. CASE n = 0
      BY <3>1, <1>2
    <3>2. CASE n > 0
      <4>1. m # <<>> /\ Last(m).start <= s[n].start /\ n \in 1..N
        BY <3>2, <1>7, <1>5
      <4>2. s[n].start <= t.start /\ s[n].start \in Nat /\ t.start \in Nat
        BY <4>1, <2>2, <1>3, <1>4
      <4>3. Last(m).start \in Nat
        <5>1. m \in Seq(CharSpans) /\ Len(m) \in 1..Len(m)
          BY <2>1, <4>1 DEF Apart
        <5>2. Last(m) \in CharSpans
          BY <5>1 DEF Last
        <5> QED BY <5>2, SpanFields
      <4> HIDE DEF m, t
      <4> QED BY <4>1, <4>2, <4>3
    <3> QED BY <3>1, <3>2
  <2> HIDE DEF m, t
  <2>4. /\ Apart(Joined(m, t), d)
        /\ Joined(m, t) # <<>> /\ Last(Joined(m, t)).start <= t.start
        /\ \A x : Held(x, Joined(m, t)) <=> Held(x, m) \/ x \in Characters(t)
    BY <2>1, <2>2, <2>3, JoinedStaysApart
  <2>5. \A x : Held(x, m) \/ x \in Characters(t) <=> \E k \in 1..n + 1 : x \in Characters(s[k])
    BY <2>1 DEF t
  <2> QED BY <2>2, <2>4, <2>5 DEF t
<1>8. Good(N)
  <2>1. N \in S
    <3> HIDE DEF S
    <3> QED BY <1>5, <1>6, <1>7, SetInduction
  <2> QED BY <2>1
<1>9. \A x : (\E k \in 1..N : x \in Characters(s[k])) <=> \E i \in here : x \in Characters(spans[i])
  BY <1>1
<1> QED BY <1>2, <1>8, <1>9

-----------------------------------------------------------------------------
(* covered_len and the scores made of it. *)

\* intersect_len counts the characters two spans of a document share.
LEMMA IntersectIsCounted ==
  ASSUME NEW a \in CharSpans, NEW b \in CharSpans
  PROVE  /\ IntersectLen(a, b) \in Nat
         /\ IntersectLen(a, b) = Cardinality(Characters(a) \cap Characters(b))
<1>1. /\ a.start \in Nat /\ a.end \in Nat /\ a.start <= a.end
      /\ b.start \in Nat /\ b.end \in Nat /\ b.start <= b.end
  BY SpanFields
<1> DEFINE from == IF a.start > b.start THEN a.start ELSE b.start
           to == (IF a.end > b.end THEN b.end ELSE a.end) - 1
<1>2. Characters(a) \cap Characters(b) = from..to
  BY <1>1 DEF Characters
<1>3. Cardinality(from..to) = IF from > to THEN 0 ELSE to - from + 1
  <2>1. from \in Int /\ to \in Int
    BY <1>1
  <2> HIDE DEF from, to
  <2> QED BY <2>1, FS_Interval
<1>4. IntersectLen(a, b) = IF from > to THEN 0 ELSE to - from + 1
  BY <1>1 DEF IntersectLen
<1>5. IntersectLen(a, b) \in Nat
  BY <1>1, <1>4
<1> QED BY <1>2, <1>3, <1>4, <1>5

\* How covered_len comes to its result, over the merged spans m.
Counting(g, gold, m, ret) ==
  /\ g \in [0..Len(m) -> Nat] /\ g[0] = 0
  /\ \A n \in 1..Len(m) : g[n] = g[n - 1] + IntersectLen(m[n], gold)
  /\ ret = g[Len(m)]

\* The positions of the spans that covered_len keeps.
OfDocument(spans, d) == {i \in DOMAIN spans : spans[i].doc = d}

\* covered_len is its loop over the merged spans.
LEMMA CoveredLoop ==
  ASSUME NEW gold, NEW spans, NEW m, m = Merge(spans, OfDocument(spans, gold.doc)),
         NEW N \in Nat, N = Len(m),
         \A n \in 1..N : IntersectLen(m[n], gold) \in Nat
  PROVE  \E g : Counting(g, gold, m, CoveredLen(gold, spans))
<1> DEFINE step == [p \in Nat \X (1..N) |-> p[1] + IntersectLen(m[p[2]], gold)]
           Loop(f) == [n \in 0..N |-> IF n = 0 THEN 0 ELSE f[n - 1] + IntersectLen(m[n], gold)]
           ret == CHOOSE f : f = Loop(f)
<1>1. step \in [Nat \X (1..N) -> Nat]
  OBVIOUS
<1>2. PICK g : IsLoop(g, Nat, 0, N, step)
  <2> HIDE DEF step
  <2> QED BY <1>1, Recursion
<1>3. /\ g \in [0..N -> Nat] /\ g[0] = 0
      /\ \A n \in 1..N : g[n] = g[n - 1] + IntersectLen(m[n], gold)
  <2>1. /\ g \in [0..N -> Nat] /\ g[0] = 0
        /\ \A n \in 1..N : g[n] = step[<<g[n - 1], n>>]
    <3> HIDE DEF step
    <3> QED BY <1>2 DEF IsLoop
  <2> SUFFICES ASSUME NEW n \in 1..N PROVE g[n] = g[n - 1] + IntersectLen(m[n], gold)
    BY <2>1
  <2>2. <<g[n - 1], n>> \in Nat \X (1..N)
    <3>1. n - 1 \in 0..N
      OBVIOUS
    <3>2. g[n - 1] \in Nat
      BY <2>1, <3>1
    <3> QED BY <3>2
  <2> QED BY <2>1, <2>2
<1>4. \A f : f = Loop(f) => f[N] = g[N]
  <2> SUFFICES ASSUME NEW f, f = Loop(f) PROVE f[N] = g[N]
    OBVIOUS
  <2> DEFINE S == {n \in Nat : n <= N => f[n] = g[n]}
  <2>1. 0 \in S
    BY <1>3
  <2>2. ASSUME NEW n \in Nat, n \in S PROVE n + 1 \in S
    <3> SUFFICES ASSUME n + 1 <= N PROVE f[n + 1] = g[n + 1]
      OBVIOUS
    <3>1. f[n + 1] = f[n] + IntersectLen(m[n + 1], gold)
      OBVIOUS
    <3>2. g[n + 1] = g[n] + IntersectLen(m[n + 1], gold)
      BY <1>3
    <3> QED BY <3>1, <3>2, <2>2
  <2>3. N \in S
    <3> HIDE DEF S
    <3> QED BY <2>1, <2>2, SetInduction
  <2> QED BY <2>3
<1>5. g = Loop(g)
  BY <1>3
<1>6. ret = Loop(ret)
  <2> HIDE DEF Loop
  <2> QED BY <1>5
<1>7. CoveredLen(gold, spans) = ret[N]
  BY DEF CoveredLen, OfDocument
<1>8. ret[N] = g[N]
  <2> HIDE DEF Loop, ret
  <2> QED BY <1>4, <1>6
<1>9. Counting(g, gold, m, CoveredLen(gold, spans))
  BY <1>3, <1>7, <1>8 DEF Counting
<1> QED BY <1>9

\* covered_len counts every character of the golden answer that some span of its
\* document holds, and counts it once, in whatever order the spans come and however
\* they overlap.
THEOREM CoverageIsCounted ==
  ASSUME NEW gold \in CharSpans, NEW spans \in Seq(CharSpans)
  PROVE  CoveredLen(gold, spans) =
           Cardinality({x \in Characters(gold) : \E i \in DOMAIN spans :
                          spans[i].doc = gold.doc /\ x \in Characters(spans[i])})
<1> DEFINE here == OfDocument(spans, gold.doc)
           m == Merge(spans, here)
           N == Len(m)
<1>1. /\ here \in SUBSET Nat /\ IsFiniteSet(here)
      /\ \A i \in here : spans[i] \in CharSpans /\ spans[i].doc = gold.doc
  <2>1. DOMAIN spans = 1..Len(spans) /\ IsFiniteSet(1..Len(spans))
    BY FS_Interval
  <2>2. here \in SUBSET (1..Len(spans))
    BY <2>1 DEF OfDocument
  <2>3. IsFiniteSet(here)
    <3> HIDE DEF here
    <3> QED BY <2>1, <2>2, FS_Subset
  <2> QED BY <2>2, <2>3 DEF OfDocument
<1>2. /\ Apart(m, gold.doc)
      /\ \A x : Held(x, m) <=> \E i \in here : x \in Characters(spans[i])
  <2> HIDE DEF here
  <2> QED BY <1>1, MergeIsApart
<1>3. /\ m \in Seq(CharSpans) /\ N \in Nat
      /\ \A n \in 1..N : m[n] \in CharSpans
      /\ \A i, j \in 1..N : i < j => m[i].end < m[j].start
  BY <1>2 DEF Apart
<1> HIDE DEF m
<1>4. \A n \in 1..N : IntersectLen(m[n], gold) \in Nat
  BY <1>3, IntersectIsCounted
<1>5. PICK g : Counting(g, gold, m, CoveredLen(gold, spans))
  <2>1. m = Merge(spans, OfDocument(spans, gold.doc))
    BY DEF m
  <2> HIDE DEF here, N
  <2>2. N = Len(m)
    BY DEF N
  <2> QED BY <1>3, <1>4, <2>1, <2>2, CoveredLoop
<1>6. /\ g \in [0..N -> Nat] /\ g[0] = 0
      /\ \A n \in 1..N : g[n] = g[n - 1] + IntersectLen(m[n], gold)
      /\ CoveredLen(gold, spans) = g[N]
  BY <1>5 DEF Counting
<1> DEFINE Seen(n) == {x \in Characters(gold) : \E i \in 1..n : x \in Characters(m[i])}
           S == {n \in Nat : n <= N => g[n] = Cardinality(Seen(n))}
<1>7. 0 \in S
  <2>1. Seen(0) = {}
    OBVIOUS
  <2> HIDE DEF Seen
  <2> QED BY <2>1, <1>6, FS_EmptySet
<1>8. ASSUME NEW n \in Nat, n \in S PROVE n + 1 \in S
  <2> SUFFICES ASSUME n + 1 <= N PROVE g[n + 1] = Cardinality(Seen(n + 1))
    OBVIOUS
  <2> DEFINE more == Characters(m[n + 1]) \cap Characters(gold)
  <2>1. n + 1 \in 1..N /\ n + 1 \in Nat
    BY <1>3
  <2>2. IsFiniteSet(Characters(gold))
    BY SpanFields, FS_Interval DEF Characters
  <2>3. IsFiniteSet(Seen(n)) /\ IsFiniteSet(more)
    <3>1. Seen(n) \in SUBSET Characters(gold) /\ more \in SUBSET Characters(gold)
      OBVIOUS
    <3> HIDE DEF Seen, more
    <3> QED BY <3>1, <2>2, FS_Subset
  <2>4. Seen(n + 1) = Seen(n) \cup more
    OBVIOUS
  <2>5. Seen(n) \cap more = {}
    <3> SUFFICES ASSUME NEW i \in 1..n, NEW x, x \in Characters(m[i]), x \in Characters(m[n + 1])
                 PROVE  FALSE
      OBVIOUS
    <3>1. i \in 1..N /\ m[i].end < m[n + 1].start
      BY <2>1, <1>3
    <3>2. m[i].end \in Nat /\ m[n + 1].start \in Nat /\ m[i].start \in Nat /\ m[n + 1].end \in Nat
      BY <3>1, <2>1, <1>3, SpanFields
    <3> QED BY <3>1, <3>2 DEF Characters
  <2>6. Cardinality(more) = IntersectLen(m[n + 1], gold)
    BY <2>1, <1>3, IntersectIsCounted
  <2>7. g[n + 1] = g[n] + IntersectLen(m[n + 1], gold) /\ g[n] = Cardinality(Seen(n))
    BY <1>6, <1>8, <2>1
  <2> HIDE DEF Seen, more
  <2>8. Cardinality(Seen(n) \cup more) = Cardinality(Seen(n)) + Cardinality(more) - 0
    BY <2>3, <2>5, FS_Union, FS_EmptySet
  <2>9. Cardinality(Seen(n)) \in Nat /\ Cardinality(more) \in Nat
    BY <2>3, FS_CardinalityType
  <2>10. Cardinality(Seen(n + 1)) = Cardinality(Seen(n) \cup more)
    BY <2>4
  <2> DEFINE a == Cardinality(Seen(n))
             b == Cardinality(more)
  <2>11. a \in Nat /\ b \in Nat /\ Cardinality(Seen(n + 1)) = a + b
    BY <2>8, <2>9, <2>10
  <2>12. g[n + 1] = a + b
    BY <2>6, <2>7
  <2> HIDE DEF a, b
  <2> QED BY <2>11, <2>12
<1>9. g[N] = Cardinality(Seen(N))
  <2>1. N \in S
    <3> HIDE DEF S, N
    <3> QED BY <1>3, <1>7, <1>8, SetInduction
  <2> QED BY <2>1
<1>10. Seen(N) = {x \in Characters(gold) : \E i \in DOMAIN spans :
                    spans[i].doc = gold.doc /\ x \in Characters(spans[i])}
  BY <1>2 DEF Held, OfDocument
<1> QED BY <1>6, <1>9, <1>10

\* Retrieving more never covers less of a golden answer.
THEOREM CoverageGrows ==
  ASSUME NEW gold \in CharSpans, NEW few \in Seq(CharSpans), NEW many \in Seq(CharSpans),
         \A i \in DOMAIN few : few[i].doc = gold.doc =>
           \E j \in DOMAIN many : many[j] = few[i]
  PROVE  /\ CoveredLen(gold, few) \in Nat /\ CoveredLen(gold, many) \in Nat
         /\ CoveredLen(gold, few) <= CoveredLen(gold, many)
<1> DEFINE Seen(spans) == {x \in Characters(gold) : \E i \in DOMAIN spans :
                             spans[i].doc = gold.doc /\ x \in Characters(spans[i])}
<1>1. IsFiniteSet(Characters(gold))
  BY SpanFields, FS_Interval DEF Characters
<1>2. Seen(few) \in SUBSET Seen(many) /\ Seen(many) \in SUBSET Characters(gold)
  OBVIOUS
<1>3. CoveredLen(gold, few) = Cardinality(Seen(few)) /\ CoveredLen(gold, many) = Cardinality(Seen(many))
  BY CoverageIsCounted
<1> HIDE DEF Seen
<1>4. IsFiniteSet(Seen(many)) /\ IsFiniteSet(Seen(few)) /\ Cardinality(Seen(few)) <= Cardinality(Seen(many))
  BY <1>1, <1>2, FS_Subset
<1> QED BY <1>3, <1>4, FS_CardinalityType

\* A chunk is relevant to a golden answer when it holds half of its characters.
LEMMA RelevanceIsCounted ==
  ASSUME NEW gold \in CharSpans, NEW s \in CharSpans, s.doc = gold.doc
  PROVE  IsRelevant(s, <<gold>>, 50) <=>
           2 * Cardinality(Characters(s) \cap Characters(gold)) >= gold.end - gold.start
<1> DEFINE spans == <<s>>
           n == Cardinality(Characters(s) \cap Characters(gold))
<1>1. spans \in Seq(CharSpans) /\ DOMAIN spans = {1} /\ spans[1] = s
  OBVIOUS
<1>2. {x \in Characters(gold) : \E i \in DOMAIN spans :
         spans[i].doc = gold.doc /\ x \in Characters(spans[i])} = Characters(s) \cap Characters(gold)
  BY <1>1
<1>3. CoveredLen(gold, spans) = n
  <2> HIDE DEF spans
  <2> QED BY <1>1, <1>2, CoverageIsCounted
<1>4. n \in Nat
  BY <1>3, IntersectIsCounted
<1>5. gold.start \in Nat /\ gold.end \in Nat
  BY SpanFields
<1>6. IsRelevant(s, <<gold>>, 50) <=> 100 * CoveredLen(gold, spans) >= 50 * (gold.end - gold.start)
  BY DEF IsRelevant, Covers
<1> HIDE DEF n, spans
<1>7. 100 * n >= 50 * (gold.end - gold.start) <=> 2 * n >= gold.end - gold.start
  BY <1>4, <1>5
<1> QED BY <1>3, <1>6, <1>7 DEF n

\* A finite set laid out as a sequence.
LEMMA SetAsSequence ==
  ASSUME NEW S, IsFiniteSet(S)
  PROVE  /\ SetToSeq(S) \in Seq(S)
         /\ \A x \in S : \E n \in DOMAIN SetToSeq(S) : SetToSeq(S)[n] = x
<1> DEFINE N == Cardinality(S)
           s == SetToSeq(S)
<1>1. N \in Nat /\ ExistsBijection(1..N, S)
  BY FS_CardinalityType
<1>2. \E f \in [1..N -> S] : IsInjective(f)
  BY <1>1 DEF ExistsBijection, Bijection, Injection
<1>3. s \in [1..N -> S] /\ IsInjective(s)
  BY <1>2 DEF SetToSeq
<1> HIDE DEF s
<1>4. IsFiniteSet(1..N) /\ Cardinality(1..N) = N
  <2> HIDE DEF N
  <2> QED BY <1>1, FS_Interval
<1>5. s \in Surjection(1..N, S)
  <2>1. s \in Injection(1..N, S)
    BY <1>3 DEF Injection
  <2> QED BY <2>1, <1>4, FS_Injection
<1>6. s \in Seq(S) /\ DOMAIN s = 1..N
  BY <1>1, <1>3
<1>7. \A x \in S : \E n \in 1..N : s[n] = x
  BY <1>5 DEF Surjection
<1> QED BY <1>6, <1>7 DEF s

\* The chunks of a text are spans of it.
LEMMA ChunksAreSpans ==
  ASSUME IInv, NEW doc \in Nat, NEW k \in DOMAIN chunks
  PROVE  CharSpan(doc, chunks[k].start, chunks[k].end) \in CharSpans
<1> DEFINE c == chunks[k]
<1>1. k \in 1..Len(chunks) /\ chunks \in Seq(ChunkOffsets) /\ InText
  BY DEF IInv, TypeOK
<1>2. /\ c.from \in Nat /\ c.to \in Nat /\ c.start \in Nat /\ c.end \in Nat
      /\ text \in Texts /\ ChunkOf(c, text, maxSize)
  BY <1>1, ChunkFields DEF IInv
<1> HIDE DEF c
<1>3. /\ c.from < c.to /\ c.to <= text.tokens
      /\ c.start = text.at[c.from].start /\ text.at[c.to - 1].end <= c.end
  BY <1>2 DEF ChunkOf
<1>4. text.tokens \in Nat
  BY <1>2, TokenizerAssumption
<1>5. c.from \in 0..text.tokens - 1 /\ c.to - 1 \in 0..text.tokens - 1 /\ c.from <= c.to - 1
  BY <1>2, <1>3, <1>4
<1>6. /\ text.at[c.from].start <= text.at[c.to - 1].start
      /\ text.at[c.to - 1].start <= text.at[c.to - 1].end
  BY <1>2, <1>5, TokenizerAssumption
<1>7. text.at[c.to - 1].start \in Nat /\ text.at[c.to - 1].end \in Nat
  BY <1>2, <1>5, TokenSpans
<1>8. c.start <= c.end
  BY <1>2, <1>3, <1>6, <1>7
<1> QED BY <1>2, <1>8, SpanOf DEF CharSpan, c

\* What is retrieved is a list of such spans, each of the chunks in it.
LEMMA RetrievedAreSpans ==
  ASSUME IInv, NEW doc \in Nat, NEW ks \in SUBSET (DOMAIN chunks)
  PROVE  /\ Retrieved(doc, ks) \in Seq(CharSpans)
         /\ \A n \in DOMAIN Retrieved(doc, ks) : \E k \in ks :
              Retrieved(doc, ks)[n] = CharSpan(doc, chunks[k].start, chunks[k].end)
         /\ \A k \in ks : \E n \in DOMAIN Retrieved(doc, ks) :
              Retrieved(doc, ks)[n] = CharSpan(doc, chunks[k].start, chunks[k].end)
<1> DEFINE f == [k \in ks |-> CharSpan(doc, chunks[k].start, chunks[k].end)]
           S == {CharSpan(doc, chunks[k].start, chunks[k].end) : k \in ks}
           s == SetToSeq(S)
<1>1. IsFiniteSet(ks)
  <2>1. DOMAIN chunks = 1..Len(chunks) /\ Len(chunks) \in Nat
    BY DEF IInv, TypeOK
  <2>2. IsFiniteSet(1..Len(chunks))
    BY <2>1, FS_Interval
  <2> QED BY <2>1, <2>2, FS_Subset
<1>2. IsFiniteSet(S)
  <2>1. f \in Surjection(ks, S)
    BY DEF Surjection
  <2> HIDE DEF f, S
  <2> QED BY <2>1, <1>1, FS_Surjection
<1>3. S \in SUBSET CharSpans
  BY ChunksAreSpans
<1>4. s \in Seq(S) /\ \A x \in S : \E n \in DOMAIN s : s[n] = x
  <2> HIDE DEF S
  <2> QED BY <1>2, SetAsSequence
<1>5. s \in Seq(CharSpans) /\ \A n \in DOMAIN s : s[n] \in S
  <2> HIDE DEF S, s
  <2> QED BY <1>3, <1>4
<1>6. s = Retrieved(doc, ks)
  BY DEF Retrieved
<1> HIDE DEF s
<1> QED BY <1>4, <1>5, <1>6

\* A golden quote is a span of the text.
LEMMA QuotesAreSpans ==
  ASSUME text \in Texts, NEW doc \in Nat, NEW i \in 0..text.tokens - 1, NEW j \in i..text.tokens - 1
  PROVE  Quote(doc, i, j) \in CharSpans /\ Quote(doc, i, j).doc = doc
<1>1. text.tokens \in Nat
  BY TokenizerAssumption
<1>2. j \in 0..text.tokens - 1 /\ i <= j
  BY <1>1
<1>3. /\ text.at[i].start \in Nat /\ text.at[j].start \in Nat /\ text.at[j].end \in Nat
      /\ text.at[i].start <= text.at[j].start /\ text.at[j].start <= text.at[j].end
  BY <1>2, TokenSpans, TokenizerAssumption
<1>4. text.at[i].start <= text.at[j].end
  BY <1>3
<1> QED BY <1>3, <1>4, SpanOf DEF Quote, CharSpan

\* The scores of what was retrieved count characters, whatever was retrieved.
THEOREM Scores == Spec => []ScoresCountCharacters
<1>1. IInv => ScoresCountCharacters
  <2> DEFINE all == Retrieved(1, DOMAIN chunks)
             others == Retrieved(2, DOMAIN chunks)
             spans(ks) == Retrieved(1, ks)
             seen(ks) == UNION {Characters(spans(ks)[n]) : n \in DOMAIN spans(ks)}
             gold(i, j) == Quote(1, i, j)
             hits(ks, g) == {n \in DOMAIN spans(ks) :
                               2 * Cardinality(Characters(spans(ks)[n]) \cap Characters(g))
                                 >= g.end - g.start}
  <2> SUFFICES ASSUME IInv, pc = "returned", NEW ks \in SUBSET (DOMAIN chunks),
                      NEW i \in 0..text.tokens - 1, NEW j \in i..text.tokens - 1
               PROVE  /\ CoveredLen(gold(i, j), others \o Reverse(spans(ks))) =
                           Cardinality(Characters(gold(i, j)) \cap seen(ks))
                      /\ RecallCount(<<gold(i, j)>>, spans(ks), Tau) <=
                           RecallCount(<<gold(i, j)>>, all, Tau)
                      /\ PrecisionCount(<<gold(i, j)>>, spans(ks)) = Cardinality(hits(ks, gold(i, j)))
                      /\ FirstRelevant(<<gold(i, j)>>, spans(ks)) =
                           IF hits(ks, gold(i, j)) = {} THEN 0 ELSE Min(hits(ks, gold(i, j)))
    BY DEF ScoresCountCharacters
  <2> DEFINE g == gold(i, j)
             s == spans(ks)
  <2>1. g \in CharSpans /\ g.doc = 1
    BY QuotesAreSpans DEF IInv, InText
  <2>2. /\ s \in Seq(CharSpans) /\ \A n \in DOMAIN s : s[n].doc = 1
        /\ all \in Seq(CharSpans) /\ \A n \in DOMAIN s : \E m \in DOMAIN all : all[m] = s[n]
        /\ others \in Seq(CharSpans) /\ \A n \in DOMAIN others : others[n].doc = 2
    <3>1. \A k : /\ CharSpan(1, chunks[k].start, chunks[k].end).doc = 1
                 /\ CharSpan(2, chunks[k].start, chunks[k].end).doc = 2
      BY DEF CharSpan
    <3> DEFINE K == DOMAIN chunks
    <3>2. K \in SUBSET (DOMAIN chunks)
      OBVIOUS
    <3>3. /\ s \in Seq(CharSpans)
          /\ \A n \in DOMAIN s : \E k \in ks : s[n] = CharSpan(1, chunks[k].start, chunks[k].end)
      BY RetrievedAreSpans
    <3>4. /\ all \in Seq(CharSpans)
          /\ \A k \in K : \E n \in DOMAIN all : all[n] = CharSpan(1, chunks[k].start, chunks[k].end)
      BY <3>2, RetrievedAreSpans
    <3>5. /\ others \in Seq(CharSpans)
          /\ \A n \in DOMAIN others : \E k \in K :
               others[n] = CharSpan(2, chunks[k].start, chunks[k].end)
      BY <3>2, RetrievedAreSpans
    <3> HIDE DEF s, all, others
    <3> QED BY <3>1, <3>3, <3>4, <3>5
  <2> HIDE DEF g, s, all, others
  <2>3. CoveredLen(g, others \o Reverse(s)) =
          Cardinality(Characters(g) \cap UNION {Characters(s[n]) : n \in DOMAIN s})
    <3> DEFINE cat == others \o Reverse(s)
    <3>1. /\ cat \in Seq(CharSpans)
          /\ \A n \in DOMAIN cat : cat[n].doc = 1 => \E m \in DOMAIN s : cat[n] = s[m]
          /\ \A m \in DOMAIN s : \E n \in DOMAIN cat : cat[n] = s[m]
      <4> DEFINE r == Reverse(s)
                 N == Len(s)
      <4>1. r \in Seq(CharSpans) /\ Len(r) = N /\ \A n \in 1..N : r[n] = s[(N - n) + 1]
        BY <2>2 DEF Reverse
      <4>2. /\ DOMAIN s = 1..N /\ N \in Nat
            /\ \A n \in 1..N : (N - n) + 1 \in 1..N /\ (N - ((N - n) + 1)) + 1 = n
        BY <2>2
      <4> HIDE DEF r, N
      <4>3. ASSUME NEW n \in 1..N PROVE r[(N - n) + 1] = s[n]
        <5> DEFINE m == (N - n) + 1
        <5>1. m \in 1..N /\ (N - m) + 1 = n
          BY <4>2
        <5>2. r[m] = s[(N - m) + 1]
          <6> HIDE DEF m
          <6> QED BY <5>1, <4>1
        <5> QED BY <5>1, <5>2
      <4>4. /\ others \o r \in Seq(CharSpans) /\ Len(others \o r) = Len(others) + N
            /\ DOMAIN (others \o r) = 1..Len(others) + N
            /\ \A n \in 1..Len(others) : (others \o r)[n] = others[n]
            /\ \A n \in 1..N : (others \o r)[Len(others) + n] = r[n]
            /\ Len(others) \in Nat /\ DOMAIN others = 1..Len(others)
        <5>1. others \in Seq(CharSpans) /\ r \in Seq(CharSpans) /\ Len(r) = N /\ N \in Nat
          BY <2>2, <4>1, <4>2
        <5>2. Len(others) \in Nat /\ DOMAIN others = 1..Len(others)
          BY <5>1
        <5>3. /\ others \o r \in Seq(CharSpans) /\ Len(others \o r) = Len(others) + N
              /\ DOMAIN (others \o r) = 1..Len(others) + N
          BY <5>1
        <5>4. \A n \in 1..Len(others) : (others \o r)[n] = others[n]
          BY <5>1, <5>2
        <5>5. \A n \in 1..N : (others \o r)[Len(others) + n] = r[n]
          BY <5>1, <5>2
        <5> QED BY <5>2, <5>3, <5>4, <5>5
      <4>5. \A n \in DOMAIN (others \o r) :
              \/ n \in 1..Len(others)
              \/ \E m \in 1..N : n = Len(others) + m
        <5> SUFFICES ASSUME NEW n \in 1..Len(others) + N, n \notin 1..Len(others)
                     PROVE  \E m \in 1..N : n = Len(others) + m
          BY <4>4
        <5>1. n - Len(others) \in 1..N /\ n = Len(others) + (n - Len(others))
          BY <4>2, <4>4
        <5> QED BY <5>1
      <4>6. \A m \in 1..N : Len(others) + m \in DOMAIN (others \o r)
        BY <4>2, <4>4
      <4>7. \A n \in DOMAIN (others \o r) : (others \o r)[n].doc = 1 =>
              \E m \in DOMAIN s : (others \o r)[n] = s[m]
        <5> SUFFICES ASSUME NEW n \in DOMAIN (others \o r), (others \o r)[n].doc = 1
                     PROVE  \E m \in DOMAIN s : (others \o r)[n] = s[m]
          OBVIOUS
        <5>1. n \notin 1..Len(others)
          BY <2>2, <4>4
        <5>2. PICK m \in 1..N : n = Len(others) + m
          BY <5>1, <4>5
        <5>3. (others \o r)[n] = r[m] /\ r[m] = s[(N - m) + 1]
          BY <5>2, <4>1, <4>4
        <5> QED BY <5>3, <4>2
      <4>8. \A m \in DOMAIN s : \E n \in DOMAIN (others \o r) : (others \o r)[n] = s[m]
        <5> SUFFICES ASSUME NEW m \in 1..N
                     PROVE  \E n \in DOMAIN (others \o r) : (others \o r)[n] = s[m]
          BY <4>2
        <5> DEFINE k == (N - m) + 1
        <5>1. k \in 1..N /\ r[k] = s[m]
          BY <4>2, <4>3
        <5> HIDE DEF k
        <5>2. Len(others) + k \in DOMAIN (others \o r) /\ (others \o r)[Len(others) + k] = r[k]
          BY <5>1, <4>4, <4>6
        <5> QED BY <5>1, <5>2
      <4> QED BY <4>4, <4>7, <4>8 DEF r
    <3> HIDE DEF cat
    <3>2. {x \in Characters(g) : \E n \in DOMAIN cat : cat[n].doc = g.doc /\ x \in Characters(cat[n])}
            = Characters(g) \cap UNION {Characters(s[n]) : n \in DOMAIN s}
      <4>1. ASSUME NEW x
            PROVE  (\E n \in DOMAIN cat : cat[n].doc = 1 /\ x \in Characters(cat[n]))
                     <=> \E m \in DOMAIN s : x \in Characters(s[m])
        BY <3>1, <2>2
      <4> QED BY <4>1, <2>1
    <3>3. CoveredLen(g, cat) = Cardinality(Characters(g) \cap UNION {Characters(s[n]) : n \in DOMAIN s})
      BY <3>1, <3>2, <2>1, CoverageIsCounted
    <3> QED BY <3>3 DEF cat
  <2>4. RecallCount(<<g>>, s, Tau) <= RecallCount(<<g>>, all, Tau)
    <3> DEFINE few == {n \in DOMAIN <<g>> : Covers(s, <<g>>[n], Tau)}
               many == {n \in DOMAIN <<g>> : Covers(all, <<g>>[n], Tau)}
    <3>1. Covers(s, g, Tau) => Covers(all, g, Tau)
      <4>1. /\ CoveredLen(g, s) \in Nat /\ CoveredLen(g, all) \in Nat
            /\ CoveredLen(g, s) <= CoveredLen(g, all)
        BY <2>1, <2>2, CoverageGrows
      <4> DEFINE share == Tau * (g.end - g.start)
      <4>2. share \in Int
        BY <2>1, SpanFields, TauAssumption
      <4> HIDE DEF share
      <4>3. 100 * CoveredLen(g, s) >= share => 100 * CoveredLen(g, all) >= share
        BY <4>1, <4>2
      <4> QED BY <4>3 DEF share, Covers
    <3>2. few \in SUBSET many /\ many \in SUBSET {1}
      BY <3>1
    <3> HIDE DEF few, many
    <3>3. IsFiniteSet({1})
      BY FS_Singleton
    <3>4. IsFiniteSet(many)
      BY <3>2, <3>3, FS_Subset
    <3>5. Cardinality(few) <= Cardinality(many)
      BY <3>2, <3>4, FS_Subset
    <3> QED BY <3>5 DEF RecallCount, few, many
  <2>5. Relevant(<<g>>, s) = {n \in DOMAIN s :
          2 * Cardinality(Characters(s[n]) \cap Characters(g)) >= g.end - g.start}
    <3> SUFFICES ASSUME NEW n \in DOMAIN s
                 PROVE  IsRelevant(s[n], <<g>>, 50) <=>
                          2 * Cardinality(Characters(s[n]) \cap Characters(g)) >= g.end - g.start
      BY DEF Relevant
    <3>1. s[n] \in CharSpans /\ s[n].doc = g.doc
      BY <2>1, <2>2
    <3> QED BY <3>1, <2>1, RelevanceIsCounted
  <2>6. hits(ks, gold(i, j)) = Relevant(<<g>>, s) /\ seen(ks) = UNION {Characters(s[n]) : n \in DOMAIN s}
    BY <2>5 DEF g, s
  <2>7. /\ PrecisionCount(<<g>>, s) = Cardinality(Relevant(<<g>>, s))
        /\ FirstRelevant(<<g>>, s) =
             IF Relevant(<<g>>, s) = {} THEN 0 ELSE Min(Relevant(<<g>>, s))
    BY DEF PrecisionCount, FirstRelevant
  <2>8. gold(i, j) = g /\ spans(ks) = s
    BY DEF g, s
  <2> HIDE DEF gold, spans, hits, seen
  <2> QED BY <2>3, <2>4, <2>6, <2>7, <2>8
<1> QED BY <1>1, Invariance, PTL
=============================================================================
