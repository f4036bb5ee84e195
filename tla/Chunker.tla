------------------------------ MODULE Chunker ------------------------------
(***************************************************************************)
(* How a text is cut into the chunks that are embedded: build_chunker      *)
(* derives window and overlap from the settings and the model, and         *)
(* chunk_text slides the window over the tokens.                           *)
(*                                                                         *)
(* A text is what the tokenizer says of it: how many tokens, the character *)
(* span of each, and the length of the text.  A chunk keeps, beside the    *)
(* character offsets of ChunkOffsets, the tokens [from, to) it was cut at. *)
(***************************************************************************)
EXTENDS Integers, Sequences

CONSTANTS
  Ceilings,     \* values of embedder.max_content_tokens
  ChunkSizes,   \* values of settings.chunk_size, None aside
  Percents,     \* values of settings.chunk_overlap_ratio, in percent
  Texts,        \* tokenized texts
  None          \* Python None

ASSUME SettingsAssumption ==
  /\ Ceilings \subseteq Nat /\ ChunkSizes \subseteq Int /\ Percents \subseteq Int
  /\ None \notin Int

Span == [start : Nat, end : Nat]
ChunkOffsets == [from : Nat, to : Nat, start : Nat, end : Nat]

\* What chunk_text relies on of a fast tokenizer: spans in text order, maybe with
\* gaps, maybe sharing characters.
ASSUME TokenizerAssumption ==
  \A t \in Texts :
    /\ t.tokens \in Nat /\ t.length \in Nat
    /\ t.at \in [0..t.tokens - 1 -> Span]
    /\ \A i \in 0..t.tokens - 1 : t.at[i].start <= t.at[i].end /\ t.at[i].end <= t.length
    /\ \A i, j \in 0..t.tokens - 1 :
         i <= j => t.at[i].start <= t.at[j].start /\ t.at[i].end <= t.at[j].end

VARIABLES
  pc,         \* build, rejected, ready, cutting, returned
  ceiling,    \* the model's content window
  maxSize, overlap,
  text,       \* the text being cut
  tokStart,   \* tok_start
  chunks      \* ret

settings == <<ceiling, maxSize, overlap>>
vars == <<pc, ceiling, maxSize, overlap, text, tokStart, chunks>>

Init ==
  /\ pc = "build"
  /\ ceiling \in Ceilings
  /\ maxSize = 0 /\ overlap = 0
  /\ text = None
  /\ tokStart = 0
  /\ chunks = <<>>
-----------------------------------------------------------------------------
\* round(size * ratio): Python rounds half to even.
RoundedShare(size, percent) ==
  LET quotient == (size * percent) \div 100
      rest == (size * percent) % 100
  IN IF rest > 50 \/ (rest = 50 /\ quotient % 2 = 1) THEN quotient + 1 ELSE quotient

\* Chunker.__init__ raises ValueError otherwise.
Accepted(size, lap) == size > 0 /\ 0 <= lap /\ lap < size

\* Mutated: a configured size is not held against the model.
SizeUnchecked(size, percent) ==
  LET lap == RoundedShare(size, percent)
  IN /\ maxSize' = size
     /\ overlap' = lap
     /\ pc' = IF Accepted(size, lap) THEN "ready" ELSE "rejected"

\* A size beyond the model's window is refused, then the constructor has its say.
Configure(size, percent) ==
  LET lap == RoundedShare(size, percent)
  IN /\ maxSize' = size
     /\ overlap' = lap
     /\ pc' = IF size <= ceiling /\ Accepted(size, lap) THEN "ready" ELSE "rejected"

\* build_chunker: without a chunk_size the window is the model's.  A model whose tokenizer
\* is not a fast one, which gives no spans, is refused under any settings.
BuildChunker ==
  /\ pc = "build"
  /\ \/ \E configured \in ChunkSizes \cup {None}, percent \in Percents :
          Configure(IF configured = None THEN ceiling ELSE configured, percent)
     \/ pc' = "rejected" /\ UNCHANGED <<maxSize, overlap>>
  /\ UNCHANGED <<ceiling, text, tokStart, chunks>>

\* chunk_text tokenizes; a text without tokens has no chunks.  One call is followed:
\* a call keeps nothing for the next.
Tokenize ==
  /\ pc = "ready"
  /\ text' \in Texts
  /\ tokStart' = 0
  /\ chunks' = <<>>
  /\ pc' = IF text'.tokens = 0 THEN "returned" ELSE "cutting"
  /\ UNCHANGED settings

Chunk(from, to, end) ==
  [from |-> from, to |-> to, start |-> text.at[from].start, end |-> end]

\* The window reaches the last token.
AtTheEnd == tokStart + maxSize >= text.tokens

\* The last chunk takes the rest of the text.
LastWindow ==
  /\ pc = "cutting" /\ AtTheEnd
  /\ chunks' = Append(chunks, Chunk(tokStart, text.tokens, text.length))
  /\ pc' = "returned"
  /\ UNCHANGED <<ceiling, maxSize, overlap, text, tokStart>>

\* Mutated: the next window starts after this one, overlap or not.
NextWindowDisjoint ==
  /\ pc = "cutting" /\ ~ AtTheEnd
  /\ LET tokEnd == tokStart + maxSize
     IN /\ chunks' = Append(chunks, Chunk(tokStart, tokEnd, text.at[tokEnd - 1].end))
        /\ tokStart' = tokEnd
  /\ UNCHANGED <<pc, ceiling, maxSize, overlap, text>>

\* Mutated: the chunk ends where its last token starts.
NextWindowClipped ==
  /\ pc = "cutting" /\ ~ AtTheEnd
  /\ LET tokEnd == tokStart + maxSize
     IN /\ chunks' = Append(chunks, Chunk(tokStart, tokEnd, text.at[tokEnd - 1].start))
        /\ tokStart' = tokEnd - overlap
  /\ UNCHANGED <<pc, ceiling, maxSize, overlap, text>>

\* A full window; the next one starts overlap tokens before its end.
NextWindow ==
  /\ pc = "cutting" /\ ~ AtTheEnd
  /\ LET tokEnd == tokStart + maxSize
     IN /\ chunks' = Append(chunks, Chunk(tokStart, tokEnd, text.at[tokEnd - 1].end))
        /\ tokStart' = tokEnd - overlap
  /\ UNCHANGED <<pc, ceiling, maxSize, overlap, text>>

Next == BuildChunker \/ Tokenize \/ LastWindow \/ NextWindow

Spec == Init /\ [][Next]_vars
-----------------------------------------------------------------------------
TypeOK ==
  /\ pc \in {"build", "rejected", "ready", "cutting", "returned"}
  /\ ceiling \in Ceilings
  /\ maxSize \in Int /\ overlap \in Int
  /\ text \in Texts \cup {None}
  /\ tokStart \in Nat
  /\ chunks \in Seq(ChunkOffsets)

\* No token is lost: every token of a text that was cut lies, with all its characters,
\* inside some chunk.
TokensAreCovered ==
  pc = "returned" =>
    \A i \in 0..text.tokens - 1 : \E k \in 1..Len(chunks) :
      /\ chunks[k].from <= i /\ i < chunks[k].to
      /\ chunks[k].start <= text.at[i].start
      /\ text.at[i].end <= chunks[k].end

\* No chunk spans more tokens than the model embeds; the rest would be cut off unseen.
ChunksFitTheModel ==
  \A k \in 1..Len(chunks) : chunks[k].to - chunks[k].from <= ceiling

\* Neighbouring chunks share exactly the configured overlap, and each one brings
\* tokens that the chunk before it did not have.
NeighboursOverlap ==
  \A k \in 1..Len(chunks) - 1 :
    /\ chunks[k + 1].from = chunks[k].to - overlap
    /\ chunks[k + 1].to > chunks[k].to

\* Cutting cannot run on: every window starts after the one before it and before the
\* end of the text.
WindowsAdvance ==
  [][pc = "cutting" /\ pc' = "cutting" =>
       tokStart < tokStart' /\ tokStart' < text.tokens]_vars
=============================================================================
