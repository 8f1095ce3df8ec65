-------------------------------- MODULE Chunker --------------------------------
(***************************************************************************)
(* How a text becomes chunks (learning/chunker.py).  A word is its place   *)
(* in the text; a text is a sequence of paragraphs, each a sequence of     *)
(* sentences, each a sequence of words.  Its definitions are those of a    *)
(* text that parses as Python: the words of each, a nested one beside what *)
(* it is nested in.  Chunks are a set: nothing here is about their order.  *)
(***************************************************************************)
EXTENDS Naturals, Sequences, FiniteSets, SequencesExt

CONSTANTS
    WindowSize, WindowOverlap,
    MinWords,    \* shorter chunks are dropped; the code counts characters
    Lengths,     \* bound: words of a sentence
    MaxParts     \* bound: sentences of a paragraph and paragraphs of a text

\* Of 300 words a window shares 50 with the next, and a chunk under 50 characters has at
\* most 25 words: what is shared is never too short, nor is what two short chunks leave of
\* a window (_split_prose(), chunk()).
Windows ==
    /\ {WindowSize, WindowOverlap, MinWords} \subseteq Nat /\ Lengths \subseteq Nat
    /\ MaxParts \in Nat
    /\ WindowOverlap < WindowSize
    /\ 1 <= MinWords /\ MinWords <= WindowOverlap + 1 /\ 2 * (MinWords - 1) <= WindowSize

Least(a, b) == IF a <= b THEN a ELSE b
Ending(s, n) == SubSeq(s, Len(s) - Least(n, Len(s)) + 1, Len(s))
Flushed(out, words) == IF words = <<>> THEN out ELSE out \union {words}

\* _split_words(): windows that overlap, until one reaches the end.
split_words(words) ==
    LET step == WindowSize - WindowOverlap
        starts == {s \in {k * step : k \in 0..Len(words)} :
                     s = 0 \/ (s < Len(words) /\ s - step + WindowSize < Len(words))}
    IN  {SubSeq(words, s + 1, Least(s + WindowSize, Len(words))) : s \in starts}

\* One sentence of a paragraph that is too long.
Sentence(acc, sentence) ==
    IF Len(sentence) > WindowSize
    THEN [out |-> Flushed(acc.out, acc.words) \union split_words(sentence), words |-> <<>>]
    ELSE IF Len(acc.words) + Len(sentence) > WindowSize
    THEN [out |-> Flushed(acc.out, acc.words),
          words |-> Ending(acc.words, WindowOverlap) \o sentence]
    ELSE [acc EXCEPT !.words = @ \o sentence]
Sentences(out, sentences) ==
    LET acc[n \in 0..Len(sentences)] ==
          IF n = 0 THEN [out |-> out, words |-> <<>>]
          ELSE Sentence(acc[n - 1], sentences[n])
    IN  acc[Len(sentences)]

\* A paragraph joins what is open if it fits; what is open is cleared before its last
\* words are taken over, so paragraphs do not overlap.
Paragraph(acc, sentences) ==
    LET words == FlattenSeq(sentences)
        out == Flushed(acc.out, acc.words)
    IN  IF Len(acc.words) + Len(words) <= WindowSize
        THEN [acc EXCEPT !.words = @ \o words]
        ELSE IF Len(words) <= WindowSize
        THEN [out |-> out, words |-> words]
        ELSE Sentences(out, sentences)

split_prose(paragraphs) ==
    LET acc[n \in 0..Len(paragraphs)] ==
          IF n = 0 THEN [out |-> {}, words |-> <<>>]
          ELSE Paragraph(acc[n - 1], paragraphs[n])
        end == acc[Len(paragraphs)]
    IN  Flushed(end.out, end.words)

\* _split_code(): a text without definitions, and one that does not parse, is prose.
split_code(paragraphs, definitions) ==
    IF definitions = {} THEN split_prose(paragraphs) ELSE definitions

\* chunk(): short ones are left out.
chunk(paragraphs, definitions, coding) ==
    {c \in IF coding THEN split_code(paragraphs, definitions) ELSE split_prose(paragraphs) :
        Len(c) >= MinWords}

----------------------------------------------------------------------------
VARIABLES
    document,     \* its paragraphs
    definitions,
    coding,       \* it is the module "coding" the text is for
    pieces        \* the chunks

splitting == <<document, definitions, coding, pieces>>

\* A text of sentences of the given lengths, its words counted through: how many there are
\* up to each sentence of a paragraph that begins after n, and up to each paragraph.
Count(lengths, n) ==
    LET count[j \in 0..Len(lengths)] == IF j = 0 THEN n ELSE count[j - 1] + lengths[j]
    IN  count
Counts(lengths) ==
    LET counts[i \in 0..Len(lengths)] ==
          IF i = 0 THEN 0 ELSE Count(lengths[i], counts[i - 1])[Len(lengths[i])]
    IN  counts
Numbered(lengths) ==
    [i \in DOMAIN lengths |->
        [j \in DOMAIN lengths[i] |->
            [k \in 1..lengths[i][j] |->
                Count(lengths[i], Counts(lengths)[i - 1])[j - 1] + k]]]
Words(d) == FlattenSeq([i \in DOMAIN d |-> FlattenSeq(d[i])])
UpTo(S, n) == UNION {[1..k -> S] : k \in 1..n}

Undivided == document = <<>> /\ definitions = {} /\ coding = FALSE /\ pieces = {}

Split ==
    /\ document = <<>>
    /\ \E lengths \in UpTo(UpTo(Lengths, MaxParts), MaxParts) :
         document' = Numbered(lengths)
    /\ coding' \in BOOLEAN
    /\ definitions' \in {{}, {Words(document')},
                         {Words(document'), Ending(Words(document'), WindowOverlap)}}
    /\ coding' \/ definitions' = {}
    /\ pieces' = chunk(document', definitions', coding')

----------------------------------------------------------------------------
\* A chunk is a stretch of the text as it stands, and bounded if the text is prose; what
\* no chunk has is never longer in a row than two pieces too short to keep: what was open
\* before a paragraph that is too long, and its sentences before one that is.
Stretch(c) == \A i \in 2..Len(c) : c[i] = c[i - 1] + 1
EveryWordKept ==
    LET kept == UNION {ToSet(c) : c \in pieces}
    IN  /\ \A c \in pieces :
             Stretch(c) /\ (definitions = {} => Len(c) <= WindowSize + WindowOverlap)
        /\ \A w \in ToSet(Words(document)) \ kept :
             \E i, j \in 0..(Len(Words(document)) + 1) :
               /\ i < w /\ w < j /\ j - i <= 2 * (MinWords - 1) + 1
               /\ \A v \in (i + 1)..(j - 1) : v \notin kept
               /\ i \in kept \union {0}
               /\ j \in kept \union {Len(Words(document)) + 1}
=============================================================================
