------------------------------ MODULE Tokenizer ------------------------------
(***************************************************************************)
(* Byte pair encoding of one word (BPETokenizer::bpe in llm.hpp): the      *)
(* neighbours whose merge ranks best are merged everywhere, again and      *)
(* again, until no neighbours are left that have a merge.                  *)
(*                                                                         *)
(* A piece of a word is the sequence of its letters, which stand for the   *)
(* bytes.  Pieces are the tokens: encode looks each one up in encoder.     *)
(***************************************************************************)
EXTENDS Integers, Sequences

CONSTANTS
  Alphabet,
  Words,      \* words, as sequences over Alphabet
  MergeLists  \* merges.txt: pairs of pieces, the best one first

ASSUME TokenizerAssumption ==
  /\ Words \subseteq Seq(Alphabet)
  /\ \A list \in MergeLists :
       /\ list \in Seq(Seq(Alphabet) \X Seq(Alphabet))
       \* A merge is of letters, or of what earlier merges make.
       /\ \A r \in DOMAIN list, side \in {1, 2} :
            \/ Len(list[r][side]) = 1
            \/ \E q \in 1 .. r - 1 : list[r][side] = list[q][1] \o list[q][2]

VARIABLES
  bpePc,
  merges,   \* bpe_ranks: a merge is ranked by where it is
  original, \* the token that bpe is called with
  word,     \* its pieces
  bigram,   \* the merge being done: first and second
  scanned,  \* i, the pieces of word that are in newWord
  newWord,  \* new_word
  pushed    \* bpe_tokens, the tokens encode has pushed

bpeVars == <<bpePc, merges, original, word, bigram, scanned, newWord, pushed>>

-----------------------------------------------------------------------------
\* load_from_merges: a token for every byte, and for every merge
Vocabulary ==
  {<<l>> : l \in Alphabet} \cup {merges[r][1] \o merges[r][2] : r \in DOMAIN merges}

\* get_pairs
PairsOf(pieces) == {<<pieces[k], pieces[k + 1]>> : k \in 1 .. Len(pieces) - 1}

\* Ranks of the pairs of the word that have one
RanksIn(pieces) == {r \in DOMAIN merges : merges[r] \in PairsOf(pieces)}

Best(ranks) == CHOOSE r \in ranks : \A q \in ranks : r <= q

None == <<<<>>, <<>>>>

TokenizerInit ==
  /\ bpePc = "choosing" /\ merges \in MergeLists /\ original \in Words
  /\ word = [k \in 1 .. Len(original) |-> <<original[k]>>]
  /\ bigram = None /\ scanned = 0 /\ newWord = <<>> /\ pushed = <<>>

\* The best pair, if one has a rank.  A word of one piece has no pairs.
ChooseBest ==
  /\ bpePc = "choosing"
  /\ IF RanksIn(word) = {} THEN bpePc' = "pushing" /\ UNCHANGED bigram
     ELSE bigram' = merges[Best(RanksIn(word))] /\ bpePc' = "merging"
  /\ scanned' = 0 /\ newWord' = <<>>
  /\ UNCHANGED <<merges, original, word, pushed>>

\* Bug the runs must notice: the word ends with the bigram it ends in.
NotAtEnd(k) == k + 1 < Len(word) /\ word[k] = bigram[1] /\ word[k + 1] = bigram[2]

BigramAt(k) == k < Len(word) /\ word[k] = bigram[1] /\ word[k + 1] = bigram[2]

\* The next piece, alone or merged with the one after it
Scan ==
  /\ bpePc = "merging" /\ scanned < Len(word)
  /\ IF BigramAt(scanned + 1)
       THEN newWord' = Append(newWord, bigram[1] \o bigram[2]) /\ scanned' = scanned + 2
       ELSE newWord' = Append(newWord, word[scanned + 1]) /\ scanned' = scanned + 1
  /\ UNCHANGED <<bpePc, merges, original, word, bigram, pushed>>

\* word = new_word.  A word that is one piece by now is done.
Scanned ==
  /\ bpePc = "merging" /\ scanned = Len(word)
  /\ word' = newWord
  /\ bpePc' = IF Len(newWord) = 1 THEN "pushing" ELSE "choosing"
  /\ scanned' = 0
  /\ UNCHANGED <<merges, original, bigram, newWord, pushed>>

\* encode: the token of the next piece.  A piece that has none is left out.
PushToken ==
  /\ bpePc = "pushing" /\ scanned < Len(word)
  /\ scanned' = scanned + 1
  /\ pushed' = IF word[scanned + 1] \in Vocabulary THEN Append(pushed, word[scanned + 1])
               ELSE pushed
  /\ UNCHANGED <<bpePc, merges, original, word, bigram, newWord>>

TokenizerDone == bpePc = "pushing" /\ scanned = Len(word) /\ UNCHANGED bpeVars

TokenizerNext == ChooseBest \/ Scan \/ Scanned \/ PushToken \/ TokenizerDone

TokenizerSpec == TokenizerInit /\ [][TokenizerNext]_bpeVars

-----------------------------------------------------------------------------
\* The type of the state
TokenizerTypeOK ==
  /\ bpePc \in {"choosing", "merging", "pushing"}
  /\ merges \in MergeLists /\ original \in Words
  /\ word \in Seq(Seq(Alphabet)) /\ newWord \in Seq(Seq(Alphabet))
  /\ pushed \in Seq(Seq(Alphabet)) /\ scanned \in 0 .. Len(word)

\* The letters of pieces up to the k-th
Spelling(pieces) ==
  LET upto[k \in 0 .. Len(pieces)] == IF k = 0 THEN <<>> ELSE upto[k - 1] \o pieces[k]
  IN  upto[Len(pieces)]

\* Encoding loses nothing and leaves nothing to merge: the tokens spell the
\* word, no piece is missing in the vocabulary (encode would leave it out), and
\* no neighbours still have a merge.  When a pair was merged, what is left to
\* merge ranks after it, though the merge made new pairs and broke others: no
\* merge is done twice, so that the loop ends (BPETokenizer::bpe).
EncodedFully ==
  /\ bpePc = "pushing" /\ scanned = Len(word) =>
       Spelling(pushed) = original /\ RanksIn(pushed) = {}
  /\ bpePc = "choosing" /\ bigram # None =>
       \A r, q \in DOMAIN merges : merges[r] = bigram /\ q \in RanksIn(word) => r < q
=============================================================================
