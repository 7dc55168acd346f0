----------------------------- MODULE TokenSplit -----------------------------
(***************************************************************************)
(* How a text is cut into the words that are byte pair encoded             *)
(* (token_split in tokenize_util.cpp), next to the regular expression of   *)
(* Qwen's tokenizer its comment says it is for.                            *)
(*                                                                         *)
(* A character is one of its class: "s" and "l" are the letters of 's and  *)
(* 'll, "d" that of 'd, "S" a capital, and "wide" stands for punctuation   *)
(* that is not ASCII, for which isspace is undefined.                      *)
(***************************************************************************)
EXTENDS Integers, Sequences

CONSTANT Texts  \* sequences of characters

AsciiLetters == {"a", "s", "S", "l", "d"}
Numbers == {"1"}
Spaces == {" ", "\n"}
Characters == AsciiLetters \cup Numbers \cup Spaces \cup {"'", "!", "wide"}

ASSUME TokenSplitAssumption == Texts \subseteq Seq(Characters)

VARIABLES
  splitPc,
  text,
  wideIsSpace, \* what isspace happens to answer for "wide"
  cursor,      \* i
  words        \* the tokens, as the characters they are of

splitVars == <<splitPc, text, wideIsSpace, cursor, words>>

-----------------------------------------------------------------------------
At(k) == text[k]
Within(k) == k \in 1 .. Len(text)
In(k, S) == Within(k) /\ At(k) \in S

\* The last character of the run of S that starts at k, or k - 1
RunEnd(k, S) ==
  CHOOSE e \in k - 1 .. Len(text) : (\A j \in k .. e : At(j) \in S) /\ ~In(e + 1, S)

\* isspace of the C library
CSpaces == Spaces \cup (IF wideIsSpace THEN {"wide"} ELSE {})

Punctuation == Characters \ (AsciiLetters \cup Numbers \cup CSpaces)

Lower(c) == IF c = "S" THEN "s" ELSE c

\* The token up to character e is pushed, and i moves past it.
Push(e, lowered) ==
  /\ words' = Append(words, [from |-> cursor, upto |-> e, lowered |-> lowered])
  /\ cursor' = e + 1 /\ UNCHANGED <<splitPc, text, wideIsSpace>>

Splitting == splitPc = "splitting" /\ Within(cursor)

\* 's, 't, 'm, and if there is one more character, 're, 've and 'll, and 'd, but
\* never the two characters there are.  The token is put in lower case.
ContractionEnd(k) ==
  IF At(k) # "'" THEN 0
  ELSE IF Within(k + 1) /\ Lower(At(k + 1)) = "s" THEN k + 1
  ELSE IF Within(k + 2) /\ <<Lower(At(k + 1)), Lower(At(k + 2))>> = <<"l", "l">> THEN k + 2
  ELSE 0

Contraction ==
  /\ Splitting /\ ContractionEnd(cursor) # 0
  /\ Push(ContractionEnd(cursor),
          \E k \in cursor .. ContractionEnd(cursor) : At(k) # Lower(At(k)))

Number == Splitting /\ In(cursor, Numbers) /\ Push(cursor, FALSE)

\* Letters, and one character before them that is no line break
Letters ==
  /\ Splitting /\ ContractionEnd(cursor) = 0
  /\ IF In(cursor, AsciiLetters) THEN Push(RunEnd(cursor, AsciiLetters), FALSE)
     ELSE /\ ~In(cursor, Numbers \cup {"\n"}) /\ In(cursor + 1, AsciiLetters)
          /\ Push(RunEnd(cursor + 1, AsciiLetters), FALSE)

LettersAt(k) ==
  In(k, AsciiLetters) \/ (~In(k, Numbers \cup {"\n"}) /\ In(k + 1, AsciiLetters))

\* Bug the runs must notice: a blank is never part of the punctuation after it.
NoBlankBefore(k) == IF In(k, Punctuation) THEN k ELSE 0

\* Where the punctuation is at k, or after a blank
PunctuationAt(k) ==
  IF At(k) = " " /\ In(k + 1, Punctuation) THEN k + 1
  ELSE IF In(k, Punctuation) THEN k ELSE 0

Marks ==
  /\ Splitting /\ ContractionEnd(cursor) = 0 /\ ~LettersAt(cursor)
  /\ PunctuationAt(cursor) # 0
  /\ Push(RunEnd(RunEnd(PunctuationAt(cursor), Punctuation) + 1, {"\n"}), FALSE)

\* White space, up to a line break that does not come second
BlankEnd(k) ==
  CHOOSE e \in k .. Len(text) :
    /\ \A j \in k .. e : At(j) \in Spaces
    /\ ~In(e + 1, Spaces) \/ (e > k /\ At(e + 1) = "\n")
    /\ \A f \in k + 1 .. e - 1 : At(f + 1) # "\n"

Blanks ==
  /\ Splitting /\ In(cursor, Spaces) /\ ~LettersAt(cursor) /\ PunctuationAt(cursor) = 0
  /\ Push(BlankEnd(cursor), FALSE)

\* What is none of these is dropped.
Skip ==
  /\ Splitting /\ ~In(cursor, Numbers \cup Spaces) /\ ContractionEnd(cursor) = 0
  /\ ~LettersAt(cursor) /\ PunctuationAt(cursor) = 0
  /\ cursor' = cursor + 1 /\ UNCHANGED <<splitPc, text, wideIsSpace, words>>

SplitDone ==
  /\ splitPc = "splitting" /\ ~Within(cursor)
  /\ splitPc' = "split" /\ UNCHANGED <<text, wideIsSpace, cursor, words>>

SplitInit ==
  /\ splitPc = "splitting" /\ text \in Texts /\ wideIsSpace \in BOOLEAN
  /\ cursor = 1 /\ words = <<>>

SplitEnded == splitPc = "split" /\ UNCHANGED splitVars

SplitNext ==
  Contraction \/ Number \/ Letters \/ Marks \/ Blanks \/ Skip \/ SplitDone \/ SplitEnded

SplitSpec == SplitInit /\ [][SplitNext]_splitVars

-----------------------------------------------------------------------------
(* (?i:'s|'t|'re|'ve|'m|'ll|'d)|[^\r\n\p{L}\p{N}]?\p{L}+|\p{N}             *)
(*   | ?[^\s\p{L}\p{N}]+[\r\n]*|\s*[\r\n]+|\s+(?!\S)|\s+                   *)

Marked == Characters \ (AsciiLetters \cup Numbers \cup Spaces)

\* Where the expression ends that matches at k: its first alternative that does
RegexEnd(k) ==
  LET blanks == RunEnd(k, Spaces)
      breaks == {j \in k .. blanks : At(j) = "\n"}
      marks == IF At(k) = " " THEN k + 1 ELSE k
  IN  IF At(k) = "'" /\ In(k + 1, {"s", "S", "d"}) THEN k + 1
      ELSE IF At(k) = "'" /\ In(k + 1, {"l"}) /\ In(k + 2, {"l"}) THEN k + 2
      ELSE IF At(k) \in AsciiLetters THEN RunEnd(k, AsciiLetters)
      ELSE IF At(k) \notin Numbers \cup {"\n"} /\ In(k + 1, AsciiLetters)
        THEN RunEnd(k + 1, AsciiLetters)
      ELSE IF At(k) \in Numbers THEN k
      ELSE IF In(marks, Marked) THEN RunEnd(RunEnd(marks, Marked) + 1, {"\n"})
      ELSE IF breaks # {} THEN CHOOSE j \in breaks : \A l \in breaks : l <= j
      ELSE IF Within(blanks + 1) /\ blanks > k THEN blanks - 1
      ELSE blanks

\* White space from k to e of which code and expression make one word
OneWord(k, e) ==
  \/ e = k
  \/ e = Len(text) /\ \A j \in k .. e : At(j) # "\n"
  \/ e = k + 1 /\ At(e) = "\n"

\* Where the code is known not to follow it: contractions that are capital or
\* 'd, most white space of more than one character, and punctuation that
\* isspace takes for a blank
Irregular ==
  \/ \E k \in 1 .. Len(text) : At(k) = "'" /\ In(k + 1, {"S", "d"})
  \/ \E k \in 1 .. Len(text) :
       At(k) \in Spaces /\ ~In(k - 1, Spaces) /\ ~OneWord(k, RunEnd(k, Spaces))
  \/ wideIsSpace /\ \E k \in 1 .. Len(text) : At(k) = "wide"

\* Every word is cut off where the expression of the comment ends, and the
\* words are the whole text, as it was, but for three kinds of text for which
\* they are not: those of Irregular (token_split).
SplitsAsRegex ==
  ~Irregular =>
    /\ \A w \in 1 .. Len(words) :
         /\ words[w].from = (IF w = 1 THEN 1 ELSE words[w - 1].upto + 1)
         /\ words[w].upto = RegexEnd(words[w].from) /\ ~words[w].lowered
    /\ splitPc = "split" /\ words # <<>> => words[Len(words)].upto = Len(text)

SplitTypeOK ==
  /\ splitPc \in {"splitting", "split"} /\ text \in Texts /\ wideIsSpace \in BOOLEAN
  /\ cursor \in 1 .. Len(text) + 1
  /\ \A w \in 1 .. Len(words) :
       words[w].from \in 1 .. Len(text) /\ words[w].upto \in 1 .. Len(text)
=============================================================================
