------------------------------- MODULE Prompt -------------------------------
(***************************************************************************)
(* A prompt on its way to the text encoder: attention brackets are parsed  *)
(* (parse_prompt_attention in util.cpp), the parts are tokenized with      *)
(* their weights, and tokens, weights and mask padded to one length        *)
(* (LLMEmbedder in conditioner.hpp).                                       *)
(*                                                                         *)
(* A prompt is a sequence of the pieces re_attention matches.  A weight is *)
(* a float: here it is the multipliers in the order they were applied, and *)
(* a sign.  A factor written after a colon is any number; it is named by   *)
(* the piece it stands in.                                                 *)
(***************************************************************************)
EXTENDS Integers, SequencesExt, FiniteSets

CONSTANTS
  Prompts,     \* sequences over Pieces
  TokenCounts, \* tokens a part that is not blank may have
  TemplateBefore, TemplateAfter, \* tokens of the template around the prompt
  MaxLength    \* max_length, 512 in the code

\* ":w)" closes a round bracket with a factor.  "text" is anything else.
Pieces == {"(", "[", ":w)", ")", "]", "\\(", "\\)", "BREAK", "text", " "}

ASSUME PromptAssumption ==
  /\ Prompts \subseteq Seq(Pieces) /\ TokenCounts \subseteq Nat
  /\ {TemplateBefore, TemplateAfter} \subseteq Nat /\ MaxLength \in Nat \ {0}

VARIABLES
  promptPc,
  prompt,
  read,      \* pieces read
  round,     \* round_brackets: where in parts each open one began
  square,    \* square_brackets
  parts,     \* res, and then parsed_attention
  item,      \* the part a loop over them is at
  tokens,    \* for each token, the number of the part it is from
  weights,
  mask

promptVars == <<promptPc, prompt, read, round, square, parts, item, tokens, weights, mask>>
encoding == <<tokens, weights, mask>>

Unweighted == [by |-> <<>>, sign |-> 1]

\* round_bracket_multiplier and square_bracket_multiplier, 1.1 and 1 / 1.1; a
\* positive number is the factor of the piece there.
RoundMultiplier == -1
SquareMultiplier == -2

\* How many of the multipliers of a weight are in S
Occurrences(weight, S) == Cardinality({k \in DOMAIN weight.by : weight.by[k] \in S})

\* What they come to, but for the factors' values and for rounding
Tally(weight) ==
  [power |-> Occurrences(weight, {RoundMultiplier}) - Occurrences(weight, {SquareMultiplier}),
   factors |-> Occurrences(weight, Nat), sign |-> weight.sign]

\* Bound: the longest prompt for which no power of 1.1 leaves a float's range.
MaxPowers == 900

\* Two products of floats are the same number if they were computed in the same
\* way, unless two factors gave 0 times infinity.  They are not if their powers
\* of 1.1 or their signs differ and no factor can make up for that.
SurelyEqual(v, w) == v = w /\ Occurrences(v, Nat) <= 1

SurelyDiffer(c, d) ==
  /\ c.factors = 0 /\ d.factors = 0 /\ Len(prompt) <= MaxPowers
  /\ c.power # d.power \/ c.sign # d.sign

-----------------------------------------------------------------------------
(* parse_prompt_attention *)

Piece == prompt[read + 1]

\* Bug the runs must notice: only the part after the bracket is multiplied.
OnlyFirst(from, multiplier) ==
  [p \in 1 .. Len(parts) |->
    IF p = from THEN [parts[p] EXCEPT !.weight.by = Append(@, multiplier)] ELSE parts[p]]

\* multiply_range
MultiplyRange(from, multiplier) ==
  [p \in 1 .. Len(parts) |->
    IF p >= from THEN [parts[p] EXCEPT !.weight.by = Append(@, multiplier)] ELSE parts[p]]

Top(stack) == stack[Len(stack)]
Pop(stack) == SubSeq(stack, 1, Len(stack) - 1)

\* Only an escaped "(" loses its backslash.
Spelled(piece) == IF piece = "\\(" THEN "(" ELSE piece

Part(piece) ==
  [text |-> <<[at |-> read + 1, spelled |-> Spelled(piece)]>>,
   weight |-> IF piece = "BREAK" THEN [Unweighted EXCEPT !.sign = -1] ELSE Unweighted]

Reads(pieces) ==
  promptPc = "reading" /\ read < Len(prompt) /\ Piece \in pieces /\ read' = read + 1

OpenRound ==
  /\ Reads({"("}) /\ round' = Append(round, Len(parts) + 1)
  /\ UNCHANGED <<promptPc, prompt, square, parts, item, encoding>>

OpenSquare ==
  /\ Reads({"["}) /\ square' = Append(square, Len(parts) + 1)
  /\ UNCHANGED <<promptPc, prompt, round, parts, item, encoding>>

\* With no round bracket open, ":w)" is dropped.  With one, std::stof throws if
\* the factor is dots only or out of range, and nothing catches that.
CloseWithFactor ==
  /\ Reads({":w)"})
  /\ \/ round = <<>> /\ UNCHANGED <<promptPc, round, parts>>
     \/ /\ round # <<>>
        /\ round' = Pop(round) /\ parts' = MultiplyRange(Top(round), read + 1)
        /\ UNCHANGED promptPc
     \/ round # <<>> /\ promptPc' = "thrown" /\ UNCHANGED <<round, parts>>
  /\ UNCHANGED <<prompt, square, item, encoding>>

CloseRound ==
  /\ Reads({")"}) /\ round # <<>>
  /\ round' = Pop(round) /\ parts' = MultiplyRange(Top(round), RoundMultiplier)
  /\ UNCHANGED <<promptPc, prompt, square, item, encoding>>

CloseSquare ==
  /\ Reads({"]"}) /\ square # <<>>
  /\ square' = Pop(square) /\ parts' = MultiplyRange(Top(square), SquareMultiplier)
  /\ UNCHANGED <<promptPc, prompt, round, item, encoding>>

\* Text, and a bracket that closes nothing
ReadText ==
  /\ \/ Reads({"\\(", "\\)", "BREAK", "text", " "})
     \/ Reads({")"}) /\ round = <<>>
     \/ Reads({"]"}) /\ square = <<>>
  /\ parts' = Append(parts, Part(Piece))
  /\ UNCHANGED <<promptPc, prompt, round, square, item, encoding>>

\* Brackets that were not closed reach to the end, round ones first.
CloseOpen ==
  /\ promptPc = "reading" /\ read = Len(prompt)
  /\ IF round # <<>>
       THEN /\ round' = Tail(round) /\ parts' = MultiplyRange(Head(round), RoundMultiplier)
            /\ UNCHANGED <<promptPc, square>>
       ELSE IF square # <<>>
         THEN /\ square' = Tail(square) /\ parts' = MultiplyRange(Head(square), SquareMultiplier)
              /\ UNCHANGED <<promptPc, round>>
         ELSE /\ promptPc' = "merging"
              /\ parts' = IF parts = <<>> THEN <<[text |-> <<>>, weight |-> Unweighted]>> ELSE parts
              /\ UNCHANGED <<round, square>>
  /\ UNCHANGED <<prompt, read, item, encoding>>

\* A part that weighs the same as the one before it is merged into that.
Merged(i) ==
  [p \in 1 .. Len(parts) - 1 |->
    IF p < i THEN parts[p]
    ELSE IF p = i THEN [parts[i] EXCEPT !.text = @ \o parts[i + 1].text]
    ELSE parts[p + 1]]

MergeParts ==
  /\ promptPc = "merging"
  /\ IF item >= Len(parts) THEN promptPc' = "tokenizing" /\ item' = 0 /\ UNCHANGED parts
     ELSE /\ \/ /\ ~SurelyDiffer(Tally(parts[item].weight), Tally(parts[item + 1].weight))
                /\ parts' = Merged(item) /\ UNCHANGED item
             \/ /\ ~SurelyEqual(parts[item].weight, parts[item + 1].weight)
                /\ item' = item + 1 /\ UNCHANGED parts
          /\ UNCHANGED promptPc
  /\ UNCHANGED <<prompt, read, round, square, encoding>>

-----------------------------------------------------------------------------
(* LLMEmbedder: tokenize and get_learned_condition *)

\* Tokens that are from no part
Template == 0
Padding == -1

Repeat(v, n) == [i \in 1 .. n |-> v]

\* Parts of nothing but white space are skipped.
Blank(part) == \A i \in 1 .. Len(part.text) : part.text[i].spelled = " "

\* Bug the runs must notice: weights are kept for each part, not each token.
OnceEach(owner, weight, n) ==
  tokens' = tokens \o Repeat(owner, n) /\ weights' = Append(weights, weight)

AddTokens(owner, weight, n) ==
  tokens' = tokens \o Repeat(owner, n) /\ weights' = weights \o Repeat(weight, n)

\* The template around the prompt is not parsed.
Tokenize ==
  /\ promptPc = "tokenizing"
  /\ IF item = 0 THEN AddTokens(Template, Unweighted, TemplateBefore)
     ELSE IF item > Len(parts) THEN AddTokens(Template, Unweighted, TemplateAfter)
     ELSE \E n \in IF Blank(parts[item]) THEN {0} ELSE TokenCounts :
            AddTokens(item, parts[item].weight, n)
  /\ item' = item + 1
  /\ promptPc' = IF item > Len(parts) THEN "padding" ELSE promptPc
  /\ UNCHANGED <<prompt, read, round, square, parts, mask>>

\* pad_tokens, to the next multiple of max_length, which is called only when
\* there are fewer tokens than that.  More are not cut off.
Pad ==
  /\ promptPc = "padding"
  /\ LET missing == IF Len(tokens) < MaxLength THEN MaxLength - Len(tokens) ELSE 0
     IN  /\ mask' = Repeat(1, Len(tokens)) \o Repeat(0, missing)
         /\ tokens' = tokens \o Repeat(Padding, missing)
         /\ weights' = weights \o Repeat(Unweighted, Len(tokens) + missing - Len(weights))
  /\ promptPc' = "encoded"
  /\ UNCHANGED <<prompt, read, round, square, parts, item>>

-----------------------------------------------------------------------------
PromptInit ==
  /\ promptPc = "reading" /\ prompt \in Prompts /\ read = 0 /\ item = 1
  /\ round = <<>> /\ square = <<>> /\ parts = <<>>
  /\ tokens = <<>> /\ weights = <<>> /\ mask = <<>>

PromptEnded == promptPc \in {"encoded", "thrown"} /\ UNCHANGED promptVars

PromptNext ==
  \/ OpenRound \/ OpenSquare \/ CloseWithFactor \/ CloseRound \/ CloseSquare \/ ReadText
  \/ CloseOpen \/ MergeParts \/ Tokenize \/ Pad \/ PromptEnded

PromptSpec == PromptInit /\ [][PromptNext]_promptVars

-----------------------------------------------------------------------------
(* The brackets of a prompt, read as the doc comment of                    *)
(* parse_prompt_attention does, but for a ':w)' that closes nothing        *)

\* How many of the pieces from p to q are among these
Count(pieces, p, q) == Cardinality({i \in p .. q : prompt[i] \in pieces})

Closers(p) == IF prompt[p] = "(" THEN {")", ":w)"} ELSE {"]"}

\* The bracket at p is still open just before i.
Open(p, i) ==
  /\ p < i /\ prompt[p] \in {"(", "["}
  /\ \A q \in p .. i - 1 : Count({prompt[p]}, p, q) > Count(Closers(p), p, q)

\* The bracket at p is closed by the piece at i.
Closes(p, i) ==
  /\ Open(p, i) /\ prompt[i] \in Closers(p)
  /\ Count({prompt[p]}, p, i) = Count(Closers(p), p, i)

\* A ":w)" that closes nothing, which the code drops
Stray(i) == prompt[i] = ":w)" /\ ~\E p \in 1 .. i : Closes(p, i)

\* Text, BREAK, and brackets that close nothing, but for a stray ":w)"
IsText(i) ==
  \/ prompt[i] \in {"\\(", "\\)", "BREAK", "text", " "}
  \/ prompt[i] \in {")", "]"} /\ ~\E p \in 1 .. i : Closes(p, i)

ByFactor(p) == \E q \in p .. Len(prompt) : prompt[q] = ":w)" /\ Closes(p, q)

Enclosing(bracket, i) == {p \in 1 .. i : prompt[p] = bracket /\ Open(p, i)}

WeightOf(i) ==
  [power |-> Cardinality({p \in Enclosing("(", i) : ~ByFactor(p)})
               - Cardinality(Enclosing("[", i)),
   factors |-> Cardinality({p \in Enclosing("(", i) : ByFactor(p)}),
   sign |-> IF prompt[i] = "BREAK" THEN -1 ELSE 1]

\* The part a piece of text ended up in
Holds(part, i) == \E k \in 1 .. Len(part.text) : part.text[k].at = i

TextPieces == {i \in 1 .. Len(prompt) : IsText(i)}

\* The type of the state
PromptTypeOK ==
  /\ promptPc \in {"reading", "thrown", "merging", "tokenizing", "padding", "encoded"}
  /\ prompt \in Prompts /\ read \in 0 .. Len(prompt) /\ item \in Nat
  /\ round \in Seq(Nat \ {0}) /\ square \in Seq(Nat \ {0})
  /\ \A p \in 1 .. Len(parts) :
       parts[p].weight \in [by : Seq({RoundMultiplier, SquareMultiplier} \cup Nat), sign : {-1, 1}]
  /\ Len(mask) \in Nat

\* The parts are done.
Parsed == promptPc \in {"tokenizing", "padding", "encoded"}

\* What stacks and ranges compute is what the brackets say: every piece of text
\* (a stray ":w)" is none) is kept, once and in order; a part has the multipliers
\* of all the brackets around its first text, of either kind, nested,
\* interleaved, or left open; another text is in it only if the two weights may
\* be the same number; and no two neighbours are left that were computed alike
\* (parse_prompt_attention).
WeightsByBrackets ==
  Parsed =>
    /\ \A p \in 1 .. Len(parts) : parts[p].text # <<>> =>
         Tally(parts[p].weight) = WeightOf(parts[p].text[1].at)
    /\ \A i \in TextPieces : \E p \in 1 .. Len(parts) :
         Holds(parts[p], i) /\ ~SurelyDiffer(Tally(parts[p].weight), WeightOf(i))
    /\ LET pieces == [p \in 1 .. Len(parts) |-> parts[p].text]
           all == FlattenSeq(pieces)
       IN  /\ Len(all) = Cardinality(TextPieces)
           /\ \A k \in 1 .. Len(all) - 1 : all[k].at < all[k + 1].at
    /\ \A p \in 1 .. Len(parts) - 1 : ~SurelyEqual(parts[p].weight, parts[p + 1].weight)

\* "Accepted tokens are: ... anything else - just text" (the doc comment of
\* parse_prompt_attention): a ":w)" that closes nothing is text of some part.
AnythingElseIsText ==
  Parsed =>
    \A i \in 1 .. Len(prompt) : Stray(i) => \E p \in 1 .. Len(parts) : Holds(parts[p], i)

\* Tokens, weights and mask stay aligned: they are of one length, at least
\* max_length, the mask hides exactly the padding, and every token has the
\* weight of its part, template and padding none (LLMEmbedder).
TokensAligned ==
  promptPc = "encoded" =>
    /\ Len(tokens) = Len(weights) /\ Len(tokens) = Len(mask) /\ Len(tokens) >= MaxLength
    /\ \A i \in 1 .. Len(tokens) :
         /\ (mask[i] = 0) = (tokens[i] = Padding)
         /\ weights[i] = IF tokens[i] \in {Template, Padding} THEN Unweighted
                         ELSE parts[tokens[i]].weight
=============================================================================
