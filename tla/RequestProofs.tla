---------------------------- MODULE RequestProofs ----------------------------
(***************************************************************************)
(* What a request needs before the diffusion model can run, for prompts of *)
(* any length, images, references and steps of any number and size: its    *)
(* tokens with their weights and mask, the weights its brackets give to    *)
(* each text (Prompt), the words they are made of (TokenSplit), the merges *)
(* of a word (Tokenizer), and room for the tensors of the call             *)
(* (WorkMemory).                                                           *)
(***************************************************************************)
EXTENDS Prompt, TokenSplit, Tokenizer, WorkMemory, Arithmetic, SequenceTheorems,
        FiniteSetTheorems, TLAPS

-----------------------------------------------------------------------------
(* Tokens, weights and mask *)

\* So far every token has its weight, and none is padding.
Aligned ==
  /\ tokens \in Seq(Nat)
  /\ \E S : weights \in Seq(S)
  /\ Len(weights) = Len(tokens)
  /\ \A i \in 1 .. Len(tokens) :
       weights[i] = IF tokens[i] = Template THEN Unweighted ELSE parts[tokens[i]].weight

\* The inductive invariant: parts stay as they are once they have tokens.
TokensInv ==
  /\ promptPc \in {"reading", "thrown", "merging", "tokenizing", "padding", "encoded"}
  /\ item \in Nat
  /\ promptPc \in {"reading", "merging"} => tokens = <<>> /\ weights = <<>>
  /\ promptPc \in {"tokenizing", "padding"} => Aligned
  /\ TokensAligned

\* The elements of s, and then v n times
Longer(r, s, v, n) ==
  /\ Len(r) = Len(s) + n
  /\ \A i \in 1 .. Len(s) : r[i] = s[i]
  /\ \A i \in Len(s) + 1 .. Len(s) + n : r[i] = v

\* What is appended to a sequence follows what was in it (AddTokens, pad_tokens).
LEMMA RepeatAppended ==
  ASSUME NEW S, NEW s \in Seq(S), NEW v \in S, NEW n \in Nat
  PROVE  s \o Repeat(v, n) \in Seq(S) /\ Longer(s \o Repeat(v, n), s, v, n)
PROOF
<1> DEFINE t == Repeat(v, n)
<1>1. t \in Seq(S) /\ Len(t) = n /\ \A i \in 1 .. n : t[i] = v
  BY DEF Repeat
<1> HIDE DEF t
<1>2. s \o t \in Seq(S) /\ Len(s \o t) = Len(s) + n
  BY <1>1, ConcatProperties
<1>3. \A i \in 1 .. Len(s) : (s \o t)[i] = s[i]
  BY <1>1
<1>4. \A i \in Len(s) + 1 .. Len(s) + n : (s \o t)[i] = v
  BY <1>1
<1> QED
  BY <1>2, <1>3, <1>4 DEF t, Longer

\* Tokens of one part, or of the template, keep what was aligned.
LEMMA AddAligned ==
  ASSUME Aligned, NEW owner \in Nat, NEW weight, NEW n \in Nat, AddTokens(owner, weight, n),
         weight = IF owner = Template THEN Unweighted ELSE parts[owner].weight,
         UNCHANGED parts
  PROVE  Aligned'
PROOF
<1>1. PICK S : weights \in Seq(S)
  BY DEF Aligned
<1>2. tokens \in Seq(Nat) /\ Len(tokens) \in Nat /\ Len(weights) = Len(tokens)
  BY DEF Aligned
<1>3. tokens' \in Seq(Nat) /\ Longer(tokens', tokens, owner, n)
  BY <1>2, RepeatAppended DEF AddTokens
<1>4. weights' \in Seq(S \cup {weight}) /\ Longer(weights', weights, weight, n)
  <2>1. weights \in Seq(S \cup {weight}) /\ weight \in S \cup {weight}
    BY <1>1
  <2> QED
    BY <2>1, RepeatAppended DEF AddTokens
<1>5. /\ Len(tokens') = Len(tokens) + n /\ Len(weights') = Len(tokens) + n
      /\ \A i \in 1 .. Len(tokens) : tokens'[i] = tokens[i] /\ weights'[i] = weights[i]
      /\ \A i \in Len(tokens) + 1 .. Len(tokens) + n : tokens'[i] = owner /\ weights'[i] = weight
  BY <1>2, <1>3, <1>4 DEF Longer
<1>6. \A i \in 1 .. Len(tokens') :
        weights'[i] = IF tokens'[i] = Template THEN Unweighted ELSE parts'[tokens'[i]].weight
  <2> TAKE i \in 1 .. Len(tokens')
  <2>1. i \in 1 .. Len(tokens) \/ i \in Len(tokens) + 1 .. Len(tokens) + n
    BY <1>2, <1>5
  <2>2. CASE i \in 1 .. Len(tokens)
    BY <2>2, <1>5 DEF Aligned
  <2>3. CASE i \in Len(tokens) + 1 .. Len(tokens) + n
    BY <2>3, <1>5
  <2> QED
    BY <2>1, <2>2, <2>3
<1> QED
  BY <1>2, <1>3, <1>4, <1>5, <1>6 DEF Aligned

LEMMA TokensInitially == PromptInit => TokensInv
PROOF
  BY DEF PromptInit, TokensInv, TokensAligned

\* Padding is aligned too, and makes up for what is missing to max_length.
LEMMA PadAligns == ASSUME TokensInv, Pad PROVE TokensAligned'
PROOF
<1> DEFINE L == Len(tokens)
           missing == IF L < MaxLength THEN MaxLength - L ELSE 0
<1>1. Aligned /\ promptPc' = "encoded" /\ UNCHANGED parts
  BY DEF Pad, TokensInv
<1>2. PICK S : weights \in Seq(S)
  BY <1>1 DEF Aligned
<1>3. L \in Nat /\ Len(weights) = L /\ missing \in Nat
      /\ L + missing >= MaxLength /\ MaxLength \in Nat
  BY <1>1, PromptAssumption DEF Aligned
<1>4. /\ mask' = Repeat(1, L) \o Repeat(0, missing)
      /\ tokens' = tokens \o Repeat(Padding, missing)
      /\ weights' = weights \o Repeat(Unweighted, missing)
  <2>1. L + missing - Len(weights) = missing
    BY <1>3
  <2> HIDE DEF L
  <2> QED
    BY <2>1 DEF Pad, L
<1> HIDE DEF missing
<1>5. /\ Len(tokens') = L + missing
      /\ \A i \in 1 .. L : tokens'[i] = tokens[i]
      /\ \A i \in L + 1 .. L + missing : tokens'[i] = Padding
  <2>1. tokens \in Seq(Nat \cup {Padding}) /\ Padding \in Nat \cup {Padding}
    BY <1>1 DEF Aligned
  <2>2. Longer(tokens', tokens, Padding, missing)
    BY <1>3, <1>4, <2>1, RepeatAppended
  <2> QED
    BY <2>2 DEF Longer
<1>6. /\ Len(weights') = L + missing
      /\ \A i \in 1 .. L : weights'[i] = weights[i]
      /\ \A i \in L + 1 .. L + missing : weights'[i] = Unweighted
  <2>1. weights \in Seq(S \cup {Unweighted}) /\ Unweighted \in S \cup {Unweighted}
    BY <1>2
  <2>2. Longer(weights', weights, Unweighted, missing)
    BY <1>3, <1>4, <2>1, RepeatAppended
  <2> QED
    BY <1>3, <2>2 DEF Longer
<1>7. /\ Len(mask') = L + missing
      /\ \A i \in 1 .. L : mask'[i] = 1
      /\ \A i \in L + 1 .. L + missing : mask'[i] = 0
  <2> DEFINE ones == Repeat(1, L)
  <2>1. ones \in Seq({0, 1}) /\ Len(ones) = L /\ \A i \in 1 .. L : ones[i] = 1
    BY <1>3 DEF Repeat
  <2> HIDE DEF ones
  <2>2. Longer(ones \o Repeat(0, missing), ones, 0, missing)
    BY <1>3, <2>1, RepeatAppended
  <2>3. mask' = ones \o Repeat(0, missing)
    BY <1>4 DEF ones
  <2> QED
    BY <2>1, <2>2, <2>3 DEF Longer
<1>8. \A i \in 1 .. L : tokens[i] \in Nat /\ tokens[i] # Padding
  BY <1>1, <1>3 DEF Aligned, Padding
<1>9. ASSUME NEW i \in 1 .. Len(tokens')
      PROVE  /\ (mask'[i] = 0) = (tokens'[i] = Padding)
             /\ weights'[i] = IF tokens'[i] \in {Template, Padding} THEN Unweighted
                              ELSE parts'[tokens'[i]].weight
  <2>1. i \in 1 .. L \/ i \in L + 1 .. L + missing
    BY <1>3, <1>5
  <2>2. CASE i \in 1 .. L
    <3>1. mask'[i] = 1 /\ tokens'[i] = tokens[i] /\ tokens[i] # Padding /\ weights'[i] = weights[i]
      BY <2>2, <1>5, <1>6, <1>7, <1>8
    <3>2. weights[i] = IF tokens[i] = Template THEN Unweighted ELSE parts[tokens[i]].weight
      BY <2>2, <1>1 DEF Aligned
    <3> QED
      BY <1>1, <3>1, <3>2
  <2>3. CASE i \in L + 1 .. L + missing
    BY <2>3, <1>5, <1>6, <1>7
  <2> QED
    BY <2>1, <2>2, <2>3
<1>10. Len(tokens') = Len(weights') /\ Len(tokens') = Len(mask') /\ Len(tokens') >= MaxLength
  BY <1>3, <1>5, <1>6, <1>7
<1> QED
  BY <1>9, <1>10 DEF TokensAligned

LEMMA TokensStep == TokensInv /\ [PromptNext]_promptVars => TokensInv'
PROOF
<1> SUFFICES ASSUME TokensInv, [PromptNext]_promptVars PROVE TokensInv'
  OBVIOUS
<1>1. CASE OpenRound \/ OpenSquare \/ CloseWithFactor \/ CloseRound \/ CloseSquare \/ ReadText
  <2>1. /\ promptPc = "reading" /\ promptPc' \in {"reading", "thrown"}
        /\ UNCHANGED <<item, encoding>>
    BY <1>1 DEF OpenRound, OpenSquare, CloseWithFactor, CloseRound, CloseSquare, ReadText, Reads
  <2> QED
    BY <2>1 DEF TokensInv, TokensAligned, encoding
<1>2. CASE CloseOpen
  <2>1. promptPc = "reading" /\ promptPc' \in {"reading", "merging"} /\ UNCHANGED <<item, encoding>>
    BY <1>2 DEF CloseOpen
  <2> QED
    BY <2>1 DEF TokensInv, TokensAligned, encoding
<1>3. CASE MergeParts
  <2>1. /\ promptPc = "merging" /\ promptPc' \in {"merging", "tokenizing"}
        /\ item' \in {0, item, item + 1} /\ UNCHANGED encoding
    BY <1>3 DEF MergeParts
  <2>2. tokens' = <<>> /\ weights' = <<>>
    BY <2>1 DEF TokensInv, encoding
  <2>3. Aligned'
    <3>1. weights' \in Seq({}) /\ tokens' \in Seq(Nat) /\ Len(weights') = 0 /\ Len(tokens') = 0
      BY <2>2
    <3> QED
      BY <3>1 DEF Aligned
  <2> QED
    BY <2>1, <2>2, <2>3 DEF TokensInv, TokensAligned
<1>4. CASE Tokenize
  <2>1. /\ promptPc = "tokenizing" /\ item' = item + 1 /\ UNCHANGED parts
        /\ promptPc' \in {"tokenizing", "padding"} /\ Aligned /\ item \in Nat
    BY <1>4 DEF Tokenize, TokensInv
  <2>2. CASE item = 0
    <3>1. AddTokens(Template, Unweighted, TemplateBefore) /\ TemplateBefore \in Nat
      BY <1>4, <2>2, PromptAssumption DEF Tokenize
    <3>2. Aligned'
      BY <2>1, <3>1, AddAligned DEF Template
    <3> QED
      BY <2>1, <3>2 DEF TokensInv, TokensAligned
  <2>3. CASE item # 0 /\ item > Len(parts)
    <3>1. AddTokens(Template, Unweighted, TemplateAfter) /\ TemplateAfter \in Nat
      BY <1>4, <2>3, PromptAssumption DEF Tokenize
    <3>2. Aligned'
      BY <2>1, <3>1, AddAligned DEF Template
    <3> QED
      BY <2>1, <3>2 DEF TokensInv, TokensAligned
  <2>4. CASE item # 0 /\ ~(item > Len(parts))
    <3>1. PICK n \in IF Blank(parts[item]) THEN {0} ELSE TokenCounts :
                 AddTokens(item, parts[item].weight, n)
      BY <1>4, <2>4 DEF Tokenize
    <3>2. n \in Nat
      BY <3>1, PromptAssumption
    <3>3. Aligned'
      BY <2>1, <2>4, <3>1, <3>2, AddAligned DEF Template
    <3> QED
      BY <2>1, <3>3 DEF TokensInv, TokensAligned
  <2> QED
    BY <2>2, <2>3, <2>4
<1>5. CASE Pad
  <2>1. promptPc' = "encoded" /\ item' = item
    BY <1>5 DEF Pad
  <2> QED
    BY <1>5, <2>1, PadAligns DEF TokensInv
<1>6. CASE PromptEnded \/ UNCHANGED promptVars
  <2>1. UNCHANGED promptVars
    BY <1>6 DEF PromptEnded
  <2> QED
    BY <2>1 DEF promptVars, encoding, TokensInv, Aligned, TokensAligned
<1> QED
  BY <1>1, <1>2, <1>3, <1>4, <1>5, <1>6 DEF PromptNext

\* For every prompt and every number of tokens its parts may have, tokens,
\* weights and mask are of one length and belong together (LLMEmbedder).
THEOREM TokensStayAligned == PromptSpec => []TokensAligned
PROOF
<1>1. TokensInv => TokensAligned
  BY DEF TokensInv
<1> QED
  BY TokensInitially, TokensStep, <1>1, PTL DEF PromptSpec
-----------------------------------------------------------------------------
(* Brackets and weights *)

ClosersOf(b) == IF b = "(" THEN {")", ":w)"} ELSE {"]"}

\* How many more brackets b than closers of b there are from p to q
Excess(b, p, q) == Count({b}, p, q) - Count(ClosersOf(b), p, q)

LEMMA CountOneMore ==
  ASSUME NEW S, NEW p \in Nat, NEW n \in Nat, p <= n + 1
  PROVE  /\ Count(S, p, n) \in Nat
         /\ Count(S, p, n + 1) = Count(S, p, n) + (IF prompt[n + 1] \in S THEN 1 ELSE 0)
PROOF
<1> DEFINE C == {i \in p .. n : prompt[i] \in S}
<1>1. IsFiniteSet(p .. n)
  BY FS_Interval
<1>2. IsFiniteSet(C)
  BY <1>1, FS_Subset
<1>3. Cardinality(C) \in Nat
  BY <1>2, FS_CardinalityType
<1>4. n + 1 \notin C /\ p .. n + 1 = (p .. n) \cup {n + 1}
  OBVIOUS
<1>5. CASE prompt[n + 1] \in S
  <2>1. {i \in p .. n + 1 : prompt[i] \in S} = C \cup {n + 1}
    BY <1>4, <1>5
  <2>2. Cardinality(C \cup {n + 1}) = Cardinality(C) + 1
    BY <1>2, <1>4, FS_AddElement
  <2> QED
    BY <1>3, <1>5, <2>1, <2>2 DEF Count
<1>6. CASE prompt[n + 1] \notin S
  <2>1. {i \in p .. n + 1 : prompt[i] \in S} = C
    BY <1>4, <1>6
  <2>2. Count(S, p, n + 1) = Cardinality(C) /\ Count(S, p, n) = Cardinality(C)
    BY <2>1 DEF Count
  <2> QED
    BY <1>3, <1>6, <2>2
<1> QED
  BY <1>5, <1>6

LEMMA CountNone == ASSUME NEW S, NEW p \in Nat \ {0} PROVE Count(S, p, p - 1) = 0
PROOF
<1>1. {i \in p .. p - 1 : prompt[i] \in S} = {}
  OBVIOUS
<1> QED
  BY <1>1, FS_EmptySet DEF Count

\* With each piece the excess goes up, down, or neither.
LEMMA ExcessOneMore ==
  ASSUME NEW b \in {"(", "["}, NEW p \in Nat \ {0}, NEW n \in Nat, p <= n + 1
  PROVE  /\ Excess(b, p, n) \in Int
         /\ prompt[n + 1] = b => Excess(b, p, n + 1) = Excess(b, p, n) + 1
         /\ prompt[n + 1] \in ClosersOf(b) => Excess(b, p, n + 1) = Excess(b, p, n) - 1
         /\ prompt[n + 1] \notin {b} \cup ClosersOf(b) => Excess(b, p, n + 1) = Excess(b, p, n)
PROOF
<1>1. b \notin ClosersOf(b)
  BY DEF ClosersOf
<1>2. /\ Count({b}, p, n) \in Nat /\ Count(ClosersOf(b), p, n) \in Nat
      /\ Count({b}, p, n + 1) = Count({b}, p, n) + (IF prompt[n + 1] \in {b} THEN 1 ELSE 0)
      /\ Count(ClosersOf(b), p, n + 1) =
           Count(ClosersOf(b), p, n) + (IF prompt[n + 1] \in ClosersOf(b) THEN 1 ELSE 0)
  BY CountOneMore
<1> QED
  BY <1>1, <1>2 DEF Excess

LEMMA ExcessOfOne ==
  ASSUME NEW b \in {"(", "["}, NEW p \in Nat \ {0}, prompt[p] = b
  PROVE  Excess(b, p, p) = 1
PROOF
<1>1. Excess(b, p, p - 1) = 0
  BY CountNone DEF Excess
<1>2. p - 1 \in Nat /\ (p - 1) + 1 = p
  OBVIOUS
<1>3. Excess(b, p, (p - 1) + 1) = Excess(b, p, p - 1) + 1
  BY <1>2, ExcessOneMore
<1> QED
  BY <1>1, <1>2, <1>3

\* A bracket is open while its excess is positive, and closed where it is zero.
LEMMA OpenIs ==
  ASSUME NEW b \in {"(", "["}, NEW p \in Nat \ {0}, NEW i \in Nat, prompt[p] = b
  PROVE  /\ Open(p, i) <=> p < i /\ \A q \in p .. i - 1 : Excess(b, p, q) > 0
         /\ Closes(p, i) <=> Open(p, i) /\ prompt[i] \in ClosersOf(b) /\ Excess(b, p, i) = 0
PROOF
<1>1. ASSUME NEW q \in Nat, p <= q
      PROVE  /\ Count({prompt[p]}, p, q) = Count({b}, p, q)
             /\ Count(Closers(p), p, q) = Count(ClosersOf(b), p, q)
             /\ Count({b}, p, q) \in Nat /\ Count(ClosersOf(b), p, q) \in Nat
  BY <1>1, CountOneMore DEF Closers, ClosersOf
<1>2. \A q \in p .. i - 1 : q \in Nat /\ p <= q
  OBVIOUS
<1>3. Open(p, i) <=> p < i /\ \A q \in p .. i - 1 : Excess(b, p, q) > 0
  BY <1>1, <1>2 DEF Open, Excess
<1>4. Closers(p) = ClosersOf(b)
  BY DEF Closers, ClosersOf
<1>5. ASSUME Open(p, i)
      PROVE  Count({prompt[p]}, p, i) = Count(Closers(p), p, i) <=> Excess(b, p, i) = 0
  <2>1. p <= i
    BY <1>5 DEF Open
  <2> QED
    BY <1>1, <2>1 DEF Excess
<1> QED
  BY <1>3, <1>4, <1>5 DEF Closes

\* Once closed, a bracket is never open again, and closed once only.
LEMMA ClosedOnce ==
  ASSUME NEW p \in Nat \ {0}, NEW q \in Nat, NEW i \in Nat, Closes(p, q), q < i
  PROVE  ~Open(p, i) /\ ~Closes(p, i)
PROOF
<1>1. prompt[p] \in {"(", "["} /\ p < q
  BY DEF Closes, Open
<1> DEFINE b == prompt[p]
<1> HIDE DEF b
<1>2. Excess(b, p, q) = 0
  BY <1>1, OpenIs DEF b
<1>3. ~Open(p, i)
  BY <1>1, <1>2, OpenIs DEF b
<1> QED
  BY <1>3 DEF Closes

LEMMA OpenBefore ==
  ASSUME NEW p \in Nat \ {0}, NEW i \in Nat, NEW j \in Nat, Open(p, i), p < j, j <= i
  PROVE  Open(p, j)
PROOF
  BY DEF Open

LEMMA Popped ==
  ASSUME NEW S, NEW s \in Seq(S), s # <<>>
  PROVE  /\ Pop(s) \in Seq(S) /\ Len(Pop(s)) = Len(s) - 1 /\ Len(s) \in Nat \ {0}
         /\ \A k \in 1 .. Len(s) - 1 : Pop(s)[k] = s[k]
PROOF
<1> DEFINE m == Len(s) - 1
           r == SubSeq(s, 1, m)
<1>1. Len(s) \in Nat \ {0} /\ m \in Nat /\ 1 \in Int /\ m \in Int
  OBVIOUS
<1>2. \A i \in 1 .. m : s[i] \in S
  BY <1>1
<1> HIDE DEF m
<1>3. /\ r \in Seq(S) /\ Len(r) = (IF 1 <= m THEN m - 1 + 1 ELSE 0)
      /\ \A i \in 1 .. m - 1 + 1 : r[i] = s[1 + i - 1]
  BY <1>1, <1>2, SubSeqProperties
<1>4. Len(r) = m /\ \A i \in 1 .. m : r[i] = s[i]
  <2>1. m - 1 + 1 = m /\ \A i \in 1 .. m : 1 + i - 1 = i
    BY <1>1
  <2> QED
    BY <1>1, <1>3, <2>1
<1> QED
  BY <1>1, <1>3, <1>4 DEF Pop, m

Members(P) == {P[k] : k \in 1 .. Len(P)}

\* P: where the brackets b that are still to be counted are, among the first n
\* pieces, none of which closes one of them.
Pending(b, P, n) ==
  /\ P \in Seq(1 .. n)
  /\ \A k, l \in 1 .. Len(P) : k < l => P[k] < P[l]
  /\ \A k \in 1 .. Len(P) : prompt[P[k]] = b /\ Open(P[k], n + 1)

\* While the prompt is read they are the ones that are open, each with those
\* after it in excess, and all others are closed.
Matching(b, P, n) ==
  /\ \A k \in 1 .. Len(P) : Excess(b, P[k], n) = Len(P) - k + 1
  /\ \A p \in 1 .. n : prompt[p] = b /\ p \notin Members(P) => \E q \in p .. n : Closes(p, q)

\* A piece that leaves the brackets b as they are
LEMMA NoBracket ==
  ASSUME NEW b \in {"(", "["}, NEW n \in Nat, NEW P, Pending(b, P, n), Matching(b, P, n),
         prompt[n + 1] # b, prompt[n + 1] \in ClosersOf(b) => P = <<>>
  PROVE  /\ Pending(b, P, n + 1) /\ Matching(b, P, n + 1)
         /\ ~\E p \in 1 .. n + 1 : prompt[p] = b /\ Closes(p, n + 1)
PROOF
<1>1. P \in Seq(1 .. n) /\ P \in Seq(1 .. n + 1) /\ Len(P) \in Nat
  BY DEF Pending
<1>2. ASSUME NEW k \in 1 .. Len(P)
      PROVE  /\ Excess(b, P[k], n + 1) = Len(P) - k + 1 /\ Open(P[k], n + 2)
  <2>1. P # <<>> /\ P[k] \in 1 .. n /\ prompt[P[k]] = b /\ Open(P[k], n + 1)
        /\ Excess(b, P[k], n) = Len(P) - k + 1
    BY <1>1 DEF Pending, Matching
  <2> DEFINE p == P[k]
  <2> HIDE DEF p
  <2>2. p \in Nat \ {0} /\ p <= n /\ prompt[p] = b /\ Open(p, n + 1)
    BY <2>1 DEF p
  <2>3. Excess(b, p, n + 1) = Excess(b, p, n) /\ Excess(b, p, n) > 0
    <3>1. prompt[n + 1] \notin {b} \cup ClosersOf(b) /\ p <= n + 1
      BY <2>1, <2>2
    <3>2. Excess(b, p, n + 1) = Excess(b, p, n)
      BY <2>2, <3>1, ExcessOneMore
    <3>3. Excess(b, p, n) = Len(P) - k + 1
      BY <2>1 DEF p
    <3> QED
      BY <1>1, <3>2, <3>3
  <2>4. Open(p, n + 2)
    <3>1. \A q \in p .. n : Excess(b, p, q) > 0
      BY <2>2, OpenIs
    <3>2. \A q \in p .. n + 1 : Excess(b, p, q) > 0
      BY <2>3, <3>1
    <3>3. n + 2 \in Nat /\ (n + 2) - 1 = n + 1
      OBVIOUS
    <3> QED
      BY <2>2, <3>2, <3>3, OpenIs
  <2> QED
    BY <2>1, <2>3, <2>4 DEF p
<1>3. Pending(b, P, n + 1)
  <2>1. (n + 1) + 1 = n + 2
    OBVIOUS
  <2> QED
    BY <1>1, <1>2, <2>1 DEF Pending
<1>4. ASSUME NEW p \in 1 .. n + 1, prompt[p] = b, p \notin Members(P)
      PROVE  /\ \E q \in p .. n + 1 : Closes(p, q)
             /\ ~Closes(p, n + 1)
  <2>1. p \in 1 .. n
    BY <1>4
  <2>2. PICK q \in p .. n : Closes(p, q)
    BY <1>4, <2>1 DEF Matching
  <2>3. ~Closes(p, n + 1)
    BY <2>1, <2>2, ClosedOnce
  <2> QED
    BY <2>1, <2>2, <2>3
<1>5. Matching(b, P, n + 1)
  BY <1>2, <1>4 DEF Matching
<1>6. ASSUME NEW p \in 1 .. n + 1, prompt[p] = b, Closes(p, n + 1) PROVE FALSE
  <2>1. prompt[n + 1] \in ClosersOf(b)
    BY <1>6, OpenIs
  <2>2. Members(P) = {}
    BY <2>1 DEF Members
  <2> QED
    BY <1>4, <1>6, <2>2
<1> QED
  BY <1>3, <1>5, <1>6

\* A bracket is opened.
LEMMA BracketOpened ==
  ASSUME NEW b \in {"(", "["}, NEW n \in Nat, NEW P, Pending(b, P, n), Matching(b, P, n),
         prompt[n + 1] = b
  PROVE  /\ Pending(b, Append(P, n + 1), n + 1) /\ Matching(b, Append(P, n + 1), n + 1)
PROOF
<1> DEFINE R == Append(P, n + 1)
           m == Len(P)
<1>1. P \in Seq(1 .. n) /\ P \in Seq(1 .. n + 1) /\ m \in Nat
  BY DEF Pending
<1>2. /\ R \in Seq(1 .. n + 1) /\ Len(R) = m + 1 /\ R[m + 1] = n + 1
      /\ \A k \in 1 .. m : R[k] = P[k]
  BY <1>1
<1> HIDE DEF R, m
<1>3. ASSUME NEW k \in 1 .. m
      PROVE  /\ P[k] \in 1 .. n /\ prompt[P[k]] = b
             /\ Excess(b, P[k], n + 1) = m - k + 2 /\ Open(P[k], n + 2)
  <2>1. P[k] \in 1 .. n /\ prompt[P[k]] = b /\ Open(P[k], n + 1) /\ Excess(b, P[k], n) = m - k + 1
    BY <1>1 DEF Pending, Matching, m
  <2> DEFINE p == P[k]
  <2> HIDE DEF p
  <2>2. p \in Nat \ {0} /\ p <= n /\ prompt[p] = b /\ Open(p, n + 1) /\ Excess(b, p, n) = m - k + 1
    BY <2>1 DEF p
  <2>3. Excess(b, p, n + 1) = m - k + 2
    <3>1. p <= n + 1
      BY <2>2
    <3>2. Excess(b, p, n + 1) = Excess(b, p, n) + 1
      BY <2>2, <3>1, ExcessOneMore
    <3> QED
      BY <1>1, <2>2, <3>2
  <2>4. Open(p, n + 2)
    <3>1. \A q \in p .. n : Excess(b, p, q) > 0
      BY <2>2, OpenIs
    <3>2. \A q \in p .. n + 1 : Excess(b, p, q) > 0
      BY <1>1, <2>3, <3>1
    <3>3. n + 2 \in Nat /\ (n + 2) - 1 = n + 1
      OBVIOUS
    <3> QED
      BY <2>2, <3>2, <3>3, OpenIs
  <2> QED
    BY <2>1, <2>3, <2>4 DEF p
<1>4. Excess(b, n + 1, n + 1) = 1 /\ Open(n + 1, n + 2)
  <2>1. n + 1 \in Nat \ {0} /\ n + 2 \in Nat /\ (n + 2) - 1 = n + 1
    OBVIOUS
  <2>2. Excess(b, n + 1, n + 1) = 1
    BY <2>1, ExcessOfOne
  <2>3. \A q \in n + 1 .. n + 1 : Excess(b, n + 1, q) > 0
    BY <2>2
  <2> QED
    BY <2>1, <2>2, <2>3, OpenIs
<1>5. ASSUME NEW k \in 1 .. Len(R)
      PROVE  /\ prompt[R[k]] = b /\ Open(R[k], (n + 1) + 1)
             /\ Excess(b, R[k], n + 1) = Len(R) - k + 1
  <2>1. (n + 1) + 1 = n + 2
    OBVIOUS
  <2>2. CASE k \in 1 .. m
    <3>1. Len(R) - k + 1 = m - k + 2 /\ R[k] = P[k]
      BY <1>1, <1>2, <2>2
    <3> QED
      BY <1>3, <2>1, <2>2, <3>1
  <2>3. CASE k = m + 1
    <3>1. Len(R) - k + 1 = 1 /\ R[k] = n + 1
      BY <1>1, <1>2, <2>3
    <3> QED
      BY <1>4, <2>1, <3>1
  <2> QED
    BY <1>1, <1>2, <2>2, <2>3
<1>6. \A k, l \in 1 .. Len(R) : k < l => R[k] < R[l]
  <2> SUFFICES ASSUME NEW k \in 1 .. Len(R), NEW l \in 1 .. Len(R), k < l PROVE R[k] < R[l]
    OBVIOUS
  <2>1. k \in 1 .. m /\ (l \in 1 .. m \/ l = m + 1)
    BY <1>1, <1>2
  <2>2. R[k] = P[k] /\ P[k] \in 1 .. n
    BY <1>2, <1>3, <2>1
  <2>3. CASE l \in 1 .. m
    BY <1>2, <2>1, <2>2, <2>3 DEF Pending, m
  <2>4. CASE l = m + 1
    BY <1>2, <2>2, <2>4
  <2> QED
    BY <2>1, <2>3, <2>4
<1>7. Pending(b, R, n + 1)
  BY <1>2, <1>5, <1>6 DEF Pending
<1>8. Members(R) = Members(P) \cup {n + 1}
  <2>1. 1 .. m + 1 = (1 .. m) \cup {m + 1}
    BY <1>1
  <2>2. Members(R) = {R[k] : k \in 1 .. m} \cup {R[m + 1]}
    BY <1>2, <2>1 DEF Members
  <2>3. {R[k] : k \in 1 .. m} = Members(P)
    BY <1>2 DEF Members, m
  <2> QED
    BY <1>2, <2>2, <2>3
<1>9. ASSUME NEW p \in 1 .. n + 1, prompt[p] = b, p \notin Members(R)
      PROVE  \E q \in p .. n + 1 : Closes(p, q)
  <2>1. p \in 1 .. n /\ p \notin Members(P)
    BY <1>8, <1>9
  <2> QED
    BY <1>9, <2>1 DEF Matching
<1>10. Matching(b, R, n + 1)
  BY <1>5, <1>9 DEF Matching
<1> QED
  BY <1>7, <1>10 DEF R

\* The last bracket that was opened is closed.
LEMMA BracketClosed ==
  ASSUME NEW b \in {"(", "["}, NEW n \in Nat, NEW P, Pending(b, P, n), Matching(b, P, n),
         prompt[n + 1] \in ClosersOf(b), P # <<>>
  PROVE  /\ Pending(b, Pop(P), n + 1) /\ Matching(b, Pop(P), n + 1)
         /\ Members(Pop(P)) = Members(P) \ {Top(P)} /\ Top(P) \in Members(P)
         /\ Closes(Top(P), n + 1)
PROOF
<1> DEFINE R == Pop(P)
           m == Len(P)
           t == P[m]
<1>1. P \in Seq(1 .. n) /\ P \in Seq(1 .. n + 1) /\ m \in Nat \ {0}
  BY DEF Pending
<1>2. R \in Seq(1 .. n + 1) /\ Len(R) = m - 1 /\ \A k \in 1 .. m - 1 : R[k] = P[k]
  BY <1>1, Popped
<1>3. prompt[n + 1] # b
  BY DEF ClosersOf
<1> HIDE DEF R, m
<1>4. ASSUME NEW k \in 1 .. m
      PROVE  /\ P[k] \in 1 .. n /\ prompt[P[k]] = b /\ Open(P[k], n + 1)
             /\ Excess(b, P[k], n + 1) = m - k
             /\ k < m => Open(P[k], n + 2)
  <2>1. P[k] \in 1 .. n /\ prompt[P[k]] = b /\ Open(P[k], n + 1) /\ Excess(b, P[k], n) = m - k + 1
    BY <1>1 DEF Pending, Matching, m
  <2> DEFINE p == P[k]
  <2> HIDE DEF p
  <2>2. p \in Nat \ {0} /\ p <= n /\ prompt[p] = b /\ Open(p, n + 1) /\ Excess(b, p, n) = m - k + 1
    BY <2>1 DEF p
  <2>3. Excess(b, p, n + 1) = m - k
    <3>1. p <= n + 1
      BY <2>2
    <3>2. Excess(b, p, n + 1) = Excess(b, p, n) - 1
      BY <2>2, <3>1, ExcessOneMore
    <3> QED
      BY <1>1, <2>2, <3>2
  <2>4. ASSUME k < m PROVE Open(p, n + 2)
    <3>1. \A q \in p .. n : Excess(b, p, q) > 0
      BY <2>2, OpenIs
    <3>2. \A q \in p .. n + 1 : Excess(b, p, q) > 0
      BY <1>1, <2>3, <2>4, <3>1
    <3>3. n + 2 \in Nat /\ (n + 2) - 1 = n + 1
      OBVIOUS
    <3> QED
      BY <2>2, <3>2, <3>3, OpenIs
  <2> QED
    BY <2>1, <2>3, <2>4 DEF p
<1>5. m \in 1 .. m /\ t \in 1 .. n /\ prompt[t] = b /\ Open(t, n + 1) /\ Excess(b, t, n + 1) = 0
  <2>1. m \in 1 .. m /\ m - m = 0
    BY <1>1
  <2> QED
    BY <1>4, <2>1
<1>6. Closes(t, n + 1)
  <2>1. t \in Nat \ {0} /\ n + 1 \in Nat
    BY <1>5
  <2> QED
    BY <1>5, <2>1, OpenIs
<1> HIDE DEF t
<1>7. Members(R) = Members(P) \ {t} /\ t \in Members(P)
  <2>1. \A k \in 1 .. m - 1 : P[k] # t
    <3> TAKE k \in 1 .. m - 1
    <3>1. k \in 1 .. m /\ m \in 1 .. m /\ k < m
      BY <1>1
    <3>2. P[k] < P[m] /\ P[k] \in 1 .. n /\ P[m] \in 1 .. n
      BY <1>4, <3>1 DEF Pending, m
    <3> QED
      BY <3>2 DEF t
  <2>2. 1 .. m = (1 .. m - 1) \cup {m}
    BY <1>1
  <2>3. Members(P) = {P[k] : k \in 1 .. m - 1} \cup {t}
    BY <2>2 DEF Members, m, t
  <2>4. Members(R) = {P[k] : k \in 1 .. m - 1}
    BY <1>2 DEF Members
  <2> QED
    BY <2>1, <2>3, <2>4
<1>8. ASSUME NEW k \in 1 .. Len(R)
      PROVE  /\ prompt[R[k]] = b /\ Open(R[k], (n + 1) + 1)
             /\ Excess(b, R[k], n + 1) = Len(R) - k + 1
  <2>1. k \in 1 .. m /\ k < m /\ R[k] = P[k] /\ Len(R) - k + 1 = m - k
    BY <1>1, <1>2
  <2>2. (n + 1) + 1 = n + 2
    OBVIOUS
  <2> QED
    BY <1>4, <2>1, <2>2
<1>9. \A k, l \in 1 .. Len(R) : k < l => R[k] < R[l]
  <2> SUFFICES ASSUME NEW k \in 1 .. Len(R), NEW l \in 1 .. Len(R), k < l PROVE R[k] < R[l]
    OBVIOUS
  <2>1. k \in 1 .. m /\ l \in 1 .. m /\ R[k] = P[k] /\ R[l] = P[l]
    BY <1>1, <1>2
  <2> QED
    BY <2>1 DEF Pending, m
<1>10. Pending(b, R, n + 1)
  BY <1>2, <1>8, <1>9 DEF Pending
<1>11. ASSUME NEW p \in 1 .. n + 1, prompt[p] = b, p \notin Members(R)
       PROVE  \E q \in p .. n + 1 : Closes(p, q)
  <2>1. p \in 1 .. n
    BY <1>3, <1>11
  <2>2. CASE p = t
    BY <1>6, <2>1, <2>2
  <2>3. CASE p # t
    <3>1. p \notin Members(P)
      BY <1>7, <1>11, <2>3
    <3> QED
      BY <1>11, <2>1, <3>1 DEF Matching
  <2> QED
    BY <2>2, <2>3
<1>12. Matching(b, R, n + 1)
  BY <1>8, <1>11 DEF Matching
<1>13. Top(P) = t
  BY DEF Top, t, m
<1> QED
  BY <1>6, <1>7, <1>10, <1>12, <1>13 DEF R

\* The weight piece i has so far, when the round brackets R and the square ones
\* Q are still to be counted
Weighted(i, R, Q) ==
  [power |-> Cardinality({p \in Enclosing("(", i) \ R : ~ByFactor(p)})
               - Cardinality(Enclosing("[", i) \ Q),
   factors |-> Cardinality({p \in Enclosing("(", i) \ R : ByFactor(p)}),
   sign |-> IF prompt[i] = "BREAK" THEN -1 ELSE 1]

TallySet == [power : Int, factors : Int, sign : Int]

WeightSet == [by : Seq(Int), sign : Int]

\* Tally w with so many more powers of 1.1, and so many more factors
Heavier(w, power, factors) ==
  [power |-> w.power + power, factors |-> w.factors + factors, sign |-> w.sign]

LEMMA EnclosingFinite ==
  ASSUME NEW b, NEW i \in Nat, NEW R
  PROVE  /\ IsFiniteSet(Enclosing(b, i) \ R)
         /\ Cardinality(Enclosing(b, i) \ R) \in Nat
         /\ IsFiniteSet({p \in Enclosing(b, i) \ R : ByFactor(p)})
         /\ Cardinality({p \in Enclosing(b, i) \ R : ByFactor(p)}) \in Nat
         /\ IsFiniteSet({p \in Enclosing(b, i) \ R : ~ByFactor(p)})
         /\ Cardinality({p \in Enclosing(b, i) \ R : ~ByFactor(p)}) \in Nat
PROOF
<1> DEFINE E == Enclosing(b, i) \ R
<1>1. IsFiniteSet(1 .. i)
  BY FS_Interval
<1>2. E \subseteq 1 .. i
  BY DEF Enclosing
<1>3. IsFiniteSet(E)
  BY <1>1, <1>2, FS_Subset
<1> HIDE DEF E
<1>4. IsFiniteSet({p \in E : ByFactor(p)}) /\ IsFiniteSet({p \in E : ~ByFactor(p)})
  BY <1>3, FS_Subset
<1>5. /\ Cardinality(E) \in Nat /\ Cardinality({p \in E : ByFactor(p)}) \in Nat
      /\ Cardinality({p \in E : ~ByFactor(p)}) \in Nat
  BY <1>3, <1>4, FS_CardinalityType
<1> QED
  BY <1>3, <1>4, <1>5 DEF E

LEMMA WeightedType == ASSUME NEW i \in Nat, NEW R, NEW Q PROVE Weighted(i, R, Q) \in TallySet
PROOF
<1>1. /\ Cardinality({p \in Enclosing("(", i) \ R : ~ByFactor(p)}) \in Nat
      /\ Cardinality({p \in Enclosing("(", i) \ R : ByFactor(p)}) \in Nat
      /\ Cardinality(Enclosing("[", i) \ Q) \in Nat
  BY EnclosingFinite
<1> QED
  BY <1>1 DEF Weighted, TallySet

\* A round bracket less is to be counted.
LEMMA RoundCounted ==
  ASSUME NEW i \in Nat, NEW R, NEW Q, NEW t \in R
  PROVE  Weighted(i, R \ {t}, Q) =
           IF t \notin Enclosing("(", i) THEN Weighted(i, R, Q)
           ELSE IF ByFactor(t) THEN Heavier(Weighted(i, R, Q), 0, 1)
           ELSE Heavier(Weighted(i, R, Q), 1, 0)
PROOF
<1> DEFINE E == Enclosing("(", i)
           byFactor(T) == {p \in E \ T : ByFactor(p)}
           byOne(T) == {p \in E \ T : ~ByFactor(p)}
           c == Cardinality(Enclosing("[", i) \ Q)
           s == IF prompt[i] = "BREAK" THEN -1 ELSE 1
<1>1. \A T : Weighted(i, T, Q) =
        [power |-> Cardinality(byOne(T)) - c, factors |-> Cardinality(byFactor(T)), sign |-> s]
  BY DEF Weighted
<1>2. /\ IsFiniteSet(byFactor(R)) /\ IsFiniteSet(byOne(R)) /\ c \in Nat
      /\ Cardinality(byFactor(R)) \in Nat /\ Cardinality(byOne(R)) \in Nat
  BY EnclosingFinite
<1> HIDE DEF E, c, s
<1>3. CASE t \notin E
  <2>1. byFactor(R \ {t}) = byFactor(R) /\ byOne(R \ {t}) = byOne(R)
    BY <1>3
  <2> HIDE DEF byFactor, byOne
  <2> QED
    BY <1>1, <1>3, <2>1 DEF E
<1>4. CASE t \in E /\ ByFactor(t)
  <2>1. /\ byFactor(R \ {t}) = byFactor(R) \cup {t} /\ byOne(R \ {t}) = byOne(R)
        /\ t \notin byFactor(R)
    BY <1>4
  <2> HIDE DEF byFactor, byOne
  <2>2. Cardinality(byFactor(R) \cup {t}) = Cardinality(byFactor(R)) + 1
    BY <1>2, <2>1, FS_AddElement
  <2>3. /\ Cardinality(byOne(R \ {t})) - c = (Cardinality(byOne(R)) - c) + 0
        /\ Cardinality(byFactor(R \ {t})) = Cardinality(byFactor(R)) + 1
    BY <1>2, <2>1, <2>2
  <2>4. Weighted(i, R \ {t}, Q) =
          [power |-> (Cardinality(byOne(R)) - c) + 0, factors |-> Cardinality(byFactor(R)) + 1, sign |-> s]
    BY <1>1, <2>3
  <2> QED
    BY <1>1, <1>4, <2>4 DEF E, Heavier
<1>5. CASE t \in E /\ ~ByFactor(t)
  <2>1. /\ byFactor(R \ {t}) = byFactor(R) /\ byOne(R \ {t}) = byOne(R) \cup {t}
        /\ t \notin byOne(R)
    BY <1>5
  <2> HIDE DEF byFactor, byOne
  <2>2. Cardinality(byOne(R) \cup {t}) = Cardinality(byOne(R)) + 1
    BY <1>2, <2>1, FS_AddElement
  <2>3. /\ Cardinality(byOne(R \ {t})) - c = (Cardinality(byOne(R)) - c) + 1
        /\ Cardinality(byFactor(R \ {t})) = Cardinality(byFactor(R)) + 0
    BY <1>2, <2>1, <2>2
  <2>4. Weighted(i, R \ {t}, Q) =
          [power |-> (Cardinality(byOne(R)) - c) + 1, factors |-> Cardinality(byFactor(R)) + 0, sign |-> s]
    BY <1>1, <2>3
  <2> QED
    BY <1>1, <1>5, <2>4 DEF E, Heavier
<1> QED
  BY <1>3, <1>4, <1>5 DEF E

\* A square bracket less
LEMMA SquareCounted ==
  ASSUME NEW i \in Nat, NEW R, NEW Q, NEW t \in Q
  PROVE  Weighted(i, R, Q \ {t}) =
           IF t \notin Enclosing("[", i) THEN Weighted(i, R, Q)
           ELSE Heavier(Weighted(i, R, Q), -1, 0)
PROOF
<1> DEFINE E == Enclosing("[", i)
           left(T) == E \ T
           a == Cardinality({p \in Enclosing("(", i) \ R : ~ByFactor(p)})
           f == Cardinality({p \in Enclosing("(", i) \ R : ByFactor(p)})
           s == IF prompt[i] = "BREAK" THEN -1 ELSE 1
<1>1. \A T : Weighted(i, R, T) = [power |-> a - Cardinality(left(T)), factors |-> f, sign |-> s]
  BY DEF Weighted
<1>2. IsFiniteSet(left(Q)) /\ Cardinality(left(Q)) \in Nat /\ a \in Nat /\ f \in Nat
  BY EnclosingFinite
<1> HIDE DEF E, a, f, s
<1>3. CASE t \notin E
  <2>1. left(Q \ {t}) = left(Q)
    BY <1>3
  <2> HIDE DEF left
  <2> QED
    BY <1>1, <1>3, <2>1 DEF E
<1>4. CASE t \in E
  <2>1. left(Q \ {t}) = left(Q) \cup {t} /\ t \notin left(Q)
    BY <1>4
  <2> HIDE DEF left
  <2>2. Cardinality(left(Q) \cup {t}) = Cardinality(left(Q)) + 1
    BY <1>2, <2>1, FS_AddElement
  <2>3. a - Cardinality(left(Q \ {t})) = (a - Cardinality(left(Q))) + (-1) /\ f = f + 0
    <3>1. Cardinality(left(Q \ {t})) = Cardinality(left(Q)) + 1
      BY <2>1, <2>2
    <3>2. \A c \in Nat : a - (c + 1) = (a - c) + (-1)
      BY <1>2
    <3> QED
      BY <1>2, <3>1, <3>2
  <2>4. Weighted(i, R, Q \ {t}) =
          [power |-> (a - Cardinality(left(Q))) + (-1), factors |-> f + 0, sign |-> s]
    BY <1>1, <2>3
  <2> QED
    BY <1>1, <1>4, <2>4 DEF E, Heavier
<1> QED
  BY <1>3, <1>4 DEF E

\* A piece of text starts with no weight, and a bracket that is opened after it
\* does not enclose it.
LEMMA WeightedFirst ==
  ASSUME NEW i \in Nat, NEW R, NEW Q, Enclosing("(", i) \subseteq R, Enclosing("[", i) \subseteq Q
  PROVE  Weighted(i, R, Q) = [power |-> 0, factors |-> 0, sign |-> IF prompt[i] = "BREAK" THEN -1 ELSE 1]
PROOF
<1>1. /\ {p \in Enclosing("(", i) \ R : ~ByFactor(p)} = {}
      /\ {p \in Enclosing("(", i) \ R : ByFactor(p)} = {} /\ Enclosing("[", i) \ Q = {}
  OBVIOUS
<1>2. Weighted(i, R, Q) =
        [power |-> Cardinality({}) - Cardinality({}), factors |-> Cardinality({}),
         sign |-> IF prompt[i] = "BREAK" THEN -1 ELSE 1]
  BY <1>1, Zenon DEF Weighted
<1>3. Cardinality({}) = 0 /\ 0 - 0 = 0
  BY FS_EmptySet
<1> QED
  BY <1>2, <1>3

LEMMA WeightedLater ==
  ASSUME NEW i \in Nat, NEW t \in Nat, t > i, NEW R, NEW Q
  PROVE  Weighted(i, R \cup {t}, Q) = Weighted(i, R, Q) /\ Weighted(i, R, Q \cup {t}) = Weighted(i, R, Q)
PROOF
<1>1. t \notin Enclosing("(", i) /\ t \notin Enclosing("[", i)
  BY DEF Enclosing
<1>2. /\ Enclosing("(", i) \ (R \cup {t}) = Enclosing("(", i) \ R
      /\ Enclosing("[", i) \ (Q \cup {t}) = Enclosing("[", i) \ Q
  BY <1>1
<1> QED
  BY <1>2 DEF Weighted

\* Which of the two closers it was
LEMMA ClosedByFactor ==
  ASSUME NEW p \in Nat \ {0}, NEW r \in Nat, Closes(p, r), Len(prompt) \in Nat, r <= Len(prompt)
  PROVE  ByFactor(p) <=> prompt[r] = ":w)"
PROOF
<1>1. p < r
  BY DEF Closes, Open
<1>2. ASSUME prompt[r] = ":w)" PROVE ByFactor(p)
  <2>1. r \in p .. Len(prompt)
    BY <1>1
  <2> QED
    BY <1>2, <2>1 DEF ByFactor
<1>3. ASSUME ByFactor(p) PROVE prompt[r] = ":w)"
  <2>1. PICK q \in p .. Len(prompt) : prompt[q] = ":w)" /\ Closes(p, q)
    BY <1>3 DEF ByFactor
  <2>2. ~(q < r) /\ ~(r < q)
    BY <2>1, ClosedOnce
  <2> QED
    BY <2>1, <2>2
<1> QED
  BY <1>2, <1>3

LEMMA NeverClosed ==
  ASSUME NEW p \in Nat \ {0}, Len(prompt) \in Nat, Open(p, Len(prompt) + 1)
  PROVE  ~ByFactor(p)
PROOF
<1> SUFFICES ASSUME NEW q \in p .. Len(prompt), Closes(p, q) PROVE FALSE
  BY DEF ByFactor
<1>1. q < Len(prompt) + 1 /\ q \in Nat /\ Len(prompt) + 1 \in Nat
  OBVIOUS
<1> QED
  BY <1>1, ClosedOnce

-----------------------------------------------------------------------------
(* The parts while the prompt is read *)

PartSet == [text : Seq([at : Nat, spelled : Pieces]), weight : WeightSet]

PieceOf(ps, k) == ps[k].text[1].at

\* The parts are the pieces of text among the first n, one each and in order.
TextsRead(ps, n) ==
  /\ ps \in Seq(PartSet)
  /\ \A k \in 1 .. Len(ps) : Len(ps[k].text) = 1 /\ PieceOf(ps, k) \in 1 .. n /\ IsText(PieceOf(ps, k))
  /\ \A k, l \in 1 .. Len(ps) : k < l => PieceOf(ps, k) < PieceOf(ps, l)
  /\ \A i \in 1 .. n : IsText(i) => \E k \in 1 .. Len(ps) : PieceOf(ps, k) = i

\* Each weighs what the brackets do that are not still to be counted.
Weighs(ps, R, Q) ==
  \A k \in 1 .. Len(ps) : Tally(ps[k].weight) = Weighted(PieceOf(ps, k), R, Q)

\* A stack holds, for each bracket to be counted, the first part after it.
Starts(ps, stack, P) ==
  /\ stack \in Seq(Nat) /\ Len(stack) = Len(P)
  /\ \A j \in 1 .. Len(P) : stack[j] <= Len(ps) + 1
  /\ \A j \in 1 .. Len(P), k \in 1 .. Len(ps) : k >= stack[j] <=> PieceOf(ps, k) > P[j]

\* What one more multiplier adds to the tally of a weight
PowerOf(m) == IF m = RoundMultiplier THEN 1 ELSE IF m = SquareMultiplier THEN -1 ELSE 0
FactorsOf(m) == IF m \in Nat THEN 1 ELSE 0

\* The multipliers there are, with one more
LEMMA TimesMore ==
  ASSUME NEW w \in WeightSet, NEW m \in Int, NEW v, v.by = Append(w.by, m), NEW S
  PROVE  /\ Occurrences(w, S) \in Nat
         /\ Occurrences(v, S) = Occurrences(w, S) + (IF m \in S THEN 1 ELSE 0)
PROOF
<1> DEFINE n == Len(w.by)
           old == {k \in DOMAIN w.by : w.by[k] \in S}
           new == {k \in DOMAIN v.by : v.by[k] \in S}
<1>1. w.by \in Seq(Int) /\ n \in Nat /\ DOMAIN w.by = 1 .. n
  BY DEF WeightSet
<1>2. /\ DOMAIN v.by = 1 .. n + 1 /\ v.by[n + 1] = m
      /\ \A k \in 1 .. n : v.by[k] = w.by[k]
  BY <1>1
<1>3. 1 .. n + 1 = (1 .. n) \cup {n + 1} /\ n + 1 \notin 1 .. n
  BY <1>1
<1>4. IsFiniteSet(old)
  <2>1. IsFiniteSet(1 .. n)
    BY <1>1, FS_Interval
  <2> QED
    BY <1>1, <2>1, FS_Subset
<1>5. new = IF m \in S THEN old \cup {n + 1} ELSE old
  BY <1>1, <1>2, <1>3
<1>6. n + 1 \notin old
  BY <1>1, <1>3
<1> HIDE DEF old, new
<1>7. Cardinality(old) \in Nat /\ Cardinality(old \cup {n + 1}) = Cardinality(old) + 1
  BY <1>4, <1>6, FS_CardinalityType, FS_AddElement
<1>8. Occurrences(w, S) = Cardinality(old) /\ Occurrences(v, S) = Cardinality(new)
  BY DEF Occurrences, old, new
<1> QED
  BY <1>5, <1>7, <1>8

LEMMA TallyMore ==
  ASSUME NEW w \in WeightSet, NEW m \in Int, NEW v, v.by = Append(w.by, m), v.sign = w.sign
  PROVE  /\ Tally(w) \in TallySet
         /\ Tally(v) = Heavier(Tally(w), PowerOf(m), FactorsOf(m))
PROOF
<1>1. \A S : /\ Occurrences(w, S) \in Nat
             /\ Occurrences(v, S) = Occurrences(w, S) + (IF m \in S THEN 1 ELSE 0)
  BY TimesMore
<1> DEFINE r == Occurrences(w, {RoundMultiplier})
           s == Occurrences(w, {SquareMultiplier})
           f == Occurrences(w, Nat)
<1>2. r \in Nat /\ s \in Nat /\ f \in Nat
  BY <1>1
<1>3. Tally(w) = [power |-> r - s, factors |-> f, sign |-> w.sign]
  BY DEF Tally
<1>4. /\ Occurrences(v, {RoundMultiplier}) = r + (IF m \in {RoundMultiplier} THEN 1 ELSE 0)
      /\ Occurrences(v, {SquareMultiplier}) = s + (IF m \in {SquareMultiplier} THEN 1 ELSE 0)
      /\ Occurrences(v, Nat) = f + (IF m \in Nat THEN 1 ELSE 0)
  BY <1>1
<1> HIDE DEF r, s, f
<1>5. /\ Occurrences(v, {RoundMultiplier}) - Occurrences(v, {SquareMultiplier}) = (r - s) + PowerOf(m)
      /\ Occurrences(v, Nat) = f + FactorsOf(m)
  BY <1>2, <1>4 DEF PowerOf, FactorsOf, RoundMultiplier, SquareMultiplier
<1>6. Tally(v) = [power |-> (r - s) + PowerOf(m), factors |-> f + FactorsOf(m), sign |-> w.sign]
  BY <1>5 DEF Tally
<1>7. w.sign \in Int
  BY DEF WeightSet
<1> QED
  BY <1>2, <1>3, <1>6, <1>7 DEF Heavier, TallySet

\* The parts, those from the given one on multiplied once more
Multiplied(ps, from, m) ==
  /\ ps \in Seq(PartSet) /\ Len(ps) = Len(parts)
  /\ \A k \in 1 .. Len(parts) :
       /\ ps[k].text = parts[k].text
       /\ ps[k].weight = IF k >= from THEN [parts[k].weight EXCEPT !.by = Append(@, m)]
                         ELSE parts[k].weight
       /\ Tally(ps[k].weight) =
            IF k >= from THEN Heavier(Tally(parts[k].weight), PowerOf(m), FactorsOf(m))
            ELSE Tally(parts[k].weight)

LEMMA MultipliedIs ==
  ASSUME parts \in Seq(PartSet), NEW from \in Nat, NEW m \in Int
  PROVE  Multiplied(MultiplyRange(from, m), from, m)
PROOF
<1> DEFINE ps == MultiplyRange(from, m)
           changed(r) == [r EXCEPT !.weight.by = Append(@, m)]
<1>1. Len(parts) \in Nat /\ \A k \in 1 .. Len(parts) : parts[k] \in PartSet
  OBVIOUS
<1>2. ps = [k \in 1 .. Len(parts) |-> IF k >= from THEN changed(parts[k]) ELSE parts[k]]
  BY DEF MultiplyRange
<1>3. ASSUME NEW r \in PartSet
      PROVE  /\ changed(r) \in PartSet /\ changed(r).text = r.text
             /\ changed(r).weight = [r.weight EXCEPT !.by = Append(@, m)]
             /\ Tally(changed(r).weight) = Heavier(Tally(r.weight), PowerOf(m), FactorsOf(m))
  <2> DEFINE w == r.weight
             v == [w EXCEPT !.by = Append(@, m)]
  <2>1. w \in WeightSet /\ w.by \in Seq(Int) /\ w.sign \in Int
        /\ r.text \in Seq([at : Nat, spelled : Pieces])
    BY DEF PartSet, WeightSet
  <2>2. Append(w.by, m) \in Seq(Int)
    BY <2>1
  <2>3. v = [by |-> Append(w.by, m), sign |-> w.sign]
    <3> DEFINE c == Append(w.by, m)
    <3>1. v = [w EXCEPT !.by = c]
      OBVIOUS
    <3> HIDE DEF c, w, v
    <3>2. [w EXCEPT !.by = c] = [by |-> c, sign |-> w.sign]
      BY <2>1 DEF WeightSet
    <3> QED
      BY <3>1, <3>2 DEF c
  <2>4. v \in WeightSet /\ v.by = Append(w.by, m) /\ v.sign = w.sign
    BY <2>1, <2>2, <2>3 DEF WeightSet
  <2>5. Tally(v) = Heavier(Tally(w), PowerOf(m), FactorsOf(m))
    BY <2>1, <2>4, TallyMore
  <2>6. changed(r) = [text |-> r.text, weight |-> v]
    <3>1. changed(r) = [r EXCEPT !.weight = v]
      OBVIOUS
    <3> HIDE DEF v, changed
    <3>2. [r EXCEPT !.weight = v] = [text |-> r.text, weight |-> v]
      BY DEF PartSet
    <3> QED
      BY <3>1, <3>2
  <2> HIDE DEF v, w, changed
  <2>7. changed(r) \in PartSet /\ changed(r).text = r.text /\ changed(r).weight = v
    BY <2>1, <2>4, <2>6 DEF PartSet
  <2> QED
    BY <2>5, <2>7 DEF v, w
<1> HIDE DEF changed
<1>4. \A k \in 1 .. Len(parts) : ps[k] = IF k >= from THEN changed(parts[k]) ELSE parts[k]
  BY <1>2
<1>5. \A k \in 1 .. Len(parts) :
        /\ ps[k] \in PartSet /\ ps[k].text = parts[k].text
        /\ ps[k].weight = IF k >= from THEN [parts[k].weight EXCEPT !.by = Append(@, m)]
                          ELSE parts[k].weight
        /\ Tally(ps[k].weight) =
             IF k >= from THEN Heavier(Tally(parts[k].weight), PowerOf(m), FactorsOf(m))
             ELSE Tally(parts[k].weight)
  BY <1>1, <1>3, <1>4
<1>6. ps \in Seq(PartSet) /\ Len(ps) = Len(parts)
  <2>1. ps = [k \in 1 .. Len(parts) |-> ps[k]]
    BY <1>2
  <2>2. \A k \in 1 .. Len(parts) : ps[k] \in PartSet
    BY <1>5
  <2> HIDE DEF ps
  <2>3. Len(parts) \in Nat
    BY <1>1
  <2> QED
    BY <2>1, <2>2, <2>3
<1> QED
  BY <1>5, <1>6 DEF Multiplied

\* Where the texts are the same, so is all that is said of them.
LEMMA SameTexts ==
  ASSUME NEW n \in Nat, NEW ps \in Seq(PartSet), NEW old, TextsRead(old, n), Len(ps) = Len(old),
         \A k \in 1 .. Len(old) : ps[k].text = old[k].text
  PROVE  /\ TextsRead(ps, n) /\ \A k \in 1 .. Len(ps) : PieceOf(ps, k) = PieceOf(old, k)
         /\ \A stack, P : Starts(old, stack, P) => Starts(ps, stack, P)
PROOF
<1>1. \A k \in 1 .. Len(ps) : PieceOf(ps, k) = PieceOf(old, k)
  BY DEF PieceOf
<1> QED
  BY <1>1 DEF TextsRead, Starts

\* A piece of text after an open bracket is enclosed by it.
LEMMA EnclosedIs ==
  ASSUME NEW b \in {"(", "["}, NEW n \in Nat, NEW t \in 1 .. n, prompt[t] = b, Open(t, n + 1),
         NEW i \in 1 .. n
  PROVE  t \in Enclosing(b, i) <=> i > t
PROOF
<1>1. t \in Nat \ {0} /\ i \in Nat /\ n + 1 \in Nat /\ i <= n + 1
  OBVIOUS
<1>2. i > t => Open(t, i)
  BY <1>1, OpenBefore
<1>3. i > t => t \in 1 .. i
  BY <1>1
<1>4. Open(t, i) => t < i
  BY DEF Open
<1> QED
  BY <1>2, <1>3, <1>4 DEF Enclosing

\* What the multipliers add
LEMMA Multipliers ==
  /\ RoundMultiplier \in Int /\ PowerOf(RoundMultiplier) = 1 /\ FactorsOf(RoundMultiplier) = 0
  /\ SquareMultiplier \in Int /\ PowerOf(SquareMultiplier) = -1 /\ FactorsOf(SquareMultiplier) = 0
  /\ \A k \in Nat : k \in Int /\ PowerOf(k) = 0 /\ FactorsOf(k) = 1
PROOF
  BY DEF PowerOf, FactorsOf, RoundMultiplier, SquareMultiplier

\* multiply_range counts the bracket at t.
LEMMA RoundWeighs ==
  ASSUME NEW n \in Nat, TextsRead(parts, n), NEW R, NEW Q, Weighs(parts, R, Q),
         NEW t \in R, t \in 1 .. n, prompt[t] = "(", Open(t, n + 1),
         NEW from \in Nat, \A k \in 1 .. Len(parts) : k >= from <=> PieceOf(parts, k) > t,
         NEW m \in Int, IF ByFactor(t) THEN PowerOf(m) = 0 /\ FactorsOf(m) = 1
                        ELSE PowerOf(m) = 1 /\ FactorsOf(m) = 0,
         NEW ps, ps = MultiplyRange(from, m)
  PROVE  Weighs(ps, R \ {t}, Q)
PROOF
<1>1. parts \in Seq(PartSet)
  BY DEF TextsRead
<1>2. /\ Len(ps) = Len(parts)
      /\ \A k \in 1 .. Len(parts) :
           /\ ps[k].text = parts[k].text
           /\ Tally(ps[k].weight) =
                IF k >= from THEN Heavier(Tally(parts[k].weight), PowerOf(m), FactorsOf(m))
                ELSE Tally(parts[k].weight)
  BY <1>1, MultipliedIs DEF Multiplied
<1>3. ASSUME NEW k \in 1 .. Len(parts)
      PROVE  Tally(ps[k].weight) = Weighted(PieceOf(ps, k), R \ {t}, Q)
  <2> DEFINE i == PieceOf(parts, k)
  <2>1. i \in 1 .. n /\ i \in Nat
    BY DEF TextsRead
  <2>2. PieceOf(ps, k) = i
    BY <1>2 DEF PieceOf
  <2>3. Tally(parts[k].weight) = Weighted(i, R, Q)
    BY DEF Weighs
  <2>4. k >= from <=> i > t
    OBVIOUS
  <2> HIDE DEF i
  <2>5. t \in Enclosing("(", i) <=> i > t
    BY <2>1, EnclosedIs
  <2>6. Weighted(i, R \ {t}, Q) =
          IF t \notin Enclosing("(", i) THEN Weighted(i, R, Q)
          ELSE IF ByFactor(t) THEN Heavier(Weighted(i, R, Q), 0, 1)
          ELSE Heavier(Weighted(i, R, Q), 1, 0)
    BY <2>1, RoundCounted
  <2> QED
    BY <1>2, <2>2, <2>3, <2>4, <2>5, <2>6
<1> QED
  BY <1>2, <1>3 DEF Weighs

LEMMA SquareWeighs ==
  ASSUME NEW n \in Nat, TextsRead(parts, n), NEW R, NEW Q, Weighs(parts, R, Q),
         NEW t \in Q, t \in 1 .. n, prompt[t] = "[", Open(t, n + 1),
         NEW from \in Nat, \A k \in 1 .. Len(parts) : k >= from <=> PieceOf(parts, k) > t,
         NEW ps, ps = MultiplyRange(from, SquareMultiplier)
  PROVE  Weighs(ps, R, Q \ {t})
PROOF
<1>1. parts \in Seq(PartSet)
  BY DEF TextsRead
<1>2. /\ Len(ps) = Len(parts)
      /\ \A k \in 1 .. Len(parts) :
           /\ ps[k].text = parts[k].text
           /\ Tally(ps[k].weight) =
                IF k >= from THEN Heavier(Tally(parts[k].weight), -1, 0) ELSE Tally(parts[k].weight)
  <2>1. Multiplied(ps, from, SquareMultiplier)
    BY <1>1, Multipliers, MultipliedIs
  <2> QED
    BY <2>1, Multipliers DEF Multiplied
<1>3. ASSUME NEW k \in 1 .. Len(parts)
      PROVE  Tally(ps[k].weight) = Weighted(PieceOf(ps, k), R, Q \ {t})
  <2> DEFINE i == PieceOf(parts, k)
  <2>1. i \in 1 .. n /\ i \in Nat
    BY DEF TextsRead
  <2>2. PieceOf(ps, k) = i
    BY <1>2 DEF PieceOf
  <2>3. Tally(parts[k].weight) = Weighted(i, R, Q)
    BY DEF Weighs
  <2>4. k >= from <=> i > t
    OBVIOUS
  <2> HIDE DEF i
  <2>5. t \in Enclosing("[", i) <=> i > t
    BY <2>1, EnclosedIs
  <2>6. Weighted(i, R, Q \ {t}) =
          IF t \notin Enclosing("[", i) THEN Weighted(i, R, Q) ELSE Heavier(Weighted(i, R, Q), -1, 0)
    BY <2>1, SquareCounted
  <2> QED
    BY <1>2, <2>2, <2>3, <2>4, <2>5, <2>6
<1> QED
  BY <1>2, <1>3 DEF Weighs

\* After n pieces, with the brackets at P and Q still to be counted
ReadSoFar(ps, openRound, openSquare, n, P, Q) ==
  /\ TextsRead(ps, n)
  /\ Pending("(", P, n) /\ Pending("[", Q, n)
  /\ Starts(ps, openRound, P) /\ Starts(ps, openSquare, Q)
  /\ Weighs(ps, Members(P), Members(Q))

BothMatching(P, Q, n) == Matching("(", P, n) /\ Matching("[", Q, n)

LEMMA NoText ==
  ASSUME NEW n \in Nat, NEW ps, TextsRead(ps, n), ~IsText(n + 1)
  PROVE  TextsRead(ps, n + 1)
PROOF
<1>1. 1 .. n + 1 = (1 .. n) \cup {n + 1}
  OBVIOUS
<1> QED
  BY <1>1 DEF TextsRead

LEMMA StartsPushed ==
  ASSUME NEW n \in Nat, NEW ps, TextsRead(ps, n), NEW stack, NEW P \in Seq(1 .. n), Starts(ps, stack, P)
  PROVE  Starts(ps, Append(stack, Len(ps) + 1), Append(P, n + 1))
PROOF
<1> DEFINE m == Len(P)
           R == Append(P, n + 1)
           new == Append(stack, Len(ps) + 1)
<1>1. m \in Nat /\ Len(R) = m + 1 /\ R[m + 1] = n + 1 /\ \A j \in 1 .. m : R[j] = P[j]
  OBVIOUS
<1>2. Len(ps) \in Nat /\ stack \in Seq(Nat) /\ Len(stack) = m
  BY DEF TextsRead, Starts
<1>3. new \in Seq(Nat) /\ Len(new) = m + 1 /\ new[m + 1] = Len(ps) + 1
      /\ \A j \in 1 .. m : new[j] = stack[j]
  BY <1>1, <1>2
<1> HIDE DEF m, R, new
<1>4. \A j \in 1 .. m : stack[j] <= Len(ps) + 1
  BY DEF Starts, m
<1>5. \A j \in 1 .. m, k \in 1 .. Len(ps) : k >= stack[j] <=> PieceOf(ps, k) > P[j]
  BY DEF Starts, m
<1>6. \A k \in 1 .. Len(ps) : ~(k >= Len(ps) + 1) /\ ~(PieceOf(ps, k) > n + 1)
  <2> TAKE k \in 1 .. Len(ps)
  <2>1. PieceOf(ps, k) \in 1 .. n
    BY DEF TextsRead
  <2> QED
    BY <1>2, <2>1
<1>7. ASSUME NEW j \in 1 .. m + 1
      PROVE  /\ new[j] <= Len(ps) + 1
             /\ \A k \in 1 .. Len(ps) : k >= new[j] <=> PieceOf(ps, k) > R[j]
  <2>1. j \in 1 .. m \/ j = m + 1
    BY <1>1
  <2>2. CASE j \in 1 .. m
    BY <1>1, <1>3, <1>4, <1>5, <2>2
  <2>3. CASE j = m + 1
    BY <1>1, <1>2, <1>3, <1>6, <2>3
  <2> QED
    BY <2>1, <2>2, <2>3
<1> QED
  BY <1>1, <1>3, <1>7 DEF Starts, R, new

LEMMA StartsPopped ==
  ASSUME NEW n \in Nat, NEW ps, TextsRead(ps, n), NEW stack, NEW P \in Seq(1 .. n), Starts(ps, stack, P),
         P # <<>>
  PROVE  /\ Starts(ps, Pop(stack), Pop(P)) /\ Top(stack) \in Nat
         /\ \A k \in 1 .. Len(ps) : k >= Top(stack) <=> PieceOf(ps, k) > Top(P)
PROOF
<1>1. stack \in Seq(Nat) /\ Len(stack) = Len(P)
  BY DEF Starts
<1>2. Len(P) \in Nat \ {0} /\ stack # <<>>
  BY <1>1
<1>3. /\ Pop(P) \in Seq(1 .. n) /\ Len(Pop(P)) = Len(P) - 1
      /\ \A k \in 1 .. Len(P) - 1 : Pop(P)[k] = P[k]
  BY Popped
<1>4. /\ Pop(stack) \in Seq(Nat) /\ Len(Pop(stack)) = Len(P) - 1
      /\ \A k \in 1 .. Len(P) - 1 : Pop(stack)[k] = stack[k]
  <2>1. /\ Pop(stack) \in Seq(Nat) /\ Len(Pop(stack)) = Len(stack) - 1
        /\ \A k \in 1 .. Len(stack) - 1 : Pop(stack)[k] = stack[k]
    BY <1>1, <1>2, Popped
  <2> QED
    BY <1>1, <2>1
<1>5. Len(P) \in 1 .. Len(P) /\ \A j \in 1 .. Len(P) - 1 : j \in 1 .. Len(P)
  BY <1>2
<1>6. Top(stack) = stack[Len(P)] /\ Top(P) = P[Len(P)] /\ Top(stack) \in Nat
  BY <1>1, <1>5 DEF Top
<1>7. \A k \in 1 .. Len(ps) : k >= Top(stack) <=> PieceOf(ps, k) > Top(P)
  BY <1>5, <1>6 DEF Starts
<1>8. Starts(ps, Pop(stack), Pop(P))
  BY <1>3, <1>4, <1>5 DEF Starts
<1> QED
  BY <1>6, <1>7, <1>8

\* A weight without a multiplier
LEMMA NoMultiplier ==
  ASSUME NEW w, w.by = <<>>
  PROVE  Tally(w) = [power |-> 0, factors |-> 0, sign |-> w.sign]
PROOF
<1>1. \A S : Occurrences(w, S) = 0
  <2> TAKE S
  <2>1. {k \in DOMAIN w.by : w.by[k] \in S} = {}
    OBVIOUS
  <2> QED
    BY <2>1, FS_EmptySet, Zenon DEF Occurrences
<1> QED
  BY <1>1 DEF Tally

\* A piece of text becomes a part.
LEMMA TextReads ==
  ASSUME NEW n \in Nat, read = n, NEW P, NEW Q, ReadSoFar(parts, round, square, n, P, Q),
         BothMatching(P, Q, n), IsText(n + 1), prompt[n + 1] \in Pieces
  PROVE  LET ps == Append(parts, Part(prompt[n + 1]))
         IN  TextsRead(ps, n + 1) /\ Starts(ps, round, P) /\ Starts(ps, square, Q)
             /\ Weighs(ps, Members(P), Members(Q))
PROOF
<1> DEFINE new == Part(prompt[n + 1])
           ps == Append(parts, new)
           m == Len(parts)
<1>1. new \in PartSet /\ Len(new.text) = 1 /\ new.text[1].at = n + 1
      /\ Tally(new.weight) = [power |-> 0, factors |-> 0, sign |-> IF prompt[n + 1] = "BREAK" THEN -1 ELSE 1]
  <2>1. Spelled(prompt[n + 1]) \in Pieces
    BY DEF Spelled, Pieces
  <2> DEFINE w == IF prompt[n + 1] = "BREAK" THEN [Unweighted EXCEPT !.sign = -1] ELSE Unweighted
             t == <<[at |-> n + 1, spelled |-> Spelled(prompt[n + 1])]>>
  <2>2. w = [by |-> <<>>, sign |-> IF prompt[n + 1] = "BREAK" THEN -1 ELSE 1]
    BY DEF Unweighted
  <2>3. w \in WeightSet
    <3>1. <<>> \in Seq(Int)
      OBVIOUS
    <3>2. (IF prompt[n + 1] = "BREAK" THEN -1 ELSE 1) \in Int
      OBVIOUS
    <3> HIDE DEF w
    <3> QED
      BY <2>2, <3>1, <3>2 DEF WeightSet
  <2>6. Tally(w) = [power |-> 0, factors |-> 0, sign |-> IF prompt[n + 1] = "BREAK" THEN -1 ELSE 1]
    BY <2>2, NoMultiplier
  <2>4. t \in Seq([at : Nat, spelled : Pieces]) /\ Len(t) = 1 /\ t[1].at = n + 1
    BY <2>1
  <2>5. new = [text |-> t, weight |-> w]
    BY DEF Part
  <2> HIDE DEF w, t, new
  <2> QED
    BY <2>3, <2>4, <2>5, <2>6 DEF PartSet
<1>2. TextsRead(parts, n) /\ parts \in Seq(PartSet) /\ m \in Nat
  BY DEF ReadSoFar, TextsRead
<1> HIDE DEF new
<1>3. /\ ps \in Seq(PartSet) /\ Len(ps) = m + 1 /\ ps[m + 1] = new
      /\ \A k \in 1 .. m : ps[k] = parts[k]
  BY <1>1, <1>2
<1> HIDE DEF ps, m
<1>4. PieceOf(ps, m + 1) = n + 1 /\ \A k \in 1 .. m : PieceOf(ps, k) = PieceOf(parts, k) /\ PieceOf(parts, k) \in 1 .. n
  BY <1>1, <1>2, <1>3 DEF PieceOf, TextsRead, m
<1>5. 1 .. m + 1 = (1 .. m) \cup {m + 1} /\ 1 .. n + 1 = (1 .. n) \cup {n + 1}
  BY <1>2
<1>6. TextsRead(ps, n + 1)
  <2>1. \A k \in 1 .. m + 1 : Len(ps[k].text) = 1 /\ PieceOf(ps, k) \in 1 .. n + 1 /\ IsText(PieceOf(ps, k))
    BY <1>1, <1>2, <1>3, <1>4, <1>5 DEF TextsRead, m
  <2>2. ASSUME NEW k \in 1 .. m + 1, NEW l \in 1 .. m + 1, k < l PROVE PieceOf(ps, k) < PieceOf(ps, l)
    <3>1. k \in 1 .. m /\ (l \in 1 .. m \/ l = m + 1)
      BY <1>2, <2>2
    <3>2. CASE l \in 1 .. m
      BY <1>2, <1>4, <2>2, <3>1, <3>2 DEF TextsRead, m
    <3>3. CASE l = m + 1
      BY <1>4, <3>1, <3>3
    <3> QED
      BY <3>1, <3>2, <3>3
  <2>3. ASSUME NEW i \in 1 .. n + 1, IsText(i) PROVE \E k \in 1 .. m + 1 : PieceOf(ps, k) = i
    <3>1. CASE i \in 1 .. n
      <4>1. PICK k \in 1 .. m : PieceOf(parts, k) = i
        BY <1>2, <2>3, <3>1 DEF TextsRead, m
      <4> QED
        BY <1>4, <1>5, <4>1
    <3>2. CASE i = n + 1
      BY <1>4, <1>5, <3>2
    <3> QED
      BY <1>5, <3>1, <3>2
  <2> QED
    BY <1>3, <2>1, <2>2, <2>3 DEF TextsRead
<1>7. ASSUME NEW stack, NEW R \in Seq(1 .. n), Starts(parts, stack, R)
      PROVE  Starts(ps, stack, R)
  <2>1. /\ stack \in Seq(Nat) /\ Len(stack) = Len(R) /\ Len(R) \in Nat
        /\ \A j \in 1 .. Len(R) : stack[j] \in Nat /\ stack[j] <= m + 1 /\ R[j] \in 1 .. n
        /\ \A j \in 1 .. Len(R), k \in 1 .. m : k >= stack[j] <=> PieceOf(parts, k) > R[j]
    BY <1>7 DEF Starts, m
  <2>2. \A j \in 1 .. Len(R) : stack[j] <= Len(ps) + 1
    BY <1>2, <1>3, <2>1
  <2>3. \A j \in 1 .. Len(R), k \in 1 .. m + 1 : k >= stack[j] <=> PieceOf(ps, k) > R[j]
    <3> TAKE j \in 1 .. Len(R), k \in 1 .. m + 1
    <3>1. CASE k \in 1 .. m
      BY <1>4, <2>1, <3>1
    <3>2. CASE k = m + 1
      BY <1>2, <1>4, <2>1, <3>2
    <3> QED
      BY <1>5, <3>1, <3>2
  <2> QED
    BY <1>3, <2>1, <2>2, <2>3 DEF Starts
<1>8. Starts(ps, round, P) /\ Starts(ps, square, Q)
  BY <1>7 DEF ReadSoFar, Pending
<1>9. ASSUME NEW b \in {"(", "["}, NEW R, Pending(b, R, n), Matching(b, R, n)
      PROVE  Enclosing(b, n + 1) \subseteq Members(R)
  <2> SUFFICES ASSUME NEW p \in Enclosing(b, n + 1), p \notin Members(R) PROVE FALSE
    OBVIOUS
  <2>1. p \in 1 .. n + 1 /\ prompt[p] = b /\ Open(p, n + 1)
    BY DEF Enclosing
  <2>2. p \in 1 .. n
    BY <2>1 DEF Open
  <2>3. PICK q \in p .. n : Closes(p, q)
    BY <1>9, <2>1, <2>2 DEF Matching
  <2> QED
    BY <2>1, <2>2, <2>3, ClosedOnce
<1>10. Weighted(n + 1, Members(P), Members(Q)) = Tally(new.weight)
  <2>1. Enclosing("(", n + 1) \subseteq Members(P) /\ Enclosing("[", n + 1) \subseteq Members(Q)
    BY <1>9 DEF ReadSoFar, BothMatching
  <2> QED
    BY <1>1, <2>1, WeightedFirst
<1>11. \A k \in 1 .. m : Tally(parts[k].weight) = Weighted(PieceOf(parts, k), Members(P), Members(Q))
  BY DEF ReadSoFar, Weighs, m
<1>12. Weighs(ps, Members(P), Members(Q))
  BY <1>3, <1>4, <1>5, <1>10, <1>11 DEF Weighs
<1> QED
  BY <1>6, <1>8, <1>12 DEF ps, new

LEMMA Pushed ==
  ASSUME NEW S, NEW P \in Seq(S), NEW e \in S
  PROVE  Members(Append(P, e)) = Members(P) \cup {e}
PROOF
<1>1. Len(P) \in Nat /\ Len(Append(P, e)) = Len(P) + 1 /\ Append(P, e)[Len(P) + 1] = e
      /\ \A k \in 1 .. Len(P) : Append(P, e)[k] = P[k]
  OBVIOUS
<1>2. 1 .. Len(P) + 1 = (1 .. Len(P)) \cup {Len(P) + 1}
  BY <1>1
<1> QED
  BY <1>1, <1>2 DEF Members

\* A bracket that opens leaves the weights as they are.
LEMMA LaterBracket ==
  ASSUME NEW n \in Nat, NEW ps, TextsRead(ps, n), NEW R, NEW Q, Weighs(ps, R, Q)
  PROVE  Weighs(ps, R \cup {n + 1}, Q) /\ Weighs(ps, R, Q \cup {n + 1})
PROOF
<1> SUFFICES ASSUME NEW k \in 1 .. Len(ps)
    PROVE  /\ Tally(ps[k].weight) = Weighted(PieceOf(ps, k), R \cup {n + 1}, Q)
           /\ Tally(ps[k].weight) = Weighted(PieceOf(ps, k), R, Q \cup {n + 1})
  BY DEF Weighs
<1>1. PieceOf(ps, k) \in Nat /\ n + 1 \in Nat /\ n + 1 > PieceOf(ps, k)
  <2>1. PieceOf(ps, k) \in 1 .. n
    BY DEF TextsRead
  <2> QED
    BY <2>1
<1>2. Tally(ps[k].weight) = Weighted(PieceOf(ps, k), R, Q)
  BY DEF Weighs
<1> QED
  BY <1>1, <1>2, WeightedLater

LEMMA RoundOpens ==
  ASSUME NEW n \in Nat, NEW P, NEW Q, ReadSoFar(parts, round, square, n, P, Q),
         BothMatching(P, Q, n), prompt[n + 1] = "("
  PROVE  /\ ReadSoFar(parts, Append(round, Len(parts) + 1), square, n + 1, Append(P, n + 1), Q)
         /\ BothMatching(Append(P, n + 1), Q, n + 1)
PROOF
<1>1. /\ TextsRead(parts, n) /\ Pending("(", P, n) /\ Pending("[", Q, n)
      /\ Starts(parts, round, P) /\ Starts(parts, square, Q)
      /\ Weighs(parts, Members(P), Members(Q)) /\ Matching("(", P, n) /\ Matching("[", Q, n)
  BY DEF ReadSoFar, BothMatching
<1>2. Pending("(", Append(P, n + 1), n + 1) /\ Matching("(", Append(P, n + 1), n + 1)
  BY <1>1, BracketOpened
<1>3. Pending("[", Q, n + 1) /\ Matching("[", Q, n + 1)
  BY <1>1, NoBracket DEF ClosersOf
<1>4. TextsRead(parts, n + 1)
  BY <1>1, NoText DEF IsText
<1>5. P \in Seq(1 .. n) /\ P \in Seq(Nat) /\ n + 1 \in Nat
  BY <1>1 DEF Pending
<1>6. Starts(parts, Append(round, Len(parts) + 1), Append(P, n + 1))
  BY <1>1, <1>5, StartsPushed
<1>7. Weighs(parts, Members(Append(P, n + 1)), Members(Q))
  <2>1. Members(Append(P, n + 1)) = Members(P) \cup {n + 1}
    BY <1>5, Pushed
  <2>2. Weighs(parts, Members(P) \cup {n + 1}, Members(Q))
    BY <1>1, LaterBracket
  <2> QED
    BY <2>1, <2>2
<1> QED
  BY <1>1, <1>2, <1>3, <1>4, <1>6, <1>7 DEF ReadSoFar, BothMatching

LEMMA SquareOpens ==
  ASSUME NEW n \in Nat, NEW P, NEW Q, ReadSoFar(parts, round, square, n, P, Q),
         BothMatching(P, Q, n), prompt[n + 1] = "["
  PROVE  /\ ReadSoFar(parts, round, Append(square, Len(parts) + 1), n + 1, P, Append(Q, n + 1))
         /\ BothMatching(P, Append(Q, n + 1), n + 1)
PROOF
<1>1. /\ TextsRead(parts, n) /\ Pending("(", P, n) /\ Pending("[", Q, n)
      /\ Starts(parts, round, P) /\ Starts(parts, square, Q)
      /\ Weighs(parts, Members(P), Members(Q)) /\ Matching("(", P, n) /\ Matching("[", Q, n)
  BY DEF ReadSoFar, BothMatching
<1>2. Pending("[", Append(Q, n + 1), n + 1) /\ Matching("[", Append(Q, n + 1), n + 1)
  BY <1>1, BracketOpened
<1>3. Pending("(", P, n + 1) /\ Matching("(", P, n + 1)
  BY <1>1, NoBracket DEF ClosersOf
<1>4. TextsRead(parts, n + 1)
  BY <1>1, NoText DEF IsText
<1>5. Q \in Seq(1 .. n) /\ Q \in Seq(Nat) /\ n + 1 \in Nat
  BY <1>1 DEF Pending
<1>6. Starts(parts, Append(square, Len(parts) + 1), Append(Q, n + 1))
  BY <1>1, <1>5, StartsPushed
<1>7. Weighs(parts, Members(P), Members(Append(Q, n + 1)))
  <2>1. Members(Append(Q, n + 1)) = Members(Q) \cup {n + 1}
    BY <1>5, Pushed
  <2>2. Weighs(parts, Members(P), Members(Q) \cup {n + 1})
    BY <1>1, LaterBracket
  <2> QED
    BY <2>1, <2>2
<1> QED
  BY <1>1, <1>2, <1>3, <1>4, <1>6, <1>7 DEF ReadSoFar, BothMatching

\* A stack is empty when no bracket is to be counted.
LEMMA EmptyStacks ==
  ASSUME NEW n, NEW ps, NEW stack, NEW P \in Seq(1 .. n), Starts(ps, stack, P)
  PROVE  stack = <<>> <=> P = <<>>
PROOF
<1>1. stack \in Seq(Nat) /\ Len(stack) = Len(P)
  BY DEF Starts
<1> QED
  BY <1>1

\* ":w)" without a round bracket to close
LEMMA FactorDropped ==
  ASSUME NEW n \in Nat, NEW P, NEW Q, ReadSoFar(parts, round, square, n, P, Q),
         BothMatching(P, Q, n), prompt[n + 1] = ":w)", round = <<>>
  PROVE  ReadSoFar(parts, round, square, n + 1, P, Q) /\ BothMatching(P, Q, n + 1)
PROOF
<1>1. /\ TextsRead(parts, n) /\ Pending("(", P, n) /\ Pending("[", Q, n)
      /\ Starts(parts, round, P) /\ Starts(parts, square, Q)
      /\ Weighs(parts, Members(P), Members(Q)) /\ Matching("(", P, n) /\ Matching("[", Q, n)
  BY DEF ReadSoFar, BothMatching
<1>2. P = <<>>
  BY <1>1, EmptyStacks DEF Pending
<1>3. Pending("(", P, n + 1) /\ Matching("(", P, n + 1)
  BY <1>1, <1>2, NoBracket
<1>4. Pending("[", Q, n + 1) /\ Matching("[", Q, n + 1)
  BY <1>1, NoBracket DEF ClosersOf
<1>5. TextsRead(parts, n + 1)
  BY <1>1, NoText DEF IsText
<1> QED
  BY <1>1, <1>3, <1>4, <1>5 DEF ReadSoFar, BothMatching

\* What multiply_range leaves as it is
LEMMA SameAfter ==
  ASSUME NEW n \in Nat, TextsRead(parts, n), NEW from \in Nat, NEW m \in Int,
         NEW ps, ps = MultiplyRange(from, m)
  PROVE  TextsRead(ps, n) /\ \A stack, P : Starts(parts, stack, P) => Starts(ps, stack, P)
PROOF
<1>1. parts \in Seq(PartSet)
  BY DEF TextsRead
<1>2. Multiplied(ps, from, m)
  BY <1>1, MultipliedIs
<1>3. ps \in Seq(PartSet) /\ Len(ps) = Len(parts)
      /\ \A k \in 1 .. Len(parts) : ps[k].text = parts[k].text
  BY <1>2 DEF Multiplied
<1> QED
  BY <1>3, SameTexts

LEMMA RoundCloses ==
  ASSUME NEW n \in Nat, NEW P, NEW Q, ReadSoFar(parts, round, square, n, P, Q),
         BothMatching(P, Q, n), prompt[n + 1] \in {")", ":w)"}, round # <<>>,
         Len(prompt) \in Nat, n + 1 <= Len(prompt),
         NEW ps, ps = MultiplyRange(Top(round), IF prompt[n + 1] = ":w)" THEN n + 1 ELSE RoundMultiplier)
  PROVE  ReadSoFar(ps, Pop(round), square, n + 1, Pop(P), Q) /\ BothMatching(Pop(P), Q, n + 1)
PROOF
<1>1. /\ TextsRead(parts, n) /\ Pending("(", P, n) /\ Pending("[", Q, n)
      /\ Starts(parts, round, P) /\ Starts(parts, square, Q)
      /\ Weighs(parts, Members(P), Members(Q)) /\ Matching("(", P, n) /\ Matching("[", Q, n)
  BY DEF ReadSoFar, BothMatching
<1>2. P \in Seq(1 .. n) /\ P # <<>>
  BY <1>1, EmptyStacks DEF Pending
<1> DEFINE t == Top(P)
           from == Top(round)
           m == IF prompt[n + 1] = ":w)" THEN n + 1 ELSE RoundMultiplier
<1>3. /\ Pending("(", Pop(P), n + 1) /\ Matching("(", Pop(P), n + 1)
      /\ Members(Pop(P)) = Members(P) \ {t} /\ t \in Members(P) /\ Closes(t, n + 1)
  <2>1. prompt[n + 1] \in ClosersOf("(")
    BY DEF ClosersOf
  <2> QED
    BY <1>1, <1>2, <2>1, BracketClosed
<1>4. Pending("[", Q, n + 1) /\ Matching("[", Q, n + 1)
  BY <1>1, NoBracket DEF ClosersOf
<1>5. /\ Starts(parts, Pop(round), Pop(P)) /\ from \in Nat
      /\ \A k \in 1 .. Len(parts) : k >= from <=> PieceOf(parts, k) > t
  BY <1>1, <1>2, StartsPopped
<1>6. t \in 1 .. n /\ prompt[t] = "(" /\ Open(t, n + 1)
  BY <1>1, <1>2, <1>3 DEF Members, Pending
<1>7. ByFactor(t) <=> prompt[n + 1] = ":w)"
  <2>1. t \in Nat \ {0} /\ n + 1 \in Nat
    BY <1>6
  <2> QED
    BY <1>3, <2>1, ClosedByFactor
<1>8. /\ ps = MultiplyRange(from, m) /\ m \in Int
      /\ IF ByFactor(t) THEN PowerOf(m) = 0 /\ FactorsOf(m) = 1
         ELSE PowerOf(m) = 1 /\ FactorsOf(m) = 0
  <2>1. n + 1 \in Nat
    OBVIOUS
  <2> QED
    BY <1>7, <2>1, Multipliers
<1> HIDE DEF t, from, m
<1>9. Weighs(ps, Members(P) \ {t}, Members(Q))
  BY <1>1, <1>3, <1>5, <1>6, <1>8, RoundWeighs
<1>10. TextsRead(ps, n) /\ \A stack, R : Starts(parts, stack, R) => Starts(ps, stack, R)
  BY <1>1, <1>5, <1>8, SameAfter
<1>11. ~IsText(n + 1)
  <2>1. t \in 1 .. n + 1
    BY <1>6
  <2> QED
    BY <1>3, <2>1 DEF IsText
<1>12. TextsRead(ps, n + 1)
  BY <1>10, <1>11, NoText
<1> QED
  BY <1>1, <1>3, <1>4, <1>5, <1>9, <1>10, <1>12 DEF ReadSoFar, BothMatching

LEMMA SquareCloses ==
  ASSUME NEW n \in Nat, NEW P, NEW Q, ReadSoFar(parts, round, square, n, P, Q),
         BothMatching(P, Q, n), prompt[n + 1] = "]", square # <<>>,
         NEW ps, ps = MultiplyRange(Top(square), SquareMultiplier)
  PROVE  ReadSoFar(ps, round, Pop(square), n + 1, P, Pop(Q)) /\ BothMatching(P, Pop(Q), n + 1)
PROOF
<1>1. /\ TextsRead(parts, n) /\ Pending("(", P, n) /\ Pending("[", Q, n)
      /\ Starts(parts, round, P) /\ Starts(parts, square, Q)
      /\ Weighs(parts, Members(P), Members(Q)) /\ Matching("(", P, n) /\ Matching("[", Q, n)
  BY DEF ReadSoFar, BothMatching
<1>2. Q \in Seq(1 .. n) /\ Q # <<>>
  BY <1>1, EmptyStacks DEF Pending
<1> DEFINE t == Top(Q)
           from == Top(square)
<1>3. /\ Pending("[", Pop(Q), n + 1) /\ Matching("[", Pop(Q), n + 1)
      /\ Members(Pop(Q)) = Members(Q) \ {t} /\ t \in Members(Q) /\ Closes(t, n + 1)
  <2>1. prompt[n + 1] \in ClosersOf("[")
    BY DEF ClosersOf
  <2> QED
    BY <1>1, <1>2, <2>1, BracketClosed
<1>4. Pending("(", P, n + 1) /\ Matching("(", P, n + 1)
  BY <1>1, NoBracket DEF ClosersOf
<1>5. /\ Starts(parts, Pop(square), Pop(Q)) /\ from \in Nat
      /\ \A k \in 1 .. Len(parts) : k >= from <=> PieceOf(parts, k) > t
  BY <1>1, <1>2, StartsPopped
<1>6. t \in 1 .. n /\ prompt[t] = "[" /\ Open(t, n + 1)
  BY <1>1, <1>2, <1>3 DEF Members, Pending
<1> HIDE DEF t
<1>7. ps = MultiplyRange(from, SquareMultiplier)
  OBVIOUS
<1> HIDE DEF from
<1>8. Weighs(ps, Members(P), Members(Q) \ {t})
  BY <1>1, <1>3, <1>5, <1>6, <1>7, SquareWeighs
<1>9. TextsRead(ps, n) /\ \A stack, R : Starts(parts, stack, R) => Starts(ps, stack, R)
  BY <1>1, <1>5, <1>7, Multipliers, SameAfter
<1>10. ~IsText(n + 1)
  <2>1. t \in 1 .. n + 1
    BY <1>6
  <2> QED
    BY <1>3, <2>1 DEF IsText
<1>11. TextsRead(ps, n + 1)
  BY <1>9, <1>10, NoText
<1> QED
  BY <1>1, <1>3, <1>4, <1>5, <1>8, <1>9, <1>11 DEF ReadSoFar, BothMatching

\* Text, or a bracket that closes nothing
LEMMA PlainText ==
  ASSUME NEW n \in Nat, NEW P, NEW Q, ReadSoFar(parts, round, square, n, P, Q),
         BothMatching(P, Q, n), read = n,
         \/ prompt[n + 1] \in {"\\(", "\\)", "BREAK", "text", " "}
         \/ prompt[n + 1] = ")" /\ round = <<>>
         \/ prompt[n + 1] = "]" /\ square = <<>>
  PROVE  /\ ReadSoFar(Append(parts, Part(prompt[n + 1])), round, square, n + 1, P, Q)
         /\ BothMatching(P, Q, n + 1)
PROOF
<1>1. /\ Pending("(", P, n) /\ Pending("[", Q, n) /\ Matching("(", P, n) /\ Matching("[", Q, n)
  BY DEF ReadSoFar, BothMatching
<1>2. (round = <<>> <=> P = <<>>) /\ (square = <<>> <=> Q = <<>>)
  <2>1. P \in Seq(1 .. n) /\ Starts(parts, round, P) /\ Q \in Seq(1 .. n) /\ Starts(parts, square, Q)
    BY DEF ReadSoFar, Pending
  <2> QED
    BY <2>1, EmptyStacks
<1>3. /\ Pending("(", P, n + 1) /\ Matching("(", P, n + 1)
      /\ ~\E p \in 1 .. n + 1 : prompt[p] = "(" /\ Closes(p, n + 1)
  <2>1. prompt[n + 1] # "(" /\ prompt[n + 1] \in ClosersOf("(") => P = <<>>
    BY <1>2 DEF ClosersOf
  <2> QED
    BY <1>1, <2>1, NoBracket
<1>4. /\ Pending("[", Q, n + 1) /\ Matching("[", Q, n + 1)
      /\ ~\E p \in 1 .. n + 1 : prompt[p] = "[" /\ Closes(p, n + 1)
  <2>1. prompt[n + 1] # "[" /\ prompt[n + 1] \in ClosersOf("[") => Q = <<>>
    BY <1>2 DEF ClosersOf
  <2> QED
    BY <1>1, <2>1, NoBracket
<1>5. ~\E p \in 1 .. n + 1 : Closes(p, n + 1)
  BY <1>3, <1>4 DEF Closes, Open
<1>6. IsText(n + 1) /\ prompt[n + 1] \in Pieces
  BY <1>5 DEF IsText, Pieces
<1>7. LET ps == Append(parts, Part(prompt[n + 1]))
      IN  TextsRead(ps, n + 1) /\ Starts(ps, round, P) /\ Starts(ps, square, Q)
          /\ Weighs(ps, Members(P), Members(Q))
  BY <1>6, TextReads
<1> QED
  BY <1>3, <1>4, <1>7 DEF ReadSoFar, BothMatching

-----------------------------------------------------------------------------
(* The brackets that were left open *)

LEMMA WithoutFirst ==
  ASSUME NEW S, NEW s \in Seq(S), s # <<>>
  PROVE  /\ Tail(s) \in Seq(S) /\ Len(Tail(s)) = Len(s) - 1 /\ Len(s) \in Nat \ {0}
         /\ \A k \in 1 .. Len(s) - 1 : Tail(s)[k] = s[k + 1]
PROOF
  OBVIOUS

LEMMA FirstPending ==
  ASSUME NEW b, NEW n \in Nat, NEW P, Pending(b, P, n), P # <<>>
  PROVE  /\ Pending(b, Tail(P), n) /\ Members(Tail(P)) = Members(P) \ {P[1]}
         /\ P[1] \in Members(P) /\ P[1] \in 1 .. n /\ prompt[P[1]] = b /\ Open(P[1], n + 1)
PROOF
<1> DEFINE m == Len(P) - 1
           R == Tail(P)
<1>1. P \in Seq(1 .. n)
  BY DEF Pending
<1>2. R \in Seq(1 .. n) /\ Len(R) = m /\ m \in Nat /\ Len(P) = m + 1
      /\ \A k \in 1 .. m : R[k] = P[k + 1]
  BY <1>1, WithoutFirst
<1> HIDE DEF m, R
<1>3. 1 \in 1 .. m + 1 /\ \A k \in 1 .. m : k + 1 \in 1 .. m + 1 /\ k + 1 > 1
  BY <1>2
<1>4. /\ \A k, l \in 1 .. m + 1 : k < l => P[k] < P[l]
      /\ \A k \in 1 .. m + 1 : P[k] \in 1 .. n /\ prompt[P[k]] = b /\ Open(P[k], n + 1)
  <2>1. /\ \A k, l \in 1 .. Len(P) : k < l => P[k] < P[l]
        /\ \A k \in 1 .. Len(P) : prompt[P[k]] = b /\ Open(P[k], n + 1)
    BY DEF Pending
  <2>2. \A k \in 1 .. Len(P) : P[k] \in 1 .. n
    BY <1>1
  <2> QED
    BY <1>2, <2>1, <2>2
<1>5. Pending(b, R, n)
  <2>1. ASSUME NEW k \in 1 .. m, NEW l \in 1 .. m, k < l PROVE R[k] < R[l]
    <3>1. k + 1 < l + 1
      BY <1>2, <2>1
    <3> QED
      BY <1>2, <1>3, <1>4, <3>1
  <2>2. \A k \in 1 .. m : prompt[R[k]] = b /\ Open(R[k], n + 1)
    BY <1>2, <1>3, <1>4
  <2> QED
    BY <1>2, <2>1, <2>2 DEF Pending
<1>6. Members(R) = Members(P) \ {P[1]}
  <2>1. ASSUME NEW k \in 1 .. m PROVE R[k] \in Members(P) /\ R[k] # P[1]
    <3>1. R[k] = P[k + 1] /\ P[1] < P[k + 1] /\ P[1] \in 1 .. n /\ P[k + 1] \in 1 .. n
      BY <1>2, <1>3, <1>4
    <3> QED
      BY <1>2, <1>3, <3>1 DEF Members
  <2>2. ASSUME NEW k \in 1 .. m + 1, P[k] # P[1] PROVE P[k] \in Members(R)
    <3>1. k - 1 \in 1 .. m /\ (k - 1) + 1 = k
      BY <1>2, <2>2
    <3>2. R[k - 1] = P[k]
      BY <1>2, <3>1
    <3> QED
      BY <1>2, <3>1, <3>2 DEF Members
  <2> QED
    BY <1>2, <2>1, <2>2 DEF Members
<1>7. P[1] \in Members(P)
  BY <1>2, <1>3 DEF Members
<1> QED
  BY <1>3, <1>4, <1>5, <1>6, <1>7 DEF R

LEMMA FirstStarts ==
  ASSUME NEW n \in Nat, NEW ps, TextsRead(ps, n), NEW stack, NEW P \in Seq(1 .. n), Starts(ps, stack, P),
         P # <<>>
  PROVE  /\ Starts(ps, Tail(stack), Tail(P)) /\ Head(stack) \in Nat
         /\ \A k \in 1 .. Len(ps) : k >= Head(stack) <=> PieceOf(ps, k) > P[1]
PROOF
<1> DEFINE m == Len(P) - 1
           R == Tail(P)
           new == Tail(stack)
<1>1. stack \in Seq(Nat) /\ Len(stack) = Len(P)
  BY DEF Starts
<1>2. R \in Seq(1 .. n) /\ Len(R) = m /\ m \in Nat /\ Len(P) = m + 1
      /\ \A k \in 1 .. m : R[k] = P[k + 1]
  BY WithoutFirst
<1>3. stack # <<>>
  BY <1>1, <1>2
<1>4. new \in Seq(Nat) /\ Len(new) = Len(stack) - 1 /\ \A k \in 1 .. Len(stack) - 1 : new[k] = stack[k + 1]
  BY <1>1, <1>3, WithoutFirst
<1>5. Head(stack) = stack[1]
  BY <1>1, <1>3
<1> HIDE DEF m, R, new
<1>6. Len(new) = m /\ \A k \in 1 .. m : new[k] = stack[k + 1]
  BY <1>1, <1>2, <1>4
<1>7. 1 \in 1 .. m + 1 /\ \A k \in 1 .. m : k + 1 \in 1 .. m + 1
  BY <1>2
<1>8. /\ \A j \in 1 .. m + 1 : stack[j] \in Nat /\ stack[j] <= Len(ps) + 1
      /\ \A j \in 1 .. m + 1, k \in 1 .. Len(ps) : k >= stack[j] <=> PieceOf(ps, k) > P[j]
  BY <1>1, <1>2 DEF Starts
<1>9. Starts(ps, new, R)
  BY <1>2, <1>4, <1>6, <1>7, <1>8 DEF Starts
<1>10. Head(stack) \in Nat /\ \A k \in 1 .. Len(ps) : k >= Head(stack) <=> PieceOf(ps, k) > P[1]
  BY <1>5, <1>7, <1>8
<1> QED
  BY <1>9, <1>10 DEF new, R

LEMMA RoundLeftOpen ==
  ASSUME NEW n \in Nat, n = Len(prompt), NEW P, NEW Q, ReadSoFar(parts, round, square, n, P, Q),
         round # <<>>, NEW ps, ps = MultiplyRange(Head(round), RoundMultiplier)
  PROVE  ReadSoFar(ps, Tail(round), square, n, Tail(P), Q)
PROOF
<1>1. /\ TextsRead(parts, n) /\ Pending("(", P, n) /\ Pending("[", Q, n)
      /\ Starts(parts, round, P) /\ Starts(parts, square, Q)
      /\ Weighs(parts, Members(P), Members(Q))
  BY DEF ReadSoFar
<1>2. P \in Seq(1 .. n) /\ P # <<>>
  BY <1>1, EmptyStacks DEF Pending
<1> DEFINE t == P[1]
           from == Head(round)
<1>3. /\ Pending("(", Tail(P), n) /\ Members(Tail(P)) = Members(P) \ {t} /\ t \in Members(P)
      /\ t \in 1 .. n /\ prompt[t] = "(" /\ Open(t, n + 1)
  BY <1>1, <1>2, FirstPending
<1>4. /\ Starts(parts, Tail(round), Tail(P)) /\ from \in Nat
      /\ \A k \in 1 .. Len(parts) : k >= from <=> PieceOf(parts, k) > t
  BY <1>1, <1>2, FirstStarts
<1>5. ~ByFactor(t)
  BY <1>3, NeverClosed
<1>6. ps = MultiplyRange(from, RoundMultiplier)
  OBVIOUS
<1> HIDE DEF t, from
<1>7. Weighs(ps, Members(P) \ {t}, Members(Q))
  BY <1>1, <1>3, <1>4, <1>5, <1>6, Multipliers, RoundWeighs
<1>8. TextsRead(ps, n) /\ \A stack, R : Starts(parts, stack, R) => Starts(ps, stack, R)
  BY <1>1, <1>4, <1>6, Multipliers, SameAfter
<1> QED
  BY <1>1, <1>3, <1>4, <1>7, <1>8 DEF ReadSoFar

LEMMA SquareLeftOpen ==
  ASSUME NEW n \in Nat, NEW P, NEW Q, ReadSoFar(parts, round, square, n, P, Q),
         square # <<>>, NEW ps, ps = MultiplyRange(Head(square), SquareMultiplier)
  PROVE  ReadSoFar(ps, round, Tail(square), n, P, Tail(Q))
PROOF
<1>1. /\ TextsRead(parts, n) /\ Pending("(", P, n) /\ Pending("[", Q, n)
      /\ Starts(parts, round, P) /\ Starts(parts, square, Q)
      /\ Weighs(parts, Members(P), Members(Q))
  BY DEF ReadSoFar
<1>2. Q \in Seq(1 .. n) /\ Q # <<>>
  BY <1>1, EmptyStacks DEF Pending
<1> DEFINE t == Q[1]
           from == Head(square)
<1>3. /\ Pending("[", Tail(Q), n) /\ Members(Tail(Q)) = Members(Q) \ {t} /\ t \in Members(Q)
      /\ t \in 1 .. n /\ prompt[t] = "[" /\ Open(t, n + 1)
  BY <1>1, <1>2, FirstPending
<1>4. /\ Starts(parts, Tail(square), Tail(Q)) /\ from \in Nat
      /\ \A k \in 1 .. Len(parts) : k >= from <=> PieceOf(parts, k) > t
  BY <1>1, <1>2, FirstStarts
<1>5. ps = MultiplyRange(from, SquareMultiplier)
  OBVIOUS
<1> HIDE DEF t, from
<1>6. Weighs(ps, Members(P), Members(Q) \ {t})
  BY <1>1, <1>3, <1>4, <1>5, SquareWeighs
<1>7. TextsRead(ps, n) /\ \A stack, R : Starts(parts, stack, R) => Starts(ps, stack, R)
  BY <1>1, <1>4, <1>5, Multipliers, SameAfter
<1> QED
  BY <1>1, <1>3, <1>4, <1>6, <1>7 DEF ReadSoFar

-----------------------------------------------------------------------------
(* The parts once the prompt is read *)

\* A part may weigh what piece i does.
MayWeigh(part, i) == ~SurelyDiffer(Tally(part.weight), WeightOf(i))

\* Every piece of text is in one part, in order; a part weighs what its first does,
\* and may weigh what the others do.
Whole(ps) ==
  /\ ps \in Seq(PartSet)
  /\ \A p \in 1 .. Len(ps) : \A k \in 1 .. Len(ps[p].text) :
       ps[p].text[k].at \in TextPieces /\ MayWeigh(ps[p], ps[p].text[k].at)
  /\ \A p \in 1 .. Len(ps) : ps[p].text # <<>> =>
       Tally(ps[p].weight) = WeightOf(ps[p].text[1].at)
  /\ \A p \in 1 .. Len(ps) : \A k, l \in 1 .. Len(ps[p].text) :
       k < l => ps[p].text[k].at < ps[p].text[l].at
  /\ \A p, q \in 1 .. Len(ps) : p < q =>
       \A k \in 1 .. Len(ps[p].text), l \in 1 .. Len(ps[q].text) : ps[p].text[k].at < ps[q].text[l].at
  /\ \A i \in TextPieces : \E p \in 1 .. Len(ps) : Holds(ps[p], i)

LEMMA AllRead ==
  ASSUME NEW ps, Len(prompt) \in Nat, ReadSoFar(ps, <<>>, <<>>, Len(prompt), <<>>, <<>>)
  PROVE  Whole(ps) /\ \A p \in 1 .. Len(ps) : Len(ps[p].text) = 1
PROOF
<1> DEFINE n == Len(prompt)
<1>1. TextsRead(ps, n) /\ Weighs(ps, {}, {})
  <2>1. Members(<<>>) = {}
    BY DEF Members
  <2> QED
    BY <2>1 DEF ReadSoFar
<1>2. \A i : Weighted(i, {}, {}) = WeightOf(i)
  <2>1. \A i, b : Enclosing(b, i) \ {} = Enclosing(b, i)
    OBVIOUS
  <2> QED
    BY <2>1 DEF Weighted, WeightOf
<1>3. \A p \in 1 .. Len(ps) : Len(ps[p].text) = 1
  BY <1>1 DEF TextsRead
<1>4. \A p \in 1 .. Len(ps) : 1 .. Len(ps[p].text) = {1}
  <2>1. 1 .. 1 = {1}
    OBVIOUS
  <2> QED
    BY <1>3, <2>1
<1>5. \A p \in 1 .. Len(ps) :
        ps[p].text[1].at \in TextPieces /\ Tally(ps[p].weight) = WeightOf(ps[p].text[1].at)
  BY <1>1, <1>2 DEF TextsRead, Weighs, PieceOf, TextPieces
<1>6. \A p, q \in 1 .. Len(ps) : p < q => ps[p].text[1].at < ps[q].text[1].at
  BY <1>1 DEF TextsRead, PieceOf
<1>7. \A i \in TextPieces : \E p \in 1 .. Len(ps) : Holds(ps[p], i)
  BY <1>1, <1>4 DEF TextsRead, PieceOf, TextPieces, Holds
<1>8. ps \in Seq(PartSet)
  BY <1>1 DEF TextsRead
<1>9. \A p \in 1 .. Len(ps) : \A k \in 1 .. Len(ps[p].text) :
        ps[p].text[k].at \in TextPieces /\ MayWeigh(ps[p], ps[p].text[k].at)
  BY <1>4, <1>5 DEF MayWeigh, SurelyDiffer
<1>10. \A p \in 1 .. Len(ps) : \A k, l \in 1 .. Len(ps[p].text) : ~(k < l)
  BY <1>4
<1>11. \A p, q \in 1 .. Len(ps) : p < q =>
         \A k \in 1 .. Len(ps[p].text), l \in 1 .. Len(ps[q].text) : ps[p].text[k].at < ps[q].text[l].at
  BY <1>4, <1>6
<1> QED
  BY <1>3, <1>5, <1>7, <1>8, <1>9, <1>10, <1>11 DEF Whole

\* Merging a part with the next keeps what is in them and in which order.
LEMMA MergedParts ==
  ASSUME NEW i \in Nat \ {0}, parts \in Seq(PartSet), i < Len(parts)
  PROVE  LET M == Merged(i)
         IN  /\ M \in Seq(PartSet) /\ Len(M) = Len(parts) - 1
             /\ \A p \in 1 .. i - 1 : M[p] = parts[p]
             /\ \A p \in i + 1 .. Len(parts) - 1 : M[p] = parts[p + 1]
             /\ M[i].weight = parts[i].weight /\ M[i].text = parts[i].text \o parts[i + 1].text
PROOF
<1> DEFINE L == Len(parts)
           M == Merged(i)
           t == parts[i].text \o parts[i + 1].text
<1>1. L \in Nat /\ i \in 1 .. L /\ i + 1 \in 1 .. L /\ \A p \in 1 .. L : parts[p] \in PartSet
  OBVIOUS
<1>2. parts[i] = [text |-> parts[i].text, weight |-> parts[i].weight]
      /\ parts[i].text \in Seq([at : Nat, spelled : Pieces]) /\ parts[i].weight \in WeightSet
      /\ parts[i + 1].text \in Seq([at : Nat, spelled : Pieces])
  BY <1>1 DEF PartSet
<1>3. t \in Seq([at : Nat, spelled : Pieces])
  BY <1>2, ConcatProperties
<1>4. M = [p \in 1 .. L - 1 |->
            IF p < i THEN parts[p] ELSE IF p = i THEN [parts[i] EXCEPT !.text = t] ELSE parts[p + 1]]
  BY DEF Merged
<1> HIDE DEF t
<1>5. [parts[i] EXCEPT !.text = t] = [text |-> t, weight |-> parts[i].weight]
  BY <1>2
<1>6. /\ \A p \in 1 .. i - 1 : M[p] = parts[p] /\ M[p] \in PartSet
      /\ \A p \in i + 1 .. L - 1 : M[p] = parts[p + 1] /\ M[p] \in PartSet
      /\ M[i] = [text |-> t, weight |-> parts[i].weight]
  BY <1>1, <1>4, <1>5
<1>7. M[i] \in PartSet /\ M[i].text = t /\ M[i].weight = parts[i].weight
  BY <1>2, <1>3, <1>6 DEF PartSet
<1>8. \A p \in 1 .. L - 1 : M[p] \in PartSet
  <2> TAKE p \in 1 .. L - 1
  <2>1. p \in 1 .. i - 1 \/ p = i \/ p \in i + 1 .. L - 1
    BY <1>1
  <2> QED
    BY <1>6, <1>7, <2>1
<1>9. M \in Seq(PartSet) /\ Len(M) = L - 1
  <2>1. L - 1 \in Nat /\ M = [p \in 1 .. L - 1 |-> M[p]]
    BY <1>1, <1>4
  <2> QED
    BY <1>8, <2>1
<1> QED
  BY <1>6, <1>7, <1>9 DEF t

\* Where an element of a part was before the merge
LEMMA MergedFrom ==
  ASSUME NEW i \in Nat \ {0}, parts \in Seq(PartSet), i < Len(parts),
         NEW p \in 1 .. Len(parts) - 1, NEW k \in 1 .. Len(Merged(i)[p].text)
  PROVE  \E r \in (IF p <= i THEN p ELSE p + 1) .. (IF p < i THEN p ELSE p + 1) :
           /\ r \in 1 .. Len(parts)
           /\ \/ Merged(i)[p].weight = parts[r].weight
              \/ r = i + 1 /\ Merged(i)[p].weight = parts[i].weight
           /\ \E l \in 1 .. Len(parts[r].text) : Merged(i)[p].text[k] = parts[r].text[l]
PROOF
<1> DEFINE L == Len(parts)
           M == Merged(i)
           a == parts[i].text
           b == parts[i + 1].text
<1>1. /\ \A q \in 1 .. i - 1 : M[q] = parts[q]
      /\ \A q \in i + 1 .. L - 1 : M[q] = parts[q + 1]
      /\ M[i].weight = parts[i].weight /\ M[i].text = a \o b
  BY MergedParts
<1>2. L \in Nat /\ i \in 1 .. L /\ i + 1 \in 1 .. L
      /\ a \in Seq([at : Nat, spelled : Pieces]) /\ b \in Seq([at : Nat, spelled : Pieces])
  <2>1. L \in Nat /\ i \in 1 .. L /\ i + 1 \in 1 .. L
    OBVIOUS
  <2>2. parts[i] \in PartSet /\ parts[i + 1] \in PartSet
    BY <2>1
  <2> QED
    BY <2>1, <2>2 DEF PartSet
<1> HIDE DEF M
<1>3. CASE p < i
  <2>1. p \in 1 .. i - 1 /\ p \in 1 .. L /\ p \in p .. p
    BY <1>2, <1>3
  <2> QED
    BY <1>1, <1>3, <2>1 DEF M
<1>4. CASE p > i
  <2>1. p \in i + 1 .. L - 1 /\ p + 1 \in 1 .. L /\ p + 1 \in p + 1 .. p + 1
    BY <1>2, <1>4
  <2>2. ~(p <= i) /\ ~(p < i)
    BY <1>4, <1>2
  <2> QED
    BY <1>1, <2>1, <2>2 DEF M
<1>5. CASE p = i
  <2> HIDE DEF a, b
  <2>1. Len(a) \in Nat /\ Len(b) \in Nat /\ Len(a \o b) = Len(a) + Len(b)
        /\ \A j \in 1 .. Len(a) + Len(b) : (a \o b)[j] = IF j <= Len(a) THEN a[j] ELSE b[j - Len(a)]
    BY <1>2
  <2>2. k \in 1 .. Len(a) + Len(b)
    BY <1>1, <1>5, <2>1 DEF M
  <2>3. i \in i .. i + 1 /\ i + 1 \in i .. i + 1 /\ i <= i /\ ~(i < i)
    BY <1>2
  <2>4. CASE k <= Len(a)
    <3>1. k \in 1 .. Len(a) /\ M[i].text[k] = a[k]
      BY <1>1, <2>1, <2>2, <2>4
    <3> QED
      BY <1>1, <1>2, <1>5, <2>3, <3>1 DEF M, a
  <2>5. CASE ~(k <= Len(a))
    <3>1. k - Len(a) \in 1 .. Len(b) /\ M[i].text[k] = b[k - Len(a)]
      BY <1>1, <2>1, <2>2, <2>5
    <3> QED
      BY <1>1, <1>2, <1>5, <2>3, <3>1 DEF M, b
  <2> QED
    BY <2>4, <2>5
<1> QED
  BY <1>2, <1>3, <1>4, <1>5

LEMMA MergedHolds ==
  ASSUME NEW i \in Nat \ {0}, parts \in Seq(PartSet), i < Len(parts),
         NEW r \in 1 .. Len(parts), NEW e, Holds(parts[r], e)
  PROVE  \E p \in 1 .. Len(parts) - 1 : Holds(Merged(i)[p], e)
PROOF
<1> DEFINE L == Len(parts)
           M == Merged(i)
           a == parts[i].text
           b == parts[i + 1].text
<1>1. /\ \A q \in 1 .. i - 1 : M[q] = parts[q]
      /\ \A q \in i + 1 .. L - 1 : M[q] = parts[q + 1]
      /\ M[i].text = a \o b
  BY MergedParts
<1>2. L \in Nat /\ i \in 1 .. L /\ i + 1 \in 1 .. L /\ i \in 1 .. L - 1
      /\ a \in Seq([at : Nat, spelled : Pieces]) /\ b \in Seq([at : Nat, spelled : Pieces])
  <2>1. L \in Nat /\ i \in 1 .. L /\ i + 1 \in 1 .. L /\ i \in 1 .. L - 1
    OBVIOUS
  <2>2. parts[i] \in PartSet /\ parts[i + 1] \in PartSet
    BY <2>1
  <2> QED
    BY <2>1, <2>2 DEF PartSet
<1> HIDE DEF M
<1>3. PICK k \in 1 .. Len(parts[r].text) : parts[r].text[k].at = e
  BY DEF Holds
<1>4. CASE r < i
  <2>1. r \in 1 .. i - 1 /\ r \in 1 .. L - 1
    BY <1>2, <1>4
  <2>2. Holds(M[r], e)
    BY <1>1, <2>1
  <2> QED
    BY <2>1, <2>2 DEF M
<1>5. CASE r > i + 1
  <2>1. r - 1 \in i + 1 .. L - 1 /\ r - 1 \in 1 .. L - 1 /\ (r - 1) + 1 = r
    BY <1>2, <1>5
  <2>2. Holds(M[r - 1], e)
    BY <1>1, <2>1
  <2> QED
    BY <2>1, <2>2 DEF M
<1>6. CASE r = i \/ r = i + 1
  <2> HIDE DEF a, b
  <2>1. Len(a) \in Nat /\ Len(b) \in Nat /\ Len(a \o b) = Len(a) + Len(b)
        /\ \A j \in 1 .. Len(a) + Len(b) : (a \o b)[j] = IF j <= Len(a) THEN a[j] ELSE b[j - Len(a)]
    BY <1>2
  <2>2. \E j \in 1 .. Len(a \o b) : (a \o b)[j].at = e
    <3>1. CASE r = i
      <4>1. k \in 1 .. Len(a) /\ a[k].at = e
        BY <1>3, <3>1 DEF a
      <4>2. k \in 1 .. Len(a \o b) /\ (a \o b)[k] = a[k]
        BY <2>1, <4>1
      <4> QED
        BY <4>1, <4>2
    <3>2. CASE r = i + 1
      <4>1. k \in 1 .. Len(b) /\ b[k].at = e
        BY <1>3, <3>2 DEF b
      <4>2. Len(a) + k \in 1 .. Len(a \o b) /\ (a \o b)[Len(a) + k] = b[k]
        BY <2>1, <4>1
      <4> QED
        BY <4>1, <4>2
    <3> QED
      BY <1>6, <3>1, <3>2
  <2>3. Holds(M[i], e)
    BY <1>1, <2>2 DEF Holds
  <2> QED
    BY <1>2, <2>3 DEF M
<1> QED
  BY <1>2, <1>4, <1>5, <1>6

LEMMA MergedWhole ==
  ASSUME NEW i \in Nat \ {0}, Whole(parts), i < Len(parts),
         parts[i].text # <<>>, Len(parts[i + 1].text) = 1,
         ~SurelyDiffer(Tally(parts[i].weight), Tally(parts[i + 1].weight))
  PROVE  Whole(Merged(i))
PROOF
<1> DEFINE L == Len(parts)
           M == Merged(i)
           low(p) == IF p <= i THEN p ELSE p + 1
           high(p) == IF p < i THEN p ELSE p + 1
<1>1. parts \in Seq(PartSet) /\ L \in Nat
  BY DEF Whole
<1>2. /\ M \in Seq(PartSet) /\ Len(M) = L - 1
      /\ \A p \in 1 .. i - 1 : M[p] = parts[p]
      /\ \A p \in i + 1 .. L - 1 : M[p] = parts[p + 1]
      /\ M[i].weight = parts[i].weight /\ M[i].text = parts[i].text \o parts[i + 1].text
  BY <1>1, MergedParts
<1>3. \A p \in 1 .. L - 1 : \A k \in 1 .. Len(M[p].text) :
        \E r \in low(p) .. high(p) :
          /\ r \in 1 .. L
          /\ M[p].weight = parts[r].weight \/ (r = i + 1 /\ M[p].weight = parts[i].weight)
          /\ \E l \in 1 .. Len(parts[r].text) : M[p].text[k] = parts[r].text[l]
  BY <1>1, MergedFrom
<1>4. /\ \A p \in 1 .. L : \A k \in 1 .. Len(parts[p].text) :
           parts[p].text[k].at \in TextPieces /\ MayWeigh(parts[p], parts[p].text[k].at)
      /\ \A p \in 1 .. L : parts[p].text # <<>> =>
           Tally(parts[p].weight) = WeightOf(parts[p].text[1].at)
      /\ \A p \in 1 .. L : \A k, l \in 1 .. Len(parts[p].text) :
           k < l => parts[p].text[k].at < parts[p].text[l].at
      /\ \A p, q \in 1 .. L : p < q =>
           \A k \in 1 .. Len(parts[p].text), l \in 1 .. Len(parts[q].text) :
             parts[p].text[k].at < parts[q].text[l].at
      /\ \A e \in TextPieces : \E p \in 1 .. L : Holds(parts[p], e)
  BY DEF Whole
<1> HIDE DEF M, low, high
<1>5. ASSUME NEW p \in 1 .. L - 1, NEW k \in 1 .. Len(M[p].text)
      PROVE  M[p].text[k].at \in TextPieces /\ MayWeigh(M[p], M[p].text[k].at)
  <2>1. PICK r \in low(p) .. high(p) :
          /\ r \in 1 .. L
          /\ M[p].weight = parts[r].weight \/ (r = i + 1 /\ M[p].weight = parts[i].weight)
          /\ \E j \in 1 .. Len(parts[r].text) : M[p].text[k] = parts[r].text[j]
    BY <1>3
  <2>2. PICK j \in 1 .. Len(parts[r].text) : M[p].text[k] = parts[r].text[j]
    BY <2>1
  <2>3. M[p].text[k].at \in TextPieces /\ MayWeigh(parts[r], M[p].text[k].at)
    BY <1>4, <2>1, <2>2
  <2>4. CASE M[p].weight = parts[r].weight
    BY <2>3, <2>4 DEF MayWeigh
  <2>5. CASE r = i + 1 /\ M[p].weight = parts[i].weight
    <3>1. 1 .. 1 = {1}
      OBVIOUS
    <3>2. j = 1 /\ parts[i + 1].text # <<>> /\ i + 1 \in 1 .. L
      BY <2>1, <2>2, <2>5, <3>1
    <3>3. Tally(parts[i + 1].weight) = WeightOf(M[p].text[k].at)
      BY <1>4, <2>2, <2>5, <3>2
    <3> QED
      BY <2>3, <2>5, <3>3 DEF MayWeigh
  <2> QED
    BY <2>1, <2>4, <2>5
<1>6. ASSUME NEW p \in 1 .. L - 1, NEW q \in 1 .. L - 1, p < q,
             NEW k \in 1 .. Len(M[p].text), NEW l \in 1 .. Len(M[q].text)
      PROVE  M[p].text[k].at < M[q].text[l].at
  <2>1. PICK r \in low(p) .. high(p) :
          r \in 1 .. L /\ \E j \in 1 .. Len(parts[r].text) : M[p].text[k] = parts[r].text[j]
    BY <1>3
  <2>2. PICK s \in low(q) .. high(q) :
          s \in 1 .. L /\ \E j \in 1 .. Len(parts[s].text) : M[q].text[l] = parts[s].text[j]
    BY <1>3
  <2>3. r < s
    BY <1>6, <2>1, <2>2 DEF low, high
  <2> QED
    BY <1>4, <2>1, <2>2, <2>3
<1>7. ASSUME NEW p \in 1 .. L - 1, NEW k \in 1 .. Len(M[p].text), NEW l \in 1 .. Len(M[p].text), k < l
      PROVE  M[p].text[k].at < M[p].text[l].at
  <2>1. CASE p < i
    <3>1. p \in 1 .. i - 1 /\ p \in 1 .. L
      BY <1>1, <2>1
    <3> QED
      BY <1>2, <1>4, <1>7, <3>1
  <2>2. CASE p > i
    <3>1. p \in i + 1 .. L - 1 /\ p + 1 \in 1 .. L
      BY <1>1, <2>2
    <3> QED
      BY <1>2, <1>4, <1>7, <3>1
  <2>3. CASE p = i
    <3> DEFINE a == parts[i].text
               b == parts[i + 1].text
    <3>1. i \in 1 .. L /\ i + 1 \in 1 .. L /\ i < i + 1
          /\ a \in Seq([at : Nat, spelled : Pieces]) /\ b \in Seq([at : Nat, spelled : Pieces])
      <4>1. i \in 1 .. L /\ i + 1 \in 1 .. L /\ i < i + 1
        BY <1>1
      <4>2. parts[i] \in PartSet /\ parts[i + 1] \in PartSet
        BY <1>1, <4>1
      <4> QED
        BY <4>1, <4>2 DEF PartSet
    <3>2. /\ \A j, h \in 1 .. Len(a) : j < h => a[j].at < a[h].at
          /\ \A j, h \in 1 .. Len(b) : j < h => b[j].at < b[h].at
          /\ \A j \in 1 .. Len(a), h \in 1 .. Len(b) : a[j].at < b[h].at
      BY <1>4, <3>1
    <3> HIDE DEF a, b
    <3>3. Len(a) \in Nat /\ Len(b) \in Nat /\ Len(a \o b) = Len(a) + Len(b)
          /\ \A j \in 1 .. Len(a) + Len(b) : (a \o b)[j] = IF j <= Len(a) THEN a[j] ELSE b[j - Len(a)]
      BY <3>1
    <3>4. M[p].text = a \o b
      BY <1>2, <2>3 DEF a, b
    <3>5. k \in 1 .. Len(a) + Len(b) /\ l \in 1 .. Len(a) + Len(b)
      BY <3>3, <3>4
    <3>6. CASE l <= Len(a)
      <4>1. k \in 1 .. Len(a) /\ l \in 1 .. Len(a)
        BY <1>7, <3>3, <3>5, <3>6
      <4>2. (a \o b)[k] = a[k] /\ (a \o b)[l] = a[l]
        BY <3>3, <3>5, <4>1
      <4> QED
        BY <1>7, <3>2, <3>4, <4>1, <4>2
    <3>7. CASE ~(l <= Len(a)) /\ k <= Len(a)
      <4>1. k \in 1 .. Len(a) /\ l - Len(a) \in 1 .. Len(b)
        BY <3>3, <3>5, <3>7
      <4>2. (a \o b)[k] = a[k] /\ (a \o b)[l] = b[l - Len(a)]
        BY <3>3, <3>5, <3>7
      <4> QED
        BY <3>2, <3>4, <4>1, <4>2
    <3>8. CASE ~(k <= Len(a))
      <4>1. k - Len(a) \in 1 .. Len(b) /\ l - Len(a) \in 1 .. Len(b) /\ k - Len(a) < l - Len(a)
            /\ ~(l <= Len(a))
        BY <1>7, <3>3, <3>5, <3>8
      <4>2. (a \o b)[k] = b[k - Len(a)] /\ (a \o b)[l] = b[l - Len(a)]
        BY <3>3, <3>5, <3>8, <4>1
      <4> QED
        BY <3>2, <3>4, <4>1, <4>2
    <3> QED
      BY <3>6, <3>7, <3>8
  <2> QED
    BY <2>1, <2>2, <2>3
<1>8. ASSUME NEW e \in TextPieces PROVE \E p \in 1 .. L - 1 : Holds(M[p], e)
  BY <1>1, <1>4, MergedHolds DEF M
<1>9. ASSUME NEW p \in 1 .. L - 1, M[p].text # <<>>
      PROVE  Tally(M[p].weight) = WeightOf(M[p].text[1].at)
  <2>1. CASE p < i
    <3>1. p \in 1 .. i - 1 /\ p \in 1 .. L
      BY <1>1, <2>1
    <3> QED
      BY <1>2, <1>4, <1>9, <3>1
  <2>2. CASE p > i
    <3>1. p \in i + 1 .. L - 1 /\ p + 1 \in 1 .. L
      BY <1>1, <2>2
    <3> QED
      BY <1>2, <1>4, <1>9, <3>1
  <2>3. CASE p = i
    <3>1. i \in 1 .. L /\ i + 1 \in 1 .. L
      BY <1>1
    <3>2. parts[i].text \in Seq([at : Nat, spelled : Pieces])
          /\ parts[i + 1].text \in Seq([at : Nat, spelled : Pieces])
      <4>1. parts[i] \in PartSet /\ parts[i + 1] \in PartSet
        BY <1>1, <3>1
      <4> QED
        BY <4>1 DEF PartSet
    <3>3. M[i].text[1] = parts[i].text[1]
      <4>1. \A a, b \in Seq([at : Nat, spelled : Pieces]) : a # <<>> => (a \o b)[1] = a[1]
        OBVIOUS
      <4> QED
        BY <1>2, <3>2, <4>1
    <3> QED
      BY <1>2, <1>4, <2>3, <3>1, <3>3
  <2> QED
    BY <2>1, <2>2, <2>3
<1> QED
  BY <1>2, <1>5, <1>6, <1>7, <1>8, <1>9 DEF Whole, M

\* Parts not yet compared are of one piece each, and where there are several none
\* is empty.
Fresh(ps, i) ==
  /\ \A p \in 1 .. Len(ps) : p > i => Len(ps[p].text) = 1
  /\ Len(ps) > 1 => \A p \in 1 .. Len(ps) : ps[p].text # <<>>

LEMMA MergedFresh ==
  ASSUME NEW i \in Nat \ {0}, Whole(parts), i < Len(parts), Fresh(parts, i)
  PROVE  /\ Fresh(Merged(i), i) /\ Fresh(parts, i + 1)
         /\ parts[i].text # <<>> /\ Len(parts[i + 1].text) = 1
PROOF
<1> DEFINE L == Len(parts)
           M == Merged(i)
<1>1. parts \in Seq(PartSet) /\ L \in Nat /\ L > 1 /\ i \in 1 .. L /\ i + 1 \in 1 .. L
  BY DEF Whole
<1>2. /\ Len(M) = L - 1
      /\ \A p \in 1 .. i - 1 : M[p] = parts[p]
      /\ \A p \in i + 1 .. L - 1 : M[p] = parts[p + 1]
      /\ M[i].text = parts[i].text \o parts[i + 1].text
  BY <1>1, MergedParts
<1>3. \A p \in 1 .. L : parts[p].text # <<>> /\ (p > i => Len(parts[p].text) = 1)
  BY <1>1 DEF Fresh
<1>4. M[i].text # <<>>
  <2>1. parts[i].text \in Seq([at : Nat, spelled : Pieces])
        /\ parts[i + 1].text \in Seq([at : Nat, spelled : Pieces])
    <3>1. parts[i] \in PartSet /\ parts[i + 1] \in PartSet
      BY <1>1
    <3> QED
      BY <3>1 DEF PartSet
  <2> QED
    BY <1>1, <1>2, <1>3, <2>1
<1> HIDE DEF M
<1>5. ASSUME NEW p \in 1 .. L - 1
      PROVE  M[p].text # <<>> /\ (p > i => Len(M[p].text) = 1)
  <2>1. CASE p \in 1 .. i - 1
    <3>1. p \in 1 .. L /\ ~(p > i)
      BY <1>1, <2>1
    <3> QED
      BY <1>2, <1>3, <2>1, <3>1
  <2>2. CASE p = i
    BY <1>4, <2>2
  <2>3. CASE p \in i + 1 .. L - 1
    <3>1. p + 1 \in 1 .. L /\ p + 1 > i
      BY <1>1, <2>3
    <3> QED
      BY <1>2, <1>3, <2>3, <3>1
  <2> QED
    BY <1>1, <2>1, <2>2, <2>3
<1>6. Fresh(M, i)
  BY <1>2, <1>5 DEF Fresh
<1>7. Fresh(parts, i + 1)
  <2>1. \A p \in 1 .. L : p > i + 1 => p > i
    BY <1>1
  <2> QED
    BY <1>3, <2>1 DEF Fresh
<1>8. parts[i].text # <<>> /\ Len(parts[i + 1].text) = 1
  BY <1>1, <1>3
<1> QED
  BY <1>6, <1>7, <1>8 DEF M

-----------------------------------------------------------------------------
(* All texts, one after the other *)

Joined(f, seqs, n) == f = [i \in 1 .. n |-> IF i = 1 THEN seqs[i] ELSE f[i - 1] \o seqs[i]]

LEMMA JoinExists == ASSUME NEW seqs, NEW n \in Nat PROVE \E f : Joined(f, seqs, n)
PROOF
<1> DEFINE T == {m \in Nat : \E f : Joined(f, seqs, m)}
<1>1. 0 \in T
  <2> DEFINE f == [i \in 1 .. 0 |-> seqs[i]]
  <2>1. 1 .. 0 = {}
    OBVIOUS
  <2>2. Joined(f, seqs, 0)
    BY <2>1 DEF Joined
  <2> QED
    BY <2>2
<1>2. ASSUME NEW m \in Nat, m \in T PROVE m + 1 \in T
  <2>1. PICK f : Joined(f, seqs, m)
    BY <1>2
  <2>2. \A i \in 1 .. m : f[i] = IF i = 1 THEN seqs[i] ELSE f[i - 1] \o seqs[i]
    BY <2>1 DEF Joined
  <2> DEFINE last == IF m + 1 = 1 THEN seqs[m + 1] ELSE f[m] \o seqs[m + 1]
             g == [i \in 1 .. m + 1 |-> IF i = m + 1 THEN last ELSE f[i]]
  <2>3. ASSUME NEW i \in 1 .. m + 1
        PROVE  g[i] = IF i = 1 THEN seqs[i] ELSE g[i - 1] \o seqs[i]
    <3> HIDE DEF last
    <3>1. CASE i = m + 1
      <4>1. g[i] = last
        BY <3>1
      <4>2. i # 1 => i - 1 \in 1 .. m + 1 /\ i - 1 # m + 1 /\ i - 1 = m
        BY <3>1
      <4>3. i # 1 => g[i - 1] = f[m]
        BY <4>2
      <4> QED
        BY <3>1, <4>1, <4>3 DEF last
    <3>2. CASE i # m + 1
      <4>1. i \in 1 .. m /\ g[i] = f[i]
        BY <3>2
      <4>2. i # 1 => i - 1 \in 1 .. m + 1 /\ i - 1 # m + 1
        BY <3>2
      <4>3. i # 1 => g[i - 1] = f[i - 1]
        BY <4>2
      <4> QED
        BY <2>2, <4>1, <4>3
    <3> QED
      BY <3>1, <3>2
  <2>4. g = [i \in 1 .. m + 1 |-> g[i]]
    OBVIOUS
  <2> HIDE DEF g
  <2>5. Joined(g, seqs, m + 1)
    BY <2>3, <2>4 DEF Joined
  <2> QED
    BY <2>5
<1> HIDE DEF T
<1>3. Nat \subseteq T
  BY <1>1, <1>2, NumberInduction
<1> QED
  BY <1>3 DEF T

LEMMA FlattenIs ==
  ASSUME NEW seqs, Len(seqs) \in Nat \ {0}
  PROVE  \E f : Joined(f, seqs, Len(seqs)) /\ FlattenSeq(seqs) = f[Len(seqs)]
PROOF
<1> DEFINE f == CHOOSE g : Joined(g, seqs, Len(seqs))
<1>1. Joined(f, seqs, Len(seqs))
  BY JoinExists
<1>2. FlattenSeq(seqs) = f[Len(seqs)]
  BY DEF FlattenSeq, Joined
<1> QED
  BY <1>1, <1>2

Elements == [at : Nat, spelled : Pieces]

\* The texts of the first n parts, joined
JoinedTexts(s, ps, n) ==
  /\ s \in Seq(Elements)
  /\ \A k, l \in 1 .. Len(s) : k < l => s[k].at < s[l].at
  /\ \A k \in 1 .. Len(s) : \E p \in 1 .. n : \E j \in 1 .. Len(ps[p].text) : s[k] = ps[p].text[j]
  /\ \A p \in 1 .. n : \A j \in 1 .. Len(ps[p].text) : \E k \in 1 .. Len(s) : s[k] = ps[p].text[j]

LEMMA OneMoreText ==
  ASSUME NEW ps, Whole(ps), NEW n \in Nat, n + 1 <= Len(ps), NEW s, JoinedTexts(s, ps, n)
  PROVE  JoinedTexts(s \o ps[n + 1].text, ps, n + 1)
PROOF
<1> DEFINE b == ps[n + 1].text
           t == s \o b
<1>1. ps \in Seq(PartSet) /\ Len(ps) \in Nat /\ n + 1 \in 1 .. Len(ps)
  BY DEF Whole
<1>2. b \in Seq(Elements)
  <2>1. ps[n + 1] \in PartSet
    BY <1>1
  <2> QED
    BY <2>1 DEF PartSet, Elements
<1>3. s \in Seq(Elements) /\ \A k, l \in 1 .. Len(s) : k < l => s[k].at < s[l].at
  BY DEF JoinedTexts
<1>4. \A k, l \in 1 .. Len(b) : k < l => b[k].at < b[l].at
  BY <1>1 DEF Whole
<1>5. \A k \in 1 .. Len(s), l \in 1 .. Len(b) : s[k].at < b[l].at
  <2> TAKE k \in 1 .. Len(s), l \in 1 .. Len(b)
  <2>1. PICK p \in 1 .. n : \E j \in 1 .. Len(ps[p].text) : s[k] = ps[p].text[j]
    BY DEF JoinedTexts
  <2>2. p \in 1 .. Len(ps) /\ p < n + 1
    BY <1>1
  <2> QED
    BY <1>1, <2>1, <2>2 DEF Whole
<1>6. Len(s) \in Nat /\ Len(b) \in Nat /\ t \in Seq(Elements) /\ Len(t) = Len(s) + Len(b)
      /\ \A j \in 1 .. Len(s) + Len(b) : t[j] = IF j <= Len(s) THEN s[j] ELSE b[j - Len(s)]
  <2> HIDE DEF b
  <2> QED
    BY <1>2, <1>3
<1>7. 1 .. n + 1 = (1 .. n) \cup {n + 1}
  OBVIOUS
<1> HIDE DEF t
<1>8. \A k \in 1 .. Len(s) : k \in 1 .. Len(t) /\ t[k] = s[k]
  BY <1>6
<1>9. \A k \in 1 .. Len(b) : Len(s) + k \in 1 .. Len(t) /\ t[Len(s) + k] = b[k]
  <2> TAKE k \in 1 .. Len(b)
  <2>1. Len(s) + k \in 1 .. Len(s) + Len(b) /\ ~(Len(s) + k <= Len(s)) /\ (Len(s) + k) - Len(s) = k
    BY <1>6
  <2> QED
    BY <1>6, <2>1
<1>10. \A k \in 1 .. Len(t) : k \in 1 .. Len(s) \/ k - Len(s) \in 1 .. Len(b)
  BY <1>6
<1>11. ASSUME NEW k \in 1 .. Len(t), NEW l \in 1 .. Len(t), k < l PROVE t[k].at < t[l].at
  <2>1. CASE k \in 1 .. Len(s) /\ l \in 1 .. Len(s)
    BY <1>3, <1>8, <1>11, <2>1
  <2>2. CASE k \in 1 .. Len(s) /\ l - Len(s) \in 1 .. Len(b)
    <3>1. t[l] = b[l - Len(s)]
      BY <1>6, <2>2
    <3> QED
      BY <1>5, <1>8, <2>2, <3>1
  <2>3. CASE k - Len(s) \in 1 .. Len(b)
    <3>1. l - Len(s) \in 1 .. Len(b) /\ k - Len(s) < l - Len(s)
      BY <1>6, <1>11, <2>3
    <3>2. t[k] = b[k - Len(s)] /\ t[l] = b[l - Len(s)]
      BY <1>6, <2>3, <3>1
    <3> QED
      BY <1>4, <2>3, <3>1, <3>2
  <2> QED
    BY <1>6, <1>10, <1>11, <2>1, <2>2, <2>3
<1>12. ASSUME NEW k \in 1 .. Len(t)
       PROVE  \E p \in 1 .. n + 1 : \E j \in 1 .. Len(ps[p].text) : t[k] = ps[p].text[j]
  <2>1. CASE k \in 1 .. Len(s)
    <3>1. PICK p \in 1 .. n : \E j \in 1 .. Len(ps[p].text) : s[k] = ps[p].text[j]
      BY <2>1 DEF JoinedTexts
    <3> QED
      BY <1>7, <1>8, <2>1, <3>1
  <2>2. CASE k - Len(s) \in 1 .. Len(b)
    <3>1. t[k] = b[k - Len(s)]
      BY <1>6, <2>2
    <3> QED
      BY <1>7, <2>2, <3>1
  <2> QED
    BY <1>10, <2>1, <2>2
<1>13. ASSUME NEW p \in 1 .. n + 1, NEW j \in 1 .. Len(ps[p].text)
       PROVE  \E k \in 1 .. Len(t) : t[k] = ps[p].text[j]
  <2>1. CASE p \in 1 .. n
    <3>1. PICK k \in 1 .. Len(s) : s[k] = ps[p].text[j]
      BY <2>1 DEF JoinedTexts
    <3> QED
      BY <1>8, <3>1
  <2>2. CASE p = n + 1
    BY <1>9, <2>2
  <2> QED
    BY <1>7, <2>1, <2>2
<1>14. JoinedTexts(t, ps, n + 1)
  BY <1>6, <1>11, <1>12, <1>13 DEF JoinedTexts
<1> QED
  BY <1>14 DEF t

LEMMA AllTexts ==
  ASSUME NEW ps, Whole(ps), Len(ps) > 0
  PROVE  JoinedTexts(FlattenSeq([p \in 1 .. Len(ps) |-> ps[p].text]), ps, Len(ps))
PROOF
<1> DEFINE L == Len(ps)
           seqs == [p \in 1 .. L |-> ps[p].text]
<1>1. L \in Nat \ {0} /\ ps \in Seq(PartSet)
  BY DEF Whole
<1>2. Len(seqs) = L /\ \A p \in 1 .. L : seqs[p] = ps[p].text
  BY <1>1
<1> HIDE DEF seqs
<1>3. PICK f : Joined(f, seqs, L) /\ FlattenSeq(seqs) = f[L]
  BY <1>1, <1>2, FlattenIs
<1>4. \A i \in 1 .. L : f[i] = IF i = 1 THEN ps[i].text ELSE f[i - 1] \o ps[i].text
  BY <1>2, <1>3 DEF Joined
<1> DEFINE T == {n \in Nat : n \in 1 .. L => JoinedTexts(f[n], ps, n)}
<1>5. 0 \in T
  OBVIOUS
<1>6. ASSUME NEW n \in Nat, n \in T PROVE n + 1 \in T
  <2> SUFFICES ASSUME n + 1 \in 1 .. L PROVE JoinedTexts(f[n + 1], ps, n + 1)
    OBVIOUS
  <2>1. n + 1 <= L
    BY <1>1
  <2>2. CASE n = 0
    <3>1. 1 \in 1 .. L /\ f[n + 1] = ps[1].text /\ n + 1 = 1
      BY <1>1, <1>4, <2>2
    <3>2. ps[1] \in PartSet
      BY <1>1, <3>1
    <3>3. ps[1].text \in Seq(Elements)
      BY <3>2 DEF PartSet, Elements
    <3>4. 1 .. 1 = {1}
      OBVIOUS
    <3>5. \A k, l \in 1 .. Len(ps[1].text) : k < l => ps[1].text[k].at < ps[1].text[l].at
      BY <3>1 DEF Whole
    <3>6. JoinedTexts(ps[1].text, ps, 1)
      BY <3>3, <3>4, <3>5 DEF JoinedTexts
    <3> QED
      BY <3>1, <3>6
  <2>3. CASE n # 0
    <3>1. n \in 1 .. L /\ n + 1 # 1 /\ (n + 1) - 1 = n
      BY <1>1, <2>1, <2>3
    <3>2. JoinedTexts(f[n], ps, n)
      BY <1>6, <3>1
    <3>3. f[n + 1] = f[n] \o ps[n + 1].text
      BY <1>4, <3>1
    <3> QED
      BY <2>1, <3>2, <3>3, OneMoreText
  <2> QED
    BY <2>2, <2>3
<1> HIDE DEF T
<1>7. Nat \subseteq T
  BY <1>5, <1>6, NumberInduction
<1>8. L \in T /\ L \in 1 .. L
  BY <1>1, <1>7
<1>9. JoinedTexts(f[L], ps, L)
  BY <1>8 DEF T
<1> QED
  BY <1>3, <1>9 DEF seqs

\* The texts are the pieces of text, once each and in order.
LEMMA TextsInOrder ==
  ASSUME NEW ps, Whole(ps), Len(ps) > 0, NEW s, JoinedTexts(s, ps, Len(ps))
  PROVE  /\ Len(s) = Cardinality(TextPieces)
         /\ \A k \in 1 .. Len(s) - 1 : s[k].at < s[k + 1].at
PROOF
<1> DEFINE n == Len(s)
           f == [k \in 1 .. n |-> s[k].at]
<1>1. ps \in Seq(PartSet) /\ n \in Nat /\ Len(ps) \in Nat
  BY DEF Whole, JoinedTexts
<1>2. \A k \in 1 .. n : s[k].at \in TextPieces
  <2> TAKE k \in 1 .. n
  <2>1. PICK p \in 1 .. Len(ps) : \E j \in 1 .. Len(ps[p].text) : s[k] = ps[p].text[j]
    BY DEF JoinedTexts
  <2> QED
    BY <2>1 DEF Whole
<1>3. \A k, l \in 1 .. n : k < l => s[k].at < s[l].at
  BY DEF JoinedTexts
<1>4. \A i \in TextPieces : \E k \in 1 .. n : s[k].at = i
  <2> TAKE i \in TextPieces
  <2>1. PICK p \in 1 .. Len(ps) : Holds(ps[p], i)
    BY DEF Whole
  <2>2. PICK j \in 1 .. Len(ps[p].text) : ps[p].text[j].at = i
    BY <2>1 DEF Holds
  <2>3. PICK k \in 1 .. n : s[k] = ps[p].text[j]
    BY DEF JoinedTexts
  <2> QED
    BY <2>2, <2>3
<1>5. \A k, l \in 1 .. n : f[k] = f[l] => k = l
  <2> TAKE k \in 1 .. n, l \in 1 .. n
  <2>1. s[k].at \in Nat /\ s[l].at \in Nat
    BY <1>2 DEF TextPieces
  <2>2. k < l \/ k = l \/ l < k
    BY <1>1
  <2> QED
    BY <1>3, <2>1, <2>2
<1>6. f \in [1 .. n -> TextPieces]
  BY <1>2
<1>7. f \in Bijection(1 .. n, TextPieces)
  BY <1>4, <1>5, <1>6 DEF Bijection, Injection, Surjection, IsInjective
<1>8. ExistsBijection(1 .. n, TextPieces)
  BY <1>7 DEF ExistsBijection
<1>9. Cardinality(TextPieces) = n
  BY <1>1, <1>8, FS_CountingElements
<1>10. \A k \in 1 .. n - 1 : k \in 1 .. n /\ k + 1 \in 1 .. n /\ k < k + 1
  BY <1>1
<1> QED
  BY <1>3, <1>9, <1>10

LEMMA WholeMeans ==
  ASSUME Whole(parts), Len(parts) > 0,
         \A p \in 1 .. Len(parts) - 1 : ~SurelyEqual(parts[p].weight, parts[p + 1].weight)
  PROVE  WeightsByBrackets
PROOF
<1> DEFINE all == FlattenSeq([p \in 1 .. Len(parts) |-> parts[p].text])
<1>1. JoinedTexts(all, parts, Len(parts))
  BY AllTexts
<1> HIDE DEF all
<1>2. /\ Len(all) = Cardinality(TextPieces)
      /\ \A k \in 1 .. Len(all) - 1 : all[k].at < all[k + 1].at
  BY <1>1, TextsInOrder
<1>3. \A i \in TextPieces : \E p \in 1 .. Len(parts) : Holds(parts[p], i) /\ MayWeigh(parts[p], i)
  <2> TAKE i \in TextPieces
  <2>1. PICK p \in 1 .. Len(parts) : Holds(parts[p], i)
    BY DEF Whole
  <2> QED
    BY <2>1 DEF Whole, Holds
<1>4. \A p \in 1 .. Len(parts) : parts[p].text # <<>> =>
        Tally(parts[p].weight) = WeightOf(parts[p].text[1].at)
  BY DEF Whole
<1> QED
  BY <1>2, <1>3, <1>4 DEF WeightsByBrackets, MayWeigh, all

-----------------------------------------------------------------------------
(* The prompt stays the same, and so does all that is said of it *)

LEMMA SameBrackets ==
  ASSUME prompt' = prompt
  PROVE  /\ \A S, p, q : Count(S, p, q)' = Count(S, p, q)
         /\ \A p : Closers(p)' = Closers(p)
         /\ \A p, i : Open(p, i)' <=> Open(p, i)
         /\ \A p, i : Closes(p, i)' <=> Closes(p, i)
PROOF
<1>1. \A S, p, q : Count(S, p, q)' = Count(S, p, q)
  <2> TAKE S, p, q
  <2>1. {i \in p .. q : prompt'[i] \in S} = {i \in p .. q : prompt[i] \in S}
    OBVIOUS
  <2> QED
    BY <2>1 DEF Count
<1>2. \A p : Closers(p)' = Closers(p)
  BY DEF Closers
<1>3. \A p, i : Open(p, i)' <=> Open(p, i)
  BY <1>1, <1>2 DEF Open
<1>4. \A p, i : Closes(p, i)' <=> Closes(p, i)
  BY <1>1, <1>2, <1>3 DEF Closes
<1> QED
  BY <1>1, <1>2, <1>3, <1>4

LEMMA SameWeights ==
  ASSUME prompt' = prompt
  PROVE  /\ \A i : IsText(i)' <=> IsText(i)
         /\ TextPieces' = TextPieces
         /\ \A i, R, Q : Weighted(i, R, Q)' = Weighted(i, R, Q)
         /\ \A i : WeightOf(i)' = WeightOf(i)
PROOF
<1>1. \A p, i : (Open(p, i)' <=> Open(p, i)) /\ (Closes(p, i)' <=> Closes(p, i))
  BY SameBrackets
<1>2. \A i : IsText(i)' <=> IsText(i)
  BY <1>1 DEF IsText
<1>3. TextPieces' = TextPieces
  BY <1>2 DEF TextPieces
<1>4. \A p : ByFactor(p)' <=> ByFactor(p)
  BY <1>1 DEF ByFactor
<1>5. \A b, i : Enclosing(b, i)' = Enclosing(b, i)
  BY <1>1 DEF Enclosing
<1>6. ASSUME NEW i, NEW R, NEW Q
      PROVE  Weighted(i, R, Q)' = Weighted(i, R, Q)
  <2>1. /\ {p \in Enclosing("(", i)' \ R : ~ByFactor(p)'} = {p \in Enclosing("(", i) \ R : ~ByFactor(p)}
        /\ {p \in Enclosing("(", i)' \ R : ByFactor(p)'} = {p \in Enclosing("(", i) \ R : ByFactor(p)}
        /\ Enclosing("[", i)' \ Q = Enclosing("[", i) \ Q
    BY <1>4, <1>5
  <2> QED
    BY <2>1 DEF Weighted
<1>7. ASSUME NEW i
      PROVE  WeightOf(i)' = WeightOf(i)
  <2>1. /\ {p \in Enclosing("(", i)' : ~ByFactor(p)'} = {p \in Enclosing("(", i) : ~ByFactor(p)}
        /\ {p \in Enclosing("(", i)' : ByFactor(p)'} = {p \in Enclosing("(", i) : ByFactor(p)}
        /\ Enclosing("[", i)' = Enclosing("[", i)
    BY <1>4, <1>5
  <2> QED
    BY <2>1 DEF WeightOf
<1> QED
  BY <1>2, <1>3, <1>6, <1>7

LEMMA SameReading ==
  ASSUME prompt' = prompt
  PROVE  /\ \A ps : Whole(ps)' <=> Whole(ps)
         /\ \A ps, openRound, openSquare, n, P, Q :
              ReadSoFar(ps, openRound, openSquare, n, P, Q)' <=>
                ReadSoFar(ps, openRound, openSquare, n, P, Q)
         /\ \A P, Q, n : BothMatching(P, Q, n)' <=> BothMatching(P, Q, n)
PROOF
<1>1. \A i : IsText(i)' <=> IsText(i)
  BY SameWeights
<1>2. TextPieces' = TextPieces /\ \A i : WeightOf(i)' = WeightOf(i)
  BY SameWeights
<1>3. \A i, R, Q : Weighted(i, R, Q)' = Weighted(i, R, Q)
  BY SameWeights
<1>4. \A p, i : (Open(p, i)' <=> Open(p, i)) /\ (Closes(p, i)' <=> Closes(p, i))
  BY SameBrackets
<1>5. \A b, p, q : Excess(b, p, q)' = Excess(b, p, q)
  BY SameBrackets DEF Excess
<1>6. \A ps : Whole(ps)' <=> Whole(ps)
  <2>1. \A part, i : MayWeigh(part, i)' <=> MayWeigh(part, i)
    BY <1>2 DEF MayWeigh, SurelyDiffer
  <2> QED
    BY <1>2, <2>1 DEF Whole
<1>7. \A ps, n : TextsRead(ps, n)' <=> TextsRead(ps, n)
  BY <1>1 DEF TextsRead
<1>8. \A b, P, n : Pending(b, P, n)' <=> Pending(b, P, n)
  BY <1>4 DEF Pending
<1>9. \A ps, R, Q : Weighs(ps, R, Q)' <=> Weighs(ps, R, Q)
  BY <1>3 DEF Weighs
<1>10. \A b, P, n : Matching(b, P, n)' <=> Matching(b, P, n)
  BY <1>4, <1>5 DEF Matching
<1> QED
  BY <1>6, <1>7, <1>8, <1>9, <1>10 DEF ReadSoFar, BothMatching

-----------------------------------------------------------------------------
(* The weights follow the brackets *)

\* While there is more to read, the stacks hold all open brackets; after that
\* they are emptied from below.
SoFar(ps, openRound, openSquare, n) ==
  \E P, Q \in Seq(1 .. n) :
    /\ ReadSoFar(ps, openRound, openSquare, n, P, Q)
    /\ n < Len(prompt) => BothMatching(P, Q, n)

\* No two neighbours before i were computed alike.
UnlikeUpTo(ps, i) ==
  \A p \in 1 .. Len(ps) - 1 : p < i => ~SurelyEqual(ps[p].weight, ps[p + 1].weight)

\* The inductive invariant: what is read so far, and then that it is whole, and
\* up to where neighbours are known to differ.
WeightsInv ==
  /\ promptPc \in {"reading", "thrown", "merging", "tokenizing", "padding", "encoded"}
  /\ prompt \in Seq(Pieces) /\ read \in 0 .. Len(prompt)
  /\ promptPc = "reading" => item = 1 /\ SoFar(parts, round, square, read)
  /\ promptPc = "thrown" => parts \in Seq(PartSet)
  /\ promptPc \in {"merging", "tokenizing", "padding", "encoded"} => Whole(parts) /\ Len(parts) > 0
  /\ promptPc = "merging" => item \in Nat \ {0} /\ Fresh(parts, item) /\ UnlikeUpTo(parts, item)
  /\ promptPc \in {"tokenizing", "padding", "encoded"} => UnlikeUpTo(parts, Len(parts))

\* Reading one more piece
LEMMA ReadOn ==
  ASSUME WeightsInv, promptPc = "reading", read < Len(prompt), read' = read + 1,
         prompt' = prompt, promptPc' = promptPc, item' = item,
         NEW P, NEW Q, ReadSoFar(parts', round', square', read + 1, P, Q),
         BothMatching(P, Q, read + 1)
  PROVE  WeightsInv'
PROOF
<1>1. read \in Nat /\ Len(prompt) \in Nat /\ read + 1 \in 0 .. Len(prompt)
  BY DEF WeightsInv
<1>2. P \in Seq(1 .. read + 1) /\ Q \in Seq(1 .. read + 1)
  BY DEF ReadSoFar, Pending
<1>3. ReadSoFar(parts, round, square, read, P, Q)' /\ BothMatching(P, Q, read)'
  BY SameReading
<1>4. SoFar(parts, round, square, read)'
  BY <1>2, <1>3 DEF SoFar
<1> QED
  BY <1>1, <1>4 DEF WeightsInv

\* What is known before a piece is read
LEMMA ReadingKnows ==
  ASSUME WeightsInv, promptPc = "reading", read < Len(prompt)
  PROVE  /\ read \in Nat /\ Len(prompt) \in Nat /\ read + 1 <= Len(prompt)
         /\ \E P, Q : ReadSoFar(parts, round, square, read, P, Q) /\ BothMatching(P, Q, read)
PROOF
<1>1. read \in Nat /\ Len(prompt) \in Nat /\ read + 1 <= Len(prompt)
  BY DEF WeightsInv
<1>2. SoFar(parts, round, square, read)
  BY DEF WeightsInv
<1> QED
  BY <1>1, <1>2 DEF SoFar

LEMMA ReadingKeeps ==
  ASSUME WeightsInv,
         OpenRound \/ OpenSquare \/ CloseWithFactor \/ CloseRound \/ CloseSquare \/ ReadText
  PROVE  WeightsInv'
PROOF
<1>1. promptPc = "reading" /\ read < Len(prompt) /\ read' = read + 1
      /\ prompt' = prompt /\ item' = item /\ promptPc' \in {promptPc, "thrown"}
  BY DEF OpenRound, OpenSquare, CloseWithFactor, CloseRound, CloseSquare, ReadText, Reads
<1>2. read \in Nat /\ Len(prompt) \in Nat /\ read + 1 <= Len(prompt)
  BY <1>1, ReadingKnows
<1>11. CASE promptPc' = "thrown"
  <2>1. CloseWithFactor /\ parts' = parts
    BY <1>1, <1>11 DEF OpenRound, OpenSquare, CloseWithFactor, CloseRound, CloseSquare, ReadText
  <2>2. prompt \in Seq(Pieces) /\ read + 1 \in 0 .. Len(prompt) /\ parts \in Seq(PartSet)
    BY <1>1, <1>2 DEF WeightsInv, SoFar, ReadSoFar, TextsRead
  <2> QED
    BY <1>1, <1>11, <2>1, <2>2 DEF WeightsInv
<1> SUFFICES ASSUME promptPc' = promptPc PROVE WeightsInv'
  BY <1>1, <1>11
<1>3. PICK P, Q : ReadSoFar(parts, round, square, read, P, Q) /\ BothMatching(P, Q, read)
  BY <1>1, ReadingKnows
<1> DEFINE Done(R, S) == ReadSoFar(parts', round', square', read + 1, R, S) /\ BothMatching(R, S, read + 1)
<1>4. CASE OpenRound
  <2>1. prompt[read + 1] = "(" /\ parts' = parts /\ square' = square
        /\ round' = Append(round, Len(parts) + 1)
    BY <1>4 DEF OpenRound, Reads, Piece
  <2>2. Done(Append(P, read + 1), Q)
    BY <1>2, <1>3, <2>1, RoundOpens
  <2> QED
    BY <1>1, <2>2, ReadOn
<1>5. CASE OpenSquare
  <2>1. prompt[read + 1] = "[" /\ parts' = parts /\ round' = round
        /\ square' = Append(square, Len(parts) + 1)
    BY <1>5 DEF OpenSquare, Reads, Piece
  <2>2. Done(P, Append(Q, read + 1))
    BY <1>2, <1>3, <2>1, SquareOpens
  <2> QED
    BY <1>1, <2>2, ReadOn
<1>6. CASE CloseWithFactor /\ round = <<>>
  <2>1. prompt[read + 1] = ":w)" /\ parts' = parts /\ round' = round /\ square' = square
    BY <1>1, <1>6 DEF CloseWithFactor, Reads, Piece
  <2>2. Done(P, Q)
    BY <1>2, <1>3, <1>6, <2>1, FactorDropped
  <2> QED
    BY <1>1, <2>2, ReadOn
<1>7. CASE round # <<>> /\ (CloseWithFactor \/ CloseRound)
  <2>1. /\ prompt[read + 1] \in {")", ":w)"} /\ round' = Pop(round) /\ square' = square
        /\ parts' = MultiplyRange(Top(round), IF prompt[read + 1] = ":w)" THEN read + 1 ELSE RoundMultiplier)
    BY <1>1, <1>7 DEF CloseWithFactor, CloseRound, Reads, Piece
  <2>2. Done(Pop(P), Q)
    BY <1>2, <1>3, <1>7, <2>1, RoundCloses
  <2> QED
    BY <1>1, <2>2, ReadOn
<1>8. CASE CloseSquare
  <2>1. prompt[read + 1] = "]" /\ round' = round /\ square' = Pop(square) /\ square # <<>>
        /\ parts' = MultiplyRange(Top(square), SquareMultiplier)
    BY <1>8 DEF CloseSquare, Reads, Piece
  <2>2. Done(P, Pop(Q))
    BY <1>2, <1>3, <2>1, SquareCloses
  <2> QED
    BY <1>1, <2>2, ReadOn
<1>9. CASE ReadText
  <2>1. /\ round' = round /\ square' = square /\ parts' = Append(parts, Part(prompt[read + 1]))
        /\ \/ prompt[read + 1] \in {"\\(", "\\)", "BREAK", "text", " "}
           \/ prompt[read + 1] = ")" /\ round = <<>>
           \/ prompt[read + 1] = "]" /\ square = <<>>
    BY <1>9 DEF ReadText, Reads, Piece
  <2>2. Done(P, Q)
    BY <1>2, <1>3, <2>1, PlainText
  <2> QED
    BY <1>1, <2>2, ReadOn
<1>10. CloseRound => round # <<>>
  BY DEF CloseRound
<1> QED
  BY <1>4, <1>5, <1>6, <1>7, <1>8, <1>9, <1>10

LEMMA CloseOpenKeeps == ASSUME WeightsInv, CloseOpen PROVE WeightsInv'
PROOF
<1> DEFINE n == Len(prompt)
<1>1. promptPc = "reading" /\ read = n /\ read' = read /\ prompt' = prompt /\ item' = item /\ item = 1
      /\ prompt \in Seq(Pieces) /\ n \in Nat
  BY DEF CloseOpen, WeightsInv
<1>2. PICK P \in Seq(1 .. n), Q \in Seq(1 .. n) : ReadSoFar(parts, round, square, n, P, Q)
  BY <1>1 DEF WeightsInv, SoFar
<1>3. ASSUME promptPc' = promptPc, NEW R, NEW S, ReadSoFar(parts', round', square', n, R, S)
      PROVE  WeightsInv'
  <2>1. R \in Seq(1 .. n) /\ S \in Seq(1 .. n)
    BY <1>3 DEF ReadSoFar, Pending
  <2>2. ReadSoFar(parts, round, square, read, R, S)'
    BY <1>1, <1>3, SameReading
  <2>3. SoFar(parts, round, square, read)'
    BY <1>1, <2>1, <2>2 DEF SoFar
  <2> QED
    BY <1>1, <1>3, <2>3 DEF WeightsInv
<1>4. CASE round # <<>>
  <2>1. promptPc' = promptPc /\ square' = square /\ round' = Tail(round)
        /\ parts' = MultiplyRange(Head(round), RoundMultiplier)
    BY <1>4 DEF CloseOpen
  <2>2. ReadSoFar(parts', round', square', n, Tail(P), Q)
    BY <1>1, <1>2, <1>4, <2>1, RoundLeftOpen
  <2> QED
    BY <1>3, <2>1, <2>2
<1>5. CASE round = <<>> /\ square # <<>>
  <2>1. promptPc' = promptPc /\ round' = round /\ square' = Tail(square)
        /\ parts' = MultiplyRange(Head(square), SquareMultiplier)
    BY <1>5 DEF CloseOpen
  <2>2. ReadSoFar(parts', round', square', n, P, Tail(Q))
    BY <1>1, <1>2, <1>5, <2>1, SquareLeftOpen
  <2> QED
    BY <1>3, <2>1, <2>2
<1>6. CASE round = <<>> /\ square = <<>>
  <2>1. promptPc' = "merging"
        /\ parts' = IF parts = <<>> THEN <<[text |-> <<>>, weight |-> Unweighted]>> ELSE parts
    BY <1>6 DEF CloseOpen
  <2>2. P = <<>> /\ Q = <<>>
    <3>1. Starts(parts, round, P) /\ Starts(parts, square, Q)
      BY <1>2 DEF ReadSoFar
    <3> QED
      BY <1>6, <3>1, EmptyStacks
  <2>3. Whole(parts) /\ \A p \in 1 .. Len(parts) : Len(parts[p].text) = 1
    BY <1>1, <1>2, <1>6, <2>2, AllRead
  <2>4. Whole(parts') /\ Len(parts') > 0 /\ Fresh(parts', 1)
    <3>1. CASE parts = <<>>
      <4> DEFINE one == [text |-> <<>>, weight |-> Unweighted]
      <4>1. one \in PartSet /\ one.text = <<>>
        BY DEF PartSet, WeightSet, Unweighted
      <4>2. parts' = <<one>>
        BY <2>1, <3>1
      <4> HIDE DEF one
      <4>3. parts' \in Seq(PartSet) /\ Len(parts') = 1 /\ parts'[1].text = <<>>
        BY <4>1, <4>2
      <4>4. 1 .. 1 = {1} /\ \A p \in 1 .. 1 : 1 .. Len(parts'[p].text) = {}
        BY <4>3
      <4>5. TextPieces = {}
        BY <2>3, <3>1 DEF Whole
      <4>6. Whole(parts')
        BY <4>3, <4>4, <4>5 DEF Whole
      <4>7. Fresh(parts', 1)
        BY <4>3 DEF Fresh
      <4> QED
        BY <4>3, <4>6, <4>7
    <3>2. CASE parts # <<>>
      <4>1. parts \in Seq(PartSet) /\ parts' = parts
        BY <2>1, <2>3, <3>2 DEF Whole
      <4>2. Fresh(parts, 1)
        <5>1. \A p \in 1 .. Len(parts) : parts[p].text # <<>>
          <6>1. Len(<<>>) # 1
            OBVIOUS
          <6> QED
            BY <2>3, <6>1
        <5> QED
          BY <2>3, <5>1 DEF Fresh
      <4> QED
        BY <2>3, <3>2, <4>1, <4>2
    <3> QED
      BY <3>1, <3>2
  <2>5. Whole(parts)'
    BY <1>1, <2>4, SameReading
  <2>6. UnlikeUpTo(parts', 1)
    BY <2>4 DEF UnlikeUpTo
  <2> QED
    BY <1>1, <2>1, <2>4, <2>5, <2>6 DEF WeightsInv
<1> QED
  BY <1>4, <1>5, <1>6

LEMMA MergingKeeps == ASSUME WeightsInv, MergeParts PROVE WeightsInv'
PROOF
<1> DEFINE L == Len(parts)
<1>1. promptPc = "merging" /\ prompt' = prompt /\ read' = read /\ Whole(parts) /\ L > 0
      /\ prompt \in Seq(Pieces) /\ read \in 0 .. Len(prompt) /\ item \in Nat \ {0}
      /\ Fresh(parts, item) /\ UnlikeUpTo(parts, item)
  BY DEF MergeParts, WeightsInv
<1>2. parts \in Seq(PartSet) /\ L \in Nat
  BY <1>1 DEF Whole
<1>3. CASE item >= L
  <2>1. promptPc' = "tokenizing" /\ parts' = parts
    BY <1>1, <1>3 DEF MergeParts
  <2>2. Whole(parts)'
    BY <1>1, <2>1, SameReading
  <2>3. UnlikeUpTo(parts, L)
    <3>1. \A p \in 1 .. L - 1 : p < item
      BY <1>1, <1>2, <1>3
    <3> QED
      BY <1>1, <3>1 DEF UnlikeUpTo
  <2> QED
    BY <1>1, <2>1, <2>2, <2>3 DEF WeightsInv
<1>4. CASE item < L /\ ~SurelyDiffer(Tally(parts[item].weight), Tally(parts[item + 1].weight))
           /\ parts' = Merged(item) /\ item' = item /\ promptPc' = "merging"
  <2>1. /\ Fresh(Merged(item), item)
        /\ parts[item].text # <<>> /\ Len(parts[item + 1].text) = 1
    BY <1>1, <1>4, MergedFresh
  <2>2. Whole(Merged(item))
    BY <1>1, <1>4, <2>1, MergedWhole
  <2>3. Whole(parts)'
    BY <1>1, <1>4, <2>2, SameReading
  <2>4. /\ Len(parts') = L - 1 /\ \A p \in 1 .. item - 1 : parts'[p] = parts[p]
        /\ parts'[item].weight = parts[item].weight
    BY <1>1, <1>2, <1>4, MergedParts
  <2>5. ASSUME NEW p \in 1 .. Len(parts') - 1, p < item
        PROVE  ~SurelyEqual(parts'[p].weight, parts'[p + 1].weight)
    <3>1. p \in 1 .. item - 1 /\ p \in 1 .. L - 1 /\ (p + 1 \in 1 .. item - 1 \/ p + 1 = item)
      BY <1>1, <1>2, <2>4, <2>5
    <3>2. parts'[p].weight = parts[p].weight /\ parts'[p + 1].weight = parts[p + 1].weight
      BY <2>4, <3>1
    <3> QED
      BY <1>1, <2>5, <3>1, <3>2 DEF UnlikeUpTo
  <2>6. UnlikeUpTo(parts', item')
    BY <1>4, <2>5 DEF UnlikeUpTo
  <2>7. Len(parts') > 0
    BY <1>1, <1>2, <1>4, <2>4
  <2> QED
    BY <1>1, <1>4, <2>1, <2>3, <2>6, <2>7 DEF WeightsInv
<1>5. CASE item < L /\ ~SurelyEqual(parts[item].weight, parts[item + 1].weight)
           /\ parts' = parts /\ item' = item + 1 /\ promptPc' = "merging"
  <2>1. Whole(parts)'
    BY <1>1, <1>5, SameReading
  <2>2. Fresh(parts, item + 1)
    BY <1>1, <1>5, MergedFresh
  <2>3. UnlikeUpTo(parts, item + 1)
    <3>1. \A p \in 1 .. L - 1 : p < item + 1 => p < item \/ p = item
      BY <1>1, <1>2
    <3> QED
      BY <1>1, <1>5, <3>1 DEF UnlikeUpTo
  <2> QED
    BY <1>1, <1>5, <2>1, <2>2, <2>3 DEF WeightsInv
<1> QED
  BY <1>1, <1>2, <1>3, <1>4, <1>5 DEF MergeParts

\* Tokenizing and padding leave the parts alone.
LEMMA EncodingKeeps ==
  ASSUME WeightsInv, Tokenize \/ Pad
  PROVE  WeightsInv'
PROOF
<1>1. promptPc \in {"tokenizing", "padding"} /\ promptPc' \in {"tokenizing", "padding", "encoded"}
      /\ prompt' = prompt /\ read' = read /\ parts' = parts
  BY DEF Tokenize, Pad
<1>2. Whole(parts)'
  BY <1>1, SameReading DEF WeightsInv
<1> QED
  BY <1>1, <1>2 DEF WeightsInv

LEMMA NothingRead == ASSUME PromptInit PROVE WeightsInv
PROOF
<1>1. prompt \in Seq(Pieces) /\ read = 0 /\ 0 \in 0 .. Len(prompt)
  BY PromptAssumption DEF PromptInit
<1>2. 1 .. 0 = {} /\ <<>> \in Seq(1 .. 0) /\ Len(<<>>) = 0
  OBVIOUS
<1>3. \A b : Pending(b, <<>>, 0) /\ Matching(b, <<>>, 0)
  BY <1>2 DEF Pending, Matching
<1>4. TextsRead(parts, 0) /\ Starts(parts, round, <<>>) /\ Starts(parts, square, <<>>)
  BY <1>2 DEF PromptInit, TextsRead, Starts
<1>5. Weighs(parts, Members(<<>>), Members(<<>>))
  BY <1>2 DEF PromptInit, Weighs
<1>6. SoFar(parts, round, square, read)
  BY <1>1, <1>2, <1>3, <1>4, <1>5 DEF SoFar, ReadSoFar, BothMatching
<1> QED
  BY <1>1, <1>6 DEF PromptInit, WeightsInv

LEMMA WeightsStep == WeightsInv /\ [PromptNext]_promptVars => WeightsInv'
PROOF
<1> SUFFICES ASSUME WeightsInv, [PromptNext]_promptVars PROVE WeightsInv'
  OBVIOUS
<1>1. CASE UNCHANGED promptVars \/ PromptEnded
  <2>1. prompt' = prompt /\ promptPc' = promptPc /\ read' = read /\ item' = item
        /\ parts' = parts /\ round' = round /\ square' = square
    BY <1>1 DEF promptVars, PromptEnded
  <2>2. (Whole(parts)' <=> Whole(parts)) /\ (SoFar(parts, round, square, read)' <=> SoFar(parts, round, square, read))
    BY <2>1, SameReading DEF SoFar
  <2> QED
    BY <2>1, <2>2 DEF WeightsInv
<1> QED
  BY <1>1, ReadingKeeps, CloseOpenKeeps, MergingKeeps, EncodingKeeps DEF PromptNext

\* Whatever the brackets of a prompt, closed, left open or closing nothing, a prompt
\* that does not throw keeps each piece of text but a stray ":w)", once and in
\* order; each part has the multipliers of the brackets around its first text, and
\* none whose weight must be another float; and no neighbours are left that were
\* computed alike, however rounding merges those that were not
\* (parse_prompt_attention).
THEOREM WeightsFollowBrackets == PromptSpec => []WeightsByBrackets
PROOF
<1>1. WeightsInv => WeightsByBrackets
  <2> SUFFICES ASSUME WeightsInv PROVE WeightsByBrackets
    OBVIOUS
  <2>1. CASE Parsed
    <3>1. Whole(parts) /\ Len(parts) > 0 /\ UnlikeUpTo(parts, Len(parts))
      BY <2>1 DEF WeightsInv, Parsed
    <3>2. \A p \in 1 .. Len(parts) - 1 : p < Len(parts)
      BY <3>1 DEF Whole
    <3> QED
      BY <3>1, <3>2, WholeMeans DEF UnlikeUpTo
  <2>2. CASE ~Parsed
    BY <2>2 DEF WeightsByBrackets
  <2> QED
    BY <2>1, <2>2
<1> QED
  BY NothingRead, WeightsStep, <1>1, PTL DEF PromptSpec

Multiplier == {RoundMultiplier, SquareMultiplier} \cup Nat

Weight == [by : Seq(Multiplier), sign : {-1, 1}]

WeightsTyped(ps) == \A p \in 1 .. Len(ps) : ps[p].weight \in Weight

\* The inductive invariant, next to WeightsInv and TokensInv
PromptTyped ==
  /\ prompt \in Prompts /\ read \in 0 .. Len(prompt)
  /\ round \in Seq(Nat \ {0}) /\ square \in Seq(Nat \ {0})
  /\ WeightsTyped(parts) /\ Len(mask) \in Nat

LEMMA PartsAre == ASSUME WeightsInv PROVE parts \in Seq(PartSet) /\ Len(parts) \in Nat
PROOF
<1>1. parts \in Seq(PartSet)
  BY DEF WeightsInv, SoFar, ReadSoFar, TextsRead, Whole
<1> QED
  BY <1>1

LEMMA MultipliedTyped ==
  ASSUME WeightsInv, WeightsTyped(parts), NEW from \in Nat, NEW m \in Multiplier
  PROVE  WeightsTyped(MultiplyRange(from, m))
PROOF
<1> DEFINE ps == MultiplyRange(from, m)
<1>1. Multiplied(ps, from, m)
  <2>1. m \in Int
    BY DEF Multiplier, RoundMultiplier, SquareMultiplier
  <2> QED
    BY <2>1, PartsAre, MultipliedIs
<1> HIDE DEF ps
<1>2. ASSUME NEW p \in 1 .. Len(ps) PROVE ps[p].weight \in Weight
  <2>1. p \in 1 .. Len(parts) /\ parts[p].weight \in Weight
    BY <1>1 DEF Multiplied, WeightsTyped
  <2> DEFINE w == parts[p].weight
             v == [w EXCEPT !.by = Append(@, m)]
  <2>2. ps[p].weight = v \/ ps[p].weight = w
    BY <1>1, <2>1 DEF Multiplied
  <2>3. v \in Weight
    <3>1. w.by \in Seq(Multiplier) /\ w = [by |-> w.by, sign |-> w.sign] /\ w.sign \in {-1, 1}
      BY <2>1 DEF Weight
    <3>2. Append(w.by, m) \in Seq(Multiplier)
      BY <3>1, AppendProperties
    <3>3. v = [by |-> Append(w.by, m), sign |-> w.sign]
      BY <3>1
    <3> QED
      BY <3>1, <3>2, <3>3 DEF Weight
  <2> QED
    BY <2>1, <2>2, <2>3
<1> QED
  BY <1>2 DEF WeightsTyped, ps

\* The brackets that are open after one was closed, and where that one began
LEMMA StackTyped ==
  ASSUME NEW stack \in Seq(Nat \ {0}), stack # <<>>
  PROVE  /\ Pop(stack) \in Seq(Nat \ {0}) /\ Top(stack) \in Nat
         /\ Tail(stack) \in Seq(Nat \ {0}) /\ Head(stack) \in Nat
PROOF
<1>1. Len(stack) \in Nat \ {0} /\ \A i \in 1 .. Len(stack) : stack[i] \in Nat \ {0}
  OBVIOUS
<1>2. Top(stack) \in Nat
  BY <1>1 DEF Top
<1>3. Pop(stack) \in Seq(Nat \ {0})
  BY <1>1 DEF Pop
<1> QED
  BY <1>2, <1>3

\* What closing a bracket, or ending one at the end, leaves
LEMMA ClosedTyped ==
  ASSUME WeightsInv, WeightsTyped(parts), NEW stack \in Seq(Nat \ {0}), stack # <<>>,
         NEW m \in Multiplier
  PROVE  /\ Pop(stack) \in Seq(Nat \ {0}) /\ WeightsTyped(MultiplyRange(Top(stack), m))
         /\ Tail(stack) \in Seq(Nat \ {0}) /\ WeightsTyped(MultiplyRange(Head(stack), m))
PROOF
<1>1. /\ Pop(stack) \in Seq(Nat \ {0}) /\ Top(stack) \in Nat
      /\ Tail(stack) \in Seq(Nat \ {0}) /\ Head(stack) \in Nat
  BY StackTyped
<1>2. \A from \in Nat : WeightsTyped(MultiplyRange(from, m))
  BY MultipliedTyped
<1> QED
  BY <1>1, <1>2

LEMMA PromptStaysTyped ==
  ASSUME WeightsInv, TokensInv, PromptTyped, [PromptNext]_promptVars
  PROVE  PromptTyped'
PROOF
<1>1. /\ parts \in Seq(PartSet) /\ Len(parts) \in Nat /\ prompt \in Seq(Pieces) /\ Len(prompt) \in Nat
      /\ WeightsTyped(parts)
  BY PartsAre, PromptAssumption DEF PromptTyped
<1>2. ASSUME Reads(Pieces), UNCHANGED <<prompt, mask>>,
             round' \in Seq(Nat \ {0}), square' \in Seq(Nat \ {0}), WeightsTyped(parts')
      PROVE  PromptTyped'
  <2>1. read' \in 0 .. Len(prompt)
    BY <1>1, <1>2 DEF Reads, PromptTyped
  <2> QED
    BY <1>2, <2>1 DEF PromptTyped, WeightsTyped
<1>3. \A ps \in SUBSET Pieces : Reads(ps) => Reads(Pieces)
  BY DEF Reads
<1>4. CASE OpenRound \/ OpenSquare
  <2>1. Reads(Pieces) /\ UNCHANGED <<prompt, parts, mask>>
    BY <1>3, <1>4 DEF OpenRound, OpenSquare, Pieces, encoding
  <2>2. round' \in Seq(Nat \ {0}) /\ square' \in Seq(Nat \ {0})
    <3>1. Len(parts) + 1 \in Nat \ {0}
      BY <1>1
    <3>2. round \in Seq(Nat \ {0}) /\ square \in Seq(Nat \ {0})
      BY DEF PromptTyped
    <3>3. \/ round' = Append(round, Len(parts) + 1) /\ square' = square
          \/ square' = Append(square, Len(parts) + 1) /\ round' = round
      BY <1>4 DEF OpenRound, OpenSquare
    <3>4. \A s \in Seq(Nat \ {0}) : Append(s, Len(parts) + 1) \in Seq(Nat \ {0})
      BY <3>1, AppendProperties
    <3> QED
      BY <3>2, <3>3, <3>4
  <2> QED
    BY <1>1, <1>2, <2>1, <2>2
<1>5. CASE CloseWithFactor
  <2>1. Reads(Pieces) /\ UNCHANGED <<prompt, square, mask>>
    BY <1>3, <1>5 DEF CloseWithFactor, Pieces, encoding
  <2>2. round' \in Seq(Nat \ {0}) /\ WeightsTyped(parts')
    <3>0. round \in Seq(Nat \ {0})
      BY DEF PromptTyped
    <3>1. CASE UNCHANGED <<round, parts>>
      BY <1>1, <3>0, <3>1
    <3>2. CASE round # <<>> /\ round' = Pop(round) /\ parts' = MultiplyRange(Top(round), read + 1)
      <4>1. read + 1 \in Multiplier
        BY <1>1 DEF PromptTyped, Multiplier
      <4> QED
        BY <1>1, <3>0, <3>2, <4>1, ClosedTyped
    <3> QED
      BY <1>5, <3>1, <3>2 DEF CloseWithFactor
  <2> QED
    BY <1>2, <2>1, <2>2 DEF PromptTyped
<1>6. CASE CloseRound
  <2>1. Reads(Pieces) /\ UNCHANGED <<prompt, square, mask>>
    BY <1>3, <1>6 DEF CloseRound, Pieces, encoding
  <2>2. round' \in Seq(Nat \ {0}) /\ WeightsTyped(parts')
    <3>1. round # <<>> /\ round' = Pop(round) /\ parts' = MultiplyRange(Top(round), RoundMultiplier)
      BY <1>6 DEF CloseRound
    <3>2. round \in Seq(Nat \ {0}) /\ RoundMultiplier \in Multiplier
      BY DEF PromptTyped, Multiplier
    <3> QED
      BY <1>1, <3>1, <3>2, ClosedTyped
  <2> QED
    BY <1>2, <2>1, <2>2 DEF PromptTyped
<1>7. CASE CloseSquare
  <2>1. Reads(Pieces) /\ UNCHANGED <<prompt, round, mask>>
    BY <1>3, <1>7 DEF CloseSquare, Pieces, encoding
  <2>2. square' \in Seq(Nat \ {0}) /\ WeightsTyped(parts')
    <3>1. square # <<>> /\ square' = Pop(square) /\ parts' = MultiplyRange(Top(square), SquareMultiplier)
      BY <1>7 DEF CloseSquare
    <3>2. square \in Seq(Nat \ {0}) /\ SquareMultiplier \in Multiplier
      BY DEF PromptTyped, Multiplier
    <3> QED
      BY <1>1, <3>1, <3>2, ClosedTyped
  <2> QED
    BY <1>2, <2>1, <2>2 DEF PromptTyped
<1>8. CASE ReadText
  <2>1. Reads(Pieces) /\ UNCHANGED <<prompt, round, square, mask>> /\ parts' = Append(parts, Part(Piece))
    BY <1>3, <1>8 DEF ReadText, Pieces, encoding
  <2>2. Part(Piece).weight \in Weight
    <3>1. <<>> \in Seq(Multiplier)
      OBVIOUS
    <3> QED
      BY <3>1 DEF Part, Weight, Unweighted
  <2>3. WeightsTyped(parts')
    <3> DEFINE new == Part(Piece)
    <3> HIDE DEF new
    <3>1. parts \in Seq(PartSet \cup {new}) /\ new \in PartSet \cup {new}
      BY <1>1
    <3>2. Len(parts') = Len(parts) + 1 /\ parts'[Len(parts) + 1] = new
          /\ \A p \in 1 .. Len(parts) : parts'[p] = parts[p]
      BY <2>1, <3>1 DEF new
    <3>3. ASSUME NEW p \in 1 .. Len(parts') PROVE parts'[p].weight \in Weight
      <4>1. p \in 1 .. Len(parts) \/ p = Len(parts) + 1
        BY <1>1, <3>2
      <4> QED
        BY <1>1, <2>2, <3>2, <4>1 DEF WeightsTyped, new
    <3> QED
      BY <3>3 DEF WeightsTyped
  <2> QED
    BY <1>2, <2>1, <2>3 DEF PromptTyped
<1>9. CASE CloseOpen
  <2>1. UNCHANGED <<prompt, read, mask>>
    BY <1>9 DEF CloseOpen, encoding
  <2>2. CASE round # <<>>
    <3>1. round' = Tail(round) /\ square' = square /\ parts' = MultiplyRange(Head(round), RoundMultiplier)
      BY <1>9, <2>2 DEF CloseOpen
    <3>2. WeightsTyped(parts') /\ round' \in Seq(Nat \ {0})
      <4>1. round \in Seq(Nat \ {0}) /\ RoundMultiplier \in Multiplier
        BY DEF PromptTyped, Multiplier
      <4> QED
        BY <1>1, <2>2, <3>1, <4>1, ClosedTyped
    <3> QED
      BY <2>1, <3>1, <3>2 DEF PromptTyped, WeightsTyped
  <2>3. CASE round = <<>> /\ square # <<>>
    <3>1. round' = round /\ square' = Tail(square) /\ parts' = MultiplyRange(Head(square), SquareMultiplier)
      BY <1>9, <2>3 DEF CloseOpen
    <3>2. WeightsTyped(parts') /\ square' \in Seq(Nat \ {0})
      <4>1. square \in Seq(Nat \ {0}) /\ SquareMultiplier \in Multiplier
        BY DEF PromptTyped, Multiplier
      <4> QED
        BY <1>1, <2>3, <3>1, <4>1, ClosedTyped
    <3> QED
      BY <2>1, <3>1, <3>2 DEF PromptTyped, WeightsTyped
  <2>4. CASE round = <<>> /\ square = <<>>
    <3>1. /\ UNCHANGED <<round, square>>
          /\ parts' = IF parts = <<>> THEN <<[text |-> <<>>, weight |-> Unweighted]>> ELSE parts
      BY <1>9, <2>4 DEF CloseOpen
    <3>2. WeightsTyped(parts')
      <4>1. Unweighted \in Weight
        BY DEF Unweighted, Weight
      <4> QED
        BY <1>1, <3>1, <4>1 DEF WeightsTyped
    <3> QED
      BY <2>1, <3>1, <3>2 DEF PromptTyped, WeightsTyped
  <2> QED
    BY <2>2, <2>3, <2>4
<1>10. CASE MergeParts
  <2>1. UNCHANGED <<prompt, read, round, square, mask>>
    BY <1>10 DEF MergeParts, encoding
  <2>2. CASE parts' = parts
    BY <2>1, <2>2 DEF PromptTyped, WeightsTyped
  <2>3. CASE parts' # parts
    <3>1. item \in Nat \ {0} /\ item < Len(parts) /\ parts' = Merged(item)
      BY <1>1, <1>10, <2>3 DEF MergeParts, WeightsInv
    <3>2. /\ Len(parts') = Len(parts) - 1 /\ parts'[item].weight = parts[item].weight
          /\ \A p \in 1 .. item - 1 : parts'[p] = parts[p]
          /\ \A p \in item + 1 .. Len(parts) - 1 : parts'[p] = parts[p + 1]
      BY <1>1, <3>1, MergedParts
    <3>3. ASSUME NEW p \in 1 .. Len(parts') PROVE parts'[p].weight \in Weight
      <4>1. p \in 1 .. item - 1 \/ p = item \/ p \in item + 1 .. Len(parts) - 1
        BY <1>1, <3>1, <3>2
      <4>2. p \in 1 .. Len(parts) /\ p + 1 \in 1 .. Len(parts) /\ item \in 1 .. Len(parts)
        BY <1>1, <3>1, <3>2
      <4> QED
        BY <1>1, <3>2, <4>1, <4>2 DEF WeightsTyped
    <3>4. WeightsTyped(parts')
      BY <3>3 DEF WeightsTyped
    <3> QED
      BY <2>1, <3>4 DEF PromptTyped, WeightsTyped
  <2> QED
    BY <2>2, <2>3
<1>11. CASE Tokenize
  <2>1. UNCHANGED <<prompt, read, round, square, parts, mask>>
    BY <1>11 DEF Tokenize
  <2> QED
    BY <2>1 DEF PromptTyped, WeightsTyped
<1>12. CASE Pad
  <2>1. UNCHANGED <<prompt, read, round, square, parts>> /\ promptPc' = "encoded"
    BY <1>12 DEF Pad
  <2>2. Len(tokens) \in Nat /\ MaxLength \in Nat
    BY <1>12, PromptAssumption DEF Pad, TokensInv, Aligned
  <2> DEFINE missing == IF Len(tokens) < MaxLength THEN MaxLength - Len(tokens) ELSE 0
  <2>3. missing \in Nat /\ mask' = Repeat(1, Len(tokens)) \o Repeat(0, missing)
    BY <1>12, <2>2 DEF Pad
  <2> HIDE DEF missing
  <2>4. Repeat(1, Len(tokens)) \in Seq({0, 1})
    BY <2>2 DEF Repeat
  <2>5. mask' \in Seq({0, 1})
    BY <2>3, <2>4, RepeatAppended
  <2>6. Len(mask') \in Nat
    BY <2>5
  <2> QED
    BY <2>1, <2>6 DEF PromptTyped, WeightsTyped
<1>13. CASE PromptEnded \/ UNCHANGED promptVars
  <2>1. UNCHANGED <<prompt, read, round, square, parts, mask>>
    BY <1>13 DEF PromptEnded, promptVars
  <2> QED
    BY <2>1 DEF PromptTyped, WeightsTyped
<1> QED
  BY <1>4, <1>5, <1>6, <1>7, <1>8, <1>9, <1>10, <1>11, <1>12, <1>13 DEF PromptNext

\* What is known of a prompt in every state
PromptKnown == WeightsInv /\ TokensInv /\ PromptTyped

\* It holds in every state.
LEMMA PromptKnownHolds == PromptSpec => []PromptKnown
PROOF
<1>1. PromptInit => PromptKnown
  <2> SUFFICES ASSUME PromptInit PROVE PromptKnown
    OBVIOUS
  <2>1. Len(prompt) \in Nat
    BY PromptAssumption DEF PromptInit
  <2>2. PromptTyped
    BY <2>1 DEF PromptInit, PromptTyped, WeightsTyped
  <2> QED
    BY <2>2, NothingRead, TokensInitially DEF PromptKnown
<1>2. PromptKnown /\ [PromptNext]_promptVars => PromptKnown'
  BY WeightsStep, TokensStep, PromptStaysTyped DEF PromptKnown
<1> QED
  BY <1>1, <1>2, PTL DEF PromptSpec

\* For every prompt a weight is made of the multipliers of brackets and of factors
\* written in it, and the stacks hold positions of parts
\* (parse_prompt_attention).
THEOREM PromptTypes == PromptSpec => []PromptTypeOK
PROOF
<1>1. PromptKnown => PromptTypeOK
  BY DEF PromptKnown, TokensInv, PromptTyped, WeightsTyped, Weight, Multiplier, PromptTypeOK
<1> QED
  BY PromptKnownHolds, <1>1, PTL

-----------------------------------------------------------------------------
(* The loops over a prompt end *)

PromptStage ==
  IF promptPc = "reading" THEN 4 ELSE IF promptPc = "merging" THEN 3
  ELSE IF promptPc = "tokenizing" THEN 2 ELSE IF promptPc = "padding" THEN 1 ELSE 0

ReadsOn == read < read' /\ read' <= Len(prompt)

\* A bracket that was left open is closed.
ClosesOne == read' = read /\ Len(round') + Len(square') < Len(round) + Len(square)

\* A step leaves a later stage; reads a piece or closes a bracket; leaves fewer
\* parts; or moves on among the parts there are, and the template's two.
PromptCloser ==
  \/ PromptStage' < PromptStage
  \/ promptPc = "reading" /\ promptPc' = promptPc /\ prompt' = prompt /\ (ReadsOn \/ ClosesOne)
  \/ promptPc = "merging" /\ promptPc' = promptPc /\ Len(parts') < Len(parts)
  \/ /\ promptPc \in {"merging", "tokenizing"} /\ promptPc' = promptPc /\ parts' = parts
     /\ item < item' /\ item' <= Len(parts) + 1

\* Closing what was left open takes one bracket at a time (the two loops after the
\* one over the matches in parse_prompt_attention).
LEMMA CloseOpenCloser ==
  ASSUME WeightsInv, PromptTyped, CloseOpen
  PROVE  PromptCloser
PROOF
<1>1. /\ promptPc = "reading" /\ prompt' = prompt /\ read' = read
      /\ round \in Seq(Nat \ {0}) /\ square \in Seq(Nat \ {0})
  BY DEF CloseOpen, PromptTyped
<1>2. Len(round) \in Nat /\ Len(square) \in Nat
  BY <1>1
<1>3. CASE round # <<>>
  <2>1. round' = Tail(round) /\ square' = square /\ promptPc' = promptPc
    BY <1>3 DEF CloseOpen
  <2>2. Len(round') = Len(round) - 1 /\ Len(square') = Len(square)
    BY <1>1, <1>3, <2>1
  <2>3. ClosesOne
    <3>1. Len(round') + Len(square') < Len(round) + Len(square)
      BY <1>2, <2>2
    <3> QED
      BY <1>1, <3>1 DEF ClosesOne
  <2> QED
    BY <1>1, <2>1, <2>3 DEF PromptCloser
<1>4. CASE round = <<>> /\ square # <<>>
  <2>1. square' = Tail(square) /\ round' = round /\ promptPc' = promptPc
    BY <1>4 DEF CloseOpen
  <2>2. Len(square') = Len(square) - 1 /\ Len(round') = Len(round)
    BY <1>1, <1>4, <2>1
  <2>3. ClosesOne
    <3>1. Len(round') + Len(square') < Len(round) + Len(square)
      BY <1>2, <2>2
    <3> QED
      BY <1>1, <3>1 DEF ClosesOne
  <2> QED
    BY <1>1, <2>1, <2>3 DEF PromptCloser
<1>5. CASE round = <<>> /\ square = <<>>
  BY <1>1, <1>5 DEF CloseOpen, PromptCloser, PromptStage
<1> QED
  BY <1>3, <1>4, <1>5

\* Merging leaves fewer parts or compares the next two (the loop that erases from
\* the vector it goes through).
LEMMA MergeCloser ==
  ASSUME WeightsInv, PromptTyped, MergeParts
  PROVE  PromptCloser
PROOF
<1>1. promptPc = "merging" /\ item \in Nat \ {0} /\ Len(parts) \in Nat
  BY PartsAre DEF MergeParts, WeightsInv
<1>2. CASE item >= Len(parts)
  BY <1>1, <1>2 DEF MergeParts, PromptCloser, PromptStage
<1>3. CASE item < Len(parts) /\ parts' = Merged(item) /\ promptPc' = promptPc
  <2>1. Len(parts') = Len(parts) - 1
    BY <1>1, <1>3, PartsAre, MergedParts
  <2> QED
    BY <1>1, <1>3, <2>1 DEF PromptCloser
<1>4. CASE item < Len(parts) /\ parts' = parts /\ item' = item + 1 /\ promptPc' = promptPc
  BY <1>1, <1>4 DEF PromptCloser
<1> QED
  BY <1>1, <1>2, <1>3, <1>4 DEF MergeParts

\* Every prompt is encoded, or throws, in the end, whatever its brackets: each step of parsing,
\* merging and tokenizing reads on, closes a bracket, or leaves fewer parts or fewer
\* to look at; merging erases from the vector it runs through, and no part is passed
\* over or looked at for ever (parse_prompt_attention, LLMEmbedder::tokenize).
THEOREM PromptEnds == PromptSpec => [][PromptCloser]_promptVars
PROOF
<1>1. PromptKnown /\ [PromptNext]_promptVars => [PromptCloser]_promptVars
  <2> SUFFICES ASSUME WeightsInv, TokensInv, PromptTyped, PromptNext, ~(UNCHANGED promptVars)
               PROVE  PromptCloser
    BY DEF PromptKnown
  <2>1. ASSUME Reads(Pieces), prompt' = prompt, promptPc' = promptPc PROVE PromptCloser
    <3>1. read \in Nat /\ Len(prompt) \in Nat
      BY DEF WeightsInv
    <3> QED
      BY <2>1, <3>1 DEF Reads, PromptCloser, ReadsOn
  <2>2. \A ps \in SUBSET Pieces : Reads(ps) => Reads(Pieces)
    BY DEF Reads
  <2>7. CASE promptPc = "reading" /\ promptPc' = "thrown"
    BY <2>7 DEF PromptCloser, PromptStage
  <2>3. CASE OpenRound \/ OpenSquare \/ CloseWithFactor \/ CloseRound \/ CloseSquare
    BY <2>1, <2>2, <2>3, <2>7
       DEF OpenRound, OpenSquare, CloseWithFactor, CloseRound, CloseSquare, Pieces, Reads
  <2>4. CASE ReadText
    BY <2>1, <2>2, <2>4 DEF ReadText, Pieces
  <2>5. CASE Tokenize
    <3>1. /\ promptPc = "tokenizing" /\ item' = item + 1 /\ parts' = parts
          /\ promptPc' = IF item > Len(parts) THEN "padding" ELSE promptPc
      BY <2>5 DEF Tokenize
    <3>2. item \in Nat /\ Len(parts) \in Nat
      BY <3>1, PartsAre DEF TokensInv
    <3> QED
      BY <3>1, <3>2 DEF PromptCloser, PromptStage
  <2>6. CASE Pad
    BY <2>6 DEF Pad, PromptCloser, PromptStage
  <2> QED
    BY <2>3, <2>4, <2>5, <2>6, CloseOpenCloser, MergeCloser DEF PromptNext, PromptEnded
<1> QED
  BY PromptKnownHolds, <1>1, PTL DEF PromptSpec

-----------------------------------------------------------------------------
(* Room for the tensors of a call *)

\* f counts what the elements of s add up to, one after the other, to n.
AddsUp(s, f, n) ==
  /\ f \in [0 .. Len(s) -> 0 .. n] /\ f[0] = 0 /\ f[Len(s)] = n
  /\ \A k \in 1 .. Len(s) : f[k] = f[k - 1] + s[k]

Total(s, n) == s \in Seq(Nat) /\ n \in Nat /\ \E f : AddsUp(s, f, n)

LEMMA TotalOfNone == Total(<<>>, 0)
PROOF
<1>1. AddsUp(<<>>, [k \in 0 .. 0 |-> 0], 0)
  BY DEF AddsUp
<1> QED
  BY <1>1 DEF Total

LEMMA TotalOfOne == ASSUME NEW x \in Nat PROVE Total(<<x>>, x)
PROOF
<1>1. AddsUp(<<x>>, [k \in 0 .. 1 |-> IF k = 0 THEN 0 ELSE x], x)
  BY DEF AddsUp
<1> QED
  BY <1>1 DEF Total

\* n tensors of one size (Several)
LEMMA TotalOfSeveral ==
  ASSUME NEW n \in Nat, NEW size \in Nat
  PROVE  Total(Several(n, size), n * size) /\ Len(Several(n, size)) = n
PROOF
<1> DEFINE s == Several(n, size)
           f == [k \in 0 .. n |-> k * size]
<1>1. s \in Seq(Nat) /\ Len(s) = n /\ \A k \in 1 .. n : s[k] = size
  BY DEF Several
<1>2. \A k \in 0 .. n : k * size \in Nat /\ k * size <= n * size
  <2> TAKE k \in 0 .. n
  <2>1. n * size = k * size + (n - k) * size /\ k * size \in Nat /\ (n - k) * size \in Nat
    OBVIOUS
  <2> QED
    BY <2>1
<1>3. \A k \in 1 .. n : k * size = (k - 1) * size + size
  OBVIOUS
<1>4. n * size \in Nat /\ 0 * size = 0
  OBVIOUS
<1>5. f \in [0 .. n -> 0 .. n * size]
  BY <1>2, <1>4
<1>6. f[0] = 0 /\ f[n] = n * size
  BY <1>4
<1>7. \A k \in 1 .. n : f[k] = f[k - 1] + size
  BY <1>3
<1> HIDE DEF s, f
<1>8. AddsUp(s, f, n * size)
  BY <1>1, <1>5, <1>6, <1>7 DEF AddsUp
<1> QED
  BY <1>1, <1>4, <1>8 DEF Total, s

\* Sums of sequences that follow each other add up.
LEMMA TotalOfBoth ==
  ASSUME NEW s, NEW t, NEW a, NEW b, Total(s, a), Total(t, b)
  PROVE  Total(s \o t, a + b) /\ Len(s \o t) = Len(s) + Len(t)
PROOF
<1>1. /\ s \in Seq(Nat) /\ t \in Seq(Nat) /\ a \in Nat /\ b \in Nat
      /\ Len(s) \in Nat /\ Len(t) \in Nat
  BY DEF Total
<1>2. PICK f : AddsUp(s, f, a)
  BY DEF Total
<1>3. PICK g : AddsUp(t, g, b)
  BY DEF Total
<1> DEFINE L == Len(s) + Len(t)
           h == [k \in 0 .. L |-> IF k <= Len(s) THEN f[k] ELSE a + g[k - Len(s)]]
<1>4. s \o t \in Seq(Nat) /\ Len(s \o t) = L
  BY <1>1, ConcatProperties
<1>5. \A k \in 1 .. L : (s \o t)[k] = IF k <= Len(s) THEN s[k] ELSE t[k - Len(s)]
  BY <1>1
<1>6. h \in [0 .. L -> 0 .. a + b]
  <2> SUFFICES ASSUME NEW k \in 0 .. L
               PROVE (IF k <= Len(s) THEN f[k] ELSE a + g[k - Len(s)]) \in 0 .. a + b
    OBVIOUS
  <2>1. CASE k <= Len(s)
    <3>1. k \in 0 .. Len(s) /\ f \in [0 .. Len(s) -> 0 .. a]
      BY <1>1, <1>2, <2>1 DEF AddsUp
    <3>2. f[k] \in 0 .. a
      BY <3>1
    <3> QED
      BY <1>1, <2>1, <3>2
  <2>2. CASE ~(k <= Len(s))
    <3>1. k - Len(s) \in 0 .. Len(t) /\ g \in [0 .. Len(t) -> 0 .. b]
      BY <1>1, <1>3, <2>2 DEF AddsUp
    <3>2. g[k - Len(s)] \in 0 .. b
      BY <3>1
    <3> QED
      BY <1>1, <2>2, <3>2
  <2> QED
    BY <2>1, <2>2
<1>7. h[0] = 0
  BY <1>1, <1>2 DEF AddsUp
<1>8. h[L] = a + b
  BY <1>1, <1>2, <1>3 DEF AddsUp
<1>9. \A k \in 1 .. L : h[k] = h[k - 1] + (s \o t)[k]
  <2> TAKE k \in 1 .. L
  <2>1. CASE k <= Len(s)
    BY <1>1, <1>2, <1>5, <2>1 DEF AddsUp
  <2>2. CASE k > Len(s)
    <3> DEFINE j == k - Len(s)
    <3>1. j \in 1 .. Len(t) /\ k - 1 - Len(s) = j - 1 /\ (s \o t)[k] = t[j] /\ h[k] = a + g[j]
      BY <1>1, <1>5, <2>2
    <3>2. g[j] = g[j - 1] + t[j] /\ g[j - 1] \in 0 .. b /\ t[j] \in Nat
      <4>1. g \in [0 .. Len(t) -> 0 .. b] /\ j - 1 \in 0 .. Len(t)
        BY <1>1, <1>3, <3>1 DEF AddsUp
      <4>2. g[j - 1] \in 0 .. b
        BY <4>1
      <4>3. g[j] = g[j - 1] + t[j]
        BY <1>3, <3>1 DEF AddsUp
      <4>4. t[j] \in Nat
        BY <1>1, <3>1
      <4> QED
        BY <4>2, <4>3, <4>4
    <3>3. h[k - 1] = a + g[j - 1]
      <4>1. CASE k - 1 = Len(s)
        <5>1. h[k - 1] = a /\ j - 1 = 0 /\ g[0] = 0
          BY <1>1, <1>2, <1>3, <4>1 DEF AddsUp
        <5> QED
          BY <1>1, <5>1
      <4>2. CASE k - 1 > Len(s)
        <5>1. k - 1 \in 0 .. L /\ ~(k - 1 <= Len(s))
          BY <1>1, <4>2
        <5>2. h[k - 1] = a + g[k - 1 - Len(s)]
          BY <5>1
        <5> QED
          BY <3>1, <5>2
      <4>3. k - 1 = Len(s) \/ k - 1 > Len(s)
        BY <1>1, <2>2
      <4> QED
        BY <4>1, <4>2, <4>3
    <3> HIDE DEF h, j
    <3> QED
      BY <1>1, <3>1, <3>2, <3>3
  <2> QED
    BY <1>1, <2>1, <2>2
<1> HIDE DEF h
<1>10. AddsUp(s \o t, h, a + b)
  BY <1>4, <1>6, <1>7, <1>8, <1>9 DEF AddsUp
<1>11. a + b \in Nat
  BY <1>1
<1> QED
  BY <1>4, <1>10, <1>11 DEF Total
\* Images take whole numbers of floats.
LEMMA ImagesTake ==
  ASSUME NEW image \in Images
  PROVE  Shown(image) \in Nat /\ Latent(image) \in Nat
PROOF
<1>1. image.w \in Nat /\ image.h \in Nat
  BY WorkMemoryAssumption
<1>2. image.w * image.h \in Nat
  BY <1>1
<1>3. 3 * 256 * image.w * image.h = 768 * (image.w * image.h)
      /\ 128 * image.w * image.h = 128 * (image.w * image.h)
  BY <1>1
<1> QED
  BY <1>2, <1>3 DEF Shown, Latent

\* What the text encoder's tensors take (get_learned_condition)
ConditionTotal(n) == n + n * n + States(n)

LEMMA ConditionTakes ==
  ASSUME NEW n \in TokenTotals
  PROVE  /\ n \in Nat /\ n * n \in Nat /\ States(n) \in Nat
         /\ Total(Condition(n), ConditionTotal(n)) /\ Len(Condition(n)) = 3
PROOF
<1>1. n \in Nat /\ HiddenSize \in Nat
  BY WorkMemoryAssumption
<1>2. n * n \in Nat /\ States(n) \in Nat
  <2>1. HiddenSize * n \in Nat /\ 3 * HiddenSize * n = 3 * (HiddenSize * n)
    BY <1>1
  <2> QED
    BY <1>1, <2>1 DEF States
<1> DEFINE q == n * n
           h == States(n)
           f == [k \in 0 .. 3 |-> CASE k = 0 -> 0 [] k = 1 -> n [] k = 2 -> n + q [] k = 3 -> n + q + h]
<1> HIDE DEF q, h
<1>3. q \in Nat /\ h \in Nat
  BY <1>2 DEF q, h
<1>4. AddsUp(<<n, q, h>>, f, n + q + h)
  BY <1>1, <1>3 DEF AddsUp
<1>5. Total(<<n, q, h>>, n + q + h)
  BY <1>1, <1>3, <1>4 DEF Total
<1> QED
  BY <1>1, <1>2, <1>5 DEF Condition, ConditionTotal, q, h

\* What the tensors of sample and sample_k_diffusion take
MethodCount(c) == IF c.method = "euler" THEN 1 ELSE 2
PreviewTotal(c) == IF c.preview THEN Shown(c.image) ELSE 0
SamplingTotal(c) == 4 * Latent(c.image) + PreviewTotal(c) + MethodCount(c) * Latent(c.image) + 2 * c.runs

LEMMA SamplingTakes ==
  ASSUME NEW c \in Calls, c.op = "generate"
  PROVE  Total(Sampling(c), SamplingTotal(c))
PROOF
<1>1. c.image \in Images /\ c.runs \in Nat /\ c.preview \in BOOLEAN
  BY WorkMemoryAssumption DEF Calls
<1>2. Latent(c.image) \in Nat /\ Shown(c.image) \in Nat
  BY <1>1, ImagesTake
<1>3. Total(Several(4, Latent(c.image)), 4 * Latent(c.image))
  BY <1>2, TotalOfSeveral
<1>4. Total(IF c.preview THEN <<Shown(c.image)>> ELSE <<>>, PreviewTotal(c))
  BY <1>1, <1>2, TotalOfOne, TotalOfNone DEF PreviewTotal
<1>5. Total(MethodTensors(c), MethodCount(c) * Latent(c.image))
  <2>1. MethodCount(c) \in Nat
    BY DEF MethodCount
  <2> QED
    BY <1>2, <2>1, TotalOfSeveral DEF MethodTensors, MethodCount
<1>6. Total(Several(2 * c.runs, 1), 2 * c.runs)
  <2>1. 2 * c.runs \in Nat /\ (2 * c.runs) * 1 = 2 * c.runs
    BY <1>1
  <2> QED
    BY <2>1, TotalOfSeveral
<1> QED
  BY <1>3, <1>4, <1>5, <1>6, TotalOfBoth DEF Sampling, SamplingTotal

\* What all tensors of a call take, without their descriptors
CallTotal(c) ==
  CASE c.op = "generate" ->
         Latent(c.image) + c.refs * Latent(c.ref)
           + (IF c.cachedCondition THEN States(c.tokens) ELSE ConditionTotal(c.tokens))
           + Latent(c.image) + SamplingTotal(c) + Shown(c.image)
    [] c.op = "condition" -> ConditionTotal(c.tokens)
    [] c.op = "encode" -> Shown(c.image) + Latent(c.image)

LEMMA CallTakes == ASSUME NEW c \in Calls PROVE Total(Tensors(c), CallTotal(c))
PROOF
<1>1. CASE c.op = "generate"
  <2>1. /\ c.image \in Images /\ c.ref \in Images /\ c.refs \in Nat
        /\ c.tokens \in TokenTotals /\ c.cachedCondition \in BOOLEAN
    BY <1>1, WorkMemoryAssumption DEF Calls
  <2>2. Latent(c.image) \in Nat /\ Shown(c.image) \in Nat /\ Latent(c.ref) \in Nat
        /\ States(c.tokens) \in Nat
    BY <2>1, ImagesTake, ConditionTakes
  <2>3. Total(<<Latent(c.image)>>, Latent(c.image)) /\ Total(<<Shown(c.image)>>, Shown(c.image))
        /\ Total(Several(c.refs, Latent(c.ref)), c.refs * Latent(c.ref))
    BY <2>1, <2>2, TotalOfOne, TotalOfSeveral
  <2>4. Total(IF c.cachedCondition THEN <<States(c.tokens)>> ELSE Condition(c.tokens),
              IF c.cachedCondition THEN States(c.tokens) ELSE ConditionTotal(c.tokens))
    BY <2>1, <2>2, TotalOfOne, ConditionTakes
  <2>5. Total(Sampling(c), SamplingTotal(c))
    BY <1>1, SamplingTakes
  <2> QED
    BY <1>1, <2>3, <2>4, <2>5, TotalOfBoth DEF Tensors, CallTotal
<1>2. CASE c.op = "condition"
  <2>1. c.tokens \in TokenTotals
    BY <1>2 DEF Calls
  <2> QED
    BY <1>2, <2>1, ConditionTakes DEF Tensors, CallTotal
<1>3. CASE c.op = "encode"
  <2>1. c.image \in Images
    BY <1>3 DEF Calls
  <2>2. Total(<<Shown(c.image)>>, Shown(c.image)) /\ Total(<<Latent(c.image)>>, Latent(c.image))
    BY <2>1, ImagesTake, TotalOfOne
  <2>3. <<Shown(c.image), Latent(c.image)>> = <<Shown(c.image)>> \o <<Latent(c.image)>>
    OBVIOUS
  <2> QED
    BY <1>3, <2>2, <2>3, TotalOfBoth DEF Tensors, CallTotal
<1> QED
  BY <1>1, <1>2, <1>3 DEF Calls
\* Descriptor and padding of a tensor are at most this much.
Overhead == Descriptor + 3

LEMMA PlaceAtMost ==
  ASSUME NEW size \in Nat
  PROVE  Place16(size) \in Nat /\ Place16(size) <= Overhead + size
PROOF
  BY DEF Place16, Overhead, Descriptor

LEMMA BudgetIsNat == ASSUME NEW c \in Calls PROVE Budget(c) \in Nat
PROOF
<1>1. CASE c.op = "generate"
  <2>1. c.image \in Images /\ c.ref \in Images /\ c.refs \in Nat
    BY <1>1, WorkMemoryAssumption DEF Calls
  <2>2. Latent(c.image) \in Nat /\ Shown(c.image) \in Nat /\ Latent(c.ref) \in Nat
    BY <2>1, ImagesTake
  <2>3. c.refs * Latent(c.ref) \in Nat
    BY <2>1, <2>2
  <2>4. Estimate(c) \in Nat
    BY <2>2, <2>3 DEF Estimate, Megabyte
  <2> QED
    BY <1>1, <2>4 DEF Budget, Smaller, Larger, Megabyte
<1>2. CASE c.op = "condition"
  BY <1>2 DEF Budget, Megabyte
<1>3. CASE c.op = "encode"
  <2>1. Latent(c.image) \in Nat /\ Shown(c.image) \in Nat
    BY <1>3, ImagesTake DEF Calls
  <2> QED
    BY <1>3, <2>1 DEF Budget, Larger, Megabyte
<1> QED
  BY <1>1, <1>2, <1>3 DEF Calls

\* The inductive invariant: what was used is bounded by what the tensors that
\* were made add up to, and a call aborts only for want of room.
WorkInv ==
  /\ workPc \in {"called", "working", "returned", "aborted"} /\ call \in Calls
  /\ workPc # "called" => budget = Budget(call)
  /\ taken \in 0 .. Len(Tensors(call)) /\ used \in Nat
  /\ \E f : AddsUp(Tensors(call), f, CallTotal(call)) /\ used <= f[taken] + Overhead * taken
  /\ workPc = "aborted" => Budget(call) < CallTotal(call) + Overhead * Len(Tensors(call))

LEMMA WorkInitially == WorkInit => WorkInv
PROOF
<1> SUFFICES ASSUME WorkInit PROVE WorkInv
  OBVIOUS
<1>1. call \in Calls /\ workPc = "called" /\ used = 0 /\ taken = 0
  BY DEF WorkInit
<1>2. Total(Tensors(call), CallTotal(call))
  BY <1>1, CallTakes
<1>3. PICK f : AddsUp(Tensors(call), f, CallTotal(call))
  BY <1>2 DEF Total
<1>4. Len(Tensors(call)) \in Nat
  BY <1>2 DEF Total
<1>5. used <= f[taken] + Overhead * taken
  BY <1>1, <1>3 DEF AddsUp, Overhead, Descriptor
<1> QED
  BY <1>1, <1>3, <1>4, <1>5 DEF WorkInv

LEMMA TensorInRoom == ASSUME WorkInv, NewTensor PROVE WorkInv'
PROOF
<1> DEFINE s == Tensors(call)
           need == Place16(s[taken + 1])
<1>1. /\ call \in Calls /\ workPc = "working" /\ budget = Budget(call) /\ used \in Nat
      /\ taken \in Nat /\ taken < Len(s) /\ UNCHANGED <<call, budget>>
  <2>1. Total(s, CallTotal(call))
    BY CallTakes DEF WorkInv
  <2> QED
    BY <2>1 DEF WorkInv, NewTensor, Total
<1>2. PICK f : AddsUp(s, f, CallTotal(call)) /\ used <= f[taken] + Overhead * taken
  BY DEF WorkInv
<1>3. Total(s, CallTotal(call))
  BY <1>1, CallTakes
<1> HIDE DEF s
<1>4. CallTotal(call) \in Nat /\ Len(s) \in Nat /\ s[taken + 1] \in Nat
  BY <1>1, <1>3 DEF Total
<1>5. f[taken + 1] = f[taken] + s[taken + 1]
  BY <1>1, <1>2, <1>4 DEF AddsUp
<1>6. f[taken] \in Nat /\ f[taken + 1] \in 0 .. CallTotal(call)
  <2>1. f \in [0 .. Len(s) -> 0 .. CallTotal(call)] /\ taken \in 0 .. Len(s) /\ taken + 1 \in 0 .. Len(s)
    BY <1>1, <1>2, <1>4 DEF AddsUp
  <2> QED
    BY <1>4, <2>1
<1>7. need \in Nat /\ need <= Overhead + s[taken + 1]
  BY <1>4, PlaceAtMost
<1> HIDE DEF need
<1>8. used + need <= f[taken + 1] + Overhead * (taken + 1)
  BY <1>1, <1>2, <1>4, <1>5, <1>6, <1>7 DEF Overhead, Descriptor
<1>9. CASE used + need <= budget
  <2>1. used' = used + need /\ taken' = taken + 1 /\ workPc' = workPc
    BY <1>9 DEF NewTensor, need, s
  <2>2. used' \in Nat /\ taken' \in 0 .. Len(s)
    BY <1>1, <1>4, <1>7, <2>1
  <2>3. AddsUp(s, f, CallTotal(call)) /\ used' <= f[taken'] + Overhead * taken'
    BY <1>2, <1>8, <2>1
  <2> QED
    BY <1>1, <2>1, <2>2, <2>3 DEF WorkInv, s
<1>10. CASE ~(used + need <= budget)
  <2>1. workPc' = "aborted" /\ UNCHANGED <<used, taken>>
    BY <1>10 DEF NewTensor, need, s
  <2>2. budget \in Nat /\ budget < used + need
    BY <1>1, <1>7, <1>10, BudgetIsNat
  <2>3. Overhead * (taken + 1) <= Overhead * Len(s)
    BY <1>1, <1>4 DEF Overhead, Descriptor
  <2>4. budget < CallTotal(call) + Overhead * Len(s)
    <3>1. /\ used + need <= CallTotal(call) + Overhead * (taken + 1)
          /\ used + need \in Nat /\ Overhead * (taken + 1) \in Nat /\ Overhead * Len(s) \in Nat
      BY <1>1, <1>4, <1>6, <1>7, <1>8 DEF Overhead, Descriptor
    <3> QED
      BY <1>4, <2>2, <2>3, <3>1
  <2>5. taken \in 0 .. Len(s)
    BY <1>1, <1>4
  <2> QED
    BY <1>1, <1>2, <2>1, <2>4, <2>5 DEF WorkInv, s
<1> QED
  BY <1>9, <1>10
LEMMA WorkStep == WorkInv /\ [WorkNext]_workVars => WorkInv'
PROOF
<1> SUFFICES ASSUME WorkInv, [WorkNext]_workVars PROVE WorkInv'
  OBVIOUS
<1>1. CASE OpenContext
  BY <1>1 DEF OpenContext, WorkInv
<1>2. CASE NewTensor
  BY <1>2, TensorInRoom
<1>3. CASE CloseContext
  BY <1>3 DEF CloseContext, WorkInv
<1>4. CASE WorkEnded \/ UNCHANGED workVars
  BY <1>4 DEF WorkEnded, workVars, WorkInv
<1> QED
  BY <1>1, <1>2, <1>3, <1>4 DEF WorkNext

\* The states of 512 tokens have room in the context of sd_compute_condition.
\* It holds for a HiddenSize of up to 10751, which is read from the model file.
Encodable == 512 * 513 + States(512) + 3 * Overhead <= 64 * Megabyte

\* A call that aborts is one whose tensors its budget was not meant for.
LEMMA AbortsExcused ==
  ASSUME Encodable, WorkInv
  PROVE  FitsBudget
PROOF
<1> SUFFICES ASSUME workPc = "aborted"
             PROVE CASE call.op = "generate" ->
                          Estimate(call) > 1024 * Megabyte \/ Unestimated(call) > 128 * Megabyte
                     [] call.op = "condition" -> call.tokens > 512
                     [] call.op = "encode" -> FALSE
  BY DEF FitsBudget
<1> DEFINE c == call
           L == Latent(c.image)
           S == Shown(c.image)
<1>1. c \in Calls /\ Budget(c) < CallTotal(c) + Overhead * Len(Tensors(c)) /\ Budget(c) \in Nat
  BY BudgetIsNat DEF WorkInv
<1>2. Len(Tensors(c)) \in Nat /\ CallTotal(c) \in Nat
  BY <1>1, CallTakes DEF Total
<1>3. CASE c.op = "generate"
  <2> DEFINE R == c.refs * Latent(c.ref)
             H == States(c.tokens)
             Q == c.tokens * c.tokens
             N == Len(Tensors(c))
  <2>1. /\ c.image \in Images /\ c.ref \in Images /\ c.refs \in Nat /\ c.tokens \in TokenTotals
        /\ c.runs \in Nat /\ c.cachedCondition \in BOOLEAN /\ c.preview \in BOOLEAN
    BY <1>1, <1>3, WorkMemoryAssumption DEF Calls
  <2>2. L \in Nat /\ S \in Nat /\ H \in Nat /\ Q \in Nat /\ c.tokens \in Nat
    BY <2>1, ImagesTake, ConditionTakes
  <2>3. R \in Nat
    <3>1. Latent(c.ref) \in Nat
      BY <2>1, ImagesTake
    <3> QED
      BY <2>1, <3>1
  <2>4. c.tokens * (c.tokens + 1) = Q + c.tokens
    BY <2>2
  <2>5. MethodCount(c) * L \in Nat /\ MethodCount(c) * L <= 2 * L
    BY <2>2 DEF MethodCount
  <2> DEFINE M == MethodCount(c) * L
  <2>6. CallTotal(c) = L + R + (IF c.cachedCondition THEN H ELSE c.tokens + Q + H) + L
                         + (4 * L + PreviewTotal(c) + M + 2 * c.runs) + S
    BY <1>3 DEF CallTotal, SamplingTotal, ConditionTotal
  <2>7. Estimate(c) = 8 * L + S + R + 128 * Megabyte
    BY DEF Estimate
  <2>8. Unestimated(c) = (IF c.cachedCondition THEN 0 ELSE Q + c.tokens) + H
                           + PreviewTotal(c) + 2 * c.runs + Overhead * N
    BY <2>4 DEF Unestimated, PreviewTotal, Overhead
  <2>9. Budget(c) = Smaller(Larger(Estimate(c), 256 * Megabyte), 1024 * Megabyte)
    BY <1>3 DEF Budget
  <2> HIDE DEF L, S, R, H, Q, N, M
  <2>10. PreviewTotal(c) \in Nat /\ Overhead * N \in Nat
    BY <1>2, <2>1, <2>2 DEF PreviewTotal, Overhead, Descriptor, S, N
  <2>11. CallTotal(c) + Overhead * N <= Estimate(c) - 128 * Megabyte + Unestimated(c)
    <3>1. M \in Nat /\ M <= 2 * L
      BY <2>5 DEF M
    <3> QED
      BY <2>1, <2>2, <2>3, <2>6, <2>7, <2>8, <2>10, <3>1 DEF Megabyte
  <2>12. Estimate(c) \in Nat /\ Unestimated(c) \in Nat
    BY <2>1, <2>2, <2>3, <2>7, <2>8, <2>10 DEF Megabyte
  <2>13. Estimate(c) <= 1024 * Megabyte => Budget(c) >= Estimate(c)
    BY <2>9, <2>12 DEF Smaller, Larger, Megabyte
  <2>14. Estimate(c) > 1024 * Megabyte \/ Unestimated(c) > 128 * Megabyte
    <3>1. Budget(c) < CallTotal(c) + Overhead * N
      BY <1>1 DEF N
    <3> QED
      BY <1>1, <1>2, <2>10, <2>11, <2>12, <2>13, <3>1 DEF Megabyte
  <2> QED
    BY <1>3, <2>14
<1>4. CASE c.op = "condition"
  <2> DEFINE n == c.tokens
  <2>1. n \in TokenTotals
    BY <1>1, <1>4 DEF Calls
  <2>2. n \in Nat /\ Len(Tensors(c)) = 3 /\ CallTotal(c) = n + n * n + States(n)
    BY <1>4, <2>1, ConditionTakes DEF Tensors, CallTotal, ConditionTotal
  <2>3. Budget(c) = 64 * Megabyte
    BY <1>4 DEF Budget
  <2>4. ASSUME n <= 512 PROVE FALSE
    <3>1. n + n * n <= 512 * 513 /\ n + n * n \in Nat
      <4>1. n * n <= 512 * 512 /\ n * n \in Nat
        BY <2>2, <2>4
      <4> QED
        BY <2>2, <2>4, <4>1
    <3>2. States(n) <= States(512) /\ States(n) \in Nat /\ States(512) \in Nat
      <4> DEFINE h == 3 * HiddenSize
      <4>1. h \in Nat
        BY WorkMemoryAssumption
      <4> HIDE DEF h
      <4>2. h * 512 = h * n + h * (512 - n) /\ h * n \in Nat /\ h * (512 - n) \in Nat
            /\ h * 512 \in Nat
        BY <2>2, <2>4, <4>1
      <4>3. h * n <= h * 512
        BY <4>2
      <4> QED
        BY <4>2, <4>3 DEF States, h
    <3> QED
      BY <1>1, <2>2, <2>3, <3>1, <3>2 DEF Encodable, Overhead, Descriptor, Megabyte
  <2> QED
    BY <1>4, <2>2, <2>4
<1>5. CASE c.op = "encode"
  <2>1. L \in Nat /\ S \in Nat
    BY <1>1, <1>5, ImagesTake DEF Calls
  <2>2. Len(Tensors(c)) = 2 /\ CallTotal(c) = S + L
    BY <1>5 DEF Tensors, CallTotal
  <2>3. Budget(c) = Larger(S + L + 16 * Megabyte, 32 * Megabyte)
    BY <1>5 DEF Budget
  <2> QED
    BY <1>1, <2>1, <2>2, <2>3 DEF Larger, Overhead, Descriptor, Megabyte
<1> QED
  BY <1>1, <1>3, <1>4, <1>5 DEF Calls

\* Whatever the number and size of images, references and runs, and whatever
\* the prompt: a call that stays within what its budget allows for never runs
\* out of memory (prepare_generation, sd_compute_condition, sd_encode_ref_image).
THEOREM CallsFit == ASSUME Encodable PROVE WorkSpec => []FitsBudget
PROOF
<1>1. WorkInv => FitsBudget
  BY AbortsExcused
<1> QED
  BY WorkInitially, WorkStep, <1>1, PTL DEF WorkSpec

\* The inductive invariant: nothing is used before the context is opened.
WorkTyped == WorkTypeOK /\ (workPc = "called" => used = 0)

LEMMA WorkStaysTyped == WorkTyped /\ [WorkNext]_workVars => WorkTyped'
PROOF
<1> SUFFICES ASSUME WorkTyped, [WorkNext]_workVars PROVE WorkTyped'
  OBVIOUS
<1>1. CASE OpenContext
  <2>1. Budget(call) \in Nat
    BY BudgetIsNat DEF WorkTyped, WorkTypeOK
  <2> QED
    BY <1>1, <2>1 DEF OpenContext, WorkTyped, WorkTypeOK
<1>2. CASE NewTensor
  <2> DEFINE s == Tensors(call)
             need == Place16(s[taken + 1])
  <2>1. /\ call \in Calls /\ workPc = "working" /\ budget \in Nat /\ used \in Nat /\ used <= budget
        /\ taken \in 0 .. Len(s) /\ taken < Len(s) /\ UNCHANGED <<call, budget>>
    BY <1>2 DEF NewTensor, WorkTyped, WorkTypeOK
  <2>2. Total(s, CallTotal(call))
    BY <2>1, CallTakes
  <2>3. Len(s) \in Nat /\ s[taken + 1] \in Nat
    <3> HIDE DEF s
    <3> QED
      BY <2>1, <2>2 DEF Total
  <2>4. need \in Nat
    BY <2>3, PlaceAtMost
  <2>5. IF used + need <= budget THEN used' = used + need /\ taken' = taken + 1 /\ workPc' = workPc
        ELSE workPc' = "aborted" /\ UNCHANGED <<used, taken>>
    BY <1>2 DEF NewTensor
  <2>6. used' \in Nat /\ used' <= budget /\ taken' \in 0 .. Len(s) /\ workPc' \in {"working", "aborted"}
    <3> HIDE DEF need, s
    <3> QED
      BY <2>1, <2>3, <2>4, <2>5
  <2>7. Tensors(call)' = Tensors(call)
    BY <2>1
  <2> QED
    BY <2>1, <2>6, <2>7 DEF WorkTyped, WorkTypeOK
<1>3. CASE CloseContext
  BY <1>3 DEF CloseContext, WorkTyped, WorkTypeOK
<1>4. CASE WorkEnded \/ UNCHANGED workVars
  BY <1>4 DEF WorkEnded, workVars, WorkTyped, WorkTypeOK
<1> QED
  BY <1>1, <1>2, <1>3, <1>4 DEF WorkNext

\* No call uses more than the budget of its context, and it makes no more tensors
\* than it has (ggml_init with no_alloc false, ggml_new_tensor).
THEOREM WorkTypes == WorkSpec => []WorkTypeOK
PROOF
<1>1. WorkInit => WorkTyped
  <2> SUFFICES ASSUME WorkInit PROVE WorkTyped
    OBVIOUS
  <2>1. Len(Tensors(call)) \in Nat
    BY CallTakes DEF WorkInit, Total
  <2> QED
    BY <2>1 DEF WorkInit, WorkTyped, WorkTypeOK
<1>2. WorkTyped => WorkTypeOK
  BY DEF WorkTyped
<1> QED
  BY <1>1, <1>2, WorkStaysTyped, PTL DEF WorkSpec

-----------------------------------------------------------------------------
(* The words of a text *)

Run(k, e, S) == (\A j \in k .. e : At(j) \in S) /\ ~In(e + 1, S)

\* A run of characters has one end (the loops of token_split).
LEMMA RunEnds ==
  ASSUME text \in Seq(Characters), NEW S, NEW k \in 1 .. Len(text) + 1
  PROVE  /\ RunEnd(k, S) \in k - 1 .. Len(text) /\ Run(k, RunEnd(k, S), S)
         /\ \A e \in k - 1 .. Len(text) : Run(k, e, S) => e = RunEnd(k, S)
PROOF
<1> DEFINE T == {n \in Nat : n >= k /\ ~In(n, S)}
<1>1. Len(text) \in Nat /\ k \in Nat /\ k >= 1
  OBVIOUS
<1>2. Len(text) + 1 \in T
  BY <1>1 DEF In, Within
<1>3. PICK n \in T : \A m \in T : n <= m
  BY <1>2, SmallestNumber
<1>4. n - 1 \in k - 1 .. Len(text) /\ n = (n - 1) + 1
  BY <1>1, <1>2, <1>3
<1>5. \A j \in k .. n - 1 : At(j) \in S
  <2> TAKE j \in k .. n - 1
  <2>1. j \in Nat /\ j >= k /\ j < n
    BY <1>1, <1>4
  <2>2. j \notin T
    BY <1>3, <1>4, <2>1
  <2> QED
    BY <2>1, <2>2 DEF In
<1>6. Run(k, n - 1, S)
  BY <1>4, <1>5 DEF Run
<1>7. RunEnd(k, S) = CHOOSE e \in k - 1 .. Len(text) : Run(k, e, S)
  BY DEF RunEnd, Run
<1>8. RunEnd(k, S) \in k - 1 .. Len(text) /\ Run(k, RunEnd(k, S), S)
  BY <1>4, <1>6, <1>7
<1>9. ASSUME NEW e \in k - 1 .. Len(text), NEW f \in k - 1 .. Len(text),
             Run(k, e, S), Run(k, f, S), e < f
      PROVE  FALSE
  <2>1. e + 1 \in k .. f /\ e + 1 \in 1 .. Len(text)
    BY <1>1, <1>9
  <2> QED
    BY <1>9, <2>1 DEF Run, In, Within
<1>10. \A e \in k - 1 .. Len(text) : Run(k, e, S) => e = RunEnd(k, S)
  <2> TAKE e \in k - 1 .. Len(text)
  <2>1. e < RunEnd(k, S) \/ e = RunEnd(k, S) \/ RunEnd(k, S) < e
    BY <1>1, <1>8
  <2> QED
    BY <1>8, <1>9, <2>1
<1> QED
  BY <1>8, <1>10

\* If the character at k is of the run, the run is not empty.
LEMMA RunNotEmpty ==
  ASSUME text \in Seq(Characters), NEW S, NEW k \in 1 .. Len(text), At(k) \in S
  PROVE  RunEnd(k, S) \in k .. Len(text) /\ At(RunEnd(k, S)) \in S
PROOF
<1>1. RunEnd(k, S) \in k - 1 .. Len(text) /\ Run(k, RunEnd(k, S), S)
  BY RunEnds
<1>2. RunEnd(k, S) # k - 1
  BY <1>1 DEF Run, In, Within
<1>3. RunEnd(k, S) \in k .. Len(text)
  BY <1>1, <1>2
<1> QED
  BY <1>1, <1>3 DEF Run
\* A text and an isspace for which code and expression are to agree
Regular == text \in Seq(Characters) /\ wideIsSpace \in BOOLEAN /\ ~Irregular

LEMMA RegularText ==
  ASSUME Regular, NEW k \in 1 .. Len(text)
  PROVE  /\ At(k) \in Characters
         /\ At(k) = "'" => ~In(k + 1, {"S", "d"})
         /\ At(k) \in Spaces /\ ~In(k - 1, Spaces) => OneWord(k, RunEnd(k, Spaces))
         /\ At(k) \in Punctuation <=> At(k) \in Marked
PROOF
<1>1. At(k) \in Characters
  BY DEF Regular, At
<1>2. At(k) = "'" => ~In(k + 1, {"S", "d"})
  BY DEF Regular, Irregular
<1>3. At(k) \in Spaces /\ ~In(k - 1, Spaces) => OneWord(k, RunEnd(k, Spaces))
  BY DEF Regular, Irregular
<1>4. wideIsSpace => At(k) # "wide"
  BY DEF Regular, Irregular
<1>5. At(k) \in Punctuation <=> At(k) \in Marked
  BY <1>1, <1>4 DEF Punctuation, Marked, CSpaces
<1> QED
  BY <1>1, <1>2, <1>3, <1>5

\* isspace and the expression see the same punctuation.
LEMMA SameRuns ==
  ASSUME Regular, NEW k \in 1 .. Len(text)
  PROVE  RunEnd(k, Punctuation) = RunEnd(k, Marked)
PROOF
<1>1. text \in Seq(Characters) /\ k \in 1 .. Len(text) + 1 /\ Len(text) \in Nat
  BY DEF Regular
<1> DEFINE e == RunEnd(k, Punctuation)
<1>2. e \in k - 1 .. Len(text) /\ Run(k, e, Punctuation)
  BY <1>1, RunEnds
<1> HIDE DEF e
<1>3. \A j \in k .. e : j \in 1 .. Len(text)
  BY <1>1, <1>2
<1>4. Run(k, e, Marked)
  <2>1. \A j \in k .. e : At(j) \in Marked
    BY <1>2, <1>3, RegularText DEF Run
  <2>2. ~In(e + 1, Marked)
    BY <1>2, RegularText DEF Run, In, Within
  <2> QED
    BY <2>1, <2>2 DEF Run
<1>5. e = RunEnd(k, Marked)
  BY <1>1, <1>2, <1>4, RunEnds
<1> QED
  BY <1>5 DEF e

\* A word from k to e ends where the expression ends, and not within white space.
WordTo(k, e) ==
  e \in k .. Len(text) /\ e = RegexEnd(k) /\ ~(At(e) \in Spaces /\ In(e + 1, Spaces))

\* A word never begins within white space.
Begins(k) == k \in 1 .. Len(text) /\ ~(In(k - 1, Spaces) /\ In(k, Spaces))

LEMMA ContractionIsWord ==
  ASSUME Regular, NEW k, Begins(k), ContractionEnd(k) # 0
  PROVE  /\ WordTo(k, ContractionEnd(k))
         /\ \A j \in k .. ContractionEnd(k) : At(j) = Lower(At(j))
PROOF
<1>1. k \in 1 .. Len(text) /\ Len(text) \in Nat /\ At(k) = "'" /\ ~In(k + 1, {"S", "d"})
  BY RegularText DEF Begins, ContractionEnd, Regular
<1>2. CASE Within(k + 1) /\ Lower(At(k + 1)) = "s"
  <2>1. At(k + 1) = "s" /\ ContractionEnd(k) = k + 1 /\ k + 1 \in k .. Len(text)
    BY <1>1, <1>2 DEF Lower, In, Within, ContractionEnd
  <2>2. RegexEnd(k) = k + 1
    BY <1>1, <1>2, <2>1 DEF RegexEnd, In
  <2>3. \A j \in k .. k + 1 : j = k \/ j = k + 1
    BY <1>1
  <2> QED
    BY <1>1, <2>1, <2>2, <2>3 DEF WordTo, Spaces, Lower
<1>3. CASE ~(Within(k + 1) /\ Lower(At(k + 1)) = "s")
  <2>1. /\ Within(k + 2) /\ Lower(At(k + 1)) = "l" /\ Lower(At(k + 2)) = "l"
        /\ ContractionEnd(k) = k + 2
    BY <1>1, <1>3 DEF ContractionEnd
  <2>2. /\ At(k + 1) = "l" /\ At(k + 2) = "l" /\ Within(k + 1) /\ k + 2 \in k .. Len(text)
    BY <1>1, <2>1 DEF Lower, Within
  <2>3. RegexEnd(k) = k + 2
    BY <1>1, <2>1, <2>2 DEF RegexEnd, In
  <2>4. \A j \in k .. k + 2 : j = k \/ j = k + 1 \/ j = k + 2
    BY <1>1
  <2> QED
    BY <1>1, <2>1, <2>2, <2>3, <2>4 DEF WordTo, Spaces, Lower
<1> QED
  BY <1>2, <1>3

\* What is no contraction for the code is none for the expression.
LEMMA NoContraction ==
  ASSUME Regular, NEW k \in 1 .. Len(text), ContractionEnd(k) = 0
  PROVE  /\ ~(At(k) = "'" /\ In(k + 1, {"s", "S", "d"}))
         /\ ~(At(k) = "'" /\ In(k + 1, {"l"}) /\ In(k + 2, {"l"}))
PROOF
<1>1. At(k) = "'" => ~In(k + 1, {"S", "d"})
  BY RegularText
<1>2. k \in Nat /\ k + 1 # 0 /\ k + 2 # 0
  OBVIOUS
<1>3. At(k) = "'" => ~(Within(k + 1) /\ Lower(At(k + 1)) = "s")
  BY <1>2 DEF ContractionEnd
<1>4. At(k) = "'" => ~(Within(k + 2) /\ Lower(At(k + 1)) = "l" /\ Lower(At(k + 2)) = "l")
  BY <1>2, <1>3 DEF ContractionEnd
<1> QED
  BY <1>1, <1>3, <1>4 DEF In, Lower

LEMMA NumberIsWord ==
  ASSUME Regular, NEW k, Begins(k), In(k, Numbers)
  PROVE  WordTo(k, k)
PROOF
<1>1. k \in 1 .. Len(text) /\ Len(text) \in Nat /\ At(k) = "1"
  BY DEF Begins, In, Numbers, Regular
<1>2. RegexEnd(k) = k
  BY <1>1 DEF RegexEnd, Numbers, AsciiLetters
<1> QED
  BY <1>1, <1>2 DEF WordTo, Spaces

LEMMA LettersAreWord ==
  ASSUME Regular, NEW k, Begins(k), ContractionEnd(k) = 0, LettersAt(k)
  PROVE  WordTo(k, RunEnd(IF In(k, AsciiLetters) THEN k ELSE k + 1, AsciiLetters))
PROOF
<1>1. k \in 1 .. Len(text) /\ Len(text) \in Nat /\ text \in Seq(Characters)
  BY DEF Begins, Regular
<1> DEFINE p == IF In(k, AsciiLetters) THEN k ELSE k + 1
           e == RunEnd(p, AsciiLetters)
<1>2. p \in k .. Len(text) /\ At(p) \in AsciiLetters
  BY <1>1 DEF LettersAt, In, Within
<1>3. e \in p .. Len(text) /\ At(e) \in AsciiLetters
  <2>1. p \in 1 .. Len(text)
    BY <1>1, <1>2
  <2> HIDE DEF p
  <2> QED
    BY <1>1, <1>2, <2>1, RunNotEmpty
<1>4. RegexEnd(k) = e
  BY <1>1, NoContraction DEF RegexEnd, LettersAt, In, Within
<1> HIDE DEF e, p
<1>5. e \in k .. Len(text)
  BY <1>1, <1>2, <1>3
<1>6. At(e) \notin Spaces
  BY <1>3 DEF AsciiLetters, Spaces
<1> QED
  BY <1>4, <1>5, <1>6 DEF WordTo, e, p
\* Punctuation takes the line breaks behind it, and no other white space may
\* follow them in a regular text.
LEMMA MarksAreWord ==
  ASSUME Regular, NEW k, Begins(k), ContractionEnd(k) = 0, ~LettersAt(k), PunctuationAt(k) # 0
  PROVE  WordTo(k, RunEnd(RunEnd(PunctuationAt(k), Punctuation) + 1, {"\n"}))
PROOF
<1> DEFINE p == PunctuationAt(k)
           q == RunEnd(p, Punctuation)
           e == RunEnd(q + 1, {"\n"})
<1>1. k \in 1 .. Len(text) /\ Len(text) \in Nat /\ text \in Seq(Characters)
  BY DEF Begins, Regular
<1>2. p \in {k, k + 1} /\ p \in 1 .. Len(text) /\ At(p) \in Punctuation
  BY <1>1 DEF PunctuationAt, In, Within
<1>3. p = IF At(k) = " " THEN k + 1 ELSE k
  BY <1>1, <1>2, RegularText DEF PunctuationAt, Marked, Spaces
<1>4. At(p) \in Marked /\ q = RunEnd(p, Marked)
  BY <1>2, RegularText, SameRuns
<1>5. At(k) \notin Numbers /\ At(k) \notin AsciiLetters
      /\ ~(At(k) \notin Numbers \cup {"\n"} /\ In(k + 1, AsciiLetters))
  <2>1. At(k) \notin AsciiLetters
    BY <1>1 DEF LettersAt, In, Within
  <2>2. At(k) \notin Numbers
    BY <1>3, <1>4 DEF Marked, Numbers
  <2>3. ~(At(k) \notin Numbers \cup {"\n"} /\ In(k + 1, AsciiLetters))
    BY <1>1 DEF LettersAt, In, Within
  <2> QED
    BY <2>1, <2>2, <2>3
<1>6. RegexEnd(k) = e
  <2> HIDE DEF p, q
  <2>1. In(p, Marked)
    BY <1>2, <1>4 DEF In, Within
  <2> QED
    BY <1>1, <1>3, <1>4, <1>5, <2>1, NoContraction DEF RegexEnd
<1>7. q \in p .. Len(text) /\ At(q) \in Punctuation
  <2> HIDE DEF p
  <2> QED
    BY <1>1, <1>2, RunNotEmpty
<1> HIDE DEF p, q
<1> DEFINE n == q + 1
<1>8. n \in 1 .. Len(text) + 1 /\ n - 1 = q /\ n \in Nat
  BY <1>1, <1>2, <1>7
<1> HIDE DEF n
<1>9. e \in n - 1 .. Len(text) /\ Run(n, e, {"\n"})
  BY <1>1, <1>8, RunEnds DEF n
<1> HIDE DEF e
<1>10. At(q) \notin Spaces /\ q \in 1 .. Len(text) /\ q \in Nat /\ e \in Nat
  <2>1. q \in 1 .. Len(text)
    BY <1>1, <1>2, <1>7
  <2>2. At(q) \in Marked
    BY <1>7, <2>1, RegularText
  <2> QED
    BY <1>8, <1>9, <2>1, <2>2 DEF Marked
<1>11. ~(At(e) \in Spaces /\ In(e + 1, Spaces))
  <2>1. CASE e = q
    BY <1>10, <2>1
  <2>2. CASE e # q
    <3>1. n \in 1 .. Len(text) /\ n \in n .. e
      BY <1>1, <1>8, <1>9, <1>10, <2>2
    <3>2. At(n) = "\n" /\ At(n) \in Spaces
      BY <1>9, <3>1 DEF Run, Spaces
    <3>3. ~In(n - 1, Spaces)
      BY <1>8, <1>10 DEF In
    <3> DEFINE r == RunEnd(n, Spaces)
    <3>4. OneWord(n, r)
      BY <3>1, <3>2, <3>3, RegularText
    <3>5. r \in n .. Len(text) /\ Run(n, r, Spaces)
      BY <1>1, <3>1, <3>2, RunNotEmpty, RunEnds
    <3> HIDE DEF r
    <3>6. r = n \/ (r = n + 1 /\ At(r) = "\n")
      <4>1. n \in n .. r
        BY <1>8, <3>5
      <4> QED
        BY <3>2, <3>4, <4>1 DEF OneWord
    <3>7. e = r
      <4>1. ~(r < e)
        <5> SUFFICES ASSUME r < e PROVE FALSE
          OBVIOUS
        <5>1. r + 1 \in n .. e /\ r + 1 \in 1 .. Len(text)
          BY <1>1, <1>8, <1>9, <1>10, <3>5
        <5>2. At(r + 1) = "\n"
          BY <1>9, <5>1 DEF Run
        <5> QED
          BY <3>5, <5>1, <5>2 DEF Run, In, Within, Spaces
      <4>2. ~(e < r)
        <5> SUFFICES ASSUME e < r PROVE FALSE
          OBVIOUS
        <5>1. e + 1 = r /\ At(r) = "\n" /\ r \in 1 .. Len(text)
          BY <1>1, <1>8, <1>9, <1>10, <2>2, <3>5, <3>6
        <5> QED
          BY <1>9, <5>1 DEF Run, In, Within
      <4> QED
        BY <1>8, <1>10, <3>5, <4>1, <4>2
    <3> QED
      BY <3>5, <3>7 DEF Run
  <2> QED
    BY <2>1, <2>2
<1>12. e \in k .. Len(text)
  BY <1>1, <1>2, <1>7, <1>8, <1>9
<1> QED
  BY <1>6, <1>11, <1>12 DEF WordTo, e, n, q, p

\* White space that a regular text has is one word, up to its end.
LEMMA BlanksAreWord ==
  ASSUME Regular, NEW k, Begins(k), In(k, Spaces), ~LettersAt(k), PunctuationAt(k) = 0
  PROVE  WordTo(k, BlankEnd(k))
PROOF
<1> DEFINE r == RunEnd(k, Spaces)
<1>1. k \in 1 .. Len(text) /\ Len(text) \in Nat /\ text \in Seq(Characters) /\ At(k) \in Spaces
  BY DEF Begins, Regular, In
<1>2. r \in k .. Len(text) /\ Run(k, r, Spaces) /\ At(r) \in Spaces
  BY <1>1, RunNotEmpty, RunEnds
<1>3. OneWord(k, r)
  BY <1>1, RegularText DEF Begins, In, Within
<1> HIDE DEF r
<1>4. /\ \A j \in k .. r : At(j) \in Spaces
      /\ ~In(r + 1, Spaces)
  BY <1>2 DEF Run
<1> DEFINE BlankWord(e) ==
             /\ \A j \in k .. e : At(j) \in Spaces
             /\ ~In(e + 1, Spaces) \/ (e > k /\ At(e + 1) = "\n")
             /\ \A f \in k + 1 .. e - 1 : At(f + 1) # "\n"
<1>5. BlankWord(r)
  <2>1. ASSUME NEW f \in k + 1 .. r - 1 PROVE At(f + 1) # "\n"
    <3>1. f + 1 \in k .. r /\ r # k /\ r # k + 1
      BY <1>1, <1>2
    <3> QED
      BY <1>3, <3>1 DEF OneWord
  <2> QED
    BY <1>4, <2>1
<1>6. ASSUME NEW e \in k .. Len(text), BlankWord(e) PROVE e = r
  <2>1. ~(r < e)
    <3> SUFFICES ASSUME r < e PROVE FALSE
      OBVIOUS
    <3>1. r + 1 \in k .. e /\ r + 1 \in 1 .. Len(text)
      BY <1>1, <1>2
    <3> QED
      BY <1>4, <1>6, <3>1 DEF In, Within
  <2>2. ~(e < r)
    <3> SUFFICES ASSUME e < r PROVE FALSE
      OBVIOUS
    <3>1. e + 1 \in k .. r /\ e + 1 \in 1 .. Len(text)
      BY <1>1, <1>2
    <3>2. e > k /\ At(e + 1) = "\n"
      BY <1>4, <1>6, <3>1 DEF In, Within
    <3> QED
      BY <1>1, <1>2, <1>3, <3>1, <3>2 DEF OneWord
  <2> QED
    BY <1>1, <1>2, <2>1, <2>2
<1>7. BlankEnd(k) = r
  <2>1. BlankEnd(k) = CHOOSE e \in k .. Len(text) : BlankWord(e)
    BY DEF BlankEnd
  <2> HIDE DEF BlankWord
  <2>2. r \in k .. Len(text)
    BY <1>2
  <2> QED
    BY <1>5, <1>6, <2>1, <2>2
<1>8. RegexEnd(k) = r
  <2> DEFINE breaks == {j \in k .. r : At(j) = "\n"}
             marks == IF At(k) = " " THEN k + 1 ELSE k
  <2>1. /\ At(k) # "'" /\ At(k) \notin AsciiLetters /\ At(k) \notin Numbers
        /\ ~(At(k) \notin Numbers \cup {"\n"} /\ In(k + 1, AsciiLetters))
    <3>1. At(k) # "'" /\ At(k) \notin AsciiLetters /\ At(k) \notin Numbers
      BY <1>1 DEF Spaces, AsciiLetters, Numbers
    <3>2. In(k, Numbers \cup {"\n"}) <=> At(k) \in Numbers \cup {"\n"}
      BY <1>1 DEF In, Within
    <3> QED
      BY <3>1, <3>2 DEF LettersAt
  <2>2. ~In(marks, Marked)
    <3>1. CASE At(k) = " "
      <4>1. ~In(k + 1, Punctuation)
        <5>1. k + 1 # 0
          BY <1>1
        <5> QED
          BY <3>1, <5>1, Zenon DEF PunctuationAt
      <4> QED
        BY <3>1, <4>1, RegularText DEF In, Within
    <3>2. CASE At(k) # " "
      BY <1>1, <3>2 DEF In, Marked
    <3> QED
      BY <3>1, <3>2
  <2> HIDE DEF marks
  <2>3. RegexEnd(k) =
          IF breaks # {} THEN CHOOSE j \in breaks : \A l \in breaks : l <= j
          ELSE IF Within(r + 1) /\ r > k THEN r - 1
          ELSE r
    BY <2>1, <2>2 DEF RegexEnd, r, marks
  <2>4. CASE breaks = {}
    <3>1. ~(Within(r + 1) /\ r > k)
      <4>1. \A j \in k .. r : At(j) # "\n"
        BY <2>4
      <4>2. r = k \/ r = Len(text)
        BY <1>1, <1>2, <1>3, <4>1 DEF OneWord
      <4> QED
        BY <1>1, <4>2 DEF Within
    <3> QED
      BY <2>3, <2>4, <3>1
  <2>5. CASE breaks # {}
    <3>1. At(r) = "\n"
      <4>1. PICK j \in k .. r : At(j) = "\n"
        BY <2>5
      <4>2. r = k \/ (r = k + 1 /\ At(r) = "\n")
        BY <1>3, <4>1 DEF OneWord
      <4> QED
        BY <1>1, <4>1, <4>2
    <3>2. r \in breaks /\ \A l \in breaks : l <= r /\ l \in Int
      BY <1>1, <1>2, <3>1
    <3> HIDE DEF breaks
    <3>3. \A j \in breaks : (\A l \in breaks : l <= j) => j = r
      BY <1>2, <3>2
    <3> QED
      BY <2>3, <2>5, <3>2, <3>3
  <2> QED
    BY <2>4, <2>5
<1> QED
  BY <1>2, <1>4, <1>7, <1>8 DEF WordTo
\* The inductive invariant: in a regular text the words so far are those of the
\* expression, and what is left begins right after them and not within white
\* space.
WordsInv ==
  /\ splitPc \in {"splitting", "split"} /\ text \in Texts /\ wideIsSpace \in BOOLEAN
  /\ ~Irregular =>
       /\ cursor \in 1 .. Len(text) + 1 /\ \E S : words \in Seq(S)
       /\ ~(In(cursor - 1, Spaces) /\ In(cursor, Spaces))
       /\ IF words = <<>> THEN cursor = 1 ELSE words[Len(words)].upto = cursor - 1
       /\ \A w \in 1 .. Len(words) :
            /\ words[w].from = (IF w = 1 THEN 1 ELSE words[w - 1].upto + 1)
            /\ words[w].upto = RegexEnd(words[w].from) /\ ~words[w].lowered
       /\ splitPc = "split" => cursor = Len(text) + 1

\* A word of the expression, pushed, keeps the invariant.
LEMMA PushKeeps ==
  ASSUME WordsInv, ~Irregular, splitPc = "splitting", NEW e, WordTo(cursor, e),
         NEW lowered, ~lowered, Push(e, lowered), cursor \in 1 .. Len(text)
  PROVE  WordsInv'
PROOF
<1> DEFINE added == [from |-> cursor, upto |-> e, lowered |-> lowered]
<1>1. words' = Append(words, added) /\ cursor' = e + 1 /\ UNCHANGED <<splitPc, text, wideIsSpace>>
  BY DEF Push
<1>2. e \in cursor .. Len(text) /\ e = RegexEnd(cursor) /\ ~(At(e) \in Spaces /\ In(e + 1, Spaces))
      /\ Len(text) \in Nat /\ e \in Nat
  <2>1. Len(text) \in Nat
    BY TokenSplitAssumption DEF WordsInv
  <2> QED
    BY <2>1 DEF WordTo
<1>3. PICK S : words \in Seq(S)
  BY DEF WordsInv
<1> HIDE DEF added
<1>4. /\ words' \in Seq(S \cup {added}) /\ Len(words) \in Nat /\ Len(words') = Len(words) + 1 /\ words' # <<>>
      /\ words'[Len(words) + 1] = added
      /\ \A w \in 1 .. Len(words) : words'[w] = words[w]
  <2>1. words \in Seq(S \cup {added}) /\ added \in S \cup {added} /\ Len(words) \in Nat
    BY <1>3
  <2> QED
    BY <1>1, <2>1
<1>5. added.from = cursor /\ added.upto = e /\ ~added.lowered
  BY DEF added
<1>6. cursor' \in 1 .. Len(text) + 1 /\ cursor' - 1 = e
  BY <1>1, <1>2
<1>7. ~(In(cursor' - 1, Spaces) /\ In(cursor', Spaces))
  BY <1>1, <1>2, <1>6 DEF In
<1>8. cursor = IF words = <<>> THEN 1 ELSE words[Len(words)].upto + 1
  <2>1. cursor \in Int
    OBVIOUS
  <2>2. IF words = <<>> THEN cursor = 1 ELSE words[Len(words)].upto = cursor - 1
    BY DEF WordsInv
  <2> QED
    BY <2>1, <2>2
<1>9. ASSUME NEW w \in 1 .. Len(words')
      PROVE  /\ words'[w].from = (IF w = 1 THEN 1 ELSE words'[w - 1].upto + 1)
             /\ words'[w].upto = RegexEnd(words'[w].from) /\ ~words'[w].lowered
  <2>1. CASE w \in 1 .. Len(words)
    <3>1. /\ words[w].from = (IF w = 1 THEN 1 ELSE words[w - 1].upto + 1)
          /\ words[w].upto = RegexEnd(words[w].from) /\ ~words[w].lowered
      BY <2>1 DEF WordsInv
    <3>2. w = 1 \/ w - 1 \in 1 .. Len(words)
      BY <1>4, <2>1
    <3> QED
      BY <1>4, <2>1, <3>1, <3>2
  <2>2. CASE w = Len(words) + 1
    <3>1. w = 1 <=> words = <<>>
      BY <1>3, <1>4, <2>2
    <3>2. w = 1 \/ (w - 1 = Len(words) /\ w - 1 \in 1 .. Len(words))
      BY <1>3, <1>4, <2>2
    <3>3. words'[w].from = cursor /\ words'[w].upto = RegexEnd(cursor) /\ ~words'[w].lowered
      BY <1>2, <1>4, <1>5, <2>2
    <3> QED
      BY <1>4, <1>8, <3>1, <3>2, <3>3
  <2> QED
    BY <1>4, <2>1, <2>2
<1>10. words'[Len(words')].upto = cursor' - 1
  BY <1>4, <1>5, <1>6
<1>11. splitPc' = "splitting" /\ text' \in Texts /\ wideIsSpace' \in BOOLEAN /\ text' = text
  BY <1>1 DEF WordsInv
<1>12. (\A w \in 1 .. Len(words) : words[w].upto = RegexEnd(words[w].from))'
  <2>1. \A k : RegexEnd(k)' = RegexEnd(k)
    BY <1>1 DEF RegexEnd, RunEnd, At, In, Within
  <2> QED
    BY <1>9, <2>1
<1>13. cursor' \in 1 .. Len(text') + 1 /\ ~(In(cursor - 1, Spaces) /\ In(cursor, Spaces))'
  BY <1>6, <1>7, <1>11 DEF In, Within, At
<1> QED
  <2>1. \A w \in 1 .. Len(words') :
          words'[w].from = (IF w = 1 THEN 1 ELSE words'[w - 1].upto + 1) /\ ~words'[w].lowered
    BY <1>9
  <2> QED
    BY <1>4, <1>10, <1>11, <1>12, <1>13, <2>1, Zenon DEF WordsInv

\* Nothing is read, and the end is noticed only where it is.
LEMMA NothingPushed ==
  ASSUME WordsInv, ~Irregular, UNCHANGED <<text, wideIsSpace, cursor, words>>,
         splitPc' \in {"splitting", "split"}, splitPc' = "split" => cursor = Len(text) + 1
  PROVE  WordsInv'
PROOF
<1>1. (\A w \in 1 .. Len(words) : words[w].upto = RegexEnd(words[w].from))'
  <2>1. \A k : RegexEnd(k)' = RegexEnd(k)
    BY DEF RegexEnd, RunEnd, At, In, Within
  <2> QED
    BY <2>1 DEF WordsInv
<1>2. ~(In(cursor - 1, Spaces) /\ In(cursor, Spaces))'
  BY DEF WordsInv, In, Within, At
<1> QED
  BY <1>1, <1>2 DEF WordsInv

LEMMA WordsInitially == SplitInit => WordsInv
PROOF
<1> SUFFICES ASSUME SplitInit PROVE WordsInv
  OBVIOUS
<1>1. text \in Seq(Characters) /\ Len(text) \in Nat /\ cursor = 1 /\ words = <<>>
  BY TokenSplitAssumption DEF SplitInit
<1>2. cursor \in 1 .. Len(text) + 1 /\ ~In(cursor - 1, Spaces) /\ words \in Seq({})
      /\ Len(words) = 0
  BY <1>1 DEF In, Within
<1> QED
  BY <1>1, <1>2 DEF SplitInit, WordsInv

LEMMA WordsStep == WordsInv /\ [SplitNext]_splitVars => WordsInv'
PROOF
<1> SUFFICES ASSUME WordsInv, [SplitNext]_splitVars PROVE WordsInv'
  OBVIOUS
<1>1. UNCHANGED <<text, wideIsSpace>> /\ splitPc' \in {"splitting", "split"}
  BY DEF WordsInv, SplitNext, Contraction, Number, Letters, Marks, Blanks, Skip, SplitDone,
         SplitEnded, splitVars, Push
<1>2. Irregular' = Irregular
  BY <1>1 DEF Irregular, OneWord, RunEnd, At, In, Within
<1>3. CASE Irregular
  BY <1>1, <1>2, <1>3 DEF WordsInv
<1>4. CASE ~Irregular
  <2>1. Regular /\ Len(text) \in Nat
    BY <1>4, TokenSplitAssumption DEF Regular, WordsInv
  <2>2. CASE Splitting
    <3>1. Begins(cursor) /\ cursor \in 1 .. Len(text) /\ splitPc = "splitting"
      BY <1>4, <2>2 DEF WordsInv, Begins, Splitting, Within
    <3>2. CASE Contraction
      <4>1. /\ WordTo(cursor, ContractionEnd(cursor))
            /\ \A j \in cursor .. ContractionEnd(cursor) : At(j) = Lower(At(j))
        BY <2>1, <3>1, <3>2, ContractionIsWord DEF Contraction
      <4> DEFINE lowered == \E k \in cursor .. ContractionEnd(cursor) : At(k) # Lower(At(k))
      <4>2. Push(ContractionEnd(cursor), lowered) /\ lowered = FALSE
        BY <3>2, <4>1 DEF Contraction
      <4> HIDE DEF lowered
      <4> QED
        BY <1>4, <3>1, <4>1, <4>2, PushKeeps
    <3>3. CASE Number
      BY <1>4, <2>1, <3>1, <3>3, NumberIsWord, PushKeeps DEF Number
    <3>4. CASE Letters
      <4> DEFINE e == RunEnd(IF In(cursor, AsciiLetters) THEN cursor ELSE cursor + 1, AsciiLetters)
      <4>1. Push(e, FALSE) /\ ContractionEnd(cursor) = 0 /\ LettersAt(cursor)
        BY <3>4 DEF Letters, LettersAt
      <4>2. WordTo(cursor, e)
        BY <2>1, <3>1, <4>1, LettersAreWord
      <4> QED
        BY <1>4, <3>1, <4>1, <4>2, PushKeeps
    <3>5. CASE Marks
      <4> DEFINE e == RunEnd(RunEnd(PunctuationAt(cursor), Punctuation) + 1, {"\n"})
      <4>1. Push(e, FALSE)
        BY <3>5 DEF Marks
      <4>2. WordTo(cursor, e)
        BY <2>1, <3>1, <3>5, MarksAreWord DEF Marks
      <4> QED
        BY <1>4, <3>1, <4>1, <4>2, PushKeeps
    <3>6. CASE Blanks
      <4>1. WordTo(cursor, BlankEnd(cursor)) /\ Push(BlankEnd(cursor), FALSE)
        BY <2>1, <3>1, <3>6, BlanksAreWord DEF Blanks
      <4> QED
        BY <1>4, <3>1, <4>1, PushKeeps
    <3>7. CASE Skip
      <4>1. At(cursor) \in Characters /\ (At(cursor) \in Punctuation <=> At(cursor) \in Marked)
        BY <2>1, <3>1, RegularText
      <4>2. /\ At(cursor) \notin Numbers \cup Spaces /\ At(cursor) \notin AsciiLetters
            /\ At(cursor) \notin Punctuation
        <5>1. ~In(cursor, Numbers \cup Spaces) /\ ~LettersAt(cursor) /\ PunctuationAt(cursor) = 0
          BY <3>7 DEF Skip
        <5>2. cursor # 0 /\ cursor + 1 # 0
          BY <3>1
        <5> QED
          BY <3>1, <5>1, <5>2 DEF LettersAt, PunctuationAt, In, Within
      <4> QED
        BY <4>1, <4>2 DEF Marked
    <3>8. CASE SplitDone
      BY <2>2, <3>8 DEF SplitDone, Splitting
    <3>9. CASE SplitEnded \/ UNCHANGED splitVars
      <4>1. UNCHANGED splitVars
        BY <3>9 DEF SplitEnded
      <4>2. UNCHANGED <<text, wideIsSpace, cursor, words>> /\ splitPc' = "splitting"
        BY <3>1, <4>1 DEF splitVars
      <4> QED
        BY <1>4, <4>2, NothingPushed
    <3> QED
      BY <3>2, <3>3, <3>4, <3>5, <3>6, <3>7, <3>8, <3>9 DEF SplitNext
  <2>3. CASE ~Splitting
    <3>1. SplitDone \/ UNCHANGED splitVars
      BY <2>3 DEF SplitNext, Contraction, Number, Letters, Marks, Blanks, Skip, SplitEnded
    <3>2. UNCHANGED <<cursor, words>>
      BY <3>1 DEF SplitDone, splitVars
    <3>3. splitPc' = "split" => cursor = Len(text) + 1
      BY <1>4, <2>1, <3>1 DEF SplitDone, splitVars, WordsInv, Within
    <3> QED
      BY <1>1, <1>4, <3>2, <3>3, NothingPushed
  <2> QED
    BY <2>2, <2>3
<1> QED
  BY <1>3, <1>4

\* Every text that is not one of the three irregular kinds is cut into the words
\* of the expression, whatever its length, and nothing of it is lost (token_split).
THEOREM WordsAsRegex == SplitSpec => []SplitsAsRegex
PROOF
<1>1. WordsInv => SplitsAsRegex
  <2> SUFFICES ASSUME WordsInv, ~Irregular PROVE SplitsAsRegex
    BY DEF SplitsAsRegex
  <2>1. Len(text) \in Nat
    BY TokenSplitAssumption DEF WordsInv
  <2>2. \A w \in 1 .. Len(words) :
          /\ words[w].from = (IF w = 1 THEN 1 ELSE words[w - 1].upto + 1)
          /\ words[w].upto = RegexEnd(words[w].from) /\ ~words[w].lowered
    BY DEF WordsInv
  <2>3. splitPc = "split" /\ words # <<>> => words[Len(words)].upto = Len(text)
    <3> SUFFICES ASSUME splitPc = "split", words # <<>> PROVE words[Len(words)].upto = Len(text)
      OBVIOUS
    <3>1. words[Len(words)].upto = cursor - 1 /\ cursor = Len(text) + 1
      BY DEF WordsInv
    <3> QED
      BY <2>1, <3>1
  <2> QED
    BY <2>2, <2>3 DEF SplitsAsRegex
<1> QED
  BY WordsInitially, WordsStep, <1>1, PTL DEF SplitSpec

\* White space ends somewhere, also where a line break cuts it (the loop of
\* token_split over isspace).
LEMMA BlanksEnd ==
  ASSUME text \in Seq(Characters), NEW k \in 1 .. Len(text), At(k) \in Spaces
  PROVE  BlankEnd(k) \in k .. Len(text)
PROOF
<1> DEFINE Stops(e) == ~In(e + 1, Spaces) \/ (e > k /\ At(e + 1) = "\n")
           BlankWord(e) == /\ \A j \in k .. e : At(j) \in Spaces
                           /\ Stops(e)
                           /\ \A f \in k + 1 .. e - 1 : At(f + 1) # "\n"
           T == {n \in Nat : n >= k /\ Stops(n)}
<1>1. Len(text) \in Nat /\ k \in Nat /\ k >= 1 /\ k <= Len(text)
  OBVIOUS
<1>2. Len(text) \in T
  <2>1. ~In(Len(text) + 1, Spaces)
    BY <1>1 DEF In, Within
  <2> QED
    BY <1>1, <2>1
<1> HIDE DEF Stops
<1>3. PICK n \in T : \A m \in T : n <= m
  BY <1>2, SmallestNumber
<1>4. n \in k .. Len(text)
  BY <1>1, <1>2, <1>3
<1>5. ASSUME NEW f \in k .. n - 1 PROVE ~Stops(f)
  BY <1>1, <1>3, <1>4
<1>6. ASSUME NEW j \in k .. n PROVE At(j) \in Spaces
  <2>1. CASE j = k
    BY <2>1
  <2>2. CASE j # k
    <3>1. j - 1 \in k .. n - 1 /\ (j - 1) + 1 = j
      BY <1>1, <1>4, <2>2
    <3>2. ~Stops(j - 1)
      BY <1>5, <3>1
    <3> QED
      BY <3>1, <3>2 DEF Stops, In
  <2> QED
    BY <2>1, <2>2
<1>7. ASSUME NEW f \in k + 1 .. n - 1 PROVE At(f + 1) # "\n"
  <2>1. f \in k .. n - 1 /\ f > k
    BY <1>1, <1>4
  <2> QED
    BY <1>5, <2>1 DEF Stops
<1>8. BlankWord(n)
  BY <1>3, <1>6, <1>7
<1>9. BlankEnd(k) = CHOOSE e \in k .. Len(text) : BlankWord(e)
  BY DEF BlankEnd, Stops
<1> HIDE DEF BlankWord
<1> QED
  BY <1>4, <1>8, <1>9

\* The inductive invariant
SplitTyped == SplitTypeOK /\ \E S : words \in Seq(S)

\* A word inside the text keeps it.
LEMMA InsideKeeps ==
  ASSUME SplitTyped, Splitting, NEW e \in cursor .. Len(text), NEW lowered, Push(e, lowered)
  PROVE  SplitTyped'
PROOF
<1> DEFINE added == [from |-> cursor, upto |-> e, lowered |-> lowered]
<1>1. words' = Append(words, added) /\ cursor' = e + 1 /\ UNCHANGED <<splitPc, text, wideIsSpace>>
  BY DEF Push
<1>2. Len(text) \in Nat /\ cursor \in 1 .. Len(text) /\ e \in 1 .. Len(text)
  <2>1. Len(text) \in Nat /\ cursor \in 1 .. Len(text)
    BY TokenSplitAssumption DEF SplitTyped, SplitTypeOK, Splitting, Within
  <2> QED
    BY <2>1
<1>3. PICK S : words \in Seq(S)
  BY DEF SplitTyped
<1>4. added.from = cursor /\ added.upto = e
  OBVIOUS
<1> HIDE DEF added
<1>5. /\ words' \in Seq(S \cup {added}) /\ Len(words) \in Nat /\ Len(words') = Len(words) + 1
      /\ words'[Len(words) + 1] = added
      /\ \A w \in 1 .. Len(words) : words'[w] = words[w]
  <2>1. words \in Seq(S \cup {added}) /\ added \in S \cup {added} /\ Len(words) \in Nat
    BY <1>3
  <2> QED
    BY <1>1, <2>1
<1>6. ASSUME NEW w \in 1 .. Len(words')
      PROVE  words'[w].from \in 1 .. Len(text) /\ words'[w].upto \in 1 .. Len(text)
  <2>1. w \in 1 .. Len(words) \/ w = Len(words) + 1
    BY <1>5
  <2> QED
    BY <1>2, <1>4, <1>5, <2>1 DEF SplitTyped, SplitTypeOK
<1>7. cursor' \in 1 .. Len(text) + 1
  BY <1>1, <1>2
<1> QED
  BY <1>1, <1>5, <1>6, <1>7 DEF SplitTyped, SplitTypeOK

\* A step pushes a word that begins at the cursor and ends inside the text, drops a
\* character, or is the last.
LEMMA StepOfSplit ==
  ASSUME SplitTyped, SplitNext
  PROVE  \/ Splitting /\ \E e \in cursor .. Len(text) : \E lowered : Push(e, lowered)
         \/ Skip \/ SplitDone \/ SplitEnded
PROOF
<1>1. text \in Seq(Characters) /\ Len(text) \in Nat /\ cursor \in Nat
  BY TokenSplitAssumption DEF SplitTyped, SplitTypeOK
<1>2. Splitting => cursor \in 1 .. Len(text)
  BY DEF Splitting, Within
<1>3. CASE Contraction
  <2>1. ContractionEnd(cursor) \in cursor .. Len(text)
    BY <1>1, <1>2, <1>3 DEF Contraction, ContractionEnd, Within
  <2> QED
    BY <1>3, <2>1 DEF Contraction
<1>4. CASE Number
  <2>1. cursor \in cursor .. Len(text)
    BY <1>1, <1>2, <1>4 DEF Number
  <2> QED
    BY <1>4, <2>1 DEF Number
<1>5. CASE Letters
  <2>1. Splitting
    BY <1>5 DEF Letters
  <2>2. CASE In(cursor, AsciiLetters)
    <3>1. RunEnd(cursor, AsciiLetters) \in cursor .. Len(text)
      BY <1>1, <1>2, <2>1, <2>2, RunNotEmpty DEF In
    <3> QED
      BY <1>5, <2>2, <3>1 DEF Letters
  <2>3. CASE ~In(cursor, AsciiLetters)
    <3>1. In(cursor + 1, AsciiLetters) /\ Push(RunEnd(cursor + 1, AsciiLetters), FALSE)
      BY <1>5, <2>3 DEF Letters
    <3>2. RunEnd(cursor + 1, AsciiLetters) \in cursor + 1 .. Len(text)
      BY <1>1, <3>1, RunNotEmpty DEF In, Within
    <3>3. RunEnd(cursor + 1, AsciiLetters) \in cursor .. Len(text)
      BY <1>1, <3>2
    <3> QED
      BY <2>1, <3>1, <3>3
  <2> QED
    BY <2>2, <2>3
<1>6. CASE Marks
  <2> DEFINE p == PunctuationAt(cursor)
             e == RunEnd(p, Punctuation)
             f == RunEnd(e + 1, {"\n"})
  <2>1. Splitting /\ p # 0 /\ Push(f, FALSE)
    BY <1>6 DEF Marks
  <2>2. p \in cursor .. cursor + 1 /\ In(p, Punctuation)
    <3>1. \/ p = cursor + 1 /\ In(cursor + 1, Punctuation)
          \/ p = cursor /\ In(cursor, Punctuation)
      BY <2>1, Zenon DEF PunctuationAt
    <3> HIDE DEF p
    <3> QED
      BY <1>1, <3>1
  <2>3. p \in 1 .. Len(text) /\ At(p) \in Punctuation /\ p >= cursor
    BY <1>1, <1>2, <2>1, <2>2 DEF In, Within
  <2> HIDE DEF p
  <2>4. e \in p .. Len(text)
    BY <1>1, <2>3, RunNotEmpty
  <2> HIDE DEF e
  <2>5. e + 1 \in 1 .. Len(text) + 1
    BY <1>1, <2>3, <2>4
  <2>6. f \in (e + 1) - 1 .. Len(text)
    BY <1>1, <2>5, RunEnds
  <2> HIDE DEF f
  <2>7. f \in cursor .. Len(text)
    BY <1>1, <2>3, <2>4, <2>6
  <2> QED
    BY <2>1, <2>7
<1>7. CASE Blanks
  <2>1. BlankEnd(cursor) \in cursor .. Len(text)
    BY <1>1, <1>2, <1>7, BlanksEnd DEF Blanks, In
  <2> QED
    BY <1>7, <2>1 DEF Blanks
<1> QED
  BY <1>3, <1>4, <1>5, <1>6, <1>7 DEF SplitNext

\* Every step of token_split keeps the types.
LEMMA SplitStaysTyped == SplitTyped /\ [SplitNext]_splitVars => SplitTyped'
PROOF
<1> SUFFICES ASSUME SplitTyped, [SplitNext]_splitVars PROVE SplitTyped'
  OBVIOUS
<1>1. text \in Seq(Characters) /\ Len(text) \in Nat /\ cursor \in Nat
  BY TokenSplitAssumption DEF SplitTyped, SplitTypeOK
<1>2. CASE Splitting /\ \E e \in cursor .. Len(text) : \E lowered : Push(e, lowered)
  BY <1>2, InsideKeeps
<1>3. CASE Skip
  <2>1. cursor + 1 \in 1 .. Len(text) + 1
    BY <1>1, <1>3 DEF Skip, Splitting, Within
  <2> QED
    BY <1>3, <2>1 DEF Skip, SplitTyped, SplitTypeOK
<1>4. CASE SplitDone \/ SplitEnded \/ UNCHANGED splitVars
  BY <1>4 DEF SplitDone, SplitEnded, splitVars, SplitTyped, SplitTypeOK
<1> QED
  BY <1>2, <1>3, <1>4, StepOfSplit

\* The invariant holds in every state of token_split.
LEMMA SplitTypedHolds == SplitSpec => []SplitTyped
PROOF
<1>1. SplitInit => SplitTyped
  <2> SUFFICES ASSUME SplitInit PROVE SplitTyped
    OBVIOUS
  <2>1. Len(text) \in Nat /\ words = <<>> /\ words \in Seq({}) /\ cursor = 1 /\ Len(words) = 0
    BY TokenSplitAssumption DEF SplitInit
  <2>2. cursor \in 1 .. Len(text) + 1 /\ 1 .. Len(words) = {}
    BY <2>1
  <2> QED
    BY <2>1, <2>2 DEF SplitInit, SplitTyped, SplitTypeOK
<1> QED
  BY <1>1, SplitStaysTyped, PTL DEF SplitSpec

\* No text, regular or not, makes token_split move or cut past its end.
THEOREM SplitTypes == SplitSpec => []SplitTypeOK
PROOF
<1>1. SplitTyped => SplitTypeOK
  BY DEF SplitTyped
<1> QED
  BY SplitTypedHolds, <1>1, PTL

\* A step moves the cursor on inside the text, by a word or by a character that is
\* dropped, or it is the last.
SplitCloser ==
  \/ splitPc' = splitPc /\ cursor < cursor' /\ cursor' <= Len(text) + 1
  \/ splitPc = "splitting" /\ splitPc' = "split"

\* The loop of token_split ends on every text, regular or not: each of its passes,
\* whichever of the alternatives it takes, moves the cursor on, and none past the end.
THEOREM SplitEnds == SplitSpec => [][SplitCloser]_splitVars
PROOF
<1>1. SplitTyped /\ [SplitNext]_splitVars => [SplitCloser]_splitVars
  <2> SUFFICES ASSUME SplitTyped, SplitNext, ~(UNCHANGED splitVars) PROVE SplitCloser
    OBVIOUS
  <2>1. text \in Seq(Characters) /\ Len(text) \in Nat /\ cursor \in Nat
    BY TokenSplitAssumption DEF SplitTyped, SplitTypeOK
  <2>2. CASE \E e \in cursor .. Len(text) : \E lowered : Push(e, lowered)
    <3>1. PICK e \in cursor .. Len(text) : \E lowered : Push(e, lowered)
      BY <2>2
    <3>2. splitPc' = splitPc /\ cursor' = e + 1
      BY <3>1 DEF Push
    <3> QED
      BY <2>1, <3>2 DEF SplitCloser
  <2>3. CASE Skip
    BY <2>1, <2>3 DEF Skip, Splitting, Within, SplitCloser
  <2>4. CASE SplitDone
    BY <2>4 DEF SplitDone, SplitCloser
  <2> QED
    BY <2>2, <2>3, <2>4, StepOfSplit DEF SplitEnded
<1> QED
  BY SplitTypedHolds, <1>1, PTL DEF SplitSpec

-----------------------------------------------------------------------------
(* The tokens of a word *)

\* f is what pieces spell, up to each of them, and s what they spell together.
SpelledBy(pieces, f, s) ==
  /\ f \in [0 .. Len(pieces) -> Seq(Alphabet)] /\ f[0] = <<>> /\ f[Len(pieces)] = s
  /\ \A k \in 1 .. Len(pieces) : f[k] = f[k - 1] \o pieces[k]

Spells(pieces, s) == \E f : SpelledBy(pieces, f, s)

\* Spelling computes it.
LEMMA SpellingIs ==
  ASSUME NEW pieces \in Seq(Seq(Alphabet)), NEW s, Spells(pieces, s)
  PROVE  Spelling(pieces) = s
PROOF
<1> DEFINE n == Len(pieces)
           Rec(g) == g = [k \in 0 .. n |-> IF k = 0 THEN <<>> ELSE g[k - 1] \o pieces[k]]
           upto == CHOOSE g : Rec(g)
<1>1. n \in Nat
  OBVIOUS
<1>2. PICK f : SpelledBy(pieces, f, s)
  BY DEF Spells
<1>3. Rec(f)
  <2>1. f = [k \in 0 .. n |-> f[k]]
    BY <1>2 DEF SpelledBy
  <2>2. \A k \in 0 .. n : f[k] = IF k = 0 THEN <<>> ELSE f[k - 1] \o pieces[k]
    <3> TAKE k \in 0 .. n
    <3>1. k = 0 \/ k \in 1 .. n
      BY <1>1
    <3> QED
      BY <1>2, <3>1 DEF SpelledBy
  <2> QED
    BY <2>1, <2>2
<1>4. Rec(upto)
  <2> HIDE DEF Rec
  <2> QED
    BY <1>3
<1>5. Spelling(pieces) = upto[n]
  BY DEF Spelling
<1> HIDE DEF upto
<1> DEFINE T == {k \in Nat : k <= n => upto[k] = f[k]}
<1>6. 0 \in T
  <2>1. upto[0] = <<>>
    BY <1>1, <1>4
  <2> QED
    BY <1>2, <2>1 DEF SpelledBy
<1>7. ASSUME NEW k \in Nat, k \in T PROVE k + 1 \in T
  <2> SUFFICES ASSUME k + 1 <= n PROVE upto[k + 1] = f[k + 1]
    OBVIOUS
  <2>1. k + 1 \in 1 .. n /\ (k + 1) - 1 = k /\ k <= n /\ k + 1 # 0 /\ k + 1 \in 0 .. n
    BY <1>1
  <2>2. upto[k + 1] = upto[k] \o pieces[k + 1]
    BY <1>4, <2>1
  <2>3. f[k + 1] = f[k] \o pieces[k + 1]
    BY <1>2, <2>1 DEF SpelledBy
  <2> QED
    BY <1>7, <2>1, <2>2, <2>3
<1>8. n \in T
  <2> HIDE DEF T
  <2> QED
    BY <1>1, <1>6, <1>7, NumberInduction
<1> QED
  BY <1>1, <1>2, <1>5, <1>8 DEF SpelledBy

LEMMA SpellsNone == Spells(<<>>, <<>>)
PROOF
<1>1. SpelledBy(<<>>, [k \in 0 .. 0 |-> <<>>], <<>>)
  BY DEF SpelledBy
<1> QED
  BY <1>1 DEF Spells

LEMMA SpellsOneMore ==
  ASSUME NEW pieces \in Seq(Seq(Alphabet)), NEW s, Spells(pieces, s), NEW x \in Seq(Alphabet)
  PROVE  Spells(Append(pieces, x), s \o x)
PROOF
<1> DEFINE n == Len(pieces)
           p == Append(pieces, x)
<1>1. PICK f : SpelledBy(pieces, f, s)
  BY DEF Spells
<1>2. n \in Nat /\ Len(p) = n + 1 /\ p[n + 1] = x /\ \A k \in 1 .. n : p[k] = pieces[k]
  OBVIOUS
<1>3. f \in [0 .. n -> Seq(Alphabet)] /\ f[n] = s /\ s \in Seq(Alphabet)
  <2>1. n \in 0 .. n
    BY <1>2
  <2> QED
    BY <1>1, <2>1 DEF SpelledBy
<1> DEFINE g == [k \in 0 .. n + 1 |-> IF k = n + 1 THEN s \o x ELSE f[k]]
<1>4. s \o x \in Seq(Alphabet)
  BY <1>3, ConcatProperties
<1>5. g \in [0 .. n + 1 -> Seq(Alphabet)]
  <2> SUFFICES ASSUME NEW k \in 0 .. n + 1, k # n + 1 PROVE f[k] \in Seq(Alphabet)
    BY <1>4
  <2>1. k \in 0 .. n
    BY <1>2
  <2> QED
    BY <1>3, <2>1
<1>6. g[0] = <<>> /\ g[n + 1] = s \o x
  BY <1>1, <1>2 DEF SpelledBy
<1>7. ASSUME NEW k \in 1 .. n + 1 PROVE g[k] = g[k - 1] \o p[k]
  <2>1. CASE k = n + 1
    <3>1. k - 1 = n /\ n # n + 1 /\ n \in 0 .. n + 1 /\ n + 1 \in 0 .. n + 1
      BY <1>2, <2>1
    <3>2. g[k - 1] = s /\ g[k] = s \o x /\ p[k] = x
      BY <1>2, <1>3, <2>1, <3>1
    <3> QED
      BY <3>2
  <2>2. CASE k # n + 1
    <3>1. k \in 1 .. n /\ k - 1 \in 0 .. n /\ k - 1 # n + 1 /\ k \in 0 .. n + 1 /\ k - 1 \in 0 .. n + 1
      BY <1>2, <2>2
    <3>2. g[k] = f[k] /\ g[k - 1] = f[k - 1]
      BY <2>2, <3>1
    <3>3. f[k] = f[k - 1] \o pieces[k]
      BY <1>1, <3>1 DEF SpelledBy
    <3> QED
      BY <1>2, <3>1, <3>2, <3>3
  <2> QED
    BY <2>1, <2>2
<1> HIDE DEF g, p
<1>8. SpelledBy(p, g, s \o x)
  BY <1>2, <1>5, <1>6, <1>7 DEF SpelledBy
<1> QED
  BY <1>8 DEF Spells, p
\* What load_from_merges is given: no two merges make the same token, as is so
\* for the merges of vocab_qwen.hpp.
OneMergeEach ==
  \A list \in MergeLists : \A r, q \in DOMAIN list :
    list[r][1] \o list[r][2] = list[q][1] \o list[q][2] => r = q

LEMMA JoinedIsLonger ==
  ASSUME NEW a \in Seq(Alphabet), NEW b \in Seq(Alphabet), Len(a) >= 1
  PROVE  a \o b \in Seq(Alphabet) /\ Len(a \o b) >= 1 /\ (Len(b) >= 1 => Len(a \o b) # 1)
PROOF
<1>1. a \o b \in Seq(Alphabet) /\ Len(a \o b) = Len(a) + Len(b)
  BY ConcatProperties
<1>2. Len(a) \in Nat /\ Len(b) \in Nat
  OBVIOUS
<1> QED
  BY <1>1, <1>2

\* A merge has two sides that are not empty.
LEMMA MergesHaveSides ==
  ASSUME NEW list \in MergeLists, NEW r \in DOMAIN list
  PROVE  /\ list[r] = <<list[r][1], list[r][2]>>
         /\ list[r][1] \in Seq(Alphabet) /\ list[r][2] \in Seq(Alphabet)
         /\ Len(list[r][1]) >= 1 /\ Len(list[r][2]) >= 1
PROOF
<1>1. list \in Seq(Seq(Alphabet) \X Seq(Alphabet)) /\ DOMAIN list = 1 .. Len(list) /\ Len(list) \in Nat
  <2>1. list \in Seq(Seq(Alphabet) \X Seq(Alphabet))
    BY TokenizerAssumption
  <2> QED
    BY <2>1
<1>2. \A q \in DOMAIN list : /\ list[q] = <<list[q][1], list[q][2]>>
                            /\ list[q][1] \in Seq(Alphabet) /\ list[q][2] \in Seq(Alphabet)
  <2> TAKE q \in DOMAIN list
  <2>1. list[q] \in Seq(Alphabet) \X Seq(Alphabet)
    BY <1>1
  <2> QED
    BY <2>1
<1> DEFINE T == {q \in Nat : q \in DOMAIN list => Len(list[q][1]) >= 1 /\ Len(list[q][2]) >= 1}
<1>3. ASSUME NEW q \in Nat, \A p \in 0 .. q - 1 : p \in T PROVE q \in T
  <2> SUFFICES ASSUME q \in DOMAIN list, NEW side \in {1, 2} PROVE Len(list[q][side]) >= 1
    OBVIOUS
  <2>1. \/ Len(list[q][side]) = 1
        \/ \E p \in 1 .. q - 1 : list[q][side] = list[p][1] \o list[p][2]
    BY TokenizerAssumption
  <2>2. ASSUME NEW p \in 1 .. q - 1, list[q][side] = list[p][1] \o list[p][2]
        PROVE Len(list[q][side]) >= 1
    <3>1. p \in DOMAIN list /\ p \in 0 .. q - 1
      BY <1>1
    <3>2. Len(list[p][1]) >= 1
      BY <1>3, <3>1
    <3>3. list[p][1] \in Seq(Alphabet) /\ list[p][2] \in Seq(Alphabet)
      BY <1>2, <3>1
    <3>4. Len(list[p][1] \o list[p][2]) >= 1
      BY <3>2, <3>3, JoinedIsLonger
    <3> QED
      BY <2>2, <3>4
  <2>3. ASSUME NEW l, l = 1 PROVE l >= 1
    BY <2>3
  <2> QED
    BY <2>1, <2>2, <2>3
<1>4. r \in T
  <2> HIDE DEF T
  <2>1. r \in Nat
    BY <1>1
  <2> QED
    BY <1>3, <2>1, StrongInduction
<1> QED
  BY <1>2, <1>4

\* A merge that uses what another one makes comes after it.
LEMMA UsesLater ==
  ASSUME OneMergeEach, NEW list \in MergeLists, NEW r \in DOMAIN list, NEW q \in DOMAIN list,
         NEW side \in {1, 2}, list[q][side] = list[r][1] \o list[r][2]
  PROVE  r < q
PROOF
<1>1. DOMAIN list = 1 .. Len(list) /\ Len(list) \in Nat
  BY TokenizerAssumption
<1>2. Len(list[q][side]) # 1
  <2>1. /\ list[r][1] \in Seq(Alphabet) /\ list[r][2] \in Seq(Alphabet)
        /\ Len(list[r][1]) >= 1 /\ Len(list[r][2]) >= 1
    BY MergesHaveSides
  <2>2. Len(list[r][1] \o list[r][2]) # 1
    BY <2>1, JoinedIsLonger
  <2> QED
    BY <2>2
<1>3. PICK p \in 1 .. q - 1 : list[q][side] = list[p][1] \o list[p][2]
  BY <1>2, TokenizerAssumption
<1>4. p \in DOMAIN list
  BY <1>1
<1>5. p = r
  BY <1>3, <1>4 DEF OneMergeEach
<1> QED
  BY <1>1, <1>5

NewPiece == bigram[1] \o bigram[2]

\* While the best bigram is merged: neighbours in new_word were neighbours, but
\* not the bigram, or one of them is new; and the last is new, or is no begin of
\* the bigram.
Merging ==
  /\ \E r \in DOMAIN merges : bigram = merges[r] /\ \A q \in RanksIn(word) : r <= q
  /\ \A k \in 1 .. Len(newWord) - 1 :
       \/ newWord[k] = NewPiece \/ newWord[k + 1] = NewPiece
       \/ /\ <<newWord[k], newWord[k + 1]>> \in PairsOf(word)
          /\ <<newWord[k], newWord[k + 1]>> # bigram
  /\ newWord # <<>> =>
       \/ newWord[Len(newWord)] = NewPiece
       \/ scanned >= 1 /\ newWord[Len(newWord)] = word[scanned] /\ ~BigramAt(scanned)

\* The inductive invariant
BpeInv ==
  /\ bpePc \in {"choosing", "merging", "pushing"} /\ merges \in MergeLists
  /\ word \in Seq(Seq(Alphabet)) /\ newWord \in Seq(Seq(Alphabet)) /\ scanned \in 0 .. Len(word)
  /\ \A k \in 1 .. Len(word) : word[k] \in Vocabulary
  /\ \E f : /\ SpelledBy(word, f, original)
            /\ bpePc = "merging" => Spells(newWord, f[scanned])
  /\ bpePc = "merging" => Merging /\ \A k \in 1 .. Len(newWord) : newWord[k] \in Vocabulary
  /\ bpePc = "choosing" => scanned = 0
  /\ IF bpePc = "pushing" THEN pushed = SubSeq(word, 1, scanned) /\ RanksIn(word) = {}
     ELSE pushed = <<>>
  /\ bpePc = "choosing" /\ bigram # None =>
       \A r, q \in DOMAIN merges : merges[r] = bigram /\ q \in RanksIn(word) => r < q

LEMMA BpeInitially == TokenizerInit => BpeInv
PROOF
<1> SUFFICES ASSUME TokenizerInit PROVE BpeInv
  OBVIOUS
<1>1. original \in Seq(Alphabet) /\ merges \in MergeLists /\ Len(original) \in Nat
  BY TokenizerAssumption DEF TokenizerInit
<1>2. /\ word = [k \in 1 .. Len(original) |-> <<original[k]>>] /\ bpePc = "choosing" /\ bigram = None
      /\ scanned = 0 /\ newWord = <<>> /\ pushed = <<>>
  BY DEF TokenizerInit
<1>3. \A k \in 1 .. Len(original) : original[k] \in Alphabet
  BY <1>1
<1>4. word \in Seq(Seq(Alphabet)) /\ Len(word) = Len(original)
  <2>1. \A k \in 1 .. Len(original) : <<original[k]>> \in Seq(Alphabet)
    BY <1>3
  <2> QED
    BY <1>1, <1>2, <2>1
<1>5. \A k \in 1 .. Len(word) : word[k] \in Vocabulary
  BY <1>2, <1>3, <1>4 DEF Vocabulary
<1> DEFINE f == [k \in 0 .. Len(original) |-> SubSeq(original, 1, k)]
<1>6. f \in [0 .. Len(original) -> Seq(Alphabet)]
  <2> SUFFICES ASSUME NEW k \in 0 .. Len(original) PROVE SubSeq(original, 1, k) \in Seq(Alphabet)
    OBVIOUS
  <2>1. \A i \in 1 .. k : original[i] \in Alphabet
    BY <1>1, <1>3
  <2> QED
    BY <1>1, <2>1, SubSeqProperties
<1>7. f[0] = <<>> /\ f[Len(original)] = original
  <2>1. SubSeq(original, 1, 0) = <<>>
    BY <1>1
  <2>2. SubSeq(original, 1, Len(original)) = original
    BY <1>1
  <2> QED
    BY <1>1, <2>1, <2>2
<1>8. ASSUME NEW k \in 1 .. Len(original) PROVE f[k] = f[k - 1] \o word[k]
  <2>1. SubSeq(original, 1, k) = SubSeq(original, 1, k - 1) \o <<original[k]>>
    BY <1>1
  <2>2. k \in 0 .. Len(original) /\ k - 1 \in 0 .. Len(original) /\ word[k] = <<original[k]>>
    BY <1>1, <1>2
  <2> QED
    BY <2>1, <2>2
<1> HIDE DEF f
<1>9. SpelledBy(word, f, original)
  BY <1>4, <1>6, <1>7, <1>8 DEF SpelledBy
<1> QED
  <2>1. newWord \in Seq(Seq(Alphabet)) /\ scanned \in 0 .. Len(word)
    BY <1>1, <1>2, <1>4
  <2>2. \E g : SpelledBy(word, g, original) /\ (bpePc = "merging" => Spells(newWord, g[scanned]))
    BY <1>2, <1>9
  <2> QED
    BY <1>1, <1>2, <1>4, <1>5, <2>1, <2>2 DEF BpeInv
LEMMA JoinedThree ==
  ASSUME NEW a \in Seq(Alphabet), NEW b \in Seq(Alphabet), NEW c \in Seq(Alphabet)
  PROVE  (a \o b) \o c = a \o (b \o c)
PROOF
  BY ConcatAssociative

LEMMA SpelledOne ==
  ASSUME NEW pieces, NEW f, NEW s, SpelledBy(pieces, f, s), NEW k \in Nat, k + 1 \in 1 .. Len(pieces)
  PROVE  f[k + 1] = f[k] \o pieces[k + 1]
PROOF
<1>1. (k + 1) - 1 = k
  OBVIOUS
<1> QED
  BY <1>1 DEF SpelledBy

\* What is so of merges and of the bigram while it is merged
LEMMA BigramFacts ==
  ASSUME BpeInv, Merging
  PROVE  /\ bigram[1] \in Seq(Alphabet) /\ bigram[2] \in Seq(Alphabet)
         /\ NewPiece \in Seq(Alphabet) /\ NewPiece \in Vocabulary
PROOF
<1>1. PICK r \in DOMAIN merges : bigram = merges[r]
  BY DEF Merging
<1>2. /\ bigram[1] \in Seq(Alphabet) /\ bigram[2] \in Seq(Alphabet) /\ Len(bigram[1]) >= 1
  BY <1>1, MergesHaveSides DEF BpeInv
<1>3. NewPiece \in Seq(Alphabet)
  BY <1>2, JoinedIsLonger DEF NewPiece
<1>4. NewPiece \in Vocabulary
  BY <1>1 DEF NewPiece, Vocabulary
<1> QED
  BY <1>2, <1>3, <1>4

LEMMA ChooseBestKeeps == ASSUME BpeInv, ChooseBest PROVE BpeInv'
PROOF
<1>1. UNCHANGED <<merges, original, word, pushed>> /\ scanned' = 0 /\ newWord' = <<>>
      /\ bpePc = "choosing" /\ scanned = 0 /\ pushed = <<>>
  BY DEF ChooseBest, BpeInv
<1>2. Vocabulary' = Vocabulary /\ RanksIn(word)' = RanksIn(word)
  BY <1>1 DEF Vocabulary, RanksIn, PairsOf
<1>3. PICK f : SpelledBy(word, f, original)
  BY DEF BpeInv
<1>4. f[0] = <<>> /\ newWord' \in Seq(Seq(Alphabet)) /\ Len(newWord') = 0 /\ scanned' \in 0 .. Len(word)
      /\ SubSeq(word, 1, 0) = <<>> /\ word \in Seq(Seq(Alphabet))
  BY <1>1, <1>3 DEF SpelledBy, BpeInv
<1>5. SpelledBy(word', f, original') /\ Spells(newWord', f[scanned'])
  BY <1>1, <1>3, <1>4, SpellsNone
<1>6. CASE RanksIn(word) = {}
  <2>1. bpePc' = "pushing"
    BY <1>6 DEF ChooseBest
  <2> QED
    BY <1>1, <1>2, <1>4, <1>5, <1>6, <2>1 DEF BpeInv
<1>7. CASE RanksIn(word) # {}
  <2>1. bpePc' = "merging" /\ bigram' = merges[Best(RanksIn(word))]
    BY <1>7 DEF ChooseBest
  <2>2. RanksIn(word) \in SUBSET Nat /\ RanksIn(word) \subseteq DOMAIN merges
    <3>1. merges \in Seq(Seq(Alphabet) \X Seq(Alphabet))
      BY TokenizerAssumption DEF BpeInv
    <3> QED
      BY <3>1 DEF RanksIn
  <2>3. \E r \in RanksIn(word) : \A q \in RanksIn(word) : r <= q
    BY <1>7, <2>2, SmallestNumber
  <2>4. /\ Best(RanksIn(word)) \in RanksIn(word)
        /\ \A q \in RanksIn(word) : Best(RanksIn(word)) <= q
    BY <2>3 DEF Best
  <2>5. Merging'
    BY <1>1, <1>2, <1>4, <2>1, <2>2, <2>4 DEF Merging
  <2> QED
    BY <1>1, <1>2, <1>4, <1>5, <2>1, <2>5 DEF BpeInv
<1> QED
  BY <1>6, <1>7

\* A piece of new_word more, which is what scanned pieces of word more spell
LEMMA OneMorePiece ==
  ASSUME BpeInv, bpePc = "merging", NEW x \in Seq(Alphabet), x \in Vocabulary,
         NEW k \in 1 .. Len(word), scanned' = k, newWord' = Append(newWord, x),
         UNCHANGED <<bpePc, merges, original, word, bigram, pushed>>,
         NEW f, SpelledBy(word, f, original), Spells(newWord, f[scanned]), f[k] = f[scanned] \o x,
         x = NewPiece \/ (k = scanned + 1 /\ x = word[k] /\ ~BigramAt(k))
  PROVE  BpeInv'
PROOF
<1> DEFINE n == Len(newWord)
<1>1. /\ newWord \in Seq(Seq(Alphabet)) /\ n \in Nat /\ scanned \in Nat /\ Merging
      /\ Len(word) \in Nat /\ k \in 0 .. Len(word)
  BY DEF BpeInv
<1>2. /\ newWord' \in Seq(Seq(Alphabet)) /\ Len(newWord') = n + 1 /\ newWord'[n + 1] = x
      /\ \A j \in 1 .. n : newWord'[j] = newWord[j]
      /\ newWord' # <<>>
  BY <1>1
<1> HIDE DEF n
<1>3. Vocabulary' = Vocabulary /\ RanksIn(word)' = RanksIn(word) /\ NewPiece' = NewPiece
      /\ PairsOf(word)' = PairsOf(word)
  BY DEF Vocabulary, RanksIn, PairsOf, NewPiece
<1>4. \A j \in 1 .. Len(newWord') : newWord'[j] \in Vocabulary
  <2> TAKE j \in 1 .. Len(newWord')
  <2>1. j \in 1 .. n \/ j = n + 1
    BY <1>1, <1>2
  <2> QED
    BY <1>2, <2>1 DEF BpeInv, n
<1>5. Spells(newWord', f[k])
  BY <1>1, SpellsOneMore
<1>6. Merging'
  <2>1. ASSUME NEW j \in 1 .. Len(newWord') - 1
        PROVE  \/ newWord'[j] = NewPiece \/ newWord'[j + 1] = NewPiece
               \/ /\ <<newWord'[j], newWord'[j + 1]>> \in PairsOf(word)
                  /\ <<newWord'[j], newWord'[j + 1]>> # bigram
    <3>1. CASE j \in 1 .. n - 1
      <4>1. newWord'[j] = newWord[j] /\ newWord'[j + 1] = newWord[j + 1]
        BY <1>1, <1>2, <3>1
      <4> QED
        BY <1>1, <3>1, <4>1 DEF Merging, n
    <3>2. CASE j = n
      <4>1. n >= 1 /\ newWord'[j] = newWord[n] /\ newWord'[j + 1] = x /\ newWord # <<>>
        BY <1>1, <1>2, <3>2 DEF n
      <4>2. \/ newWord[n] = NewPiece
            \/ scanned >= 1 /\ newWord[n] = word[scanned] /\ ~BigramAt(scanned)
        BY <1>1, <4>1 DEF Merging, n
      <4>3. CASE x = NewPiece \/ newWord[n] = NewPiece
        BY <4>1, <4>3
      <4>4. CASE x # NewPiece /\ newWord[n] # NewPiece
        <5>1. scanned >= 1 /\ newWord[n] = word[scanned] /\ ~BigramAt(scanned)
              /\ k = scanned + 1 /\ x = word[scanned + 1]
          BY <4>2, <4>4
        <5>2. scanned < Len(word) /\ scanned \in 1 .. Len(word) - 1
          BY <1>1, <5>1
        <5>3. <<word[scanned], word[scanned + 1]>> \in PairsOf(word)
          BY <5>2 DEF PairsOf
        <5>4. ~(word[scanned] = bigram[1] /\ word[scanned + 1] = bigram[2])
          BY <5>1, <5>2 DEF BigramAt
        <5>5. <<word[scanned], word[scanned + 1]>> # bigram
          BY <5>4
        <5> QED
          BY <4>1, <5>1, <5>3, <5>5
      <4> QED
        BY <4>3, <4>4
    <3>3. j \in 1 .. n - 1 \/ j = n
      BY <1>1, <1>2, <2>1
    <3> QED
      BY <3>1, <3>2, <3>3
  <2>2. newWord'[Len(newWord')] = NewPiece \/
          (k >= 1 /\ newWord'[Len(newWord')] = word[k] /\ ~BigramAt(k))
    BY <1>2
  <2>3. BigramAt(k)' = BigramAt(k)
    BY DEF BigramAt
  <2>4. \E r \in DOMAIN merges' : bigram' = merges'[r] /\ \A q \in RanksIn(word)' : r <= q
    BY <1>1, <1>3 DEF Merging
  <2>5. newWord'[Len(newWord')] = NewPiece' \/
          (scanned' >= 1 /\ newWord'[Len(newWord')] = word'[scanned'] /\ ~BigramAt(scanned)')
    BY <1>3, <2>2, <2>3
  <2> QED
    BY <1>3, <2>1, <2>4, <2>5 DEF Merging
<1> QED
  BY <1>1, <1>2, <1>3, <1>4, <1>5, <1>6 DEF BpeInv

LEMMA ScanKeeps == ASSUME BpeInv, Scan PROVE BpeInv'
PROOF
<1>1. bpePc = "merging" /\ scanned < Len(word) /\ Merging /\ scanned \in Nat /\ Len(word) \in Nat
      /\ word \in Seq(Seq(Alphabet))
      /\ UNCHANGED <<bpePc, merges, original, word, bigram, pushed>>
  BY DEF Scan, BpeInv
<1>2. PICK f : SpelledBy(word, f, original) /\ Spells(newWord, f[scanned])
  BY <1>1 DEF BpeInv
<1>3. \A k \in 1 .. Len(word) : f[k] = f[k - 1] \o word[k]
  BY <1>2 DEF SpelledBy
<1>4. f[scanned] \in Seq(Alphabet)
  <2>1. f \in [0 .. Len(word) -> Seq(Alphabet)] /\ scanned \in 0 .. Len(word)
    BY <1>1, <1>2 DEF SpelledBy
  <2> QED
    BY <2>1
<1>5. CASE BigramAt(scanned + 1)
  <2>1. /\ newWord' = Append(newWord, NewPiece) /\ scanned' = scanned + 2
        /\ word[scanned + 1] = bigram[1] /\ word[scanned + 2] = bigram[2]
        /\ scanned + 2 \in 1 .. Len(word) /\ scanned + 1 \in 1 .. Len(word)
    <3>1. scanned + 1 < Len(word) /\ scanned + 1 + 1 = scanned + 2
      BY <1>1, <1>5 DEF BigramAt
    <3>2. word[scanned + 1] = bigram[1] /\ word[scanned + 2] = bigram[2]
      BY <1>5, <3>1 DEF BigramAt
    <3>3. newWord' = Append(newWord, NewPiece) /\ scanned' = scanned + 2
      BY <1>5 DEF Scan, NewPiece
    <3> QED
      BY <1>1, <3>1, <3>2, <3>3
  <2>2. /\ bigram[1] \in Seq(Alphabet) /\ bigram[2] \in Seq(Alphabet)
        /\ NewPiece \in Seq(Alphabet) /\ NewPiece \in Vocabulary
    BY <1>1, BigramFacts
  <2>3. f[scanned + 1] = f[scanned] \o bigram[1] /\ f[scanned + 2] = f[scanned + 1] \o bigram[2]
    <3>1. f[scanned + 1] = f[scanned] \o word[scanned + 1]
      BY <1>1, <1>2, <2>1, SpelledOne
    <3>2. scanned + 1 \in Nat /\ scanned + 1 + 1 = scanned + 2
      BY <1>1
    <3>3. f[scanned + 2] = f[scanned + 1] \o word[scanned + 2]
      BY <1>2, <2>1, <3>2, SpelledOne
    <3> QED
      BY <2>1, <3>1, <3>3
  <2>4. f[scanned + 2] = f[scanned] \o NewPiece
    <3> DEFINE a == f[scanned]
    <3> HIDE DEF a
    <3>1. a \in Seq(Alphabet)
      BY <1>4 DEF a
    <3>2. (a \o bigram[1]) \o bigram[2] = a \o (bigram[1] \o bigram[2])
      BY <2>2, <3>1, JoinedThree
    <3> QED
      BY <2>3, <3>2 DEF NewPiece, a
  <2> DEFINE k == scanned + 2
             x == NewPiece
  <2> HIDE DEF k, x
  <2>5. x \in Seq(Alphabet) /\ x \in Vocabulary /\ k \in 1 .. Len(word) /\ scanned' = k
        /\ newWord' = Append(newWord, x) /\ f[k] = f[scanned] \o x /\ x = NewPiece
    BY <2>1, <2>2, <2>4 DEF k, x
  <2> QED
    BY <1>1, <1>2, <2>5, OneMorePiece
<1>6. CASE ~BigramAt(scanned + 1)
  <2> DEFINE k == scanned + 1
             x == word[k]
  <2>1. k \in 1 .. Len(word) /\ k - 1 = scanned
    BY <1>1
  <2>2. newWord' = Append(newWord, x) /\ scanned' = k
    BY <1>6 DEF Scan
  <2>3. x \in Seq(Alphabet) /\ x \in Vocabulary
    BY <1>1, <2>1 DEF BpeInv
  <2>4. f[k] = f[scanned] \o x
    <3>1. f[k] = f[k - 1] \o word[k]
      BY <1>3, <2>1
    <3> QED
      BY <2>1, <3>1
  <2>5. k = scanned + 1 /\ x = word[k] /\ ~BigramAt(k)
    BY <1>6
  <2> HIDE DEF k, x
  <2> QED
    BY <1>1, <1>2, <2>1, <2>2, <2>3, <2>4, <2>5, OneMorePiece
<1> QED
  BY <1>5, <1>6

\* Merged everywhere, the bigram is gone, and all that is left ranks after it.
LEMMA RanksAfter ==
  ASSUME OneMergeEach, BpeInv, Merging, NEW r \in DOMAIN merges, merges[r] = bigram,
         NEW q \in RanksIn(newWord)
  PROVE  r < q
PROOF
<1>1. merges \in MergeLists /\ newWord \in Seq(Seq(Alphabet)) /\ Len(newWord) \in Nat
  BY DEF BpeInv
<1>2. PICK b \in DOMAIN merges : bigram = merges[b] /\ \A p \in RanksIn(word) : b <= p
  BY DEF Merging
<1>3. b = r
  BY <1>1, <1>2 DEF OneMergeEach
<1>4. q \in DOMAIN merges /\ \E k \in 1 .. Len(newWord) - 1 : merges[q] = <<newWord[k], newWord[k + 1]>>
  BY DEF RanksIn, PairsOf
<1>5. PICK k \in 1 .. Len(newWord) - 1 : merges[q] = <<newWord[k], newWord[k + 1]>>
  BY <1>4
<1>6. CASE newWord[k] = NewPiece \/ newWord[k + 1] = NewPiece
  <2>1. \E side \in {1, 2} : merges[q][side] = merges[r][1] \o merges[r][2]
    <3>1. merges[q][1] = newWord[k] /\ merges[q][2] = newWord[k + 1]
      BY <1>5
    <3>2. NewPiece = merges[r][1] \o merges[r][2]
      BY DEF NewPiece
    <3>3. CASE newWord[k] = NewPiece
      BY <3>1, <3>2, <3>3
    <3>4. CASE newWord[k + 1] = NewPiece
      BY <3>1, <3>2, <3>4
    <3> QED
      BY <1>6, <3>3, <3>4
  <2> QED
    BY <1>1, <1>4, <2>1, UsesLater
<1>7. CASE merges[q] \in PairsOf(word) /\ merges[q] # bigram
  <2>1. q \in RanksIn(word) /\ q # r
    BY <1>4, <1>7 DEF RanksIn
  <2>2. r \in Nat /\ q \in Nat
    <3>1. merges \in Seq(Seq(Alphabet) \X Seq(Alphabet))
      BY <1>1, TokenizerAssumption
    <3>2. DOMAIN merges = 1 .. Len(merges) /\ Len(merges) \in Nat
      BY <3>1
    <3> QED
      BY <1>4, <3>2
  <2> QED
    BY <1>2, <1>3, <2>1, <2>2
<1> QED
  BY <1>5, <1>6, <1>7 DEF Merging

LEMMA ScannedKeeps == ASSUME OneMergeEach, BpeInv, Scanned PROVE BpeInv'
PROOF
<1>1. /\ bpePc = "merging" /\ scanned = Len(word) /\ Merging /\ word' = newWord /\ scanned' = 0
      /\ UNCHANGED <<merges, original, bigram, newWord, pushed>> /\ pushed = <<>>
      /\ newWord \in Seq(Seq(Alphabet)) /\ Len(newWord) \in Nat /\ word \in Seq(Seq(Alphabet))
  BY DEF Scanned, BpeInv
<1>2. PICK f : SpelledBy(word, f, original) /\ Spells(newWord, f[scanned])
  BY <1>1 DEF BpeInv
<1>3. PICK g : SpelledBy(newWord, g, original)
  BY <1>1, <1>2 DEF SpelledBy, Spells
<1>4. Vocabulary' = Vocabulary /\ RanksIn(word)' = RanksIn(newWord)
  BY <1>1 DEF Vocabulary, RanksIn, PairsOf
<1>5. \A k \in 1 .. Len(newWord) : newWord[k] \in Vocabulary
  BY <1>1 DEF BpeInv
<1>6. 0 \in 0 .. Len(newWord) /\ SubSeq(newWord, 1, 0) = <<>>
  BY <1>1
<1>7. SpelledBy(word', g, original')
  BY <1>1, <1>3
<1>8. CASE Len(newWord) = 1
  <2>1. bpePc' = "pushing"
    BY <1>8 DEF Scanned
  <2>2. RanksIn(newWord) = {}
    BY <1>8 DEF RanksIn, PairsOf
  <2> QED
    BY <1>1, <1>4, <1>5, <1>6, <1>7, <2>1, <2>2 DEF BpeInv
<1>9. CASE Len(newWord) # 1
  <2>1. bpePc' = "choosing"
    BY <1>9 DEF Scanned
  <2>2. \A r, q \in DOMAIN merges : merges[r] = bigram /\ q \in RanksIn(newWord) => r < q
    BY <1>1, RanksAfter
  <2> QED
    BY <1>1, <1>4, <1>5, <1>6, <1>7, <2>1, <2>2 DEF BpeInv
<1> QED
  BY <1>8, <1>9

LEMMA PushTokenKeeps == ASSUME BpeInv, PushToken PROVE BpeInv'
PROOF
<1>1. /\ bpePc = "pushing" /\ scanned < Len(word) /\ scanned' = scanned + 1
      /\ UNCHANGED <<bpePc, merges, original, word, bigram, newWord>>
      /\ word \in Seq(Seq(Alphabet)) /\ scanned \in Nat /\ Len(word) \in Nat
      /\ pushed = SubSeq(word, 1, scanned) /\ RanksIn(word) = {}
  BY DEF PushToken, BpeInv
<1>2. scanned + 1 \in 1 .. Len(word) /\ scanned + 1 \in 0 .. Len(word)
  BY <1>1
<1>3. word[scanned + 1] \in Vocabulary
  BY <1>2 DEF BpeInv
<1>4. pushed' = Append(SubSeq(word, 1, scanned), word[scanned + 1])
  BY <1>1, <1>3 DEF PushToken
<1>5. pushed' = SubSeq(word, 1, scanned + 1)
  BY <1>1, <1>2, <1>4
<1>6. Vocabulary' = Vocabulary /\ RanksIn(word)' = RanksIn(word)
  BY <1>1 DEF Vocabulary, RanksIn, PairsOf
<1> QED
  BY <1>1, <1>2, <1>5, <1>6 DEF BpeInv

LEMMA BpeStep == ASSUME OneMergeEach PROVE BpeInv /\ [TokenizerNext]_bpeVars => BpeInv'
PROOF
<1> SUFFICES ASSUME BpeInv, [TokenizerNext]_bpeVars PROVE BpeInv'
  OBVIOUS
<1>1. CASE TokenizerDone \/ UNCHANGED bpeVars
  <2>1. UNCHANGED <<bpePc, merges, original, word, bigram, scanned, newWord, pushed>>
    BY <1>1 DEF TokenizerDone, bpeVars
  <2>2. /\ Vocabulary' = Vocabulary /\ RanksIn(word)' = RanksIn(word) /\ Merging' = Merging
    BY <2>1 DEF Vocabulary, RanksIn, PairsOf, Merging, BigramAt, NewPiece
  <2> QED
    BY <2>1, <2>2 DEF BpeInv
<1> QED
  BY <1>1, ChooseBestKeeps, ScanKeeps, ScannedKeeps, PushTokenKeeps DEF TokenizerNext

\* Every word of every length, for all merges that make one token each: the
\* tokens spell the word and are in the vocabulary, nothing is left to merge,
\* and no merge is done twice (BPETokenizer::bpe, encode).
THEOREM WordsEncoded == ASSUME OneMergeEach PROVE TokenizerSpec => []EncodedFully
PROOF
<1>1. BpeInv => EncodedFully
  <2> SUFFICES ASSUME BpeInv PROVE EncodedFully
    OBVIOUS
  <2>1. ASSUME bpePc = "pushing", scanned = Len(word)
        PROVE  Spelling(pushed) = original /\ RanksIn(pushed) = {}
    <3>1. word \in Seq(Seq(Alphabet)) /\ pushed = SubSeq(word, 1, Len(word)) /\ RanksIn(word) = {}
      BY <2>1 DEF BpeInv
    <3>2. pushed = word
      BY <3>1
    <3>3. Spells(word, original)
      BY DEF BpeInv, Spells
    <3> QED
      BY <3>1, <3>2, <3>3, SpellingIs
  <2> QED
    BY <2>1 DEF BpeInv, EncodedFully
<1> QED
  BY BpeInitially, BpeStep, <1>1, PTL DEF TokenizerSpec

\* The inductive invariant: what is merged are pieces.
BpeTyped ==
  TokenizerTypeOK /\ (bpePc = "merging" => bigram[1] \o bigram[2] \in Seq(Alphabet))

LEMMA BpeStaysTyped == BpeTyped /\ [TokenizerNext]_bpeVars => BpeTyped'
PROOF
<1> SUFFICES ASSUME BpeTyped, [TokenizerNext]_bpeVars PROVE BpeTyped'
  OBVIOUS
<1> USE DEF BpeTyped, TokenizerTypeOK
<1>1. CASE ChooseBest
  <2>1. CASE RanksIn(word) = {}
    BY <1>1, <2>1 DEF ChooseBest
  <2>2. CASE RanksIn(word) # {}
    <3> DEFINE best == Best(RanksIn(word))
    <3>1. RanksIn(word) \subseteq DOMAIN merges /\ merges \in Seq(Seq(Alphabet) \X Seq(Alphabet))
      BY TokenizerAssumption DEF RanksIn
    <3>2. RanksIn(word) \in SUBSET Nat
      BY <3>1
    <3>3. PICK r \in RanksIn(word) : \A q \in RanksIn(word) : r <= q
      BY <2>2, <3>2, SmallestNumber
    <3>4. best \in RanksIn(word)
      BY <3>3 DEF Best
    <3> HIDE DEF best
    <3>5. merges[best] \in Seq(Alphabet) \X Seq(Alphabet)
      BY <3>1, <3>4
    <3>6. merges[best][1] \o merges[best][2] \in Seq(Alphabet)
      BY <3>5
    <3>7. bigram' = merges[best] /\ bpePc' = "merging" /\ scanned' = 0 /\ newWord' = <<>>
          /\ UNCHANGED <<merges, original, word, pushed>>
      BY <1>1, <2>2 DEF ChooseBest, best
    <3> QED
      BY <3>6, <3>7
  <2> QED
    BY <2>1, <2>2
<1>2. CASE Scan
  <2>1. /\ word \in Seq(Seq(Alphabet)) /\ newWord \in Seq(Seq(Alphabet))
        /\ scanned \in 0 .. Len(word) /\ scanned < Len(word) /\ Len(word) \in Nat
        /\ bigram[1] \o bigram[2] \in Seq(Alphabet)
        /\ UNCHANGED <<bpePc, merges, original, word, bigram, pushed>>
    BY <1>2 DEF Scan
  <2>2. PICK piece \in Seq(Alphabet) : newWord' = Append(newWord, piece)
    <3>1. word[scanned + 1] \in Seq(Alphabet)
      BY <2>1
    <3> QED
      BY <1>2, <2>1, <3>1 DEF Scan
  <2>3. newWord' \in Seq(Seq(Alphabet))
    BY <2>1, <2>2
  <2>4. scanned' = scanned + 2 => scanned + 1 < Len(word)
    <3>1. ~BigramAt(scanned + 1) => scanned' = scanned + 1
      BY <1>2 DEF Scan
    <3>2. BigramAt(scanned + 1) => scanned + 1 < Len(word)
      BY DEF BigramAt
    <3> QED
      BY <2>1, <3>1, <3>2
  <2>5. scanned' = scanned + 1 \/ scanned' = scanned + 2
    BY <1>2 DEF Scan
  <2>6. scanned' \in 0 .. Len(word)
    BY <2>1, <2>4, <2>5
  <2> QED
    BY <2>1, <2>3, <2>6
<1>3. CASE Scanned
  BY <1>3 DEF Scanned
<1>4. CASE PushToken
  BY <1>4 DEF PushToken
<1>5. CASE TokenizerDone \/ UNCHANGED bpeVars
  BY <1>5 DEF TokenizerDone, bpeVars
<1> QED
  BY <1>1, <1>2, <1>3, <1>4, <1>5 DEF TokenizerNext

\* The invariant holds in every state of BPETokenizer::bpe.
LEMMA BpeTypedHolds == TokenizerSpec => []BpeTyped
PROOF
<1>1. TokenizerInit => BpeTyped
  <2> SUFFICES ASSUME TokenizerInit PROVE BpeTyped
    OBVIOUS
  <2>1. original \in Seq(Alphabet) /\ word = [k \in 1 .. Len(original) |-> <<original[k]>>]
    BY TokenizerAssumption DEF TokenizerInit
  <2>2. word \in Seq(Seq(Alphabet))
    BY <2>1
  <2> QED
    BY <2>2 DEF TokenizerInit, BpeTyped, TokenizerTypeOK
<1> QED
  BY <1>1, BpeStaysTyped, PTL DEF TokenizerSpec

\* Words and tokens are made of pieces of letters, and a scan that takes two
\* pieces at once ends inside the word (BPETokenizer::bpe looks at i + 1).
THEOREM TokenizerTypes == TokenizerSpec => []TokenizerTypeOK
PROOF
<1>1. BpeTyped => TokenizerTypeOK
  BY DEF BpeTyped
<1> QED
  BY BpeTypedHolds, <1>1, PTL

-----------------------------------------------------------------------------
(* The merging ends *)

\* The bigram is still ahead of the scan.
BigramAhead == \E k \in scanned + 1 .. Len(word) - 1 : word[k] = bigram[1] /\ word[k + 1] = bigram[2]

\* The inductive invariant: until the bigram is met, new_word has a piece for each
\* that was scanned, and from then on fewer.
Shrinking ==
  bpePc = "merging" =>
    \/ Len(newWord) < scanned
    \/ Len(newWord) = scanned /\ BigramAhead

BpeStage == IF bpePc = "pushing" THEN 0 ELSE 1

\* Pieces left to scan, and one step more while the bigram is chosen
PiecesLeft == IF bpePc = "choosing" THEN Len(word) + 1 ELSE Len(word) - scanned

\* A step leaves the loop, a word of fewer pieces, or fewer of them to look at.
BpeCloser ==
  \/ BpeStage' < BpeStage
  \/ BpeStage' = BpeStage /\ Len(word') < Len(word)
  \/ BpeStage' = BpeStage /\ Len(word') = Len(word) /\ PiecesLeft' < PiecesLeft

\* The best bigram is one of the word (get_pairs), and the scan begins before it.
LEMMA ChosenAhead ==
  ASSUME BpeTyped, ChooseBest
  PROVE  Shrinking' /\ BpeCloser
PROOF
<1>1. /\ bpePc = "choosing" /\ word' = word /\ scanned' = 0 /\ newWord' = <<>>
      /\ word \in Seq(Seq(Alphabet)) /\ Len(word) \in Nat
  BY DEF ChooseBest, BpeTyped, TokenizerTypeOK
<1>2. CASE RanksIn(word) = {}
  <2>1. bpePc' = "pushing"
    BY <1>2 DEF ChooseBest
  <2> QED
    BY <1>1, <2>1 DEF Shrinking, BpeCloser, BpeStage
<1>3. CASE RanksIn(word) # {}
  <2> DEFINE best == Best(RanksIn(word))
  <2>1. RanksIn(word) \in SUBSET Nat
    <3>1. merges \in Seq(Seq(Alphabet) \X Seq(Alphabet))
      BY TokenizerAssumption DEF BpeTyped, TokenizerTypeOK
    <3> QED
      BY <3>1 DEF RanksIn
  <2>2. \E r \in RanksIn(word) : \A q \in RanksIn(word) : r <= q
    BY <1>3, <2>1, SmallestNumber
  <2>3. best \in RanksIn(word)
    BY <2>2 DEF Best
  <2>4. bigram' = merges[best] /\ bpePc' = "merging"
    BY <1>3 DEF ChooseBest
  <2> HIDE DEF best
  <2>5. PICK k \in 1 .. Len(word) - 1 : merges[best] = <<word[k], word[k + 1]>>
    BY <2>3 DEF RanksIn, PairsOf
  <2>6. k \in scanned' + 1 .. Len(word') - 1 /\ word'[k] = bigram'[1] /\ word'[k + 1] = bigram'[2]
    BY <1>1, <2>4, <2>5
  <2>7. BigramAhead'
    BY <2>6 DEF BigramAhead
  <2>8. Len(newWord') = scanned'
    BY <1>1
  <2>9. PiecesLeft' = Len(word) - 0 /\ PiecesLeft = Len(word) + 1
    BY <1>1, <2>4 DEF PiecesLeft
  <2>10. BpeStage' = BpeStage
    BY <1>1, <2>4 DEF BpeStage
  <2> QED
    BY <1>1, <2>7, <2>8, <2>9, <2>10 DEF Shrinking, BpeCloser
<1> QED
  BY <1>2, <1>3

\* A scan that meets the bigram takes two pieces for one, and any other passes none.
LEMMA ScanShrinks ==
  ASSUME BpeTyped, Shrinking, Scan
  PROVE  Shrinking' /\ BpeCloser
PROOF
<1>1. /\ bpePc = "merging" /\ UNCHANGED <<bpePc, word, bigram>> /\ scanned < Len(word)
      /\ scanned \in Nat /\ Len(word) \in Nat /\ newWord \in Seq(Seq(Alphabet)) /\ Len(newWord) \in Nat
      /\ word \in Seq(Seq(Alphabet))
  BY DEF Scan, BpeTyped, TokenizerTypeOK
<1>2. Len(newWord) <= scanned
  BY <1>1 DEF Shrinking
<1>3. \E piece : newWord' = Append(newWord, piece)
  BY DEF Scan
<1>4. Len(newWord') = Len(newWord) + 1
  BY <1>1, <1>3
<1>5. BpeStage' = BpeStage /\ Len(word') = Len(word)
  BY <1>1 DEF BpeStage
<1>6. PiecesLeft = Len(word) - scanned /\ PiecesLeft' = Len(word) - scanned'
  BY <1>1 DEF PiecesLeft
<1>7. CASE BigramAt(scanned + 1)
  <2>1. scanned' = scanned + 2
    BY <1>7 DEF Scan
  <2> QED
    BY <1>1, <1>2, <1>4, <1>5, <1>6, <2>1 DEF Shrinking, BpeCloser
<1>8. CASE ~BigramAt(scanned + 1)
  <2>1. scanned' = scanned + 1
    BY <1>8 DEF Scan
  <2>2. CASE Len(newWord) < scanned
    BY <1>1, <1>4, <1>5, <1>6, <2>1, <2>2 DEF Shrinking, BpeCloser
  <2>3. CASE Len(newWord) = scanned /\ BigramAhead
    <3>1. PICK k \in scanned + 1 .. Len(word) - 1 : word[k] = bigram[1] /\ word[k + 1] = bigram[2]
      BY <2>3 DEF BigramAhead
    <3>2. k # scanned + 1
      BY <1>1, <1>8, <3>1 DEF BigramAt
    <3>3. k \in (scanned + 1) + 1 .. Len(word) - 1
      BY <1>1, <3>1, <3>2
    <3>4. BigramAhead'
      BY <1>1, <2>1, <3>1, <3>3 DEF BigramAhead
    <3>5. Len(newWord') = scanned'
      BY <1>4, <2>1, <2>3
    <3> QED
      BY <1>1, <1>5, <1>6, <2>1, <3>4, <3>5 DEF Shrinking, BpeCloser
  <2> QED
    BY <1>1, <2>2, <2>3 DEF Shrinking
<1> QED
  BY <1>7, <1>8

\* A word that was scanned has been shortened.
LEMMA ScannedShrinks ==
  ASSUME BpeTyped, Shrinking, Scanned
  PROVE  Shrinking' /\ BpeCloser
PROOF
<1>1. /\ bpePc = "merging" /\ scanned = Len(word) /\ word' = newWord /\ bpePc' # "merging"
      /\ Len(word) \in Nat /\ Len(newWord) \in Nat /\ bpePc' \in {"pushing", "choosing"}
  BY DEF Scanned, BpeTyped, TokenizerTypeOK
<1>2. ~BigramAhead
  BY <1>1 DEF BigramAhead
<1>3. Len(word') < Len(word)
  BY <1>1, <1>2 DEF Shrinking
<1>4. BpeStage' = BpeStage \/ BpeStage' < BpeStage
  BY <1>1 DEF BpeStage
<1> QED
  BY <1>1, <1>3, <1>4 DEF Shrinking, BpeCloser

\* While tokens are pushed, pieces are left behind.
LEMMA PushShrinks ==
  ASSUME BpeTyped, PushToken
  PROVE  Shrinking' /\ BpeCloser
PROOF
<1>1. /\ bpePc = "pushing" /\ UNCHANGED <<bpePc, word>> /\ scanned' = scanned + 1
      /\ Len(word) \in Nat /\ scanned \in Nat
  BY DEF PushToken, BpeTyped, TokenizerTypeOK
<1>2. PiecesLeft = Len(word) - scanned /\ PiecesLeft' = Len(word) - (scanned + 1)
  BY <1>1 DEF PiecesLeft
<1> QED
  BY <1>1, <1>2 DEF Shrinking, BpeCloser, BpeStage

\* The loop of BPETokenizer::bpe, a while (true), ends on every word and for every
\* list of merges, also one in which two merges make the same token: each of its
\* passes leaves the word fewer pieces.
THEOREM MergingEnds == TokenizerSpec => [][BpeCloser]_bpeVars
PROOF
<1>1. TokenizerInit => Shrinking
  BY DEF TokenizerInit, Shrinking
<1>2. BpeTyped /\ Shrinking /\ [TokenizerNext]_bpeVars => Shrinking' /\ [BpeCloser]_bpeVars
  <2> SUFFICES ASSUME BpeTyped, Shrinking, [TokenizerNext]_bpeVars
               PROVE  Shrinking' /\ [BpeCloser]_bpeVars
    OBVIOUS
  <2>1. CASE TokenizerDone \/ UNCHANGED bpeVars
    <3>1. UNCHANGED bpeVars
      BY <2>1 DEF TokenizerDone
    <3> QED
      BY <3>1 DEF bpeVars, Shrinking, BigramAhead
  <2> QED
    BY <2>1, ChosenAhead, ScanShrinks, ScannedShrinks, PushShrinks DEF TokenizerNext
<1> QED
  BY BpeTypedHolds, <1>1, <1>2, PTL DEF TokenizerSpec

=============================================================================
