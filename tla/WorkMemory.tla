----------------------------- MODULE WorkMemory -----------------------------
(***************************************************************************)
(* The memory of one library call (condenser.cpp): a context of a fixed    *)
(* size is opened, every tensor the call makes for itself is taken from it *)
(* and given back only with it, and one that does not fit aborts the       *)
(* process.                                                                *)
(*                                                                         *)
(* Memory is counted in floats, of four bytes, and images in squares of 16 *)
(* pixels.                                                                 *)
(***************************************************************************)
EXTENDS Integers, Sequences

CONSTANTS
  Images,      \* width and height of images
  RefCounts,   \* how many reference images a request has
  TokenTotals, \* tokens of a prompt, with the padding
  RunCounts,   \* how often the diffusion model is run
  HiddenSize   \* of the text encoder

ASSUME WorkMemoryAssumption ==
  /\ Images \subseteq [w : Nat \ {0}, h : Nat \ {0}]
  /\ RefCounts \cup TokenTotals \cup RunCounts \subseteq Nat
  /\ HiddenSize \in Nat

Megabyte == 262144

VARIABLES
  workPc,
  call,   \* what was called, and for what
  budget, \* mem_size
  used,
  taken   \* how many tensors were made

workVars == <<workPc, call, budget, used, taken>>

Calls ==
  [op : {"generate"}, image : Images, refs : RefCounts, ref : Images, tokens : TokenTotals,
   cachedCondition : BOOLEAN, method : {"euler", "euler_a", "heun"}, preview : BOOLEAN,
   runs : RunCounts]
  \cup [op : {"condition"}, tokens : TokenTotals]
  \cup [op : {"encode"}, image : Images]

\* What an image takes: three channels to show it, 128 in the latent
Shown(image) == 3 * 256 * image.w * image.h
Latent(image) == 128 * image.w * image.h

Smaller(a, b) == IF a < b THEN a ELSE b
Larger(a, b) == IF a > b THEN a ELSE b

-----------------------------------------------------------------------------
\* Bug the runs must notice: the budget forgets one tensor of the sampler.
SevenLatents(c) ==
  7 * Latent(c.image) + Shown(c.image) + c.refs * Latent(c.ref) + 128 * Megabyte

\* The estimate of prepare_generation
Estimate(c) ==
  8 * Latent(c.image) + Shown(c.image) + c.refs * Latent(c.ref) + 128 * Megabyte

Budget(c) ==
  CASE c.op = "generate" -> Smaller(Larger(Estimate(c), 256 * Megabyte), 1024 * Megabyte)
    [] c.op = "condition" -> 64 * Megabyte
    [] c.op = "encode" ->
         Larger(Shown(c.image) + Latent(c.image) + 16 * Megabyte, 32 * Megabyte)

-----------------------------------------------------------------------------
(* The tensors of a call, in the order they are made *)

Several(n, size) == [i \in 1 .. n |-> size]

\* The states three layers of the text encoder have for every token
States(tokens) == 3 * HiddenSize * tokens

\* get_learned_condition: input_ids, attention_mask and hidden_states
Condition(tokens) == <<tokens, tokens * tokens, States(tokens)>>

\* sample_k_diffusion: d, and noise or x2
MethodTensors(c) == Several(IF c.method = "euler" THEN 1 ELSE 2, Latent(c.image))

\* sample: x, noised_input, out_cond and denoised; preview_tensor; and timesteps
\* and guidance for every run of the model
Sampling(c) ==
  Several(4, Latent(c.image)) \o (IF c.preview THEN <<Shown(c.image)>> ELSE <<>>)
    \o MethodTensors(c) \o Several(2 * c.runs, 1)

\* The initial latent, references, condition, noise, the sampler's, the result
Tensors(c) ==
  CASE c.op = "generate" ->
         <<Latent(c.image)>> \o Several(c.refs, Latent(c.ref))
           \o (IF c.cachedCondition THEN <<States(c.tokens)>> ELSE Condition(c.tokens))
           \o <<Latent(c.image)>> \o Sampling(c) \o <<Shown(c.image)>>
    [] c.op = "condition" -> Condition(c.tokens)
    [] c.op = "encode" -> <<Shown(c.image), Latent(c.image)>>

\* A tensor's descriptor in the context, and its data in units of 16 bytes
Descriptor == 92
Place16(size) == Descriptor + 4 * ((size + 3) \div 4)

WorkInit ==
  /\ workPc = "called" /\ call \in Calls /\ budget = 0 /\ used = 0 /\ taken = 0

OpenContext ==
  /\ workPc = "called" /\ workPc' = "working"
  /\ budget' = Budget(call) /\ UNCHANGED <<call, used, taken>>

NewTensor ==
  /\ workPc = "working" /\ taken < Len(Tensors(call))
  /\ LET need == Place16(Tensors(call)[taken + 1])
     IN  IF used + need <= budget
           THEN used' = used + need /\ taken' = taken + 1 /\ UNCHANGED workPc
           ELSE workPc' = "aborted" /\ UNCHANGED <<used, taken>>
  /\ UNCHANGED <<call, budget>>

CloseContext ==
  /\ workPc = "working" /\ taken = Len(Tensors(call))
  /\ workPc' = "returned" /\ UNCHANGED <<call, budget, used, taken>>

WorkEnded == workPc \in {"returned", "aborted"} /\ UNCHANGED workVars

WorkNext == OpenContext \/ NewTensor \/ CloseContext \/ WorkEnded

WorkSpec == WorkInit /\ [][WorkNext]_workVars

-----------------------------------------------------------------------------
\* The type of the state
WorkTypeOK ==
  /\ workPc \in {"called", "working", "returned", "aborted"}
  /\ call \in Calls /\ {budget, used} \subseteq Nat
  /\ taken \in 0 .. Len(Tensors(call)) /\ used <= budget

\* What the estimate has no term for: condition, preview, descriptors and the
\* small tensors
Unestimated(c) ==
  (IF c.cachedCondition THEN 0 ELSE c.tokens * (c.tokens + 1)) + States(c.tokens)
    + (IF c.preview THEN Shown(c.image) ELSE 0)
    + 2 * c.runs + (Descriptor + 3) * Len(Tensors(c))

\* The budget fits the call: a generation has room for every latent of every
\* method, all references and the result, and 128 MB for the rest.  It aborts
\* only if the rest is more, or the estimate more than the cap of 1 GB.  A
\* prompt of no more than max_length tokens can always be encoded, and so can a
\* reference image of any size (prepare_generation, sd_compute_condition,
\* sd_encode_ref_image).
FitsBudget ==
  workPc = "aborted" =>
    CASE call.op = "generate" ->
           Estimate(call) > 1024 * Megabyte \/ Unestimated(call) > 128 * Megabyte
      [] call.op = "condition" -> call.tokens > 512
      [] call.op = "encode" -> FALSE
=============================================================================
