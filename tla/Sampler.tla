------------------------------- MODULE Sampler -------------------------------
(***************************************************************************)
(* The sampler (denoiser.hpp, sample in condenser.cpp) and the generator   *)
(* its noise comes from (rng_philox.hpp), over several generations in one  *)
(* context.                                                                *)
(*                                                                         *)
(* The diffusion model is taken to be perfect: asked about any latent, it  *)
(* answers with the image.  What is kept of a latent is then the variance  *)
(* of the noise that is left in it, and of noise where it was drawn.  How  *)
(* much of the image is in a latent is left out: the ancestral method      *)
(* does not scale it as a flow would.                                      *)
(***************************************************************************)
EXTENDS Fractions, Sequences

CONSTANTS
  StepCounts,      \* sample_steps of a request
  Shifts,          \* e^mu, the shift of the schedule, as fractions
  CustomSchedules, \* custom_sigmas of a request, none of them negative
  Seeds,
  MaxGenerations   \* bound: generations of the context

ASSUME SamplerAssumption ==
  /\ StepCounts \subseteq Nat
  /\ \A e \in Shifts : e \in Fraction /\ e[1] > 0
  /\ \A c \in CustomSchedules :
       /\ c \in Seq(Fraction) /\ c # <<>>
       /\ \A i \in 1 .. Len(c) : c[i][1] >= 0 /\ Reduced(c[i][1], c[i][2]) = c[i]
  /\ Seeds \subseteq Nat /\ MaxGenerations \in Nat

Methods == {"euler", "euler_a", "heun"}

Zero == <<0, 1>>
One == <<1, 1>>

\* What a latent holds after a division by zero
Garbage == <<>>

VARIABLES
  samplerPc,
  plan,        \* what prepare_generation resolved the request to
  step,        \* i, the step that is next
  rng,         \* seed and offset of the generator
  x,           \* the variance of the noise in x
  x2,          \* and in x2, Heun's prediction
  drawn,       \* the noise tensors drawn, each as the generator's state
  told,        \* what the progress callback was told
  finished     \* plan and noise of the generations that succeeded

samplerVars == <<samplerPc, plan, step, rng, x, x2, drawn, told, finished>>

-----------------------------------------------------------------------------
(* Flux2FlowDenoiser::get_sigmas *)

\* flux_time_shift for t = 1 - i/n: e / (e + (1/t - 1))
TimeShift(e, n, i) == Reduced(e[1] * (n - i), e[1] * (n - i) + e[2] * i)

DefaultSchedule(e, n) ==
  IF n = 0 THEN <<Zero>> ELSE [i \in 1 .. n + 1 |-> TimeShift(e, n, i - 1)]

\* The 20 steps other models need are taken for a default, and become 4.
ResolvedSteps(n) == IF n = 20 THEN 4 ELSE n

Steps == Len(plan.sigmas) - 1
Sigma(i) == plan.sigmas[i + 1]

-----------------------------------------------------------------------------
(* PhiloxRNG *)

\* Bug the runs must notice: a new seed leaves the offset as it was.
OffsetKept(seed) == [rng EXCEPT !.seed = seed]

ManualSeed(seed) == [seed |-> seed, offset |-> 0]

\* randn: what is drawn depends on seed and offset, which moves on.
Randn == rng' = [rng EXCEPT !.offset = @ + 1] /\ drawn' = Append(drawn, rng)

-----------------------------------------------------------------------------
(* The steps of the methods, as what becomes of the variance v of x *)

\* x + (x - denoised) / sigma * dt
EulerStep(v, sigma, dt) ==
  IF v = Garbage \/ sigma = Zero THEN Garbage
  ELSE Times(v, Square(Plus(One, Over(dt, sigma))))

\* sigma_up squared.  A root of a negative number is not a number, for which
\* std::min takes its first argument.
SigmaUpSquared(s, t) ==
  IF Less(s, t) THEN Square(t)
  ELSE Over(Times(Square(t), Minus(Square(s), Square(t))), Square(s))

\* Bug the runs must notice: down to the next sigma, and noise on top of it
TooNoisy(v, s, t) ==
  IF v = Garbage \/ s = Zero THEN Garbage
  ELSE Plus(EulerStep(v, s, Minus(t, s)), SigmaUpSquared(s, t))

\* The Euler method down to sigma_down, and new noise
AncestralStep(v, s, t) ==
  IF v = Garbage \/ s = Zero THEN Garbage
  ELSE LET up == SigmaUpSquared(s, t)
           down == Minus(Square(t), up)
       IN  Plus(Times(v, Over(down, Square(s))), up)

\* x + (d + d2) / 2 * dt, where d2 is taken at x2
HeunStep(v, v2, s, t) ==
  IF Garbage \in {v, v2} THEN Garbage
  ELSE LET dt == Minus(t, s)
           predicted == Plus(One, Over(dt, s))
           slope == Over(Plus(Over(One, s), Over(predicted, t)), <<2, 1>>)
       IN  Times(v, Square(Plus(One, Times(slope, dt))))

-----------------------------------------------------------------------------
(* The denoise wrapper in sample: what it tells the progress callback *)

\* Before the model is run
Opening(k) == IF k \in {1, -1} THEN Append(told, 0) ELSE told

\* Bug the runs must notice: Heun's last step is not shown.
OnlyPositive(k) == k > 0

ShowsStep(k) == k > 0 \/ k = -Steps

\* The model is run for step k, and may fail.
Denoise(k, ok) ==
  told' = IF ok /\ ShowsStep(k) THEN Append(Opening(k), IF k < 0 THEN -k ELSE k)
          ELSE Opening(k)

-----------------------------------------------------------------------------
NoPlan == [method |-> "euler", seed |-> 0, sigmas |-> <<Zero>>, custom |-> FALSE]

SamplerInit ==
  /\ samplerPc = "idle" /\ plan = NoPlan /\ step = 0
  /\ rng = [seed |-> 0, offset |-> 0]
  /\ x = Zero /\ x2 = Zero /\ drawn = <<>> /\ told = <<>> /\ finished = <<>>

\* prepare_generation: seed, method and schedule.  SAMPLE_METHOD_COUNT stands
\* for the default.
Prepare ==
  /\ samplerPc = "idle" /\ Len(finished) < MaxGenerations
  /\ \E method \in Methods \cup {"count"}, seed \in Seeds :
       /\ \/ \E n \in StepCounts, e \in Shifts :
               plan' = [method |-> IF method = "count" THEN "euler" ELSE method,
                        seed |-> seed, custom |-> FALSE,
                        sigmas |-> DefaultSchedule(e, ResolvedSteps(n))]
          \/ \E sigmas \in CustomSchedules :
               plan' = [method |-> IF method = "count" THEN "euler" ELSE method,
                        seed |-> seed, custom |-> TRUE, sigmas |-> sigmas]
       /\ rng' = ManualSeed(seed)
  /\ step' = 0 /\ x' = Zero /\ x2' = Zero /\ drawn' = <<>> /\ told' = <<>>
  /\ samplerPc' = "prepared" /\ UNCHANGED finished

\* generate_image_internal seeds the generator again and draws the noise;
\* noise_scaling mixes it with the initial latent, which has none.
Noise ==
  /\ samplerPc = "prepared"
  /\ rng' = [ManualSeed(plan.seed) EXCEPT !.offset = @ + 1]
  /\ drawn' = <<ManualSeed(plan.seed)>>
  /\ x' = Square(Sigma(0))
  /\ samplerPc' = "sampling"
  /\ UNCHANGED <<plan, step, x2, told, finished>>

Fail == samplerPc' = "idle" /\ UNCHANGED <<plan, step, rng, x, x2, drawn, finished>>

NextStep == step' = step + 1 /\ samplerPc' = "sampling"

Euler ==
  /\ samplerPc = "sampling" /\ step < Steps /\ plan.method = "euler"
  /\ \E ok \in BOOLEAN :
       /\ Denoise(step + 1, ok)
       /\ IF ok THEN /\ x' = EulerStep(x, Sigma(step), Minus(Sigma(step + 1), Sigma(step)))
                     /\ NextStep /\ UNCHANGED <<plan, rng, x2, drawn, finished>>
          ELSE Fail

EulerAncestral ==
  /\ samplerPc = "sampling" /\ step < Steps /\ plan.method = "euler_a"
  /\ \E ok \in BOOLEAN :
       /\ Denoise(step + 1, ok)
       /\ IF ok THEN /\ x' = AncestralStep(x, Sigma(step), Sigma(step + 1))
                     /\ IF Less(Zero, Sigma(step + 1)) THEN Randn ELSE UNCHANGED <<rng, drawn>>
                     /\ NextStep /\ UNCHANGED <<plan, x2, finished>>
          ELSE Fail

\* Heun's first call.  To a sigma of zero it is an Euler step.
HeunPredict ==
  /\ samplerPc = "sampling" /\ step < Steps /\ plan.method = "heun"
  /\ \E ok \in BOOLEAN :
       /\ Denoise(-(step + 1), ok)
       /\ LET next == EulerStep(x, Sigma(step), Minus(Sigma(step + 1), Sigma(step)))
          IN  IF ~ok THEN Fail
              ELSE IF Sigma(step + 1) = Zero
                THEN x' = next /\ NextStep /\ UNCHANGED <<plan, rng, x2, drawn, finished>>
                ELSE /\ x2' = next /\ samplerPc' = "correcting"
                     /\ UNCHANGED <<plan, step, rng, x, drawn, finished>>

\* Heun's second call
HeunCorrect ==
  /\ samplerPc = "correcting"
  /\ \E ok \in BOOLEAN :
       /\ Denoise(step + 1, ok)
       /\ IF ok THEN /\ x' = HeunStep(x, x2, Sigma(step), Sigma(step + 1))
                     /\ NextStep /\ UNCHANGED <<plan, rng, x2, drawn, finished>>
          ELSE Fail

\* inverse_noise_scaling, by 1 - sigma for the last sigma
Finish ==
  /\ samplerPc = "sampling" /\ step = Steps
  /\ x' = IF x = Garbage \/ Sigma(Steps) = One THEN Garbage
          ELSE Over(x, Square(Minus(One, Sigma(Steps))))
  /\ finished' = Append(finished, [plan |-> plan, drawn |-> drawn])
  /\ samplerPc' = "idle"
  /\ UNCHANGED <<plan, step, rng, x2, drawn, told>>

SamplerIdle == samplerPc = "idle" /\ UNCHANGED samplerVars

SamplerNext ==
  \/ Prepare \/ Noise \/ Euler \/ EulerAncestral \/ HeunPredict \/ HeunCorrect
  \/ Finish \/ SamplerIdle

SamplerSpec == SamplerInit /\ [][SamplerNext]_samplerVars

-----------------------------------------------------------------------------
\* The type of the state
SamplerTypeOK ==
  /\ samplerPc \in {"idle", "prepared", "sampling", "correcting"}
  /\ plan.method \in Methods /\ plan.sigmas # <<>>
  /\ step \in Nat /\ rng \in [seed : Nat, offset : Nat]
  /\ {x, x2} \subseteq Fraction \cup {Garbage}
  /\ drawn \in Seq([seed : Nat, offset : Nat]) /\ told \in Seq(Nat)

\* Nothing is divided by this schedule's zeros: they can only end it.
Divisible(sigmas) == \A i \in 1 .. Len(sigmas) - 1 : sigmas[i] # Zero

\* The model is always asked about a latent with as much noise as the sigma it
\* is told says, by all three methods, in Heun's second call too, where the
\* latent is a prediction; and when a schedule ends in zero, no noise is left.
\* The default schedule never divides by zero; a custom one with a zero inside
\* does, and no one checks it (sample_k_diffusion).
NoiseAsTold ==
  /\ ~plan.custom => Divisible(plan.sigmas) /\ Sigma(Steps) = Zero
  /\ Divisible(plan.sigmas) =>
       /\ samplerPc = "sampling" => x = Square(Sigma(step))
       /\ samplerPc = "correcting" => x2 = Square(Sigma(step + 1))
       /\ samplerPc = "idle" /\ step = Steps /\ Sigma(Steps) = Zero => x = Zero

\* What the callback was told when so many zeros opened the progress
Counted(openings) ==
  [i \in 1 .. openings + step |-> IF i <= openings THEN 0 ELSE i - openings]

\* Progress counts every step once, in order, for the schedules that end in
\* their only zero: after one opening 0, or two with Heun, whose first step
\* calls twice, and up to the last step, which only Heun's first call shows.
ProgressCountsSteps ==
  Divisible(plan.sigmas) /\ Sigma(Steps) = Zero /\ samplerPc \in {"sampling", "correcting"} =>
    \E openings \in 0 .. (IF plan.method = "heun" THEN 2 ELSE 1) : told = Counted(openings)

\* The seed decides the image: two generations with the same seed, method and
\* schedule are given the same noise, whatever was generated before them or
\* failed, and no noise is used twice in one (PhiloxRNG::manual_seed, randn).
SeedDecidesNoise ==
  /\ \A i, j \in 1 .. Len(finished) :
       finished[i].plan = finished[j].plan => finished[i].drawn = finished[j].drawn
  /\ \A i, j \in 1 .. Len(drawn) : drawn[i] = drawn[j] => i = j
=============================================================================
