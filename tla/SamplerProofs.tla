---------------------------- MODULE SamplerProofs ----------------------------
(***************************************************************************)
(* Proofs about Sampler, for any number of generations and any schedules:  *)
(* the noise of a generation is decided by its seed, method and schedule,  *)
(* progress counts the steps, and the latent has as much noise as the      *)
(* model is told it has.                                                   *)
(***************************************************************************)
EXTENDS Sampler, Arithmetic, FiniteSetTheorems, TLAPS

-----------------------------------------------------------------------------
(* The inductive invariant *)

\* The first n noise tensors of a seed
Noises(seed, n) == [k \in 1 .. n |-> [seed |-> seed, offset |-> k - 1]]

\* Steps up to the n-th after which plan p draws new noise
Redrawn(p, n) ==
  IF p.method = "euler_a" THEN {i \in 1 .. n : Less(Zero, p.sigmas[i + 1])} ELSE {}

\* How many noise tensors have been drawn when n steps are done
Draws(p, n) == 1 + Cardinality(Redrawn(p, n))

InSteps == {"sampling", "correcting"}

SamplerInv ==
  /\ samplerPc \in {"idle", "prepared", "sampling", "correcting"}
  /\ Len(plan.sigmas) \in Nat /\ step \in Nat
  /\ samplerPc = "prepared" => step = 0
  /\ samplerPc = "correcting" => plan.method = "heun" /\ step < Steps
  /\ \E n \in Nat : drawn = Noises(plan.seed, n)
  /\ samplerPc \in InSteps =>
       /\ drawn = Noises(plan.seed, Draws(plan, step))
       /\ rng = [seed |-> plan.seed, offset |-> Draws(plan, step)]
  /\ \E S : finished \in Seq(S)
  /\ \A f \in 1 .. Len(finished) :
       finished[f].drawn =
         Noises(finished[f].plan.seed, Draws(finished[f].plan, Len(finished[f].plan.sigmas) - 1))

-----------------------------------------------------------------------------
(* How much noise is drawn *)

LEMMA RedrawnFinite ==
  ASSUME NEW p, NEW n \in Nat
  PROVE  IsFiniteSet(Redrawn(p, n)) /\ Draws(p, n) \in Nat
  <1>1. IsFiniteSet(1 .. n) BY FS_Interval
  <1>2. Redrawn(p, n) \subseteq 1 .. n BY DEF Redrawn
  <1>3. IsFiniteSet(Redrawn(p, n)) BY <1>1, <1>2, FS_Subset
  <1> QED BY <1>3, FS_CardinalityType DEF Draws

LEMMA DrawsAtFirst == ASSUME NEW p PROVE Draws(p, 0) = 1
  <1>1. Redrawn(p, 0) = {} BY DEF Redrawn
  <1> QED BY <1>1, FS_EmptySet DEF Draws

\* A step to a sigma above zero draws once more, with the ancestral method.
LEMMA DrawsAfterStep ==
  ASSUME NEW p, NEW n \in Nat
  PROVE  Draws(p, n + 1) =
           IF p.method = "euler_a" /\ Less(Zero, p.sigmas[n + 2]) THEN Draws(p, n) + 1
           ELSE Draws(p, n)
  <1>1. 1 .. n + 1 = (1 .. n) \cup {n + 1} /\ n + 1 \notin 1 .. n OBVIOUS
  <1>2. CASE p.method = "euler_a" /\ Less(Zero, p.sigmas[n + 2])
    <2>1. Redrawn(p, n + 1) = Redrawn(p, n) \cup {n + 1} /\ n + 1 \notin Redrawn(p, n)
      BY <1>1, <1>2 DEF Redrawn
    <2>2. Cardinality(Redrawn(p, n + 1)) = Cardinality(Redrawn(p, n)) + 1
      BY <2>1, RedrawnFinite, FS_AddElement
    <2>3. Cardinality(Redrawn(p, n)) \in Nat BY RedrawnFinite, FS_CardinalityType
    <2> QED BY <1>2, <2>2, <2>3 DEF Draws
  <1>3. CASE ~(p.method = "euler_a" /\ Less(Zero, p.sigmas[n + 2]))
    <2>1. Redrawn(p, n + 1) = Redrawn(p, n) BY <1>1, <1>3 DEF Redrawn
    <2> QED BY <1>3, <2>1 DEF Draws
  <1> QED BY <1>2, <1>3

LEMMA NoisesGrow ==
  ASSUME NEW seed, NEW n \in Nat
  PROVE  /\ Append(Noises(seed, n), [seed |-> seed, offset |-> n]) = Noises(seed, n + 1)
         /\ Noises(seed, 0) = <<>>
         /\ Noises(seed, 1) = <<[seed |-> seed, offset |-> 0]>>
  BY DEF Noises

\* No two of them are the same.
LEMMA NoisesApart ==
  ASSUME NEW seed, NEW n \in Nat, NEW noises, noises = Noises(seed, n)
  PROVE  \A i, j \in 1 .. Len(noises) : noises[i] = noises[j] => i = j
  <1>1. Len(noises) = n BY DEF Noises
  <1>2. \A i \in 1 .. n : noises[i].offset = i - 1 BY DEF Noises
  <1> QED BY <1>1, <1>2

-----------------------------------------------------------------------------
(* SamplerInvariance *)

LEMMA SamplerInitInv == SamplerInit => SamplerInv
  <1> SUFFICES ASSUME SamplerInit PROVE SamplerInv
    OBVIOUS
  <1>1. drawn = Noises(plan.seed, 0) BY NoisesGrow DEF SamplerInit
  <1>2. finished \in Seq({}) /\ Len(finished) = 0 BY DEF SamplerInit
  <1>3. Len(plan.sigmas) = 1 BY DEF SamplerInit, NoPlan
  <1> QED BY <1>1, <1>2, <1>3 DEF SamplerInv, SamplerInit, InSteps

\* The schedules that prepare_generation makes have a length.
LEMMA Scheduled ==
  ASSUME samplerPc = "idle", Prepare
  PROVE  Len(plan'.sigmas) \in Nat
  <1>1. PICK method \in Methods \cup {"count"}, seed \in Seeds :
          \/ \E n \in StepCounts, e \in Shifts :
               plan' = [method |-> IF method = "count" THEN "euler" ELSE method,
                        seed |-> seed, custom |-> FALSE,
                        sigmas |-> DefaultSchedule(e, ResolvedSteps(n))]
          \/ \E sigmas \in CustomSchedules :
               plan' = [method |-> IF method = "count" THEN "euler" ELSE method,
                        seed |-> seed, custom |-> TRUE, sigmas |-> sigmas]
    BY DEF Prepare
  <1>2. ASSUME NEW n \in StepCounts, NEW e \in Shifts
        PROVE  Len(DefaultSchedule(e, ResolvedSteps(n))) \in Nat
    <2>1. n \in Nat BY <1>2, SamplerAssumption
    <2>2. ResolvedSteps(n) \in Nat BY <2>1 DEF ResolvedSteps
    <2>3. ASSUME NEW k \in Nat PROVE Len(DefaultSchedule(e, k)) \in Nat
      BY <2>3 DEF DefaultSchedule
    <2> QED BY <2>2, <2>3
  <1>3. \A c \in CustomSchedules : Len(c) \in Nat BY SamplerAssumption
  <1> QED BY <1>1, <1>2, <1>3

\* A step that is done, with the noise that goes with it
LEMMA StepKeeps ==
  ASSUME SamplerInv, samplerPc \in InSteps, step < Steps, NextStep, UNCHANGED <<plan, finished>>,
         IF plan.method = "euler_a" /\ Less(Zero, Sigma(step + 1)) THEN Randn
         ELSE UNCHANGED <<rng, drawn>>
  PROVE  SamplerInv'
  <1> DEFINE n == Draws(plan, step)
  <1>1. /\ n \in Nat /\ drawn = Noises(plan.seed, n) /\ rng = [seed |-> plan.seed, offset |-> n]
        /\ step \in Nat /\ step' = step + 1 /\ samplerPc' = "sampling"
    BY RedrawnFinite DEF SamplerInv, NextStep
  <1>2. Draws(plan, step + 1) =
          IF plan.method = "euler_a" /\ Less(Zero, Sigma(step + 1)) THEN n + 1 ELSE n
    <2>1. Sigma(step + 1) = plan.sigmas[step + 2] BY <1>1 DEF Sigma
    <2> QED BY <1>1, <2>1, DrawsAfterStep
  <1> HIDE DEF n
  <1>3. /\ drawn' = Noises(plan.seed, Draws(plan, step + 1))
        /\ rng' = [seed |-> plan.seed, offset |-> Draws(plan, step + 1)]
    <2>1. CASE plan.method = "euler_a" /\ Less(Zero, Sigma(step + 1))
      <3>1. rng' = [seed |-> plan.seed, offset |-> n + 1] /\ drawn' = Append(drawn, rng)
        BY <1>1, <2>1 DEF Randn
      <3> QED BY <1>1, <1>2, <2>1, <3>1, NoisesGrow
    <2>2. CASE ~(plan.method = "euler_a" /\ Less(Zero, Sigma(step + 1)))
      BY <1>1, <1>2, <2>2
    <2> QED BY <2>1, <2>2
  <1>4. Draws(plan, step + 1) \in Nat BY <1>1, <1>2
  <1>5. \E k \in Nat : drawn' = Noises(plan'.seed, k) BY <1>3, <1>4
  <1> QED BY <1>1, <1>3, <1>5 DEF SamplerInv, InSteps, NextStep

\* A generation that fails leaves all the rest as it was.
LEMMA FailKeeps == ASSUME SamplerInv, Fail PROVE SamplerInv'
  BY DEF SamplerInv, Fail, InSteps

LEMMA SamplerStepInv == SamplerInv /\ [SamplerNext]_samplerVars => SamplerInv'
  <1> SUFFICES ASSUME SamplerInv, [SamplerNext]_samplerVars PROVE SamplerInv'
    OBVIOUS
  <1>1. CASE Prepare
    <2>1. /\ samplerPc = "idle" /\ samplerPc' = "prepared" /\ step' = 0 /\ drawn' = <<>>
          /\ finished' = finished
      BY <1>1 DEF Prepare
    <2>2. Len(plan'.sigmas) \in Nat BY <1>1, <2>1, Scheduled
    <2>3. drawn' = Noises(plan'.seed, 0) BY <2>1, NoisesGrow
    <2> QED BY <2>1, <2>2, <2>3 DEF SamplerInv, InSteps
  <1>2. CASE Noise
    <2>1. /\ samplerPc = "prepared" /\ step = 0 /\ samplerPc' = "sampling"
          /\ rng' = [seed |-> plan.seed, offset |-> 1]
          /\ drawn' = <<[seed |-> plan.seed, offset |-> 0]>>
          /\ UNCHANGED <<plan, step, finished>>
      BY <1>2 DEF Noise, SamplerInv, ManualSeed
    <2>2. drawn' = Noises(plan.seed, 1) /\ Draws(plan, 0) = 1 BY <2>1, NoisesGrow, DrawsAtFirst
    <2> QED BY <2>1, <2>2 DEF SamplerInv, InSteps
  <1>3. CASE Euler
    <2>1. CASE Fail BY <2>1, FailKeeps
    <2>2. CASE NextStep /\ UNCHANGED <<plan, rng, x2, drawn, finished>>
      BY <1>3, <2>2, StepKeeps DEF Euler, InSteps
    <2> QED BY <1>3, <2>1, <2>2 DEF Euler
  <1>4. CASE EulerAncestral
    <2>1. CASE Fail BY <2>1, FailKeeps
    <2>2. CASE /\ IF Less(Zero, Sigma(step + 1)) THEN Randn ELSE UNCHANGED <<rng, drawn>>
               /\ NextStep /\ UNCHANGED <<plan, x2, finished>>
      BY <1>4, <2>2, StepKeeps DEF EulerAncestral, InSteps
    <2> QED BY <1>4, <2>1, <2>2 DEF EulerAncestral
  <1>5. CASE HeunPredict
    <2>1. CASE Fail BY <2>1, FailKeeps
    <2>2. CASE NextStep /\ UNCHANGED <<plan, rng, x2, drawn, finished>>
      BY <1>5, <2>2, StepKeeps DEF HeunPredict, InSteps
    <2>3. CASE samplerPc' = "correcting" /\ UNCHANGED <<plan, step, rng, x, drawn, finished>>
      BY <1>5, <2>3 DEF HeunPredict, SamplerInv, InSteps, Steps
    <2> QED BY <1>5, <2>1, <2>2, <2>3 DEF HeunPredict
  <1>6. CASE HeunCorrect
    <2>1. CASE Fail BY <2>1, FailKeeps
    <2>2. CASE NextStep /\ UNCHANGED <<plan, rng, x2, drawn, finished>>
      <3>1. samplerPc = "correcting" /\ plan.method = "heun" /\ step < Steps
        BY <1>6 DEF HeunCorrect, SamplerInv
      <3> QED BY <2>2, <3>1, StepKeeps DEF InSteps
    <2> QED BY <1>6, <2>1, <2>2 DEF HeunCorrect
  <1>7. CASE Finish
    <2> DEFINE entry == [plan |-> plan, drawn |-> drawn]
    <2>1. /\ samplerPc = "sampling" /\ step = Len(plan.sigmas) - 1 /\ samplerPc' = "idle"
          /\ finished' = Append(finished, entry) /\ UNCHANGED <<plan, step, rng, drawn>>
      BY <1>7 DEF Finish, Steps
    <2>2. entry.drawn = Noises(entry.plan.seed, Draws(entry.plan, Len(entry.plan.sigmas) - 1))
      BY <2>1 DEF SamplerInv, InSteps
    <2>3. PICK S : finished \in Seq(S) BY DEF SamplerInv
    <2> HIDE DEF entry
    <2>4. /\ finished' \in Seq(S \cup {entry}) /\ Len(finished') = Len(finished) + 1
          /\ Len(finished) \in Nat
          /\ finished'[Len(finished) + 1] = entry
          /\ \A f \in 1 .. Len(finished) : finished'[f] = finished[f]
      <3>1. finished \in Seq(S \cup {entry}) BY <2>3
      <3> QED BY <2>1, <3>1
    <2>5. \A f \in 1 .. Len(finished') :
            finished'[f].drawn = Noises(finished'[f].plan.seed,
              Draws(finished'[f].plan, Len(finished'[f].plan.sigmas) - 1))
      <3>1. TAKE f \in 1 .. Len(finished')
      <3>2. f \in 1 .. Len(finished) \/ f = Len(finished) + 1 BY <2>4
      <3> QED BY <3>2, <2>2, <2>4 DEF SamplerInv
    <2> QED BY <2>1, <2>4, <2>5 DEF SamplerInv, InSteps
  <1>8. CASE UNCHANGED samplerVars
    <2>1. UNCHANGED <<samplerPc, plan, step, rng, drawn, finished>> BY <1>8 DEF samplerVars
    <2> QED BY <2>1 DEF SamplerInv, Steps, InSteps
  <1>9. CASE SamplerIdle BY <1>8, <1>9 DEF SamplerIdle
  <1> QED BY <1>1, <1>2, <1>3, <1>4, <1>5, <1>6, <1>7, <1>8, <1>9 DEF SamplerNext

\* The noise of a generation is always the first so many tensors of its seed.
THEOREM SamplerInvariance == SamplerSpec => []SamplerInv
  <1> QED BY SamplerInitInv, SamplerStepInv, PTL DEF SamplerSpec

\* For any seeds, schedules and number of generations, the same seed, method
\* and schedule get the same noise, and no noise is used twice (PhiloxRNG).
THEOREM SeedDecides == SamplerSpec => []SeedDecidesNoise
  <1>1. SamplerInv => SeedDecidesNoise
    <2> SUFFICES ASSUME SamplerInv PROVE SeedDecidesNoise
      OBVIOUS
    <2>1. PICK n \in Nat : drawn = Noises(plan.seed, n) BY DEF SamplerInv
    <2>2. \A i, j \in 1 .. Len(drawn) : drawn[i] = drawn[j] => i = j BY <2>1, NoisesApart
    <2>3. ASSUME NEW i \in 1 .. Len(finished), NEW j \in 1 .. Len(finished),
                 finished[i].plan = finished[j].plan
          PROVE  finished[i].drawn = finished[j].drawn
      BY <2>3 DEF SamplerInv
    <2> QED BY <2>2, <2>3 DEF SeedDecidesNoise
  <1> QED BY <1>1, SamplerInvariance, PTL

-----------------------------------------------------------------------------
(* What the progress callback is told *)

\* The schedule ends in its only zero.
EndsInZero == Divisible(plan.sigmas) /\ Sigma(Steps) = Zero

\* How many zeros opened the progress: none before the first step, and two only
\* if the first step was corrected.
Openings(z) ==
  /\ z \in {0, 1, 2}
  /\ z = 2 => plan.method = "heun"
  /\ samplerPc = "sampling" /\ step = 0 => z = 0
  /\ samplerPc = "correcting" /\ step = 0 => z = 1

\* The inductive invariant: it also says that Heun's correction is never that of
\* the last step, whose prediction is shown instead.
ToldInv ==
  /\ samplerPc = "prepared" => told = <<>>
  /\ EndsInZero /\ samplerPc \in InSteps =>
       /\ samplerPc = "correcting" => step + 1 < Steps
       /\ \E z : Openings(z) /\ told = Counted(z)

\* One more zero, or one more step
LEMMA CountedGrows ==
  ASSUME NEW z \in Nat, step \in Nat
  PROVE  /\ step = 0 => Append(Counted(z), 0) = Counted(z + 1)
         /\ Append(Counted(z), step + 1) =
              [i \in 1 .. z + (step + 1) |-> IF i <= z THEN 0 ELSE i - z]
  BY DEF Counted

\* A schedule that ends in its only zero has it after the last step.
LEMMA ZeroIsLast ==
  ASSUME EndsInZero, step \in Nat, Len(plan.sigmas) \in Nat, step < Steps
  PROVE  (Sigma(step + 1) = Zero) <=> (step + 1 = Steps)
  <1>1. Steps = Len(plan.sigmas) - 1 /\ Steps \in Int BY DEF Steps
  <1>2. ASSUME step + 1 # Steps PROVE Sigma(step + 1) # Zero
    <2>1. (step + 1) + 1 \in 1 .. Len(plan.sigmas) - 1 BY <1>1, <1>2
    <2> QED BY <2>1 DEF EndsInZero, Divisible, Sigma
  <1> QED BY <1>2 DEF EndsInZero

\* A step that is shown when it is done
LEMMA ShownStep ==
  ASSUME SamplerInv, ToldInv, samplerPc \in InSteps, step < Steps, NextStep, UNCHANGED plan,
         NEW k, k \in {step + 1, -(step + 1)}, ShowsStep(k), Denoise(k, TRUE)
  PROVE  ToldInv'
  <1> SUFFICES ASSUME EndsInZero' PROVE \E z : Openings(z)' /\ told' = Counted(z)'
    BY DEF ToldInv, NextStep
  <1>1. step \in Nat /\ step' = step + 1 /\ samplerPc' = "sampling" /\ EndsInZero
    BY DEF SamplerInv, NextStep, EndsInZero, Sigma, Steps
  <1>2. PICK z : Openings(z) /\ told = Counted(z) BY <1>1 DEF ToldInv
  <1>3. samplerPc = "correcting" => plan.method = "heun" BY DEF SamplerInv
  <1> PICK z1 : z1 = IF step = 0 THEN z + 1 ELSE z OBVIOUS
  <1>4. k \in {1, -1} <=> step = 0 BY <1>1
  <1>5. (IF k < 0 THEN -k ELSE k) = step + 1 BY <1>1
  <1>6. z \in Nat /\ z1 \in Nat BY <1>2 DEF Openings
  <1>7. Opening(k) = Counted(z1)
    BY <1>1, <1>2, <1>4, <1>6, CountedGrows DEF Opening
  <1>8. told' = Append(Counted(z1), step + 1) BY <1>5, <1>7 DEF Denoise
  <1>9. told' = Counted(z1)' BY <1>1, <1>6, <1>8, CountedGrows DEF Counted
  <1>10. Openings(z1)' BY <1>1, <1>2, <1>3 DEF Openings, InSteps
  <1> QED BY <1>9, <1>10

LEMMA ToldInitially == SamplerInit => ToldInv
  BY DEF SamplerInit, ToldInv, InSteps

LEMMA ToldStep == SamplerInv /\ ToldInv /\ [SamplerNext]_samplerVars => ToldInv'
  <1> SUFFICES ASSUME SamplerInv, ToldInv, [SamplerNext]_samplerVars PROVE ToldInv'
    OBVIOUS
  <1>0. step \in Nat /\ Len(plan.sigmas) \in Nat /\ Steps \in Int BY DEF SamplerInv, Steps
  <1>1. CASE Prepare BY <1>1 DEF Prepare, ToldInv, InSteps
  <1>2. CASE Noise
    <2>1. step' = 0 /\ told' = <<>> /\ samplerPc' = "sampling"
      BY <1>2 DEF Noise, SamplerInv, ToldInv
    <2>2. Openings(0)' /\ told' = Counted(0)' BY <2>1 DEF Openings, Counted
    <2> QED BY <2>1, <2>2 DEF ToldInv
  <1>3. CASE Fail BY <1>3 DEF Fail, ToldInv, InSteps
  <1>4. CASE Euler /\ ~Fail
    <2>1. step < Steps /\ samplerPc \in InSteps BY <1>4 DEF Euler, InSteps
    <2>2. Denoise(step + 1, TRUE) /\ NextStep /\ UNCHANGED plan BY <1>4 DEF Euler
    <2>3. ShowsStep(step + 1) BY <1>0 DEF ShowsStep
    <2> QED BY <1>0, <2>1, <2>2, <2>3, ShownStep
  <1>5. CASE EulerAncestral /\ ~Fail
    <2>1. step < Steps /\ samplerPc \in InSteps BY <1>5 DEF EulerAncestral, InSteps
    <2>2. Denoise(step + 1, TRUE) /\ NextStep /\ UNCHANGED plan BY <1>5 DEF EulerAncestral
    <2>3. ShowsStep(step + 1) BY <1>0 DEF ShowsStep
    <2> QED BY <1>0, <2>1, <2>2, <2>3, ShownStep
  <1>6. CASE HeunCorrect /\ ~Fail
    <2>1. step < Steps /\ samplerPc \in InSteps BY <1>6 DEF HeunCorrect, InSteps, SamplerInv
    <2>2. Denoise(step + 1, TRUE) /\ NextStep /\ UNCHANGED plan BY <1>6 DEF HeunCorrect
    <2>3. ShowsStep(step + 1) BY <1>0 DEF ShowsStep
    <2> QED BY <1>0, <2>1, <2>2, <2>3, ShownStep
  <1>7. CASE HeunPredict /\ ~Fail
    <2>0. samplerPc' \in InSteps BY <1>7 DEF HeunPredict, NextStep, InSteps
    <2> SUFFICES ASSUME EndsInZero' PROVE ToldInv'
      BY <2>0 DEF ToldInv, InSteps
    <2>1. /\ samplerPc = "sampling" /\ step < Steps /\ plan.method = "heun" /\ UNCHANGED plan
          /\ Denoise(-(step + 1), TRUE)
          /\ IF Sigma(step + 1) = Zero THEN NextStep
             ELSE samplerPc' = "correcting" /\ step' = step
      BY <1>7 DEF HeunPredict
    <2>2. EndsInZero BY <2>1 DEF EndsInZero, Sigma, Steps
    <2>3. (Sigma(step + 1) = Zero) <=> (step + 1 = Steps) BY <1>0, <2>1, <2>2, ZeroIsLast
    <2>4. CASE step + 1 = Steps
      <3>1. ShowsStep(-(step + 1)) BY <2>4 DEF ShowsStep
      <3> QED BY <1>0, <2>1, <2>3, <2>4, <3>1, ShownStep DEF InSteps
    <2>5. CASE step + 1 # Steps
      <3>1. ~ShowsStep(-(step + 1)) BY <1>0, <2>5 DEF ShowsStep
      <3>2. samplerPc' = "correcting" /\ step' = step /\ step + 1 < Steps /\ Steps' = Steps
        BY <1>0, <2>1, <2>3, <2>5 DEF Steps
      <3>3. PICK z : Openings(z) /\ told = Counted(z) BY <2>1, <2>2 DEF ToldInv, InSteps
      <3>4. told' = Opening(-(step + 1)) BY <2>1, <3>1 DEF Denoise
      <3>5. CASE step = 0
        <4>1. z = 0 BY <2>1, <3>3, <3>5 DEF Openings
        <4>2. told' = Append(Counted(0), 0) BY <3>3, <3>4, <3>5, <4>1 DEF Opening
        <4>3. told' = Counted(1)' BY <1>0, <3>2, <3>5, <4>2, CountedGrows DEF Counted
        <4>4. Openings(1)' BY <2>1, <3>2 DEF Openings
        <4> QED BY <3>2, <4>3, <4>4 DEF ToldInv
      <3>6. CASE step # 0
        <4>1. told' = Counted(z)' BY <1>0, <3>2, <3>3, <3>4, <3>6 DEF Opening, Counted
        <4>2. Openings(z)' BY <2>1, <3>2, <3>3, <3>6 DEF Openings
        <4> QED BY <3>2, <4>1, <4>2 DEF ToldInv
      <3> QED BY <3>5, <3>6
    <2> QED BY <2>4, <2>5
  <1>8. CASE Finish BY <1>8 DEF Finish, ToldInv, InSteps
  <1>9. CASE UNCHANGED samplerVars
    BY <1>9 DEF samplerVars, ToldInv, EndsInZero, Sigma, Steps, InSteps, Openings, Counted
  <1>10. CASE SamplerIdle BY <1>9, <1>10 DEF SamplerIdle
  <1> QED BY <1>1, <1>2, <1>3, <1>4, <1>5, <1>6, <1>7, <1>8, <1>9, <1>10 DEF SamplerNext

\* For every schedule that ends in its only zero and every method, progress
\* counts each step once and in order (the denoise wrapper in sample).
THEOREM ProgressCounts == SamplerSpec => []ProgressCountsSteps
  <1>1. SamplerInv /\ ToldInv => ProgressCountsSteps
    <2> SUFFICES ASSUME SamplerInv, ToldInv, EndsInZero, samplerPc \in InSteps
                 PROVE  \E z \in 0 .. (IF plan.method = "heun" THEN 2 ELSE 1) : told = Counted(z)
      BY DEF ProgressCountsSteps, EndsInZero, InSteps
    <2>1. PICK z : Openings(z) /\ told = Counted(z) BY DEF ToldInv
    <2>2. z \in 0 .. (IF plan.method = "heun" THEN 2 ELSE 1) BY <2>1 DEF Openings
    <2> QED BY <2>1, <2>2
  <1>2. SamplerInv /\ ToldInv /\ [SamplerNext]_samplerVars => (SamplerInv /\ ToldInv)'
    BY SamplerStepInv, ToldStep
  <1> QED BY SamplerInitInv, ToldInitially, <1>1, <1>2, PTL DEF SamplerSpec

-----------------------------------------------------------------------------
(* What the steps leave of the noise                                       *)

\* The only form of zero
LEMMA ZeroForm == ASSUME NEW f, Lowest(f), f[1] = 0 PROVE f = Zero
PROOF
<1>1. f = <<f[1], f[2]>> /\ f[2] \in Nat \ {0}
  BY DEF Lowest
<1>2. PICK u, v \in Int : u * f[1] + v * f[2] = 1
  BY DEF Lowest, Coprime
<1>3. v * f[2] = 1
  BY <1>1, <1>2
<1>4. v >= 1
  BY <1>1, <1>2, <1>3
<1>5. f[2] = 1
  BY <1>1, <1>2, <1>3, <1>4
<1> QED
  BY <1>1, <1>5 DEF Zero

LEMMA Units == Is(Zero, 0, 1) /\ Is(One, 1, 1) /\ Is(<<2, 1>>, 2, 1)
PROOF
<1>1. 0 * 0 + 1 * 1 = 1 /\ 0 * 1 + 1 * 1 = 1 /\ 0 * 2 + 1 * 1 = 1
  OBVIOUS
<1> QED
  BY <1>1 DEF Is, Lowest, Coprime, Zero, One

LEMMA NotGarbage == ASSUME NEW f, Lowest(f) PROVE f # Garbage
PROOF
<1>1. f = <<f[1], f[2]>>
  BY DEF Lowest
<1> QED
  BY <1>1 DEF Garbage

\* The factor of an Euler step from sigma s to sigma t is t / s.
LEMMA FactorIs ==
  ASSUME NEW s, NEW t, NEW a \in Nat \ {0}, NEW b \in Nat \ {0}, NEW c \in Int, NEW d \in Nat \ {0},
         Is(s, a, b), Is(t, c, d)
  PROVE  Is(Plus(One, Over(Minus(t, s), s)), c * b, d * a)
PROOF
<1>1. Is(Minus(t, s), c * b - a * d, d * b)
  BY MinusIs
<1> DEFINE k == c * b - a * d
           l == d * b
<1>2. k \in Int /\ l \in Nat \ {0}
  OBVIOUS
<1>3. k * a = (c * b) * a - a * (d * a)
  OBVIOUS
<1> DEFINE dt == Minus(t, s)
<1>4. Is(dt, k, l)
  BY <1>1
<1>5. k * (d * a) = (c * b - d * a) * l * 0 + k * (d * a)
  OBVIOUS
<1>6. (k * b) * (d * a) = k * (l * a)
  OBVIOUS
<1>7. k * b \in Int /\ l * a \in Nat \ {0} /\ d * a \in Nat \ {0}
  OBVIOUS
<1> HIDE DEF dt, k, l
<1>8. Is(Over(dt, s), k * b, l * a)
  BY <1>2, <1>4, OverIs
<1>9. Is(Over(dt, s), k, d * a)
  BY <1>2, <1>6, <1>7, <1>8, SameForm
<1> DEFINE o == Over(dt, s)
<1>10. o \in Int \X (Nat \ {0}) /\ o[1] * (d * a) = k * o[2]
  BY <1>9 DEF Is, Lowest
<1> HIDE DEF o
<1>11. Is(Plus(One, o), 1 * (d * a) + k * 1, 1 * (d * a))
  BY <1>2, <1>7, <1>10, Units, PlusIs
<1>12. 1 * (d * a) + k * 1 = c * b /\ 1 * (d * a) = d * a
  BY DEF k
<1> QED
  BY <1>11, <1>12 DEF o, dt

\* A latent with the noise of sigma s, times t / s
LEMMA ScaledIs ==
  ASSUME NEW s, NEW t, NEW f, NEW a \in Nat \ {0}, NEW b \in Nat \ {0}, NEW c \in Int, NEW d \in Nat \ {0},
         Is(s, a, b), Is(t, c, d), Is(f, c * b, d * a)
  PROVE  Times(Square(s), Square(f)) = Square(t)
PROOF
<1>1. Is(Square(s), a * a, b * b) /\ Is(Square(t), c * c, d * d)
  BY SquareIs
<1> DEFINE n == c * b
           e == d * a
<1>2. n \in Int /\ e \in Nat \ {0} /\ Is(f, n, e)
  OBVIOUS
<1>3. ((a * a) * (n * n)) * (d * d) = (c * c) * ((b * b) * (e * e))
  OBVIOUS
<1> HIDE DEF n, e
<1>4. Is(Square(f), n * n, e * e)
  BY <1>2, SquareIs
<1>5. /\ a * a \in Int /\ b * b \in Nat \ {0} /\ c * c \in Int /\ d * d \in Nat \ {0}
      /\ n * n \in Int /\ e * e \in Nat \ {0}
  BY <1>2
<1>6. Is(Times(Square(s), Square(f)), (a * a) * (n * n), (b * b) * (e * e))
  BY <1>1, <1>4, <1>5, TimesIs
<1>7. (a * a) * (n * n) \in Int /\ (b * b) * (e * e) \in Nat \ {0}
  BY <1>5
<1>8. Is(Times(Square(s), Square(f)), c * c, d * d)
  BY <1>3, <1>5, <1>6, <1>7, SameForm
<1> QED
  BY <1>1, <1>5, <1>8, OneForm

\* An Euler step leaves the noise of the sigma it goes to.
LEMMA EulerStepIs ==
  ASSUME NEW s, NEW t, Lowest(s), s[1] > 0, Lowest(t)
  PROVE  EulerStep(Square(s), s, Minus(t, s)) = Square(t)
PROOF
<1> DEFINE a == s[1]
           b == s[2]
           c == t[1]
           d == t[2]
<1>1. a \in Nat \ {0} /\ b \in Nat \ {0} /\ c \in Int /\ d \in Nat \ {0} /\ s # Zero
  BY DEF Lowest, Zero
<1>2. Is(s, a, b) /\ Is(t, c, d)
  BY ItIs
<1> HIDE DEF a, b, c, d
<1>3. Is(Plus(One, Over(Minus(t, s), s)), c * b, d * a)
  BY <1>1, <1>2, FactorIs
<1>4. Times(Square(s), Square(Plus(One, Over(Minus(t, s), s)))) = Square(t)
  BY <1>1, <1>2, <1>3, ScaledIs
<1>5. Square(s) # Garbage
  BY <1>1, <1>2, SquareIs, NotGarbage DEF Is
<1> QED
  BY <1>1, <1>4, <1>5 DEF EulerStep

\* Down to t^4 / s^2, and up again by what is missing to t^2: in the end the
\* ancestral method leaves the noise of the sigma it goes to, too.
LEMMA AncestralStepIs ==
  ASSUME NEW s, NEW t, Lowest(s), s[1] > 0, Lowest(t)
  PROVE  AncestralStep(Square(s), s, t) = Square(t)
PROOF
<1> DEFINE S == s[1] * s[1]
           B == s[2] * s[2]
           C == t[1] * t[1]
           D == t[2] * t[2]
           v == Square(s)
           w == Square(t)
           up == SigmaUpSquared(s, t)
           down == Minus(w, up)
<1>1. S \in Nat \ {0} /\ B \in Nat \ {0} /\ C \in Int /\ D \in Nat \ {0} /\ s # Zero
  <2>1. s[1] \in Nat \ {0} /\ s[2] \in Nat \ {0} /\ t[1] \in Int /\ t[2] \in Nat \ {0}
    BY DEF Lowest
  <2>2. s # Zero
    BY <2>1 DEF Zero
  <2> QED
    BY <2>1, <2>2
<1>2. Is(v, S, B) /\ Is(w, C, D)
  BY ItIs, SquareIs DEF Lowest
<1>3. v # Garbage
  BY <1>2, NotGarbage DEF Is
<1>4. AncestralStep(v, s, t) = Plus(Times(v, Over(down, v)), up)
  BY <1>1, <1>3 DEF AncestralStep
<1>5. up = w \/ up = Over(Times(w, Minus(v, w)), v)
  BY DEF SigmaUpSquared
<1> HIDE DEF S, B, C, D, v, w, up, down
<1>. B \in Int /\ D \in Int /\ S \in Int
  BY <1>1
<1>6. CASE up = w
  <2>1. Is(down, C * D - C * D, D * D)
    BY <1>1, <1>2, <1>6, MinusIs DEF down
  <2>2. D * D \in Nat \ {0} /\ (C * D - C * D) * 1 = 0 * (D * D)
    BY <1>1
  <2>3. Is(down, 0, 1)
    BY <1>1, <2>1, <2>2, SameForm
  <2>4. Is(Over(down, v), 0 * B, 1 * S)
    BY <1>1, <1>2, <2>3, OverIs
  <2>5. Is(Over(down, v), 0, S)
    BY <1>1, <2>4
  <2>6. Is(Times(v, Over(down, v)), S * 0, B * S)
    BY <1>1, <1>2, <2>5, TimesIs
  <2>7. B * S \in Nat \ {0} /\ (S * 0) * 1 = 0 * (B * S)
    BY <1>1
  <2>8. Is(Times(v, Over(down, v)), 0, 1)
    BY <1>1, <2>6, <2>7, SameForm
  <2>9. w \in Int \X (Nat \ {0}) /\ w[1] * D = C * w[2]
    BY <1>2 DEF Is, Lowest
  <2>10. Is(Plus(Times(v, Over(down, v)), w), 0 * D + C * 1, 1 * D)
    BY <1>1, <2>8, <2>9, PlusIs
  <2>11. Is(Plus(Times(v, Over(down, v)), w), C, D)
    BY <1>1, <2>10
  <2> QED
    BY <1>1, <1>2, <1>4, <1>6, <2>11, OneForm DEF v, w
<1>7. CASE up = Over(Times(w, Minus(v, w)), v)
  <2> DEFINE n == S * D - C * B
             e == (D * D) * S
             m == (C * C) * B
  <2>1. n \in Int /\ e \in Nat \ {0} /\ B * D \in Nat \ {0} /\ m \in Int /\ C * n \in Int
        /\ D * (B * D) \in Nat \ {0} /\ C * e - C * n * D \in Int
    BY <1>1
  <2>2. Is(Minus(v, w), n, B * D)
    BY <1>1, <1>2, MinusIs
  <2>3. Is(Times(w, Minus(v, w)), C * n, D * (B * D))
    BY <1>1, <1>2, <2>1, <2>2, TimesIs
  <2>4. Is(up, (C * n) * B, (D * (B * D)) * S)
    BY <1>1, <1>2, <1>7, <2>1, <2>3, OverIs
  <2>5. Is(up, C * n, e)
    <3>1. (C * n) * B \in Int /\ (D * (B * D)) * S \in Nat \ {0}
      BY <1>1, <2>1
    <3>2. ((C * n) * B) * e = (C * n) * ((D * (B * D)) * S)
      <4> HIDE DEF n
      <4> QED
        BY <1>1, <2>1
    <3> QED
      BY <2>1, <2>4, <3>1, <3>2, SameForm
  <2>6. Is(down, C * e - (C * n) * D, D * e)
    BY <1>1, <1>2, <2>1, <2>5, MinusIs DEF down
  <2>7. C * e - (C * n) * D = D * m
    BY <1>1
  <2>8. Is(down, m, e)
    <3>1. (D * m) * e = m * (D * e) /\ D * m \in Int /\ D * e \in Nat \ {0}
      <4> HIDE DEF m, e
      <4> QED
        BY <1>1, <2>1
    <3> QED
      BY <2>1, <2>6, <2>7, <3>1, SameForm
  <2>9. Is(Over(down, v), m * B, e * S)
    BY <1>1, <1>2, <2>1, <2>8, OverIs
  <2>10. Is(Times(v, Over(down, v)), S * (m * B), B * (e * S))
    <3>1. m * B \in Int /\ e * S \in Nat \ {0}
      BY <1>1, <2>1
    <3> HIDE DEF m, e
    <3> QED
      BY <1>1, <1>2, <2>9, <3>1, TimesIs
  <2>11. Is(Times(v, Over(down, v)), m, e)
    <3> HIDE DEF m, e
    <3>1. S * (m * B) \in Int /\ B * (e * S) \in Nat \ {0}
      BY <1>1, <2>1
    <3>2. (S * (m * B)) * e = m * (B * (e * S))
      BY <1>1, <2>1
    <3> QED
      BY <2>1, <2>10, <3>1, <3>2, SameForm
  <2> DEFINE k == C * n
  <2>12. k \in Int /\ up \in Int \X (Nat \ {0}) /\ up[1] * e = k * up[2]
    BY <2>1, <2>5 DEF Is, Lowest
  <2>13. Is(Plus(Times(v, Over(down, v)), up), m * e + k * e, e * e)
    <3> HIDE DEF m, e, k
    <3> QED
      BY <2>1, <2>11, <2>12, PlusIs
  <2>14. m + k = (C * D) * S
    BY <1>1
  <2>15. (m + k) * D = C * e
    BY <1>1, <2>14
  <2>16. (m * e + k * e) * D = C * (e * e) /\ m * e + k * e \in Int /\ e * e \in Nat \ {0}
    <3> HIDE DEF m, e, k
    <3>1. (m * e + k * e) * D = ((m + k) * D) * e /\ C * (e * e) = (C * e) * e
      BY <1>1, <2>1, <2>12
    <3> QED
      BY <2>1, <2>12, <2>15, <3>1
  <2> HIDE DEF m, e, k, n
  <2>17. Is(Plus(Times(v, Over(down, v)), up), C, D)
    BY <1>1, <2>13, <2>16, SameForm
  <2> QED
    BY <1>1, <1>2, <1>4, <2>17, OneForm DEF v, w
<1> QED
  BY <1>5, <1>6, <1>7

\* Heun's two slopes are the same, and the corrected step leaves what the
\* predicted one did.
LEMMA HeunStepIs ==
  ASSUME NEW s, NEW t, Lowest(s), s[1] > 0, Lowest(t), t[1] > 0
  PROVE  HeunStep(Square(s), Square(t), s, t) = Square(t)
PROOF
<1> DEFINE a == s[1]
           b == s[2]
           c == t[1]
           d == t[2]
           dt == Minus(t, s)
           predicted == Plus(One, Over(dt, s))
           second == Over(predicted, t)
           first == Over(One, s)
           slope == Over(Plus(first, second), <<2, 1>>)
<1>1. a \in Nat \ {0} /\ b \in Nat \ {0} /\ c \in Nat \ {0} /\ d \in Nat \ {0}
  BY DEF Lowest
<1>2. Is(s, a, b) /\ Is(t, c, d)
  BY ItIs
<1>3. Square(s) # Garbage /\ Square(t) # Garbage
  <2> HIDE DEF a, b, c, d
  <2> QED
    BY <1>1, <1>2, SquareIs, NotGarbage DEF Is
<1>4. HeunStep(Square(s), Square(t), s, t) = Times(Square(s), Square(Plus(One, Times(slope, dt))))
  BY <1>3 DEF HeunStep
<1> HIDE DEF a, b, c, d, predicted, second, first, slope
<1>. a \in Int /\ b \in Int /\ c \in Int /\ d \in Int /\ 1 \in Int /\ 1 \in Nat \ {0}
  BY <1>1
<1>5. Is(predicted, c * b, d * a)
  BY <1>1, <1>2, FactorIs DEF predicted
<1> HIDE DEF dt
<1>6. Is(second, b, a)
  <2>1. c * b \in Int /\ d * a \in Nat \ {0}
    BY <1>1
  <2>2. Is(second, (c * b) * d, (d * a) * c)
    BY <1>1, <1>2, <1>5, <2>1, OverIs DEF second
  <2>3. (c * b) * d \in Int /\ (d * a) * c \in Nat \ {0} /\ ((c * b) * d) * a = b * ((d * a) * c)
    BY <1>1
  <2> QED
    BY <1>1, <2>2, <2>3, SameForm
<1>7. Is(first, b, a)
  <2>1. Is(first, 1 * b, 1 * a)
    BY <1>1, <1>2, Units, OverIs DEF first
  <2> QED
    BY <1>1, <2>1
<1>8. Is(slope, b, a)
  <2>1. second \in Int \X (Nat \ {0}) /\ second[1] * a = b * second[2]
    BY <1>6 DEF Is, Lowest
  <2>2. Is(Plus(first, second), b * a + b * a, a * a)
    BY <1>1, <1>7, <2>1, PlusIs
  <2>3. b * a + b * a \in Int /\ a * a \in Nat \ {0} /\ 2 \in Nat \ {0}
    BY <1>1
  <2>4. Is(slope, (b * a + b * a) * 1, (a * a) * 2)
    BY <2>2, <2>3, Units, OverIs DEF slope
  <2>5. /\ (b * a + b * a) * 1 \in Int /\ (a * a) * 2 \in Nat \ {0}
        /\ ((b * a + b * a) * 1) * a = b * ((a * a) * 2)
    BY <1>1
  <2> QED
    BY <1>1, <2>4, <2>5, SameForm
<1>9. Is(dt, c * b - a * d, d * b)
  BY <1>1, <1>2, MinusIs DEF dt
<1> DEFINE k == c * b - a * d
<1>10. Is(Times(slope, dt), k, a * d)
  <2>1. k \in Int /\ d * b \in Nat \ {0} /\ a * d \in Nat \ {0}
    BY <1>1
  <2>2. Is(Times(slope, dt), b * k, a * (d * b))
    BY <1>1, <1>8, <1>9, <2>1, TimesIs
  <2> HIDE DEF k
  <2>3. b * k \in Int /\ a * (d * b) \in Nat \ {0} /\ (b * k) * (a * d) = k * (a * (d * b))
    BY <1>1, <2>1
  <2> QED
    BY <2>1, <2>2, <2>3, SameForm
<1>11. Is(Plus(One, Times(slope, dt)), c * b, d * a)
  <2> DEFINE o == Times(slope, dt)
  <2>1. k \in Int /\ a * d \in Nat \ {0} /\ o \in Int \X (Nat \ {0}) /\ o[1] * (a * d) = k * o[2]
    BY <1>1, <1>10 DEF Is, Lowest
  <2> HIDE DEF o
  <2>2. Is(Plus(One, o), 1 * (a * d) + k * 1, 1 * (a * d))
    BY <2>1, Units, PlusIs
  <2>3. 1 * (a * d) + k * 1 = c * b /\ 1 * (a * d) = d * a
    BY <1>1
  <2> QED
    BY <2>2, <2>3 DEF o
<1> HIDE DEF k
<1> QED
  BY <1>1, <1>2, <1>4, <1>11, ScaledIs

\* No noise is scaled to no noise.
LEMMA NothingScaled == Over(Zero, Square(Minus(One, Zero))) = Zero /\ Square(Zero) = Zero
PROOF
<1>1. 0 \in Int /\ 1 \in Int /\ 1 \in Nat \ {0}
  OBVIOUS
<1>2. Is(Minus(One, Zero), 1 * 1 - 0 * 1, 1 * 1)
  BY <1>1, Units, MinusIs
<1>3. Is(Minus(One, Zero), 1, 1)
  BY <1>2
<1>4. Is(Square(Minus(One, Zero)), 1 * 1, 1 * 1)
  BY <1>1, <1>3, SquareIs
<1>5. Is(Square(Minus(One, Zero)), 1, 1)
  BY <1>4
<1>6. Is(Over(Zero, Square(Minus(One, Zero))), 0 * 1, 1 * 1)
  BY <1>1, <1>5, Units, OverIs
<1>7. Is(Square(Zero), 0 * 0, 1 * 1)
  BY <1>1, Units, SquareIs
<1>8. Is(Over(Zero, Square(Minus(One, Zero))), 0, 1) /\ Is(Square(Zero), 0, 1)
  BY <1>6, <1>7
<1> QED
  BY <1>1, <1>8, Units, OneForm

-----------------------------------------------------------------------------
(* The noise in a latent                                                   *)

\* A schedule of sigmas
Levels(sigmas) ==
  /\ Len(sigmas) \in Nat \ {0}
  /\ \A i \in 1 .. Len(sigmas) : Lowest(sigmas[i]) /\ sigmas[i][1] >= 0

\* The inductive invariant: what is told is true, of the latent Heun's
\* correction starts from as well.
NoiseInv ==
  /\ Levels(plan.sigmas)
  /\ ~plan.custom => Divisible(plan.sigmas) /\ Sigma(Steps) = Zero
  /\ Divisible(plan.sigmas) =>
       /\ samplerPc \in InSteps => x = Square(Sigma(step))
       /\ samplerPc = "correcting" => x2 = Square(Sigma(step + 1)) /\ Sigma(step + 1) # Zero
       /\ samplerPc = "idle" /\ step = Steps /\ Sigma(Steps) = Zero => x = Zero

\* The default schedule falls from 1 to its only zero (flux_time_shift).
LEMMA TimeShiftIs ==
  ASSUME NEW e \in Fraction, e[1] > 0, NEW n \in Nat \ {0}, NEW i \in 0 .. n
  PROVE  /\ Lowest(TimeShift(e, n, i)) /\ TimeShift(e, n, i)[1] >= 0
         /\ TimeShift(e, n, i) = Zero <=> i = n
PROOF
<1> DEFINE u == e[1] * (n - i)
           w == u + e[2] * i
           f == TimeShift(e, n, i)
<1>1. e[1] \in Nat \ {0} /\ e[2] \in Nat \ {0}
  BY DEF Fraction
<1>2. u \in Nat /\ (u = 0 <=> i = n)
  <2>1. n - i \in Nat
    OBVIOUS
  <2> QED
    BY <1>1, <2>1
<1>3. e[2] * i \in Nat /\ (i # 0 => e[2] * i # 0)
  BY <1>1
<1> HIDE DEF u
<1>4. w \in Nat \ {0}
  BY <1>2, <1>3
<1>5. Is(f, u, w)
  <2>1. f = Reduced(u, w)
    BY DEF TimeShift, u
  <2> HIDE DEF w, f
  <2> QED
    BY <1>2, <1>4, <2>1, ReducedIs
<1> HIDE DEF w, f
<1>6. Lowest(f) /\ f[1] \in Int /\ f[2] \in Nat \ {0} /\ f[1] * w = u * f[2]
  BY <1>5 DEF Is, Lowest
<1>7. f[1] >= 0
  <2>1. u * f[2] >= 0
    BY <1>2, <1>6
  <2>2. f[1] * w >= 0
    BY <1>6, <2>1
  <2> QED
    BY <1>4, <1>6, <2>2
<1>8. f[1] = 0 <=> u = 0
  BY <1>2, <1>4, <1>6
<1>9. f = Zero <=> f[1] = 0
  BY <1>6, ZeroForm DEF Zero
<1> QED
  BY <1>2, <1>6, <1>7, <1>8, <1>9 DEF f

LEMMA DefaultLevels ==
  ASSUME NEW e \in Fraction, e[1] > 0, NEW n \in Nat, NEW s, s = DefaultSchedule(e, n)
  PROVE  Levels(s) /\ Divisible(s) /\ s[Len(s)] = Zero
PROOF
<1>1. CASE n = 0
  <2>1. s = <<Zero>> /\ Len(s) = 1 /\ s[1] = Zero
    BY <1>1 DEF DefaultSchedule
  <2>2. Lowest(Zero) /\ Zero[1] >= 0
    BY Units DEF Is, Zero
  <2> QED
    BY <2>1, <2>2 DEF Levels, Divisible
<1>2. CASE n # 0
  <2>1. Len(s) = n + 1 /\ \A i \in 1 .. n + 1 : s[i] = TimeShift(e, n, i - 1)
    BY <1>2 DEF DefaultSchedule
  <2>2. ASSUME NEW i \in 1 .. n + 1
        PROVE  Lowest(s[i]) /\ s[i][1] >= 0 /\ (s[i] = Zero <=> i = n + 1)
    <3>1. i - 1 \in 0 .. n /\ n \in Nat \ {0}
      BY <1>2
    <3> QED
      BY <2>1, <3>1, TimeShiftIs
  <2> QED
    BY <2>1, <2>2 DEF Levels, Divisible
<1> QED
  BY <1>1, <1>2

\* What prepare_generation makes of a request is a schedule.
LEMMA PreparedLevels ==
  ASSUME Prepare
  PROVE  /\ Levels(plan'.sigmas)
         /\ ~plan'.custom => Divisible(plan'.sigmas) /\ plan'.sigmas[Len(plan'.sigmas)] = Zero
PROOF
<1>1. PICK method \in Methods \cup {"count"}, seed \in Seeds :
        \/ \E n \in StepCounts, e \in Shifts :
             plan' = [method |-> IF method = "count" THEN "euler" ELSE method,
                      seed |-> seed, custom |-> FALSE,
                      sigmas |-> DefaultSchedule(e, ResolvedSteps(n))]
        \/ \E sigmas \in CustomSchedules :
             plan' = [method |-> IF method = "count" THEN "euler" ELSE method,
                      seed |-> seed, custom |-> TRUE, sigmas |-> sigmas]
  BY DEF Prepare
<1>2. CASE \E n \in StepCounts, e \in Shifts : plan'.sigmas = DefaultSchedule(e, ResolvedSteps(n))
  <2>1. PICK n \in StepCounts, e \in Shifts : plan'.sigmas = DefaultSchedule(e, ResolvedSteps(n))
    BY <1>2
  <2>2. ResolvedSteps(n) \in Nat /\ e \in Fraction /\ e[1] > 0
    BY SamplerAssumption DEF ResolvedSteps
  <2> QED
    BY <2>1, <2>2, DefaultLevels
<1>3. CASE plan'.custom /\ plan'.sigmas \in CustomSchedules
  <2> DEFINE s == plan'.sigmas
  <2>1. s \in Seq(Fraction) /\ s # <<>>
        /\ \A i \in 1 .. Len(s) : s[i][1] >= 0 /\ Reduced(s[i][1], s[i][2]) = s[i]
    BY <1>3, SamplerAssumption
  <2> HIDE DEF s
  <2>2. Len(s) \in Nat \ {0}
    BY <2>1
  <2>3. ASSUME NEW i \in 1 .. Len(s) PROVE Lowest(s[i])
    <3>1. s[i] \in Fraction
      BY <2>1
    <3>2. s[i][1] \in Int /\ s[i][2] \in Nat \ {0}
      BY <3>1 DEF Fraction
    <3> QED
      BY <2>1, <3>2, ReducedParts
  <2>4. Levels(s)
    BY <2>1, <2>2, <2>3 DEF Levels
  <2> QED
    BY <1>3, <2>4 DEF s
<1> QED
  BY <1>1, <1>2, <1>3

\* A sigma that is divided by is above zero.
LEMMA SigmaLevel ==
  ASSUME Levels(plan.sigmas), NEW i \in Nat, i <= Steps
  PROVE  /\ Lowest(Sigma(i)) /\ Sigma(i)[1] >= 0
         /\ Sigma(i) # Zero => Sigma(i)[1] > 0
         /\ Divisible(plan.sigmas) /\ i < Steps => Sigma(i)[1] > 0
PROOF
<1>1. i + 1 \in 1 .. Len(plan.sigmas) /\ (i < Steps => i + 1 \in 1 .. Len(plan.sigmas) - 1)
  BY DEF Levels, Steps
<1>2. Lowest(Sigma(i)) /\ Sigma(i)[1] >= 0 /\ Sigma(i)[1] \in Int
  BY <1>1 DEF Levels, Sigma, Lowest
<1>3. Sigma(i) # Zero => Sigma(i)[1] # 0
  BY <1>2, ZeroForm
<1>4. Divisible(plan.sigmas) /\ i < Steps => Sigma(i) # Zero
  BY <1>1 DEF Divisible, Sigma
<1> QED
  BY <1>2, <1>3, <1>4

\* A step that is done, by whatever method
LEMMA NoiseStepped ==
  ASSUME NoiseInv, step \in Nat, NextStep, UNCHANGED plan,
         Divisible(plan.sigmas) => x' = Square(Sigma(step + 1))
  PROVE  NoiseInv'
PROOF
<1>1. samplerPc' = "sampling" /\ step' = step + 1 /\ plan' = plan
  BY DEF NextStep
<1>2. Sigma(step)' = Sigma(step + 1)
  BY <1>1 DEF Sigma
<1>3. Sigma(Steps)' = Sigma(Steps)
  BY <1>1 DEF Sigma, Steps
<1> QED
  BY <1>1, <1>2, <1>3 DEF NoiseInv

LEMMA NoiseFails == ASSUME NoiseInv, Fail, step < Steps, step \in Nat PROVE NoiseInv'
PROOF
<1>1. samplerPc' = "idle" /\ step' = step /\ plan' = plan /\ Steps' = Steps
  BY DEF Fail, Steps
<1>2. Sigma(Steps)' = Sigma(Steps)
  BY <1>1 DEF Sigma
<1>3. step' # Steps'
  BY <1>1 DEF Steps, NoiseInv, Levels
<1> QED
  BY <1>1, <1>2, <1>3 DEF NoiseInv, InSteps

LEMMA NoiseInitially == SamplerInit => NoiseInv
PROOF
<1> SUFFICES ASSUME SamplerInit PROVE NoiseInv
  OBVIOUS
<1>1. /\ plan.sigmas = <<Zero>> /\ Len(plan.sigmas) = 1 /\ plan.sigmas[1] = Zero
      /\ samplerPc = "idle" /\ x = Zero /\ Steps = 0
  BY DEF SamplerInit, NoPlan, Steps
<1>2. Lowest(Zero) /\ Zero[1] >= 0
  BY Units DEF Is, Zero
<1>3. Sigma(Steps) = Zero
  BY <1>1 DEF Sigma
<1>4. Levels(plan.sigmas) /\ Divisible(plan.sigmas)
  BY <1>1, <1>2 DEF Levels, Divisible
<1> QED
  BY <1>1, <1>3, <1>4 DEF NoiseInv, InSteps

LEMMA NoiseStep == SamplerInv /\ NoiseInv /\ [SamplerNext]_samplerVars => NoiseInv'
PROOF
<1> SUFFICES ASSUME SamplerInv, NoiseInv, [SamplerNext]_samplerVars PROVE NoiseInv'
  OBVIOUS
<1>0. step \in Nat /\ Levels(plan.sigmas) /\ Steps \in Int /\ step + 1 \in Nat
  BY DEF SamplerInv, NoiseInv, Levels, Steps
<1>1. CASE Prepare
  <2>1. samplerPc' = "prepared"
    BY <1>1 DEF Prepare
  <2>2. /\ Levels(plan'.sigmas)
        /\ ~plan'.custom => Divisible(plan'.sigmas) /\ plan'.sigmas[Len(plan'.sigmas)] = Zero
    BY <1>1, PreparedLevels
  <2>3. Sigma(Steps)' = plan'.sigmas[Len(plan'.sigmas)]
    <3>1. (Len(plan'.sigmas) - 1) + 1 = Len(plan'.sigmas)
      BY <2>2 DEF Levels
    <3> QED
      BY <3>1 DEF Sigma, Steps
  <2>4. Levels(plan.sigmas)' /\ (Divisible(plan.sigmas)' <=> Divisible(plan'.sigmas))
    BY <2>2 DEF Levels, Divisible
  <2> QED
    BY <2>1, <2>2, <2>3, <2>4 DEF NoiseInv, InSteps
<1>2. CASE Noise
  <2>1. samplerPc' = "sampling" /\ plan' = plan /\ step' = 0 /\ x' = Square(Sigma(0))
    BY <1>2 DEF Noise, SamplerInv
  <2>2. Sigma(step)' = Sigma(0) /\ Sigma(Steps)' = Sigma(Steps)
    BY <2>1 DEF Sigma, Steps
  <2> QED
    BY <2>1, <2>2 DEF NoiseInv
<1>3. CASE Euler
  <2>1. samplerPc = "sampling" /\ step < Steps
    BY <1>3 DEF Euler
  <2>2. CASE Fail
    BY <1>0, <2>1, <2>2, NoiseFails
  <2>3. CASE /\ x' = EulerStep(x, Sigma(step), Minus(Sigma(step + 1), Sigma(step)))
             /\ NextStep /\ UNCHANGED plan
    <3>1. ASSUME Divisible(plan.sigmas) PROVE x' = Square(Sigma(step + 1))
      <4>1. x = Square(Sigma(step))
        BY <2>1, <3>1 DEF NoiseInv, InSteps
      <4>2. Lowest(Sigma(step)) /\ Sigma(step)[1] > 0 /\ Lowest(Sigma(step + 1))
        BY <1>0, <2>1, <3>1, SigmaLevel
      <4> QED
        BY <2>3, <4>1, <4>2, EulerStepIs
    <3> QED
      BY <1>0, <2>3, <3>1, NoiseStepped
  <2> QED
    BY <1>3, <2>2, <2>3 DEF Euler
<1>4. CASE EulerAncestral
  <2>1. samplerPc = "sampling" /\ step < Steps
    BY <1>4 DEF EulerAncestral
  <2>2. CASE Fail
    BY <1>0, <2>1, <2>2, NoiseFails
  <2>3. CASE /\ x' = AncestralStep(x, Sigma(step), Sigma(step + 1))
             /\ NextStep /\ UNCHANGED plan
    <3>1. ASSUME Divisible(plan.sigmas) PROVE x' = Square(Sigma(step + 1))
      <4>1. x = Square(Sigma(step))
        BY <2>1, <3>1 DEF NoiseInv, InSteps
      <4>2. Lowest(Sigma(step)) /\ Sigma(step)[1] > 0 /\ Lowest(Sigma(step + 1))
        BY <1>0, <2>1, <3>1, SigmaLevel
      <4> QED
        BY <2>3, <4>1, <4>2, AncestralStepIs
    <3> QED
      BY <1>0, <2>3, <3>1, NoiseStepped
  <2> QED
    BY <1>4, <2>2, <2>3 DEF EulerAncestral
<1>5. CASE HeunPredict
  <2> DEFINE next == EulerStep(x, Sigma(step), Minus(Sigma(step + 1), Sigma(step)))
  <2>1. samplerPc = "sampling" /\ step < Steps
    BY <1>5 DEF HeunPredict
  <2>2. ASSUME Divisible(plan.sigmas) PROVE next = Square(Sigma(step + 1))
    <3>1. x = Square(Sigma(step))
      BY <2>1, <2>2 DEF NoiseInv, InSteps
    <3>2. Lowest(Sigma(step)) /\ Sigma(step)[1] > 0 /\ Lowest(Sigma(step + 1))
      BY <1>0, <2>1, <2>2, SigmaLevel
    <3> QED
      BY <3>1, <3>2, EulerStepIs
  <2> HIDE DEF next
  <2>3. CASE Fail
    BY <1>0, <2>1, <2>3, NoiseFails
  <2>4. CASE x' = next /\ NextStep /\ UNCHANGED plan
    BY <1>0, <2>2, <2>4, NoiseStepped
  <2>5. CASE /\ Sigma(step + 1) # Zero /\ x2' = next /\ samplerPc' = "correcting"
             /\ UNCHANGED <<plan, step, x>>
    <3>1. Sigma(step)' = Sigma(step) /\ Sigma(step + 1)' = Sigma(step + 1) /\ Sigma(Steps)' = Sigma(Steps)
      BY <2>5 DEF Sigma, Steps
    <3> QED
      BY <2>1, <2>2, <2>5, <3>1 DEF NoiseInv, InSteps
  <2> QED
    BY <1>5, <2>3, <2>4, <2>5 DEF HeunPredict, next
<1>6. CASE HeunCorrect
  <2>1. samplerPc = "correcting" /\ step < Steps
    BY <1>6 DEF HeunCorrect, SamplerInv
  <2>2. CASE Fail
    BY <1>0, <2>1, <2>2, NoiseFails
  <2>3. CASE x' = HeunStep(x, x2, Sigma(step), Sigma(step + 1)) /\ NextStep /\ UNCHANGED plan
    <3>1. ASSUME Divisible(plan.sigmas) PROVE x' = Square(Sigma(step + 1))
      <4>1. x = Square(Sigma(step)) /\ x2 = Square(Sigma(step + 1)) /\ Sigma(step + 1) # Zero
        BY <2>1, <3>1 DEF NoiseInv, InSteps
      <4>2. /\ Lowest(Sigma(step)) /\ Sigma(step)[1] > 0
            /\ Lowest(Sigma(step + 1)) /\ Sigma(step + 1)[1] > 0
        BY <1>0, <2>1, <3>1, <4>1, SigmaLevel
      <4> QED
        BY <2>3, <4>1, <4>2, HeunStepIs
    <3> QED
      BY <1>0, <2>3, <3>1, NoiseStepped
  <2> QED
    BY <1>6, <2>2, <2>3 DEF HeunCorrect
<1>7. CASE Finish
  <2>1. /\ samplerPc = "sampling" /\ step = Steps /\ samplerPc' = "idle" /\ plan' = plan /\ step' = step
        /\ x' = IF x = Garbage \/ Sigma(Steps) = One THEN Garbage
                ELSE Over(x, Square(Minus(One, Sigma(Steps))))
    BY <1>7 DEF Finish
  <2>2. Sigma(Steps)' = Sigma(Steps)
    BY <2>1 DEF Sigma, Steps
  <2>3. ASSUME Divisible(plan.sigmas), Sigma(Steps) = Zero PROVE x' = Zero
    <3>1. x = Zero
      BY <2>1, <2>3, NothingScaled DEF NoiseInv, InSteps
    <3>2. Zero # Garbage /\ Zero # One
      BY DEF Zero, Garbage, One
    <3> QED
      BY <2>1, <2>3, <3>1, <3>2, NothingScaled
  <2> QED
    BY <2>1, <2>2, <2>3 DEF NoiseInv, InSteps
<1>8. CASE UNCHANGED samplerVars
  BY <1>8 DEF samplerVars, NoiseInv, Sigma, Steps, InSteps
<1>9. CASE SamplerIdle
  BY <1>8, <1>9 DEF SamplerIdle
<1> QED
  BY <1>1, <1>2, <1>3, <1>4, <1>5, <1>6, <1>7, <1>8, <1>9 DEF SamplerNext

\* For every default schedule, and every custom one that only ends in zero, the
\* latent has as much noise as the model is told, by all three methods and
\* after any number of steps (sample_k_diffusion); and the default schedule
\* never divides by zero.
THEOREM NoiseMatches == SamplerSpec => []NoiseAsTold
PROOF
<1>1. SamplerInv /\ NoiseInv => NoiseAsTold
  BY DEF NoiseInv, NoiseAsTold, InSteps
<1>2. SamplerInv /\ NoiseInv /\ [SamplerNext]_samplerVars => (SamplerInv /\ NoiseInv)'
  BY SamplerStepInv, NoiseStep
<1> QED
  BY SamplerInitInv, NoiseInitially, <1>1, <1>2, PTL DEF SamplerSpec

-----------------------------------------------------------------------------
(* What a latent can hold                                                 *)

\* What a latent can hold: a variance, or the outcome of a division by zero
Held(v) == v = Garbage \/ Lowest(v)

\* The inductive invariant.  In Heun's correction nothing is divided by zero:
\* the sigma it goes to is above zero, and the prediction says whether the one
\* it comes from was.
SamplerTyped ==
  /\ SamplerTypeOK /\ Levels(plan.sigmas) /\ plan.seed \in Nat
  /\ Held(x) /\ Held(x2)
  /\ samplerPc = "correcting" =>
       /\ step < Steps /\ Sigma(step + 1) # Zero
       /\ Sigma(step) = Zero => x2 = Garbage

\* The operations of the steps stay within the fractions in lowest terms, as
\* long as nothing is divided by zero.
LEMMA FractionsClosed ==
  ASSUME NEW a, NEW b, Lowest(a), Lowest(b)
  PROVE  /\ Lowest(Plus(a, b)) /\ Lowest(Minus(a, b)) /\ Lowest(Times(a, b)) /\ Lowest(Square(a))
         /\ b[1] > 0 => Lowest(Over(a, b))
PROOF
<1>1. a[1] \in Int /\ a[2] \in Nat \ {0} /\ b[1] \in Int /\ b[2] \in Nat \ {0} /\ b \in Int \X (Nat \ {0})
  BY DEF Lowest
<1>2. Is(a, a[1], a[2]) /\ Is(b, b[1], b[2])
  BY ItIs
<1> DEFINE n == a[1]
           d == a[2]
           m == b[1]
           e == b[2]
<1>3. Is(Plus(a, b), n * e + m * d, d * e)
  BY <1>1, <1>2, PlusIs
<1>4. Is(Minus(a, b), n * e - m * d, d * e)
  BY <1>1, <1>2, MinusIs
<1>5. Is(Times(a, b), n * m, d * e)
  BY <1>1, <1>2, TimesIs
<1>6. Is(Square(a), n * n, d * d)
  BY <1>1, <1>2, SquareIs
<1>7. ASSUME b[1] > 0 PROVE Is(Over(a, b), n * e, d * m)
  <2>1. b[1] \in Nat \ {0}
    BY <1>1, <1>7
  <2> QED
    BY <1>1, <1>2, <2>1, OverIs
<1> QED
  BY <1>3, <1>4, <1>5, <1>6, <1>7 DEF Is

\* The square of a number is above zero if the number is not zero.
LEMMA SquareAbove ==
  ASSUME NEW a, Lowest(a), a # Zero
  PROVE  Lowest(Square(a)) /\ Square(a)[1] > 0
PROOF
<1>1. a[1] \in Int /\ a[2] \in Nat \ {0} /\ a[1] # 0
  BY ZeroForm DEF Lowest
<1> DEFINE q == Square(a)
           n == a[1] * a[1]
           d == a[2] * a[2]
<1>2. Is(q, n, d)
  BY <1>1, ItIs, SquareIs
<1>3. n \in Nat \ {0} /\ d \in Nat \ {0}
  <2>1. CASE a[1] > 0
    BY <1>1, <2>1
  <2>2. CASE a[1] < 0
    <3>1. -a[1] \in Nat \ {0} /\ n = (-a[1]) * (-a[1])
      BY <1>1, <2>2
    <3>2. \A k \in Nat \ {0} : k * k \in Nat \ {0}
      OBVIOUS
    <3> QED
      BY <1>1, <3>1, <3>2
  <2> QED
    BY <1>1, <2>1, <2>2
<1> HIDE DEF q, n, d
<1>4. q[1] \in Int /\ q[2] \in Nat \ {0} /\ q[1] * d = n * q[2]
  BY <1>2 DEF Is, Lowest
<1>5. n * q[2] > 0
  BY <1>3, <1>4
<1>6. q[1] > 0
  BY <1>3, <1>4, <1>5
<1> QED
  BY <1>2, <1>6 DEF Is, q

LEMMA OnesLowest == Lowest(Zero) /\ Lowest(One) /\ Lowest(<<2, 1>>) /\ <<2, 1>>[1] > 0 /\ One[1] > 0
PROOF
  BY Units DEF Is, One

\* The steps of the methods leave a variance, or what a division by zero left.
LEMMA EulerHolds ==
  ASSUME NEW v, Held(v), NEW s, NEW t, Lowest(s), s[1] >= 0, Lowest(t)
  PROVE  /\ Held(EulerStep(v, s, Minus(t, s)))
         /\ s = Zero => EulerStep(v, s, Minus(t, s)) = Garbage
PROOF
<1>1. CASE v = Garbage \/ s = Zero
  BY <1>1 DEF EulerStep, Held
<1>2. CASE v # Garbage /\ s # Zero
  <2>1. s[1] > 0 /\ Lowest(v)
    <3>1. s[1] \in Int /\ s[1] # 0
      BY <1>2, ZeroForm DEF Lowest
    <3> QED
      BY <1>2, <3>1 DEF Held
  <2> DEFINE dt == Minus(t, s)
             f == Plus(One, Over(dt, s))
  <2>2. Lowest(dt)
    BY FractionsClosed
  <2> HIDE DEF dt
  <2>3. Lowest(Over(dt, s))
    BY <2>1, <2>2, FractionsClosed
  <2>4. Lowest(f)
    BY <2>3, OnesLowest, FractionsClosed
  <2> HIDE DEF f
  <2>5. Lowest(Square(f))
    BY <2>4, FractionsClosed
  <2>6. Lowest(Times(v, Square(f)))
    BY <2>1, <2>5, FractionsClosed
  <2> QED
    BY <1>2, <2>6 DEF EulerStep, Held, f, dt
<1> QED
  BY <1>1, <1>2

LEMMA AncestralHolds ==
  ASSUME NEW v, Held(v), NEW s, NEW t, Lowest(s), s[1] >= 0, Lowest(t)
  PROVE  Held(AncestralStep(v, s, t))
PROOF
<1>1. CASE v = Garbage \/ s = Zero
  BY <1>1 DEF AncestralStep, Held
<1>2. CASE v # Garbage /\ s # Zero
  <2> DEFINE S == Square(s)
             T == Square(t)
             up == SigmaUpSquared(s, t)
             down == Minus(T, up)
  <2>1. Lowest(v) /\ Lowest(S) /\ S[1] > 0 /\ Lowest(T)
    BY <1>2, SquareAbove, FractionsClosed DEF Held
  <2>2. up = T \/ up = Over(Times(T, Minus(S, T)), S)
    BY DEF SigmaUpSquared
  <2>3. AncestralStep(v, s, t) = Plus(Times(v, Over(down, S)), up)
    BY <1>2 DEF AncestralStep
  <2> HIDE DEF S, T, up
  <2>4. Lowest(Minus(S, T))
    BY <2>1, FractionsClosed
  <2>5. Lowest(Times(T, Minus(S, T)))
    BY <2>1, <2>4, FractionsClosed
  <2>6. Lowest(up)
    BY <2>1, <2>2, <2>5, FractionsClosed
  <2>7. Lowest(down)
    BY <2>1, <2>6, FractionsClosed
  <2> HIDE DEF down
  <2>8. Lowest(Over(down, S))
    BY <2>1, <2>7, FractionsClosed
  <2>9. Lowest(Times(v, Over(down, S)))
    BY <2>1, <2>8, FractionsClosed
  <2>10. Lowest(Plus(Times(v, Over(down, S)), up))
    BY <2>6, <2>9, FractionsClosed
  <2> QED
    BY <2>3, <2>10 DEF Held
<1> QED
  BY <1>1, <1>2

LEMMA HeunHolds ==
  ASSUME NEW v, Held(v), NEW v2, NEW s, NEW t, Lowest(s), s[1] >= 0, Lowest(t), t[1] > 0,
         s = Zero => v2 = Garbage
  PROVE  Held(HeunStep(v, v2, s, t))
PROOF
<1>1. CASE v = Garbage \/ v2 = Garbage
  BY <1>1 DEF HeunStep, Held
<1>2. CASE v # Garbage /\ v2 # Garbage
  <2> DEFINE dt == Minus(t, s)
             predicted == Plus(One, Over(dt, s))
             both == Plus(Over(One, s), Over(predicted, t))
             slope == Over(both, <<2, 1>>)
             f == Plus(One, Times(slope, dt))
  <2>1. s[1] > 0 /\ Lowest(v)
    <3>1. s[1] \in Int /\ s[1] # 0
      BY <1>2, ZeroForm DEF Lowest
    <3> QED
      BY <1>2, <3>1 DEF Held
  <2>2. Lowest(dt)
    BY FractionsClosed
  <2>3. HeunStep(v, v2, s, t) = Times(v, Square(f))
    BY <1>2 DEF HeunStep
  <2> HIDE DEF dt
  <2>4. Lowest(Over(dt, s)) /\ Lowest(Over(One, s))
    BY <2>1, <2>2, OnesLowest, FractionsClosed
  <2>5. Lowest(predicted)
    BY <2>4, OnesLowest, FractionsClosed
  <2> HIDE DEF predicted
  <2>6. Lowest(Over(predicted, t))
    BY <2>5, FractionsClosed
  <2>7. Lowest(both)
    BY <2>4, <2>6, FractionsClosed
  <2> HIDE DEF both
  <2>8. Lowest(slope)
    BY <2>7, OnesLowest, FractionsClosed
  <2> HIDE DEF slope
  <2>9. Lowest(Times(slope, dt))
    BY <2>2, <2>8, FractionsClosed
  <2>10. Lowest(f)
    BY <2>9, OnesLowest, FractionsClosed
  <2> HIDE DEF f
  <2>11. Lowest(Square(f))
    BY <2>10, FractionsClosed
  <2>12. Lowest(Times(v, Square(f)))
    BY <2>1, <2>11, FractionsClosed
  <2> QED
    BY <2>3, <2>12 DEF Held
<1> QED
  BY <1>1, <1>2

\* What is left when the noise is scaled back
LEMMA FinishHolds ==
  ASSUME NEW v, Held(v), NEW s, Lowest(s)
  PROVE  Held(IF v = Garbage \/ s = One THEN Garbage ELSE Over(v, Square(Minus(One, s))))
PROOF
<1>1. CASE v = Garbage \/ s = One
  BY <1>1 DEF Held
<1>2. CASE v # Garbage /\ s # One
  <2> DEFINE r == Minus(One, s)
             q == Square(r)
  <2>1. r # Zero
    <3> DEFINE a == s[1]
               b == s[2]
    <3>1. a \in Int /\ b \in Nat \ {0} /\ Is(s, a, b)
      BY ItIs DEF Lowest
    <3> HIDE DEF a, b
    <3>2. Is(r, 1 * b - a * 1, 1 * b)
      BY <3>1, Units, MinusIs
    <3> HIDE DEF r
    <3> SUFFICES ASSUME r = Zero PROVE s = One
      BY <1>2
    <3>3. 0 * b = (b - a) * 1
      BY <3>1, <3>2 DEF Is, Zero
    <3>4. a = b
      BY <3>1, <3>3
    <3>5. Is(One, b, b)
      BY <3>1, Units DEF Is, One
    <3> QED
      BY <3>1, <3>4, <3>5, OneForm
  <2>2. Lowest(r)
    BY OnesLowest, FractionsClosed
  <2> HIDE DEF r
  <2>3. Lowest(q) /\ q[1] > 0
    BY <2>1, <2>2, SquareAbove
  <2> HIDE DEF q
  <2>4. Lowest(Over(v, q))
    BY <1>2, <2>3, FractionsClosed DEF Held
  <2> QED
    BY <1>2, <2>4 DEF Held, q, r
<1> QED
  BY <1>1, <1>2

\* What the callback is told is a number of steps.
LEMMA ToldNumbers ==
  ASSUME told \in Seq(Nat), step \in Nat, NEW ok \in BOOLEAN,
         Denoise(step + 1, ok) \/ Denoise(-(step + 1), ok)
  PROVE  told' \in Seq(Nat)
PROOF
<1>1. PICK k \in {step + 1, -(step + 1)} : Denoise(k, ok)
  OBVIOUS
<1>2. (IF k < 0 THEN -k ELSE k) \in Nat
  BY <1>1
<1>3. Opening(k) \in Seq(Nat)
  BY DEF Opening
<1>4. \A m \in Nat : Append(Opening(k), m) \in Seq(Nat)
  BY <1>3
<1> QED
  BY <1>1, <1>2, <1>3, <1>4 DEF Denoise

\* What prepare_generation resolves a request to
LEMMA PreparedTyped ==
  ASSUME Prepare
  PROVE  plan'.method \in Methods /\ plan'.seed \in Nat /\ rng' \in [seed : Nat, offset : Nat]
PROOF
<1>1. PICK method \in Methods \cup {"count"}, seed \in Seeds :
        /\ \/ \E n \in StepCounts, e \in Shifts :
                plan' = [method |-> IF method = "count" THEN "euler" ELSE method,
                         seed |-> seed, custom |-> FALSE,
                         sigmas |-> DefaultSchedule(e, ResolvedSteps(n))]
           \/ \E sigmas \in CustomSchedules :
                plan' = [method |-> IF method = "count" THEN "euler" ELSE method,
                         seed |-> seed, custom |-> TRUE, sigmas |-> sigmas]
        /\ rng' = ManualSeed(seed)
  BY DEF Prepare
<1>2. plan'.method = (IF method = "count" THEN "euler" ELSE method) /\ plan'.seed = seed
  BY <1>1
<1>3. seed \in Nat
  BY SamplerAssumption
<1> QED
  BY <1>1, <1>2, <1>3 DEF ManualSeed, Methods

\* A step that is done
LEMMA StepTyped ==
  ASSUME SamplerTyped, NextStep, UNCHANGED plan, Held(x'), Held(x2'), told' \in Seq(Nat),
         Randn \/ UNCHANGED <<rng, drawn>>
  PROVE  SamplerTyped'
PROOF
<1>1. /\ samplerPc' = "sampling" /\ step' = step + 1 /\ step \in Nat
      /\ rng \in [seed : Nat, offset : Nat] /\ drawn \in Seq([seed : Nat, offset : Nat])
  BY DEF NextStep, SamplerTyped, SamplerTypeOK
<1>2. rng' \in [seed : Nat, offset : Nat] /\ drawn' \in Seq([seed : Nat, offset : Nat])
  <2>1. CASE Randn
    <3>1. rng' = [rng EXCEPT !.offset = @ + 1] /\ drawn' = Append(drawn, rng)
      BY <2>1 DEF Randn
    <3>2. rng' \in [seed : Nat, offset : Nat]
      <4>1. rng.offset + 1 \in Nat /\ rng' = [rng EXCEPT !.offset = rng.offset + 1]
        BY <1>1, <3>1
      <4> QED
        BY <1>1, <4>1
    <3>3. drawn' \in Seq([seed : Nat, offset : Nat])
      BY <1>1, <3>1
    <3> QED
      BY <3>2, <3>3
  <2> QED
    BY <1>1, <2>1
<1>3. {x, x2}' \subseteq Fraction \cup {Garbage}
  BY DEF Held, Lowest, Fraction
<1> QED
  BY <1>1, <1>2, <1>3 DEF SamplerTyped, SamplerTypeOK

LEMMA FailTyped == ASSUME SamplerTyped, Fail, told' \in Seq(Nat) PROVE SamplerTyped'
PROOF
<1>1. samplerPc' = "idle" /\ UNCHANGED <<plan, step, rng, x, x2, drawn>>
  BY DEF Fail
<1> QED
  BY <1>1 DEF SamplerTyped, SamplerTypeOK

LEMMA SamplerStaysTyped == SamplerTyped /\ [SamplerNext]_samplerVars => SamplerTyped'
PROOF
<1> SUFFICES ASSUME SamplerTyped, [SamplerNext]_samplerVars PROVE SamplerTyped'
  OBVIOUS
<1> DEFINE s == Sigma(step)
           t == Sigma(step + 1)
           next == EulerStep(x, s, Minus(t, s))
<1>0. /\ Levels(plan.sigmas) /\ step \in Nat /\ step + 1 \in Nat /\ Steps \in Int
      /\ Held(x) /\ Held(x2) /\ told \in Seq(Nat)
  BY DEF SamplerTyped, SamplerTypeOK, Levels, Steps
<1>1. step < Steps => /\ Lowest(s) /\ s[1] >= 0 /\ Lowest(t) /\ t[1] >= 0
                      /\ t # Zero => t[1] > 0
  <2> SUFFICES ASSUME step < Steps
               PROVE  Lowest(s) /\ s[1] >= 0 /\ Lowest(t) /\ t[1] >= 0 /\ (t # Zero => t[1] > 0)
    OBVIOUS
  <2>1. step <= Steps /\ step + 1 <= Steps
    BY <1>0
  <2> QED
    BY <1>0, <2>1, SigmaLevel
<1>2. step < Steps => Held(next) /\ (s = Zero => next = Garbage)
  <2> HIDE DEF s, t
  <2> QED
    BY <1>0, <1>1, EulerHolds
<1> HIDE DEF s, t, next
<1>3. CASE Prepare
  <2>1. /\ step' = 0 /\ x' = Zero /\ x2' = Zero /\ drawn' = <<>> /\ told' = <<>>
        /\ samplerPc' = "prepared"
    BY <1>3 DEF Prepare
  <2>2. plan'.method \in Methods /\ plan'.seed \in Nat /\ rng' \in [seed : Nat, offset : Nat]
    BY <1>3, PreparedTyped
  <2>3. Levels(plan'.sigmas)
    BY <1>3, PreparedLevels
  <2>4. plan'.sigmas # <<>>
    BY <2>3 DEF Levels
  <2>5. Zero \in Fraction /\ Held(Zero)
    BY OnesLowest DEF Held, Lowest, Fraction
  <2>6. Levels(plan.sigmas)'
    BY <2>3 DEF Levels
  <2> QED
    BY <2>1, <2>2, <2>4, <2>5, <2>6 DEF SamplerTyped, SamplerTypeOK
<1>4. CASE Noise
  <2>1. /\ rng' = [ManualSeed(plan.seed) EXCEPT !.offset = @ + 1]
        /\ drawn' = <<ManualSeed(plan.seed)>> /\ x' = Square(Sigma(0))
        /\ samplerPc' = "sampling" /\ UNCHANGED <<plan, step, x2, told>>
    BY <1>4 DEF Noise
  <2>2. ManualSeed(plan.seed) \in [seed : Nat, offset : Nat]
    BY DEF ManualSeed, SamplerTyped
  <2>3. rng' \in [seed : Nat, offset : Nat] /\ drawn' \in Seq([seed : Nat, offset : Nat])
    BY <2>1, <2>2
  <2>4. Lowest(Sigma(0))
    <3>1. 0 <= Steps
      BY <1>0 DEF Levels, Steps
    <3> QED
      BY <1>0, <3>1, SigmaLevel
  <2>5. Lowest(x')
    BY <2>1, <2>4, FractionsClosed
  <2>6. x' \in Fraction /\ Held(x)'
    BY <2>5 DEF Held, Lowest, Fraction
  <2> QED
    BY <2>1, <2>3, <2>6 DEF SamplerTyped, SamplerTypeOK
<1>5. CASE Euler
  <2>1. PICK ok \in BOOLEAN :
          /\ step < Steps /\ Denoise(step + 1, ok)
          /\ IF ok THEN x' = next /\ NextStep /\ UNCHANGED <<plan, rng, x2, drawn, finished>>
             ELSE Fail
    BY <1>5 DEF Euler, next, s, t
  <2>2. told' \in Seq(Nat)
    BY <1>0, <2>1, ToldNumbers
  <2>3. CASE ok
    BY <1>0, <1>2, <2>1, <2>2, <2>3, StepTyped
  <2> QED
    BY <2>1, <2>2, <2>3, FailTyped
<1>6. CASE EulerAncestral
  <2>1. PICK ok \in BOOLEAN :
          /\ step < Steps /\ Denoise(step + 1, ok)
          /\ IF ok THEN /\ x' = AncestralStep(x, s, t)
                        /\ IF Less(Zero, t) THEN Randn ELSE UNCHANGED <<rng, drawn>>
                        /\ NextStep /\ UNCHANGED <<plan, x2, finished>>
             ELSE Fail
    BY <1>6 DEF EulerAncestral, s, t
  <2>2. told' \in Seq(Nat)
    BY <1>0, <2>1, ToldNumbers
  <2>3. CASE ok
    <3>1. Held(x')
      BY <1>0, <1>1, <2>1, <2>3, AncestralHolds
    <3> QED
      BY <1>0, <2>1, <2>2, <2>3, <3>1, StepTyped
  <2> QED
    BY <2>1, <2>2, <2>3, FailTyped
<1>7. CASE HeunPredict
  <2>1. PICK ok \in BOOLEAN :
          /\ step < Steps /\ Denoise(-(step + 1), ok)
          /\ IF ~ok THEN Fail
             ELSE IF t = Zero
               THEN x' = next /\ NextStep /\ UNCHANGED <<plan, rng, x2, drawn, finished>>
               ELSE /\ x2' = next /\ samplerPc' = "correcting"
                    /\ UNCHANGED <<plan, step, rng, x, drawn, finished>>
    BY <1>7 DEF HeunPredict, next, s, t
  <2>2. told' \in Seq(Nat)
    BY <1>0, <2>1, ToldNumbers
  <2>3. CASE ~ok
    BY <2>1, <2>2, <2>3, FailTyped
  <2>4. CASE ok /\ t = Zero
    BY <1>0, <1>2, <2>1, <2>2, <2>4, StepTyped
  <2>5. CASE ok /\ t # Zero
    <3>1. /\ x2' = next /\ samplerPc' = "correcting"
          /\ UNCHANGED <<plan, step, rng, x, drawn, finished>>
      BY <2>1, <2>5
    <3>2. Sigma(step)' = s /\ Sigma(step + 1)' = t /\ Steps' = Steps
      BY <3>1 DEF s, t, Sigma, Steps
    <3>3. Held(x2)' /\ (s = Zero => x2' = Garbage)
      BY <1>2, <2>1, <3>1 DEF Held
    <3>4. {x, x2}' \subseteq Fraction \cup {Garbage}
      BY <1>0, <3>1, <3>3 DEF Held, Lowest, Fraction
    <3> QED
      BY <2>1, <2>2, <2>5, <3>1, <3>2, <3>3, <3>4 DEF SamplerTyped, SamplerTypeOK
  <2> QED
    BY <2>3, <2>4, <2>5
<1>8. CASE HeunCorrect
  <2>1. PICK ok \in BOOLEAN :
          /\ samplerPc = "correcting" /\ Denoise(step + 1, ok)
          /\ IF ok THEN x' = HeunStep(x, x2, s, t) /\ NextStep /\ UNCHANGED <<plan, rng, x2, drawn, finished>>
             ELSE Fail
    BY <1>8 DEF HeunCorrect, s, t
  <2>2. told' \in Seq(Nat)
    BY <1>0, <2>1, ToldNumbers
  <2>3. CASE ok
    <3>1. step < Steps /\ t # Zero /\ (s = Zero => x2 = Garbage)
      BY <2>1 DEF SamplerTyped, s, t
    <3>2. Held(x')
      BY <1>0, <1>1, <2>1, <2>3, <3>1, HeunHolds
    <3> QED
      BY <1>0, <2>1, <2>2, <2>3, <3>2, StepTyped
  <2> QED
    BY <2>1, <2>2, <2>3, FailTyped
<1>9. CASE Finish
  <2> DEFINE final == Sigma(Steps)
  <2>1. /\ x' = IF x = Garbage \/ final = One THEN Garbage ELSE Over(x, Square(Minus(One, final)))
        /\ step = Steps /\ samplerPc' = "idle" /\ UNCHANGED <<plan, step, rng, x2, drawn, told>>
    BY <1>9 DEF Finish
  <2>2. Lowest(final)
    BY <1>0, <2>1, SigmaLevel
  <2> HIDE DEF final
  <2>3. Held(x')
    BY <1>0, <2>1, <2>2, FinishHolds
  <2>4. {x, x2}' \subseteq Fraction \cup {Garbage}
    BY <1>0, <2>1, <2>3 DEF Held, Lowest, Fraction
  <2> QED
    BY <2>1, <2>3, <2>4 DEF SamplerTyped, SamplerTypeOK, Held
<1>10. CASE UNCHANGED samplerVars
  BY <1>10 DEF samplerVars, SamplerTyped, SamplerTypeOK, Sigma, Steps
<1>11. CASE SamplerIdle
  BY <1>10, <1>11 DEF SamplerIdle
<1> QED
  BY <1>3, <1>4, <1>5, <1>6, <1>7, <1>8, <1>9, <1>10, <1>11 DEF SamplerNext

\* For every schedule and method, also when steps fail, what a latent holds is a
\* variance or comes from one of two divisions by zero, that of a step from a
\* sigma of zero and that of scaling back from a sigma of one; nothing else in
\* the steps divides by zero (sample_k_diffusion, inverse_noise_scaling).
THEOREM SamplerTypes == SamplerSpec => []SamplerTypeOK
PROOF
<1>1. SamplerInit => SamplerTyped
  <2> SUFFICES ASSUME SamplerInit PROVE SamplerTyped
    OBVIOUS
  <2>1. Levels(plan.sigmas)
    BY NoiseInitially DEF NoiseInv
  <2>2. Lowest(Zero) /\ Held(Zero) /\ Zero \in Fraction
    BY OnesLowest DEF Held, Lowest, Fraction
  <2>3. plan.method = "euler" /\ plan.sigmas = <<Zero>> /\ plan.seed = 0
    BY DEF SamplerInit, NoPlan
  <2> QED
    BY <2>1, <2>2, <2>3 DEF SamplerInit, SamplerTyped, SamplerTypeOK, Methods
<1>2. SamplerTyped => SamplerTypeOK
  BY DEF SamplerTyped
<1> QED
  BY <1>1, <1>2, SamplerStaysTyped, PTL DEF SamplerSpec
=============================================================================
