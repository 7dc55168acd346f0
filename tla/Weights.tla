------------------------------ MODULE Weights ------------------------------
(***************************************************************************)
(* What ModelLoader promises whoever builds a model on it (StableDiffusion-*)
(* GGML::init, ESRGAN::load_from_file): weights are filled in until the    *)
(* call returns and never touched afterwards, and a call that returns true *)
(* has filled every weight the model asked for from the file the loader    *)
(* had indexed it in.                                                      *)
(***************************************************************************)
EXTENDS Integers

CONSTANTS Names, Sources, Unset, Garbage

VARIABLES
  asked,    \* the weights the model asks for
  sources,  \* for each name that was indexed, the file it was indexed in
  weights,  \* what each weight holds: the file its data came from
  result    \* "none" until the call returns

vars == <<asked, sources, weights, result>>

Init ==
  /\ asked = {}
  /\ sources = [t \in {} |-> Unset]
  /\ weights = [t \in Names |-> Unset]
  /\ result = "none"

\* Files are indexed, and the model says what it needs.
Index ==
  /\ result = "none"
  /\ \A t \in Names : weights[t] = Unset
  /\ asked' \in SUBSET Names
  /\ \E S \in SUBSET Names : sources' \in [S -> Sources]
  /\ UNCHANGED <<weights, result>>

Fill(t) ==
  /\ result = "none"
  /\ t \in asked \cap DOMAIN sources
  /\ \E v \in {sources[t], Garbage} : weights' = [weights EXCEPT ![t] = v]
  /\ UNCHANGED <<asked, sources, result>>

AllFilled ==
  \A t \in asked : t \in DOMAIN sources /\ weights[t] = sources[t]

Return ==
  /\ result = "none"
  /\ \/ result' = "true" /\ AllFilled
     \/ result' = "false"
  /\ UNCHANGED <<asked, sources, weights>>

Next == Index \/ (\E t \in Names : Fill(t)) \/ Return

Spec == Init /\ [][Next]_vars
=============================================================================
