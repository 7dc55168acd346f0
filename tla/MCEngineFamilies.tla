------------------------- MODULE MCEngineFamilies --------------------------
(***************************************************************************)
(* Two families of clients in one run of Engine: the first varies models,  *)
(* prompts and upscaling with at most one reference image, the second the  *)
(* arrays of references, on one model.  Each leaves alone what the other   *)
(* varies: the product of the two is beyond TLC.                           *)
(***************************************************************************)
EXTENDS MCEngine

CONSTANT m1

VARIABLE family

RefsOf == [models |-> OneRef, references |-> DistinctRefs]

\* The one file that is edited
Edited == {p1}

\* A step that the family's clients can cause
Asked ==
  /\ UNCHANGED family
  /\ req'.refs \in RefsOf[family]
  /\ \A p \in Paths \ Edited : disk'[p] = disk[p]
  /\ family = "references" =>
       req'.prompt = Null /\ req'.repeats = 0 /\ ctx' \in {Null, m1}

FamilyInit == Init /\ family \in DOMAIN RefsOf

FamilyNext == Next /\ Asked

\* Every step of Handle has an outcome that a family allows, so this is the
\* fairness of Engine's FairSpec.
FamilySpec ==
  FamilyInit /\ [][FamilyNext]_<<family, vars>>
    /\ WF_<<family, vars>>(Handle /\ Asked)
=============================================================================
