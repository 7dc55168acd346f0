---------------------------- MODULE LoaderProofs ----------------------------
(***************************************************************************)
(* Proofs about Loader: a load that returns true has filled every weight,  *)
(* no tensor is handled by two threads, the abstract promise of module     *)
(* Weights is kept, and progress only grows, for any number of threads,    *)
(* files and tensors.                                                      *)
(***************************************************************************)
EXTENDS Loader, FiniteSetTheorems, TLAPS

-----------------------------------------------------------------------------
(* The inductive invariant *)

\* Each tensor is filed under the position of the file it was found in.
Indexed ==
  \A t \in DOMAIN storage :
    /\ storage[t].at \in 1 .. Len(paths)
    /\ storage[t].of = paths[storage[t].at]

\* Nothing has been loaded before load_tensors.
Untouched ==
  loaderPc \in {"index", "create"} =>
    /\ names = {} /\ file = 1 /\ success
    /\ held = [t \in Names |-> Unset]

\* How the main thread's position, the workers and the outcome belong together.
Phase ==
  /\ loaderPc \notin {"poll", "join", "crashed"} => AllJoined
  /\ loaderPc \in {"file", "poll", "join"} => success
  /\ loaderPc \in {"verdict", "done"} /\ success /\ returned # "false" => file > Len(paths)
  /\ returned # "none" => loaderPc = "done"

\* The queue lists the tensors of the file being read, each once.
QueueMatches ==
  loaderPc \in {"poll", "join", "crashed"} =>
    /\ file <= Len(paths)
    /\ Len(queue) > 0
    /\ \A t \in TensorsAt(file) : \E k \in 1 .. Len(queue) : queue[k] = t
    /\ \A k \in 1 .. Len(queue) : queue[k] \in TensorsAt(file)
    /\ \A j, k \in 1 .. Len(queue) : queue[j] = queue[k] => j = k

Holding(w) == worker[w] \in {"check", "tensor", "read"}

\* What a worker holds was claimed by no other; a worker only ends when there
\* is nothing left to claim or something failed.
WorkersApart ==
  loaderPc \in {"poll", "join", "crashed"} =>
    /\ \A w \in Workers : Holding(w) => claimed[w] < next
    /\ \A w \in Workers : worker[w] \in {"tensor", "read"} => claimed[w] < Len(queue)
    /\ \A w \in Workers :
         worker[w] = "read" => TensorOf(w) \in wanted /\ TensorOf(w) \in names
    /\ \A w \in Workers : worker[w] = "exited" => failed \/ next >= Len(queue)
    /\ \A v, w \in Workers :
         v # w /\ Holding(v) /\ Holding(w) => claimed[v] # claimed[w]
    /\ worker[1] # "off"

\* A tensor that needs no more work.
Settled(t) ==
  t \in names /\ (t \in wanted => held[t] = storage[t].of)

\* Tensors that were claimed are settled, or a worker is at them, or there was
\* a failure; the tensors of earlier files are settled.
QueueSettled ==
  loaderPc \in {"poll", "join", "crashed"} =>
    \A k \in 1 .. Len(queue) :
      k <= next =>
        failed \/ Settled(queue[k])
          \/ \E w \in Workers : Holding(w) /\ claimed[w] + 1 = k

FilesSettled ==
  loaderPc # "crashed" =>
    \A t \in DOMAIN storage : storage[t].at < file => Settled(t)

Inv ==
  /\ LoaderTypeOK
  /\ Indexed
  /\ Untouched
  /\ Phase
  /\ QueueMatches
  /\ WorkersApart
  /\ QueueSettled
  /\ FilesSettled
  /\ names \subseteq DOMAIN storage
  /\ TrueMeansLoaded

-----------------------------------------------------------------------------
(* Type correctness *)

\* An element of a sequence.
LEMMA ElementType ==
  ASSUME NEW S, NEW s \in Seq(S), NEW i \in 1 .. Len(s)
  PROVE  s[i] \in S
OBVIOUS

\* A file has finitely many tensors, and a queue lists them all.
LEMMA QueueType ==
  ASSUME LoaderTypeOK, NEW k, NEW q \in Orders(TensorsAt(k))
  PROVE  /\ q \in Seq(Names)
         /\ \A t \in TensorsAt(k) : \E j \in 1 .. Len(q) : q[j] = t
         /\ \A j \in 1 .. Len(q) : q[j] \in TensorsAt(k)
         /\ \A i, j \in 1 .. Len(q) : q[i] = q[j] => i = j
         /\ TensorsAt(k) # {} => Len(q) > 0
<1>. DEFINE S == TensorsAt(k)
            n == Cardinality(S)
<1>1. S \subseteq Names
  BY DEF LoaderTypeOK, TensorsAt
<1>2. n \in Nat
  BY <1>1, LoaderAssumption, FS_Subset, FS_CardinalityType
<1>3. q \in [1 .. n -> S] /\ (\A t \in S : \E j \in DOMAIN q : q[j] = t)
      /\ (\A i, j \in DOMAIN q : q[i] = q[j] => i = j)
  BY DEF Orders
<1>4. q \in Seq(Names) /\ Len(q) = n /\ DOMAIN q = 1 .. n
  <2>. HIDE DEF S, n
  <2>. QED
    BY <1>1, <1>2, <1>3
<1>. QED
  <2>. HIDE DEF S, n
  <2>1. S # {} => Len(q) > 0
    BY <1>2, <1>3, <1>4
  <2>. QED
    BY <1>3, <1>4, <2>1 DEF S

\* The name of the tensor a worker holds.
LEMMA TensorOfType ==
  ASSUME LoaderTypeOK, WorkersApart, loaderPc \in {"poll", "join"},
         NEW w \in Workers, worker[w] \in {"tensor", "read"}
  PROVE  claimed[w] + 1 \in 1 .. Len(queue) /\ TensorOf(w) \in Names
<1>1. claimed[w] \in Nat /\ claimed[w] < Len(queue) /\ Len(queue) \in Nat
  BY DEF LoaderTypeOK, WorkersApart
<1>2. claimed[w] + 1 \in 1 .. Len(queue)
  BY <1>1
<1>. QED
  BY <1>2 DEF LoaderTypeOK, TensorOf

\* A worker only moves while its file is being read.
LEMMA WorkingPhase ==
  ASSUME Phase, NEW w \in Workers, loaderPc # "crashed",
         worker[w] \notin {"off", "exited"}
  PROVE  loaderPc \in {"poll", "join"}
BY DEF Phase, AllJoined

\* The initial state satisfies the invariant.
LEMMA InitInv == LoaderInit => Inv
<1>. SUFFICES ASSUME LoaderInit PROVE Inv
  OBVIOUS
<1>. USE LoaderAssumption DEF LoaderInit
<1>1. LoaderTypeOK
  <2>1. storage \in [DOMAIN storage -> [at : Nat, of : 1 .. MaxCalls]]
        /\ DOMAIN storage \subseteq Names
    OBVIOUS
  <2>2. paths \in Seq(1 .. MaxCalls) /\ queue \in Seq(Names) /\ nextCall \in 1 .. MaxCalls + 1
    OBVIOUS
  <2>3. worker \in [Workers -> {"off", "open", "claim", "check", "tensor", "read",
                                "exited"}]
        /\ claimed \in [Workers -> Nat]
    OBVIOUS
  <2>4. held \in [Names -> {Unset, Damaged} \cup 1 .. MaxCalls]
    OBVIOUS
  <2>5. /\ loaderPc = "index" /\ wanted \subseteq Names /\ names \subseteq Names
        /\ file \in Nat \ {0} /\ total \in Nat /\ shownProgress \in Nat /\ next \in Nat
        /\ returned = "none"
    OBVIOUS
  <2>6. failed \in BOOLEAN /\ success \in BOOLEAN
    OBVIOUS
  <2>. HIDE DEF LoaderInit
  <2>. QED
    BY <2>1, <2>2, <2>3, <2>4, <2>5, <2>6 DEF LoaderTypeOK
<1>2. Phase
  BY DEF Phase, AllJoined
<1>. QED
  BY <1>1, <1>2 DEF Inv, Indexed, Untouched, QueueMatches, WorkersApart,
     QueueSettled, FilesSettled, TrueMeansLoaded

\* The type invariant is preserved.
LEMMA TypeStep ==
  ASSUME Inv, [LoaderNext]_loaderVars
  PROVE  LoaderTypeOK'
<1>. USE DEF Inv
<1>1. CASE IndexFile
  <2>1. CASE UNCHANGED <<paths, storage>>
    BY <1>1, <2>1, LoaderAssumption DEF IndexFile, LoaderTypeOK, sharedVars, mainVars, workerVars
  <2>2. CASE ~UNCHANGED <<paths, storage>>
    <3>1. PICK S \in SUBSET Names :
            /\ paths' = Append(paths, nextCall)
            /\ storage' = [t \in DOMAIN storage \cup S |->
                             IF t \in S THEN [at |-> NewPosition, of |-> nextCall]
                                        ELSE storage[t]]
      BY <1>1, <2>2 DEF IndexFile
    <3>2. nextCall \in 1 .. MaxCalls /\ NewPosition \in Nat
      BY <1>1, LoaderAssumption DEF IndexFile, LoaderTypeOK, NewPosition
    <3>3. paths' \in Seq(1 .. MaxCalls)
      BY <3>1, <3>2 DEF LoaderTypeOK
    <3>4. DOMAIN storage' \subseteq Names
          /\ storage' \in [DOMAIN storage' -> [at : Nat, of : 1 .. MaxCalls]]
      BY <3>1, <3>2 DEF LoaderTypeOK
    <3>. QED
      BY <1>1, <3>2, <3>3, <3>4, LoaderAssumption
      DEF IndexFile, LoaderTypeOK, sharedVars, mainVars, workerVars
  <2>. QED
    BY <2>1, <2>2
<1>2. CASE ConvertNames
  BY <1>2 DEF ConvertNames, LoaderTypeOK, sharedVars, mainVars, workerVars
<1>3. CASE CreateWeights
  BY <1>3 DEF CreateWeights, LoaderTypeOK, sharedVars, workerVars
<1>4. CASE SkipFile
  BY <1>4 DEF SkipFile, LoaderTypeOK, indexVars, sharedVars, workerVars
<1>5. CASE StartWorkers
  <2>1. queue' \in Seq(Names)
    BY <1>5, QueueType DEF StartWorkers
  <2>. QED
    BY <1>5, <2>1 DEF StartWorkers, LoaderTypeOK, indexVars
<1>6. CASE Poll
  BY <1>6 DEF Poll, ProgressOf, LoaderTypeOK, indexVars, sharedVars, workerVars
<1>7. CASE Join
  <2>1. Len(queue) \in Nat /\ total \in Nat /\ file \in Nat \ {0}
    BY DEF LoaderTypeOK
  <2>2. total + Len(queue) \in Nat /\ file + 1 \in Nat \ {0}
    BY <2>1
  <2>3. /\ loaderPc' \in {"verdict", "file"} /\ total' \in Nat /\ shownProgress' \in Nat
        /\ file' \in Nat \ {0} /\ success' \in BOOLEAN
    BY <1>7, <2>2 DEF Join, LoaderTypeOK
  <2>. QED
    BY <1>7, <2>3 DEF Join, LoaderTypeOK, indexVars, sharedVars, workerVars
<1>8. CASE NoMoreFiles
  BY <1>8 DEF NoMoreFiles, LoaderTypeOK, indexVars, sharedVars, mainVars, workerVars
<1>9. CASE Verdict
  BY <1>9 DEF Verdict, LoaderTypeOK, indexVars, sharedVars, workerVars
<1>10. ASSUME NEW w \in Workers, OpenFile(w)
       PROVE  LoaderTypeOK'
  BY <1>10 DEF OpenFile, GiveUp, GoTo, LoaderTypeOK, indexVars, mainVars
<1>11. ASSUME NEW w \in Workers, Claim(w)
       PROVE  LoaderTypeOK'
  BY <1>11 DEF Claim, FetchAdd, GoTo, LoaderTypeOK, indexVars, mainVars
<1>12. ASSUME NEW w \in Workers, Check(w)
       PROVE  LoaderTypeOK'
  BY <1>12 DEF Check, GoTo, LoaderTypeOK, indexVars, sharedVars, mainVars
<1>13. ASSUME NEW w \in Workers, Tensor(w)
       PROVE  LoaderTypeOK'
  <2>1. TensorOf(w) \in Names
    BY <1>13, WorkingPhase, TensorOfType DEF Tensor
  <2>. QED
    BY <1>13, <2>1 DEF Tensor, GiveUp, GoTo, LoaderTypeOK, indexVars, mainVars
<1>14. ASSUME NEW w \in Workers, Read(w)
       PROVE  LoaderTypeOK'
  <2>1. loaderPc \in {"poll", "join"}
    BY <1>14, WorkingPhase DEF Read
  <2>2. file \in 1 .. Len(paths) /\ paths \in Seq(1 .. MaxCalls)
    BY <2>1 DEF QueueMatches, LoaderTypeOK
  <2>3. paths[file] \in 1 .. MaxCalls
    <3>. HIDE DEF Inv
    <3>. QED
      BY <2>2, ElementType
  <2>. QED
    BY <1>14, <2>3 DEF Read, GoTo, LoaderTypeOK, indexVars, mainVars
<1>15. ASSUME NEW w \in Workers, Crash(w)
       PROVE  LoaderTypeOK'
  BY <1>15 DEF Crash, LoaderTypeOK, indexVars, sharedVars, mainVars, workerVars
<1>16. CASE UNCHANGED loaderVars
  BY <1>16 DEF loaderVars, LoaderTypeOK, indexVars, sharedVars, mainVars, workerVars
<1>17. CASE IndexCrash
  BY <1>17 DEF IndexCrash, LoaderTypeOK, indexVars, sharedVars, mainVars, workerVars
<1>. QED
  BY <1>1, <1>2, <1>3, <1>4, <1>5, <1>6, <1>7, <1>8, <1>9, <1>10, <1>11, <1>12,
     <1>13, <1>14, <1>15, <1>16, <1>17
  DEF LoaderNext, Main, Work, LoaderEnded

-----------------------------------------------------------------------------
(* The worker threads *)

Places == {"off", "open", "claim", "check", "tensor", "read", "exited"}

\* Where a worker that moves is, and the types its step relies on.
LEMMA Working ==
  ASSUME Inv, NEW w \in Workers, loaderPc # "crashed", worker[w] \notin {"off", "exited"}
  PROVE  /\ loaderPc \in {"poll", "join"}
         /\ worker \in [Workers -> Places] /\ claimed \in [Workers -> Nat]
         /\ next \in Nat /\ Len(queue) \in Nat /\ queue \in Seq(Names)
<1>1. loaderPc \in {"poll", "join"}
  BY WorkingPhase DEF Inv
<1>2. queue \in Seq(Names) /\ next \in Nat /\ claimed \in [Workers -> Nat]
      /\ worker \in [Workers -> {"off", "open", "claim", "check", "tensor", "read",
                                 "exited"}]
  BY DEF Inv, LoaderTypeOK
<1>3. Len(queue) \in Nat
  BY <1>2
<1>. QED
  BY <1>1, <1>2, <1>3 DEF Places

\* What a worker's step leaves alone keeps half of the invariant.
LEMMA WorkLeaves ==
  ASSUME Inv, loaderPc \in {"poll", "join"}, UNCHANGED <<loaderPc, indexVars, mainVars>>
  PROVE  Indexed' /\ Untouched' /\ Phase' /\ QueueMatches' /\ TrueMeansLoaded'
<1>1. Indexed' /\ Untouched' /\ Phase'
  BY DEF Inv, Indexed, Untouched, Phase, indexVars, mainVars
<1>2. TensorsAt(file)' = TensorsAt(file)
  BY DEF TensorsAt, indexVars, mainVars
<1>3. QueueMatches'
  BY <1>2 DEF Inv, QueueMatches, indexVars, mainVars
<1>4. TrueMeansLoaded'
  BY DEF Inv, Phase, TrueMeansLoaded, mainVars
<1>. QED
  BY <1>1, <1>3, <1>4

\* A settled tensor stays settled while names grow and weights stay.
LEMMA SettledStays ==
  ASSUME UNCHANGED <<wanted, held, storage>>, names \subseteq names',
         NEW t, Settled(t)
  PROVE  Settled(t)'
BY DEF Settled

\* The steps that leave names and weights alone keep what is settled.
LEMMA OpenStep ==
  ASSUME Inv, NEW w \in Workers, OpenFile(w)
  PROVE  WorkersApart' /\ QueueSettled' /\ FilesSettled' /\ (names \subseteq DOMAIN storage)'
<1>1. loaderPc \in {"poll", "join"} /\ worker \in [Workers -> Places]
  BY Working DEF OpenFile
<1>2. \A v \in Workers : v # w => worker'[v] = worker[v]
  BY <1>1 DEF OpenFile, GoTo, GiveUp
<1>3. worker'[w] \in {"claim", "exited"} /\ (worker'[w] = "exited" => failed')
  BY <1>1 DEF OpenFile, GoTo, GiveUp
<1>4. ~Holding(w) /\ (failed => failed')
  BY DEF OpenFile, Holding, GiveUp
<1>5. WorkersApart'
  <2>1. \A v \in Workers : Holding(v)' => Holding(v) /\ v # w
    BY <1>2, <1>3 DEF Holding
  <2>2. 1 \in Workers /\ worker'[1] # "off"
    BY <1>1, <1>2, <1>3, LoaderAssumption DEF Inv, WorkersApart, Workers
  <2>. QED
    BY <1>1, <1>2, <1>3, <1>4, <2>1, <2>2
    DEF Inv, WorkersApart, OpenFile, indexVars, mainVars, TensorOf, Holding
<1>6. QueueSettled'
  <2>1. \A v \in Workers : Holding(v) => Holding(v)'
    BY <1>2, <1>4 DEF Holding
  <2>. QED
    BY <1>1, <1>4, <2>1, SettledStays
    DEF Inv, QueueSettled, OpenFile, indexVars, mainVars
<1>7. FilesSettled'
  BY SettledStays DEF Inv, FilesSettled, OpenFile, indexVars, mainVars
<1>. QED
  BY <1>5, <1>6, <1>7 DEF Inv, OpenFile, indexVars

\* The counter moves past the tensor that is claimed.
LEMMA ClaimStep ==
  ASSUME Inv, NEW w \in Workers, Claim(w)
  PROVE  WorkersApart' /\ QueueSettled' /\ FilesSettled' /\ (names \subseteq DOMAIN storage)'
<1>1. loaderPc \in {"poll", "join"} /\ worker \in [Workers -> Places]
      /\ claimed \in [Workers -> Nat] /\ next \in Nat /\ Len(queue) \in Nat
  BY Working DEF Claim
<1>2. \A v \in Workers : v # w => worker'[v] = worker[v] /\ claimed'[v] = claimed[v]
  BY <1>1 DEF Claim, GoTo, FetchAdd
<1>3. worker'[w] = "check" /\ claimed'[w] = next /\ next' = next + 1
  BY <1>1 DEF Claim, GoTo, FetchAdd
<1>4. ~Holding(w)
  BY DEF Claim, Holding
<1>5. WorkersApart'
  <2>1. \A v \in Workers : Holding(v)' => v = w \/ Holding(v)
    BY <1>2 DEF Holding
  <2>2. \A v \in Workers : Holding(v)' => claimed'[v] < next'
    BY <1>1, <1>2, <1>3, <2>1 DEF Inv, WorkersApart
  <2>3. \A u, v \in Workers :
          u # v /\ Holding(u)' /\ Holding(v)' => claimed'[u] # claimed'[v]
    BY <1>1, <1>2, <1>3, <2>1 DEF Inv, WorkersApart
  <2>4. 1 \in Workers /\ worker'[1] # "off"
    BY <1>1, <1>2, <1>3, LoaderAssumption DEF Inv, WorkersApart, Workers
  <2>5. \A v \in Workers :
          /\ worker'[v] \in {"tensor", "read"} => claimed'[v] < Len(queue)
          /\ worker'[v] = "read" => queue[claimed'[v] + 1] \in wanted
                                    /\ queue[claimed'[v] + 1] \in names
          /\ worker'[v] = "exited" => failed \/ next' >= Len(queue)
    BY <1>1, <1>2, <1>3 DEF Inv, WorkersApart, TensorOf
  <2>. QED
    BY <2>2, <2>3, <2>4, <2>5
    DEF WorkersApart, Claim, indexVars, mainVars, TensorOf
<1>6. QueueSettled'
  <2>. SUFFICES ASSUME NEW k \in 1 .. Len(queue), k <= next', ~failed, ~Settled(queue[k])
                PROVE  \E v \in Workers : Holding(v)' /\ claimed'[v] + 1 = k
    BY SettledStays DEF QueueSettled, Claim, indexVars, mainVars
  <2>1. CASE k = next + 1
    BY <1>3, <2>1 DEF Holding
  <2>2. CASE k <= next
    <3>1. PICK v \in Workers : Holding(v) /\ claimed[v] + 1 = k
      BY <1>1, <2>2 DEF Inv, QueueSettled
    <3>. QED
      BY <1>2, <1>4, <3>1 DEF Holding
  <2>. QED
    BY <1>1, <1>3, <2>1, <2>2
<1>7. FilesSettled'
  BY SettledStays DEF Inv, FilesSettled, Claim, indexVars, mainVars
<1>. QED
  BY <1>5, <1>6, <1>7 DEF Inv, Claim, indexVars

\* A worker that stops has seen the end of the queue or a failure.
LEMMA CheckStep ==
  ASSUME Inv, NEW w \in Workers, Check(w)
  PROVE  WorkersApart' /\ QueueSettled' /\ FilesSettled' /\ (names \subseteq DOMAIN storage)'
<1>1. loaderPc \in {"poll", "join"} /\ worker \in [Workers -> Places]
      /\ claimed \in [Workers -> Nat] /\ next \in Nat /\ Len(queue) \in Nat
  BY Working DEF Check
<1>2. \A v \in Workers : v # w => worker'[v] = worker[v]
  BY <1>1 DEF Check, GoTo
<1>3. /\ worker'[w] \in {"exited", "tensor"}
      /\ worker'[w] = "exited" => claimed[w] >= Len(queue) \/ failed
      /\ worker'[w] = "tensor" => claimed[w] < Len(queue) /\ ~failed
  BY <1>1 DEF Check, GoTo
<1>4. Holding(w) /\ claimed[w] < next
  BY <1>1 DEF Check, Holding, Inv, WorkersApart
<1>5. WorkersApart'
  <2>1. \A v \in Workers : Holding(v)' => Holding(v)
    BY <1>2, <1>4 DEF Holding
  <2>2. 1 \in Workers /\ worker'[1] # "off"
    BY <1>1, <1>2, <1>3, LoaderAssumption DEF Inv, WorkersApart, Workers
  <2>3. \A v \in Workers :
          /\ worker'[v] \in {"tensor", "read"} => claimed[v] < Len(queue)
          /\ worker'[v] = "read" => queue[claimed[v] + 1] \in wanted
                                    /\ queue[claimed[v] + 1] \in names
          /\ worker'[v] = "exited" => failed \/ next >= Len(queue)
    BY <1>1, <1>2, <1>3, <1>4 DEF Inv, WorkersApart, TensorOf
  <2>. QED
    BY <1>1, <2>1, <2>2, <2>3
    DEF Inv, WorkersApart, Check, indexVars, sharedVars, mainVars, TensorOf
<1>6. QueueSettled'
  <2>. SUFFICES ASSUME NEW k \in 1 .. Len(queue), k <= next, ~failed, ~Settled(queue[k])
                PROVE  \E v \in Workers : Holding(v)' /\ claimed[v] + 1 = k
    BY SettledStays DEF QueueSettled, Check, indexVars, sharedVars, mainVars
  <2>1. PICK v \in Workers : Holding(v) /\ claimed[v] + 1 = k
    BY <1>1 DEF Inv, QueueSettled
  <2>2. v = w => worker'[w] = "tensor"
    BY <1>1, <1>3, <2>1
  <2>. QED
    BY <1>2, <2>1, <2>2 DEF Holding
<1>7. FilesSettled'
  BY SettledStays DEF Inv, FilesSettled, Check, indexVars, mainVars
<1>. QED
  BY <1>5, <1>6, <1>7 DEF Inv, Check, indexVars

\* The name of a claimed tensor is noted; the model may not ask for it.
LEMMA TensorStep ==
  ASSUME Inv, NEW w \in Workers, Tensor(w)
  PROVE  WorkersApart' /\ QueueSettled' /\ FilesSettled' /\ (names \subseteq DOMAIN storage)'
<1>1. loaderPc \in {"poll", "join"} /\ worker \in [Workers -> Places]
      /\ claimed \in [Workers -> Nat] /\ next \in Nat /\ Len(queue) \in Nat
  BY Working DEF Tensor
<1>2. \A v \in Workers : v # w => worker'[v] = worker[v]
  BY <1>1 DEF Tensor, GoTo, GiveUp
<1>3. /\ worker'[w] \in {"claim", "read", "exited"}
      /\ worker'[w] = "exited" => failed'
      /\ worker'[w] = "read" => TensorOf(w) \in wanted
      /\ worker'[w] = "claim" => TensorOf(w) \notin wanted
      /\ failed => failed'
  BY <1>1 DEF Tensor, GoTo, GiveUp
<1>4. Holding(w) /\ claimed[w] < next /\ claimed[w] < Len(queue)
  BY <1>1 DEF Tensor, Holding, Inv, WorkersApart
<1>5. names' = names \cup {TensorOf(w)} /\ TensorOf(w) = queue[claimed[w] + 1]
  BY DEF Tensor, TensorOf
<1>6. WorkersApart'
  <2>1. \A v \in Workers : Holding(v)' => Holding(v)
    BY <1>2, <1>4 DEF Holding
  <2>2. 1 \in Workers /\ worker'[1] # "off"
    BY <1>1, <1>2, <1>3, LoaderAssumption DEF Inv, WorkersApart, Workers
  <2>3. \A v \in Workers :
          /\ worker'[v] \in {"tensor", "read"} => claimed[v] < Len(queue)
          /\ worker'[v] = "read" => queue[claimed[v] + 1] \in wanted
                                    /\ queue[claimed[v] + 1] \in names'
          /\ worker'[v] = "exited" => failed' \/ next >= Len(queue)
    BY <1>1, <1>2, <1>3, <1>4, <1>5 DEF Inv, WorkersApart, TensorOf
  <2>. QED
    BY <1>1, <2>1, <2>2, <2>3
    DEF Inv, WorkersApart, Tensor, indexVars, mainVars, TensorOf
<1>7. QueueSettled'
  <2>. SUFFICES ASSUME NEW k \in 1 .. Len(queue), k <= next, ~failed', ~Settled(queue[k])'
                PROVE  \E v \in Workers : Holding(v)' /\ claimed[v] + 1 = k
    BY DEF QueueSettled, Tensor, indexVars, mainVars
  <2>1. ~failed /\ ~Settled(queue[k])
    BY <1>3, <1>5, SettledStays DEF Tensor, indexVars, mainVars
  <2>2. PICK v \in Workers : Holding(v) /\ claimed[v] + 1 = k
    BY <1>1, <2>1 DEF Inv, QueueSettled
  <2>3. CASE v # w
    BY <1>2, <2>2, <2>3 DEF Holding
  <2>4. CASE v = w
    <3>1. Settled(queue[k])' \/ queue[k] \in wanted
      BY <1>5, <2>2, <2>4 DEF Settled, Tensor, indexVars, mainVars
    <3>2. worker'[w] = "read"
      BY <1>3, <1>5, <2>2, <2>4, <3>1
    <3>. QED
      BY <2>2, <2>4, <3>2 DEF Holding
  <2>. QED
    BY <2>3, <2>4
<1>8. FilesSettled'
  BY <1>5, SettledStays DEF Inv, FilesSettled, Tensor, indexVars, mainVars
<1>9. TensorOf(w) \in DOMAIN storage
  <2>1. claimed[w] + 1 \in 1 .. Len(queue)
    BY <1>1, <1>4
  <2>. QED
    BY <1>1, <1>5, <2>1 DEF Inv, QueueMatches, TensorsAt
<1>. QED
  BY <1>5, <1>6, <1>7, <1>8, <1>9 DEF Inv, Tensor, indexVars

\* A weight is filled from the file that is open, which is the one its tensor
\* was indexed in, and no earlier file's weight is touched.
LEMMA ReadStep ==
  ASSUME Inv, NEW w \in Workers, Read(w)
  PROVE  WorkersApart' /\ QueueSettled' /\ FilesSettled' /\ (names \subseteq DOMAIN storage)'
<1>. DEFINE t == TensorOf(w)
<1>1. loaderPc \in {"poll", "join"} /\ worker \in [Workers -> Places]
      /\ claimed \in [Workers -> Nat] /\ next \in Nat /\ Len(queue) \in Nat
  BY Working DEF Read
<1>2. \A v \in Workers : v # w => worker'[v] = worker[v]
  BY <1>1 DEF Read, GoTo
<1>3. worker'[w] = "claim" /\ (failed => failed')
  BY <1>1 DEF Read, GoTo
<1>4. /\ Holding(w) /\ claimed[w] < next /\ claimed[w] < Len(queue)
      /\ t \in wanted /\ t \in names
  BY <1>1 DEF Read, Holding, Inv, WorkersApart
<1>5. t = queue[claimed[w] + 1] /\ claimed[w] + 1 \in 1 .. Len(queue)
  BY <1>1, <1>4 DEF TensorOf
<1>6. t \in DOMAIN storage /\ t \in Names /\ storage[t].at = file /\ storage[t].of = paths[file]
  BY <1>1, <1>5 DEF Inv, QueueMatches, TensorsAt, Indexed, LoaderTypeOK
<1>7. /\ \A u \in Names : u # t => held'[u] = held[u]
      /\ ~failed' => held'[t] = storage[t].of
  BY <1>6 DEF Read, Inv, LoaderTypeOK
<1>8. WorkersApart'
  <2>1. \A v \in Workers : Holding(v)' => Holding(v)
    BY <1>2, <1>4 DEF Holding
  <2>2. 1 \in Workers /\ worker'[1] # "off"
    BY <1>1, <1>2, <1>3, LoaderAssumption DEF Inv, WorkersApart, Workers
  <2>3. \A v \in Workers :
          /\ worker'[v] \in {"tensor", "read"} => claimed[v] < Len(queue)
          /\ worker'[v] = "read" => queue[claimed[v] + 1] \in wanted
                                    /\ queue[claimed[v] + 1] \in names
          /\ worker'[v] = "exited" => failed' \/ next >= Len(queue)
    BY <1>1, <1>2, <1>3 DEF Inv, WorkersApart, TensorOf
  <2>. QED
    BY <1>1, <2>1, <2>2, <2>3
    DEF Inv, WorkersApart, Read, indexVars, mainVars, TensorOf
<1>9. QueueSettled'
  <2>. SUFFICES ASSUME NEW k \in 1 .. Len(queue), k <= next, ~failed', ~Settled(queue[k])'
                PROVE  \E v \in Workers : Holding(v)' /\ claimed[v] + 1 = k
    BY DEF QueueSettled, Read, indexVars, mainVars
  <2>1. queue[k] # t
    BY <1>4, <1>6, <1>7 DEF Settled, Read, indexVars, mainVars
  <2>2. queue[k] \in Names
    BY <1>1, ElementType DEF Inv, LoaderTypeOK
  <2>3. ~failed /\ ~Settled(queue[k])
    BY <1>3, <1>7, <2>1, <2>2 DEF Settled, Read, indexVars, mainVars
  <2>4. PICK v \in Workers : Holding(v) /\ claimed[v] + 1 = k
    BY <1>1, <2>3 DEF Inv, QueueSettled
  <2>5. v # w
    BY <1>5, <2>1, <2>4
  <2>. QED
    BY <1>2, <2>4, <2>5 DEF Holding
<1>10. FilesSettled'
  <2>. SUFFICES ASSUME NEW u \in DOMAIN storage, storage[u].at < file
                PROVE  Settled(u)'
    BY DEF FilesSettled, Read, indexVars, mainVars
  <2>1. u # t /\ u \in Names
    BY <1>1, <1>6 DEF Inv, LoaderTypeOK
  <2>2. Settled(u)
    BY <1>1 DEF Inv, FilesSettled
  <2>. QED
    BY <1>7, <2>1, <2>2 DEF Settled, Read, indexVars
<1>. QED
  BY <1>8, <1>9, <1>10 DEF Inv, Read, indexVars

\* A crash stops every thread.
LEMMA CrashStep ==
  ASSUME Inv, NEW w \in Workers, Crash(w), LoaderTypeOK'
  PROVE  Inv'
<1>1. /\ loaderPc' = "crashed" /\ loaderPc \in {"poll", "join"} /\ returned' = "none" /\ returned = "none"
      /\ UNCHANGED <<paths, storage, names, held, wanted, file, queue, next, failed,
                     worker, claimed, success>>
  BY Working DEF Crash, indexVars, sharedVars, mainVars, workerVars, Inv, Phase
<1>2. TensorsAt(file)' = TensorsAt(file)
  BY <1>1 DEF TensorsAt
<1>3. Indexed' /\ Untouched' /\ Phase' /\ QueueMatches'
  BY <1>1, <1>2 DEF Inv, Indexed, Untouched, Phase, QueueMatches
<1>4. WorkersApart'
  BY <1>1 DEF Inv, WorkersApart, Holding, TensorOf
<1>5. QueueSettled'
  BY <1>1 DEF Inv, QueueSettled, Holding, Settled
<1>6. FilesSettled' /\ (names \subseteq DOMAIN storage)' /\ TrueMeansLoaded'
  BY <1>1 DEF Inv, FilesSettled, TrueMeansLoaded
<1>. QED
  BY <1>3, <1>4, <1>5, <1>6 DEF Inv

-----------------------------------------------------------------------------
(* The main thread *)

\* Outside load_tensors' loop over a file the invariants of the workers are
\* empty.
LEMMA NoQueue ==
  ASSUME loaderPc' \notin {"poll", "join", "crashed"}
  PROVE  QueueMatches' /\ WorkersApart' /\ QueueSettled'
BY DEF QueueMatches, WorkersApart, QueueSettled

\* Indexing keeps the positions of the tensors right.
LEMMA IndexStep ==
  ASSUME Inv, IndexFile, LoaderTypeOK'
  PROVE  Inv'
<1>1. loaderPc = "index" /\ loaderPc' = loaderPc /\ names = {} /\ file = 1 /\ file' = file
      /\ UNCHANGED <<names, held, wanted, worker, success, returned>>
  BY DEF Inv, Untouched, IndexFile, mainVars, workerVars
<1>2. Indexed'
  <2>1. CASE UNCHANGED <<paths, storage>>
    BY <2>1 DEF Inv, Indexed
  <2>2. CASE ~UNCHANGED <<paths, storage>>
    <3>1. PICK S \in SUBSET Names :
            /\ paths' = Append(paths, nextCall)
            /\ storage' = [t \in DOMAIN storage \cup S |->
                             IF t \in S THEN [at |-> NewPosition, of |-> nextCall]
                                        ELSE storage[t]]
      BY <2>2 DEF IndexFile
    <3>2. paths \in Seq(1 .. MaxCalls) /\ nextCall \in 1 .. MaxCalls
      BY LoaderAssumption DEF IndexFile, Inv, LoaderTypeOK
    <3>3. /\ Len(paths') = Len(paths) + 1
          /\ Len(paths) \in Nat
          /\ paths'[Len(paths) + 1] = nextCall
          /\ \A k \in 1 .. Len(paths) : paths'[k] = paths[k]
      BY <3>1, <3>2
    <3>4. ASSUME NEW t \in DOMAIN storage'
          PROVE  storage'[t].at \in 1 .. Len(paths')
                 /\ storage'[t].of = paths'[storage'[t].at]
      <4>1. CASE t \in S
        BY <3>1, <3>3, <4>1 DEF NewPosition
      <4>2. CASE t \notin S
        <5>1. t \in DOMAIN storage /\ storage'[t] = storage[t]
          BY <3>1, <4>2
        <5>. QED
          BY <3>3, <5>1 DEF Inv, Indexed
      <4>. QED
        BY <4>1, <4>2
    <3>. QED
      BY <3>4 DEF Indexed
  <2>. QED
    BY <2>1, <2>2
<1>3. FilesSettled'
  BY <1>1, <1>2 DEF FilesSettled, Indexed
<1>4. Untouched' /\ Phase'
  BY <1>1 DEF Inv, Untouched, Phase, AllJoined
<1>. QED
  BY <1>1, <1>2, <1>3, <1>4, NoQueue DEF Inv, TrueMeansLoaded, Phase

\* A process that dies while indexing has returned nothing.
LEMMA IndexCrashStep ==
  ASSUME Inv, IndexCrash, LoaderTypeOK'
  PROVE  Inv'
<1>1. /\ loaderPc = "index" /\ loaderPc' = "aborted" /\ names = {} /\ file = 1 /\ file' = file
      /\ returned = "none"
      /\ UNCHANGED <<paths, storage, names, held, wanted, worker, success, returned>>
  BY DEF Inv, Untouched, Phase, IndexCrash, indexVars, mainVars, workerVars
<1>2. Indexed'
  BY <1>1 DEF Inv, Indexed
<1>3. FilesSettled'
  BY <1>1, <1>2 DEF FilesSettled, Indexed
<1>4. Untouched' /\ Phase'
  BY <1>1 DEF Inv, Untouched, Phase, AllJoined
<1>. QED
  BY <1>1, <1>2, <1>3, <1>4, NoQueue DEF Inv, TrueMeansLoaded

\* Merging names only removes tensors.
LEMMA ConvertStep ==
  ASSUME Inv, ConvertNames, LoaderTypeOK'
  PROVE  Inv'
<1>1. /\ loaderPc = "index" /\ loaderPc' = "create" /\ names = {} /\ file = 1 /\ file' = file
      /\ returned = "none" /\ UNCHANGED <<paths, names, held, wanted, worker, success, returned>>
  BY DEF Inv, Untouched, Phase, ConvertNames, mainVars, workerVars
<1>2. PICK kept \in SUBSET DOMAIN storage : storage' = [t \in kept |-> storage[t]]
  BY DEF ConvertNames
<1>3. Indexed'
  BY <1>1, <1>2 DEF Inv, Indexed
<1>4. FilesSettled'
  BY <1>1, <1>3 DEF FilesSettled, Indexed
<1>5. Untouched' /\ Phase'
  BY <1>1 DEF Inv, Untouched, Phase, AllJoined
<1>. QED
  BY <1>1, <1>3, <1>4, <1>5, NoQueue DEF Inv, TrueMeansLoaded

\* The model says which weights it wants before any tensor is noted.
LEMMA CreateStep ==
  ASSUME Inv, CreateWeights, LoaderTypeOK'
  PROVE  Inv'
<1>1. /\ loaderPc = "create" /\ names = {} /\ file = 1 /\ file' = file /\ success
      /\ returned = "none" /\ UNCHANGED <<paths, storage, names, held, worker, success>>
      /\ \/ loaderPc' = "file" /\ returned' = returned
         \/ loaderPc' = "done" /\ returned' = "false"
  BY DEF Inv, Untouched, Phase, CreateWeights, workerVars
<1>2. Indexed'
  BY <1>1 DEF Inv, Indexed
<1>3. FilesSettled'
  BY <1>1, <1>2 DEF FilesSettled, Indexed
<1>4. Untouched' /\ Phase'
  BY <1>1 DEF Inv, Untouched, Phase, AllJoined
<1>. QED
  BY <1>1, <1>2, <1>3, <1>4, NoQueue DEF Inv, TrueMeansLoaded

\* A file without tensors is passed over.
LEMMA SkipStep ==
  ASSUME Inv, SkipFile, LoaderTypeOK'
  PROVE  Inv'
<1>1. loaderPc = "file" /\ loaderPc' = loaderPc /\ file' = file + 1 /\ file \in Nat /\ returned = "none"
      /\ UNCHANGED <<paths, storage, names, held, wanted, worker, success, returned>>
  BY DEF Inv, Phase, LoaderTypeOK, SkipFile, indexVars, workerVars
<1>2. Indexed'
  BY <1>1 DEF Inv, Indexed
<1>3. FilesSettled'
  <2>. SUFFICES ASSUME NEW t \in DOMAIN storage, storage[t].at < file + 1
                PROVE  Settled(t)
    BY <1>1 DEF FilesSettled, Settled
  <2>1. storage[t].at # file /\ storage[t].at \in Nat
    BY DEF SkipFile, TensorsAt, Inv, LoaderTypeOK
  <2>2. storage[t].at < file
    BY <1>1, <2>1
  <2>. QED
    BY <1>1, <2>2 DEF Inv, FilesSettled
<1>4. Untouched' /\ Phase'
  BY <1>1 DEF Inv, Untouched, Phase, AllJoined
<1>. QED
  BY <1>1, <1>2, <1>3, <1>4, NoQueue DEF Inv, TrueMeansLoaded

\* The workers start with nothing claimed.
LEMMA StartStep ==
  ASSUME Inv, StartWorkers, LoaderTypeOK'
  PROVE  Inv'
<1>1. loaderPc = "file" /\ loaderPc' = "poll" /\ returned = "none" /\ next' = 0 /\ ~failed'
      /\ UNCHANGED <<paths, storage, names, held, wanted, file, success, returned>>
  BY DEF Inv, Phase, StartWorkers, indexVars
<1>2. Indexed' /\ FilesSettled' /\ Untouched' /\ Phase'
  BY <1>1 DEF Inv, Indexed, FilesSettled, Settled, Untouched, Phase
<1>3. queue' \in Orders(TensorsAt(file)) /\ TensorsAt(file)' = TensorsAt(file)
      /\ TensorsAt(file) # {}
  BY <1>1 DEF StartWorkers, TensorsAt
<1>4. QueueMatches'
  BY <1>1, <1>3, QueueType DEF QueueMatches, StartWorkers, Inv
<1>5. \A w \in Workers : worker'[w] \in {"open", "off"} /\ ~Holding(w)'
  BY DEF StartWorkers, Holding
<1>6. 1 \in Workers /\ worker'[1] = "open"
  <2>1. Len(queue') > 0 /\ Len(queue') \in Nat
    BY <1>1, <1>4 DEF QueueMatches, LoaderTypeOK
  <2>2. 1 \in Workers
    BY LoaderAssumption DEF Workers
  <2>. QED
    BY <2>1, <2>2 DEF StartWorkers
<1>7. WorkersApart'
  BY <1>5, <1>6 DEF WorkersApart
<1>8. QueueSettled'
  BY <1>1 DEF QueueSettled
<1>. QED
  BY <1>1, <1>2, <1>4, <1>7, <1>8 DEF Inv, TrueMeansLoaded

\* Polling changes nothing but the progress bar.
LEMMA PollStep ==
  ASSUME Inv, Poll, LoaderTypeOK'
  PROVE  Inv'
<1>1. /\ loaderPc = "poll" /\ loaderPc' \in {"poll", "join"} /\ returned = "none"
      /\ UNCHANGED <<paths, storage, names, held, wanted, file, queue, next, failed,
                     worker, claimed, success, returned>>
  BY DEF Inv, Phase, Poll, indexVars, sharedVars, workerVars
<1>2. TensorsAt(file)' = TensorsAt(file)
  BY <1>1 DEF TensorsAt
<1>3. Indexed' /\ FilesSettled' /\ Untouched' /\ Phase'
  BY <1>1 DEF Inv, Indexed, FilesSettled, Settled, Untouched, Phase
<1>4. QueueMatches'
  BY <1>1, <1>2 DEF Inv, QueueMatches
<1>5. WorkersApart'
  BY <1>1 DEF Inv, WorkersApart, Holding, TensorOf
<1>6. QueueSettled'
  BY <1>1 DEF Inv, QueueSettled, Holding, Settled
<1>. QED
  BY <1>1, <1>3, <1>4, <1>5, <1>6 DEF Inv, TrueMeansLoaded

\* When every worker has ended and none has failed, each tensor of the file is
\* settled: all were claimed, and no worker holds one.
LEMMA JoinStep ==
  ASSUME Inv, Join, LoaderTypeOK'
  PROVE  Inv'
<1>1. /\ loaderPc = "join" /\ loaderPc' \in {"verdict", "file"} /\ returned = "none" /\ success
      /\ UNCHANGED <<paths, storage, names, held, wanted, worker, returned>>
  BY DEF Inv, Phase, Join, indexVars, workerVars
<1>2. Indexed' /\ Untouched'
  BY <1>1 DEF Inv, Indexed, Untouched
<1>3. CASE failed
  <2>1. ~success' /\ loaderPc' = "verdict" /\ file' = file
    BY <1>3 DEF Join
  <2>. QED
    BY <1>1, <1>2, <2>1, NoQueue
    DEF Inv, Phase, FilesSettled, Settled, TrueMeansLoaded, Join, AllJoined
<1>4. CASE ~failed
  <2>1. loaderPc' = "file" /\ file' = file + 1 /\ success' /\ file \in Nat
    BY <1>1, <1>4 DEF Join, Inv, LoaderTypeOK
  <2>2. 1 \in Workers /\ worker[1] = "exited"
    BY <1>1, LoaderAssumption DEF Join, AllJoined, Inv, WorkersApart, Workers
  <2>3. next >= Len(queue) /\ next \in Nat /\ Len(queue) \in Nat
    BY <1>1, <1>4, <2>2 DEF Inv, WorkersApart, LoaderTypeOK
  <2>4. \A k \in 1 .. Len(queue) : Settled(queue[k])
    BY <1>1, <1>4, <2>3 DEF Inv, QueueSettled, Join, AllJoined, Holding
  <2>5. \A t \in TensorsAt(file) : Settled(t)
    BY <1>1, <2>4 DEF Inv, QueueMatches
  <2>6. FilesSettled'
    <3>. SUFFICES ASSUME NEW t \in DOMAIN storage, storage[t].at < file + 1
                  PROVE  Settled(t)
      BY <1>1, <2>1 DEF FilesSettled, Settled
    <3>1. storage[t].at \in Nat
      BY DEF Inv, LoaderTypeOK
    <3>2. CASE storage[t].at = file
      BY <2>5, <3>2 DEF TensorsAt
    <3>3. CASE storage[t].at < file
      BY <1>1, <3>3 DEF Inv, FilesSettled
    <3>. QED
      BY <2>1, <3>1, <3>2, <3>3
  <2>7. Phase'
    BY <1>1, <2>1 DEF Phase, Join, AllJoined
  <2>. QED
    BY <1>1, <1>2, <2>1, <2>6, <2>7, NoQueue DEF Inv, TrueMeansLoaded
<1>. QED
  BY <1>3, <1>4

\* The verdict is true only when every file was read and has every name.
LEMMA EndStep ==
  ASSUME Inv, NoMoreFiles \/ Verdict, LoaderTypeOK'
  PROVE  Inv'
<1>1. /\ loaderPc \in {"file", "verdict"} /\ loaderPc' \in {"verdict", "done"} /\ returned = "none"
      /\ UNCHANGED <<paths, storage, names, held, wanted, worker, file, success>>
  BY DEF Inv, Phase, NoMoreFiles, Verdict, indexVars, mainVars, workerVars
<1>2. Indexed' /\ Untouched' /\ FilesSettled'
  BY <1>1 DEF Inv, Indexed, Untouched, FilesSettled, Settled
<1>3. Phase'
  <2>1. CASE NoMoreFiles
    BY <1>1, <2>1 DEF Inv, Phase, NoMoreFiles, mainVars, AllJoined
  <2>2. CASE Verdict
    BY <1>1, <2>2 DEF Inv, Phase, Verdict, AllJoined
  <2>. QED
    BY <2>1, <2>2
<1>4. TrueMeansLoaded'
  <2>. SUFFICES ASSUME returned' = "true", NEW t \in wanted
                PROVE  t \in DOMAIN storage /\ held[t] = storage[t].of
    BY <1>1 DEF TrueMeansLoaded
  <2>1. Verdict /\ success /\ wanted \subseteq names
    BY <1>1 DEF NoMoreFiles, Verdict, mainVars, AllLoaded
  <2>2. file > Len(paths)
    BY <1>1, <2>1 DEF Inv, Phase, Verdict
  <2>3. t \in DOMAIN storage
    BY <2>1 DEF Inv
  <2>4. storage[t].at \in 1 .. Len(paths) /\ Len(paths) \in Nat /\ file \in Nat
    BY <2>3 DEF Inv, Indexed, LoaderTypeOK
  <2>5. Settled(t)
    BY <1>1, <2>2, <2>3, <2>4 DEF Inv, FilesSettled
  <2>. QED
    BY <2>3, <2>5 DEF Settled
<1>. QED
  BY <1>1, <1>2, <1>3, <1>4, NoQueue DEF Inv

-----------------------------------------------------------------------------
(* The theorems *)

\* Every step keeps the invariant.
LEMMA NextInv ==
  ASSUME Inv, [LoaderNext]_loaderVars
  PROVE  Inv'
<1>1. LoaderTypeOK'
  BY TypeStep
<1>2. ASSUME NEW w \in Workers, Work(w)
      PROVE  Inv'
  <2>1. CASE Crash(w)
    BY <1>1, <2>1, CrashStep
  <2>2. CASE ~Crash(w)
    <3>1. OpenFile(w) \/ Claim(w) \/ Check(w) \/ Tensor(w) \/ Read(w)
      BY <1>2, <2>2 DEF Work
    <3>2. loaderPc \in {"poll", "join"} /\ UNCHANGED <<loaderPc, indexVars, mainVars>>
      BY <3>1, Working DEF OpenFile, Claim, Check, Tensor, Read
    <3>3. WorkersApart' /\ QueueSettled' /\ FilesSettled' /\ (names \subseteq DOMAIN storage)'
      BY <3>1, OpenStep, ClaimStep, CheckStep, TensorStep, ReadStep
    <3>. QED
      BY <1>1, <3>2, <3>3, WorkLeaves DEF Inv
  <2>. QED
    BY <2>1, <2>2
<1>3. CASE UNCHANGED loaderVars
  BY <1>3
  DEF Inv, loaderVars, indexVars, sharedVars, mainVars, workerVars, LoaderTypeOK, Indexed, Untouched,
      Phase, AllJoined, QueueMatches, TensorsAt, WorkersApart, Holding, TensorOf,
      QueueSettled, Settled, FilesSettled, TrueMeansLoaded
<1>. QED
  BY <1>1, <1>2, <1>3, IndexStep, IndexCrashStep, ConvertStep, CreateStep, SkipStep, StartStep,
     PollStep, JoinStep, EndStep
  DEF LoaderNext, Main, LoaderEnded

\* The inductive invariant of the loader.
THEOREM Invariance == LoaderSpec => []Inv
<1>1. Inv /\ [LoaderNext]_loaderVars => Inv'
  BY NextInv
<1>. QED
  BY InitInv, <1>1, PTL DEF LoaderSpec

\* Every variable of the loader keeps its type.
THEOREM TypeCorrect == LoaderSpec => []LoaderTypeOK
<1>1. Inv => LoaderTypeOK
  BY DEF Inv
<1>. QED
  BY Invariance, <1>1, PTL

\* load_tensors returns true only when each weight holds the data of the file
\* its tensor was indexed in, for any number of threads.
THEOREM TrueOnlyWhenLoaded == LoaderSpec => []TrueMeansLoaded
<1>1. Inv => TrueMeansLoaded
  BY DEF Inv
<1>. QED
  BY Invariance, <1>1, PTL

\* No tensor is ever in the hands of two workers.
THEOREM TensorsApart == LoaderSpec => []OneWorkerPerTensor
<1>1. Inv => OneWorkerPerTensor
  <2>. SUFFICES ASSUME Inv, NEW v \in Workers, NEW w \in Workers, v # w,
                       worker[v] \in {"tensor", "read"}, worker[w] \in {"tensor", "read"},
                       TensorOf(v) = TensorOf(w)
                PROVE  FALSE
    BY DEF OneWorkerPerTensor
  <2>1. loaderPc \in {"poll", "join", "crashed"}
    BY DEF Inv, Phase, AllJoined
  <2>2. /\ claimed[v] \in Nat /\ claimed[w] \in Nat /\ Len(queue) \in Nat
        /\ claimed[v] < Len(queue) /\ claimed[w] < Len(queue) /\ claimed[v] # claimed[w]
    BY <2>1 DEF Inv, WorkersApart, Holding, LoaderTypeOK
  <2>3. claimed[v] + 1 \in 1 .. Len(queue) /\ claimed[w] + 1 \in 1 .. Len(queue)
        /\ claimed[v] + 1 # claimed[w] + 1
    BY <2>2
  <2>. QED
    BY <2>1, <2>3 DEF Inv, QueueMatches, TensorOf
<1>. QED
  BY Invariance, <1>1, PTL

-----------------------------------------------------------------------------
(* The promise of module Weights *)

SourcesNow == [t \in DOMAIN storage |-> storage[t].of]

\* Indexing, converting names and creating the model's weights are Index steps,
\* or the return of false.
LEMMA IndexRefines ==
  ASSUME Inv, Inv', IndexFile \/ ConvertNames \/ CreateWeights
  PROVE  Abstract!Next
<1>1. /\ returned = "none" /\ \A t \in Names : held[t] = Unset
      /\ UNCHANGED held
  BY DEF Inv, Untouched, Phase, IndexFile, ConvertNames, CreateWeights
<1>2. wanted' \in SUBSET Names /\ DOMAIN storage' \in SUBSET Names
      /\ SourcesNow' \in [DOMAIN storage' -> 1 .. MaxCalls]
  BY DEF Inv, LoaderTypeOK, SourcesNow
<1>3. CASE returned' = returned
  <2>1. Abstract!Index
    BY <1>1, <1>2, <1>3 DEF Abstract!Index, SourcesNow
  <2>. QED
    BY <2>1 DEF Abstract!Next
<1>4. CASE returned' # returned
  <2>1. returned' = "false" /\ UNCHANGED <<wanted, storage>>
    BY <1>4 DEF IndexFile, ConvertNames, CreateWeights, mainVars
  <2>2. Abstract!Return
    BY <1>1, <2>1 DEF Abstract!Return
  <2>. QED
    BY <2>2 DEF Abstract!Next
<1>. QED
  BY <1>3, <1>4

\* A worker's read fills a weight the model asked for, before the return.
LEMMA ReadRefines ==
  ASSUME Inv, NEW w \in Workers, Read(w)
  PROVE  Abstract!Next
<1>. DEFINE t == TensorOf(w)
<1>1. loaderPc \in {"poll", "join"} /\ returned = "none"
  BY Working DEF Read, Inv, Phase
<1>2. t \in wanted /\ claimed[w] + 1 \in 1 .. Len(queue) /\ t = queue[claimed[w] + 1]
  <2>1. claimed[w] \in Nat /\ Len(queue) \in Nat /\ claimed[w] < Len(queue) /\ t \in wanted
    BY <1>1 DEF Read, Inv, WorkersApart, LoaderTypeOK
  <2>. QED
    BY <2>1 DEF TensorOf
<1>3. t \in DOMAIN storage /\ storage[t].of = paths[file] /\ t \in Names
  BY <1>1, <1>2 DEF Inv, QueueMatches, TensorsAt, Indexed, LoaderTypeOK
<1>4. \E v \in {storage[t].of, Damaged} : held' = [held EXCEPT ![t] = v]
  BY <1>3 DEF Read
<1>5. Abstract!Fill(t)
  <2>. HIDE DEF t
  <2>. QED
    BY <1>1, <1>2, <1>3, <1>4 DEF Abstract!Fill, Read, indexVars, mainVars
<1>. QED
  BY <1>3, <1>5 DEF Abstract!Next

\* The verdict is the return.
LEMMA VerdictRefines ==
  ASSUME Inv, Inv', Verdict
  PROVE  Abstract!Next
<1>1. returned = "none" /\ UNCHANGED <<wanted, storage, held>>
      /\ returned' \in {"true", "false"}
  BY DEF Verdict, Inv, Phase, indexVars
<1>2. returned' = "true" => Abstract!AllFilled
  BY <1>1 DEF Inv, TrueMeansLoaded, Abstract!AllFilled
<1>3. Abstract!Return
  BY <1>1, <1>2 DEF Abstract!Return
<1>. QED
  BY <1>3 DEF Abstract!Next

\* The loader keeps the promise of module Weights: nothing is written after it
\* has returned, and true means that every weight is filled.
THEOREM PromiseKept == LoaderSpec => ImplementsWeights
<1>1. LoaderInit => Abstract!Init
  BY DEF LoaderInit, Abstract!Init
<1>2. Inv /\ Inv' /\ [LoaderNext]_loaderVars => [Abstract!Next]_(Abstract!vars)
  <2>. SUFFICES ASSUME Inv, Inv', [LoaderNext]_loaderVars
                PROVE  Abstract!Next \/ UNCHANGED <<wanted, storage, held, returned>>
    BY DEF Abstract!vars
  <2>1. CASE IndexCrash \/ SkipFile \/ StartWorkers \/ Poll \/ Join \/ NoMoreFiles
    BY <2>1 DEF IndexCrash, SkipFile, StartWorkers, Poll, Join, NoMoreFiles, indexVars, mainVars
  <2>2. ASSUME NEW w \in Workers, OpenFile(w) \/ Claim(w) \/ Check(w) \/ Tensor(w) \/ Crash(w)
        PROVE  UNCHANGED <<wanted, storage, held, returned>>
    BY <2>2 DEF OpenFile, Claim, Check, Tensor, Crash, indexVars, mainVars
  <2>3. CASE UNCHANGED loaderVars
    BY <2>3 DEF loaderVars, indexVars, mainVars
  <2>. QED
    BY <2>1, <2>2, <2>3, IndexRefines, ReadRefines, VerdictRefines
    DEF LoaderNext, Main, Work, LoaderEnded
<1>. QED
  BY Invariance, <1>1, <1>2, PTL DEF LoaderSpec, ImplementsWeights, Abstract!Spec
-----------------------------------------------------------------------------
(* The progress bar *)

\* The tensors of the files before position k of file_paths_.
Earlier(k) == {t \in DOMAIN storage : storage[t].at < k}

\* total_tensors_processed counts the tensors of the files that are done, and
\* the bar is never ahead of what was claimed, nor of the file being read.
ProgressCounted ==
  /\ loaderPc \in {"index", "create"} => total = 0 /\ shownProgress = 0
  /\ loaderPc = "file" => total = Cardinality(Earlier(file)) /\ shownProgress <= total
  /\ loaderPc \in {"poll", "join"} =>
       /\ total = Cardinality(Earlier(file))
       /\ Len(queue) = Cardinality(TensorsAt(file))
       /\ shownProgress <= total + next /\ shownProgress <= total + Len(queue)

\* A file adds its tensors to those of the files before it.
LEMMA OneMoreFile ==
  ASSUME LoaderTypeOK
  PROVE  /\ Cardinality(Earlier(file)) \in Nat /\ Cardinality(TensorsAt(file)) \in Nat
         /\ Cardinality(Earlier(file + 1))
              = Cardinality(Earlier(file)) + Cardinality(TensorsAt(file))
         /\ Cardinality(Earlier(file)) + Cardinality(TensorsAt(file))
              <= Cardinality(DOMAIN storage)
<1>0. /\ file \in Nat /\ \A t \in DOMAIN storage : storage[t].at \in Nat
      /\ IsFiniteSet(DOMAIN storage)
  BY LoaderAssumption, FS_Subset DEF LoaderTypeOK
<1>1. /\ Earlier(file) \subseteq DOMAIN storage /\ TensorsAt(file) \subseteq DOMAIN storage
      /\ Earlier(file + 1) \subseteq DOMAIN storage
  BY DEF Earlier, TensorsAt
<1>2. /\ Earlier(file + 1) = Earlier(file) \cup TensorsAt(file)
      /\ Earlier(file) \cap TensorsAt(file) = {}
  BY <1>0 DEF Earlier, TensorsAt
<1>3. IsFiniteSet(Earlier(file)) /\ IsFiniteSet(TensorsAt(file)) /\ IsFiniteSet(Earlier(file + 1))
  BY <1>0, <1>1, FS_Subset
<1>4. /\ Cardinality(Earlier(file) \cup TensorsAt(file))
           = Cardinality(Earlier(file)) + Cardinality(TensorsAt(file))
               - Cardinality(Earlier(file) \cap TensorsAt(file))
      /\ Cardinality(Earlier(file) \cap TensorsAt(file)) = 0
  BY <1>2, <1>3, FS_Union, FS_EmptySet
<1>5. Cardinality(Earlier(file + 1)) = Cardinality(Earlier(file) \cup TensorsAt(file))
  BY <1>2
<1>6. Cardinality(Earlier(file + 1)) <= Cardinality(DOMAIN storage)
  BY <1>0, <1>1, FS_Subset
<1>7. Cardinality(Earlier(file)) \in Nat /\ Cardinality(TensorsAt(file)) \in Nat
  BY <1>3, FS_CardinalityType
<1>8. Cardinality(Earlier(file + 1)) = Cardinality(Earlier(file)) + Cardinality(TensorsAt(file))
  BY <1>4, <1>5, <1>7
<1>. QED
  BY <1>6, <1>7, <1>8

\* A queue is as long as its file has tensors.
LEMMA QueueLength ==
  ASSUME LoaderTypeOK, NEW q \in Orders(TensorsAt(file))
  PROVE  Len(q) = Cardinality(TensorsAt(file))
<1>. DEFINE n == Cardinality(TensorsAt(file))
<1>1. n \in Nat
  BY OneMoreFile
<1>2. q \in [1 .. n -> TensorsAt(file)]
  BY DEF Orders
<1>. HIDE DEF n
<1>3. q \in Seq(TensorsAt(file)) /\ Len(q) = n
  BY <1>1, <1>2
<1>. QED
  BY <1>3 DEF n

\* A step that leaves the bar's bookkeeping alone, or lets the counter grow.
LEMMA CountedStays ==
  ASSUME Inv, ProgressCounted, UNCHANGED <<storage, file, queue, total, shownProgress>>,
         \/ loaderPc' = loaderPc /\ next' \in Nat /\ next' >= next
         \/ loaderPc' \notin {"index", "create", "file", "poll", "join"}
  PROVE  ProgressCounted'
<1>1. Earlier(file)' = Earlier(file) /\ TensorsAt(file)' = TensorsAt(file)
  BY DEF Earlier, TensorsAt
<1>2. next \in Nat /\ total \in Nat /\ shownProgress \in Nat
  BY DEF Inv, LoaderTypeOK
<1>. QED
  BY <1>1, <1>2 DEF ProgressCounted

\* Every step keeps the counts.
LEMMA CountedStep ==
  ASSUME Inv, ProgressCounted, [LoaderNext]_loaderVars
  PROVE  ProgressCounted'
<1>0. /\ LoaderTypeOK /\ next \in Nat /\ total \in Nat /\ shownProgress \in Nat /\ file \in Nat
      /\ Len(queue) \in Nat
  BY DEF Inv, LoaderTypeOK
<1>1. CASE IndexFile
  BY <1>1 DEF IndexFile, mainVars, ProgressCounted
<1>2. CASE IndexCrash
  BY <1>2 DEF IndexCrash, ProgressCounted
<1>3. CASE ConvertNames
  BY <1>3 DEF ConvertNames, mainVars, ProgressCounted
<1>4. CASE CreateWeights
  <2>1. total' = 0 /\ shownProgress' = 0 /\ file' = 1 /\ storage' = storage /\ loaderPc' \in {"file", "done"}
    BY <1>4 DEF CreateWeights, ProgressCounted, Inv, Untouched
  <2>2. Earlier(1) = {}
    BY DEF Earlier, Inv, Indexed, LoaderTypeOK
  <2>3. Earlier(file)' = {}
    BY <2>1, <2>2 DEF Earlier
  <2>. QED
    BY <2>1, <2>3, FS_EmptySet DEF ProgressCounted
<1>5. CASE SkipFile
  <2>1. /\ loaderPc = "file" /\ loaderPc' = "file" /\ TensorsAt(file) = {}
        /\ file' = file + 1 /\ UNCHANGED <<storage, total, shownProgress>>
    BY <1>5 DEF SkipFile, indexVars
  <2>2. Cardinality(Earlier(file + 1)) = Cardinality(Earlier(file))
    BY <1>0, <2>1, OneMoreFile, FS_EmptySet
  <2>3. Earlier(file)' = Earlier(file + 1)
    BY <2>1 DEF Earlier
  <2>. QED
    BY <2>1, <2>2, <2>3 DEF ProgressCounted
<1>6. CASE StartWorkers
  <2>1. /\ loaderPc = "file" /\ loaderPc' = "poll" /\ queue' \in Orders(TensorsAt(file)) /\ next' = 0
        /\ UNCHANGED <<storage, file, total, shownProgress>>
    BY <1>6 DEF StartWorkers, indexVars
  <2>2. Len(queue') = Cardinality(TensorsAt(file)) /\ Cardinality(TensorsAt(file)) \in Nat
    BY <1>0, <2>1, QueueLength, OneMoreFile
  <2>3. Earlier(file)' = Earlier(file) /\ TensorsAt(file)' = TensorsAt(file)
    BY <2>1 DEF Earlier, TensorsAt
  <2>. QED
    BY <1>0, <2>1, <2>2, <2>3 DEF ProgressCounted
<1>7. CASE Poll
  <2>1. /\ loaderPc = "poll" /\ loaderPc' \in {"poll", "join"}
        /\ UNCHANGED <<storage, file, queue, next, total>>
        /\ shownProgress' = shownProgress \/ (shownProgress' = total + next /\ next < Len(queue))
    BY <1>0, <1>7 DEF Poll, ProgressOf, indexVars, sharedVars
  <2>2. Earlier(file)' = Earlier(file) /\ TensorsAt(file)' = TensorsAt(file)
    BY <2>1 DEF Earlier, TensorsAt
  <2>. QED
    BY <1>0, <2>1, <2>2 DEF ProgressCounted
<1>8. CASE Join
  <2>1. CASE failed
    BY <1>8, <2>1 DEF Join, ProgressCounted
  <2>2. CASE ~failed
    <3>1. /\ loaderPc = "join" /\ loaderPc' = "file" /\ file' = file + 1 /\ storage' = storage
          /\ total' = total + Len(queue) /\ shownProgress' = total + Len(queue)
      BY <1>8, <2>2 DEF Join, indexVars
    <3>2. Earlier(file)' = Earlier(file + 1)
      BY <3>1 DEF Earlier
    <3>3. total' = Cardinality(Earlier(file + 1))
      BY <1>0, <3>1, OneMoreFile DEF ProgressCounted
    <3>. QED
      BY <1>0, <3>1, <3>2, <3>3 DEF ProgressCounted
  <2>. QED
    BY <2>1, <2>2
<1>9. CASE NoMoreFiles \/ Verdict
  BY <1>9, CountedStays DEF NoMoreFiles, Verdict, indexVars, mainVars
<1>10. ASSUME NEW w \in Workers, Work(w)
       PROVE  ProgressCounted'
  <2>1. UNCHANGED <<storage, file, queue, total, shownProgress>>
    BY <1>10 DEF Work, OpenFile, Claim, Check, Tensor, Read, Crash, indexVars, mainVars
  <2>2. CASE Crash(w)
    BY <2>1, <2>2, CountedStays DEF Crash
  <2>3. CASE ~Crash(w)
    <3>1. loaderPc' = loaderPc /\ (next' = next \/ next' = next + 1)
      BY <1>10, <2>3 DEF Work, OpenFile, Claim, FetchAdd, Check, Tensor, Read, sharedVars
    <3>. QED
      BY <1>0, <2>1, <3>1, CountedStays
  <2>. QED
    BY <2>2, <2>3
<1>11. CASE UNCHANGED loaderVars
  BY <1>0, <1>11, CountedStays DEF loaderVars, indexVars, sharedVars, mainVars
<1>. QED
  BY <1>1, <1>2, <1>3, <1>4, <1>5, <1>6, <1>7, <1>8, <1>9, <1>10, <1>11
  DEF LoaderNext, Main, LoaderEnded

\* A step that moves the bar moves it forward, and not past the last tensor.
LEMMA ForwardStep ==
  ASSUME Inv, ProgressCounted, [LoaderNext]_loaderVars, shownProgress' # shownProgress
  PROVE  shownProgress' >= shownProgress /\ shownProgress' <= Cardinality(DOMAIN storage')
<1>0. /\ LoaderTypeOK /\ next \in Nat /\ total \in Nat /\ shownProgress \in Nat /\ Len(queue) \in Nat
  BY DEF Inv, LoaderTypeOK
<1>1. CASE Poll \/ Join
  <2>1. /\ loaderPc \in {"poll", "join"} /\ storage' = storage
        /\ \/ shownProgress' = total + next /\ next < Len(queue)
           \/ shownProgress' = total + Len(queue)
    BY <1>0, <1>1 DEF Poll, Join, ProgressOf, indexVars
  <2>2. /\ total + Len(queue) <= Cardinality(DOMAIN storage)
        /\ shownProgress <= total + next /\ shownProgress <= total + Len(queue)
    BY <1>0, <2>1, OneMoreFile DEF ProgressCounted
  <2>3. Cardinality(DOMAIN storage) \in Nat
    BY LoaderAssumption, FS_Subset, FS_CardinalityType DEF Inv, LoaderTypeOK
  <2>. QED
    BY <1>0, <2>1, <2>2, <2>3
<1>2. CASE IndexFile \/ IndexCrash \/ ConvertNames \/ CreateWeights \/ SkipFile
             \/ StartWorkers \/ NoMoreFiles \/ Verdict
  BY <1>2 DEF IndexFile, IndexCrash, ConvertNames, CreateWeights, SkipFile, StartWorkers,
     NoMoreFiles, Verdict, mainVars
<1>3. ASSUME NEW w \in Workers, Work(w)
      PROVE  shownProgress' = shownProgress
  BY <1>3 DEF Work, OpenFile, Claim, Check, Tensor, Read, Crash, mainVars
<1>4. CASE UNCHANGED loaderVars
  BY <1>4 DEF loaderVars, mainVars
<1>. QED
  BY <1>1, <1>2, <1>3, <1>4 DEF LoaderNext, Main, LoaderEnded

\* The progress bar never goes back, nor beyond the number of tensors, however
\* the main thread's polling and the workers interleave.
THEOREM ProgressStaysForward == LoaderSpec => ProgressForward
<1>1. LoaderInit => ProgressCounted
  BY DEF LoaderInit, ProgressCounted
<1>2. Inv /\ ProgressCounted /\ [LoaderNext]_loaderVars => ProgressCounted'
  BY CountedStep
<1>3. Inv /\ ProgressCounted /\ [LoaderNext]_loaderVars
        => [/\ shownProgress' >= shownProgress
            /\ shownProgress' <= Cardinality(DOMAIN storage')]_<<shownProgress>>
  BY ForwardStep
<1>. QED
  BY Invariance, <1>1, <1>2, <1>3, PTL DEF LoaderSpec, ProgressForward

-----------------------------------------------------------------------------
(* Loading ends *)

\* The tensors of the file that no worker has claimed, and those still ahead of
\* one worker: the one it holds and any it may claim after it.
Unclaimed == IF next < Len(queue) THEN Len(queue) - next ELSE 0

AheadOf(w) ==
  IF worker[w] = "open" THEN Len(queue) + 1
  ELSE IF worker[w] = "claim" THEN Unclaimed + 1
  ELSE IF Holding(w) /\ claimed[w] < Len(queue) THEN Len(queue) - claimed[w]
  ELSE 0

\* Where a worker is in its loop.
Turn(place) ==
  CASE place = "open" -> 5
    [] place = "check" -> 4
    [] place = "tensor" -> 3
    [] place = "read" -> 2
    [] place = "claim" -> 1
    [] OTHER -> 0

\* A bound on the steps a worker has left in this file.
ToDo(w) == 5 * AheadOf(w) + Turn(worker[w])

\* How far load_tensors is, and what the main thread has left of its loops: the
\* files to index, or three steps for each file to load.
Stage(point) ==
  CASE point = "index" -> 4
    [] point = "create" -> 3
    [] point \in {"file", "poll", "join"} -> 2
    [] point = "verdict" -> 1
    [] OTHER -> 0

FilesLeft == IF file <= Len(paths) THEN Len(paths) + 1 - file ELSE 0

MainLeft ==
  IF loaderPc = "index" THEN MaxCalls + 1 - nextCall
  ELSE IF loaderPc = "file" THEN 3 * FilesLeft + 2
  ELSE IF loaderPc = "poll" THEN 3 * FilesLeft + 1
  ELSE IF loaderPc = "join" THEN 3 * FilesLeft
  ELSE 0

Closer ==
  \/ Stage(loaderPc') < Stage(loaderPc)
  \/ Stage(loaderPc') = Stage(loaderPc) /\ MainLeft' < MainLeft

\* The measures are natural numbers, and a worker has nothing left to do exactly
\* when it is over.
LEMMA MeasureType ==
  ASSUME LoaderTypeOK
  PROVE  /\ Len(queue) \in Nat /\ Len(paths) \in Nat
         /\ FilesLeft \in Nat /\ MainLeft \in Nat /\ Unclaimed \in Nat
         /\ \A w \in Workers : /\ AheadOf(w) \in Nat
                                /\ Turn(worker[w]) \in 0 .. 5
                                /\ ToDo(w) \in Nat
                                /\ (ToDo(w) = 0 <=> worker[w] \in {"off", "exited"})
<1>1. /\ next \in Nat /\ file \in Nat /\ nextCall \in 1 .. MaxCalls + 1 /\ MaxCalls \in Nat
      /\ Len(queue) \in Nat /\ Len(paths) \in Nat
  BY LoaderAssumption DEF LoaderTypeOK
<1>2. Unclaimed \in Nat /\ FilesLeft \in Nat
  BY <1>1 DEF Unclaimed, FilesLeft
<1>3. MainLeft \in Nat
  BY <1>1, <1>2 DEF MainLeft
<1>4. ASSUME NEW w \in Workers
      PROVE  AheadOf(w) \in Nat
  <2>1. claimed[w] \in Nat
    BY DEF LoaderTypeOK
  <2>. QED
    BY <1>1, <1>2, <2>1 DEF AheadOf
<1>5. ASSUME NEW w \in Workers
      PROVE  /\ Turn(worker[w]) \in 0 .. 5
             /\ (Turn(worker[w]) = 0 <=> worker[w] \in {"off", "exited"})
             /\ Turn(worker[w]) = 0 => AheadOf(w) = 0
  <2>1. worker[w] \in {"off", "open", "claim", "check", "tensor", "read", "exited"}
    BY DEF LoaderTypeOK
  <2>. QED
    BY <2>1 DEF Turn, AheadOf, Holding
<1>6. ASSUME NEW w \in Workers
      PROVE  /\ ToDo(w) \in Nat
             /\ (ToDo(w) = 0 <=> worker[w] \in {"off", "exited"})
  BY <1>4, <1>5 DEF ToDo
<1>. QED
  BY <1>1, <1>2, <1>3, <1>4, <1>5, <1>6

\* The worker that moves has less to do, the others no more than before.
LEMMA WorkLowers ==
  ASSUME Inv, NEW w \in Workers, Work(w), ~Crash(w)
  PROVE  /\ ToDo(w)' < ToDo(w)
         /\ \A v \in Workers : ToDo(v)' <= ToDo(v)
         /\ UNCHANGED <<loaderPc, indexVars, mainVars>>
<1>. DEFINE n == Len(queue)
<1>1. OpenFile(w) \/ Claim(w) \/ Check(w) \/ Tensor(w) \/ Read(w)
  BY DEF Work
<1>2. /\ loaderPc \in {"poll", "join"} /\ UNCHANGED <<loaderPc, indexVars, mainVars>>
      /\ worker \in [Workers -> Places] /\ claimed \in [Workers -> Nat]
      /\ next \in Nat /\ n \in Nat
  BY <1>1, Working DEF OpenFile, Claim, Check, Tensor, Read
<1>3. /\ worker' = [worker EXCEPT ![w] = worker'[w]]
      /\ claimed' = [claimed EXCEPT ![w] = claimed'[w]]
      /\ (next' = next \/ next' = next + 1)
  <2>1. CASE OpenFile(w)
    BY <1>2, <2>1 DEF OpenFile, GoTo, GiveUp
  <2>2. CASE Claim(w)
    BY <1>2, <2>2 DEF Claim, GoTo, FetchAdd
  <2>3. CASE Check(w)
    <3>1. PICK place : GoTo(w, place)
      BY <2>3 DEF Check
    <3>2. worker' = [worker EXCEPT ![w] = worker'[w]]
      BY <1>2, <3>1 DEF GoTo
    <3>3. claimed' = claimed /\ next' = next
      BY <2>3 DEF Check, sharedVars
    <3>. QED
      BY <1>2, <3>2, <3>3
  <2>4. CASE Tensor(w)
    BY <1>2, <2>4 DEF Tensor, GoTo, GiveUp
  <2>5. CASE Read(w)
    BY <1>2, <2>5 DEF Read, GoTo
  <2>. QED
    BY <1>1, <2>1, <2>2, <2>3, <2>4, <2>5
<1>4. n' = n /\ Unclaimed' <= Unclaimed /\ Unclaimed \in 0 .. n
  BY <1>2, <1>3 DEF Unclaimed, mainVars
<1>5. ASSUME NEW v \in Workers, v # w
      PROVE  ToDo(v)' <= ToDo(v)
  <2>1. worker'[v] = worker[v] /\ claimed'[v] = claimed[v] /\ claimed[v] \in Nat
    BY <1>2, <1>3, <1>5
  <2>2. Turn(worker[v])' = Turn(worker[v]) /\ Turn(worker[v]) \in Nat
    BY <2>1 DEF Turn
  <2>3. /\ AheadOf(v)' <= AheadOf(v) /\ AheadOf(v) \in Nat /\ AheadOf(v)' \in Int
    <3>1. CASE worker[v] = "open"
      BY <1>2, <1>4, <2>1, <3>1 DEF AheadOf
    <3>2. CASE worker[v] = "claim"
      <4>1. n' = n /\ n \in Nat /\ next \in Nat /\ (next' = next \/ next' = next + 1)
        BY <1>2, <1>3, <1>4
      <4>2. worker[v] = "claim" /\ worker'[v] = "claim"
        BY <2>1, <3>2
      <4>. QED
        BY <4>1, <4>2 DEF AheadOf, Unclaimed
    <3>3. CASE Holding(v)
      BY <1>2, <1>4, <2>1, <3>3 DEF AheadOf, Holding
    <3>4. CASE worker[v] \notin {"open", "claim"} /\ ~Holding(v)
      BY <2>1, <3>4 DEF AheadOf, Holding
    <3>. QED
      BY <3>1, <3>2, <3>3, <3>4
  <2>. QED
    BY <2>2, <2>3 DEF ToDo
<1>6. ToDo(w)' < ToDo(w)
  <2>0. claimed[w] \in Nat
    BY <1>2
  <2>1. CASE OpenFile(w)
    <3>1. worker[w] = "open" /\ worker'[w] \in {"claim", "exited"} /\ next' = next
      BY <1>2, <2>1 DEF OpenFile, GoTo, GiveUp
    <3>2. Unclaimed' = Unclaimed
      BY <1>4, <3>1 DEF Unclaimed
    <3>. QED
      BY <1>2, <1>4, <3>1, <3>2 DEF ToDo, AheadOf, Turn, Holding
  <2>2. CASE Claim(w)
    <3>1. /\ worker[w] = "claim" /\ worker'[w] = "check"
          /\ claimed'[w] = next
      BY <1>2, <2>2 DEF Claim, GoTo, FetchAdd
    <3>2. ToDo(w) = 5 * (Unclaimed + 1) + 1
      BY <3>1 DEF ToDo, AheadOf, Turn
    <3>3. ToDo(w)' = 5 * Unclaimed + 4
      BY <1>2, <1>4, <3>1 DEF ToDo, AheadOf, Turn, Holding, Unclaimed
    <3>. QED
      BY <1>4, <3>2, <3>3
  <2>3. CASE Check(w)
    <3>1. /\ worker[w] = "check" /\ worker'[w] \in {"exited", "tensor"}
          /\ claimed'[w] = claimed[w]
      BY <1>2, <2>3 DEF Check, GoTo
    <3>. QED
      BY <1>2, <1>4, <2>0, <3>1 DEF ToDo, AheadOf, Turn, Holding
  <2>4. CASE Tensor(w) \/ Read(w)
    <3>1. /\ \/ worker[w] = "tensor" /\ worker'[w] \in {"read", "claim", "exited"}
             \/ worker[w] = "read" /\ worker'[w] = "claim"
          /\ claimed'[w] = claimed[w] /\ next' = next
      BY <1>2, <2>4 DEF Tensor, Read, GoTo, GiveUp
    <3>2. Unclaimed' = Unclaimed
      BY <1>4, <3>1 DEF Unclaimed
    <3>3. claimed[w] < next /\ claimed[w] < n
      BY <1>2, <3>1 DEF Inv, WorkersApart, Holding
    <3>4. Unclaimed + 1 <= n - claimed[w]
      BY <1>2, <2>0, <3>3 DEF Unclaimed
    <3>5. AheadOf(w) = n - claimed[w] /\ Turn(worker[w]) \in {2, 3}
      BY <3>1, <3>3 DEF AheadOf, Holding, Turn
    <3>6. CASE worker'[w] = "claim"
      <4>1. ToDo(w)' = 5 * (Unclaimed + 1) + 1
        BY <3>2, <3>6 DEF ToDo, AheadOf, Turn
      <4>. QED
        BY <1>2, <1>4, <2>0, <3>4, <3>5, <4>1 DEF ToDo
    <3>7. CASE worker'[w] # "claim"
      BY <1>2, <1>4, <2>0, <3>1, <3>3, <3>7 DEF ToDo, AheadOf, Turn, Holding
    <3>. QED
      BY <3>6, <3>7
  <2>. QED
    BY <1>1, <2>1, <2>2, <2>3, <2>4
<1>7. ToDo(w)' <= ToDo(w)
  <2>1. claimed'[w] \in Nat /\ Unclaimed' \in Int
    <3>1. claimed'[w] \in Nat
      BY <1>1, <1>2 DEF OpenFile, Claim, Check, Tensor, Read, FetchAdd
    <3>. QED
      BY <1>2, <1>3, <1>4, <3>1 DEF Unclaimed
  <2>2. ToDo(w) \in Nat
    BY MeasureType DEF Inv
  <2>3. AheadOf(w)' \in Int
    BY <1>2, <1>4, <2>1 DEF AheadOf
  <2>4. Turn(worker[w])' \in Int
    BY DEF Turn
  <2>5. ToDo(w)' \in Int
    BY <2>3, <2>4 DEF ToDo
  <2>. QED
    BY <1>6, <2>2, <2>5
<1>. QED
  BY <1>2, <1>5, <1>6, <1>7

\* A step of the main thread brings load_tensors nearer to its return, or is a
\* poll that finds a worker alive.
LEMMA MainLowers ==
  ASSUME Inv, Main
  PROVE  Closer \/ (loaderPc' = loaderPc /\ \E w \in Workers : ToDo(w) > 0)
<1>0. /\ Len(paths) \in Nat /\ file \in Nat /\ nextCall \in Nat /\ MaxCalls \in Nat
      /\ FilesLeft \in Nat /\ Len(queue) \in Nat /\ next \in Nat
      /\ \A w \in Workers : ToDo(w) \in Nat /\ ((ToDo(w) = 0) <=> (worker[w] \in {"off", "exited"}))
  BY MeasureType, LoaderAssumption DEF Inv, LoaderTypeOK
<1>1. CASE IndexFile
  BY <1>0, <1>1 DEF IndexFile, Closer, Stage, MainLeft
<1>2. CASE IndexCrash \/ ConvertNames \/ CreateWeights \/ NoMoreFiles \/ Verdict
  BY <1>2 DEF IndexCrash, ConvertNames, CreateWeights, NoMoreFiles, Verdict, Closer, Stage
<1>3. CASE SkipFile
  <2>1. /\ loaderPc = "file" /\ loaderPc' = "file" /\ file <= Len(paths) /\ file' = file + 1
        /\ paths' = paths
    BY <1>3 DEF SkipFile, indexVars
  <2>2. FilesLeft' < FilesLeft /\ FilesLeft' \in Nat
    BY <1>0, <2>1 DEF FilesLeft
  <2>. QED
    BY <1>0, <2>1, <2>2 DEF Closer, Stage, MainLeft
<1>4. CASE StartWorkers
  <2>1. loaderPc = "file" /\ loaderPc' = "poll" /\ file' = file /\ paths' = paths
    BY <1>4 DEF StartWorkers, indexVars
  <2>2. FilesLeft' = FilesLeft
    BY <2>1 DEF FilesLeft
  <2>. QED
    BY <1>0, <2>1, <2>2 DEF Closer, Stage, MainLeft
<1>5. CASE Poll
  <2>1. CASE loaderPc' = "join"
    <3>1. loaderPc = "poll" /\ file' = file /\ paths' = paths
      BY <1>5 DEF Poll, indexVars
    <3>2. FilesLeft' = FilesLeft
      BY <3>1 DEF FilesLeft
    <3>. QED
      BY <1>0, <2>1, <3>1, <3>2 DEF Closer, Stage, MainLeft
  <2>2. CASE loaderPc' = loaderPc
    <3>1. loaderPc = "poll" /\ next < Len(queue) /\ ~failed
      BY <1>0, <1>5, <2>2 DEF Poll
    <3>2. 1 \in Workers
      BY LoaderAssumption DEF Workers
    <3>3. worker[1] \notin {"off", "exited"}
      BY <1>0, <3>1, <3>2 DEF Inv, WorkersApart
    <3>4. ToDo(1) > 0
      BY <1>0, <3>2, <3>3
    <3>. QED
      BY <2>2, <3>2, <3>4
  <2>. QED
    BY <1>5, <2>1, <2>2 DEF Poll
<1>6. CASE Join
  <2>1. CASE loaderPc' = "verdict"
    BY <1>6, <2>1 DEF Join, Closer, Stage
  <2>2. CASE loaderPc' = "file"
    <3>1. loaderPc = "join" /\ file' = file + 1 /\ paths' = paths /\ file <= Len(paths)
      BY <1>6, <2>2 DEF Join, indexVars, Inv, QueueMatches
    <3>2. FilesLeft' < FilesLeft /\ FilesLeft' \in Nat
      BY <1>0, <3>1 DEF FilesLeft
    <3>. QED
      BY <1>0, <2>2, <3>1, <3>2 DEF Closer, Stage, MainLeft
  <2>. QED
    BY <1>6, <2>1, <2>2 DEF Join
<1>. QED
  BY <1>1, <1>2, <1>3, <1>4, <1>5, <1>6 DEF Main

\* The workers of a file come to an end: each step of one leaves it less to do,
\* unless it takes the process down, and no step but the start of the workers of
\* another file, in particular no claim of another worker, gives it more.
THEOREM WorkersEnd ==
  LoaderSpec =>
    [][/\ \A w \in Workers : Work(w) => ToDo(w)' < ToDo(w) \/ loaderPc' = "crashed"
       /\ ~StartWorkers => \A w \in Workers : ToDo(w)' <= ToDo(w)]_loaderVars
<1>1. ASSUME Inv, NEW w \in Workers, Work(w)
      PROVE  /\ ToDo(w)' < ToDo(w) \/ loaderPc' = "crashed"
             /\ \A v \in Workers : ToDo(v)' <= ToDo(v)
  <2>1. CASE Crash(w)
    <3>1. \A v \in Workers : ToDo(v)' = ToDo(v)
      BY <2>1 DEF Crash, ToDo, AheadOf, Turn, Unclaimed, Holding, workerVars, mainVars, sharedVars
    <3>2. \A v \in Workers : ToDo(v) \in Nat
      BY <1>1, MeasureType DEF Inv
    <3>. QED
      BY <2>1, <3>1, <3>2 DEF Crash
  <2>2. CASE ~Crash(w)
    BY <1>1, <2>2, WorkLowers
  <2>. QED
    BY <2>1, <2>2
<1>2. ASSUME Inv, UNCHANGED <<next, queue, worker, claimed>>
      PROVE  \A w \in Workers : ToDo(w)' <= ToDo(w)
  <2>1. \A w \in Workers : ToDo(w)' = ToDo(w)
    BY <1>2 DEF ToDo, AheadOf, Turn, Unclaimed, Holding
  <2>2. \A w \in Workers : ToDo(w) \in Nat
    BY <1>2, MeasureType DEF Inv
  <2>. QED
    BY <2>1, <2>2
<1>3. Main /\ ~StartWorkers => UNCHANGED <<next, queue, worker, claimed>>
  BY DEF Main, IndexFile, IndexCrash, ConvertNames, CreateWeights, SkipFile, Poll, Join,
     NoMoreFiles, Verdict, sharedVars, mainVars, workerVars
<1>4. LoaderEnded => UNCHANGED <<next, queue, worker, claimed>>
  BY DEF LoaderEnded, loaderVars, sharedVars, mainVars, workerVars
<1>5. ASSUME Inv, [LoaderNext]_loaderVars
      PROVE  [/\ \A w \in Workers : Work(w) => ToDo(w)' < ToDo(w) \/ loaderPc' = "crashed"
              /\ ~StartWorkers => \A w \in Workers : ToDo(w)' <= ToDo(w)]_loaderVars
  BY <1>1, <1>2, <1>3, <1>4, <1>5 DEF LoaderNext
<1>. QED
  BY Invariance, <1>5, PTL DEF LoaderSpec

\* load_tensors comes to an end: each step of the main thread, through indexing,
\* starting, polling and joining, is nearer to its return, except the polls that
\* find a worker with something left to do; and no worker sets it back.
THEOREM LoadEnds ==
  LoaderSpec =>
    [][/\ Main => Closer \/ (loaderPc' = loaderPc /\ \E w \in Workers : ToDo(w) > 0)
       /\ (\E w \in Workers : Work(w))
            => loaderPc' = "crashed" \/ (loaderPc' = loaderPc /\ MainLeft' = MainLeft)]_loaderVars
<1>1. ASSUME Inv, NEW w \in Workers, Work(w)
      PROVE  loaderPc' = "crashed" \/ (loaderPc' = loaderPc /\ MainLeft' = MainLeft)
  <2>1. CASE Crash(w)
    BY <2>1 DEF Crash
  <2>2. CASE ~Crash(w)
    <3>1. UNCHANGED <<loaderPc, indexVars, mainVars>>
      BY <1>1, <2>2, WorkLowers
    <3>. QED
      BY <3>1 DEF indexVars, mainVars, MainLeft, FilesLeft
  <2>. QED
    BY <2>1, <2>2
<1>2. ASSUME Inv, [LoaderNext]_loaderVars
      PROVE  [/\ Main => Closer \/ (loaderPc' = loaderPc /\ \E w \in Workers : ToDo(w) > 0)
              /\ (\E w \in Workers : Work(w))
                   => loaderPc' = "crashed" \/ (loaderPc' = loaderPc /\ MainLeft' = MainLeft)]_loaderVars
  BY <1>1, <1>2, MainLowers
<1>. QED
  BY Invariance, <1>2, PTL DEF LoaderSpec
=============================================================================
