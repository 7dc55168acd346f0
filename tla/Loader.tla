------------------------------- MODULE Loader -------------------------------
(***************************************************************************)
(* ModelLoader (model.cpp): files are indexed one after the other, then    *)
(* load_tensors goes through them, and for each starts worker threads that *)
(* share a counter of claimed tensors and a failure flag, while the main   *)
(* thread polls the counter for the progress bar and joins the workers.    *)
(*                                                                         *)
(* Tensors are known by their converted names.  The data a tensor receives *)
(* is represented by the file it was read from: an offset means something  *)
(* in the file it was indexed in only.                                     *)
(***************************************************************************)
EXTENDS Integers, Sequences, FiniteSets

CONSTANTS
  Names,      \* tensor names
  MaxCalls,   \* how many files the caller asks to be indexed
  MaxThreads  \* num_threads_to_use

ASSUME LoaderAssumption ==
  MaxCalls \in Nat /\ MaxThreads \in Nat \ {0} /\ IsFiniteSet(Names)

VARIABLES
  loaderPc,      \* where the main thread is
  nextCall,      \* the next file to be indexed
  paths,         \* file_paths_
  storage,       \* tensor_storage_map: position in file_paths_ and offset, by name
  wanted,        \* the keys of tensors, the weights of the model
  file,          \* file_index
  queue,         \* file_tensors
  next,          \* tensor_idx
  failed,
  total,         \* total_tensors_processed
  shownProgress, \* the number pretty_progress last showed
  names,         \* tensor_names_in_file
  success,
  returned,      \* what load_tensors returned
  worker,        \* where each worker thread is
  claimed,       \* idx of each worker
  held           \* what the model's tensors hold

indexVars == <<nextCall, paths, storage, wanted>>
sharedVars == <<next, failed>>
mainVars == <<file, queue, total, shownProgress, success, returned>>
workerVars == <<worker, claimed>>
loaderVars == <<loaderPc, indexVars, sharedVars, mainVars, workerVars, names, held>>

Workers == 1 .. MaxThreads
Unset == 0
Damaged == -1

\* The tensors load_tensors reads from the file at position k of file_paths_
TensorsAt(k) == {t \in DOMAIN storage : storage[t].at = k}

\* The order of tensor_storage_map; the properties do not depend on it.
Orders(S) ==
  {q \in [1 .. Cardinality(S) -> S] :
     /\ \A t \in S : \E k \in DOMAIN q : q[k] = t
     /\ \A j, k \in DOMAIN q : q[j] = q[k] => j = k}

LoaderInit ==
  /\ loaderPc = "index" /\ nextCall = 1 /\ paths = <<>>
  /\ storage = [t \in {} |-> [at |-> 0, of |-> 0]]
  /\ wanted = {} /\ file = 1 /\ queue = <<>> /\ next = 0 /\ failed = FALSE
  /\ total = 0 /\ shownProgress = 0 /\ names = {} /\ success = TRUE /\ returned = "none"
  /\ worker = [w \in Workers |-> "off"] /\ claimed = [w \in Workers |-> 0]
  /\ held = [t \in Names |-> Unset]

-----------------------------------------------------------------------------
(* Indexing *)

\* Bug the runs must notice: tensors filed under the position before theirs.
StalePosition == Len(paths)

\* file_index = file_paths_.size() - 1, after push_back
NewPosition == Len(paths) + 1

\* One init_from_file.  Either nothing stays of it (no path given, format not
\* recognised, or an error after which file_paths_ is popped), or the path
\* stays with the tensors indexed so far, all of them or, after an error, some.
\* A name that is known already now belongs to this file.  The callers go on in
\* both cases.
IndexFile ==
  /\ loaderPc = "index" /\ nextCall <= MaxCalls
  /\ \/ UNCHANGED <<paths, storage>>
     \/ \E S \in SUBSET Names :
          /\ paths' = Append(paths, nextCall)
          /\ storage' = [t \in DOMAIN storage \cup S |->
                           IF t \in S THEN [at |-> NewPosition, of |-> nextCall]
                                      ELSE storage[t]]
  /\ nextCall' = nextCall + 1
  /\ UNCHANGED <<loaderPc, wanted, sharedVars, mainVars, workerVars, names, held>>

\* A header that is not JSON makes is_safetensors_file throw, which no caller
\* catches.
IndexCrash ==
  /\ loaderPc = "index" /\ nextCall <= MaxCalls
  /\ loaderPc' = "aborted"
  /\ UNCHANGED <<indexVars, sharedVars, mainVars, workerVars, names, held>>

\* convert_tensors_name: of tensors whose names become equal one is kept.
ConvertNames ==
  /\ loaderPc = "index" /\ nextCall > MaxCalls
  /\ \E kept \in SUBSET DOMAIN storage :
       storage' = [t \in kept |-> storage[t]]
  /\ loaderPc' = "create"
  /\ UNCHANGED <<nextCall, paths, wanted, sharedVars, mainVars, workerVars, names, held>>

\* The version is recognised and the model's weights are created, or init gives
\* up.
CreateWeights ==
  /\ loaderPc = "create"
  /\ \/ wanted' \in SUBSET Names /\ loaderPc' = "file" /\ UNCHANGED returned
     \/ loaderPc' = "done" /\ returned' = "false" /\ UNCHANGED wanted
  /\ UNCHANGED <<nextCall, paths, storage, sharedVars, file, queue, total, shownProgress,
                 success, workerVars, names, held>>

-----------------------------------------------------------------------------
(* load_tensors, the main thread *)

SkipFile ==
  /\ loaderPc = "file" /\ file <= Len(paths) /\ TensorsAt(file) = {}
  /\ file' = file + 1
  /\ UNCHANGED <<loaderPc, indexVars, sharedVars, queue, total, shownProgress, success,
                 returned, workerVars, names, held>>

\* n_threads workers are started; one that has not been scheduled yet waits
\* before it opens the file.
StartWorkers ==
  /\ loaderPc = "file" /\ file <= Len(paths) /\ TensorsAt(file) # {}
  /\ queue' \in Orders(TensorsAt(file))
  /\ next' = 0 /\ failed' = FALSE
  /\ worker' = [w \in Workers |-> IF w <= Len(queue') THEN "open" ELSE "off"]
  /\ loaderPc' = "poll"
  /\ UNCHANGED <<indexVars, file, total, shownProgress, success, returned, claimed, names,
                 held>>

\* Bug the runs must notice: progress restarts with each file.
ProgressOfFile(n) == n

ProgressOf(n) == total + n

Poll ==
  /\ loaderPc = "poll"
  /\ IF next >= Len(queue) \/ failed
     THEN loaderPc' = "join" /\ UNCHANGED shownProgress
     ELSE shownProgress' = ProgressOf(next) /\ UNCHANGED loaderPc
  /\ UNCHANGED <<indexVars, sharedVars, file, queue, total, success, returned,
                 workerVars, names, held>>

AllJoined == \A w \in Workers : worker[w] \in {"off", "exited"}

Join ==
  /\ loaderPc = "join" /\ AllJoined
  /\ IF failed
     THEN /\ success' = FALSE
          /\ loaderPc' = "verdict"
          /\ UNCHANGED <<file, total, shownProgress>>
     ELSE /\ total' = total + Len(queue)
          /\ shownProgress' = total + Len(queue)
          /\ file' = file + 1
          /\ loaderPc' = "file"
          /\ UNCHANGED success
  /\ UNCHANGED <<indexVars, sharedVars, queue, returned, workerVars, names, held>>

NoMoreFiles ==
  /\ loaderPc = "file" /\ file > Len(paths)
  /\ loaderPc' = "verdict"
  /\ UNCHANGED <<indexVars, sharedVars, mainVars, workerVars, names, held>>

\* Bug the runs must notice: weights that no file has are not missed.
NoFailure == success

\* No file failed, and every weight of the model was in one.
AllLoaded == success /\ wanted \subseteq names

Verdict ==
  /\ loaderPc = "verdict"
  /\ returned' = IF AllLoaded THEN "true" ELSE "false"
  /\ loaderPc' = "done"
  /\ UNCHANGED <<indexVars, sharedVars, file, queue, total, shownProgress, success,
                 workerVars, names, held>>

-----------------------------------------------------------------------------
(* load_tensors, a worker thread *)

GoTo(w, where) == worker' = [worker EXCEPT ![w] = where]

\* Bug the runs must notice: a worker gives up and tells nobody.
GiveUpSilently(w) == GoTo(w, "exited") /\ UNCHANGED failed

GiveUp(w) == GoTo(w, "exited") /\ failed' = TRUE

\* Each worker opens the file for itself, unless it is mapped.
OpenFile(w) ==
  /\ loaderPc # "crashed" /\ worker[w] = "open"
  /\ \/ GoTo(w, "claim") /\ UNCHANGED failed
     \/ GiveUp(w)
  /\ UNCHANGED <<loaderPc, indexVars, next, mainVars, claimed, names, held>>

\* Bug the runs must notice: tensor_idx is read and written in two steps.
TornFetchAdd(w) ==
  claimed' = [claimed EXCEPT ![w] = next] /\ next' \in {next, next + 1}

\* tensor_idx.fetch_add(1)
FetchAdd(w) == claimed' = [claimed EXCEPT ![w] = next] /\ next' = next + 1

Claim(w) ==
  /\ loaderPc # "crashed" /\ worker[w] = "claim"
  /\ FetchAdd(w)
  /\ GoTo(w, "check")
  /\ UNCHANGED <<loaderPc, indexVars, failed, mainVars, names, held>>

Check(w) ==
  /\ loaderPc # "crashed" /\ worker[w] = "check"
  /\ GoTo(w, IF claimed[w] >= Len(queue) \/ failed THEN "exited" ELSE "tensor")
  /\ UNCHANGED <<loaderPc, indexVars, sharedVars, mainVars, claimed, names, held>>

TensorOf(w) == queue[claimed[w] + 1]

\* on_new_tensor_cb: the name is noted under the mutex; a tensor the model does
\* not ask for is passed over, one of the wrong shape is a failure.
Tensor(w) ==
  /\ loaderPc # "crashed" /\ worker[w] = "tensor"
  /\ names' = names \cup {TensorOf(w)}
  /\ \/ TensorOf(w) \notin wanted /\ GoTo(w, "claim") /\ UNCHANGED failed
     \/ TensorOf(w) \in wanted /\ GoTo(w, "read") /\ UNCHANGED failed
     \/ TensorOf(w) \in wanted /\ GiveUp(w)
  /\ UNCHANGED <<loaderPc, indexVars, next, mainVars, claimed, held>>

\* The data is read, converted and copied.  After a read error it is converted
\* and copied all the same.
Read(w) ==
  /\ loaderPc # "crashed" /\ worker[w] = "read"
  /\ \/ /\ held' = [held EXCEPT ![TensorOf(w)] = paths[file]]
        /\ UNCHANGED failed
     \/ /\ held' = [held EXCEPT ![TensorOf(w)] = Damaged]
        /\ failed' = TRUE
  /\ GoTo(w, "claim")
  /\ UNCHANGED <<loaderPc, indexVars, next, mainVars, claimed, names>>

\* A size that does not match is an assertion, and convert_tensor throws on a
\* type it cannot convert from: an exception that leaves a thread terminates the
\* process.
Crash(w) ==
  /\ loaderPc # "crashed" /\ worker[w] = "read"
  /\ loaderPc' = "crashed"
  /\ UNCHANGED <<indexVars, sharedVars, mainVars, workerVars, names, held>>

-----------------------------------------------------------------------------
Main ==
  \/ IndexFile \/ IndexCrash \/ ConvertNames \/ CreateWeights \/ SkipFile
  \/ StartWorkers \/ Poll \/ Join \/ NoMoreFiles \/ Verdict

Work(w) ==
  OpenFile(w) \/ Claim(w) \/ Check(w) \/ Tensor(w) \/ Read(w) \/ Crash(w)

LoaderEnded == loaderPc \in {"done", "aborted", "crashed"} /\ UNCHANGED loaderVars

LoaderNext == Main \/ (\E w \in Workers : Work(w)) \/ LoaderEnded

LoaderSpec == LoaderInit /\ [][LoaderNext]_loaderVars

-----------------------------------------------------------------------------
\* The type of the state
LoaderTypeOK ==
  /\ loaderPc \in {"index", "create", "file", "poll", "join", "verdict", "done",
                   "aborted", "crashed"}
  /\ nextCall \in 1 .. MaxCalls + 1
  /\ paths \in Seq(1 .. MaxCalls)
  /\ DOMAIN storage \subseteq Names
  /\ storage \in [DOMAIN storage -> [at : Nat, of : 1 .. MaxCalls]]
  /\ wanted \subseteq Names /\ names \subseteq Names
  /\ file \in Nat \ {0} /\ queue \in Seq(Names) /\ total \in Nat /\ shownProgress \in Nat
  /\ next \in Nat /\ failed \in BOOLEAN /\ success \in BOOLEAN
  /\ returned \in {"none", "true", "false"}
  /\ worker \in [Workers -> {"off", "open", "claim", "check", "tensor", "read",
                             "exited"}]
  /\ claimed \in [Workers -> Nat]
  /\ held \in [Names -> {Unset, Damaged} \cup 1 .. MaxCalls]

\* No two workers are ever at the same tensor: each one is filled by one thread,
\* without a lock.
OneWorkerPerTensor ==
  \A v, w \in Workers :
    v # w /\ worker[v] \in {"tensor", "read"} /\ worker[w] \in {"tensor", "read"}
      => TensorOf(v) # TensorOf(w)

\* load_tensors returns true only if each weight of the model holds data of the
\* file it was indexed in: no tensor was left out when the workers stopped, none
\* is still being read, no failure of any of them was missed.
TrueMeansLoaded ==
  returned = "true" =>
    \A t \in wanted : t \in DOMAIN storage /\ held[t] = storage[t].of

\* The progress bar never goes back, nor beyond the number of tensors.
ProgressForward ==
  [][/\ shownProgress' >= shownProgress
     /\ shownProgress' <= Cardinality(DOMAIN storage')]_<<shownProgress>>

\* load_tensors returns, unless the process dies: the main thread's polling ends
\* after success and after any failure of any worker.
LoadReturns == loaderPc = "file" ~> loaderPc \in {"done", "crashed"}

Abstract ==
  INSTANCE Weights WITH
    Sources <- 1 .. MaxCalls,
    Garbage <- Damaged,
    asked <- wanted,
    sources <- [t \in DOMAIN storage |-> storage[t].of],
    weights <- held,
    result <- returned

\* The loader keeps the promise of module Weights.
ImplementsWeights == Abstract!Spec
=============================================================================
