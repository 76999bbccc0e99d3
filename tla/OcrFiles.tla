------------------------------- MODULE OcrFiles -------------------------------
(***************************************************************************)
(* Recognition of attachments by PaddleOCR: each request runs in a thread  *)
(* of its own on one adapter, which makes its pipeline when it is first    *)
(* needed, and hands the content over in a temporary file.                 *)
(***************************************************************************)
EXTENDS Integers, FiniteSets

CONSTANTS
  Threads,
  MaxRuns,     \* bound: recognitions
  MaxText      \* max_text_length, 20 000 in the code

VARIABLES
  pipeline,    \* pipelines made, and whether the adapter has one
  thread,      \* what each thread is doing, and its file
  files,       \* temporary files on the disk
  runs,        \* recognitions begun
  left,        \* history: files whose writing or removal failed
  raced,       \* history: threads that made a pipeline while another did
  texts        \* history: lengths of the texts returned

vars == <<pipeline, thread, files, runs, left, raced, texts>>

Idle == [at |-> "idle", file |-> 0]

Init ==
  /\ pipeline = [made |-> 0, kept |-> FALSE]
  /\ thread = [t \in Threads |-> Idle]
  /\ files = {} /\ runs = 0 /\ left = {} /\ raced = 0 /\ texts = {}

Go(t, at) == thread' = [thread EXCEPT ![t].at = at]

(* recognize reads the object; what fails there fails before this.         *)
Begin(t) ==
  /\ thread[t].at = "idle" /\ runs < MaxRuns
  /\ runs' = runs + 1
  /\ Go(t, IF pipeline.kept THEN "ready" ELSE "making")
  /\ raced' = IF ~pipeline.kept /\ \E other \in Threads : thread[other].at = "making"
              THEN raced + 1 ELSE raced
  /\ UNCHANGED <<pipeline, files, left, texts>>

Fresh == [made |-> pipeline.made + 1, kept |-> TRUE]

(* _get_pipeline *)
Make(t) ==
  /\ thread[t].at = "making"
  /\ pipeline' = Fresh
  /\ Go(t, "ready")
  /\ UNCHANGED <<files, runs, left, raced, texts>>

(* The SDK is not there, or the model not where it was configured. *)
MakeFails(t) ==
  /\ thread[t].at = "making"
  /\ Go(t, "idle")
  /\ UNCHANGED <<pipeline, files, runs, left, raced, texts>>

NewFile == CHOOSE f \in 1..MaxRuns : f \notin files

(* The file is created; its path is known to the cleanup only when it has  *)
(* been written.                                                           *)
Create(t) ==
  /\ thread[t].at = "ready"
  /\ files' = files \cup {NewFile}
  /\ thread' = [thread EXCEPT ![t] = [at |-> "created", file |-> NewFile]]
  /\ UNCHANGED <<pipeline, runs, left, raced, texts>>

CreateFails(t) ==
  /\ thread[t].at = "ready"
  /\ Go(t, "idle")
  /\ UNCHANGED <<pipeline, files, runs, left, raced, texts>>

Write(t) ==
  /\ thread[t].at = "created"
  /\ Go(t, "written")
  /\ UNCHANGED <<pipeline, files, runs, left, raced, texts>>

WriteFails(t) ==
  /\ thread[t].at = "created"
  /\ left' = left \cup {thread[t].file}
  /\ thread' = [thread EXCEPT ![t] = Idle]
  /\ UNCHANGED <<pipeline, files, runs, raced, texts>>

(* Mutant: the ellipsis is added to what is already full. *)
CutLate(length) == IF length > MaxText THEN MaxText + 1 ELSE length

(* _aggregate_results: a longer text is cut, and gets an ellipsis.         *)
Cut(length) == IF length > MaxText THEN MaxText - 1 + 1 ELSE length

Predict(t, length) ==
  /\ thread[t].at = "written"
  /\ texts' = texts \cup {Cut(length)}
  /\ Go(t, "done")
  /\ UNCHANGED <<pipeline, files, runs, left, raced>>

(* Mutant: nothing is removed after a failure. *)
AfterFailureStops == "idle"

AfterFailure == "done"

PredictFails(t) ==
  /\ thread[t].at = "written"
  /\ Go(t, AfterFailure)
  /\ UNCHANGED <<pipeline, files, runs, left, raced, texts>>

Remove(t) ==
  /\ thread[t].at = "done"
  /\ files' = files \ {thread[t].file}
  /\ thread' = [thread EXCEPT ![t] = Idle]
  /\ UNCHANGED <<pipeline, runs, left, raced, texts>>

(* An OSError, which is ignored. *)
RemoveFails(t) ==
  /\ thread[t].at = "done"
  /\ left' = left \cup {thread[t].file}
  /\ thread' = [thread EXCEPT ![t] = Idle]
  /\ UNCHANGED <<pipeline, files, runs, raced, texts>>

Next ==
  \E t \in Threads :
    \/ Begin(t) \/ Make(t) \/ MakeFails(t)
    \/ Create(t) \/ CreateFails(t) \/ Write(t) \/ WriteFails(t)
    \/ \E length \in 0..MaxText + 1 : Predict(t, length)
    \/ PredictFails(t) \/ Remove(t) \/ RemoveFails(t)

Spec == Init /\ [][Next]_vars

(***************************************************************************)
(* Properties.                                                             *)
(***************************************************************************)
(* Types; no text is longer than it may be.                                *)
TypeOK ==
  /\ pipeline.made \in 0..MaxRuns /\ runs \in 0..MaxRuns /\ raced \in 0..runs
  /\ \A t \in Threads : thread[t].at \in {"idle", "making", "ready", "created", "written", "done"}
  /\ left \subseteq files
  /\ texts \subseteq 0..MaxText

(* A temporary file belongs to a thread at work, and to one only, or the   *)
(* disk failed when it was written or removed.                             *)
FilesAccounted ==
  /\ \A f \in files \ left :
       Cardinality({t \in Threads : thread[t].at \in {"created", "written", "done"} /\ thread[t].file = f}) = 1
  /\ \A t \in Threads : thread[t].at = "written" => thread[t].file \in files

(* A pipeline is made once, but for threads that found another making it.  *)
MadeOnce == pipeline.made <= 1 + raced
=============================================================================
