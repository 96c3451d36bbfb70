-------------------------- MODULE PipelineInvariant --------------------------
(***************************************************************************)
(* The inductive invariant behind the safety properties of                 *)
(* InferencePipeline, in named parts.  Each part is what some step needs   *)
(* to know of the other threads.                                           *)
(***************************************************************************)
EXTENDS InferencePipeline

\* The creating callback runs alone and the thread does not exist before it ends.
LifeCycle ==
  /\ phase \in {"new", "creating"} => wstage = "none"
  /\ \A c \in Callers :
       /\ stage[c] # "idle" /\ op[c] = "create" => phase = "creating"
       /\ phase = "creating" /\ stage[c] # "idle" => op[c] = "create"
       /\ stage[c] = "start" => op[c] = "create"
       /\ stage[c] \in {"settings", "apply", "alpha", "model", "enable"}
            => op[c] \in {"create", "update"}
       /\ phase = "new" => stage[c] = "idle"
       /\ \A d \in Callers :
            phase = "creating" /\ stage[c] # "idle" /\ stage[d] # "idle" => c = d

\* No frame and no matte is tagged with a generation still to come.
TagsFromThePast ==
  /\ pendingInferenceGeneration <= inferenceGeneration
  /\ job # None => job.generation <= inferenceGeneration
  /\ \A m \in Mattes : m.generation <= inferenceGeneration

\* Frames move through the pipeline in the order in which they were submitted.
FramesInOrder ==
  /\ pendingInferenceFrame # None => pendingInferenceFrame.number <= submittedFrames
  /\ job # None => job.frame.number <= submittedFrames
  /\ job # None /\ pendingInferenceFrame # None
       => job.frame.number < pendingInferenceFrame.number
  /\ \A m \in Mattes :
       /\ m.number <= submittedFrames
       /\ pendingInferenceFrame # None => m.number < pendingInferenceFrame.number
       /\ job # None => m.number < job.frame.number

\* The requested device other than the CPU is recorded only with a session on it.
EngineConsistent ==
  /\ useGPU = "gpu" => model # None /\ session # None
  /\ useGPU = None => model = None /\ session = None /\ wstage # "fallback"

\* Callbacks that have disabled the filter, or are about to enable it, and have
\* not yet released the mattes for good, ...
Updating(c) ==
  /\ op[c] \in {"create", "update"}
  /\ stage[c] \in {"settings", "apply", "alpha", "bump", "queue", "outputs", "image",
                  "notify", "model", "enable"}

Withdrawing(c) ==
  \/ Updating(c)
  \/ op[c] \in {"deactivate", "destroy"} /\ stage[c] \in {"bump", "queue", "outputs"}

\* ... and those that have not yet disowned the worker's frame.
Disowning(c) ==
  \/ Updating(c)
  \/ op[c] \in {"deactivate", "destroy"} /\ stage[c] = "bump"

Stopped == isDisabled /\ model # None /\ session # None

StoppedIsEmpty ==
  Stopped /\ Mattes # {} => \E c \in Callers : Withdrawing(c)

StoppedWorksInVain ==
  Stopped /\ job # None /\ wstage # "check" /\ Current
    => \E c \in Callers : Disowning(c)

\* Only destroy, after which no thread is started, tells the worker to stop.
StopComesLast ==
  /\ stopInferenceWorker => phase \in {"dying", "freed"}
  /\ \A c \in Callers :
       \/ stage[c] \in {"stop", "stopNotify", "join"}
       \/ op[c] = "destroy" /\ stage[c] # "idle"
       => phase \in {"dying", "freed"}

\* The inductive invariant: it holds initially, every step preserves it, and the
\* safety properties that hold however callbacks and frames overlap follow from it.
IndInv ==
  /\ TypeOK
  /\ LifeCycle
  /\ TagsFromThePast
  /\ FramesInOrder
  /\ EngineConsistent
  /\ NoStaleMatte
  /\ StoppedIsEmpty
  /\ StoppedWorksInVain
  /\ StopComesLast
  /\ NoLostWakeup

-----------------------------------------------------------------------------
(* Callbacks one after another: what the model in use has to do with the     *)
(* mattes shown and with RVM's recurrent state.                              *)

OneAtATime == \A c, d \in Callers : stage[c] # "idle" /\ stage[d] # "idle" => c = d

\* The steps of a callback during which nothing but itself may enable the filter
Disabling(c) ==
  \/ op[c] \in {"deactivate", "destroy"} /\ stage[c] # "idle"
  \/ op[c] \in {"create", "update"} /\ stage[c] \notin {"idle", "enable", "start"}
  \/ stage[c] \in {"stop", "stopNotify", "join"}

StaysDisabled ==
  \A c \in Callers : /\ Disabling(c) => isDisabled
                     /\ stage[c] # "idle" => op[c] # "none"

\* An update that has disowned the frames of before has no rival left when it
\* replaces the model: what the worker holds is outdated or yet to be checked, and
\* the mattes are gone.
Disowned(c) ==
  op[c] \in {"create", "update"} /\ stage[c] \in {"queue", "outputs", "image", "notify", "model"}

ModelIsIdle ==
  \A c \in Callers : Disowned(c) =>
    /\ job # None /\ wstage # "check" => ~Current
    /\ stage[c] \in {"image", "notify", "model"} => Mattes = {}

\* What the worker may yet publish, and what it published, comes from the model.
WorkFitsModel ==
  /\ wstage = "check" => job.output = None /\ job.previous = None
  /\ job # None /\ Current =>
       /\ job.output \in {None, model}
       /\ \A f \in Blended(job.previous) : f[2] = model

MattesFitModel == \A m \in Mattes : \A f \in m.from : f[2] = model

\* An enabled filter, or one about to be enabled, has a recurrent state of its
\* generation or none, and no inference of an earlier one is still to write it.
RecurrentFits ==
  \/ \E c \in Callers : stage[c] = "enable"
  \/ ~isDisabled /\ \A c \in Callers : stage[c] \in {"idle", "enable", "start"}
  => /\ recurrent \in {0, inferenceGeneration}
     /\ wstage = "infer" => Current

SerialInv ==
  StaysDisabled /\ ModelIsIdle /\ WorkFitsModel /\ MattesFitModel /\ RecurrentFits

-----------------------------------------------------------------------------
(* Ticks only between callbacks: what is blended into a mask. *)

GraphicsWaits == GraphicsOverlaps \/ Quiet \/ gstage = "idle"

\* No frame of the new generation is at hand before the old mattes are released.
NothingNewYet ==
  ~GraphicsOverlaps /\ (\E c \in Callers : stage[c] \in {"queue", "outputs"}) =>
    /\ pendingInferenceFrame # None => pendingInferenceGeneration < inferenceGeneration
    /\ job # None => ~Current

BlendOfOneGeneration ==
  job # None => \A f \in Blended(job.previous) : f[1] = job.generation

BlendInv == GraphicsWaits /\ NothingNewYet /\ BlendOfOneGeneration /\ NoMixedMatte
=============================================================================
