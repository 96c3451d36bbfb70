------------------------- MODULE PipelineRefinement -------------------------
(***************************************************************************)
(* InferencePipeline implements LatestMatte.  Whatever carries an old      *)
(* generation counts as absent, so the increment of inferenceGeneration is *)
(* the instant at which the new epoch begins, although the old frames and  *)
(* mattes are released by later steps and old inferences still run.        *)
(***************************************************************************)
EXTENDS PipelineInvariant

Number(matte) ==
  IF matte # None /\ matte.generation = inferenceGeneration THEN matte.number ELSE 0

WaitingNumber ==
  IF pendingInferenceFrame # None /\ pendingInferenceGeneration = inferenceGeneration
  THEN pendingInferenceFrame.number ELSE 0

InHandNumber == IF job # None /\ Current THEN job.frame.number ELSE 0

\* the later of the mask and the alpha
ShownNumber ==
  IF Number(backgroundMask) > Number(backgroundAlpha)
  THEN Number(backgroundMask) ELSE Number(backgroundAlpha)

Promise == INSTANCE LatestMatte
  WITH epoch <- inferenceGeneration, offered <- submittedFrames,
       waiting <- WaitingNumber, inHand <- InHandNumber, shown <- ShownNumber

\* The pipeline, with all its threads and its late releases, behaves as if an
\* invalidation were one step and the worker only ever saw the newest frame.
ImplementsLatestMatte == Promise!Spec
=============================================================================
