------------------------ MODULE MCInferencePipeline ------------------------
(* Instances of InferencePipeline for TLC: the settings and the symmetry. *)
EXTENDS PipelineRefinement, TLC

S(m, legacy, d, stop) == [model |-> m, legacy |-> legacy, device |-> d, stop |-> stop]

\* the two paths through the worker, on the CPU
MCNativeAndLegacy == {S("rvm", FALSE, "cpu", TRUE), S("seg", FALSE, "cpu", TRUE)}

\* devices and modes that exercise every branch of update
MCDevices == {S("rvm", FALSE, "gpu", TRUE), S("rvm", TRUE, "cpu", FALSE),
              S("seg", FALSE, "gpu", TRUE), S("seg", FALSE, "cpu", TRUE)}

MCSymmetry == Permutations(Images) \cup Permutations(Callers)
=============================================================================
