---------------------------- MODULE MCRvmTensors ----------------------------
(* RvmTensors for TLC: a camera that is turned while it runs, and every    *)
(* mode, on the devices that make a difference.                            *)
EXTENDS RvmTensors

MCSizes == {<<1280, 720>>, <<720, 1280>>}

MCSettings ==
  { [mode |-> "auto",        model |-> "rvm",   device |-> "gpu"],
    [mode |-> "quality",     model |-> "rvm",   device |-> "gpu"],
    [mode |-> "legacy",      model |-> "rvm",   device |-> "cpu"],
    [mode |-> "performance", model |-> "other", device |-> "cpu"] }
=============================================================================
