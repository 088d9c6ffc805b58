----------------------------- MODULE MCPipeline -----------------------------
(* Frames of one and of two pixels, messages shorter and longer than them, *)
(* buffers that are too small, and arguments as the host passes them,      *)
(* without the Options, in the wrong order and volatile.                   *)
EXTENDS Pipeline

MCDims == {[width |-> 1, height |-> 1], [width |-> 2, height |-> 1]}

Info == AnyRef("CameraInfo", {"const"})
Settings == AnyRef("Options", {})
MCArgumentLists ==
  {<<Info, Settings>>, <<Info>>, <<Settings, Info>>, <<Info, AnyRef("Options", {"volatile"})>>}
=============================================================================
