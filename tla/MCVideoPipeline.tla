-------------------------- MODULE MCVideoPipeline --------------------------
(* VideoPipeline for TLC: instances and copies of the message are            *)
(* interchangeable.                                                          *)
EXTENDS VideoPipeline, TLC

PipelineSymmetry == Permutations(Instances) \cup Permutations(Deliveries)
=============================================================================
