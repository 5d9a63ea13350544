---------------------------- MODULE MCStreamUpload ----------------------------
(* Instances of StreamUpload for TLC.                                        *)
EXTENDS StreamUpload
===============================================================================
