---------------------------- MODULE MCMetadataJob ----------------------------
(* Instances of MetadataJob for TLC.                                         *)
EXTENDS MetadataJob
===============================================================================
