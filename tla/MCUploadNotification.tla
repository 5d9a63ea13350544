------------------------- MODULE MCUploadNotification -------------------------
(* Instances of UploadNotification for TLC.                                  *)
EXTENDS UploadNotification
===============================================================================
