---------------------------- MODULE UploadContract ----------------------------
(***************************************************************************)
(* What withS3UploadStream promises its caller: a promise that resolves    *)
(* only when the whole object is stored, and that settles only when no     *)
(* process reads the source any longer.  A stored object stays.            *)
(***************************************************************************)
VARIABLES promise,   \* "pending", "resolved" or "rejected"
          reading,   \* an ffmpeg process reads the source
          stored     \* the object is there, complete

vars == <<promise, reading, stored>>

Init == promise = "pending" /\ ~reading /\ ~stored

Work == /\ promise = "pending"
        /\ reading' \in BOOLEAN
        /\ stored' \in {stored, TRUE}
        /\ UNCHANGED promise

Resolve == /\ promise = "pending" /\ stored /\ ~reading
           /\ promise' = "resolved"
           /\ UNCHANGED <<reading, stored>>

Reject == /\ promise = "pending" /\ ~reading
          /\ promise' = "rejected"
          /\ UNCHANGED <<reading, stored>>

Again == /\ promise = "rejected"
         /\ promise' = "pending"
         /\ UNCHANGED <<reading, stored>>

Next == Work \/ Resolve \/ Reject \/ Again

Spec == Init /\ [][Next]_vars
===============================================================================
