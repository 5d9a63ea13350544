------------------------- MODULE AnnouncementContract -------------------------
(***************************************************************************)
(* What the upload service and its notifier promise: an original is        *)
(* announced to the pipeline only once it is stored, and a stored original *)
(* is announced at least once.                                             *)
(***************************************************************************)
CONSTANT Originals
VARIABLES stored, announced

cvars == <<stored, announced>>

Init == stored = {} /\ announced = {}

Store == \E v \in Originals \ stored :
            stored' = stored \cup {v} /\ UNCHANGED announced
Announce == \E v \in stored :
            announced' = announced \cup {v} /\ UNCHANGED stored

Spec == Init /\ [][Store \/ Announce]_cvars
===============================================================================
