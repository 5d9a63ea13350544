------------------------ MODULE MCBrokerSubscription ------------------------
(* Instances of BrokerSubscription for TLC; the bounds leave a slot for     *)
(* every copy.                                                              *)
EXTENDS BrokerSubscription
=============================================================================
