---------------------------- MODULE ServiceShutdown ----------------------------
(***************************************************************************)
(* A service that may subscribe when it starts, runs BullMQ jobs which     *)
(* publish events, and answers /ready probes, with its registerAppShutdown *)
(* sequence: on the first signal it cancels the subscriptions, closes the  *)
(* worker, closes the resources and closes the broker, whatever fails on   *)
(* the way.                                                                *)
(***************************************************************************)
EXTENDS BrokerConnection

CONSTANTS Publisher,  \* the caller of getChannel that is a BullMQ job
          JobEvents   \* events a job publishes

ASSUME ShutdownAssumption ==
    Publisher \in Callers /\ JobEvents \in Nat

VARIABLES
  phase,      \* the call app.ts awaits: in its start, in handleShutdown
  failed,     \* errors: the calls of handleShutdown that rejected
  home,       \* the connection of the subscription
  consuming,  \* its consumer is registered at the server
  msg,        \* its message: "none", "handling", or "confirming" its retry copy
  job         \* events the job in progress has yet to publish

svcVars == <<phase, failed, home, consuming, msg, job>>
vars == <<connVars, svcVars>>

Parts == {"subscriptions", "worker", "resources", "broker"}
Active == job > 0 \/ callers[Publisher] # "idle"
Usable == home # None /\ conns[home] = "live"
Starting == phase \in {"register", "subscribe"}

(* The processing service subscribes first; the others have a worker only,  *)
(* and connect when a probe or a job asks for the channel.                  *)
Init == /\ ConnInit
        /\ phase \in {"register", "up"}
        /\ failed = {} /\ home = None /\ consuming = FALSE
        /\ msg = "none" /\ job = 0

-----------------------------------------------------------------------------
(* registerConsumers, awaited by app.ts before it listens: its workers run  *)
(* already.  If a subscription rejects, so does the module, and the process *)
(* ends.                                                                    *)

RegisterConsumers ==
    /\ phase = "register" /\ phase' = "subscribe"
    /\ \E u \in Callers \ {Publisher} : GetChannel(u)
    /\ UNCHANGED <<failed, home, consuming, msg, job>>
Subscribed ==
    /\ phase = "subscribe" /\ phase' = "up"
    /\ \E u \in Callers \ {Publisher} : home' = got[u] /\ Release(u)
    /\ consuming' = TRUE
    /\ UNCHANGED <<failed, msg, job>>
RegistrationFails ==
    /\ Up /\ phase = "subscribe"
    /\ \A u \in Callers \ {Publisher} : callers[u] = "idle"
    /\ exited' = "exit"
    /\ UNCHANGED <<conns, field, connecting, closing, intentional, callers,
                   got, connFaults, svcVars>>

(* The rest of the service                                                  *)

(* Probes of /ready, and whatever goes on in the connection by itself.      *)
Probe(u) == /\ ~Starting /\ u # Publisher
            /\ GetChannel(u) /\ UNCHANGED svcVars
Background ==
    /\ \/ \E u \in Callers : Release(u)
       \/ \E c \in Conns : Connect(c) \/ ConnectFails(c) \/ ConnectionLost(c)
       \/ Closed
    /\ UNCHANGED svcVars

(* BullMQ takes a job as long as the worker is not closing.                 *)
JobStarts ==
    /\ Up /\ ~Active /\ (Starting \/ phase \in {"up", "cancel"})
    /\ job' = JobEvents
    /\ UNCHANGED <<connVars, phase, failed, home, consuming, msg>>
JobPublishesLate ==                           \* mutant: also when it has ended
    /\ GetChannel(Publisher)
    /\ job' = job - 1
    /\ UNCHANGED <<phase, failed, home, consuming, msg>>
JobPublishes ==
    /\ job > 0 /\ GetChannel(Publisher)
    /\ job' = job - 1
    /\ UNCHANGED <<phase, failed, home, consuming, msg>>

Message(m) == /\ msg' = m
              /\ UNCHANGED <<connVars, phase, failed, home, consuming, job>>
(* ack, publish and nack throw on a closed channel; nothing catches the     *)
(* last, and an unhandled rejection ends the process.                       *)
HandlerCrashes ==
    /\ exited' = "crash"
    /\ UNCHANGED <<conns, field, connecting, closing, intentional, callers,
                   got, connFaults, svcVars>>

MessageArrives == /\ Up /\ consuming /\ Usable /\ msg = "none"
                  /\ Message("handling")
HandlerEnds ==
    /\ Up /\ msg = "handling"
    /\ \/ Usable /\ Message("none")
       \/ Usable /\ Message("confirming")
       \/ ~Usable /\ HandlerCrashes
ConfirmEnds ==
    /\ Up /\ msg = "confirming"
    /\ IF Usable THEN Message("none") ELSE HandlerCrashes

-----------------------------------------------------------------------------
(* handleShutdown                                                           *)

(* What is awaited settles; a rejection is noted and the next call made.    *)
Settles(part, rejected) ==
    IF rejected THEN failed' = failed \cup {part} ELSE UNCHANGED failed
MayReject(part, next) ==
    /\ phase' = next
    /\ \/ Settles(part, FALSE) /\ UNCHANGED connVars
       \/ /\ Settles(part, TRUE) /\ ConnFault
          /\ UNCHANGED <<conns, field, connecting, closing, intentional,
                         callers, got, exited>>

Signal == /\ Up /\ phase = "up"
          /\ phase' = "cancel"
          /\ UNCHANGED <<connVars, failed, home, consuming, msg, job>>

CancelSettles ==
    /\ Up /\ phase = "cancel"
    /\ MayReject("subscriptions", "worker")
    /\ consuming' = (consuming /\ "subscriptions" \in failed')
    /\ UNCHANGED <<home, msg, job>>

(* worker.close() waits for the active job.                                 *)
WorkerUnawaited ==                            \* mutant: close() not awaited
    /\ Up /\ phase = "worker"
    /\ MayReject("worker", "resources")
    /\ UNCHANGED <<home, consuming, msg, job>>
FailureStops ==                               \* mutant: a rejection ends it all
    /\ Up /\ phase = "worker"
    /\ \/ ~Active /\ phase' = "resources" /\ UNCHANGED <<failed, connVars>>
       \/ /\ phase' = "down" /\ failed' = failed \cup {"worker"} /\ ConnFault
          /\ UNCHANGED <<conns, field, connecting, closing, intentional,
                         callers, got, exited>>
    /\ UNCHANGED <<home, consuming, msg, job>>
WorkerSettles ==
    /\ Up /\ phase = "worker"
    /\ MayReject("worker", "resources")
    /\ "worker" \in failed' \/ ~Active
    /\ UNCHANGED <<home, consuming, msg, job>>

(* beforeExit settles, and broker.close() is called at once.                *)
ResourcesSettle ==
    /\ Up /\ phase = "resources"
    /\ phase' = "broker"
    /\ Close
    /\ \E rejected \in BOOLEAN : Settles("resources", rejected)
    /\ UNCHANGED <<home, consuming, msg, job>>

BrokerRejects ==
    /\ CloseFails
    /\ Settles("broker", TRUE)
    /\ UNCHANGED <<phase, home, consuming, msg, job>>
BrokerSettles ==
    /\ Up /\ phase = "broker" /\ closing = None
    /\ phase' = "down"
    /\ UNCHANGED <<connVars, failed, home, consuming, msg, job>>

-----------------------------------------------------------------------------
HandleShutdown == \/ CancelSettles \/ WorkerSettles \/ ResourcesSettle
                  \/ BrokerRejects \/ BrokerSettles

SvcNext == \/ RegisterConsumers \/ Subscribed \/ RegistrationFails
           \/ \E u \in Callers : Probe(u)
           \/ Background
           \/ JobStarts \/ JobPublishes
           \/ MessageArrives \/ HandlerEnds \/ ConfirmEnds
           \/ Signal \/ HandleShutdown

SvcSpec == Init /\ [][SvcNext]_vars

(* Fair: calls settle, and the server answers.  Not fair: signals, probes,  *)
(* messages, failures.                                                      *)
FairSvcSpec ==
    /\ SvcSpec
    /\ WF_vars(HandleShutdown) /\ WF_vars(JobPublishes)
    /\ WF_vars(Closed /\ UNCHANGED svcVars)
    /\ WF_vars(Release(Publisher) /\ UNCHANGED svcVars)
    /\ \A c \in Conns : WF_vars(Connect(c) /\ UNCHANGED svcVars)

-----------------------------------------------------------------------------
(* Every variable stays in its type, also those of the connection.          *)
TypeOK == /\ ConnTypeOK
          /\ phase \in {"register", "subscribe", "up", "cancel", "worker",
                       "resources", "broker", "down"}
          /\ home \in Conns \cup {None}
          /\ failed \subseteq Parts
          /\ consuming \in BOOLEAN
          /\ msg \in {"none", "handling", "confirming"}
          /\ job \in 0..JobEvents

(* A job in progress publishes its events on a live channel to the end:     *)
(* the broker is not closed under it, unless closing the worker failed.     *)
JobsKeepTheirChannel ==
    (Up /\ callers[Publisher] = "using" /\ "worker" \notin failed)
      => conns[got[Publisher]] = "live"

(* A handler never meets a closed channel (and dies of it) but in shutdown: *)
(* any other loss of the connection has ended the process before.           *)
CrashesOnlyInShutdown == exited = "crash" => phase \in {"broker", "down"}

(* A signal leads to the end of the sequence, with broker.close() called,   *)
(* or to the end of the process, whichever of the calls reject.             *)
ShutdownEnds ==
    [](phase = "cancel" => <>((phase = "down" /\ intentional) \/ ~Up))
===============================================================================
