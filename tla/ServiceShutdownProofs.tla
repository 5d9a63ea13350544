------------------------- MODULE ServiceShutdownProofs -------------------------
(***************************************************************************)
(* BrokerConnection and ServiceShutdown for any callers, connections, jobs *)
(* and bounds: their types, who holds which channel until when, and how    *)
(* many connections are open, by one inductive invariant.                  *)
(***************************************************************************)
EXTENDS ServiceShutdown, FiniteSetTheorems, TLAPS

(* The fields of the broker object and the connections they name: a connect  *)
(* in flight means that there is no channel, and only close() takes a        *)
(* connection out to close it.                                              *)
FieldInv ==
    /\ connecting # None =>
         field = None /\ conns[connecting] \in {"dialing", "dialed", "ready"}
    /\ \A c \in Conns : conns[c] = "dialing" => c = connecting
    /\ field # None => conns[field] = "live"
    /\ closing # None => conns[closing] = "closing" /\ intentional

(* Before close(), the channel in the fields is the only one alive, and each *)
(* other socket was left open by a failed connect.                          *)
Left == Open \ {field, connecting}
SocketInv ==
    (Up /\ ~intentional) =>
      /\ \A c \in Conns : conns[c] = "live" => c = field
      /\ IsFiniteSet(Left) /\ Cardinality(Left) <= connFaults

ConnInv == ConnTypeOK /\ FieldInv /\ SocketInv /\ NoStaleChannel

(* close() is called when the resources have settled, after a job that ran   *)
(* has ended unless closing the worker failed; a message in its handler has  *)
(* its channel until then.                                                  *)
PhaseInv ==
    /\ intentional <=> phase \in {"broker", "down"}
    /\ (phase \in {"resources", "broker", "down"} /\ "worker" \notin failed)
         => ~Active
    /\ (Up /\ ~intentional /\ msg # "none") => Usable
    /\ CrashesOnlyInShutdown

IInv == TypeOK /\ ConnInv /\ PhaseInv

-----------------------------------------------------------------------------
(* What the connection does in any step of the service.                     *)
Ends == /\ Up /\ exited' \in {"exit", "crash"}
        /\ UNCHANGED <<conns, field, connecting, closing, intentional, callers,
                       got, connFaults>>
Rejects == /\ ConnFault
           /\ UNCHANGED <<conns, field, connecting, closing, intentional,
                          callers, got, exited>>
ConnStep == \/ \E u \in Callers : GetChannel(u) \/ Release(u)
            \/ \E c \in Conns : Connect(c) \/ ConnectFails(c)
                                \/ ConnectionLost(c)
            \/ Close \/ CloseFails \/ Closed
            \/ Ends \/ Rejects
            \/ UNCHANGED connVars

(* No connection is open in the beginning.                                  *)
LEMMA ConnInitInv == ConnInit => ConnInv
<1> SUFFICES ASSUME ConnInit PROVE ConnInv
  OBVIOUS
<1> USE ConnectionAssumption DEF ConnInit
<1>1. ConnTypeOK
  <2>1. intentional \in BOOLEAN
    OBVIOUS
  <2>2. conns \in [Conns -> {"unused", "dialing", "dialed", "ready", "live",
                            "closing", "closed"}]
    OBVIOUS
  <2>3. /\ callers \in [Callers -> {"idle", "waiting", "using"}]
        /\ got \in [Callers -> Conns \cup {None}]
        /\ \A u \in Callers : callers[u] = "using" <=> got[u] # None
    OBVIOUS
  <2>4. QED
    BY <2>1, <2>2, <2>3 DEF ConnTypeOK
<1>2. FieldInv /\ NoStaleChannel
  BY DEF FieldInv, NoStaleChannel
<1>3. Left = {}
  BY DEF Left, Open
<1>4. SocketInv
  BY <1>3, FS_EmptySet DEF SocketInv
<1>5. QED
  BY <1>1, <1>2, <1>4 DEF ConnInv

(* getChannel and the end of a caller's work.                               *)
LEMMA CallerKeeps ==
    ASSUME ConnInv, NEW u \in Callers, GetChannel(u) \/ Release(u)
    PROVE  ConnInv'
<1> USE ConnectionAssumption DEF ConnInv
<1>1. CASE UseChannel(u)
  <2> USE <1>1 DEF UseChannel
  <2>1. ConnTypeOK' /\ NoStaleChannel'
    BY DEF ConnTypeOK, FieldInv, NoStaleChannel, Up
  <2>2. FieldInv' /\ SocketInv'
    BY DEF FieldInv, SocketInv, Left, Open, Up
  <2>3. QED
    BY <2>1, <2>2
<1>2. CASE AwaitConnecting(u)
  <2> USE <1>2 DEF AwaitConnecting
  <2>1. ConnTypeOK' /\ NoStaleChannel'
    BY DEF ConnTypeOK, FieldInv, NoStaleChannel, Up
  <2>2. FieldInv' /\ SocketInv'
    BY DEF FieldInv, SocketInv, Left, Open, Up
  <2>3. QED
    BY <2>1, <2>2
<1>3. CASE StartConnect(u)
  <2>1. PICK c \in Conns : /\ conns[c] = "unused" /\ Set(c, "dialing")
                           /\ connecting' = c
    BY <1>3 DEF StartConnect, NextConn, Unused
  <2> USE <1>3, <2>1 DEF StartConnect, Set
  <2>2. ConnTypeOK'
    BY DEF ConnTypeOK
  <2>3. FieldInv' /\ NoStaleChannel'
    BY DEF ConnTypeOK, FieldInv, NoStaleChannel, Up
  <2>4. Left' = Left
    BY DEF Left, Open, ConnTypeOK
  <2>5. SocketInv'
    BY <2>4 DEF SocketInv, ConnTypeOK, Up
  <2>6. QED
    BY <2>2, <2>3, <2>5
<1>4. CASE Release(u)
  <2> USE <1>4 DEF Release
  <2>1. ConnTypeOK' /\ NoStaleChannel'
    BY DEF ConnTypeOK, FieldInv, NoStaleChannel, Up
  <2>2. FieldInv' /\ SocketInv'
    BY DEF FieldInv, SocketInv, Left, Open, Up
  <2>3. QED
    BY <2>1, <2>2
<1>5. QED
  BY <1>1, <1>2, <1>3, <1>4 DEF GetChannel

(* connect(): the connection it opens is the one of `connecting'.           *)
LEMMA ConnectKeeps ==
    ASSUME ConnInv, NEW c \in Conns, Connect(c)
    PROVE  ConnInv'
<1> USE ConnectionAssumption DEF ConnInv
<1>1. CASE ConnectGoes(c)
  <2> USE <1>1 DEF ConnectGoes, Set
  <2>1. ConnTypeOK'
    BY DEF ConnTypeOK
  <2>2. FieldInv' /\ NoStaleChannel'
    BY DEF ConnTypeOK, FieldInv, NoStaleChannel, Up
  <2>3. Left' = Left
    BY DEF Left, Open, ConnTypeOK
  <2>4. SocketInv'
    BY <2>3 DEF SocketInv, ConnTypeOK, Up
  <2>5. QED
    BY <2>1, <2>2, <2>4
<1>2. CASE Connected(c)
  <2> USE <1>2 DEF Connected, Set
  <2>1. ConnTypeOK'
    BY DEF ConnTypeOK, Settle
  <2>2. FieldInv' /\ NoStaleChannel'
    BY DEF ConnTypeOK, FieldInv, NoStaleChannel, Settle, Up
  <2>3. Left' = Left
    BY DEF Left, Open, ConnTypeOK, FieldInv, Settle
  <2>4. SocketInv'
    BY <2>3 DEF SocketInv, ConnTypeOK, FieldInv, Up
  <2>5. QED
    BY <2>1, <2>2, <2>4
<1>3. QED
  BY <1>1, <1>2 DEF Connect

(* A failed connect leaves at most its own socket open, at the cost of one   *)
(* fault.                                                                   *)
LEMMA ConnectFailsKeeps ==
    ASSUME ConnInv, NEW c \in Conns, ConnectFails(c)
    PROVE  ConnInv'
<1> USE ConnectionAssumption DEF ConnInv
<1>1. ConnTypeOK'
  BY DEF ConnTypeOK, ConnectFails, ConnFault, Set, Settle
<1>2. FieldInv' /\ NoStaleChannel'
  BY DEF ConnTypeOK, FieldInv, NoStaleChannel, Up, ConnectFails, Set, Settle
<1>3. Left' \subseteq Left \cup {c}
  BY DEF Left, Open, ConnTypeOK, ConnectFails, Set, Settle
<1>4. ASSUME Up, ~intentional
      PROVE  IsFiniteSet(Left') /\ Cardinality(Left') <= connFaults'
  <2>1. /\ IsFiniteSet(Left) /\ Cardinality(Left) <= connFaults
        /\ connFaults' = connFaults + 1 /\ connFaults \in Nat
    BY <1>4 DEF SocketInv, ConnTypeOK, ConnectFails, ConnFault
  <2>2. /\ IsFiniteSet(Left \cup {c})
        /\ Cardinality(Left \cup {c}) \in {Cardinality(Left), Cardinality(Left) + 1}
        /\ Cardinality(Left) \in Nat
    BY <2>1, FS_AddElement, FS_CardinalityType
  <2>3. IsFiniteSet(Left') /\ Cardinality(Left') <= Cardinality(Left \cup {c})
    BY <1>3, <2>2, FS_Subset
  <2>4. Cardinality(Left') \in Nat
    BY <2>3, FS_CardinalityType
  <2>5. QED
    BY <2>1, <2>2, <2>3, <2>4
<1>5. SocketInv'
  BY <1>4 DEF SocketInv, ConnTypeOK, FieldInv, Up, ConnectFails, Set
<1>6. QED
  BY <1>1, <1>2, <1>5

(* A lost connection ends the process, unless close() was called.           *)
LEMMA LostKeeps ==
    ASSUME ConnInv, NEW c \in Conns, ConnectionLost(c)
    PROVE  ConnInv'
<1> USE ConnectionAssumption DEF ConnInv, ConnectionLost, LostWhile, OnClose
<1>1. ConnTypeOK'
  <2>1. CASE connecting = c
    BY <2>1 DEF ConnTypeOK, ConnFault, Set, Settle
  <2>2. CASE connecting # c
    BY <2>2 DEF ConnTypeOK, ConnFault, Set
  <2>3. QED
    BY <2>1, <2>2
<1>2. FieldInv'
  BY DEF ConnTypeOK, FieldInv, Set, Settle
<1>3. ~(Up /\ ~intentional)'
  BY DEF Up
<1>4. QED
  BY <1>1, <1>2, <1>3 DEF SocketInv, NoStaleChannel

(* close(): nothing it does concerns the time before it.                    *)
LEMMA CloseKeeps ==
    ASSUME ConnInv, Close \/ CloseFails \/ Closed
    PROVE  ConnInv'
<1> USE ConnectionAssumption DEF ConnInv
<1>1. CASE Close
  BY <1>1 DEF Close, Set, ConnTypeOK, FieldInv, SocketInv, NoStaleChannel
<1>2. CASE CloseFails
  BY <1>2 DEF CloseFails, ConnFault, Set, ConnTypeOK, FieldInv, SocketInv,
              NoStaleChannel
<1>3. CASE Closed
  BY <1>3 DEF Closed, OnClose, Set, ConnTypeOK, FieldInv, SocketInv,
              NoStaleChannel
<1>4. QED
  BY <1>1, <1>2, <1>3

(* Whatever a service does keeps the invariant of its connection.           *)
LEMMA ConnStepKeeps == ConnInv /\ ConnStep => ConnInv'
<1> SUFFICES ASSUME ConnInv, ConnStep PROVE ConnInv'
  OBVIOUS
<1>1. CASE Ends
  BY <1>1, ConnectionAssumption
  DEF Ends, ConnInv, ConnTypeOK, FieldInv, SocketInv, NoStaleChannel, Up
<1>2. CASE Rejects
  <2> USE <1>2, ConnectionAssumption DEF Rejects, ConnFault, ConnInv
  <2>1. ConnTypeOK' /\ FieldInv' /\ NoStaleChannel'
    BY DEF ConnTypeOK, FieldInv, NoStaleChannel, Up
  <2>2. Left' = Left
    BY DEF Left, Open
  <2>3. ASSUME IsFiniteSet(Left), Cardinality(Left) <= connFaults
        PROVE  Cardinality(Left) <= connFaults'
    BY <2>3, FS_CardinalityType DEF ConnTypeOK
  <2>4. SocketInv'
    BY <2>2, <2>3 DEF SocketInv, Up
  <2>5. QED
    BY <2>1, <2>4
<1>3. CASE UNCHANGED connVars
  BY <1>3 DEF connVars, ConnInv, ConnTypeOK, FieldInv, SocketInv,
              NoStaleChannel, Up, Left, Open
<1>4. QED
  BY <1>1, <1>2, <1>3, CallerKeeps, ConnectKeeps, ConnectFailsKeeps,
     LostKeeps, CloseKeeps DEF ConnStep

(* The process does not come back, nor does close() undo itself.            *)
LEMMA UpStays == ConnStep => (Up' => Up) /\ (intentional => intentional')
<1> SUFFICES ASSUME ConnStep
             PROVE  (Up' => Up) /\ (intentional => intentional')
  OBVIOUS
<1> USE DEF Up
<1>1. ASSUME NEW u \in Callers, GetChannel(u) \/ Release(u)
      PROVE  exited' = exited /\ intentional' = intentional
  BY <1>1 DEF GetChannel, UseChannel, AwaitConnecting, StartConnect, Release
<1>2. ASSUME NEW d \in Conns,
             Connect(d) \/ ConnectFails(d) \/ ConnectionLost(d)
      PROVE  Up /\ intentional' = intentional
  BY <1>2 DEF Connect, ConnectGoes, Connected, ConnectFails, ConnectionLost,
              LostWhile
<1>3. CASE Close \/ CloseFails \/ Closed
  BY <1>3 DEF Close, CloseFails, Closed
<1>4. CASE Ends \/ Rejects \/ UNCHANGED connVars
  BY <1>4 DEF Ends, Rejects, connVars
<1>5. QED
  BY <1>1, <1>2, <1>3, <1>4 DEF ConnStep

(* As long as the service runs and close() was not called, a channel that    *)
(* was alive stays alive.                                                   *)
LEMMA LiveStays ==
    ASSUME ConnInv, ConnStep, Up', ~intentional',
           NEW c \in Conns, conns[c] = "live"
    PROVE  conns'[c] = "live"
<1> USE ConnectionAssumption DEF ConnInv, Up
<1>1. ASSUME NEW u \in Callers, GetChannel(u) \/ Release(u)
      PROVE  conns'[c] = "live"
  BY <1>1 DEF GetChannel, UseChannel, AwaitConnecting, StartConnect, Release,
              Set, NextConn, Unused, ConnTypeOK
<1>2. ASSUME NEW d \in Conns,
             Connect(d) \/ ConnectFails(d) \/ ConnectionLost(d)
      PROVE  conns'[c] = "live"
  BY <1>2 DEF Connect, ConnectGoes, Connected, ConnectFails, ConnectionLost,
              LostWhile, OnClose, Set, ConnTypeOK
<1>3. CASE Close \/ CloseFails \/ Closed
  BY <1>3 DEF Close, CloseFails, Closed, FieldInv
<1>4. CASE Ends \/ Rejects \/ UNCHANGED connVars
  BY <1>4 DEF Ends, Rejects, connVars
<1>5. QED
  BY <1>1, <1>2, <1>3, <1>4 DEF ConnStep

-----------------------------------------------------------------------------
(* Each step of the service is such a step of its connection.               *)
LEMMA SvcSteps == SvcNext \/ UNCHANGED vars => ConnStep
<1>1. ASSUME NEW u \in Callers, Probe(u)
      PROVE  ConnStep
  BY <1>1 DEF Probe, ConnStep
<1>2. CASE RegisterConsumers \/ Subscribed \/ Background
  BY <1>2 DEF RegisterConsumers, Subscribed, Background, ConnStep
<1>3. CASE RegistrationFails
  BY <1>3 DEF RegistrationFails, ConnStep, Ends
<1>4. CASE JobPublishes
  BY <1>4, ShutdownAssumption DEF JobPublishes, ConnStep
<1>5. CASE JobStarts \/ MessageArrives \/ Signal
  BY <1>5 DEF JobStarts, MessageArrives, Signal, Message, ConnStep
<1>6. CASE HandlerEnds \/ ConfirmEnds
  BY <1>6 DEF HandlerEnds, ConfirmEnds, HandlerCrashes, Message, ConnStep, Ends
<1>7. CASE CancelSettles \/ WorkerSettles
  BY <1>7 DEF CancelSettles, WorkerSettles, MayReject, ConnStep, Rejects
<1>8. CASE ResourcesSettle \/ BrokerRejects \/ BrokerSettles
  BY <1>8 DEF ResourcesSettle, BrokerRejects, BrokerSettles, ConnStep
<1>9. CASE UNCHANGED vars
  BY <1>9 DEF vars, ConnStep
<1>10. QED
  BY <1>1, <1>2, <1>3, <1>4, <1>5, <1>6, <1>7, <1>8, <1>9
  DEF SvcNext, HandleShutdown

(* The variables of the service keep their types.                           *)
SvcTypeOK == /\ phase \in {"register", "subscribe", "up", "cancel", "worker",
                          "resources", "broker", "down"}
             /\ home \in Conns \cup {None}
             /\ failed \subseteq Parts
             /\ consuming \in BOOLEAN
             /\ msg \in {"none", "handling", "confirming"}
             /\ job \in 0..JobEvents

LEMMA TypeStep == IInv /\ (SvcNext \/ UNCHANGED vars) => SvcTypeOK'
<1> SUFFICES ASSUME IInv, SvcNext \/ UNCHANGED vars
             PROVE  SvcTypeOK'
  OBVIOUS
<1> USE ShutdownAssumption, ConnectionAssumption DEF SvcTypeOK
<1>0. SvcTypeOK
  BY DEF IInv, TypeOK
<1>1. ASSUME NEW u \in Callers, Probe(u)
      PROVE  SvcTypeOK'
  BY <1>0, <1>1 DEF Probe, svcVars
<1>2. CASE RegisterConsumers
  BY <1>0, <1>2 DEF RegisterConsumers
<1>3. CASE Subscribed
  BY <1>0, <1>3 DEF Subscribed, IInv, TypeOK, ConnTypeOK
<1>4. CASE RegistrationFails \/ Background
  BY <1>0, <1>4 DEF RegistrationFails, Background, svcVars
<1>5. CASE JobPublishes
  BY <1>0, <1>5 DEF JobPublishes
<1>6. CASE JobStarts \/ MessageArrives \/ Signal
  BY <1>0, <1>6 DEF JobStarts, MessageArrives, Signal, Message
<1>7. CASE HandlerEnds \/ ConfirmEnds
  BY <1>0, <1>7 DEF HandlerEnds, ConfirmEnds, HandlerCrashes, Message, svcVars
<1>8. CASE CancelSettles
  BY <1>0, <1>8 DEF CancelSettles, MayReject, Settles, Parts
<1>9. CASE WorkerSettles \/ ResourcesSettle
  BY <1>0, <1>9 DEF WorkerSettles, ResourcesSettle, MayReject, Settles, Parts
<1>10. CASE BrokerRejects \/ BrokerSettles
  BY <1>0, <1>10 DEF BrokerRejects, BrokerSettles, Settles, Parts
<1>11. CASE UNCHANGED vars
  BY <1>0, <1>11 DEF vars, svcVars
<1>12. QED
  BY <1>1, <1>2, <1>3, <1>4, <1>5, <1>6, <1>7, <1>8, <1>9, <1>10, <1>11
  DEF SvcNext, HandleShutdown

-----------------------------------------------------------------------------
(* close() is called in the last phase only.                                *)
LEMMA IntentionStep ==
    IInv /\ (SvcNext \/ UNCHANGED vars)
      => (intentional' <=> phase' \in {"broker", "down"})
<1> SUFFICES ASSUME IInv, SvcNext \/ UNCHANGED vars
             PROVE  intentional' <=> phase' \in {"broker", "down"}
  OBVIOUS
<1>0. intentional <=> phase \in {"broker", "down"}
  BY DEF IInv, PhaseInv
<1>1. CASE ResourcesSettle
  BY <1>1 DEF ResourcesSettle, Close
<1>2. ASSUME ~ResourcesSettle
      PROVE  intentional' = intentional
  <2> USE DEF GetChannel, UseChannel, AwaitConnecting, StartConnect, Release
  <2>1. ASSUME NEW u \in Callers, Probe(u)
        PROVE  intentional' = intentional
    BY <2>1 DEF Probe
  <2>2. CASE RegisterConsumers \/ Subscribed \/ RegistrationFails
             \/ JobPublishes
    BY <2>2 DEF RegisterConsumers, Subscribed, RegistrationFails, JobPublishes
  <2>3. CASE Background
    BY <2>3 DEF Background, Connect, ConnectGoes, Connected, ConnectFails,
                ConnectionLost, LostWhile, Closed
  <2>4. CASE \/ JobStarts \/ MessageArrives \/ HandlerEnds \/ ConfirmEnds
             \/ Signal
    BY <2>4 DEF JobStarts, MessageArrives, HandlerEnds, ConfirmEnds, Signal,
                HandlerCrashes, Message, connVars
  <2>5. CASE CancelSettles \/ WorkerSettles \/ BrokerRejects \/ BrokerSettles
    BY <2>5 DEF CancelSettles, WorkerSettles, BrokerRejects, BrokerSettles,
                MayReject, CloseFails, connVars
  <2>6. CASE UNCHANGED vars
    BY <2>6 DEF vars, connVars
  <2>7. QED
    BY <1>2, <2>1, <2>2, <2>3, <2>4, <2>5, <2>6 DEF SvcNext, HandleShutdown
<1>3. ASSUME ~ResourcesSettle
      PROVE  phase' \in {"broker", "down"} <=> phase \in {"broker", "down"}
  <2>1. ASSUME NEW u \in Callers, Probe(u)
        PROVE  phase' = phase
    BY <2>1 DEF Probe, svcVars
  <2>2. CASE RegisterConsumers \/ Subscribed \/ RegistrationFails
             \/ JobPublishes \/ Background
    BY <2>2 DEF RegisterConsumers, Subscribed, RegistrationFails, JobPublishes,
                Background, svcVars
  <2>3. CASE \/ JobStarts \/ MessageArrives \/ HandlerEnds \/ ConfirmEnds
             \/ Signal
    BY <2>3 DEF JobStarts, MessageArrives, HandlerEnds, ConfirmEnds, Signal,
                HandlerCrashes, Message, svcVars
  <2>4. CASE CancelSettles \/ WorkerSettles
    BY <2>4 DEF CancelSettles, WorkerSettles, MayReject
  <2>5. CASE BrokerRejects \/ BrokerSettles
    BY <2>5 DEF BrokerRejects, BrokerSettles
  <2>6. CASE UNCHANGED vars
    BY <2>6 DEF vars, svcVars
  <2>7. QED
    BY <1>3, <2>1, <2>2, <2>3, <2>4, <2>5, <2>6 DEF SvcNext, HandleShutdown
<1>4. QED
  BY <1>0, <1>1, <1>2, <1>3

-----------------------------------------------------------------------------
(* Where app.ts is only moves on, and no error it noted is forgotten.        *)
Ended == {"resources", "broker", "down"}
LEMMA PhaseStep ==
    ASSUME IInv, SvcNext \/ UNCHANGED vars, ~WorkerSettles
    PROVE  /\ failed \subseteq failed'
           /\ phase' \in Ended <=> phase \in Ended
<1> USE DEF Ended
<1>1. ASSUME NEW u \in Callers, Probe(u)
      PROVE  failed' = failed /\ phase' = phase
  BY <1>1 DEF Probe, svcVars
<1>2. CASE RegisterConsumers \/ Subscribed \/ RegistrationFails
           \/ JobPublishes \/ Background
  BY <1>2 DEF RegisterConsumers, Subscribed, RegistrationFails, JobPublishes,
              Background, svcVars
<1>3. CASE \/ JobStarts \/ MessageArrives \/ HandlerEnds \/ ConfirmEnds
           \/ Signal
  BY <1>3 DEF JobStarts, MessageArrives, HandlerEnds, ConfirmEnds, Signal,
              HandlerCrashes, Message, svcVars
<1>4. CASE CancelSettles
  BY <1>4 DEF CancelSettles, MayReject, Settles
<1>5. CASE ResourcesSettle \/ BrokerRejects \/ BrokerSettles
  BY <1>5 DEF ResourcesSettle, BrokerRejects, BrokerSettles, Settles
<1>6. CASE UNCHANGED vars
  BY <1>6 DEF vars, svcVars
<1>7. QED
  BY <1>1, <1>2, <1>3, <1>4, <1>5, <1>6 DEF SvcNext, HandleShutdown

(* Once the worker was asked to close, no job begins, and the callers of     *)
(* getChannel that wait for a connection are others.                        *)
LEMMA NoJobBegins ==
    ASSUME IInv, SvcNext \/ UNCHANGED vars, ~Active,
           phase \in {"worker"} \cup Ended
    PROVE  ~Active'
<1> USE ShutdownAssumption DEF Ended
<1>0. /\ job \in Nat /\ ~(job > 0) /\ callers[Publisher] = "idle"
      /\ callers \in [Callers -> {"idle", "waiting", "using"}]
  BY DEF IInv, TypeOK, ConnTypeOK, Active
<1> SUFFICES job' = job /\ callers'[Publisher] = "idle"
  BY <1>0 DEF Active
<1>1. ASSUME NEW u \in Callers, Probe(u)
      PROVE  job' = job /\ callers'[Publisher] = "idle"
  BY <1>0, <1>1 DEF Probe, svcVars, GetChannel, UseChannel, AwaitConnecting,
                    StartConnect
<1>2. CASE RegisterConsumers \/ Subscribed \/ RegistrationFails \/ JobStarts
           \/ JobPublishes \/ Signal \/ CancelSettles
  BY <1>0, <1>2 DEF RegisterConsumers, Subscribed, RegistrationFails,
                    JobStarts, JobPublishes, Signal, CancelSettles, Starting
<1>3. CASE Background
  <2>1. ASSUME NEW u \in Callers, Release(u)
        PROVE  callers'[Publisher] = "idle"
    BY <1>0, <2>1 DEF Release
  <2>2. ASSUME NEW c \in Conns, Connect(c) \/ ConnectFails(c)
        PROVE  callers'[Publisher] = "idle"
    BY <1>0, <2>2 DEF Connect, ConnectGoes, Connected, ConnectFails, Settle
  <2>3. ASSUME NEW c \in Conns, ConnectionLost(c)
        PROVE  callers'[Publisher] = "idle"
    BY <1>0, <2>3 DEF ConnectionLost, LostWhile, Settle
  <2>4. ASSUME Closed
        PROVE  callers'[Publisher] = "idle"
    BY <1>0, <2>4 DEF Closed
  <2>5. QED
    <3>1. job' = job
      BY <1>3 DEF Background, svcVars
    <3>2. \/ \E u \in Callers : Release(u)
          \/ \E c \in Conns : \/ Connect(c) \/ ConnectFails(c)
                               \/ ConnectionLost(c)
          \/ Closed
      BY <1>3 DEF Background
    <3>3. callers'[Publisher] = "idle"
      BY <2>1, <2>2, <2>3, <2>4, <3>2
    <3>4. QED
      BY <3>1, <3>3
<1>4. CASE MessageArrives \/ HandlerEnds \/ ConfirmEnds
  BY <1>0, <1>4 DEF MessageArrives, HandlerEnds, ConfirmEnds, HandlerCrashes,
                    Message, connVars, svcVars
<1>5. CASE WorkerSettles
  BY <1>0, <1>5 DEF WorkerSettles, MayReject, connVars
<1>6. CASE ResourcesSettle \/ BrokerRejects \/ BrokerSettles
  BY <1>0, <1>6 DEF ResourcesSettle, BrokerRejects, BrokerSettles, Close,
                    CloseFails, connVars
<1>7. CASE UNCHANGED vars
  BY <1>0, <1>7 DEF vars, connVars, svcVars
<1>8. QED
  BY <1>1, <1>2, <1>3, <1>4, <1>5, <1>6, <1>7 DEF SvcNext, HandleShutdown

(* worker.close() resolves after the job it waits for.                      *)
LEMMA JobStep ==
    IInv /\ (SvcNext \/ UNCHANGED vars)
      => (phase' \in Ended /\ "worker" \notin failed' => ~Active')
<1> SUFFICES ASSUME IInv, SvcNext \/ UNCHANGED vars,
                    phase' \in Ended, "worker" \notin failed'
             PROVE  ~Active'
  OBVIOUS
<1>1. CASE WorkerSettles
  BY <1>1, NoJobBegins DEF WorkerSettles
<1>2. CASE ~WorkerSettles
  <2>1. phase \in Ended /\ "worker" \notin failed
    BY <1>2, PhaseStep
  <2>2. ~Active
    BY <2>1 DEF IInv, PhaseInv, Ended
  <2>3. QED
    BY <2>1, <2>2, NoJobBegins
<1>3. QED
  BY <1>1, <1>2

-----------------------------------------------------------------------------
(* Before close() a message in its handler keeps its channel, ...           *)
LEMMA MessageStep ==
    IInv /\ (SvcNext \/ UNCHANGED vars)
      => ((Up /\ ~intentional /\ msg # "none") => Usable)'
<1> SUFFICES ASSUME IInv, SvcNext \/ UNCHANGED vars,
                    Up', ~intentional', msg' # "none"
             PROVE  Usable'
  OBVIOUS
<1>0. ConnInv /\ ConnStep
  BY SvcSteps DEF IInv
<1>1. Up /\ ~intentional
  BY <1>0, UpStays
<1>2. ASSUME Usable, home' = home
      PROVE  Usable'
  <2>1. home \in Conns
    BY <1>2 DEF IInv, TypeOK, Usable
  <2>2. conns'[home] = "live"
    BY <1>0, <1>2, <2>1, LiveStays DEF Usable
  <2>3. QED
    BY <1>2, <2>2 DEF Usable
<1>3. CASE Subscribed
  <2>1. PICK u \in Callers : home' = got[u] /\ Release(u)
    BY <1>3 DEF Subscribed
  <2>2. callers[u] = "using" /\ conns' = conns
    BY <2>1 DEF Release
  <2>3. got[u] # None /\ conns[got[u]] = "live"
    BY <1>0, <1>1, <2>2 DEF ConnInv, ConnTypeOK, NoStaleChannel
  <2>4. QED
    BY <2>1, <2>2, <2>3 DEF Usable
<1>4. CASE MessageArrives
  BY <1>2, <1>4 DEF MessageArrives, Message
<1>5. ASSUME ~Subscribed, ~MessageArrives
      PROVE  home' = home /\ msg # "none"
  <2>1. ASSUME NEW u \in Callers, Probe(u)
        PROVE  home' = home /\ msg' = msg
    BY <2>1 DEF Probe, svcVars
  <2>2. CASE RegisterConsumers \/ RegistrationFails \/ JobPublishes
             \/ Background
    BY <2>2 DEF RegisterConsumers, RegistrationFails, JobPublishes,
                Background, svcVars
  <2>3. CASE JobStarts \/ HandlerEnds \/ ConfirmEnds \/ Signal
    BY <2>3 DEF JobStarts, HandlerEnds, ConfirmEnds, Signal, HandlerCrashes,
                Message, svcVars
  <2>4. CASE CancelSettles \/ WorkerSettles \/ ResourcesSettle
             \/ BrokerRejects \/ BrokerSettles
    BY <2>4 DEF CancelSettles, WorkerSettles, ResourcesSettle, BrokerRejects,
                BrokerSettles
  <2>5. CASE UNCHANGED vars
    BY <2>5 DEF vars, svcVars
  <2>6. QED
    BY <1>5, <2>1, <2>2, <2>3, <2>4, <2>5 DEF SvcNext, HandleShutdown
<1>6. CASE ~Subscribed /\ ~MessageArrives
  BY <1>1, <1>2, <1>5, <1>6 DEF IInv, PhaseInv
<1>7. QED
  BY <1>3, <1>4, <1>6

(* ... so that only one that close() overtook ends the process.             *)
LEMMA CrashStep ==
    IInv /\ (SvcNext \/ UNCHANGED vars) => CrashesOnlyInShutdown'
<1> SUFFICES ASSUME IInv, SvcNext \/ UNCHANGED vars, exited' = "crash"
             PROVE  phase' \in {"broker", "down"}
  BY DEF CrashesOnlyInShutdown
<1>1. intentional => phase' \in {"broker", "down"}
  BY SvcSteps, UpStays, IntentionStep
<1>2. CASE exited = "crash"
  BY <1>1, <1>2 DEF IInv, PhaseInv, CrashesOnlyInShutdown
<1>3. CASE exited # "crash" /\ (HandlerEnds \/ ConfirmEnds)
  <2>1. Up /\ msg # "none" /\ ~Usable
    BY <1>3 DEF HandlerEnds, ConfirmEnds, Message, connVars
  <2>2. QED
    BY <1>1, <2>1 DEF IInv, PhaseInv
<1>4. ASSUME ~HandlerEnds, ~ConfirmEnds
      PROVE  exited' \in {exited, "exit"}
  <2> USE DEF GetChannel, UseChannel, AwaitConnecting, StartConnect, Release
  <2>1. ASSUME NEW u \in Callers, Probe(u)
        PROVE  exited' = exited
    BY <2>1 DEF Probe
  <2>2. CASE RegisterConsumers \/ Subscribed \/ RegistrationFails
             \/ JobPublishes
    BY <2>2 DEF RegisterConsumers, Subscribed, RegistrationFails, JobPublishes
  <2>3. CASE Background
    BY <2>3 DEF Background, Connect, ConnectGoes, Connected, ConnectFails,
                ConnectionLost, LostWhile, Closed, OnClose
  <2>4. CASE JobStarts \/ MessageArrives \/ Signal
    BY <2>4 DEF JobStarts, MessageArrives, Signal, Message, connVars
  <2>5. CASE CancelSettles \/ WorkerSettles
    BY <2>5 DEF CancelSettles, WorkerSettles, MayReject, connVars
  <2>6. CASE ResourcesSettle \/ BrokerRejects \/ BrokerSettles
    BY <2>6 DEF ResourcesSettle, BrokerRejects, BrokerSettles, Close,
                CloseFails, connVars
  <2>7. CASE UNCHANGED vars
    BY <2>7 DEF vars, connVars
  <2>8. QED
    BY <1>4, <2>1, <2>2, <2>3, <2>4, <2>5, <2>6, <2>7
    DEF SvcNext, HandleShutdown
<1>5. QED
  BY <1>2, <1>3, <1>4

-----------------------------------------------------------------------------
(* The invariant holds in every behaviour.                                  *)
THEOREM Invariance == SvcSpec => []IInv
<1>1. Init => IInv
  <2> SUFFICES ASSUME Init PROVE IInv
    OBVIOUS
  <2>1. ConnInv
    BY ConnInitInv DEF Init
  <2>2. TypeOK
    <3>1. ConnTypeOK
      BY <2>1 DEF ConnInv
    <3>2. consuming \in BOOLEAN
      BY DEF Init
    <3>4. job \in 0..JobEvents
      BY ShutdownAssumption DEF Init
    <3>3. QED
      BY <3>1, <3>2, <3>4 DEF Init, TypeOK, Parts
  <2>3. PhaseInv
    BY ShutdownAssumption
    DEF Init, ConnInit, PhaseInv, CrashesOnlyInShutdown, Active
  <2>4. QED
    BY <2>1, <2>2, <2>3 DEF IInv
<1>2. IInv /\ [SvcNext]_vars => IInv'
  <2> SUFFICES ASSUME IInv, SvcNext \/ UNCHANGED vars PROVE IInv'
    OBVIOUS
  <2>1. ConnInv'
    BY SvcSteps, ConnStepKeeps DEF IInv
  <2>2. TypeOK'
    BY <2>1, TypeStep DEF TypeOK, SvcTypeOK, ConnInv
  <2>3. PhaseInv'
    BY IntentionStep, JobStep, MessageStep, CrashStep DEF PhaseInv, Ended
  <2>4. QED
    BY <2>1, <2>2, <2>3 DEF IInv
<1>3. QED
  BY <1>1, <1>2, PTL DEF SvcSpec

(* The types, of the connection's variables as well.                        *)
THEOREM TypeCorrect == SvcSpec => []TypeOK
<1>1. IInv => TypeOK
  BY DEF IInv
<1>2. QED
  BY <1>1, Invariance, PTL

(* However many callers, faults and reconnections: before close() at most    *)
(* one connection is alive, the one in the fields, and no more others are    *)
(* open than connects have failed.                                          *)
THEOREM OneIsAlive == SvcSpec => []OneConnection
<1>1. IInv => OneConnection
  BY DEF IInv, ConnInv, SocketInv, OneConnection, Left
<1>2. QED
  BY <1>1, Invariance, PTL

(* A caller of getChannel never works with a dead channel before close().    *)
THEOREM ChannelsAreFresh == SvcSpec => []NoStaleChannel
<1>1. IInv => NoStaleChannel
  BY DEF IInv, ConnInv
<1>2. QED
  BY <1>1, Invariance, PTL

(* The broker is closed after the last event of a job, unless closing the    *)
(* worker failed.                                                           *)
THEOREM JobsFinishFirst == SvcSpec => []JobsKeepTheirChannel
<1>1. IInv => JobsKeepTheirChannel
  <2> SUFFICES ASSUME IInv, Up, callers[Publisher] = "using",
                      "worker" \notin failed
               PROVE  conns[got[Publisher]] = "live"
    BY DEF JobsKeepTheirChannel
  <2>1. ~intentional
    BY DEF IInv, PhaseInv, Active
  <2>2. QED
    BY <2>1, ShutdownAssumption DEF IInv, ConnInv, NoStaleChannel
<1>2. QED
  BY <1>1, Invariance, PTL

(* Outside the last phase no handler meets a closed channel.                *)
THEOREM OnlyShutdownCrashes == SvcSpec => []CrashesOnlyInShutdown
<1>1. IInv => CrashesOnlyInShutdown
  BY DEF IInv, PhaseInv
<1>2. QED
  BY <1>1, Invariance, PTL
===============================================================================
