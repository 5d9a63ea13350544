--------------------------- MODULE BrokerConnection ---------------------------
(***************************************************************************)
(* The connection of a RabbitMQDomainBroker: getChannel shares one         *)
(* connection among all callers (publish, subscribe, checkConnection),     *)
(* close() gives it up, and a connection that is lost takes the process    *)
(* with it.  Everything runs in one event loop, interleaved at each await. *)
(***************************************************************************)
EXTENDS Naturals, FiniteSets

CONSTANTS Conns,      \* bound: connections opened in the life of a process
          Callers,    \* concurrent callers of getChannel
          MaxFaults,  \* bound: failing calls and lost connections
          None

ASSUME ConnectionAssumption ==
    /\ Conns \subseteq Nat /\ None \notin Conns /\ MaxFaults \in Nat

VARIABLES
  conns,        \* each connection: how far it came
  field,        \* this.connection and this.channel
  connecting,   \* this.connecting: the shared promise
  closing,      \* this.closing: the connection close() has taken out
  intentional,  \* this.intentionalClose
  callers,      \* what each caller awaits
  got,          \* the channel getChannel resolved with
  exited,       \* the process: "no", "exit" (process.exit(1)) or "crash"
  connFaults

connVars == <<conns, field, connecting, closing, intentional, callers, got,
              exited, connFaults>>

Up == exited = "no"
(* Sockets the server sees: they also keep the event loop alive.            *)
Open == {c \in Conns : conns[c] \in {"dialed", "ready", "live", "closing"}}
Unused == {c \in Conns : conns[c] = "unused"}
NextConn == {c \in Unused : \A d \in Unused : c <= d}
Set(c, state) == conns' = [conns EXCEPT ![c] = state]
ConnFault == connFaults < MaxFaults /\ connFaults' = connFaults + 1

ConnInit == /\ conns = [c \in Conns |-> "unused"]
            /\ field = None /\ connecting = None /\ closing = None
            /\ intentional = FALSE
            /\ callers = [u \in Callers |-> "idle"]
            /\ got = [u \in Callers |-> None]
            /\ exited = "no" /\ connFaults = 0

-----------------------------------------------------------------------------
(* getChannel                                                               *)

UseChannel(u) ==
    /\ Up /\ callers[u] = "idle" /\ field # None
    /\ callers' = [callers EXCEPT ![u] = "using"]
    /\ got' = [got EXCEPT ![u] = field]
    /\ UNCHANGED <<conns, field, connecting, closing, intentional, exited,
                   connFaults>>

AwaitConnecting(u) ==
    /\ Up /\ callers[u] = "idle" /\ field = None /\ connecting # None
    /\ callers' = [callers EXCEPT ![u] = "waiting"]
    /\ UNCHANGED <<conns, field, connecting, closing, intentional, got, exited,
                   connFaults>>

ConnectAlone(u) ==                          \* mutant: no shared promise
    /\ Up /\ callers[u] = "idle" /\ field = None
    /\ \E c \in NextConn : Set(c, "dialing") /\ connecting' = c
    /\ callers' = [callers EXCEPT ![u] = "waiting"]
    /\ UNCHANGED <<field, closing, intentional, got, exited, connFaults>>
StartConnect(u) ==
    /\ Up /\ callers[u] = "idle" /\ field = None /\ connecting = None
    /\ \E c \in NextConn : Set(c, "dialing") /\ connecting' = c
    /\ callers' = [callers EXCEPT ![u] = "waiting"]
    /\ UNCHANGED <<field, closing, intentional, got, exited, connFaults>>

-----------------------------------------------------------------------------
(* connect(): dial, open a channel, listen to 'close', assert the exchange  *)

(* The promise settles for everyone who awaits it.                          *)
Settle(c) ==
    /\ connecting' = None
    /\ callers' = [u \in Callers |-> IF callers[u] # "waiting" THEN callers[u]
                                     ELSE IF c = None THEN "idle" ELSE "using"]
    /\ got' = [u \in Callers |-> IF callers[u] = "waiting" THEN c ELSE got[u]]

ConnectGoes(c) ==
    /\ Up /\ connecting = c
    /\ \/ conns[c] = "dialing" /\ Set(c, "dialed")
       \/ conns[c] = "dialed" /\ Set(c, "ready")
    /\ UNCHANGED <<field, connecting, closing, intentional, callers, got,
                   exited, connFaults>>

Connected(c) ==
    /\ Up /\ conns[c] = "ready" /\ connecting = c
    /\ Set(c, "live")
    /\ field' = c
    /\ Settle(c)
    /\ UNCHANGED <<closing, intentional, exited, connFaults>>

ConnectHangs(c) ==                          \* mutant: the promise never settles
    /\ Up /\ connecting = c
    /\ ConnFault
    /\ Set(c, IF conns[c] = "dialing" THEN "closed" ELSE conns[c])
    /\ connecting' = None
    /\ UNCHANGED <<field, closing, intentional, callers, got, exited>>
(* A step of connect() rejects.  Nothing closes what was opened by then.    *)
ConnectFails(c) ==
    /\ Up /\ connecting = c
    /\ ConnFault
    /\ Set(c, IF conns[c] = "dialing" THEN "closed" ELSE conns[c])
    /\ Settle(None)
    /\ UNCHANGED <<field, closing, intentional, exited>>

(* connection.on('close'), attached once the channel is open: it clears the *)
(* fields, whichever connection they hold by now.                           *)
OnClose(exit) ==
    /\ field' = None
    /\ exited' = IF intentional THEN exited ELSE exit

(* The server or the network closes a connection.                           *)
LostWhile(c, exit) ==
    /\ Up /\ conns[c] \in {"ready", "live"}
    /\ ConnFault
    /\ Set(c, "closed")
    /\ OnClose(exit)
    /\ IF connecting = c THEN Settle(None)
       ELSE UNCHANGED <<connecting, callers, got>>
    /\ UNCHANGED <<closing, intentional>>
LostAndIgnored(c) == LostWhile(c, "no")     \* mutant: waits for a reconnect
ConnectionLost(c) == LostWhile(c, "exit")

(* The caller's publication or subscription is done.                        *)
Release(u) ==
    /\ Up /\ callers[u] = "using"
    /\ callers' = [callers EXCEPT ![u] = "idle"]
    /\ got' = [got EXCEPT ![u] = None]
    /\ UNCHANGED <<conns, field, connecting, closing, intentional, exited,
                   connFaults>>

-----------------------------------------------------------------------------
(* close(): takes the fields out at once, then awaits the channel's and the *)
(* connection's close.  A connect() in flight is not touched.               *)

Close ==
    /\ Up /\ closing = None
    /\ intentional' = TRUE
    /\ closing' = field
    /\ field' = None
    /\ IF field = None THEN UNCHANGED conns ELSE Set(field, "closing")
    /\ UNCHANGED <<connecting, callers, got, exited, connFaults>>

(* channel.close() rejects: connection.close() is not reached.              *)
CloseFails ==
    /\ Up /\ closing # None
    /\ ConnFault
    /\ Set(closing, "live")
    /\ closing' = None
    /\ UNCHANGED <<field, connecting, intentional, callers, got, exited>>

(* connection.close() is answered, and 'close' emitted.                     *)
Closed ==
    /\ Up /\ closing # None
    /\ Set(closing, "closed")
    /\ closing' = None
    /\ OnClose("exit")
    /\ UNCHANGED <<connecting, intentional, callers, got, connFaults>>

-----------------------------------------------------------------------------
GetChannel(u) == UseChannel(u) \/ AwaitConnecting(u) \/ StartConnect(u)
Connect(c) == ConnectGoes(c) \/ Connected(c)

-----------------------------------------------------------------------------
(* Every variable stays in its type: in particular, who uses a channel has  *)
(* one.                                                                     *)
ConnTypeOK ==
    /\ conns \in [Conns -> {"unused", "dialing", "dialed", "ready", "live",
                            "closing", "closed"}]
    /\ {field, connecting, closing} \subseteq Conns \cup {None}
    /\ intentional \in BOOLEAN
    /\ callers \in [Callers -> {"idle", "waiting", "using"}]
    /\ got \in [Callers -> Conns \cup {None}]
    /\ \A u \in Callers : callers[u] = "using" <=> got[u] # None
    /\ exited \in {"no", "exit", "crash"}
    /\ connFaults \in 0..MaxFaults

(* However many callers ask at once, before close() at most one connection  *)
(* is established, and it is the one in the fields; each other one that is  *)
(* open was left behind by a connect() that failed.                         *)
OneConnection ==
    (Up /\ ~intentional) =>
      /\ \A c \in Conns : conns[c] = "live" => c = field
      /\ Cardinality(Open \ {field, connecting}) <= connFaults

(* A caller never works with a dead channel while the service runs: losing  *)
(* the connection ends the process, so that no consumer goes silent.        *)
NoStaleChannel ==
    \A u \in Callers :
      (Up /\ ~intentional /\ callers[u] = "using") => conns[got[u]] = "live"

(* Who awaits the shared promise of getChannel gets a channel or an error,  *)
(* whatever close() and lost connections do meanwhile.                      *)
WaitersAreServed ==
    \A u \in Callers : callers[u] = "waiting" ~> (callers[u] # "waiting" \/ ~Up)
===============================================================================
