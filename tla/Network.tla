------------------------------- MODULE Network -------------------------------
(***************************************************************************)
(* The network services (package net) and the clients that feed monitor    *)
(* events to them (package mon, helper.HTTPSender), as the commands        *)
(* `monitor run', `serve' and `simulate run' use them: the process starts  *)
(* the HTTP server, the NATS server and the monitor's route, subscribes to *)
(* the events, waits for a signal and stops.  Requests are served by       *)
(* goroutines of their own from the moment the HTTP server listens.        *)
(*                                                                         *)
(* The events of a client are its numbers; a request carries a few of      *)
(* them.  Each is fired to the hook and then published to NATS: to the     *)
(* server in the process, or to some other server that listens on the port *)
(* that the process was told.  What NATS does with it is not modelled.     *)
(***************************************************************************)
EXTENDS Naturals

CONSTANTS
  Clients,   \* who sends events
  MaxEvents, \* bound: events of a client
  Nil        \* no NATS server, connection or route

ASSUME NetworkAssumption == MaxEvents \in Nat /\ Nil \notin {"own", "other"}

VARIABLES
  opts,       \* Options: what is disabled, NatsListen, and is the address free?
  broker,     \* another NATS server at that port
  pc,         \* where the process is
  http,       \* is the HTTP server "new", "serving" or "shut" down?
  natsServer, \* NetworkManager.natsServer: Nil, "running" or "shut"
  conn,       \* NatsServer.nc: whom the connection leads to
  route,      \* has the monitor been enabled?
  nc,         \* the connection its handler was given
  client,     \* idle, sending, waiting, or gone before or ("left") after the body
  sent,       \* the last event each client has sent
  handler,    \* what the handler of a client's request does
  event,      \* the event of its request it is at
  answer,     \* the answer to a client's last request
  first,      \* the first event of that request
  fired, published \* the events given to the hook, and to NATS

main == <<pc, http, natsServer, conn, route, nc>>
requests == <<client, sent, handler, event, answer, first>>
events == <<fired, published>>
vars == <<opts, broker, main, requests, events>>

Events == Clients \X (1 .. MaxEvents)

Init ==
  /\ opts \in [httpDisabled : BOOLEAN, natsDisabled : BOOLEAN, monitorDisabled : BOOLEAN,
               natsListen : BOOLEAN, addressFree : BOOLEAN]
  /\ broker \in {"absent", "up"}
  /\ pc = "http" /\ http = "new"
  /\ natsServer = Nil /\ conn = Nil /\ route = FALSE /\ nc = Nil
  /\ client = [c \in Clients |-> "idle"]
  /\ sent = [c \in Clients |-> 0]
  /\ handler = [c \in Clients |-> "none"]
  /\ event = [c \in Clients |-> 0]
  /\ answer = [c \in Clients |-> "none"]
  /\ first = [c \in Clients |-> 1]
  /\ fired = {} /\ published = {}

(***************************************************************************)
(* The process.  When a step of Start fails the command returns the error  *)
(* and the process ends with all that it has started.                      *)
(***************************************************************************)
Dies ==
  /\ pc' = "failed" /\ http' = "shut"
  /\ handler' = [c \in Clients |-> "none"]
  /\ client' = [c \in Clients |-> IF client[c] \in {"sending", "waiting"} THEN "gone"
                                  ELSE client[c]]
  /\ UNCHANGED <<sent, event, answer, first>>

StartHTTP ==
  /\ pc = "http"
  /\ IF ~opts.httpDisabled /\ ~opts.addressFree
     THEN Dies
     ELSE /\ pc' = "nats"
          /\ http' = IF opts.httpDisabled THEN "new" ELSE "serving"
          /\ UNCHANGED requests
  /\ UNCHANGED <<opts, broker, natsServer, conn, route, nc, events>>

(* A server that is to listen on a port that is taken is never ready.      *)
StartNATS ==
  /\ pc = "nats"
  /\ natsServer' = IF opts.natsDisabled THEN Nil ELSE "running"
  /\ IF ~opts.natsDisabled /\ opts.natsListen /\ broker = "up"
     THEN Dies
     ELSE pc' = "monitor" /\ UNCHANGED <<http, requests>>
  /\ UNCHANGED <<opts, broker, conn, route, nc, events>>

(* NatsServer.Connection: the way into the server's own process is only    *)
(* taken when it listens; else the port must lead to another server.  The  *)
(* connection is kept.                                                     *)
Connection ==
  IF natsServer = Nil THEN Nil
  ELSE IF conn # Nil THEN conn
  ELSE IF opts.natsListen THEN "own"
  ELSE IF broker = "up" THEN "other" ELSE Nil

(* Without a connection the route is there all the same.                   *)
EnableMonitor ==
  /\ pc = "monitor"
  /\ IF ~opts.monitorDisabled /\ opts.httpDisabled
     THEN Dies /\ UNCHANGED <<conn, route, nc>>
     ELSE /\ pc' = "subscribe"
          /\ IF opts.monitorDisabled THEN UNCHANGED <<conn, route, nc>>
             ELSE conn' = Connection /\ nc' = Connection /\ route' = TRUE
          /\ UNCHANGED <<http, requests>>
  /\ UNCHANGED <<opts, broker, natsServer, events>>

(* The command subscribes, over the same connection if there is one.       *)
OnMonitorEvent ==
  /\ pc = "subscribe" /\ pc' = "wait"
  /\ conn' = Connection
  /\ UNCHANGED <<opts, broker, http, natsServer, route, nc, requests, events>>

(* Wait has had its signal; Stop begins.                                   *)
StopHTTP ==
  /\ pc = "wait" /\ pc' = "drain"
  /\ http' = IF http = "serving" THEN "shut" ELSE http
  /\ UNCHANGED <<opts, broker, natsServer, conn, route, nc, requests, events>>

DrainedAtOnce ==
  /\ pc = "drain" /\ pc' = "stopNATS"
  /\ UNCHANGED <<opts, broker, http, natsServer, conn, route, nc, requests, events>>

(* Shutdown waits until every request is answered, for as long as it takes.*)
Drained ==
  /\ pc = "drain" /\ pc' = "stopNATS"
  /\ \A c \in Clients : handler[c] = "none"
  /\ UNCHANGED <<opts, broker, http, natsServer, conn, route, nc, requests, events>>

(* The manager's own nc is never set, so nothing is drained.               *)
StopNATS ==
  /\ pc = "stopNATS" /\ pc' = "stopped"
  /\ natsServer' = IF natsServer = Nil THEN Nil ELSE "shut"
  /\ UNCHANGED <<opts, broker, http, conn, route, nc, requests, events>>

(***************************************************************************)
(* A client: SendValue posts the events and waits for the answer, whose    *)
(* status it ignores; an error ends the feed, and so does the 15 s timeout.*)
(* Nothing limits how long the body may take to arrive.                    *)
(***************************************************************************)
Send(c, n) ==
  /\ client[c] = "idle" /\ sent[c] + n <= MaxEvents
  /\ sent' = [sent EXCEPT ![c] = @ + n]
  /\ first' = [first EXCEPT ![c] = sent[c] + 1]
  /\ event' = [event EXCEPT ![c] = sent[c] + 1]
  /\ IF http # "serving"
     THEN /\ client' = [client EXCEPT ![c] = "gone"]
          /\ answer' = [answer EXCEPT ![c] = "refused"] /\ UNCHANGED handler
     ELSE IF ~route
     THEN answer' = [answer EXCEPT ![c] = "404"] /\ UNCHANGED <<client, handler>>
     ELSE /\ client' = [client EXCEPT ![c] = "sending"]
          /\ answer' = [answer EXCEPT ![c] = "none"]
          /\ handler' = [handler EXCEPT ![c] = "decode"]
  /\ UNCHANGED <<opts, broker, main, events>>

(* The rest of the body arrives.                                           *)
SendBody(c) ==
  /\ client[c] = "sending"
  /\ client' = [client EXCEPT ![c] = "waiting"]
  /\ UNCHANGED <<opts, broker, main, sent, handler, event, answer, first, events>>

GiveUp(c) ==
  /\ client[c] \in {"sending", "waiting"}
  /\ client' = [client EXCEPT ![c] = IF @ = "sending" THEN "gone" ELSE "left"]
  /\ UNCHANGED <<opts, broker, main, sent, handler, event, answer, first, events>>

(***************************************************************************)
(* MonitorRequestHandler reads the events; then, for each of them, FireHook*)
(* and Publish.                                                            *)
(***************************************************************************)
(* The handler ends with this answer, which a client that is still there   *)
(* takes; it goes on with its next events.                                 *)
Respond(c, how) ==
  /\ handler' = [handler EXCEPT ![c] = "none"]
  /\ answer' = [answer EXCEPT ![c] = how]
  /\ client' = [client EXCEPT ![c] = IF @ \in {"gone", "left"} THEN @ ELSE "idle"]

(* A body that has arrived is read, also when its client has left since.   *)
Decode(c) ==
  /\ handler[c] = "decode" /\ client[c] \in {"waiting", "left"}
  /\ handler' = [handler EXCEPT ![c] = "fire"]
  /\ UNCHANGED <<opts, broker, main, client, sent, event, answer, first, events>>

DecodeFails(c) ==
  /\ handler[c] = "decode"
  /\ Respond(c, "400")
  /\ UNCHANGED <<opts, broker, main, sent, event, first, events>>

(* The event is null, and the Recoverer answers for the handler, which     *)
(* panics; or it cannot be marshalled.                                     *)
EventFails(c) ==
  /\ handler[c] = "fire"
  /\ Respond(c, "500")
  /\ UNCHANGED <<opts, broker, main, sent, event, first, events>>

FireHook(c) ==
  /\ handler[c] = "fire"
  /\ handler' = [handler EXCEPT ![c] = "publish"]
  /\ fired' = fired \cup {<<c, event[c]>>}
  /\ UNCHANGED <<opts, broker, main, client, sent, event, answer, first, published>>

NextEventPastEnd(c) ==
  IF event[c] > sent[c]
  THEN Respond(c, "200") /\ UNCHANGED event
  ELSE /\ event' = [event EXCEPT ![c] = @ + 1]
       /\ handler' = [handler EXCEPT ![c] = "fire"]
       /\ UNCHANGED <<client, answer>>

NextEvent(c) ==
  IF event[c] = sent[c]
  THEN Respond(c, "200") /\ UNCHANGED event
  ELSE /\ event' = [event EXCEPT ![c] = @ + 1]
       /\ handler' = [handler EXCEPT ![c] = "fire"]
       /\ UNCHANGED <<client, answer>>

(* What the connection leads to may be gone without its knowing.           *)
Publish(c) ==
  /\ handler[c] = "publish" /\ nc # Nil
  /\ published' = published \cup {<<c, event[c]>>}
  /\ NextEvent(c)
  /\ UNCHANGED <<opts, broker, main, sent, first, fired>>

PublishFailsRetries(c) ==
  /\ handler[c] = "publish"
  /\ UNCHANGED vars

PublishFailsGoesOn(c) ==
  /\ handler[c] = "publish"
  /\ NextEvent(c)
  /\ UNCHANGED <<opts, broker, main, sent, first, events>>

(* Publishing fails without a connection, and for an event too large.      *)
PublishFails(c) ==
  /\ handler[c] = "publish"
  /\ Respond(c, "500")
  /\ UNCHANGED <<opts, broker, main, sent, event, first, events>>

(***************************************************************************)
(* The other NATS server comes and goes.                                   *)
(***************************************************************************)
BrokerStarts ==
  /\ broker = "absent" /\ broker' = "up"
  /\ ~(natsServer = "running" /\ opts.natsListen)
  /\ UNCHANGED <<opts, main, requests, events>>

BrokerStops ==
  /\ broker = "up" /\ broker' = "gone"
  /\ UNCHANGED <<opts, main, requests, events>>

-----------------------------------------------------------------------------
Starting == StartHTTP \/ StartNATS \/ EnableMonitor \/ OnMonitorEvent
Stopping == Drained \/ StopNATS
Reader(c) == Decode(c) \/ DecodeFails(c)
Handler(c) == EventFails(c) \/ FireHook(c) \/ Publish(c) \/ PublishFails(c)

Next ==
  \/ Starting \/ StopHTTP \/ Stopping
  \/ \E c \in Clients : SendBody(c) \/ GiveUp(c) \/ Reader(c) \/ Handler(c)
  \/ \E c \in Clients, n \in 1 .. MaxEvents : Send(c, n)
  \/ BrokerStarts \/ BrokerStops

Spec == Init /\ [][Next]_vars

(* The process and its handlers go on; the clients and the body of a       *)
(* request need not.  A client that is gone has closed its connection,     *)
(* which ends the reading of its body.                                     *)
FairSpec ==
  /\ Spec
  /\ WF_vars(Starting) /\ WF_vars(Stopping)
  /\ \A c \in Clients : /\ WF_vars(Handler(c))
                        /\ WF_vars(client[c] # "sending" /\ Reader(c))

-----------------------------------------------------------------------------
(* Every variable has its type, and a request is at one of its events.     *)
TypeOK ==
  /\ opts \in [httpDisabled : BOOLEAN, natsDisabled : BOOLEAN, monitorDisabled : BOOLEAN,
               natsListen : BOOLEAN, addressFree : BOOLEAN]
  /\ broker \in {"absent", "up", "gone"}
  /\ pc \in {"http", "nats", "monitor", "subscribe", "wait", "drain", "stopNATS", "stopped",
             "failed"}
  /\ http \in {"new", "serving", "shut"}
  /\ natsServer \in {Nil, "running", "shut"}
  /\ {conn, nc} \subseteq {Nil, "own", "other"}
  /\ route \in BOOLEAN
  /\ client \in [Clients -> {"idle", "sending", "waiting", "gone", "left"}]
  /\ sent \in [Clients -> 0 .. MaxEvents]
  /\ handler \in [Clients -> {"none", "decode", "fire", "publish"}]
  /\ event \in [Clients -> Nat] /\ first \in [Clients -> Nat \ {0}]
  /\ answer \in [Clients -> {"none", "refused", "404", "400", "500", "200"}]
  /\ \A c \in Clients : handler[c] # "none" => event[c] \in first[c] .. sent[c]
  /\ fired \subseteq Events /\ published \subseteq Events

(* A client that is answered 200 knows that every event of its request has *)
(* been fired and published; one that is answered 500 that the events      *)
(* before one of them were, that this one was not published, though the    *)
(* hook may have seen it, and that the rest was neither fired nor          *)
(* published; and any other answer says that none was.                     *)
AnswerTellsAll ==
  \A c \in Clients : \A i \in first[c] .. sent[c] :
    /\ answer[c] = "200" => <<c, i>> \in fired /\ <<c, i>> \in published
    /\ answer[c] = "500" => /\ <<c, i>> \in published <=> i < event[c]
                            /\ (i < event[c]) => <<c, i>> \in fired
                            /\ (<<c, i>> \in fired) => i <= event[c]
    /\ answer[c] \in {"refused", "404", "400"} => <<c, i>> \notin fired /\ <<c, i>> \notin published

(* Once the HTTP server's Stop has returned, or the start of a service has *)
(* failed, nothing more is given to the hook or to NATS, whatever requests *)
(* were under way: the NATS server is shut down with nobody publishing.    *)
NothingAfterStop ==
  [][(pc \in {"stopNATS", "stopped", "failed"}) => UNCHANGED events]_vars

(* Stop returns, unless a client keeps it waiting for the rest of a body.  *)
StopReturns ==
  pc = "drain" ~> pc = "stopped" \/ \E c \in Clients : client[c] = "sending"
=============================================================================
