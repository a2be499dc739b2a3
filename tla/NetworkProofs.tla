---------------------------- MODULE NetworkProofs ----------------------------
(***************************************************************************)
(* Proofs about Network for any clients and any number of events: the      *)
(* types, that the answer to a request tells what became of its events, and*)
(* that nothing more is fired or published once the server has stopped.    *)
(***************************************************************************)
EXTENDS Network, TLAPS

(* The requests: numbers in order, and those being served at an event of   *)
(* theirs, with no answer yet, their client waiting or gone.               *)
Served ==
  \A c \in Clients :
    /\ first[c] \in Nat /\ sent[c] \in Nat /\ event[c] \in Nat
    /\ handler[c] # "none" => /\ answer[c] = "none" /\ event[c] \in first[c] .. sent[c]
                              /\ client[c] # "idle"

(* No event is fired or published before its client has sent it.           *)
SentFirst ==
  \A c \in Clients, i \in Nat :
    <<c, i>> \in fired \/ <<c, i>> \in published => i <= sent[c]

(* Of a request that is being served, what came before the event at hand   *)
(* has been fired and published, and the event itself fired at most.       *)
UpToEvent ==
  \A c \in Clients : \A i \in first[c] .. sent[c] :
    /\ handler[c] = "decode" => <<c, i>> \notin fired /\ <<c, i>> \notin published
                                /\ event[c] = first[c]
    /\ handler[c] = "fire" => /\ <<c, i>> \in fired <=> i < event[c]
                              /\ <<c, i>> \in published <=> i < event[c]
    /\ handler[c] = "publish" => /\ <<c, i>> \in fired <=> i <= event[c]
                                 /\ <<c, i>> \in published <=> i < event[c]

(* A server that is stopped takes no request, and has drained those it had.*)
StoppedQuiet ==
  /\ pc \in {"drain", "stopNATS", "stopped", "failed"} => http # "serving"
  /\ pc \in {"stopNATS", "stopped", "failed"} => \A c \in Clients : handler[c] = "none"

(* Initially the types are right and nothing has been sent.                *)
LEMMA NetInit == Init => TypeOK /\ Served /\ SentFirst /\ UpToEvent /\ AnswerTellsAll /\ StoppedQuiet
<1> SUFFICES ASSUME Init
             PROVE  TypeOK /\ Served /\ SentFirst /\ UpToEvent /\ AnswerTellsAll /\ StoppedQuiet
  OBVIOUS
<1> USE NetworkAssumption DEF Init
<1>1. TypeOK
  <2>1. route \in BOOLEAN /\ fired = {} /\ published = {}
    OBVIOUS
  <2>2. /\ sent \in [Clients -> 0 .. MaxEvents]
        /\ event \in [Clients -> Nat] /\ first \in [Clients -> Nat \ {0}]
    OBVIOUS
  <2>3. /\ client \in [Clients -> {"idle", "sending", "waiting", "gone", "left"}]
        /\ handler \in [Clients -> {"none", "decode", "fire", "publish"}]
        /\ answer \in [Clients -> {"none", "refused", "404", "400", "500", "200"}]
        /\ \A c \in Clients : handler[c] = "none"
    OBVIOUS
  <2>4. QED
    BY <2>1, <2>2, <2>3 DEF TypeOK
<1>2. Served /\ SentFirst /\ UpToEvent /\ AnswerTellsAll
  BY DEF Served, SentFirst, UpToEvent, AnswerTellsAll
<1>3. StoppedQuiet
  BY DEF StoppedQuiet
<1>4. QED
  BY <1>1, <1>2, <1>3

(* The event a handler is at is one of the events.                         *)
LEMMA EventOfRequest ==
  ASSUME TypeOK, NEW c \in Clients, handler[c] # "none"
  PROVE  <<c, event[c]>> \in Events
<1>1. event[c] \in first[c] .. sent[c] /\ first[c] \in Nat \ {0} /\ sent[c] \in 0 .. MaxEvents
  BY DEF TypeOK
<1>2. event[c] \in 1 .. MaxEvents
  BY <1>1, NetworkAssumption
<1>3. QED
  BY <1>2 DEF Events

(* What follows an event of a request, but for its last, is one as well.   *)
LEMMA NextOfRequest ==
  ASSUME NEW a \in Nat, NEW b \in Nat, NEW i \in a .. b, i # b
  PROVE  i + 1 \in a .. b
OBVIOUS

(* No step breaks the types.                                               *)
LEMMA TypeStep ==
  ASSUME TypeOK, [Next]_vars
  PROVE  TypeOK'
<1> USE NetworkAssumption DEF TypeOK
<1>1. CASE StartHTTP
  BY <1>1 DEF StartHTTP, Dies, requests, events
<1>2. CASE StartNATS
  BY <1>2 DEF StartNATS, Dies, requests, events
<1>3. CASE EnableMonitor
  <2>1. {conn', nc'} \subseteq {Nil, "own", "other"} /\ route' \in BOOLEAN
    BY <1>3, Zenon DEF EnableMonitor, Connection
  <2>2. CASE Dies
    BY <1>3, <2>1, <2>2 DEF EnableMonitor, Dies, events
  <2>3. CASE pc' = "subscribe" /\ UNCHANGED <<http, requests>>
    BY <1>3, <2>1, <2>3 DEF EnableMonitor, requests, events
  <2>4. QED
    BY <1>3, <2>2, <2>3 DEF EnableMonitor
<1>4. CASE OnMonitorEvent
  BY <1>4 DEF OnMonitorEvent, Connection, requests, events
<1>5. CASE StopHTTP
  BY <1>5 DEF StopHTTP, requests, events
<1>6. CASE Drained
  BY <1>6 DEF Drained, requests, events
<1>7. CASE StopNATS
  BY <1>7 DEF StopNATS, requests, events
<1>8. ASSUME NEW c \in Clients, FireHook(c) PROVE TypeOK'
  <2>1. <<c, event[c]>> \in Events
    BY <1>8, EventOfRequest DEF FireHook
  <2>2. fired' \subseteq Events /\ handler' \in [Clients -> {"none", "decode", "fire", "publish"}]
    BY <1>8, <2>1 DEF FireHook
  <2>3. \A d \in Clients : handler'[d] # "none" => handler[d] # "none"
    BY <1>8 DEF FireHook
  <2>4. QED
    BY <1>8, <2>2, <2>3 DEF FireHook, main
<1>9. ASSUME NEW c \in Clients, Publish(c) PROVE TypeOK'
  <2>1. <<c, event[c]>> \in Events
    BY <1>9, EventOfRequest DEF Publish
  <2>2. published' = published \cup {<<c, event[c]>>}
    BY <1>9 DEF Publish
  <2>5. /\ event' \in [Clients -> Nat]
        /\ client' \in [Clients -> {"idle", "sending", "waiting", "gone", "left"}]
        /\ handler' \in [Clients -> {"none", "decode", "fire", "publish"}]
        /\ answer' \in [Clients -> {"none", "refused", "404", "400", "500", "200"}]
        /\ \A d \in Clients : handler'[d] # "none" => event'[d] \in first[d] .. sent[d]
    <3>1. CASE event[c] = sent[c]
      BY <1>9, <3>1 DEF Publish, NextEvent, Respond
    <3>2. CASE event[c] # sent[c]
      <4>1. event[c] + 1 \in first[c] .. sent[c]
        <5>1. handler[c] # "none"
          BY <1>9 DEF Publish
        <5>2. event[c] \in first[c] .. sent[c] /\ sent[c] \in Nat /\ first[c] \in Nat
          BY <5>1
        <5>3. QED
          BY <3>2, <5>2
      <4>2. /\ event' = [event EXCEPT ![c] = event[c] + 1]
            /\ handler' = [handler EXCEPT ![c] = "fire"]
            /\ UNCHANGED <<client, answer>>
        BY <1>9, <3>2 DEF Publish, NextEvent
      <4>3. QED
        BY <4>1, <4>2
    <3>3. QED
      BY <3>1, <3>2
  <2>6. published' \subseteq Events
    BY <2>1, <2>2
  <2>7. UNCHANGED <<opts, broker, main, sent, first, fired>>
    BY <1>9 DEF Publish
  <2>8. QED
    BY <2>5, <2>6, <2>7 DEF main
<1>10. ASSUME NEW c \in Clients, PublishFails(c) PROVE TypeOK'
  BY <1>10 DEF PublishFails, Respond, main, events
<1>11. ASSUME NEW c \in Clients, Decode(c) PROVE TypeOK'
  BY <1>11 DEF Decode, main, events
<1>12. ASSUME NEW c \in Clients, DecodeFails(c) PROVE TypeOK'
  BY <1>12 DEF DecodeFails, Respond, main, events
<1>20. ASSUME NEW c \in Clients, EventFails(c) PROVE TypeOK'
  BY <1>20 DEF EventFails, Respond, main, events
<1>21. ASSUME NEW c \in Clients, SendBody(c) PROVE TypeOK'
  BY <1>21 DEF SendBody, main, events
<1>13. ASSUME NEW c \in Clients, GiveUp(c) PROVE TypeOK'
  BY <1>13 DEF GiveUp, main, events
<1>14. ASSUME NEW c \in Clients, NEW n \in 1 .. MaxEvents, Send(c, n) PROVE TypeOK'
  <2>1. /\ sent' \in [Clients -> 0 .. MaxEvents]
        /\ event' \in [Clients -> Nat] /\ first' \in [Clients -> Nat \ {0}]
        /\ first'[c] = event'[c] /\ event'[c] <= sent'[c]
        /\ \A d \in Clients \ {c} : sent'[d] = sent[d] /\ event'[d] = event[d] /\ first'[d] = first[d]
    BY <1>14 DEF Send
  <2>2. /\ client' \in [Clients -> {"idle", "sending", "waiting", "gone", "left"}]
        /\ handler' \in [Clients -> {"none", "decode", "fire", "publish"}]
        /\ answer' \in [Clients -> {"none", "refused", "404", "400", "500", "200"}]
        /\ \A d \in Clients \ {c} : handler'[d] = handler[d]
    <3>1. CASE http # "serving"
      BY <1>14, <3>1 DEF Send
    <3>2. CASE http = "serving" /\ ~ route
      BY <1>14, <3>2 DEF Send
    <3>3. CASE http = "serving" /\ route
      BY <1>14, <3>3 DEF Send
    <3>4. QED
      BY <3>1, <3>2, <3>3
  <2>3. \A d \in Clients : handler'[d] # "none" => event'[d] \in first'[d] .. sent'[d]
    <3>1. event'[c] \in first'[c] .. sent'[c]
      BY <2>1
    <3>2. QED
      BY <2>1, <2>2, <3>1
  <2>4. QED
    BY <1>14, <2>1, <2>2, <2>3 DEF Send, main, events
<1>16. CASE BrokerStarts
  BY <1>16 DEF BrokerStarts, main, requests, events
<1>17. CASE BrokerStops
  BY <1>17 DEF BrokerStops, main, requests, events
<1>18. CASE UNCHANGED vars
  BY <1>18 DEF vars, main, requests, events
<1>19. QED
  BY <1>1, <1>2, <1>3, <1>4, <1>5, <1>6, <1>7, <1>8, <1>9, <1>10, <1>11, <1>12, <1>13, <1>14,
     <1>16, <1>17, <1>18, <1>20, <1>21 DEF Next, Starting, Stopping, Reader, Handler

(* A step keeps what is known of the requests.                             *)
LEMMA RequestStep ==
  ASSUME TypeOK, Served, SentFirst, UpToEvent, AnswerTellsAll, [Next]_vars
  PROVE  Served' /\ SentFirst' /\ UpToEvent' /\ AnswerTellsAll'
<1> DEFINE Known == Served /\ SentFirst /\ UpToEvent /\ AnswerTellsAll
<1> SUFFICES Known'
  OBVIOUS
<1> USE NetworkAssumption DEF TypeOK, Served, SentFirst, UpToEvent, AnswerTellsAll
<1>1. ASSUME UNCHANGED <<client, sent, handler, event, answer, first, fired, published>>
      PROVE  Known'
  BY <1>1
<1>2. ASSUME Dies, UNCHANGED <<fired, published>>
      PROVE  Known'
  BY <1>2 DEF Dies
<1>3. CASE StartHTTP
  BY <1>1, <1>2, <1>3 DEF StartHTTP, requests, events
<1>4. CASE StartNATS
  BY <1>1, <1>2, <1>4 DEF StartNATS, requests, events
<1>5. CASE EnableMonitor
  BY <1>1, <1>2, <1>5 DEF EnableMonitor, requests, events
<1>6. CASE OnMonitorEvent \/ StopHTTP \/ Stopping \/ BrokerStarts \/ BrokerStops
  BY <1>1, <1>6 DEF OnMonitorEvent, StopHTTP, Stopping, Drained, StopNATS, BrokerStarts,
     BrokerStops, requests, events
<1>7. ASSUME NEW c \in Clients, FireHook(c) PROVE Known'
  BY <1>7 DEF FireHook
<1>8. ASSUME NEW c \in Clients, Publish(c) PROVE Known'
  <2>1. CASE event[c] = sent[c]
    BY <1>8, <2>1 DEF Publish, NextEvent, Respond
  <2>2. CASE event[c] # sent[c]
    <3>1. /\ event' = [event EXCEPT ![c] = event[c] + 1]
          /\ handler' = [handler EXCEPT ![c] = "fire"]
          /\ published' = published \cup {<<c, event[c]>>}
          /\ UNCHANGED <<sent, first, answer, fired, client>>
      BY <1>8, <2>2 DEF Publish, NextEvent
    <3>7. handler[c] = "publish" /\ handler[c] # "none"
      BY <1>8 DEF Publish
    <3>8. event[c] \in first[c] .. sent[c] /\ first[c] \in Nat /\ sent[c] \in Nat
      BY <3>7
    <3>2. handler[c] = "publish" /\ event[c] + 1 \in first[c] .. sent[c]
      BY <2>2, <3>7, <3>8, NextOfRequest
    <3>3. Served' /\ AnswerTellsAll'
      BY <3>1, <3>2
    <3>4. SentFirst'
      BY <3>1, <3>2
    <3>5. UpToEvent'
      <4>1. SUFFICES ASSUME NEW d \in Clients, NEW i \in first[d] .. sent[d]
                     PROVE  UpToEvent!(d)!(i)'
        BY <3>1
      <4>2. CASE d = c
        <5>1. /\ <<c, i>> \in fired <=> i <= event[c]
              /\ <<c, i>> \in published <=> i < event[c]
          BY <3>2, <4>2
        <5>2. handler'[c] = "fire" /\ event'[c] = event[c] + 1 /\ i \in Nat
          BY <3>1, <3>8, <4>2
        <5>3. /\ <<c, i>> \in fired' <=> i < event'[c]
              /\ <<c, i>> \in published' <=> i < event'[c]
          BY <3>1, <3>8, <5>1, <5>2
        <5>4. QED
          BY <4>2, <5>2, <5>3
      <4>3. CASE d # c
        BY <3>1, <4>3
      <4>4. QED
        BY <4>2, <4>3
    <3>6. QED
      BY <3>3, <3>4, <3>5
  <2>3. QED
    BY <2>1, <2>2
<1>9. ASSUME NEW c \in Clients, PublishFails(c) PROVE Known'
  BY <1>9 DEF PublishFails, Respond, events
<1>10. ASSUME NEW c \in Clients, Decode(c) PROVE Known'
  BY <1>10 DEF Decode, events
<1>11. ASSUME NEW c \in Clients, DecodeFails(c) PROVE Known'
  BY <1>11 DEF DecodeFails, Respond, events
<1>16. ASSUME NEW c \in Clients, EventFails(c) PROVE Known'
  BY <1>16 DEF EventFails, Respond, events
<1>17. ASSUME NEW c \in Clients, SendBody(c) PROVE Known'
  BY <1>17 DEF SendBody, events
<1>12. ASSUME NEW c \in Clients, GiveUp(c) PROVE Known'
  BY <1>12 DEF GiveUp, events
<1>13. ASSUME NEW c \in Clients, NEW n \in 1 .. MaxEvents, Send(c, n) PROVE Known'
  <2>1. /\ sent' = [sent EXCEPT ![c] = sent[c] + n]
        /\ first' = [first EXCEPT ![c] = sent[c] + 1]
        /\ event' = [event EXCEPT ![c] = sent[c] + 1]
        /\ UNCHANGED <<fired, published>>
    BY <1>13 DEF Send, events
  <2>2. /\ handler' \in [Clients -> {"none", "decode", "fire", "publish"}]
        /\ answer' \in [Clients -> {"none", "refused", "404", "400", "500", "200"}]
        /\ \A d \in Clients \ {c} : handler'[d] = handler[d] /\ answer'[d] = answer[d]
                                    /\ client'[d] = client[d]
        /\ \/ handler'[c] = "decode" /\ answer'[c] = "none" /\ client'[c] = "sending"
           \/ handler'[c] = handler[c] /\ answer'[c] \in {"refused", "404"}
    <3>1. CASE http # "serving"
      BY <1>13, <3>1 DEF Send
    <3>2. CASE http = "serving" /\ ~ route
      <4>1. answer' = [answer EXCEPT ![c] = "404"] /\ handler' = handler /\ client' = client
        BY <1>13, <3>2, Zenon DEF Send
      <4>2. QED
        BY <4>1
    <3>3. CASE http = "serving" /\ route
      <4>1. /\ answer' = [answer EXCEPT ![c] = "none"]
            /\ handler' = [handler EXCEPT ![c] = "decode"]
            /\ client' = [client EXCEPT ![c] = "sending"]
        BY <1>13, <3>3, Zenon DEF Send
      <4>2. QED
        BY <4>1
    <3>4. QED
      BY <3>1, <3>2, <3>3
  <2>3. \A i \in first'[c] .. sent'[c] : <<c, i>> \notin fired /\ <<c, i>> \notin published
    BY <2>1
  <2>4. handler[c] = "none"
    BY <1>13 DEF Send
  <2>5. Served'
    <3>1. \A d \in Clients \ {c} : first'[d] = first[d] /\ sent'[d] = sent[d] /\ event'[d] = event[d]
      BY <2>1
    <3>2. first'[c] = sent[c] + 1 /\ event'[c] = sent[c] + 1 /\ sent'[c] = sent[c] + n
      BY <2>1
    <3>3. QED
      BY <2>2, <2>4, <3>1, <3>2
  <2>6. SentFirst'
    BY <2>1
  <2>7. UpToEvent' /\ AnswerTellsAll'
    <3>1. \A d \in Clients \ {c} : first'[d] = first[d] /\ sent'[d] = sent[d] /\ event'[d] = event[d]
      BY <2>1
    <3>2. first'[c] = event'[c]
      BY <2>1
    <3>3. UpToEvent'
      <4>1. SUFFICES ASSUME NEW d \in Clients, NEW i \in first'[d] .. sent'[d]
                     PROVE  UpToEvent!(d)!(i)'
        OBVIOUS
      <4>2. CASE d = c
        BY <2>1, <2>2, <2>3, <2>4, <3>2, <4>2
      <4>3. CASE d # c
        BY <2>1, <2>2, <3>1, <4>3
      <4>4. QED
        BY <4>2, <4>3
    <3>4. AnswerTellsAll'
      BY <2>1, <2>2, <2>3, <2>4, <3>1
    <3>5. QED
      BY <3>3, <3>4
  <2>8. QED
    BY <2>5, <2>6, <2>7
<1>14. CASE UNCHANGED vars
  BY <1>1, <1>14 DEF vars, requests, events
<1>15. QED
  BY <1>3, <1>4, <1>5, <1>6, <1>7, <1>8, <1>9, <1>10, <1>11, <1>12, <1>13, <1>14,
     <1>16, <1>17 DEF Next, Starting, Reader, Handler

(* Nothing restarts a server that has stopped.                             *)
LEMMA StoppedStep ==
  ASSUME TypeOK, StoppedQuiet, [Next]_vars
  PROVE  StoppedQuiet'
<1> USE DEF TypeOK, StoppedQuiet
<1>1. ASSUME NEW c \in Clients, EventFails(c) \/ FireHook(c) \/ Publish(c) \/ PublishFails(c)
                               \/ Decode(c) \/ DecodeFails(c)
      PROVE  StoppedQuiet'
  <2>1. handler[c] # "none" /\ UNCHANGED main
    BY <1>1 DEF EventFails, FireHook, Publish, PublishFails, Decode, DecodeFails
  <2>2. QED
    BY <2>1 DEF main
<1>2. ASSUME NEW c \in Clients, SendBody(c) \/ GiveUp(c) PROVE StoppedQuiet'
  BY <1>2 DEF SendBody, GiveUp, main
<1>3. ASSUME NEW c \in Clients, NEW n \in 1 .. MaxEvents, Send(c, n) PROVE StoppedQuiet'
  <2>1. UNCHANGED main /\ (http # "serving" => UNCHANGED handler)
    BY <1>3 DEF Send
  <2>2. QED
    BY <2>1 DEF main
<1>4. CASE StartHTTP
  BY <1>4 DEF StartHTTP, Dies, requests
<1>5. CASE StartNATS
  BY <1>5 DEF StartNATS, Dies, requests
<1>6. CASE EnableMonitor
  BY <1>6 DEF EnableMonitor, Dies, requests
<1>7. CASE OnMonitorEvent \/ StopHTTP \/ Drained \/ StopNATS
  BY <1>7 DEF OnMonitorEvent, StopHTTP, Drained, StopNATS, requests
<1>8. CASE BrokerStarts \/ BrokerStops \/ UNCHANGED vars
  BY <1>8 DEF BrokerStarts, BrokerStops, vars, main, requests
<1>9. QED
  BY <1>1, <1>2, <1>3, <1>4, <1>5, <1>6, <1>7, <1>8 DEF Next, Starting, Stopping, Reader, Handler

(* The types of TypeOK hold in every reachable state.                      *)
THEOREM TypeCorrect == Spec => []TypeOK
<1>1. Init => TypeOK
  BY NetInit
<1>2. TypeOK /\ [Next]_vars => TypeOK'
  BY TypeStep
<1>3. QED
  BY <1>1, <1>2, PTL DEF Spec

(* However many clients send however many events, also while the services  *)
(* start, stop and fail, an answer tells which events of the request were  *)
(* fired and which were published.                                         *)
THEOREM AnswerCorrect == Spec => []AnswerTellsAll
<1> DEFINE Known == Served /\ SentFirst /\ UpToEvent /\ AnswerTellsAll
<1>1. Init => Known
  BY NetInit
<1>2. TypeOK /\ Known /\ [Next]_vars => Known'
  BY RequestStep
<1>3. Known => AnswerTellsAll
  OBVIOUS
<1>4. QED
  BY <1>1, <1>2, <1>3, TypeCorrect, PTL DEF Spec

(* Whatever requests were under way when the services were told to stop,   *)
(* none of them fires or publishes an event after the HTTP server's Stop   *)
(* has returned, and none does when the start of a service has failed.     *)
THEOREM NothingAfterStopCorrect == Spec => NothingAfterStop
<1>1. Init => StoppedQuiet
  BY NetInit
<1>2. TypeOK /\ StoppedQuiet /\ [Next]_vars => StoppedQuiet'
  BY StoppedStep
<1>3. StoppedQuiet /\ [Next]_vars
      => [(pc \in {"stopNATS", "stopped", "failed"}) => UNCHANGED events]_vars
  <2> SUFFICES ASSUME StoppedQuiet, Next, pc \in {"stopNATS", "stopped", "failed"}
               PROVE  UNCHANGED events
    OBVIOUS
  <2>1. \A c \in Clients : handler[c] = "none"
    BY DEF StoppedQuiet
  <2>2. ASSUME NEW c \in Clients, SendBody(c) \/ GiveUp(c) \/ Reader(c) \/ Handler(c)
        PROVE  UNCHANGED events
    BY <2>1, <2>2 DEF SendBody, GiveUp, Reader, Decode, DecodeFails, Handler, EventFails, FireHook,
       Publish, PublishFails
  <2>3. ASSUME NEW c \in Clients, NEW n \in 1 .. MaxEvents, Send(c, n)
        PROVE  UNCHANGED events
    BY <2>3 DEF Send
  <2>4. CASE Starting \/ StopHTTP \/ Stopping \/ BrokerStarts \/ BrokerStops
    BY <2>4 DEF Starting, StartHTTP, StartNATS, EnableMonitor, OnMonitorEvent, StopHTTP, Stopping,
       Drained, StopNATS, BrokerStarts, BrokerStops
  <2>5. QED
    BY <2>2, <2>3, <2>4 DEF Next
<1>4. QED
  BY <1>1, <1>2, <1>3, TypeCorrect, PTL DEF Spec, NothingAfterStop
=============================================================================
