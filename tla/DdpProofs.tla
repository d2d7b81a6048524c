-------------------------------- MODULE DdpProofs --------------------------------
(***************************************************************************)
(* Theorems about the session, for any number of connections, methods,     *)
(* subscriptions and pings.                                                *)
(***************************************************************************)
EXTENDS Ddp, SequenceTheorems, FunctionTheorems, FiniteSetTheorems, TLAPS

LEMMA InitTypes == Init => TypeOK
<1> SUFFICES ASSUME Init
             PROVE  TypeOK
  OBVIOUS
<1>1. /\ toServer \in [Connection -> Seq(Message)] /\ toClient \in [Connection -> Seq(Message)]
      /\ connected \in Seq(BOOLEAN)
  BY DEF Init
<1>2. /\ greeted \in [Connection -> Nat] /\ pinged \in [Connection -> 0 .. MaxPings]
      /\ conn \in 0 .. MaxConnections /\ methods \in 0 .. MaxMethods
      /\ sentOn \in [Method \cup Sub -> 0 .. MaxConnections]
  BY BoundsAssumption DEF Init
<1>3. /\ state \in [Connection -> {"unused", "connecting", "open", "closed"}]
      /\ subs \in [Sub -> {"unused", "subscribed", "dropped"}]
      /\ asked \subseteq Method /\ results \subseteq Method /\ readies \subseteq Sub
  BY DEF Init
<1>4. broken \in BOOLEAN
  BY DEF Init
<1>5. QED
  BY <1>1, <1>2, <1>3, <1>4 DEF TypeOK

LEMMA Numbers ==
  ASSUME TypeOK
  PROVE  /\ conn \in Nat /\ methods \in Nat
         /\ methods < MaxMethods => methods \in Method
         /\ conn < MaxConnections => conn + 1 \in Connection
         /\ conn # 0 => conn \in Connection
         /\ (IF IsOpen(conn) THEN conn ELSE 0) \in 0 .. MaxConnections
BY BoundsAssumption DEF TypeOK, Method, Connection, IsOpen

(* The messages of this class and of the server. *)
LEMMA Messages ==
  /\ \A m \in {"connect", "connected", "error", "ping", "pong"} : [msg |-> m] \in Message
  /\ \A m \in {"method", "result"}, i \in Method : [msg |-> m, id |-> i] \in Message
  /\ \A m \in {"sub", "unsub", "ready", "nosub"}, i \in Sub : [msg |-> m, id |-> i] \in Message
BY DEF Message

LEMMA MessageIds ==
  ASSUME NEW m \in Message
  PROVE  /\ m.msg \in {"method", "result"} => m.id \in Method
         /\ m.msg \in {"sub", "unsub", "ready", "nosub"} => m.id \in Sub
BY DEF Message

LEMMA SentTypes ==
  ASSUME TypeOK, NEW m \in Message
  PROVE  Sent(m) \in [Connection -> Seq(Message)]
<1>1. CASE IsOpen(conn)
  <2>1. conn \in Connection
    BY <1>1, Numbers DEF IsOpen
  <2>2. toServer \in [Connection -> Seq(Message)] /\ toServer[conn] \in Seq(Message)
    BY <2>1 DEF TypeOK
  <2>3. Append(toServer[conn], m) \in Seq(Message)
    BY <2>2
  <2>4. QED
    BY <1>1, <2>2, <2>3 DEF Sent
<1>2. CASE ~IsOpen(conn)
  BY <1>2 DEF Sent, TypeOK
<1>3. QED
  BY <1>1, <1>2

LEMMA ReceivesTypes ==
  ASSUME TypeOK, NEW c \in Connection, NEW m, Receives(c, m)
  PROVE  /\ toClient[c] \in Seq(Message) /\ toClient[c] # <<>>
         /\ Head(toClient[c]) \in Message /\ Head(toClient[c]).msg = m
         /\ toClient' \in [Connection -> Seq(Message)]
<1>1. /\ toClient \in [Connection -> Seq(Message)] /\ toClient[c] \in Seq(Message)
      /\ toClient[c] # <<>> /\ Head(toClient[c]).msg = m
      /\ toClient' = [toClient EXCEPT ![c] = Tail(toClient[c])]
  BY DEF Receives, TypeOK
<1>2. Head(toClient[c]) \in Message /\ Tail(toClient[c]) \in Seq(Message)
  BY <1>1
<1>3. QED
  BY <1>1, <1>2

LEMMA AnswerTypes ==
  ASSUME TypeOK, NEW c \in Connection, NEW m, Arrives(c, m)
  PROVE  /\ toServer[c] \in Seq(Message) /\ toServer[c] # <<>>
         /\ Head(toServer[c]) \in Message /\ Head(toServer[c]).msg = m
         /\ \A answers \in Seq(Message) :
              Answer(c, answers) => /\ toServer' \in [Connection -> Seq(Message)]
                                    /\ toClient' \in [Connection -> Seq(Message)]
<1>1. /\ toServer \in [Connection -> Seq(Message)] /\ toServer[c] \in Seq(Message)
      /\ toClient \in [Connection -> Seq(Message)] /\ toClient[c] \in Seq(Message)
      /\ toServer[c] # <<>> /\ Head(toServer[c]).msg = m
  BY DEF Arrives, TypeOK
<1>2. Head(toServer[c]) \in Message /\ Tail(toServer[c]) \in Seq(Message)
  BY <1>1
<1>3. ASSUME NEW answers \in Seq(Message), Answer(c, answers)
      PROVE  /\ toServer' \in [Connection -> Seq(Message)]
             /\ toClient' \in [Connection -> Seq(Message)]
  <2>1. toClient[c] \o answers \in Seq(Message)
    BY <1>1
  <2>2. QED
    BY <1>1, <1>2, <1>3, <2>1 DEF Answer
<1>4. QED
  BY <1>1, <1>2, <1>3

(* What the server does with a message, and what it answers.               *)
LEMMA ServerAnswers ==
  ASSUME TypeOK, NEW c \in Connection, Server(c)
  PROVE  \E m \in {"connect", "method", "sub", "unsub", "pong"} :
           /\ Arrives(c, m)
           /\ m = "connect" => greeted' = [greeted EXCEPT ![c] = @ + 1]
           /\ m # "connect" => greeted' = greeted
           /\ IF m = "pong" THEN Answer(c, <<>>)
              ELSE \E a \in Message :
                     /\ Answer(c, <<a>>)
                     /\ m = "method" => a = [msg |-> "result", id |-> Head(toServer[c]).id]
                     /\ m # "method" => a.msg # "result" /\ a.msg # "method"
<1>1. CASE ServerGreets(c)
  <2> DEFINE a == [msg |-> IF greeted[c] = 0 THEN "connected" ELSE "error"]
  <2>1. a \in Message /\ a.msg # "result" /\ a.msg # "method"
    BY Messages
  <2>2. QED
    BY <1>1, <2>1 DEF ServerGreets
<1>2. CASE ServerRuns(c)
  <2> DEFINE a == [msg |-> "result", id |-> Head(toServer[c]).id]
  <2>1. Arrives(c, "method") /\ Answer(c, <<a>>) /\ greeted' = greeted
    BY <1>2 DEF ServerRuns
  <2>2. a \in Message
    BY <2>1, AnswerTypes, MessageIds, Messages
  <2>3. QED
    BY <2>1, <2>2
<1>3. CASE ServerPublishes(c)
  <2>1. Arrives(c, "sub") /\ greeted' = greeted
    BY <1>3 DEF ServerPublishes
  <2>2. PICK k \in {"ready", "nosub"} : Answer(c, <<[msg |-> k, id |-> Head(toServer[c]).id]>>)
    BY <1>3 DEF ServerPublishes
  <2>3. [msg |-> k, id |-> Head(toServer[c]).id] \in Message
    BY <2>1, AnswerTypes, MessageIds, Messages
  <2>4. QED
    BY <2>1, <2>2, <2>3
<1>4. CASE ServerStops(c)
  <2>1. Arrives(c, "unsub") /\ greeted' = greeted
        /\ Answer(c, <<[msg |-> "nosub", id |-> Head(toServer[c]).id]>>)
    BY <1>4 DEF ServerStops
  <2>2. [msg |-> "nosub", id |-> Head(toServer[c]).id] \in Message
    BY <2>1, AnswerTypes, MessageIds, Messages
  <2>3. QED
    BY <2>1, <2>2
<1>5. CASE ServerHearsPong(c)
  BY <1>5 DEF ServerHearsPong
<1>6. QED
  BY <1>1, <1>2, <1>3, <1>4, <1>5 DEF Server

LEMMA UserTypes ==
  ASSUME TypeOK, User
  PROVE  TypeOK'
<1>1. ASSUME NEW callable \in BOOLEAN, connect(callable)
      PROVE  TypeOK'
  <2>1. conn + 1 \in Connection /\ conn' = conn + 1 /\ conn' \in 0 .. MaxConnections
    BY <1>1, Numbers, BoundsAssumption DEF connect, Connection
  <2>2. connected' \in Seq(BOOLEAN)
    <3>1. connected \in Seq(BOOLEAN)
      BY DEF TypeOK
    <3>2. connected' = Append(connected, callable)
      BY <1>1 DEF connect
    <3>3. QED
      BY <3>1, <3>2, AppendProperties, Zenon
  <2>3. state' \in [Connection -> {"unused", "connecting", "open", "closed"}]
    BY <1>1, <2>1 DEF connect, TypeOK
  <2>4. QED
    BY <1>1, <2>1, <2>2, <2>3 DEF connect, network, TypeOK
<1>2. ASSUME NEW slot \in BOOLEAN, call_method(slot)
      PROVE  TypeOK'
  <2>1. methods \in Method /\ methods' = methods + 1 /\ methods' \in 0 .. MaxMethods
    BY <1>2, Numbers, BoundsAssumption DEF call_method
  <2>2. toServer' \in [Connection -> Seq(Message)]
    BY <1>2, <2>1, Messages, SentTypes DEF call_method
  <2>3. sentOn' \in [Method \cup Sub -> 0 .. MaxConnections]
    <3>1. sentOn' = [sentOn EXCEPT ![methods] = IF IsOpen(conn) THEN conn ELSE 0]
      BY <1>2 DEF call_method
    <3>2. QED
      BY <3>1, Numbers DEF TypeOK
  <2>4. results' \subseteq Method
    BY <1>2, <2>1 DEF call_method, TypeOK
  <2>5. QED
    BY <1>2, <2>1, <2>2, <2>3, <2>4 DEF call_method, TypeOK
<1>3. ASSUME NEW i \in Sub, subscribe(i) \/ unsubscribe(i)
      PROVE  TypeOK'
  <2>1. toServer' \in [Connection -> Seq(Message)]
    BY <1>3, Messages, SentTypes DEF subscribe, unsubscribe
  <2>2. sentOn' \in [Method \cup Sub -> 0 .. MaxConnections]
    <3>1. \/ sentOn' = [sentOn EXCEPT ![i] = IF IsOpen(conn) THEN conn ELSE 0]
          \/ sentOn' = sentOn
      BY <1>3 DEF subscribe, unsubscribe
    <3>2. QED
      BY <3>1, Numbers DEF TypeOK
  <2>3. subs' \in [Sub -> {"unused", "subscribed", "dropped"}] /\ readies' \subseteq Sub
    BY <1>3 DEF subscribe, unsubscribe, TypeOK
  <2>4. QED
    BY <1>3, <2>1, <2>2, <2>3 DEF subscribe, unsubscribe, TypeOK
<1>4. QED
  BY <1>1, <1>2, <1>3 DEF User

LEMMA LoopTypes ==
  ASSUME TypeOK, NEW c \in Connection, Loop(c)
  PROVE  TypeOK'
<1>1. CASE init_session(c)
  <2>1. toServer' \in [Connection -> Seq(Message)]
    <3>1. CASE conn = c \/ IsOpen(conn)
      <4>1. conn \in Connection /\ toServer[conn] \in Seq(Message)
        BY <3>1, Numbers DEF IsOpen, TypeOK
      <4>2. Append(toServer[conn], [msg |-> "connect"]) \in Seq(Message)
        BY <4>1, Messages
      <4>3. QED
        BY <1>1, <3>1, <4>2 DEF init_session, TypeOK
    <3>2. CASE ~(conn = c \/ IsOpen(conn))
      BY <1>1, <3>2 DEF init_session, TypeOK
    <3>3. QED
      BY <3>1, <3>2
  <2>2. QED
    BY <1>1, <2>1 DEF init_session, session, TypeOK
<1>2. CASE on_connected(c)
  <2>1. toClient' \in [Connection -> Seq(Message)]
    BY <1>2, ReceivesTypes DEF on_connected
  <2>2. connected' \in Seq(BOOLEAN)
    <3>1. connected' = connected \/ connected' = <<>>
      BY <1>2 DEF on_connected
    <3>2. <<>> \in Seq(BOOLEAN) /\ connected \in Seq(BOOLEAN)
      BY DEF TypeOK
    <3>3. QED
      BY <3>1, <3>2
  <2>3. broken' \in BOOLEAN
    <3>1. broken' = broken \/ broken' = TRUE
      BY <1>2 DEF on_connected
    <3>2. QED
      BY <3>1, Zenon DEF TypeOK
  <2>4. QED
    BY <1>2, <2>1, <2>2, <2>3 DEF on_connected, TypeOK
<1>3. CASE on_ping(c)
  <2>1. toClient' \in [Connection -> Seq(Message)] /\ toServer' \in [Connection -> Seq(Message)]
    BY <1>3, ReceivesTypes, SentTypes, Messages DEF on_ping
  <2>2. QED
    BY <1>3, <2>1 DEF on_ping, session, TypeOK
<1>4. CASE on_ready(c) \/ on_result(c) \/ ignore(c)
  <2>1. toClient' \in [Connection -> Seq(Message)]
    BY <1>4, ReceivesTypes DEF on_ready, on_result, ignore
  <2>2. results' \subseteq Method /\ readies' \subseteq Sub
    BY <1>4 DEF on_ready, on_result, ignore, session, TypeOK
  <2>3. QED
    BY <1>4, <2>1, <2>2 DEF on_ready, on_result, ignore, session, TypeOK
<1>5. QED
  BY <1>1, <1>2, <1>3, <1>4 DEF Loop, on_message

LEMMA ServerTypes ==
  ASSUME TypeOK, NEW c \in Connection, Server(c)
  PROVE  TypeOK'
<1>1. toServer' \in [Connection -> Seq(Message)] /\ toClient' \in [Connection -> Seq(Message)]
      /\ UNCHANGED <<state, session>>
  <2>1. PICK m \in {"connect", "method", "sub", "unsub", "pong"} :
          Arrives(c, m) /\ \E answers \in Seq(Message) : Answer(c, answers)
    <3>1. \A a \in Message : <<a>> \in Seq(Message)
      OBVIOUS
    <3>2. <<>> \in Seq(Message)
      OBVIOUS
    <3>3. QED
      BY <3>1, <3>2, ServerAnswers
  <2>2. QED
    BY <2>1, AnswerTypes DEF Answer
<1>2. greeted' \in [Connection -> Nat] /\ pinged' \in [Connection -> 0 .. MaxPings]
  <2>1. \/ greeted' = [greeted EXCEPT ![c] = @ + 1]
        \/ greeted' = greeted
    BY DEF Server, ServerGreets, ServerRuns, ServerPublishes, ServerStops, ServerHearsPong
  <2>2. \/ pinged' = [pinged EXCEPT ![c] = IF @ > 0 THEN @ - 1 ELSE 0]
        \/ pinged' = pinged
    BY DEF Server, ServerGreets, ServerRuns, ServerPublishes, ServerStops, ServerHearsPong
  <2>3. greeted \in [Connection -> Nat] /\ pinged \in [Connection -> 0 .. MaxPings]
    BY DEF TypeOK
  <2>4. greeted' \in [Connection -> Nat]
    BY <2>1, <2>3
  <2>5. (IF pinged[c] > 0 THEN pinged[c] - 1 ELSE 0) \in 0 .. MaxPings
    BY <2>3, BoundsAssumption
  <2>6. pinged' \in [Connection -> 0 .. MaxPings]
    BY <2>2, <2>3, <2>5
  <2>7. QED
    BY <2>4, <2>6
<1>3. QED
  BY <1>1, <1>2 DEF session, TypeOK

LEMMA NetworkTypes ==
  ASSUME TypeOK, NEW c \in Connection, ServerPings(c) \/ Close(c)
  PROVE  TypeOK'
<1>1. CASE ServerPings(c)
  <2>1. Append(toClient[c], [msg |-> "ping"]) \in Seq(Message)
    BY Messages DEF TypeOK
  <2>2. toClient' \in [Connection -> Seq(Message)]
    BY <1>1, <2>1 DEF ServerPings, TypeOK
  <2>3. pinged' \in [Connection -> 0 .. MaxPings]
    BY <1>1, BoundsAssumption DEF ServerPings, TypeOK
  <2>4. QED
    BY <1>1, <2>2, <2>3 DEF ServerPings, session, TypeOK
<1>2. CASE Close(c)
  BY <1>2 DEF Close, session, TypeOK
<1>3. QED
  BY <1>1, <1>2

LEMMA TypesKept == TypeOK /\ [Next]_vars => TypeOK'
<1> SUFFICES ASSUME TypeOK, [Next]_vars
             PROVE  TypeOK'
  OBVIOUS
<1>1. CASE User
  BY <1>1, UserTypes
<1>2. CASE \E c \in Connection : Loop(c) \/ Server(c) \/ ServerPings(c) \/ Close(c)
  BY <1>2, LoopTypes, ServerTypes, NetworkTypes
<1>3. CASE UNCHANGED vars
  BY <1>3 DEF vars, TypeOK
<1>4. QED
  BY <1>1, <1>2, <1>3 DEF Next

(***************************************************************************)
(* Ids, slots, connections and messages keep their types, in particular    *)
(* no message carries an id that was never given                           *)
(* (ddp.cpp:44-144, 180-220).                                              *)
(***************************************************************************)
THEOREM SessionTypes == Spec => []TypeOK
BY InitTypes, TypesKept, PTL DEF Spec

-----------------------------------------------------------------------------
(* The latest connection knows of the handshake as soon as it is open; no  *)
(* other connection is sent anything; what is not open holds nothing.      *)
Unused == \A c \in Connection : c > conn => state[c] = "unused"
Drained == \A c \in Connection : state[c] # "open" => toServer[c] = <<>>
Begun == \A c \in Connection :
           state[c] = "open" /\ greeted[c] = 0 /\ c = conn => toServer[c] # <<>>

FirstInv == TypeOK /\ Unused /\ Drained /\ Begun /\ HandshakeFirst

(* A message of the client joins those on the connection that is open.     *)
LEMMA SentOn ==
  ASSUME TypeOK, NEW m \in Message, NEW c \in Connection
  PROVE  \/ c = conn /\ IsOpen(conn) /\ Sent(m)[c] = Append(toServer[c], m)
         \/ ~(c = conn /\ IsOpen(conn)) /\ Sent(m)[c] = toServer[c]
<1>1. toServer \in [Connection -> Seq(Message)]
  BY DEF TypeOK
<1>2. QED
  BY <1>1, Numbers DEF Sent

LEMMA SendsFirst ==
  ASSUME FirstInv, NEW m \in Message, toServer' = Sent(m),
         UNCHANGED <<state, greeted, conn>>
  PROVE  Unused' /\ Drained' /\ Begun' /\ HandshakeFirst'
<1>1. Unused'
  BY DEF FirstInv, Unused
<1> SUFFICES ASSUME NEW c \in Connection
             PROVE  /\ state[c] # "open" => toServer'[c] = <<>>
                    /\ state[c] = "open" /\ greeted[c] = 0 /\ c = conn => toServer'[c] # <<>>
                    /\ greeted[c] = 0 /\ toServer'[c] # <<>> => toServer'[c][1].msg = "connect"
  BY <1>1 DEF Drained, Begun, HandshakeFirst
<1>2. toServer[c] \in Seq(Message)
  BY DEF FirstInv, TypeOK
<1>3. CASE c = conn /\ IsOpen(conn) /\ toServer'[c] = Append(toServer[c], m)
  <2>1. toServer'[c] # <<>> /\ (toServer[c] # <<>> => toServer'[c][1] = toServer[c][1])
    BY <1>2, <1>3
  <2>2. QED
    BY <1>3, <2>1 DEF IsOpen, FirstInv, Begun, HandshakeFirst
<1>4. CASE toServer'[c] = toServer[c]
  BY <1>4 DEF FirstInv, Drained, Begun, HandshakeFirst
<1>5. QED
  BY <1>3, <1>4, SentOn DEF FirstInv

LEMMA OpensFirst ==
  ASSUME FirstInv, NEW c \in Connection, init_session(c)
  PROVE  Unused' /\ Drained' /\ Begun' /\ HandshakeFirst'
<1>1. /\ state[c] = "connecting" /\ state' = [state EXCEPT ![c] = "open"]
      /\ UNCHANGED <<greeted, conn>>
      /\ toServer' = IF conn = c \/ IsOpen(conn)
                     THEN [toServer EXCEPT ![conn] = Append(@, [msg |-> "connect"])]
                     ELSE toServer
  BY DEF init_session, session
<1>2. /\ state \in [Connection -> {"unused", "connecting", "open", "closed"}]
      /\ toServer \in [Connection -> Seq(Message)] /\ conn \in Nat
  BY Numbers DEF FirstInv, TypeOK
<1>3. Unused'
  BY <1>1, <1>2 DEF FirstInv, Unused
<1> SUFFICES ASSUME NEW d \in Connection
             PROVE  /\ state'[d] # "open" => toServer'[d] = <<>>
                    /\ state'[d] = "open" /\ greeted[d] = 0 /\ d = conn => toServer'[d] # <<>>
                    /\ greeted[d] = 0 /\ toServer'[d] # <<>> => toServer'[d][1].msg = "connect"
  BY <1>1, <1>3 DEF Drained, Begun, HandshakeFirst
<1>4. CASE d = conn /\ (conn = c \/ IsOpen(conn))
  <2>1. toServer'[d] = Append(toServer[d], [msg |-> "connect"]) /\ toServer[d] \in Seq(Message)
    BY <1>1, <1>2, <1>4
  <2>2. toServer'[d] # <<>> /\ (toServer[d] # <<>> => toServer'[d][1] = toServer[d][1])
        /\ (toServer[d] = <<>> => toServer'[d][1] = [msg |-> "connect"])
    BY <2>1
  <2>3. state'[d] = "open"
    BY <1>1, <1>2, <1>4 DEF IsOpen
  <2>4. QED
    BY <2>2, <2>3 DEF FirstInv, HandshakeFirst
<1>5. CASE ~(d = conn /\ (conn = c \/ IsOpen(conn)))
  <2>1. toServer'[d] = toServer[d]
    BY <1>1, <1>2, <1>5
  <2>2. state'[d] = "open" /\ d = conn => state[d] = "open"
    BY <1>1, <1>2, <1>5
  <2>3. state'[d] # "open" => state[d] # "open"
    BY <1>1, <1>2
  <2>4. QED
    BY <2>1, <2>2, <2>3 DEF FirstInv, Drained, Begun, HandshakeFirst
<1>6. QED
  BY <1>4, <1>5

LEMMA AnswersFirst ==
  ASSUME FirstInv, NEW c \in Connection, Server(c)
  PROVE  Unused' /\ Drained' /\ Begun' /\ HandshakeFirst'
<1>1. PICK m \in {"connect", "method", "sub", "unsub", "pong"} :
        /\ Arrives(c, m)
        /\ m = "connect" => greeted' = [greeted EXCEPT ![c] = @ + 1]
        /\ m # "connect" => greeted' = greeted
        /\ \E answers : Answer(c, answers)
  BY ServerAnswers DEF FirstInv
<1>2. /\ toServer \in [Connection -> Seq(Message)] /\ greeted \in [Connection -> Nat]
      /\ toServer' = [toServer EXCEPT ![c] = Tail(toServer[c])] /\ UNCHANGED <<state, conn>>
      /\ state[c] = "open" /\ toServer[c] # <<>> /\ toServer[c] \in Seq(Message)
  BY <1>1 DEF FirstInv, TypeOK, Answer, Arrives, session
<1>3. Head(toServer[c]).msg = m /\ Head(toServer[c]) = toServer[c][1]
  BY <1>1, <1>2 DEF Arrives
<1>4. greeted'[c] # 0
  <2>1. greeted[c] = 0 => m = "connect"
    BY <1>2, <1>3 DEF FirstInv, HandshakeFirst
  <2>2. CASE m = "connect"
    BY <1>1, <1>2, <2>2
  <2>3. CASE m # "connect"
    BY <1>1, <2>1, <2>3
  <2>4. QED
    BY <2>2, <2>3
<1>5. \A d \in Connection : d # c => greeted'[d] = greeted[d] /\ toServer'[d] = toServer[d]
  BY <1>1, <1>2
<1>6. QED
  BY <1>2, <1>4, <1>5 DEF FirstInv, Unused, Drained, Begun, HandshakeFirst

LEMMA FirstKept == FirstInv /\ [Next]_vars => FirstInv'
<1> SUFFICES ASSUME FirstInv, [Next]_vars
             PROVE  FirstInv'
  OBVIOUS
<1>0. TypeOK'
  BY TypesKept DEF FirstInv
<1>1. CASE UNCHANGED <<toServer, state, greeted, conn>>
  BY <1>0, <1>1 DEF FirstInv, Unused, Drained, Begun, HandshakeFirst
<1>2. CASE (\E m \in Message : toServer' = Sent(m)) /\ UNCHANGED <<state, greeted, conn>>
  BY <1>0, <1>2, SendsFirst DEF FirstInv
<1>3. CASE \E callable \in BOOLEAN : connect(callable)
  <2>1. /\ conn + 1 \in Connection /\ conn' = conn + 1 /\ conn \in Nat
        /\ state' = [state EXCEPT ![conn + 1] = "connecting"] /\ UNCHANGED <<toServer, greeted>>
    BY <1>3, Numbers DEF connect, network, FirstInv
  <2>2. /\ state \in [Connection -> {"unused", "connecting", "open", "closed"}]
        /\ Connection \subseteq Nat
    BY DEF FirstInv, TypeOK, Connection
  <2>3. state[conn + 1] = "unused"
    BY <2>1 DEF FirstInv, Unused
  <2>4. Unused' /\ Drained' /\ Begun' /\ HandshakeFirst'
    BY <2>1, <2>2, <2>3 DEF FirstInv, Unused, Drained, Begun, HandshakeFirst
  <2>5. QED
    BY <1>0, <2>4 DEF FirstInv
<1>4. CASE \E slot \in BOOLEAN : call_method(slot)
  <2>1. [msg |-> "method", id |-> methods] \in Message
    BY <1>4, Numbers, Messages DEF call_method, FirstInv
  <2>2. QED
    BY <1>2, <1>4, <2>1 DEF call_method
<1>5. CASE \E i \in Sub : subscribe(i) \/ unsubscribe(i)
  BY <1>2, <1>5, Messages DEF subscribe, unsubscribe
<1>6. CASE \E c \in Connection : init_session(c)
  BY <1>0, <1>6, OpensFirst DEF FirstInv
<1>7. CASE \E c \in Connection : on_ping(c)
  BY <1>2, <1>7, Messages DEF on_ping, session
<1>8. CASE \E c \in Connection : on_connected(c) \/ on_ready(c) \/ on_result(c) \/ ignore(c) \/ ServerPings(c)
  BY <1>1, <1>8 DEF on_connected, on_ready, on_result, ignore, ServerPings, session
<1>9. CASE \E c \in Connection : Server(c)
  BY <1>0, <1>9, AnswersFirst DEF FirstInv
<1>10. CASE \E c \in Connection : Close(c)
  <2>1. PICK c \in Connection : Close(c)
    BY <1>10
  <2>2. /\ state' = [state EXCEPT ![c] = "closed"] /\ toServer' = [toServer EXCEPT ![c] = <<>>]
        /\ state[c] \in {"connecting", "open"} /\ UNCHANGED <<greeted, conn>>
    BY <2>1 DEF Close, session
  <2>3. /\ state \in [Connection -> {"unused", "connecting", "open", "closed"}]
        /\ toServer \in [Connection -> Seq(Message)]
    BY DEF FirstInv, TypeOK
  <2>4. Unused' /\ Drained' /\ Begun' /\ HandshakeFirst'
    BY <2>2, <2>3 DEF FirstInv, Unused, Drained, Begun, HandshakeFirst
  <2>5. QED
    BY <1>0, <2>4 DEF FirstInv
<1>11. QED
  BY <1>1, <1>3, <1>4, <1>5, <1>6, <1>7, <1>8, <1>9, <1>10 DEF Next, User, Loop, on_message, vars

(***************************************************************************)
(* On every connection "connect" is the first message, also when users     *)
(* connect again at any time and send before a connection is open          *)
(* (ddp.cpp:49-62, 146-156).                                               *)
(***************************************************************************)
THEOREM ConnectComesFirst == Spec => []HandshakeFirst
<1>1. Init => FirstInv
  <2> SUFFICES ASSUME Init
               PROVE  FirstInv
    OBVIOUS
  <2>1. TypeOK
    BY InitTypes
  <2>2. Unused /\ Drained /\ Begun /\ HandshakeFirst
    BY DEF Init, Unused, Drained, Begun, HandshakeFirst
  <2>3. QED
    BY <2>1, <2>2 DEF FirstInv
<1>2. FirstInv => HandshakeFirst
  BY DEF FirstInv
<1>3. QED
  BY <1>1, <1>2, FirstKept, PTL DEF Spec

-----------------------------------------------------------------------------
(* How many messages of a set there are in a sequence.                     *)
Places(s, X) == {k \in DOMAIN s : s[k] \in X}
Count(s, X) == Cardinality(Places(s, X))

LEMMA PlacesFinite ==
  ASSUME NEW S, NEW s \in Seq(S), NEW X
  PROVE  IsFiniteSet(Places(s, X)) /\ Count(s, X) \in Nat
<1>1. Places(s, X) \in SUBSET (1 .. Len(s)) /\ Len(s) \in Nat
  BY DEF Places
<1>2. IsFiniteSet(1 .. Len(s))
  BY <1>1, FS_Interval
<1>3. IsFiniteSet(Places(s, X))
  BY <1>1, <1>2, FS_Subset
<1>4. QED
  BY <1>3, FS_CardinalityType DEF Count

LEMMA CountEmpty == ASSUME NEW X PROVE Count(<<>>, X) = 0
<1>1. Places(<<>>, X) = {}
  BY DEF Places
<1>2. QED
  BY <1>1, FS_EmptySet DEF Count

LEMMA CountAppend ==
  ASSUME NEW S, NEW s \in Seq(S), NEW x \in S, NEW X
  PROVE  Count(Append(s, x), X) = Count(s, X) + IF x \in X THEN 1 ELSE 0
<1> DEFINE t == Append(s, x)
           n == Len(s)
<1>1. n \in Nat /\ DOMAIN s = 1 .. n /\ DOMAIN t = 1 .. n + 1 /\ t[n + 1] = x
      /\ \A k \in 1 .. n : t[k] = s[k]
  OBVIOUS
<1> HIDE DEF t, n
<1>2. CASE x \in X
  <2>1. Places(t, X) = Places(s, X) \cup {n + 1} /\ n + 1 \notin Places(s, X)
    BY <1>1, <1>2 DEF Places
  <2>2. QED
    BY <1>2, <2>1, PlacesFinite, FS_AddElement DEF Count, t
<1>3. CASE x \notin X
  <2>1. Places(t, X) = Places(s, X)
    BY <1>1, <1>3 DEF Places
  <2>2. QED
    BY <1>3, <2>1, PlacesFinite DEF Count, t
<1>4. QED
  BY <1>2, <1>3

LEMMA CountTail ==
  ASSUME NEW S, NEW s \in Seq(S), s # <<>>, NEW X
  PROVE  Count(Tail(s), X) = Count(s, X) - IF Head(s) \in X THEN 1 ELSE 0
<1> DEFINE t == Tail(s)
           n == Len(s)
           rest == Places(s, X) \ {1}
           F == [k \in Places(t, X) |-> k + 1]
<1>1. /\ n \in Nat /\ DOMAIN s = 1 .. n /\ DOMAIN t = 1 .. n - 1 /\ n > 0
      /\ \A k \in 1 .. n - 1 : t[k] = s[k + 1]
      /\ Head(s) = s[1]
  OBVIOUS
<1> HIDE DEF t, n
<1>2. \A k \in Places(t, X) : k + 1 \in rest
  BY <1>1 DEF Places
<1>3. \A j \in rest : j - 1 \in Places(t, X) /\ (j - 1) + 1 = j
  BY <1>1 DEF Places
<1>4. \A j, k \in Places(t, X) : j + 1 = k + 1 => j = k
  BY <1>1 DEF Places
<1>5. ExistsBijection(Places(t, X), rest)
  <2>1. F \in [Places(t, X) -> rest]
    BY <1>2
  <2>2. \A j, k \in Places(t, X) : F[j] = F[k] => j = k
    BY <1>4
  <2>3. \A j \in rest : \E k \in Places(t, X) : F[k] = j
    BY <1>3
  <2>4. F \in Bijection(Places(t, X), rest)
    <3> HIDE DEF F, rest
    <3>1. QED
      BY <2>1, <2>2, <2>3, Fun_IsBij
  <2>5. QED
    BY <2>4, Fun_ExistsBij
<1>6. t \in Seq(S)
  BY DEF t
<1>7. IsFiniteSet(Places(t, X)) /\ IsFiniteSet(Places(s, X)) /\ Count(s, X) \in Nat
  BY <1>6, PlacesFinite
<1>8. Cardinality(rest) = Cardinality(Places(t, X))
  <2> HIDE DEF rest
  <2>1. QED
    BY <1>5, <1>7, FS_Bijection
<1>9. Cardinality(rest) = IF 1 \in Places(s, X) THEN Count(s, X) - 1 ELSE Count(s, X)
  BY <1>7, FS_RemoveElement DEF Count
<1>10. 1 \in Places(s, X) <=> Head(s) \in X
  BY <1>1 DEF Places
<1>11. Count(t, X) = Count(s, X) - IF Head(s) \in X THEN 1 ELSE 0
  <2> HIDE DEF rest
  <2>1. QED
    BY <1>7, <1>8, <1>9, <1>10 DEF Count
<1>12. QED
  BY <1>11 DEF t

-----------------------------------------------------------------------------
(* connect opens a connection that no one used.                             *)
LEMMA UnusedKept == TypeOK /\ Unused /\ [Next]_vars => Unused'
<1> SUFFICES ASSUME TypeOK, Unused, [Next]_vars
             PROVE  Unused'
  OBVIOUS
<1>1. CASE UNCHANGED <<state, conn>>
  BY <1>1 DEF Unused
<1>2. CASE \E callable \in BOOLEAN : connect(callable)
  <2>1. conn' = conn + 1 /\ state' = [state EXCEPT ![conn + 1] = "connecting"] /\ conn \in Nat
    BY <1>2, Numbers DEF connect
  <2>2. Connection \subseteq Nat
    BY DEF Connection
  <2>3. QED
    BY <2>1, <2>2 DEF Unused, TypeOK
<1>3. CASE \E c \in Connection : init_session(c) \/ Close(c)
  <2>1. PICK c \in Connection : init_session(c) \/ Close(c)
    BY <1>3
  <2>2. /\ state[c] # "unused" /\ conn' = conn
        /\ \E s : state' = [state EXCEPT ![c] = s]
    BY <2>1 DEF init_session, Close, session
  <2>3. QED
    BY <2>2 DEF Unused, TypeOK
<1>4. QED
  BY <1>1, <1>2, <1>3
     DEF Next, User, call_method, subscribe, unsubscribe, Loop, on_message, on_connected, on_ping,
         on_ready, on_result, ignore, Server, ServerGreets, ServerRuns, ServerPublishes,
         ServerStops, ServerHearsPong, Answer, ServerPings, session, vars

(* The messages about method m, and how many of them are on connection c.  *)
Of(m) == {x \in Message : x.msg \in {"method", "result"} /\ x.id = m}
Underway(m, c) == Count(toServer[c], Of(m)) + Count(toClient[c], Of(m))

(* No message is about a method that was not called yet.                   *)
Fresh == \A m \in Method : m >= methods => \A c \in Connection : Underway(m, c) = 0
Given == \A m \in asked : m < methods

(* The property, with the places of the messages counted.                  *)
Awaited(m, c) == m \in results /\ sentOn[m] = c /\ ~Lost(m)
Slotted == \A m \in asked, c \in Connection : Underway(m, c) = IF Awaited(m, c) THEN 1 ELSE 0

SlotInv == TypeOK /\ Unused /\ Fresh /\ Given /\ Slotted

LEMMA UnderwayTypes ==
  ASSUME TypeOK, NEW m \in Method, NEW c \in Connection
  PROVE  /\ toServer[c] \in Seq(Message) /\ toClient[c] \in Seq(Message)
         /\ Count(toServer[c], Of(m)) \in Nat /\ Count(toClient[c], Of(m)) \in Nat
<1>1. toServer[c] \in Seq(Message) /\ toClient[c] \in Seq(Message)
  BY DEF TypeOK
<1>2. QED
  BY <1>1, PlacesFinite

(* What the property counts.                                               *)
LEMMA AboutCounted ==
  ASSUME NEW s \in Seq(Message), NEW m
  PROVE  Cardinality(About(m, s)) = Count(s, Of(m))
<1>1. \A k \in DOMAIN s : s[k] \in Message
  OBVIOUS
<1>2. About(m, s) = Places(s, Of(m))
  BY <1>1 DEF About, Places, Of
<1>3. QED
  BY <1>2 DEF Count

LEMMA SlotsCounted == TypeOK => (SlotsAwaitAnswers <=> Slotted)
<1> SUFFICES ASSUME TypeOK, NEW m \in Method, NEW c \in Connection
             PROVE  Traffic(m, c) = Underway(m, c)
  BY DEF TypeOK, SlotsAwaitAnswers, Slotted, Awaited
<1>1. QED
  BY UnderwayTypes, AboutCounted DEF Traffic, Underway

(* A step that calls no method: the slots wait for what they waited for,   *)
(* or their connection closes, or their only message is gone and they too. *)
LEMMA SlotsStay ==
  ASSUME SlotInv, methods' = methods, asked' = asked,
         \A m \in Method : sentOn'[m] = sentOn[m],
         \A c \in Connection : state[c] = "closed" => state'[c] = "closed",
         \A m \in Method, c \in Connection :
           m \in asked \/ m >= methods =>
             \/ /\ Underway(m, c)' = Underway(m, c)
                /\ m \in results' <=> m \in results
                /\ state'[c] = "closed" => state[c] = "closed"
             \/ state'[c] = "closed" /\ Underway(m, c)' = 0
             \/ m \notin results' /\ Underway(m, c)' = 0
  PROVE  Fresh' /\ Given' /\ Slotted'
<1>1. Fresh'
  BY DEF SlotInv, Fresh
<1>2. Given'
  BY DEF SlotInv, Given
<1>3. ASSUME NEW m \in asked, NEW c \in Connection
      PROVE  Underway(m, c)' = IF Awaited(m, c)' THEN 1 ELSE 0
  <2>1. m \in Method /\ sentOn'[m] = sentOn[m] /\ c # 0
    BY <1>3 DEF SlotInv, TypeOK, Connection
  <2>2. Underway(m, c) = IF Awaited(m, c) THEN 1 ELSE 0
    BY <1>3 DEF SlotInv, Slotted
  <2>3. CASE /\ Underway(m, c)' = Underway(m, c)
             /\ m \in results' <=> m \in results
             /\ state'[c] = "closed" => state[c] = "closed"
    <3>1. Awaited(m, c)' <=> Awaited(m, c)
      BY <2>1, <2>3 DEF Awaited, Lost
    <3>2. QED
      BY <2>2, <2>3, <3>1
  <2>4. CASE state'[c] = "closed" /\ Underway(m, c)' = 0
    BY <2>4 DEF Awaited, Lost
  <2>5. CASE m \notin results' /\ Underway(m, c)' = 0
    BY <2>5 DEF Awaited
  <2>6. QED
    BY <2>1, <2>3, <2>4, <2>5
<1>4. QED
  BY <1>1, <1>2, <1>3 DEF Slotted

(* A message sent by the client, about no method or about the next one.    *)
LEMMA UnderwaySent ==
  ASSUME TypeOK, NEW x \in Message, toServer' = Sent(x), toClient' = toClient,
         NEW m \in Method, NEW c \in Connection
  PROVE  Underway(m, c)' = Underway(m, c)
                             + IF x \in Of(m) /\ c = conn /\ IsOpen(conn) THEN 1 ELSE 0
<1>1. toServer[c] \in Seq(Message)
  BY DEF TypeOK
<1>2. Count(Append(toServer[c], x), Of(m)) = Count(toServer[c], Of(m)) + IF x \in Of(m) THEN 1 ELSE 0
  BY <1>1, CountAppend
<1>3. Count(toServer'[c], Of(m)) = Count(toServer[c], Of(m))
                                     + IF x \in Of(m) /\ c = conn /\ IsOpen(conn) THEN 1 ELSE 0
  <2>1. Count(toServer[c], Of(m)) \in Nat
    BY UnderwayTypes
  <2>2. CASE c = conn /\ IsOpen(conn) /\ toServer'[c] = Append(toServer[c], x)
    BY <1>2, <2>2
  <2>3. CASE ~(c = conn /\ IsOpen(conn)) /\ toServer'[c] = toServer[c]
    BY <2>1, <2>3
  <2>4. QED
    BY <2>2, <2>3, SentOn
<1>4. QED
  BY <1>3, UnderwayTypes DEF Underway

(* on_message takes a message off a connection.                            *)
LEMMA UnderwayReceived ==
  ASSUME TypeOK, NEW c \in Connection, NEW k, Receives(c, k),
         NEW m \in Method, NEW d \in Connection
  PROVE  Count(toClient'[d], Of(m)) = Count(toClient[d], Of(m))
           - IF d = c /\ Head(toClient[c]) \in Of(m) THEN 1 ELSE 0
<1>1. toClient \in [Connection -> Seq(Message)] /\ toClient' = [toClient EXCEPT ![c] = Tail(toClient[c])]
  BY DEF TypeOK, Receives
<1>2. toClient[c] \in Seq(Message) /\ toClient[c] # <<>>
  BY <1>1 DEF Receives
<1>3. Count(Tail(toClient[c]), Of(m)) = Count(toClient[c], Of(m)) - IF Head(toClient[c]) \in Of(m) THEN 1 ELSE 0
  BY <1>2, CountTail
<1>4. QED
  BY <1>1, <1>3, UnderwayTypes

(* The server takes a message and answers: a method becomes its result.    *)
LEMMA UnderwayAnswered ==
  ASSUME TypeOK, NEW c \in Connection, Server(c),
         NEW m \in Method, NEW d \in Connection
  PROVE  Underway(m, d)' = Underway(m, d)
<1>1. PICK k \in {"connect", "method", "sub", "unsub", "pong"} :
        /\ Arrives(c, k)
        /\ IF k = "pong" THEN Answer(c, <<>>)
           ELSE \E a \in Message :
                  /\ Answer(c, <<a>>)
                  /\ k = "method" => a = [msg |-> "result", id |-> Head(toServer[c]).id]
                  /\ k # "method" => a.msg # "result" /\ a.msg # "method"
  BY ServerAnswers
<1> DEFINE ask == Head(toServer[c])
<1>2. /\ toServer \in [Connection -> Seq(Message)] /\ toClient \in [Connection -> Seq(Message)]
      /\ toServer[c] \in Seq(Message) /\ toClient[c] \in Seq(Message) /\ toServer[c] # <<>>
      /\ toServer' = [toServer EXCEPT ![c] = Tail(toServer[c])]
      /\ ask \in Message /\ ask.msg = k
  BY <1>1, AnswerTypes DEF TypeOK, Answer
<1>3. Count(Tail(toServer[c]), Of(m)) = Count(toServer[c], Of(m)) - IF ask \in Of(m) THEN 1 ELSE 0
  BY <1>2, CountTail
<1>4. d # c => toServer'[d] = toServer[d] /\ toClient'[d] = toClient[d]
  BY <1>1, <1>2 DEF Answer
<1>5. Count(toClient'[c], Of(m)) = Count(toClient[c], Of(m)) + IF ask \in Of(m) THEN 1 ELSE 0
  <2>1. CASE k = "pong"
    <3>1. toClient'[c] = toClient[c] \o <<>>
      BY <1>1, <1>2, <2>1 DEF Answer
    <3>2. toClient'[c] = toClient[c]
      BY <1>2, <3>1
    <3>3. ask \notin Of(m)
      BY <1>2, <2>1 DEF Of
    <3>4. QED
      BY <3>2, <3>3, UnderwayTypes
  <2>2. CASE k # "pong"
    <3>1. PICK a \in Message :
            /\ Answer(c, <<a>>)
            /\ k = "method" => a = [msg |-> "result", id |-> ask.id]
            /\ k # "method" => a.msg # "result" /\ a.msg # "method"
      BY <1>1, <2>2
    <3>2. toClient'[c] = toClient[c] \o <<a>>
      BY <1>2, <3>1 DEF Answer
    <3>3. toClient'[c] = Append(toClient[c], a)
      BY <1>2, <3>2, AppendIsConcat
    <3>4. Count(toClient'[c], Of(m)) = Count(toClient[c], Of(m)) + IF a \in Of(m) THEN 1 ELSE 0
      BY <1>2, <3>3, CountAppend
    <3>5. a \in Of(m) <=> ask \in Of(m)
      BY <1>2, <3>1 DEF Of
    <3>6. QED
      BY <3>4, <3>5
  <2>3. QED
    BY <2>1, <2>2
<1>6. Count(toServer'[c], Of(m)) = Count(toServer[c], Of(m)) - IF ask \in Of(m) THEN 1 ELSE 0
  BY <1>2, <1>3
<1>7. QED
  <2> HIDE DEF ask
  <2>1. CASE d # c
    BY <1>4, <2>1 DEF Underway
  <2>2. CASE d = c
    <3>1. Count(toServer[c], Of(m)) \in Nat /\ Count(toClient[c], Of(m)) \in Nat
      BY UnderwayTypes
    <3>2. Count(toServer'[c], Of(m)) + Count(toClient'[c], Of(m))
            = Count(toServer[c], Of(m)) + Count(toClient[c], Of(m))
      BY <1>5, <1>6, <3>1
    <3>3. QED
      BY <2>2, <3>2 DEF Underway
  <2>3. QED
    BY <2>1, <2>2

LEMMA HeadCounted ==
  ASSUME NEW s \in Seq(Message), s # <<>>, NEW X, Head(s) \in X
  PROVE  Count(s, X) # 0
<1>1. Tail(s) \in Seq(Message)
  OBVIOUS
<1>2. Count(Tail(s), X) = Count(s, X) - 1
  BY CountTail
<1>3. Count(Tail(s), X) \in Nat
  BY <1>1, PlacesFinite
<1>4. QED
  BY <1>2, <1>3

(* A method is called: its message is the only one about it.               *)
LEMMA CallKeeps ==
  ASSUME SlotInv, NEW slot \in BOOLEAN, call_method(slot)
  PROVE  Fresh' /\ Given' /\ Slotted'
<1> DEFINE x == [msg |-> "method", id |-> methods]
<1>1. /\ methods \in Method /\ methods \in Nat /\ methods' = methods + 1
      /\ UNCHANGED <<state, toClient, conn>>
      /\ toServer' = Sent(x)
      /\ sentOn' = [sentOn EXCEPT ![methods] = IF IsOpen(conn) THEN conn ELSE 0]
  BY Numbers DEF SlotInv, call_method
<1>2. \/ asked' = asked /\ results' = results
      \/ asked' = asked \cup {methods} /\ results' = results \cup {methods}
  BY DEF call_method
<1>3. x \in Message /\ \A m \in Method : x \in Of(m) <=> m = methods
  BY <1>1, Messages DEF Of
<1> HIDE DEF x
<1>4. \A m \in Method, c \in Connection :
        Underway(m, c)' = Underway(m, c) + IF m = methods /\ c = conn /\ IsOpen(conn) THEN 1 ELSE 0
  BY <1>1, <1>3, UnderwaySent DEF SlotInv
<1>5. \A m \in Method, c \in Connection : Underway(m, c) \in Nat
  BY UnderwayTypes DEF SlotInv, Underway
<1>6. Method \subseteq Nat /\ asked \subseteq Method
  BY DEF Method, SlotInv, TypeOK
<1>7. Fresh'
  BY <1>1, <1>4, <1>6 DEF SlotInv, Fresh
<1>8. Given'
  <2>1. \A m \in asked : m < methods /\ m \in Nat
    BY <1>6 DEF SlotInv, Given
  <2>2. \A m \in asked' : m \in asked \/ m = methods
    BY <1>2
  <2>3. QED
    BY <1>1, <2>1, <2>2 DEF Given
<1>9. ASSUME NEW m \in asked', NEW c \in Connection
      PROVE  Underway(m, c)' = IF Awaited(m, c)' THEN 1 ELSE 0
  <2>1. sentOn \in [Method \cup Sub -> 0 .. MaxConnections] /\ m \in Method
    BY <1>1, <1>2, <1>6, <1>9 DEF SlotInv, TypeOK
  <2>2. CASE m = methods
    <3>1. methods \notin asked
      BY <1>1 DEF SlotInv, Given
    <3>2. m \in results'
      BY <1>2, <1>9, <2>2, <3>1
    <3>3. Underway(m, c)' = IF c = conn /\ IsOpen(conn) THEN 1 ELSE 0
      <4>1. Underway(m, c) = 0
        BY <1>1, <2>1, <2>2 DEF SlotInv, Fresh
      <4>2. QED
        BY <1>4, <2>1, <2>2, <4>1
    <3>4. sentOn'[m] = IF IsOpen(conn) THEN conn ELSE 0
      BY <1>1, <2>1, <2>2
    <3>5. Awaited(m, c)' <=> c = conn /\ IsOpen(conn)
      BY <1>1, <3>2, <3>4 DEF Awaited, Lost, IsOpen, Connection
    <3>6. QED
      BY <3>3, <3>5
  <2>3. CASE m # methods
    <3>1. m \in asked /\ (m \in results' <=> m \in results) /\ sentOn'[m] = sentOn[m]
      BY <1>1, <1>2, <1>9, <2>1, <2>3
    <3>2. Awaited(m, c)' <=> Awaited(m, c)
      BY <1>1, <3>1 DEF Awaited, Lost
    <3>3. Underway(m, c)' = Underway(m, c)
      BY <1>4, <1>5, <2>1, <2>3
    <3>4. QED
      BY <3>1, <3>2, <3>3 DEF SlotInv, Slotted
  <2>4. QED
    BY <2>2, <2>3
<1>10. QED
  BY <1>7, <1>8, <1>9 DEF Slotted

LEMMA LoopKeepsSlots ==
  ASSUME SlotInv, NEW c \in Connection, Loop(c)
  PROVE  Fresh' /\ Given' /\ Slotted'
<1>1. CASE init_session(c)
  <2>1. /\ state[c] = "connecting" /\ state' = [state EXCEPT ![c] = "open"]
        /\ UNCHANGED <<toClient, methods, asked, results, sentOn>>
        /\ toServer' = IF conn = c \/ IsOpen(conn)
                       THEN [toServer EXCEPT ![conn] = Append(@, [msg |-> "connect"])]
                       ELSE toServer
    BY <1>1 DEF init_session, session
  <2>2. /\ state \in [Connection -> {"unused", "connecting", "open", "closed"}]
        /\ toServer \in [Connection -> Seq(Message)]
    BY DEF SlotInv, TypeOK
  <2>3. ASSUME NEW m \in Method, NEW d \in Connection
        PROVE  Underway(m, d)' = Underway(m, d)
    <3>1. [msg |-> "connect"] \in Message /\ [msg |-> "connect"] \notin Of(m)
      BY Messages DEF Of
    <3>2. toServer[d] \in Seq(Message) /\ Count(toServer[d], Of(m)) \in Nat
      BY UnderwayTypes DEF SlotInv
    <3>3. Count(Append(toServer[d], [msg |-> "connect"]), Of(m)) = Count(toServer[d], Of(m))
      BY <3>1, <3>2, CountAppend
    <3>4. toServer'[d] \in {toServer[d], Append(toServer[d], [msg |-> "connect"])}
      BY <2>1, <2>2
    <3>5. QED
      BY <2>1, <3>3, <3>4 DEF Underway
  <2>4. QED
    BY <2>1, <2>2, <2>3, SlotsStay
<1>2. CASE on_connected(c) \/ on_ready(c) \/ ignore(c)
  <2>1. PICK k \in {"connected", "ready", "error", "nosub"} : Receives(c, k)
    BY <1>2 DEF on_connected, on_ready, ignore
  <2>2. UNCHANGED <<toServer, state, methods, asked, results, sentOn>>
    BY <1>2 DEF on_connected, on_ready, ignore, session
  <2>3. ASSUME NEW m \in Method, NEW d \in Connection
        PROVE  Underway(m, d)' = Underway(m, d)
    <3>1. Head(toClient[c]) \notin Of(m)
      BY <2>1, ReceivesTypes DEF SlotInv, Of
    <3>2. Count(toClient'[d], Of(m)) = Count(toClient[d], Of(m))
      BY <2>1, <3>1, UnderwayReceived, UnderwayTypes DEF SlotInv
    <3>3. QED
      BY <2>2, <3>2 DEF Underway
  <2>4. QED
    BY <2>2, <2>3, SlotsStay DEF SlotInv, TypeOK
<1>3. CASE on_ping(c)
  <2>1. /\ Receives(c, "ping") /\ toServer' = Sent([msg |-> "pong"])
        /\ UNCHANGED <<state, methods, asked, results, sentOn>>
    BY <1>3 DEF on_ping, session
  <2>2. ASSUME NEW m \in Method, NEW d \in Connection
        PROVE  Underway(m, d)' = Underway(m, d)
    <3>1. Head(toClient[c]) \notin Of(m)
      BY <2>1, ReceivesTypes DEF SlotInv, Of
    <3>2. Count(toClient'[d], Of(m)) = Count(toClient[d], Of(m))
      BY <2>1, <3>1, UnderwayReceived, UnderwayTypes DEF SlotInv
    <3>3. [msg |-> "pong"] \in Message /\ [msg |-> "pong"] \notin Of(m)
      BY Messages DEF Of
    <3>4. toServer[d] \in Seq(Message) /\ Count(toServer[d], Of(m)) \in Nat
      BY UnderwayTypes DEF SlotInv
    <3>5. Count(Append(toServer[d], [msg |-> "pong"]), Of(m)) = Count(toServer[d], Of(m))
      BY <3>3, <3>4, CountAppend
    <3>6. Count(toServer'[d], Of(m)) = Count(toServer[d], Of(m))
      BY <2>1, <3>3, <3>5, SentOn DEF SlotInv
    <3>7. QED
      BY <3>2, <3>6 DEF Underway
  <2>3. QED
    BY <2>1, <2>2, SlotsStay DEF SlotInv, TypeOK
<1>4. CASE on_result(c)
  <2>1. /\ Receives(c, "result") /\ results' = results \ {Head(toClient[c]).id}
        /\ UNCHANGED <<toServer, state, methods, asked, sentOn>>
    BY <1>4 DEF on_result
  <2>2. Head(toClient[c]).msg = "result" /\ Head(toClient[c]) \in Message
        /\ toClient[c] \in Seq(Message) /\ toClient[c] # <<>>
    BY <2>1, ReceivesTypes DEF SlotInv
  <2>3. ASSUME NEW m \in Method, NEW d \in Connection, m \in asked \/ m >= methods
        PROVE  \/ Underway(m, d)' = Underway(m, d) /\ (m \in results' <=> m \in results)
               \/ m \notin results' /\ Underway(m, d)' = 0
    <3>1. /\ Underway(m, d)' = Underway(m, d) - IF d = c /\ Head(toClient[c]) \in Of(m) THEN 1 ELSE 0
          /\ Underway(m, d) \in Nat
      BY <2>1, UnderwayReceived, UnderwayTypes DEF SlotInv, Underway
    <3>2. CASE Head(toClient[c]) \notin Of(m)
      <4>1. m # Head(toClient[c]).id
        BY <2>2, <3>2 DEF Of
      <4>2. QED
        BY <2>1, <3>1, <3>2, <4>1
    <3>3. CASE Head(toClient[c]) \in Of(m)
      <4>1. m \notin results'
        BY <2>1, <3>3 DEF Of
      <4>2. Underway(m, c) # 0
        BY <2>2, <3>3, HeadCounted, UnderwayTypes DEF SlotInv, Underway
      <4>3. m \in asked
        BY <2>3, <4>2 DEF SlotInv, Fresh
      <4>4. Underway(m, c) = 1 /\ sentOn[m] = c
        BY <4>2, <4>3 DEF SlotInv, Slotted, Awaited
      <4>5. d # c => Underway(m, d) = 0
        BY <4>3, <4>4 DEF SlotInv, Slotted, Awaited
      <4>6. Underway(m, d)' = 0
        BY <3>1, <3>3, <4>4, <4>5
      <4>7. QED
        BY <4>1, <4>6
    <3>4. QED
      BY <3>2, <3>3
  <2>4. QED
    BY <2>1, <2>3, SlotsStay
<1>5. QED
  BY <1>1, <1>2, <1>3, <1>4 DEF Loop, on_message

LEMMA SlotsKept == SlotInv /\ [Next]_vars => SlotInv'
<1> SUFFICES ASSUME SlotInv, [Next]_vars
             PROVE  SlotInv'
  OBVIOUS
<1>0. TypeOK'
  BY TypesKept DEF SlotInv
<1>1. SUFFICES Unused' /\ Fresh' /\ Given' /\ Slotted'
  BY <1>0 DEF SlotInv
<1>2. Unused'
  BY UnusedKept DEF SlotInv
<1>3. CASE \E callable \in BOOLEAN : connect(callable)
  <2>1. /\ conn + 1 \in Connection /\ state' = [state EXCEPT ![conn + 1] = "connecting"]
        /\ conn \in Nat /\ UNCHANGED <<toServer, toClient, methods, asked, results, sentOn>>
    BY <1>3, Numbers DEF connect, network, SlotInv
  <2>2. state[conn + 1] = "unused"
    BY <2>1 DEF SlotInv, Unused
  <2>3. \A m \in Method, d \in Connection : Underway(m, d)' = Underway(m, d)
    BY <2>1 DEF Underway
  <2>4. \A d \in Connection : /\ state[d] = "open" => state'[d] \in {"open", "closed"}
                              /\ state[d] = "closed" => state'[d] = "closed"
    BY <2>1, <2>2 DEF SlotInv, TypeOK
  <2>5. QED
    BY <1>0, <1>2, <2>1, <2>3, <2>4, SlotsStay
<1>4. CASE \E slot \in BOOLEAN : call_method(slot)
  BY <1>0, <1>2, <1>4, CallKeeps
<1>5. CASE \E i \in Sub : subscribe(i) \/ unsubscribe(i)
  <2>1. PICK i \in Sub : subscribe(i) \/ unsubscribe(i)
    BY <1>5
  <2>2. PICK k \in {"sub", "unsub"} : toServer' = Sent([msg |-> k, id |-> i])
    BY <2>1 DEF subscribe, unsubscribe
  <2>3. UNCHANGED <<toClient, state, methods, asked, results>>
    BY <2>1 DEF subscribe, unsubscribe
  <2>4. \A m \in Method : sentOn'[m] = sentOn[m]
    <3>1. \/ sentOn' = [sentOn EXCEPT ![i] = IF IsOpen(conn) THEN conn ELSE 0]
          \/ sentOn' = sentOn
      BY <2>1 DEF subscribe, unsubscribe
    <3>2. \A m \in Method : m # i
      BY IdsAssumption DEF Method
    <3>3. QED
      BY <3>1, <3>2 DEF SlotInv, TypeOK
  <2>5. ASSUME NEW m \in Method, NEW d \in Connection
        PROVE  Underway(m, d)' = Underway(m, d)
    <3>1. [msg |-> k, id |-> i] \in Message /\ [msg |-> k, id |-> i] \notin Of(m)
      BY <2>2, Messages DEF Of
    <3>2. Underway(m, d)' = Underway(m, d) + 0
      BY <2>2, <2>3, <3>1, UnderwaySent DEF SlotInv
    <3>3. Underway(m, d) \in Nat
      BY UnderwayTypes DEF SlotInv, Underway
    <3>4. QED
      BY <3>2, <3>3
  <2>6. QED
    BY <1>0, <1>2, <2>3, <2>4, <2>5, SlotsStay DEF SlotInv, TypeOK
<1>6. CASE \E c \in Connection : Loop(c)
  BY <1>0, <1>2, <1>6, LoopKeepsSlots
<1>7. CASE \E c \in Connection : Server(c)
  <2>1. PICK c \in Connection : Server(c)
    BY <1>7
  <2>2. UNCHANGED <<state, methods, asked, results, sentOn>>
    BY <2>1 DEF Server, ServerGreets, ServerRuns, ServerPublishes, ServerStops, ServerHearsPong,
                Answer, session
  <2>3. \A m \in Method, d \in Connection : Underway(m, d)' = Underway(m, d)
    BY <2>1, UnderwayAnswered DEF SlotInv
  <2>4. QED
    BY <1>0, <1>2, <2>2, <2>3, SlotsStay DEF SlotInv, TypeOK
<1>8. CASE \E c \in Connection : ServerPings(c)
  <2>1. PICK c \in Connection : ServerPings(c)
    BY <1>8
  <2>2. /\ toClient' = [toClient EXCEPT ![c] = Append(toClient[c], [msg |-> "ping"])]
        /\ UNCHANGED <<toServer, state, methods, asked, results, sentOn>>
    BY <2>1 DEF ServerPings, session
  <2>3. ASSUME NEW m \in Method, NEW d \in Connection
        PROVE  Underway(m, d)' = Underway(m, d)
    <3>1. [msg |-> "ping"] \in Message /\ [msg |-> "ping"] \notin Of(m)
      BY Messages DEF Of
    <3>2. toClient[d] \in Seq(Message) /\ Count(toClient[d], Of(m)) \in Nat
      BY UnderwayTypes DEF SlotInv
    <3>3. Count(Append(toClient[d], [msg |-> "ping"]), Of(m)) = Count(toClient[d], Of(m))
      BY <3>1, <3>2, CountAppend
    <3>4. toClient'[d] \in {toClient[d], Append(toClient[d], [msg |-> "ping"])}
      BY <2>2 DEF SlotInv, TypeOK
    <3>5. QED
      BY <2>2, <3>3, <3>4 DEF Underway
  <2>4. QED
    BY <1>0, <1>2, <2>2, <2>3, SlotsStay DEF SlotInv, TypeOK
<1>9. CASE \E c \in Connection : Close(c)
  <2>1. PICK c \in Connection : Close(c)
    BY <1>9
  <2>2. /\ state' = [state EXCEPT ![c] = "closed"] /\ toServer' = [toServer EXCEPT ![c] = <<>>]
        /\ toClient' = [toClient EXCEPT ![c] = <<>>] /\ UNCHANGED <<methods, asked, results, sentOn>>
    BY <2>1 DEF Close, session
  <2>3. /\ state \in [Connection -> {"unused", "connecting", "open", "closed"}]
        /\ toServer \in [Connection -> Seq(Message)] /\ toClient \in [Connection -> Seq(Message)]
    BY DEF SlotInv, TypeOK
  <2>4. ASSUME NEW m \in Method, NEW d \in Connection
        PROVE  \/ Underway(m, d)' = Underway(m, d) /\ state'[d] = state[d]
               \/ Underway(m, d)' = 0 /\ state'[d] = "closed"
    <3>1. CASE d = c
      <4>1. toServer'[d] = <<>> /\ toClient'[d] = <<>> /\ state'[d] = "closed"
        BY <2>2, <2>3, <3>1
      <4>2. Count(<<>>, Of(m)) = 0
        BY CountEmpty
      <4>3. Count(toServer'[d], Of(m)) = 0 /\ Count(toClient'[d], Of(m)) = 0
        BY <4>1, <4>2, Zenon
      <4>4. QED
        BY <4>1, <4>3 DEF Underway
    <3>2. CASE d # c
      <4>1. toServer'[d] = toServer[d] /\ toClient'[d] = toClient[d] /\ state'[d] = state[d]
        BY <2>2, <2>3, <3>2
      <4>2. QED
        BY <4>1 DEF Underway
    <3>3. QED
      BY <3>1, <3>2
  <2>5. \A d \in Connection : /\ state[d] = "open" => state'[d] \in {"open", "closed"}
                              /\ state[d] = "closed" => state'[d] = "closed"
    BY <2>2, <2>3
  <2>6. QED
    BY <1>0, <1>2, <2>2, <2>4, <2>5, SlotsStay
<1>10. CASE UNCHANGED vars
  <2>1. UNCHANGED <<state, toServer, toClient, methods, asked, results, sentOn>>
    BY <1>10 DEF vars
  <2>2. \A m \in Method, d \in Connection : Underway(m, d)' = Underway(m, d)
    BY <2>1 DEF Underway
  <2>3. QED
    BY <1>2, <2>1, <2>2, SlotsStay
<1>11. QED
  BY <1>3, <1>4, <1>5, <1>6, <1>7, <1>8, <1>9, <1>10 DEF Next, User

(***************************************************************************)
(* A slot of call_method waits exactly as long as one message about its    *)
(* method is on its way on the connection it was sent on, unless that one  *)
(* is lost; no result finds its slot gone or comes twice, whatever users,  *)
(* the server and the network do (ddp.cpp:64-84, 217-218).                 *)
(***************************************************************************)
THEOREM SlotsWaitForAnswers == Spec => []SlotsAwaitAnswers
<1>1. Init => SlotInv
  <2> SUFFICES ASSUME Init
               PROVE  SlotInv
    OBVIOUS
  <2>1. TypeOK
    BY InitTypes
  <2>2. Unused /\ Given /\ Slotted
    BY DEF Init, Unused, Given, Slotted
  <2>3. Fresh
    BY CountEmpty DEF Init, Fresh, Underway
  <2>4. QED
    BY <2>1, <2>2, <2>3 DEF SlotInv
<1>2. SlotInv => SlotsAwaitAnswers
  BY SlotsCounted DEF SlotInv
<1>3. QED
  BY <1>1, <1>2, SlotsKept, PTL DEF Spec

-----------------------------------------------------------------------------
(* Users who connect again only after the connection closed have one       *)
(* connection at a time, and it is greeted after it opened.                *)
Hello == {x \in Message : x.msg = "connect"}
Greetings(c) == greeted[c] + Count(toServer[c], Hello)

Single == \A c \in Connection : c # conn => state[c] \in {"unused", "closed"}
Ungreeted == \A c \in Connection : state[c] \in {"unused", "connecting"} => greeted[c] = 0
Once == \A c \in Connection : Greetings(c) <= 1

OnceInv == FirstInv /\ Single /\ Ungreeted /\ Once

LEMMA GreetingTypes ==
  ASSUME TypeOK, NEW c \in Connection
  PROVE  /\ toServer[c] \in Seq(Message) /\ Count(toServer[c], Hello) \in Nat
         /\ greeted[c] \in Nat
<1>1. toServer[c] \in Seq(Message) /\ greeted[c] \in Nat
  BY DEF TypeOK
<1>2. QED
  BY <1>1, PlacesFinite

(* A message of the client that is not "connect" greets no one.            *)
LEMMA SendsKeepOnce ==
  ASSUME OnceInv, NEW x \in Message, x.msg # "connect", toServer' = Sent(x),
         UNCHANGED <<state, greeted, conn>>
  PROVE  Single' /\ Ungreeted' /\ Once'
<1>1. Single' /\ Ungreeted'
  BY DEF OnceInv, Single, Ungreeted
<1>2. ASSUME NEW c \in Connection
      PROVE  Greetings(c)' = Greetings(c)
  <2>1. toServer[c] \in Seq(Message) /\ Count(toServer[c], Hello) \in Nat
    BY GreetingTypes DEF OnceInv, FirstInv
  <2>2. Count(Append(toServer[c], x), Hello) = Count(toServer[c], Hello)
    <3>1. x \notin Hello
      BY DEF Hello
    <3>2. QED
      BY <2>1, <3>1, CountAppend
  <2>3. toServer'[c] \in {toServer[c], Append(toServer[c], x)}
    BY SentOn DEF OnceInv, FirstInv
  <2>4. Count(toServer'[c], Hello) = Count(toServer[c], Hello)
    BY <2>2, <2>3
  <2>5. QED
    BY <2>4 DEF Greetings
<1>3. Once'
  BY <1>2 DEF OnceInv, Once
<1>4. QED
  BY <1>1, <1>3

(* The connection that opens is the latest, and no one greeted it before.  *)
LEMMA OpensOnce ==
  ASSUME OnceInv, NEW c \in Connection, init_session(c)
  PROVE  Single' /\ Ungreeted' /\ Once'
<1>1. /\ state[c] = "connecting" /\ state' = [state EXCEPT ![c] = "open"]
      /\ UNCHANGED <<greeted, conn>>
      /\ conn = c => toServer' = [toServer EXCEPT ![c] = Append(@, [msg |-> "connect"])]
  BY DEF init_session, session
<1>2. /\ state \in [Connection -> {"unused", "connecting", "open", "closed"}]
      /\ toServer \in [Connection -> Seq(Message)]
  BY DEF OnceInv, FirstInv, TypeOK
<1>3. c = conn
  BY <1>1 DEF OnceInv, Single
<1>4. Single' /\ Ungreeted'
  BY <1>1, <1>2, <1>3 DEF OnceInv, Single, Ungreeted
<1>5. Greetings(c)' = 1
  <2>1. greeted'[c] = 0 /\ toServer[c] = <<>>
    BY <1>1 DEF OnceInv, Ungreeted, FirstInv, Drained
  <2>2. toServer'[c] = Append(<<>>, [msg |-> "connect"])
    BY <1>1, <1>2, <1>3, <2>1
  <2>3. [msg |-> "connect"] \in Hello /\ [msg |-> "connect"] \in Message /\ <<>> \in Seq(Message)
    BY Messages DEF Hello
  <2>4. Count(toServer'[c], Hello) = 1
    <3>1. \A s \in Seq(Message), x \in Message :
            Count(Append(s, x), Hello) = Count(s, Hello) + IF x \in Hello THEN 1 ELSE 0
      BY CountAppend
    <3>2. Count(<<>>, Hello) = 0
      BY CountEmpty
    <3>3. PICK x \in Message : x = [msg |-> "connect"]
      BY <2>3
    <3>4. Count(Append(<<>>, x), Hello) = 0 + 1
      <4>1. Count(Append(<<>>, x), Hello) = Count(<<>>, Hello) + IF x \in Hello THEN 1 ELSE 0
        BY <2>3, <3>1, Zenon
      <4>2. QED
        BY <2>3, <3>2, <3>3, <4>1
    <3>5. QED
      BY <2>2, <3>3, <3>4
  <2>5. QED
    BY <2>1, <2>4 DEF Greetings
<1>6. ASSUME NEW d \in Connection, d # c
      PROVE  Greetings(d)' = Greetings(d)
  <2>1. toServer'[d] = toServer[d] /\ greeted'[d] = greeted[d]
    BY <1>1, <1>2, <1>3, <1>6
  <2>2. QED
    BY <2>1 DEF Greetings
<1>7. Once'
  BY <1>5, <1>6 DEF OnceInv, Once
<1>8. QED
  BY <1>4, <1>7

(* The server counts a "connect" as it takes it.                           *)
LEMMA AnswersOnce ==
  ASSUME OnceInv, NEW c \in Connection, Server(c)
  PROVE  Single' /\ Ungreeted' /\ Once'
<1>1. PICK k \in {"connect", "method", "sub", "unsub", "pong"} :
        /\ Arrives(c, k)
        /\ k = "connect" => greeted' = [greeted EXCEPT ![c] = @ + 1]
        /\ k # "connect" => greeted' = greeted
        /\ \E answers : Answer(c, answers)
  BY ServerAnswers DEF OnceInv, FirstInv
<1>2. /\ toServer \in [Connection -> Seq(Message)] /\ greeted \in [Connection -> Nat]
      /\ toServer' = [toServer EXCEPT ![c] = Tail(toServer[c])] /\ UNCHANGED <<state, conn>>
      /\ state[c] = "open" /\ toServer[c] # <<>> /\ toServer[c] \in Seq(Message)
      /\ Head(toServer[c]) \in Message /\ Head(toServer[c]).msg = k
  BY <1>1, AnswerTypes DEF OnceInv, FirstInv, TypeOK, Answer, Arrives, session
<1>3. Single' /\ Ungreeted'
  BY <1>1, <1>2 DEF OnceInv, Single, Ungreeted
<1>4. Greetings(c)' = Greetings(c)
  <2>1. Count(toServer'[c], Hello) = Count(toServer[c], Hello) - IF k = "connect" THEN 1 ELSE 0
    <3>1. Head(toServer[c]) \in Hello <=> k = "connect"
      BY <1>2 DEF Hello
    <3>2. toServer'[c] = Tail(toServer[c])
      BY <1>2
    <3>3. QED
      BY <1>2, <3>1, <3>2, CountTail
  <2>2. greeted'[c] = greeted[c] + IF k = "connect" THEN 1 ELSE 0
    BY <1>1, <1>2
  <2>3. Count(toServer[c], Hello) \in Nat /\ greeted[c] \in Nat
    BY GreetingTypes DEF OnceInv, FirstInv
  <2>4. QED
    BY <2>1, <2>2, <2>3 DEF Greetings
<1>5. ASSUME NEW d \in Connection, d # c
      PROVE  Greetings(d)' = Greetings(d)
  <2>1. toServer'[d] = toServer[d] /\ greeted'[d] = greeted[d]
    BY <1>1, <1>2, <1>5
  <2>2. QED
    BY <2>1 DEF Greetings
<1>6. Once'
  BY <1>4, <1>5 DEF OnceInv, Once
<1>7. QED
  BY <1>3, <1>6

LEMMA ConnectsOnce ==
  ASSUME OnceInv, "hasty" \notin Liberty, "replace" \notin Liberty,
         NEW callable, connect(callable)
  PROVE  Single' /\ Ungreeted' /\ Once'
<1>1. /\ conn + 1 \in Connection /\ conn' = conn + 1 /\ conn \in Nat
      /\ state' = [state EXCEPT ![conn + 1] = "connecting"] /\ UNCHANGED <<toServer, greeted>>
      /\ conn # 0 => conn \in Connection /\ state[conn] = "closed"
  BY Numbers DEF connect, network, OnceInv, FirstInv
<1>2. /\ state \in [Connection -> {"unused", "connecting", "open", "closed"}]
      /\ Connection \subseteq Nat /\ 0 \notin Connection
  BY DEF OnceInv, FirstInv, TypeOK, Connection
<1>3. state[conn + 1] = "unused"
  BY <1>1 DEF OnceInv, FirstInv, Unused
<1>4. Single'
  BY <1>1, <1>2 DEF OnceInv, Single
<1>5. Ungreeted'
  BY <1>1, <1>2, <1>3 DEF OnceInv, Ungreeted
<1>6. Once'
  BY <1>1 DEF OnceInv, Once, Greetings
<1>7. QED
  BY <1>4, <1>5, <1>6

LEMMA ClosesOnce ==
  ASSUME OnceInv, NEW c \in Connection, Close(c)
  PROVE  Single' /\ Ungreeted' /\ Once'
<1>1. /\ state' = [state EXCEPT ![c] = "closed"] /\ toServer' = [toServer EXCEPT ![c] = <<>>]
      /\ UNCHANGED <<greeted, conn>>
  BY DEF Close, session
<1>2. /\ state \in [Connection -> {"unused", "connecting", "open", "closed"}]
      /\ toServer \in [Connection -> Seq(Message)]
  BY DEF OnceInv, FirstInv, TypeOK
<1>3. Single' /\ Ungreeted'
  BY <1>1, <1>2 DEF OnceInv, Single, Ungreeted
<1>4. ASSUME NEW d \in Connection
      PROVE  Greetings(d)' <= 1
  <2>1. /\ Count(toServer[d], Hello) \in Nat /\ greeted[d] \in Nat
        /\ greeted[d] + Count(toServer[d], Hello) <= 1
    BY GreetingTypes DEF OnceInv, FirstInv, Once, Greetings
  <2>2. CASE toServer'[d] = <<>>
    <3>1. Count(toServer'[d], Hello) = 0
      BY <2>2, CountEmpty
    <3>2. greeted'[d] + Count(toServer'[d], Hello) <= 1
      BY <1>1, <2>1, <3>1
    <3>3. QED
      BY <3>2 DEF Greetings
  <2>3. CASE toServer'[d] = toServer[d]
    BY <1>1, <2>1, <2>3 DEF Greetings
  <2>4. QED
    BY <1>1, <1>2, <2>2, <2>3
<1>5. QED
  BY <1>3, <1>4 DEF Once

LEMMA OnceKept ==
  ASSUME "hasty" \notin Liberty, "replace" \notin Liberty
  PROVE  OnceInv /\ [Next]_vars => OnceInv'
<1> SUFFICES ASSUME OnceInv, [Next]_vars
             PROVE  OnceInv'
  OBVIOUS
<1>0. FirstInv'
  BY FirstKept DEF OnceInv
<1>1. SUFFICES Single' /\ Ungreeted' /\ Once'
  BY <1>0 DEF OnceInv
<1>2. CASE UNCHANGED <<toServer, state, greeted, conn>>
  BY <1>2 DEF OnceInv, Single, Ungreeted, Once, Greetings
<1>3. CASE (\E x \in Message : x.msg # "connect" /\ toServer' = Sent(x))
           /\ UNCHANGED <<state, greeted, conn>>
  BY <1>3, SendsKeepOnce
<1>4. CASE \E callable \in BOOLEAN : connect(callable)
  BY <1>4, ConnectsOnce
<1>5. CASE \E slot \in BOOLEAN : call_method(slot)
  <2>1. [msg |-> "method", id |-> methods] \in Message
    BY <1>5, Numbers, Messages DEF call_method, OnceInv, FirstInv
  <2>2. QED
    BY <1>3, <1>5, <2>1 DEF call_method
<1>6. CASE \E i \in Sub : subscribe(i) \/ unsubscribe(i)
  <2>1. PICK i \in Sub : subscribe(i) \/ unsubscribe(i)
    BY <1>6
  <2>2. PICK k \in {"sub", "unsub"} : toServer' = Sent([msg |-> k, id |-> i])
    BY <2>1 DEF subscribe, unsubscribe
  <2>3. [msg |-> k, id |-> i] \in Message /\ [msg |-> k, id |-> i].msg # "connect"
    BY <2>2, Messages
  <2>4. QED
    BY <1>3, <2>1, <2>2, <2>3 DEF subscribe, unsubscribe
<1>7. CASE \E c \in Connection : init_session(c)
  BY <1>7, OpensOnce
<1>8. CASE \E c \in Connection : on_ping(c)
  <2>1. [msg |-> "pong"] \in Message /\ [msg |-> "pong"].msg # "connect"
    BY Messages
  <2>2. QED
    BY <1>3, <1>8, <2>1 DEF on_ping, session
<1>9. CASE \E c \in Connection : on_connected(c) \/ on_ready(c) \/ on_result(c) \/ ignore(c) \/ ServerPings(c)
  BY <1>2, <1>9 DEF on_connected, on_ready, on_result, ignore, ServerPings, session
<1>10. CASE \E c \in Connection : Server(c)
  BY <1>10, AnswersOnce
<1>11. CASE \E c \in Connection : Close(c)
  BY <1>11, ClosesOnce
<1>12. QED
  BY <1>2, <1>4, <1>5, <1>6, <1>7, <1>8, <1>9, <1>10, <1>11 DEF Next, User, Loop, on_message, vars

(***************************************************************************)
(* No server receives a second "connect" on a connection, if users connect *)
(* again only after the previous connection closed or failed               *)
(* (ddp.cpp:49-62, 146-156).                                               *)
(***************************************************************************)
THEOREM ConnectComesOnce ==
  ASSUME "hasty" \notin Liberty, "replace" \notin Liberty
  PROVE  Spec => []HandshakeOnce
<1>1. Init => OnceInv
  <2> SUFFICES ASSUME Init
               PROVE  OnceInv
    OBVIOUS
  <2>1. FirstInv
    BY InitTypes DEF FirstInv, Init, Unused, Drained, Begun, HandshakeFirst
  <2>2. Single /\ Ungreeted
    BY DEF Init, Single, Ungreeted
  <2>3. Once
    BY CountEmpty DEF Init, Once, Greetings
  <2>4. QED
    BY <2>1, <2>2, <2>3 DEF OnceInv
<1>2. OnceInv => HandshakeOnce
  <2> SUFFICES ASSUME OnceInv, NEW c \in Connection
               PROVE  greeted[c] + Cardinality({k \in DOMAIN toServer[c] :
                                                  toServer[c][k].msg = "connect"}) <= 1
    BY DEF HandshakeOnce
  <2>1. \A k \in DOMAIN toServer[c] : toServer[c][k] \in Message
    <3>1. toServer[c] \in Seq(Message)
      BY GreetingTypes DEF OnceInv, FirstInv
    <3>2. QED
      BY <3>1
  <2>2. {k \in DOMAIN toServer[c] : toServer[c][k].msg = "connect"} = Places(toServer[c], Hello)
    BY <2>1 DEF Places, Hello
  <2>3. QED
    BY <2>2 DEF OnceInv, Once, Greetings, Count
<1>3. OnceInv /\ [Next]_vars => OnceInv'
  BY OnceKept
<1>4. QED
  BY <1>1, <1>2, <1>3, PTL DEF Spec
=============================================================================
