---------------------------------- MODULE Ddp ----------------------------------
(***************************************************************************)
(* class ddp: the session with a Meteor server over WebSocket connections. *)
(*                                                                         *)
(* `_conn' points to the connection of the latest call of connect.  Every  *)
(* message is sent there; messages received on any connection go to the    *)
(* same handler, on_message.  A send on a connection that is not open is   *)
(* dropped: websocketpp returns an error code that the code ignores.  Each *)
(* call with a slot leaves a one-shot slot in a signal, which waits for    *)
(* the answer with its id.  Handlers and user code run in one thread, one  *)
(* after the other.                                                        *)
(*                                                                         *)
(* The WebSocket connections and the server are external; the server does  *)
(* what the handlers of this class expect of a DDP server.                 *)
(***************************************************************************)
EXTENDS Naturals, Sequences, FiniteSets

CONSTANTS
  MaxConnections,  \* bound on the calls of connect
  MaxMethods,      \* bound on the calls of call_method
  Sub,             \* the ids random_id gives to subscriptions
  MaxPings,        \* bound on the pings of the server on a connection
  Liberty          \* what users, the server and the network may do

ASSUME BoundsAssumption ==
  MaxConnections \in Nat /\ MaxMethods \in Nat /\ MaxPings \in Nat

ASSUME IdsAssumption == Sub \cap Nat = {}

(***************************************************************************)
(* "early": users send before the connection is open; "hasty" and          *)
(* "replace": they connect again while a connection is being opened or is  *)
(* open; "noslot": they connect without a slot, as the default argument    *)
(* allows; "close": connections fail and close; "refuse": the server       *)
(* refuses subscriptions.                                                  *)
(***************************************************************************)
ASSUME LibertyAssumption ==
  Liberty \subseteq {"early", "hasty", "replace", "noslot", "close", "refuse"}

Connection == 1 .. MaxConnections
Method == 0 .. MaxMethods - 1   \* values of the counter in random_method_id

Message ==
  [msg : {"connect", "connected", "error", "ping", "pong"}]
    \cup [msg : {"method", "result"}, id : Method]
    \cup [msg : {"sub", "unsub", "ready", "nosub"}, id : Sub]

VARIABLES
  state,      \* state of each connection
  toServer,   \* messages sent on each connection, in order
  toClient,   \* messages the server sent on each connection, in order
  greeted,    \* how many "connect" the server received on each connection
  pinged,     \* the pings of the server without a pong yet
  conn,       \* ddp::_conn, 0 for none
  connected,  \* the slots in _connected_sig: whether they are callable
  methods,    \* the counter in random_method_id
  asked,      \* the methods that were called with a slot
  results,    \* methods with a slot in _method_result_sig
  readies,    \* subscriptions with a slot in _ready_sig
  subs,       \* what became of each subscription id
  sentOn,     \* the connection each call was sent on, 0 for none
  broken      \* an empty slot was called: the exception left the event loop

vars == <<state, toServer, toClient, greeted, pinged, conn, connected, methods,
          asked, results, readies, subs, sentOn, broken>>

network == <<toServer, toClient, greeted, pinged>>
session == <<conn, connected, methods, asked, results, readies, subs, sentOn, broken>>

TypeOK ==
  /\ state \in [Connection -> {"unused", "connecting", "open", "closed"}]
  /\ toServer \in [Connection -> Seq(Message)]
  /\ toClient \in [Connection -> Seq(Message)]
  /\ greeted \in [Connection -> Nat]
  /\ pinged \in [Connection -> 0 .. MaxPings]
  /\ conn \in 0 .. MaxConnections
  /\ connected \in Seq(BOOLEAN)
  /\ methods \in 0 .. MaxMethods
  /\ asked \subseteq Method /\ results \subseteq Method /\ readies \subseteq Sub
  /\ subs \in [Sub -> {"unused", "subscribed", "dropped"}]
  /\ sentOn \in [Method \cup Sub -> 0 .. MaxConnections]
  /\ broken \in BOOLEAN

Init ==
  /\ state = [c \in Connection |-> "unused"]
  /\ toServer = [c \in Connection |-> <<>>]
  /\ toClient = [c \in Connection |-> <<>>]
  /\ greeted = [c \in Connection |-> 0]
  /\ pinged = [c \in Connection |-> 0]
  /\ conn = 0
  /\ connected = <<>>
  /\ methods = 0
  /\ asked = {} /\ results = {} /\ readies = {}
  /\ subs = [i \in Sub |-> "unused"]
  /\ sentOn = [i \in Method \cup Sub |-> 0]
  /\ broken = FALSE

-----------------------------------------------------------------------------
IsOpen(c) == c # 0 /\ state[c] = "open"

(* _conn->send(...): the error code of a connection that is not open is    *)
(* ignored, and the message with it.                                       *)
Sent(m) ==
  IF IsOpen(conn) THEN [toServer EXCEPT ![conn] = Append(@, m)] ELSE toServer

(* User code runs when the event loop does, from the slot of connect on.   *)
(* Without _conn sending would dereference a null pointer.                 *)
UserSends ==
  /\ ~broken
  /\ conn # 0
  /\ (IsOpen(conn) /\ connected = <<>>) \/ "early" \in Liberty

(* ddp::connect: the slot waits for the session, _conn is replaced.  Users *)
(* give a url that get_connection takes: for another one connect throws    *)
(* before a slot is connected and leaves _conn null (ddp.cpp:52-55).       *)
connect(callable) ==
  /\ ~broken
  /\ conn < MaxConnections
  /\ callable \/ "noslot" \in Liberty
  /\ conn # 0 => \/ state[conn] = "closed"
                 \/ state[conn] = "connecting" /\ "hasty" \in Liberty
                 \/ state[conn] = "open" /\ "replace" \in Liberty
  /\ conn' = conn + 1
  /\ state' = [state EXCEPT ![conn + 1] = "connecting"]
  /\ connected' = Append(connected, callable)
  /\ UNCHANGED <<network, methods, asked, results, readies, subs, sentOn, broken>>

(* Mutant of call_method: the message is built with the next id.           *)
call_method_NextId(slot) ==
  /\ UserSends
  /\ methods < MaxMethods
  /\ methods' = methods + 1
  /\ asked' = IF slot THEN asked \cup {methods} ELSE asked
  /\ results' = IF slot THEN results \cup {methods} ELSE results
  /\ toServer' = Sent([msg |-> "method", id |-> methods + 1])
  /\ sentOn' = [sentOn EXCEPT ![methods] = IF IsOpen(conn) THEN conn ELSE 0]
  /\ UNCHANGED <<state, toClient, greeted, pinged, conn, connected, readies, subs, broken>>

(* ddp::call_method, with or without a slot for the result. *)
call_method(slot) ==
  /\ UserSends
  /\ methods < MaxMethods
  /\ methods' = methods + 1
  /\ asked' = IF slot THEN asked \cup {methods} ELSE asked
  /\ results' = IF slot THEN results \cup {methods} ELSE results
  /\ toServer' = Sent([msg |-> "method", id |-> methods])
  /\ sentOn' = [sentOn EXCEPT ![methods] = IF IsOpen(conn) THEN conn ELSE 0]
  /\ UNCHANGED <<state, toClient, greeted, pinged, conn, connected, readies, subs, broken>>

(* ddp::subscribe, with a slot for the initial batch. *)
subscribe(i) ==
  /\ UserSends
  /\ subs[i] = "unused"
  /\ subs' = [subs EXCEPT ![i] = "subscribed"]
  /\ readies' = readies \cup {i}
  /\ toServer' = Sent([msg |-> "sub", id |-> i])
  /\ sentOn' = [sentOn EXCEPT ![i] = IF IsOpen(conn) THEN conn ELSE 0]
  /\ UNCHANGED <<state, toClient, greeted, pinged, conn, connected, methods, asked, results,
                 broken>>

(* ddp::unsubscribe, once for each subscription; its slot stays. *)
unsubscribe(i) ==
  /\ UserSends
  /\ subs[i] = "subscribed"
  /\ subs' = [subs EXCEPT ![i] = "dropped"]
  /\ toServer' = Sent([msg |-> "unsub", id |-> i])
  /\ UNCHANGED <<state, toClient, greeted, pinged, conn, connected, methods, asked,
                 results, readies, sentOn, broken>>

-----------------------------------------------------------------------------
(* Mutants of init_session: no message is sent, or one on every opening.   *)
init_session_Silent(c) ==
  /\ ~broken
  /\ state[c] = "connecting"
  /\ state' = [state EXCEPT ![c] = "open"]
  /\ UNCHANGED <<network, session>>

init_session_Twice(c) ==
  /\ ~broken
  /\ state[c] = "connecting"
  /\ state' = [state EXCEPT ![c] = "open"]
  /\ toServer' = [toServer EXCEPT ![c] = @ \o <<[msg |-> "connect"], [msg |-> "connect"]>>]
  /\ UNCHANGED <<toClient, greeted, pinged, session>>

(* The handlers.  open: the connection c is established and websocketpp    *)
(* calls init_session, which knows _conn only.                             *)
init_session(c) ==
  /\ ~broken
  /\ state[c] = "connecting"
  /\ state' = [state EXCEPT ![c] = "open"]
  /\ toServer' = IF conn = c \/ IsOpen(conn)
                 THEN [toServer EXCEPT ![conn] = Append(@, [msg |-> "connect"])]
                 ELSE toServer
  /\ UNCHANGED <<toClient, greeted, pinged, session>>

(* on_message takes the next message of connection c. *)
Receives(c, m) ==
  /\ ~broken
  /\ state[c] = "open"
  /\ toClient[c] # <<>> /\ Head(toClient[c]).msg = m
  /\ toClient' = [toClient EXCEPT ![c] = Tail(@)]

(* Every slot of connect runs and is disconnected; an empty one throws     *)
(* bad_function_call through the event loop, before it is disconnected.    *)
on_connected(c) ==
  /\ Receives(c, "connected")
  /\ IF \A k \in DOMAIN connected : connected[k]
     THEN connected' = <<>> /\ UNCHANGED broken
     ELSE broken' = TRUE /\ UNCHANGED connected
  /\ UNCHANGED <<state, toServer, greeted, pinged, conn, methods, asked, results,
                 readies, subs, sentOn>>

(* Mutant of on_ping: no answer. *)
on_ping_Silent(c) ==
  /\ Receives(c, "ping")
  /\ UNCHANGED <<state, toServer, greeted, pinged, session>>

on_ping(c) ==
  /\ Receives(c, "ping")
  /\ toServer' = Sent([msg |-> "pong"])
  /\ UNCHANGED <<state, greeted, pinged, session>>

(* Mutants of on_ready and on_result: the id is not the one waited for, or *)
(* the slots do not compare it with theirs.                                *)
on_ready_Misses(c) ==
  /\ Receives(c, "ready")
  /\ UNCHANGED <<state, toServer, greeted, pinged, session>>

on_result_Misses(c) ==
  /\ Receives(c, "result")
  /\ UNCHANGED <<state, toServer, greeted, pinged, session>>

on_result_AnyId(c) ==
  /\ Receives(c, "result")
  /\ results' = {}
  /\ UNCHANGED <<state, toServer, greeted, pinged, conn, connected, methods, asked,
                 readies, subs, sentOn, broken>>

on_ready(c) ==
  /\ Receives(c, "ready")
  /\ readies' = readies \ {Head(toClient[c]).id}
  /\ UNCHANGED <<state, toServer, greeted, pinged, conn, connected, methods, asked,
                 results, subs, sentOn, broken>>

on_result(c) ==
  /\ Receives(c, "result")
  /\ results' = results \ {Head(toClient[c]).id}
  /\ UNCHANGED <<state, toServer, greeted, pinged, conn, connected, methods, asked,
                 readies, subs, sentOn, broken>>

(* "error" and "nosub" are read and ignored. *)
ignore(c) ==
  /\ Receives(c, "error") \/ Receives(c, "nosub")
  /\ UNCHANGED <<state, toServer, greeted, pinged, session>>

on_message(c) ==
  on_connected(c) \/ on_ping(c) \/ on_ready(c) \/ on_result(c) \/ ignore(c)

-----------------------------------------------------------------------------
(* The server and the network. *)
Answer(c, answers) ==
  /\ toServer' = [toServer EXCEPT ![c] = Tail(@)]
  /\ toClient' = [toClient EXCEPT ![c] = @ \o answers]
  /\ UNCHANGED <<state, session>>

Arrives(c, m) == state[c] = "open" /\ toServer[c] # <<>> /\ Head(toServer[c]).msg = m

ServerGreets(c) ==
  /\ Arrives(c, "connect")
  /\ greeted' = [greeted EXCEPT ![c] = @ + 1]
  /\ Answer(c, <<[msg |-> IF greeted[c] = 0 THEN "connected" ELSE "error"]>>)
  /\ UNCHANGED pinged

ServerRuns(c) ==
  /\ Arrives(c, "method")
  /\ Answer(c, <<[msg |-> "result", id |-> Head(toServer[c]).id]>>)
  /\ UNCHANGED <<greeted, pinged>>

ServerPublishes(c) ==
  /\ Arrives(c, "sub")
  /\ \E m \in {"ready"} \cup (IF "refuse" \in Liberty THEN {"nosub"} ELSE {}) :
       Answer(c, <<[msg |-> m, id |-> Head(toServer[c]).id]>>)
  /\ UNCHANGED <<greeted, pinged>>

ServerStops(c) ==
  /\ Arrives(c, "unsub")
  /\ Answer(c, <<[msg |-> "nosub", id |-> Head(toServer[c]).id]>>)
  /\ UNCHANGED <<greeted, pinged>>

ServerPings(c) ==
  /\ state[c] = "open" /\ greeted[c] > 0 /\ pinged[c] < MaxPings
  /\ pinged' = [pinged EXCEPT ![c] = @ + 1]
  /\ toClient' = [toClient EXCEPT ![c] = Append(@, [msg |-> "ping"])]
  /\ UNCHANGED <<state, toServer, greeted, session>>

ServerHearsPong(c) ==
  /\ Arrives(c, "pong")
  /\ pinged' = [pinged EXCEPT ![c] = IF @ > 0 THEN @ - 1 ELSE 0]
  /\ Answer(c, <<>>)
  /\ UNCHANGED greeted

(* An attempt fails or a connection closes; class ddp has no handler.      *)
Close(c) ==
  /\ "close" \in Liberty
  /\ state[c] \in {"connecting", "open"}
  /\ state' = [state EXCEPT ![c] = "closed"]
  /\ toServer' = [toServer EXCEPT ![c] = <<>>]
  /\ toClient' = [toClient EXCEPT ![c] = <<>>]
  /\ UNCHANGED <<greeted, pinged, session>>

-----------------------------------------------------------------------------
User ==
  \/ \E callable \in BOOLEAN : connect(callable)
  \/ \E slot \in BOOLEAN : call_method(slot)
  \/ \E i \in Sub : subscribe(i) \/ unsubscribe(i)

Loop(c) == init_session(c) \/ on_message(c)

Server(c) ==
  \/ ServerGreets(c) \/ ServerRuns(c) \/ ServerPublishes(c) \/ ServerStops(c)
  \/ ServerHearsPong(c)

Next ==
  \/ User
  \/ \E c \in Connection : Loop(c) \/ Server(c) \/ ServerPings(c) \/ Close(c)

Spec == Init /\ [][Next]_vars

(* The event loop of boost.asio runs every handler that is ready, and the  *)
(* server answers what it receives.                                        *)
FairSpec == Spec /\ \A c \in Connection : WF_vars(Loop(c)) /\ WF_vars(Server(c))

-----------------------------------------------------------------------------
(* The messages about method m on connection c, either way.                *)
About(m, messages) ==
  {k \in DOMAIN messages : messages[k].msg \in {"method", "result"} /\ messages[k].id = m}

Traffic(m, c) == Cardinality(About(m, toServer[c])) + Cardinality(About(m, toClient[c]))

(* The connection a call needs is gone, or never was. *)
Lost(i) == sentOn[i] = 0 \/ state[sentOn[i]] = "closed"

(***************************************************************************)
(* A slot of call_method waits exactly as long as one message about its    *)
(* method is on its way, on the connection the call was sent on, unless    *)
(* that connection is lost.  No result finds its slot gone or comes twice, *)
(* and no slot waits for a result that was consumed, whatever connections  *)
(* were opened since (ddp.cpp:64-84, 217-218).                             *)
(***************************************************************************)
SlotsAwaitAnswers ==
  \A m \in asked, c \in Connection :
    Traffic(m, c) = IF m \in results /\ sentOn[m] = c /\ ~Lost(m) THEN 1 ELSE 0

(* The first message a server receives on a connection is "connect", also  *)
(* when _conn was replaced before the connection was open, and sends came  *)
(* early (ddp.cpp:52, 146-156).                                            *)
HandshakeFirst ==
  \A c \in Connection :
    greeted[c] = 0 /\ toServer[c] # <<>> => toServer[c][1].msg = "connect"

(* A server never receives a second "connect" on a connection, if users    *)
(* reconnect only after the previous connection closed or failed           *)
(* (ddp.cpp:49-62, 146-156).                                               *)
HandshakeOnce ==
  \A c \in Connection :
    greeted[c] + Cardinality({k \in DOMAIN toServer[c] : toServer[c][k].msg = "connect"}) <= 1

(***************************************************************************)
(* Every slot of call_method is run, unless the connection is lost, also   *)
(* when others were opened since (ddp.cpp:68-73, 217-218).                 *)
(***************************************************************************)
MethodsAnsweredOrLost == \A m \in Method : m \in results ~> m \notin results \/ Lost(m)

(* So is every slot of subscribe (ddp.cpp:90-95, 209-212). *)
SubscriptionsReadyOrLost == \A i \in Sub : i \in readies ~> i \notin readies \/ Lost(i)

(* The server never waits for a pong for ever: it goes out on _conn, and   *)
(* that is the connection the ping came in on (ddp.cpp:191-195).           *)
PingsAnswered ==
  \A c \in Connection : pinged[c] > 0 ~> pinged[c] = 0 \/ state[c] = "closed"
=============================================================================
