----------------------------- MODULE WsConnection -----------------------------
(***************************************************************************)
(* The client connection of WebSocket++ as class ddp runs it: resolve,     *)
(* connect, the HTTP handshake, frames, and the closing handshake, over    *)
(* the asio transport without TLS or proxy, with config::asio's settings   *)
(* (timeouts on, drop_on_protocol_error and silent_close off, extensions   *)
(* allowed and none implemented).                                          *)
(*                                                                         *)
(* One thread runs the event loop, so a handler is a step; the frames of   *)
(* one read are handled a frame per step, since the message handler runs   *)
(* between them and may send.  Frames come whole: module Hybi13 has their  *)
(* decoding.  The server and the network are external, and may misbehave.  *)
(***************************************************************************)
EXTENDS Naturals, Sequences, SequencesExt

CONSTANTS
  MaxSend,   \* bound on the messages sent
  MaxServed  \* bound on the frames the server sends

ASSUME BoundsAssumption == MaxSend \in Nat /\ MaxServed \in Nat

Timer == {"dns", "connect", "open", "close"}

(* The server sends pieces of its HTTP response, then frames; "badclose"   *)
(* has an invalid code, "bad" is one that consume rejects.                 *)
Response == {"partial", "ok", "reject"}
Served == {"data", "ping", "close", "badclose", "bad"}

(* What the client writes; "close" is marked terminal, an "ack" is not.    *)
Written == {"data", "pong", "close", "ack"}

Frame(ops) == [op : ops, n : 0 .. MaxSend + MaxServed]
Control(op) == [op |-> op, n |-> 0]
Data(n) == [op |-> "data", n |-> n]

VARIABLES
  state,     \* m_state
  step,      \* the asynchronous operation that leads on, "handling", "reopening"
             \* (handle_read_http_response is in terminate) or "none"
  timers,    \* "off", "set", or "queued": expired, its handler waits to run
  queue,     \* m_send_queue
  posted,    \* calls of write_frame posted to the event loop
  flag,      \* m_write_flag
  current,   \* m_current_msgs: being written if not empty
  buffer,    \* frames that handle_read_frame has not handled yet
  peer,      \* the server: "silent", "partial", "talking", "fin" or "reset"
  parses,    \* whether its list of extensions does, in a response that is "ok"
  wire,      \* from the server, not read yet
  sent,      \* how many messages send accepted
  arrived,   \* frames written to the socket
  published, \* frames the server sent
  received,  \* messages given to the message handler
  reports    \* calls of the open, fail and close handlers

writing == <<queue, posted, flag, current, sent, arrived>>
reading == <<step, buffer, wire, received>>
server == <<peer, parses, published>>
vars == <<state, timers, reports, writing, reading, server>>

(* A read is under way or being handled only on a socket that connected.   *)
TypeOK ==
  /\ state \in {"connecting", "open", "closing", "closed"}
  /\ step \in {"resolve", "connect", "request", "response", "reopening", "frames",
               "handling", "none"}
  /\ step \in {"frames", "handling"} => state # "connecting"
  /\ timers \in [Timer -> {"off", "set", "queued"}]
  /\ queue \in Seq(Frame(Written)) /\ current \in Seq(Frame(Written))
  /\ posted \in Nat /\ flag \in BOOLEAN
  /\ buffer \in Seq(Frame(Served)) /\ buffer # <<>> => step \in {"handling", "reopening"}
  /\ peer \in {"silent", "partial", "talking", "fin", "reset"} /\ parses \in BOOLEAN
  /\ wire \in Seq(Frame(Response \cup Served))
  /\ sent \in 0 .. MaxSend
  /\ arrived \in Seq(Frame(Written))
  /\ published \in Seq(Frame(Served)) /\ Len(published) <= MaxServed
  /\ received \in Seq(Nat)
  /\ reports \in Seq({"open", "fail", "close"})

(* client::connect: the host is being resolved. *)
Init ==
  /\ state = "connecting" /\ step = "resolve"
  /\ timers = [t \in Timer |-> IF t = "dns" THEN "set" ELSE "off"]
  /\ queue = <<>> /\ posted = 0 /\ flag = FALSE /\ current = <<>>
  /\ buffer = <<>> /\ peer = "silent" /\ parses \in BOOLEAN /\ wire = <<>>
  /\ sent = 0 /\ arrived = <<>> /\ published = <<>> /\ received = <<>>
  /\ reports = <<>>

-----------------------------------------------------------------------------
(* The thread is in no handler. *)
Idle == step \notin {"handling", "reopening"}

(* A handler that is queued runs, cancelled or not. *)
Cancel(t) == IF timers[t] = "set" THEN "off" ELSE timers[t]

(* The end of a connection, out of the handler of the timer `running', or  *)
(* of "none" if it is another handler; the socket shuts down at once, and  *)
(* the fail or the close handler runs.                                     *)
terminate(running) ==
  /\ state' = "closed"
  /\ timers' = [t \in Timer |-> IF t = running THEN "off"
                                ELSE IF t \in {"open", "close"} THEN Cancel(t) ELSE timers[t]]
  /\ reports' = CASE state = "connecting" -> Append(reports, "fail")
                  [] state \in {"open", "closing"} -> Append(reports, "close")
                  [] state = "closed" -> reports

Lives == UNCHANGED <<state, reports>>

Pushed(frames) ==
  /\ queue' = queue \o frames
  /\ posted' = IF flag THEN posted ELSE posted + 1
  /\ UNCHANGED <<flag, current, arrived>>

(* connection::send; in another state it returns an error, and that's all. *)
send ==
  /\ state = "open"
  /\ sent < MaxSend
  /\ sent' = sent + 1
  /\ Pushed(<<Data(sent + 1)>>)
  /\ Lives /\ UNCHANGED <<timers, reading, server>>

(* Mutant of send_close_frame: nothing limits the wait for the answer. *)
send_close_frame_Unlimited(op) ==
  /\ state' = "closing"
  /\ Pushed(<<Control(op)>>)
  /\ UNCHANGED <<timers, reports, sent>>

send_close_frame(op) ==
  /\ state' = "closing"
  /\ timers' = [timers EXCEPT !["close"] = IF @ = "queued" THEN @ ELSE "set"]
  /\ Pushed(<<Control(op)>>)
  /\ UNCHANGED <<reports, sent>>

-----------------------------------------------------------------------------
(* Resolution fails as well, without a word, when the timeout of another   *)
(* connection cancels the resolver they share.                             *)
handle_resolve(outcome) ==
  /\ step = "resolve"
  /\ IF outcome = "aborted" \/ timers["dns"] # "set"
     THEN step' = "none" /\ Lives /\ UNCHANGED timers
     ELSE IF outcome = "failed"
     THEN step' = "none" /\ terminate("dns")
     ELSE /\ step' = "connect"
          /\ timers' = [timers EXCEPT !["dns"] = "off", !["connect"] = "set"]
          /\ Lives
  /\ UNCHANGED <<buffer, wire, received, writing, server>>

(* Connected: start, the transport's init, and send_http_request. *)
handle_connect(outcome) ==
  /\ step = "connect"
  /\ IF outcome = "aborted" \/ timers["connect"] # "set"
     THEN step' = "none" /\ Lives /\ UNCHANGED timers
     ELSE IF outcome = "failed"
     THEN step' = "none" /\ terminate("connect")
     ELSE /\ step' = "request"
          /\ timers' = [timers EXCEPT !["connect"] = "off", !["open"] = "set"]
          /\ Lives
  /\ UNCHANGED <<buffer, wire, received, writing, server>>

handle_send_http_request(outcome) ==
  /\ step = "request"
  /\ IF outcome = "failed"
     THEN step' = "none" /\ terminate("none")
     ELSE /\ step' = IF state = "closed" THEN "none" ELSE "response"
          /\ Lives /\ UNCHANGED timers
  /\ UNCHANGED <<buffer, wire, received, writing, server>>

(* terminate shut the socket down before the connection opened. *)
Refused == reports # <<>> /\ Head(reports) = "fail"

(* The server closed or reset the connection, or it is shut down here. *)
ReadFails ==
  (peer = "fin" /\ wire = <<>>) \/ peer = "reset" \/ state = "closed" \/ Refused

Opens(chunk) ==
  /\ state' = "open"
  /\ timers' = [timers EXCEPT !["open"] = Cancel("open")]
  /\ reports' = Append(reports, "open")
  /\ step' = "handling"
  /\ buffer' = Tail(chunk)

(* Mutant of handle_read_http_response: the state is not looked at. *)
handle_read_http_response_Blind ==
  /\ step = "response" /\ wire # <<>> /\ Head(wire).op = "ok"
  /\ Opens(wire)
  /\ wire' = <<>>
  /\ UNCHANGED <<received, writing, server>>

(* Extensions that do not parse terminate the connection, and then the     *)
(* code goes on as if they had parsed.                                     *)
handle_read_http_response ==
  /\ step = "response"
  /\ \/ ReadFails /\ step' = "none" /\ terminate("none") /\ UNCHANGED <<buffer, wire>>
     \/ \E n \in 1 .. Len(wire) :
          LET chunk == SubSeq(wire, 1, n) IN
          /\ wire' = SubSeq(wire, n + 1, Len(wire))
          /\ CASE state = "closed" -> step' = "none" /\ Lives /\ UNCHANGED <<timers, buffer>>
               [] state # "closed" /\ chunk = <<Control("partial")>> ->
                    Lives /\ UNCHANGED <<step, timers, buffer>>
               [] state # "closed" /\ chunk[1].op = "reject" ->
                    step' = "none" /\ terminate("none") /\ UNCHANGED buffer
               [] state # "closed" /\ chunk[1].op = "ok" /\ parses -> Opens(chunk)
               [] state # "closed" /\ chunk[1].op = "ok" /\ ~parses ->
                    step' = "reopening" /\ terminate("none") /\ buffer' = Tail(chunk)
               [] OTHER -> FALSE
  /\ UNCHANGED <<received, writing, server>>

(* terminate and the fail handler returned: the connection opens, and the  *)
(* frames behind the response are handled.                                 *)
reopen ==
  /\ step = "reopening"
  /\ state' = "open"
  /\ reports' = Append(reports, "open")
  /\ step' = "handling"
  /\ UNCHANGED <<timers, buffer, wire, received, writing, server>>

-----------------------------------------------------------------------------
handle_read_frame ==
  /\ step = "frames"
  /\ \/ ReadFails /\ step' = "none" /\ terminate("none") /\ UNCHANGED <<buffer, wire>>
     \/ \E n \in 1 .. Len(wire) :
          /\ buffer' = SubSeq(wire, 1, n)
          /\ wire' = SubSeq(wire, n + 1, Len(wire))
          /\ step' = "handling"
          /\ Lives /\ UNCHANGED timers
  /\ UNCHANGED <<received, writing, server>>

read_frame ==
  /\ step = "handling" /\ buffer = <<>>
  /\ step' = "frames"
  /\ Lives /\ UNCHANGED <<timers, buffer, wire, received, writing, server>>

Handles(ops) ==
  /\ step = "handling" /\ buffer # <<>> /\ Head(buffer).op \in ops
  /\ buffer' = Tail(buffer)
  /\ UNCHANGED <<step, wire, server>>

(* Mutant of on_data: the state is not looked at. *)
on_data_Always ==
  /\ Handles({"data"})
  /\ received' = Append(received, Head(buffer).n)
  /\ Lives /\ UNCHANGED <<timers, writing>>

(* The message handler. *)
on_data ==
  /\ Handles({"data"})
  /\ received' = IF state = "open" THEN Append(received, Head(buffer).n) ELSE received
  /\ Lives /\ UNCHANGED <<timers, writing>>

(* Mutant of process_ping: it is answered in every state. *)
process_ping_Always ==
  /\ Handles({"ping"})
  /\ Pushed(<<Control("pong")>>)
  /\ Lives /\ UNCHANGED <<timers, received, sent>>

process_ping ==
  /\ Handles({"ping"})
  /\ IF state = "open" THEN Pushed(<<Control("pong")>>) /\ UNCHANGED sent
                       ELSE UNCHANGED writing
  /\ Lives /\ UNCHANGED <<timers, received>>

(* A close frame with an invalid code is acknowledged again and again.     *)
process_close ==
  /\ Handles({"close", "badclose"})
  /\ IF state = "open" \/ (state = "closing" /\ Head(buffer).op = "badclose")
     THEN send_close_frame("ack")
     ELSE Lives /\ UNCHANGED <<timers, writing>>
  /\ UNCHANGED received

(* Mutant of consume_error: the rest of the buffer stays. *)
consume_error_Keeps ==
  /\ step = "handling" /\ buffer # <<>> /\ Head(buffer).op = "bad"
  /\ buffer' = Tail(buffer) /\ step' = "none"
  /\ IF state = "open" THEN send_close_frame("close")
                       ELSE terminate("none") /\ UNCHANGED writing
  /\ UNCHANGED <<wire, received, server>>

(* consume fails: the connection closes, or terminates if it was not open. *)
(* The rest of the buffer is given up, and nothing more is read.           *)
consume_error ==
  /\ step = "handling" /\ buffer # <<>> /\ Head(buffer).op = "bad"
  /\ buffer' = <<>> /\ step' = "none"
  /\ IF state = "open" THEN send_close_frame("close")
                       ELSE terminate("none") /\ UNCHANGED writing
  /\ UNCHANGED <<wire, received, server>>

-----------------------------------------------------------------------------
(* The messages that one write takes: up to one marked terminal. *)
Takes(k) ==
  /\ \A i \in 1 .. k - 1 : queue[i].op # "close"
  /\ queue[k].op = "close" \/ k = Len(queue)

write_frame ==
  /\ Idle
  /\ posted > 0
  /\ posted' = posted - 1
  /\ IF flag \/ queue = <<>> THEN UNCHANGED <<queue, flag, current>>
     ELSE \E k \in DOMAIN queue :
            /\ Takes(k)
            /\ current' = SubSeq(queue, 1, k)
            /\ queue' = SubSeq(queue, k + 1, Len(queue))
            /\ flag' = TRUE
  /\ Lives /\ UNCHANGED <<timers, sent, arrived, reading, server>>

(* Mutant of WriteEnds: what was pushed during a write stays. *)
WriteEnds_Strands == flag' = FALSE /\ UNCHANGED posted

WriteEnds ==
  /\ flag' = FALSE
  /\ posted' = IF queue = <<>> THEN posted ELSE posted + 1

(* A write that fails has put some of its frames on the wire; the flag     *)
(* stays set after a failure or a terminal message.                        *)
handle_write_frame(outcome) ==
  /\ Idle
  /\ current # <<>>
  /\ current' = <<>>
  /\ \E n \in 0 .. Len(current) :
       /\ outcome = "ok" => n = Len(current) /\ ~Refused
       /\ Refused => n = 0
       /\ arrived' = arrived \o SubSeq(current, 1, n)
  /\ IF outcome = "failed" \/ Last(current).op = "close"
     THEN terminate("none") /\ UNCHANGED <<flag, posted>>
     ELSE WriteEnds /\ Lives /\ UNCHANGED timers
  /\ UNCHANGED <<queue, sent, reading, server>>

Expire(t) ==
  /\ timers[t] = "set"
  /\ timers' = [timers EXCEPT ![t] = "queued"]
  /\ Lives /\ UNCHANGED <<writing, reading, server>>

(* The handler of a timer terminates, whatever has happened meanwhile. *)
handle_timeout(t) ==
  /\ Idle
  /\ timers[t] = "queued"
  /\ terminate(t)
  /\ UNCHANGED <<writing, reading, server>>

-----------------------------------------------------------------------------
ServerReplies(op) ==
  /\ step \in {"request", "response"} /\ peer \in {"silent", "partial"}
  /\ op = "partial" => peer = "silent"
  /\ wire' = Append(wire, Control(op))
  /\ peer' = CASE op = "partial" -> "partial" [] op = "ok" -> "talking" [] op = "reject" -> "fin"
  /\ Lives /\ UNCHANGED <<timers, writing, step, buffer, received, parses, published>>

ServerSends(op) ==
  /\ peer = "talking" /\ Len(published) < MaxServed
  /\ LET frame == [op |-> op, n |-> IF op = "data" THEN Len(published) + 1 ELSE 0] IN
     /\ wire' = Append(wire, frame)
     /\ published' = Append(published, frame)
  /\ Lives /\ UNCHANGED <<timers, writing, step, buffer, received, peer, parses>>

(* A connection that is reset loses what was not read. *)
ServerLeaves(how) ==
  /\ step \notin {"resolve", "connect"} /\ peer \notin {"fin", "reset"}
  /\ peer' = how
  /\ wire' = IF how = "reset" THEN <<>> ELSE wire
  /\ Lives /\ UNCHANGED <<timers, writing, step, buffer, received, parses, published>>

-----------------------------------------------------------------------------
Handshake ==
  \/ \E outcome \in {"ok", "failed", "aborted"} :
       handle_resolve(outcome) \/ handle_connect(outcome)
  \/ \E outcome \in {"ok", "failed"} : handle_send_http_request(outcome)

process_frame == on_data \/ process_ping \/ process_close \/ consume_error

Loop ==
  \/ handle_read_http_response \/ reopen \/ handle_read_frame \/ read_frame \/ process_frame
  \/ write_frame
  \/ \E outcome \in {"ok", "failed"} : handle_write_frame(outcome)
  \/ \E t \in Timer : handle_timeout(t)

Server ==
  \/ \E op \in Response : ServerReplies(op)
  \/ \E op \in Served : ServerSends(op)
  \/ \E how \in {"fin", "reset"} : ServerLeaves(how)

Next == send \/ Handshake \/ Loop \/ Server \/ \E t \in Timer : Expire(t)

Spec == Init /\ [][Next]_vars

(* The loop runs every handler that is due, time passes, and a write ends, *)
(* as TCP sees to.  Names that never resolve, hosts that never answer and  *)
(* servers that never reply or leave are what the timers are for.          *)
FairSpec == Spec /\ WF_vars(Loop) /\ \A t \in Timer : WF_vars(Expire(t))

-----------------------------------------------------------------------------
Messages(frames) ==
  FoldLeft(LAMBDA ms, f : IF f.op = "data" THEN Append(ms, f.n) ELSE ms, <<>>, frames)

Ch == INSTANCE Channel WITH
        Message <- 1 .. MaxSend + MaxServed,
        status <- IF state = "closing" THEN "closed" ELSE state,
        final <- parses,
        sent <- [i \in 1 .. sent |-> i],
        arrived <- Messages(arrived),
        published <- Messages(published)

(***************************************************************************)
(* What class ddp relies on: in both directions messages arrive in order,  *)
(* once, and none is skipped; only while the connection is open are they   *)
(* accepted or delivered.  A connection that is closing is closed for the  *)
(* user (connection_impl.hpp:103-150, 964-1108, 1793-1929).  Only servers  *)
(* whose extensions do not parse make it open when it has failed already   *)
(* (1616-1641).                                                            *)
(***************************************************************************)
ImplementsChannel == Ch!Spec

(***************************************************************************)
(* Every attempt to connect ends, and every message arrives unless the     *)
(* connection closes (connection_impl.hpp:1434-1664, 1110-1132;            *)
(* transport/asio/endpoint.hpp:847-1095).                                  *)
(***************************************************************************)
KeepsPromises == Ch!Settles /\ Ch!Delivers

(***************************************************************************)
(* The handlers of the user see one life: open and then close, or fail,    *)
(* whatever timers, answers and errors cross (connection_impl.hpp:         *)
(* 1545-1791).  If the extensions of the server do not parse a connection  *)
(* that has reported its failure may open all the same (1616-1641).        *)
(***************************************************************************)
HandlersInOrder ==
  /\ state = "connecting" => reports = <<>>
  /\ state \in {"open", "closing"} =>
       reports = <<"open">> \/ (~parses /\ reports = <<"fail", "open">>)
  /\ state = "closed" =>
       \/ reports \in {<<"fail">>, <<"open", "close">>}
       \/ ~parses /\ reports = <<"fail", "open", "close">>

(***************************************************************************)
(* While a connection lives, a queue that is not empty has a write under   *)
(* way, or posted, that will take it (connection_impl.hpp:117-149,         *)
(* 1793-1929).                                                             *)
(***************************************************************************)
NoStrandedWrites ==
  queue # <<>> /\ state # "closed" => current # <<>> \/ (posted > 0 /\ ~flag)

(***************************************************************************)
(* After a close frame neither data nor a pong is written                  *)
(* (connection_impl.hpp:250-297, 1950-1957, 2122).                         *)
(***************************************************************************)
CloseFrameLast ==
  LET frames == arrived \o current \o queue
  IN  \A i, j \in DOMAIN frames :
        i < j /\ frames[i].op \in {"close", "ack"} => frames[j].op \in {"close", "ack"}

(***************************************************************************)
(* A closing handshake ends, even if the server neither answers nor hangs  *)
(* up (connection_impl.hpp:2124-2135, 1682-1696).                          *)
(***************************************************************************)
ClosingEnds == state = "closing" ~> state = "closed"
=============================================================================
