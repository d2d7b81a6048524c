--------------------------- MODULE WsConnectionProofs ---------------------------
(***************************************************************************)
(* Theorems about the connection, for any number of messages sent and of   *)
(* frames the server sends.                                                *)
(***************************************************************************)
EXTENDS WsConnection, FoldProofs

-----------------------------------------------------------------------------
(* Before the handshake is over the connection is not open, nor closing.   *)
LifeInv ==
  /\ state \in {"connecting", "open", "closing", "closed"}
  /\ step \in {"resolve", "connect", "request", "response", "reopening", "frames",
               "handling", "none"}
  /\ step \in {"resolve", "connect", "request", "response"} => state \in {"connecting", "closed"}
  /\ step = "reopening" => state = "closed"
  /\ step \in {"frames", "handling"} => state # "connecting"
  /\ buffer # <<>> => step \in {"handling", "reopening"}

LEMMA LifeKept == LifeInv /\ [Next]_vars => LifeInv'
<1> SUFFICES ASSUME LifeInv, [Next]_vars
             PROVE  LifeInv'
  OBVIOUS
<1>1. CASE UNCHANGED <<state, step, buffer>>
  BY <1>1 DEF LifeInv
<1>2. CASE \E t : /\ terminate(t) /\ step' \in {step, "none"}
                  /\ buffer' # <<>> => buffer' = buffer /\ step' = step
  BY <1>2 DEF LifeInv, terminate
<1>3. CASE send \/ write_frame \/ Server \/ (\E t \in Timer : Expire(t)) \/ UNCHANGED vars
  BY <1>1, <1>3 DEF send, write_frame, Server, ServerReplies, ServerSends, ServerLeaves, Expire,
                    Lives, reading, vars
<1>4. CASE Handshake
  <2>1. PICK o \in {"ok", "failed", "aborted"} :
          \/ handle_resolve(o) \/ handle_connect(o) \/ handle_send_http_request(o)
    BY <1>4 DEF Handshake
  <2>2. buffer' = buffer /\ buffer = <<>>
    BY <2>1 DEF handle_resolve, handle_connect, handle_send_http_request, LifeInv
  <2>3. CASE Lives
    <3>1. /\ step' \in {"connect", "request", "response", "none"}
          /\ state' \in {"connecting", "closed"}
      BY <2>1, <2>3 DEF handle_resolve, handle_connect, handle_send_http_request, LifeInv, Lives
    <3>2. QED
      BY <2>2, <2>3, <3>1 DEF Lives, LifeInv
  <2>4. CASE ~Lives
    <3>1. step' = "none" /\ \E t : terminate(t)
      BY <2>1, <2>4 DEF handle_resolve, handle_connect, handle_send_http_request
    <3>2. QED
      BY <1>2, <2>2, <3>1
  <2>5. QED
    BY <2>3, <2>4
<1>5. CASE handle_read_http_response
  <2>1. step = "response" /\ buffer = <<>> /\ state \in {"connecting", "closed"}
    BY <1>5 DEF handle_read_http_response, LifeInv
  <2>2. CASE step' = "none" /\ terminate("none") /\ buffer' = buffer
    BY <1>2, <2>1, <2>2
  <2>3. CASE step' \in {step, "none"} /\ Lives /\ buffer' = buffer
    BY <2>1, <2>3 DEF Lives, LifeInv
  <2>4. CASE state # "closed" /\ \E chunk : Opens(chunk)
    BY <2>4 DEF Opens, LifeInv
  <2>5. CASE step' = "reopening" /\ terminate("none")
    BY <2>5 DEF LifeInv, terminate
  <2>6. QED
    BY <1>5, <2>1, <2>2, <2>3, <2>4, <2>5 DEF handle_read_http_response
<1>6. CASE handle_read_frame
  <2>1. CASE step' = "none" /\ terminate("none") /\ UNCHANGED <<buffer, wire>>
    BY <1>2, <1>6, <2>1 DEF handle_read_frame, LifeInv
  <2>2. CASE step' = "handling" /\ Lives
    BY <1>6, <2>2 DEF handle_read_frame, Lives, LifeInv
  <2>3. QED
    BY <1>6, <2>1, <2>2 DEF handle_read_frame
<1>7. CASE read_frame \/ reopen
  BY <1>7 DEF read_frame, reopen, Lives, LifeInv
<1>8. CASE process_frame
  <2>0. /\ step = "handling" /\ step' \in {step, "none"} /\ (buffer' # <<>> => step' = step)
    BY <1>8 DEF process_frame, on_data, process_ping, process_close, consume_error, Handles, LifeInv
  <2>1. CASE Lives
    BY <2>0, <2>1 DEF Lives, LifeInv
  <2>2. CASE \E op : state \in {"open", "closing"} /\ send_close_frame(op)
    BY <2>0, <2>2 DEF send_close_frame, LifeInv
  <2>3. CASE consume_error /\ terminate("none")
    BY <1>2, <2>3 DEF consume_error
  <2>4. QED
    BY <1>8, <2>1, <2>2, <2>3 DEF process_frame, on_data, process_ping, process_close, consume_error
<1>9. CASE \E o \in {"ok", "failed"} : handle_write_frame(o)
  BY <1>1, <1>2, <1>9 DEF handle_write_frame, Lives, reading
<1>10. CASE \E t \in Timer : handle_timeout(t)
  BY <1>2, <1>10 DEF handle_timeout, reading
<1>11. QED
  BY <1>3, <1>4, <1>5, <1>6, <1>7, <1>8, <1>9, <1>10 DEF Next, Loop

-----------------------------------------------------------------------------
(* What is written, and what each step makes of it.                        *)
WriteTypes ==
  /\ state \in {"connecting", "open", "closing", "closed"}
  /\ queue \in Seq(Frame(Written)) /\ current \in Seq(Frame(Written))
  /\ arrived \in Seq(Frame(Written))
  /\ posted \in Nat /\ flag \in BOOLEAN /\ sent \in 0 .. MaxSend

CloseOp == {"close", "ack"}

(* While terminate runs in handle_read_http_response the connection is     *)
(* closed, but will open: it has written nothing, and still may.           *)
Alive == state # "closed" \/ step = "reopening"
Early == state \in {"connecting", "open"} \/ step = "reopening"

Untouched == UNCHANGED writing /\ (Alive' => Alive) /\ (Early' => Early)

Speaks ==
  \E f \in Frame({"data", "pong"}) :
    /\ state = "open" /\ state' = "open" /\ Pushed(<<f>>)
    /\ sent' = (IF f.op = "data" THEN sent + 1 ELSE sent) /\ sent' <= MaxSend
    /\ f.op = "data" => f.n = sent'

TakesLeave ==
  \E f \in Frame(CloseOp) :
    state \in {"open", "closing"} /\ state' = "closing" /\ Pushed(<<f>>) /\ sent' = sent

LEMMA WritingSteps ==
  ASSUME LifeInv, WriteTypes, [Next]_vars
  PROVE  \/ Untouched \/ Speaks \/ TakesLeave
         \/ write_frame
         \/ \E o \in {"ok", "failed"} : handle_write_frame(o)
<1>1. CASE UNCHANGED writing /\ state' = state /\ step' \in {step, "connect", "request", "response", "frames", "handling", "none"}
  BY <1>1 DEF Untouched, Alive, Early
<1>2. CASE UNCHANGED writing /\ (\E t : terminate(t)) /\ step' \in {step, "none"}
  BY <1>2 DEF Untouched, Alive, Early, terminate
<1>3. CASE send
  <2>1. sent \in 0 .. MaxSend /\ sent < MaxSend /\ sent' = sent + 1
    BY <1>3 DEF send, WriteTypes
  <2>2. Data(sent + 1) \in Frame({"data", "pong"}) /\ sent' <= MaxSend
    BY <2>1, BoundsAssumption DEF Data, Frame
  <2>3. Data(sent + 1).op = "data" /\ Data(sent + 1).n = sent'
    BY <2>1 DEF Data
  <2>4. QED
    BY <1>3, <2>1, <2>2, <2>3 DEF send, Lives, Speaks
<1>4. CASE Server \/ (\E t \in Timer : Expire(t)) \/ UNCHANGED vars
  BY <1>1, <1>4 DEF Server, ServerReplies, ServerSends, ServerLeaves, Expire, Lives, reading, vars
<1>5. CASE Handshake
  BY <1>1, <1>2, <1>5 DEF Handshake, handle_resolve, handle_connect, handle_send_http_request, Lives
<1>6. CASE handle_read_http_response
  <2>1. UNCHANGED writing /\ step = "response"
    BY <1>6 DEF handle_read_http_response
  <2>2. \/ Lives /\ step' \in {step, "none"}
        \/ terminate("none") /\ step' = "none"
        \/ state # "closed" /\ state' = "open" /\ step' = "handling"
        \/ state # "closed" /\ step' = "reopening"
    BY <1>6 DEF handle_read_http_response, Opens
  <2>3. state # "closed" => state = "connecting"
    BY <2>1 DEF LifeInv
  <2>4. QED
    BY <1>1, <1>2, <2>1, <2>2, <2>3 DEF Lives, Untouched, Alive, Early
<1>7. CASE handle_read_frame \/ read_frame \/ reopen
  <2>1. CASE reopen
    BY <2>1 DEF reopen, Untouched, Alive, Early
  <2>2. CASE handle_read_frame \/ read_frame
    BY <1>1, <1>2, <2>2 DEF handle_read_frame, read_frame, Lives
  <2>3. QED
    BY <1>7, <2>1, <2>2
<1>8. CASE process_frame
  <2>1. \A op \in {"pong", "close", "ack"} : Control(op) \in Frame({op})
    BY BoundsAssumption DEF Control, Frame
  <2>2. Frame({"pong"}) \subseteq Frame({"data", "pong"})
        /\ Frame({"close"}) \subseteq Frame(CloseOp) /\ Frame({"ack"}) \subseteq Frame(CloseOp)
    BY DEF Frame, CloseOp
  <2>3. CASE UNCHANGED writing /\ (Lives \/ terminate("none"))
    <3>1. step' \in {step, "none"}
      BY <1>8 DEF process_frame, on_data, process_ping, process_close, consume_error, Handles
    <3>2. QED
      BY <1>1, <1>2, <2>3, <3>1 DEF Lives
  <2>4. CASE process_ping /\ state = "open"
    <3>1. Pushed(<<Control("pong")>>) /\ sent' = sent /\ state' = state
      BY <2>4 DEF process_ping, Lives
    <3>2. Control("pong") \in Frame({"data", "pong"}) /\ Control("pong").op = "pong"
      BY <2>1, <2>2 DEF Control
    <3>3. sent' <= MaxSend
      BY <3>1, BoundsAssumption DEF WriteTypes
    <3>4. QED
      BY <2>4, <3>1, <3>2, <3>3 DEF Speaks
  <2>5. CASE \E op \in {"close", "ack"} : state \in {"open", "closing"} /\ send_close_frame(op)
    BY <2>1, <2>2, <2>5 DEF send_close_frame, TakesLeave
  <2>6. QED
    BY <1>8, <2>3, <2>4, <2>5 DEF process_frame, on_data, process_ping, process_close, consume_error
<1>9. CASE \E t \in Timer : handle_timeout(t)
  BY <1>2, <1>9 DEF handle_timeout, reading
<1>10. QED
  BY <1>3, <1>4, <1>5, <1>6, <1>7, <1>8, <1>9 DEF Next, Loop

(* A write takes the front of the queue and leaves the rest.               *)
LEMMA WriteTakes ==
  ASSUME WriteTypes, write_frame, ~flag, queue # <<>>
  PROVE  \E k \in 1 .. Len(queue) :
           /\ current' = SubSeq(queue, 1, k) /\ queue' = SubSeq(queue, k + 1, Len(queue))
           /\ Len(current') = k /\ flag' = TRUE
           /\ current' \in Seq(Frame(Written)) /\ queue' \in Seq(Frame(Written))
<1>1. PICK k \in DOMAIN queue :
        current' = SubSeq(queue, 1, k) /\ queue' = SubSeq(queue, k + 1, Len(queue)) /\ flag' = TRUE
  BY DEF write_frame
<1>2. queue \in Seq(Frame(Written)) /\ Len(queue) \in Nat /\ k \in 1 .. Len(queue)
  BY DEF WriteTypes
<1>3. SubSeq(queue, 1, k) \in Seq(Frame(Written)) /\ Len(SubSeq(queue, 1, k)) = k
      /\ SubSeq(queue, k + 1, Len(queue)) \in Seq(Frame(Written))
  BY <1>2
<1>4. QED
  BY <1>1, <1>2, <1>3

LEMMA WriteTypesKept ==
  ASSUME LifeInv, WriteTypes, [Next]_vars
  PROVE  WriteTypes'
<1>1. state' \in {"connecting", "open", "closing", "closed"}
  BY LifeKept DEF LifeInv
<1>2. CASE Untouched
  BY <1>1, <1>2 DEF Untouched, WriteTypes, writing
<1>3. CASE Speaks \/ TakesLeave
  <2>1. PICK f \in Frame(Written) : Pushed(<<f>>)
    BY <1>3 DEF Speaks, TakesLeave, Frame, Written, CloseOp
  <2>2. queue \o <<f>> \in Seq(Frame(Written))
    BY <2>1 DEF WriteTypes
  <2>3. sent' \in 0 .. MaxSend
    <3>1. sent \in 0 .. MaxSend /\ (sent' = sent \/ (sent' = sent + 1 /\ sent' <= MaxSend))
      BY <1>3 DEF Speaks, TakesLeave, WriteTypes
    <3>2. QED
      BY <3>1, BoundsAssumption
  <2>4. QED
    BY <1>1, <2>1, <2>2, <2>3 DEF Pushed, WriteTypes
<1>4. CASE write_frame
  <2>1. posted' \in Nat /\ UNCHANGED <<sent, arrived>>
    BY <1>4 DEF write_frame, WriteTypes
  <2>2. CASE flag \/ queue = <<>>
    BY <1>1, <1>4, <2>1, <2>2 DEF write_frame, WriteTypes
  <2>3. CASE ~flag /\ queue # <<>>
    BY <1>1, <1>4, <2>1, <2>3, WriteTakes DEF WriteTypes
  <2>4. QED
    BY <2>2, <2>3
<1>5. CASE \E o \in {"ok", "failed"} : handle_write_frame(o)
  <2>1. PICK n \in 0 .. Len(current) : arrived' = arrived \o SubSeq(current, 1, n)
    BY <1>5 DEF handle_write_frame
  <2>2. arrived' \in Seq(Frame(Written))
    BY <2>1 DEF WriteTypes
  <2>3. current' = <<>> /\ queue' = queue /\ sent' = sent
    BY <1>5 DEF handle_write_frame
  <2>4. flag' \in BOOLEAN /\ posted' \in Nat
    <3>1. (WriteEnds \/ UNCHANGED <<flag, posted>>)
      BY <1>5 DEF handle_write_frame
    <3>2. flag' = FALSE \/ flag' = flag
      BY <3>1 DEF WriteEnds
    <3>3. posted' = posted \/ posted' = posted + 1
      BY <3>1 DEF WriteEnds
    <3>4. flag' \in BOOLEAN
      BY <3>2, Zenon DEF WriteTypes
    <3>5. posted' \in Nat
      BY <3>3 DEF WriteTypes
    <3>6. QED
      BY <3>4, <3>5
  <2>5. QED
    BY <1>1, <2>2, <2>3, <2>4 DEF WriteTypes
<1>6. QED
  BY <1>2, <1>3, <1>4, <1>5, WritingSteps

(* The flag is set for the time of a write, as long as the connection      *)
(* lives or will, and whoever finds it clear posts a write.                *)
FlagInv ==
  Alive => /\ flag <=> current # <<>>
           /\ queue # <<>> /\ ~flag => posted > 0

StrandInv == LifeInv /\ WriteTypes /\ FlagInv

LEMMA StrandKept == StrandInv /\ [Next]_vars => StrandInv'
<1> SUFFICES ASSUME StrandInv, [Next]_vars
             PROVE  StrandInv'
  OBVIOUS
<1>1. LifeInv' /\ WriteTypes'
  BY LifeKept, WriteTypesKept DEF StrandInv
<1>2. CASE Untouched
  BY <1>1, <1>2 DEF Untouched, writing, StrandInv, FlagInv
<1>3. CASE Speaks \/ TakesLeave
  <2>1. Alive /\ flag' = flag /\ current' = current
        /\ posted' = (IF flag THEN posted ELSE posted + 1)
    BY <1>3 DEF Speaks, TakesLeave, Pushed, Alive
  <2>2. ~flag => posted' > 0
    BY <2>1 DEF StrandInv, WriteTypes
  <2>3. FlagInv'
    BY <2>1, <2>2 DEF StrandInv, FlagInv
  <2>4. QED
    BY <1>1, <2>3 DEF StrandInv
<1>4. CASE write_frame
  <2>1. CASE flag \/ queue = <<>>
    BY <1>1, <1>4, <2>1 DEF write_frame, Lives, reading, StrandInv, FlagInv, Alive
  <2>2. CASE ~flag /\ queue # <<>>
    <3>1. PICK k \in 1 .. Len(queue) : Len(current') = k /\ flag' = TRUE
      BY <1>4, <2>2, WriteTakes DEF StrandInv
    <3>2. current' # <<>>
      BY <3>1
    <3>3. QED
      BY <1>1, <3>1, <3>2 DEF StrandInv, FlagInv
  <2>3. QED
    BY <2>1, <2>2
<1>5. CASE \E o \in {"ok", "failed"} : handle_write_frame(o)
  <2>1. Alive' => WriteEnds /\ current' = <<>> /\ queue' = queue
    BY <1>5 DEF handle_write_frame, terminate, Alive, Idle, reading
  <2>2. QED
    BY <1>1, <2>1 DEF WriteEnds, StrandInv, FlagInv, WriteTypes
<1>6. QED
  BY <1>2, <1>3, <1>4, <1>5, WritingSteps DEF StrandInv

LEMMA InitStrand == Init => StrandInv
<1> SUFFICES ASSUME Init
             PROVE  StrandInv
  OBVIOUS
<1>1. LifeInv
  BY DEF Init, LifeInv
<1>2. WriteTypes
  <2>1. queue = <<>> /\ current = <<>> /\ arrived = <<>> /\ sent = 0 /\ posted = 0
        /\ flag = FALSE /\ state = "connecting"
    BY DEF Init
  <2>2. flag \in BOOLEAN
    BY <2>1, Zenon
  <2>3. sent \in 0 .. MaxSend /\ posted \in Nat
    BY <2>1, BoundsAssumption
  <2>4. QED
    BY <2>1, <2>2, <2>3 DEF WriteTypes
<1>3. FlagInv
  <2>1. flag = FALSE /\ current = <<>> /\ queue = <<>>
    BY DEF Init
  <2>2. QED
    BY <2>1 DEF FlagInv
<1>4. QED
  BY <1>1, <1>2, <1>3 DEF StrandInv

(***************************************************************************)
(* No message waits for ever in the queue of a connection that lives: a    *)
(* write is under way, or posted and not held up by the flag               *)
(* (connection_impl.hpp:117-149, 1793-1929).                               *)
(***************************************************************************)
THEOREM NoWriteIsStranded == Spec => []NoStrandedWrites
<1>1. StrandInv => NoStrandedWrites
  BY DEF StrandInv, FlagInv, NoStrandedWrites, Alive
<1>2. QED
  BY <1>1, InitStrand, StrandKept, PTL DEF Spec

-----------------------------------------------------------------------------
(* Frames in which nothing, everything, or everything from some point on   *)
(* belongs to the closing handshake.                                       *)
SomeClosing(s) == \E i \in DOMAIN s : s[i].op \in CloseOp
AllClosing(s) == \A i \in DOMAIN s : s[i].op \in CloseOp
CloseLast(s) == \A i, j \in DOMAIN s : i < j /\ s[i].op \in CloseOp => s[j].op \in CloseOp

LEMMA ClosingConcat ==
  ASSUME NEW S, NEW s \in Seq(S), NEW t \in Seq(S)
  PROVE  /\ SomeClosing(s \o t) => SomeClosing(s) \/ SomeClosing(t)
         /\ AllClosing(s) /\ AllClosing(t) => AllClosing(s \o t)
         /\ CloseLast(s) /\ CloseLast(t) /\ (SomeClosing(s) => AllClosing(t)) => CloseLast(s \o t)
<1> DEFINE u == s \o t
           m == Len(s)
           n == Len(t)
<1>1. /\ m \in Nat /\ n \in Nat /\ DOMAIN s = 1 .. m /\ DOMAIN t = 1 .. n
      /\ DOMAIN u = 1 .. m + n
  OBVIOUS
<1>2. \A i \in DOMAIN u : \/ i \in DOMAIN s /\ u[i] = s[i]
                          \/ i - m \in DOMAIN t /\ u[i] = t[i - m] /\ i > m
  OBVIOUS
<1> HIDE DEF u, m, n
<1>3. SomeClosing(u) => SomeClosing(s) \/ SomeClosing(t)
  BY <1>2 DEF SomeClosing
<1>4. AllClosing(s) /\ AllClosing(t) => AllClosing(u)
  BY <1>2 DEF AllClosing
<1>5. ASSUME CloseLast(s), CloseLast(t), SomeClosing(s) => AllClosing(t)
      PROVE  CloseLast(u)
  <2> SUFFICES ASSUME NEW i \in DOMAIN u, NEW j \in DOMAIN u, i < j, u[i].op \in CloseOp
               PROVE  u[j].op \in CloseOp
    BY DEF CloseLast
  <2>1. CASE i \in DOMAIN s /\ u[i] = s[i] /\ j \in DOMAIN s /\ u[j] = s[j]
    BY <1>5, <2>1 DEF CloseLast
  <2>2. CASE i \in DOMAIN s /\ u[i] = s[i] /\ j - m \in DOMAIN t /\ u[j] = t[j - m]
    BY <1>5, <2>2 DEF SomeClosing, AllClosing
  <2>3. CASE i - m \in DOMAIN t /\ u[i] = t[i - m] /\ j - m \in DOMAIN t /\ u[j] = t[j - m]
    <3>1. i - m < j - m
      BY <1>1
    <3>2. QED
      BY <1>5, <2>3, <3>1 DEF CloseLast
  <2>4. CASE i > m /\ j \in DOMAIN s
    BY <1>1, <2>4
  <2>5. QED
    BY <1>2, <2>1, <2>2, <2>3, <2>4
<1>6. QED
  BY <1>3, <1>4, <1>5 DEF u

LEMMA ClosingPart ==
  ASSUME NEW S, NEW s \in Seq(S), NEW a \in 1 .. Len(s) + 1, NEW b \in 0 .. Len(s)
  PROVE  LET part == SubSeq(s, a, b) IN
         /\ SomeClosing(part) => SomeClosing(s)
         /\ AllClosing(s) => AllClosing(part)
         /\ CloseLast(s) => CloseLast(part)
<1> DEFINE part == SubSeq(s, a, b)
<1>1. DOMAIN s = 1 .. Len(s) /\ Len(s) \in Nat /\ DOMAIN part \subseteq Int
  OBVIOUS
<1>2. \A i \in DOMAIN part : a + i - 1 \in DOMAIN s /\ part[i] = s[a + i - 1]
  OBVIOUS
<1> HIDE DEF part
<1>3. SomeClosing(part) => SomeClosing(s)
  BY <1>2 DEF SomeClosing
<1>4. AllClosing(s) => AllClosing(part)
  BY <1>2 DEF AllClosing
<1>5. CloseLast(s) => CloseLast(part)
  <2> SUFFICES ASSUME CloseLast(s), NEW i \in DOMAIN part, NEW j \in DOMAIN part, i < j,
                      part[i].op \in CloseOp
               PROVE  part[j].op \in CloseOp
    BY DEF CloseLast
  <2>1. a + i - 1 < a + j - 1
    BY <1>1
  <2>2. QED
    BY <1>2, <2>1 DEF CloseLast
<1>6. QED
  BY <1>3, <1>4, <1>5 DEF part

LEMMA ClosingSplit ==
  ASSUME NEW S, NEW s \in Seq(S), NEW k \in 1 .. Len(s), CloseLast(s),
         SomeClosing(SubSeq(s, 1, k))
  PROVE  AllClosing(SubSeq(s, k + 1, Len(s)))
<1> DEFINE front == SubSeq(s, 1, k)
           rest == SubSeq(s, k + 1, Len(s))
<1>1. \A i \in DOMAIN front : i \in 1 .. k /\ i \in DOMAIN s /\ front[i] = s[i]
  OBVIOUS
<1>2. \A j \in DOMAIN rest : k + j > k /\ k + j \in DOMAIN s /\ rest[j] = s[k + j]
  OBVIOUS
<1> HIDE DEF front, rest
<1>3. PICK i \in DOMAIN front : front[i].op \in CloseOp
  BY DEF SomeClosing, front
<1>4. i \in 1 .. k /\ i \in DOMAIN s /\ s[i].op \in CloseOp
  BY <1>1, <1>3
<1>5. ASSUME NEW j \in DOMAIN rest
      PROVE  rest[j].op \in CloseOp
  <2>1. i < k + j /\ k + j \in DOMAIN s /\ rest[j] = s[k + j]
    BY <1>2, <1>4
  <2>2. QED
    BY <1>4, <2>1 DEF CloseLast
<1>6. QED
  BY <1>5 DEF AllClosing, rest

(* An open connection has said nothing of closing.  Afterwards each of the *)
(* three places where its frames are is in order, and what stands behind   *)
(* a close frame in another place closes too.                              *)
CloseInv ==
  /\ Early =>
       ~SomeClosing(arrived) /\ ~SomeClosing(current) /\ ~SomeClosing(queue)
  /\ CloseLast(arrived) /\ CloseLast(current) /\ CloseLast(queue)
  /\ SomeClosing(arrived) => AllClosing(current) /\ AllClosing(queue)
  /\ SomeClosing(current) => AllClosing(queue)

LastInv == LifeInv /\ WriteTypes /\ CloseInv

LEMMA OneFrame ==
  ASSUME NEW f
  PROVE  /\ f.op \in CloseOp => AllClosing(<<f>>) /\ CloseLast(<<f>>)
         /\ f.op \notin CloseOp => ~SomeClosing(<<f>>)
<1>1. DOMAIN <<f>> = {1} /\ <<f>>[1] = f
  OBVIOUS
<1>2. QED
  BY <1>1 DEF AllClosing, CloseLast, SomeClosing

LEMMA NoneClosing ==
  ASSUME NEW s, ~SomeClosing(s)
  PROVE  CloseLast(s)
BY DEF SomeClosing, CloseLast

LEMMA EmptyCloses == ~SomeClosing(<<>>) /\ AllClosing(<<>>) /\ CloseLast(<<>>)
BY DEF SomeClosing, AllClosing, CloseLast

LEMMA CloseKept == LastInv /\ [Next]_vars => LastInv'
<1> SUFFICES ASSUME LastInv, [Next]_vars
             PROVE  LastInv'
  OBVIOUS
<1>1. LifeInv' /\ WriteTypes'
  BY LifeKept, WriteTypesKept DEF LastInv
<1>2. CASE Untouched
  <2>1. /\ Early' => Early
        /\ arrived' = arrived /\ current' = current /\ queue' = queue
    BY <1>2 DEF Untouched, writing
  <2>2. QED
    BY <1>1, <2>1 DEF LastInv, CloseInv
<1>3. CASE Speaks
  <2>1. PICK f \in Frame({"data", "pong"}) : state = "open" /\ Pushed(<<f>>)
    BY <1>3 DEF Speaks
  <2>2. f.op \notin CloseOp /\ <<f>> \in Seq(Frame(Written))
    BY <2>1 DEF Frame, CloseOp, Written
  <2>3. queue' = queue \o <<f>> /\ UNCHANGED <<arrived, current>>
    BY <2>1 DEF Pushed
  <2>4. queue \in Seq(Frame(Written))
    BY DEF LastInv, WriteTypes
  <2>5. ~SomeClosing(<<f>>) /\ ~SomeClosing(queue)
    BY <2>1, <2>2, OneFrame DEF LastInv, CloseInv, Early
  <2>6. ~SomeClosing(queue')
    BY <2>2, <2>3, <2>4, <2>5, ClosingConcat
  <2>7. CloseLast(queue')
    BY <2>6, NoneClosing
  <2>8. QED
    BY <1>1, <2>1, <2>3, <2>6, <2>7 DEF LastInv, CloseInv, Early
<1>4. CASE TakesLeave
  <2>1. PICK f \in Frame(CloseOp) : state' = "closing" /\ Pushed(<<f>>)
    BY <1>4 DEF TakesLeave
  <2>2. f.op \in CloseOp /\ <<f>> \in Seq(Frame(Written))
    BY <2>1 DEF Frame, CloseOp, Written
  <2>3. queue' = queue \o <<f>> /\ UNCHANGED <<arrived, current>>
    BY <2>1 DEF Pushed
  <2>4. queue \in Seq(Frame(Written))
    BY DEF LastInv, WriteTypes
  <2>5. AllClosing(<<f>>) /\ CloseLast(<<f>>)
    BY <2>2, OneFrame
  <2>6. CloseLast(queue') /\ (AllClosing(queue) => AllClosing(queue'))
    BY <2>2, <2>3, <2>4, <2>5, ClosingConcat DEF LastInv, CloseInv
  <2>7. ~Early'
    BY <1>1, <2>1 DEF LifeInv, Early
  <2>8. QED
    BY <1>1, <2>3, <2>6, <2>7 DEF LastInv, CloseInv
<1>5. CASE write_frame
  <2>1. (Early' => Early) /\ arrived' = arrived
    BY <1>5 DEF write_frame, Lives, reading, Early
  <2>2. CASE flag \/ queue = <<>>
    BY <1>1, <1>5, <2>1, <2>2 DEF write_frame, LastInv, CloseInv
  <2>3. CASE ~flag /\ queue # <<>>
    <3>1. PICK k \in 1 .. Len(queue) :
            current' = SubSeq(queue, 1, k) /\ queue' = SubSeq(queue, k + 1, Len(queue))
      BY <1>5, <2>3, WriteTakes DEF LastInv
    <3>2. /\ queue \in Seq(Frame(Written)) /\ Len(queue) \in Nat
          /\ 1 \in 1 .. Len(queue) + 1 /\ k \in 0 .. Len(queue)
          /\ k + 1 \in 1 .. Len(queue) + 1 /\ Len(queue) \in 0 .. Len(queue)
      <4>1. queue \in Seq(Frame(Written)) /\ Len(queue) \in Nat
        BY DEF LastInv, WriteTypes
      <4>2. QED
        BY <4>1
    <3>3. /\ SomeClosing(current') => SomeClosing(queue)
          /\ AllClosing(queue) => AllClosing(current')
          /\ CloseLast(queue) => CloseLast(current')
      BY <3>1, <3>2, ClosingPart
    <3>4. /\ SomeClosing(queue') => SomeClosing(queue)
          /\ AllClosing(queue) => AllClosing(queue')
          /\ CloseLast(queue) => CloseLast(queue')
      BY <3>1, <3>2, ClosingPart
    <3>5. CloseLast(queue) /\ SomeClosing(current') => AllClosing(queue')
      BY <3>1, <3>2, ClosingSplit
    <3>6. QED
      BY <1>1, <2>1, <3>3, <3>4, <3>5 DEF LastInv, CloseInv
  <2>4. QED
    BY <2>2, <2>3
<1>6. CASE \E o \in {"ok", "failed"} : handle_write_frame(o)
  <2>1. PICK n \in 0 .. Len(current) : arrived' = arrived \o SubSeq(current, 1, n)
    BY <1>6 DEF handle_write_frame
  <2> DEFINE part == SubSeq(current, 1, n)
  <2>2. current' = <<>> /\ queue' = queue /\ (Early' => Early)
    BY <1>6 DEF handle_write_frame, terminate, Lives, reading, Early
  <2>3. /\ current \in Seq(Frame(Written)) /\ arrived \in Seq(Frame(Written))
        /\ part \in Seq(Frame(Written)) /\ 1 \in 1 .. Len(current) + 1
    BY DEF LastInv, WriteTypes
  <2>4. /\ SomeClosing(part) => SomeClosing(current)
        /\ AllClosing(current) => AllClosing(part)
        /\ CloseLast(current) => CloseLast(part)
    BY <2>3, ClosingPart
  <2> HIDE DEF part
  <2>5. /\ SomeClosing(arrived \o part) => SomeClosing(arrived) \/ SomeClosing(part)
        /\ CloseLast(arrived) /\ CloseLast(part) /\ (SomeClosing(arrived) => AllClosing(part)) =>
             CloseLast(arrived \o part)
    BY <2>3, ClosingConcat
  <2>6. arrived' = arrived \o part
    BY <2>1 DEF part
  <2>7. QED
    BY <1>1, <2>2, <2>4, <2>5, <2>6, EmptyCloses DEF LastInv, CloseInv
<1>7. QED
  BY <1>2, <1>3, <1>4, <1>5, <1>6, WritingSteps DEF LastInv

(***************************************************************************)
(* Behind a close frame neither data nor a pong is ever written, nor waits *)
(* to be (connection_impl.hpp:250-297, 1950-1957, 2122).                   *)
(***************************************************************************)
THEOREM CloseFrameIsLast == Spec => []CloseFrameLast
<1>1. Init => LastInv
  <2> SUFFICES ASSUME Init
               PROVE  LastInv
    OBVIOUS
  <2>1. LifeInv /\ WriteTypes
    BY InitStrand DEF StrandInv
  <2>2. arrived = <<>> /\ current = <<>> /\ queue = <<>>
    BY DEF Init
  <2>3. QED
    BY <2>1, <2>2, EmptyCloses DEF LastInv, CloseInv
<1>2. LastInv => CloseFrameLast
  <2> SUFFICES ASSUME LastInv
               PROVE  CloseLast(arrived \o current \o queue)
    BY DEF CloseFrameLast, CloseLast, CloseOp
  <2> DEFINE early == arrived \o current
  <2>1. /\ arrived \in Seq(Frame(Written)) /\ current \in Seq(Frame(Written))
        /\ queue \in Seq(Frame(Written)) /\ early \in Seq(Frame(Written))
    BY DEF LastInv, WriteTypes
  <2>2. CloseLast(early) /\ (SomeClosing(early) => SomeClosing(arrived) \/ SomeClosing(current))
    BY <2>1, ClosingConcat DEF LastInv, CloseInv
  <2>3. SomeClosing(early) => AllClosing(queue)
    BY <2>2 DEF LastInv, CloseInv
  <2>4. CloseLast(early \o queue)
    <3> HIDE DEF early
    <3>1. QED
      BY <2>1, <2>2, <2>3, ClosingConcat DEF LastInv, CloseInv
  <2>5. QED
    BY <2>4
<1>3. QED
  BY <1>1, <1>2, CloseKept, PTL DEF Spec

-----------------------------------------------------------------------------
(* What is read.  The pieces of a response come before all frames, so that *)
(* what follows the one that opens the connection are frames.              *)
ReadTypes ==
  /\ buffer \in Seq(Frame(Served))
  /\ peer \in {"silent", "partial", "talking", "fin", "reset"} /\ parses \in BOOLEAN
  /\ wire \in Seq(Frame(Response \cup Served))
  /\ published \in Seq(Frame(Served)) /\ Len(published) <= MaxServed
  /\ received \in Seq(Nat)

Responds(w) ==
  \A i \in DOMAIN w : w[i].op \in Response => i = 1 \/ (i = 2 /\ w[1].op = "partial")

Serves(w) == \A i \in DOMAIN w : w[i].op \in Served

ResponseFirst ==
  /\ step \in {"resolve", "connect"} => peer = "silent"
  /\ peer = "silent" => wire = <<>>
  /\ peer = "partial" => wire = <<>> \/ (Len(wire) = 1 /\ wire[1].op = "partial")
  /\ step \in {"request", "response"} => Responds(wire)
  /\ step \in {"reopening", "frames", "handling"} => Serves(wire)

ReadInv == LifeInv /\ ReadTypes /\ ResponseFirst

LEMMA SameParses == [Next]_vars => UNCHANGED parses
BY DEF Next, Handshake, Loop, Server, process_frame, send, handle_resolve, handle_connect,
       handle_send_http_request, handle_read_http_response, reopen, handle_read_frame, read_frame,
       on_data, process_ping, process_close, consume_error, Handles, write_frame, handle_write_frame,
       handle_timeout, Expire, ServerReplies, ServerSends, ServerLeaves, server, vars

(* The steps that read nothing: they lead on, or to the end.               *)
LeadsOn ==
  /\ UNCHANGED <<buffer, wire, received, peer, parses, published>>
  /\ \/ step' \in {step, "none"}
     \/ step = "resolve" /\ step' = "connect"
     \/ step = "connect" /\ step' = "request"
     \/ step = "request" /\ step' = "response"
     \/ step = "reopening" /\ step' = "handling"
     \/ step = "handling" /\ step' = "frames"

LEMMA LeadsOnReads ==
  ASSUME ReadInv, LeadsOn
  PROVE  ReadTypes' /\ ResponseFirst'
<1>1. ReadTypes'
  BY DEF LeadsOn, ReadInv, ReadTypes
<1>2. step' = "request" => Responds(wire)
  BY DEF LeadsOn, ReadInv, ResponseFirst, Responds
<1>3. ResponseFirst'
  BY <1>2 DEF LeadsOn, ReadInv, ResponseFirst, Responds, Serves
<1>4. QED
  BY <1>1, <1>3

LEMMA ResponseReads ==
  ASSUME ReadInv, handle_read_http_response
  PROVE  ReadTypes' /\ ResponseFirst'
<1>1. step = "response" /\ UNCHANGED <<peer, parses, published, received>>
  BY DEF handle_read_http_response, server
<1>2. CASE UNCHANGED <<buffer, wire>> /\ step' = "none"
  BY <1>1, <1>2, LeadsOnReads DEF LeadsOn
<1>3. CASE ~(UNCHANGED <<buffer, wire>> /\ step' = "none")
  <2>1. PICK n \in 1 .. Len(wire) :
          /\ wire' = SubSeq(wire, n + 1, Len(wire))
          /\ \/ step' = "none" /\ buffer' = buffer
             \/ SubSeq(wire, 1, n) = <<Control("partial")>> /\ UNCHANGED <<step, buffer>>
             \/ /\ SubSeq(wire, 1, n)[1].op = "ok"
                /\ step' \in {"handling", "reopening"} /\ buffer' = Tail(SubSeq(wire, 1, n))
    BY <1>3 DEF handle_read_http_response, Opens
  <2> DEFINE chunk == SubSeq(wire, 1, n)
             rest == SubSeq(wire, n + 1, Len(wire))
  <2>2. /\ wire \in Seq(Frame(Response \cup Served)) /\ Len(wire) \in Nat
        /\ rest \in Seq(Frame(Response \cup Served)) /\ chunk \in Seq(Frame(Response \cup Served))
    <3>1. wire \in Seq(Frame(Response \cup Served))
      BY DEF ReadInv, ReadTypes
    <3>2. \A k \in Nat : k <= Len(wire) => SubSeq(wire, 1, k) \in Seq(Frame(Response \cup Served))
      BY <3>1
    <3>3. \A k \in Nat : k > 0 => SubSeq(wire, k, Len(wire)) \in Seq(Frame(Response \cup Served))
      BY <3>1
    <3>4. Len(wire) \in Nat /\ n \in Nat /\ n <= Len(wire) /\ n + 1 > 0 /\ n + 1 \in Nat
      BY <3>1
    <3>5. chunk \in Seq(Frame(Response \cup Served))
      BY <3>2, <3>4
    <3>6. rest \in Seq(Frame(Response \cup Served))
      BY <3>3, <3>4
    <3> HIDE DEF chunk, rest
    <3>7. QED
      BY <3>1, <3>4, <3>5, <3>6
  <2>3. Len(chunk) = n /\ chunk[1] = wire[1] /\ \A i \in 1 .. n : chunk[i] = wire[i]
    BY <2>2
  <2>4. Len(rest) = Len(wire) - n /\ \A i \in DOMAIN rest : rest[i] = wire[n + i] /\ n + i \in DOMAIN wire
    BY <2>2
  <2>5. Responds(wire)
    BY <1>1 DEF ReadInv, ResponseFirst
  <2>6. peer = "partial" => rest = <<>>
    <3>1. peer = "partial" => Len(wire) = 1
      BY <2>2 DEF ReadInv, ResponseFirst
    <3>2. peer = "partial" => Len(rest) = 0
      <4> SUFFICES ASSUME peer = "partial"
                   PROVE  Len(rest) = 0
        OBVIOUS
      <4>1. Len(wire) = 1 /\ n = 1
        <5>1. Len(wire) = 1
          BY <3>1
        <5>2. n \in 1 .. 1
          BY <5>1
        <5>3. QED
          BY <5>1, <5>2
      <4>2. Len(rest) = Len(wire) - n
        BY <2>4
      <4> HIDE DEF rest
      <4>3. QED
        BY <4>1, <4>2
    <3>3. QED
      BY <2>2, <3>2
  <2>7. peer # "silent"
    BY <2>2 DEF ReadInv, ResponseFirst
  <2>8. CASE step' = "none" /\ buffer' = buffer
    BY <1>1, <2>1, <2>2, <2>6, <2>7, <2>8 DEF ReadInv, ReadTypes, ResponseFirst
  <2>9. CASE chunk = <<Control("partial")>> /\ UNCHANGED <<step, buffer>>
    <3>1. n = 1
      BY <2>3, <2>9
    <3>2. Responds(rest)
      BY <2>2, <2>4, <2>5, <3>1 DEF Responds
    <3> HIDE DEF chunk, rest
    <3>3. wire' = rest
      BY <2>1 DEF rest
    <3>4. QED
      BY <1>1, <2>2, <2>6, <2>7, <2>9, <3>2, <3>3 DEF ReadInv, ReadTypes, ResponseFirst, Responds
  <2>10. CASE /\ chunk[1].op = "ok"
              /\ step' \in {"handling", "reopening"} /\ buffer' = Tail(chunk)
    <3>1. step' \in {"handling", "reopening"} /\ buffer' = Tail(chunk)
      BY <2>10
    <3>2. \A i \in DOMAIN wire : i > 1 => wire[i].op \in Served /\ wire[i] \in Frame(Served)
      <4>1. SUFFICES ASSUME NEW i \in DOMAIN wire, i > 1
                     PROVE  wire[i].op \in Served /\ wire[i] \in Frame(Served)
        OBVIOUS
      <4>2. wire[i] \in Frame(Response \cup Served)
        BY <2>2
      <4>3. wire[1].op = "ok"
        BY <2>3, <2>10
      <4>4. wire[i].op \notin Response
        BY <2>5, <4>1, <4>3 DEF Responds
      <4>5. QED
        BY <4>2, <4>4 DEF Frame
    <3>3. Serves(rest)
      BY <2>2, <2>4, <3>2 DEF Serves
    <3>4. Tail(chunk) \in Seq(Frame(Served))
      <4> DEFINE t == Tail(chunk)
      <4>1. Len(chunk) = n /\ n \in 1 .. Len(wire) /\ n # 0
        BY <2>2, <2>3
      <4>2. t \in Seq(Frame(Response \cup Served)) /\ Len(t) = n - 1
            /\ \A i \in 1 .. n - 1 : t[i] = chunk[i + 1]
        <5> HIDE DEF chunk
        <5>1. chunk # <<>>
          BY <2>2, <4>1
        <5>2. QED
          BY <2>2, <4>1, <5>1
      <4>3. \A i \in 1 .. n - 1 : t[i] \in Frame(Served)
        <5>1. SUFFICES ASSUME NEW i \in 1 .. n - 1
                       PROVE  t[i] \in Frame(Served)
          OBVIOUS
        <5>2. i + 1 \in 1 .. n /\ i + 1 \in DOMAIN wire /\ i + 1 > 1
          BY <2>2
        <5>3. t[i] = wire[i + 1]
          BY <2>3, <4>2, <5>2
        <5>4. QED
          BY <3>2, <5>2, <5>3
      <4>4. t \in Seq(Frame(Served))
        <5> HIDE DEF t, chunk
        <5>1. QED
          BY <4>1, <4>2, <4>3
      <4>5. QED
        BY <4>4
    <3> HIDE DEF chunk, rest
    <3>5. wire' = rest
      BY <2>1 DEF rest
    <3>6. QED
      BY <1>1, <2>2, <2>6, <2>7, <3>1, <3>3, <3>4, <3>5 DEF ReadInv, ReadTypes, ResponseFirst, Serves
  <2>11. QED
    BY <2>1, <2>8, <2>9, <2>10
<1>4. QED
  BY <1>2, <1>3

LEMMA FrameReads ==
  ASSUME ReadInv, handle_read_frame
  PROVE  ReadTypes' /\ ResponseFirst'
<1>1. step = "frames" /\ UNCHANGED <<peer, parses, published, received>>
  BY DEF handle_read_frame, server
<1>2. CASE UNCHANGED <<buffer, wire>> /\ step' = "none"
  BY <1>1, <1>2, LeadsOnReads DEF LeadsOn
<1>3. CASE ~(UNCHANGED <<buffer, wire>> /\ step' = "none")
  <2>1. PICK n \in 1 .. Len(wire) :
          /\ buffer' = SubSeq(wire, 1, n) /\ wire' = SubSeq(wire, n + 1, Len(wire))
          /\ step' = "handling"
    BY <1>3 DEF handle_read_frame
  <2>2. wire \in Seq(Frame(Response \cup Served)) /\ Len(wire) \in Nat /\ Serves(wire)
    BY <1>1 DEF ReadInv, ReadTypes, ResponseFirst
  <2>3. wire \in Seq(Frame(Served))
    <3>1. \A i \in 1 .. Len(wire) : wire[i] \in Frame(Response \cup Served) /\ wire[i].op \in Served
      BY <2>2 DEF Serves
    <3>2. \A i \in 1 .. Len(wire) : wire[i] \in Frame(Served)
      BY <3>1 DEF Frame
    <3>3. QED
      BY <2>2, <3>2
  <2>4. buffer' \in Seq(Frame(Served))
    BY <2>1, <2>3
  <2>5. wire' \in Seq(Frame(Response \cup Served)) /\ Len(wire') = Len(wire) - n
        /\ \A i \in DOMAIN wire' : wire'[i] = wire[n + i] /\ n + i \in DOMAIN wire
    BY <2>1, <2>2
  <2>6. Serves(wire')
    BY <2>2, <2>5 DEF Serves
  <2>7. peer # "silent"
    BY <2>2 DEF ReadInv, ResponseFirst
  <2>8. peer = "partial" => wire' = <<>>
    <3>1. peer = "partial" => Len(wire) = 1
      BY <2>2 DEF ReadInv, ResponseFirst
    <3>2. peer = "partial" => Len(wire') = 0
      <4> SUFFICES ASSUME peer = "partial"
                   PROVE  Len(wire') = 0
        OBVIOUS
      <4>1. Len(wire) = 1 /\ n = 1
        <5>1. Len(wire) = 1
          BY <3>1
        <5>2. n \in 1 .. 1
          BY <5>1
        <5>3. QED
          BY <5>1, <5>2
      <4>2. Len(wire') = Len(wire) - n
        BY <2>5
      <4>3. QED
        BY <4>1, <4>2
    <3>3. QED
      BY <2>5, <3>2
  <2>9. QED
    BY <1>1, <2>1, <2>4, <2>5, <2>6, <2>7, <2>8 DEF ReadInv, ReadTypes, ResponseFirst, Serves
<1>4. QED
  BY <1>2, <1>3

LEMMA HandlingReads ==
  ASSUME ReadInv, process_frame
  PROVE  ReadTypes' /\ ResponseFirst'
<1>1. /\ step' \in {step, "none"} /\ UNCHANGED <<wire, peer, parses, published>>
      /\ buffer # <<>> /\ buffer' \in {Tail(buffer), <<>>}
      /\ received' \in {received, Append(received, Head(buffer).n)}
  BY DEF process_frame, on_data, process_ping, process_close, consume_error, Handles, server
<1>2. buffer \in Seq(Frame(Served)) /\ received \in Seq(Nat)
  BY DEF ReadInv, ReadTypes
<1>3. buffer' \in Seq(Frame(Served))
  <2>1. Tail(buffer) \in Seq(Frame(Served)) /\ <<>> \in Seq(Frame(Served))
    BY <1>1, <1>2
  <2>2. QED
    BY <1>1, <2>1
<1>4. Head(buffer) \in Frame(Served)
  BY <1>1, <1>2
<1>5. Head(buffer).n \in Nat
  BY <1>4, BoundsAssumption DEF Frame
<1>6. Append(received, Head(buffer).n) \in Seq(Nat)
  BY <1>2, <1>5
<1>7. received' \in Seq(Nat)
  BY <1>1, <1>2, <1>6
<1>8. QED
  BY <1>1, <1>3, <1>7 DEF ReadInv, ReadTypes, ResponseFirst, Serves, Responds

LEMMA ServerReads ==
  ASSUME ReadInv, Server
  PROVE  ReadTypes' /\ ResponseFirst'
<1>0. /\ wire \in Seq(Frame(Response \cup Served)) /\ published \in Seq(Frame(Served))
      /\ Len(wire) \in Nat /\ Len(published) \in Nat
  BY DEF ReadInv, ReadTypes
<1>1. CASE \E op \in Response : ServerReplies(op)
  <2>1. PICK op \in Response : ServerReplies(op)
    BY <1>1
  <2>2. /\ step \in {"request", "response"} /\ peer \in {"silent", "partial"}
        /\ op = "partial" => peer = "silent"
        /\ wire' = Append(wire, Control(op))
        /\ peer' \in {"partial", "talking", "fin"} /\ (peer' = "partial" => op = "partial")
        /\ UNCHANGED <<step, buffer, received, parses, published>>
    BY <2>1 DEF ServerReplies, Response
  <2>3. Control(op) \in Frame(Response \cup Served) /\ Control(op).op = op
    BY BoundsAssumption DEF Control, Frame
  <2>4. /\ wire' \in Seq(Frame(Response \cup Served)) /\ Len(wire') = Len(wire) + 1
        /\ wire'[Len(wire) + 1] = Control(op) /\ \A i \in 1 .. Len(wire) : wire'[i] = wire[i]
    BY <1>0, <2>2, <2>3
  <2>5. wire = <<>> \/ (peer = "partial" /\ Len(wire) = 1 /\ wire[1].op = "partial")
    BY <2>2 DEF ReadInv, ResponseFirst
  <2>6. Responds(wire')
    <3>1. CASE wire = <<>>
      BY <2>4, <3>1 DEF Responds
    <3>2. CASE Len(wire) = 1 /\ wire[1].op = "partial"
      BY <2>4, <3>2 DEF Responds
    <3>3. QED
      BY <2>5, <3>1, <3>2
  <2>7. peer' \in {"partial", "talking", "fin"} /\ (peer' = "partial" => op = "partial")
    BY <2>2
  <2>8. peer' = "partial" => Len(wire') = 1 /\ wire'[1].op = "partial"
    <3>1. peer' = "partial" => wire = <<>>
      BY <2>2, <2>7 DEF ReadInv, ResponseFirst
    <3>2. QED
      BY <2>3, <2>4, <2>7, <3>1
  <2>9. QED
    BY <2>2, <2>4, <2>6, <2>7, <2>8 DEF ReadInv, ReadTypes, ResponseFirst, Responds
<1>2. CASE \E op \in Served : ServerSends(op)
  <2>1. PICK op \in Served : ServerSends(op)
    BY <1>2
  <2> DEFINE frame == [op |-> op, n |-> IF op = "data" THEN Len(published) + 1 ELSE 0]
  <2>2. /\ peer = "talking" /\ Len(published) < MaxServed
        /\ wire' = Append(wire, frame) /\ published' = Append(published, frame)
        /\ UNCHANGED <<step, buffer, received, peer, parses>>
    BY <2>1 DEF ServerSends
  <2>3. frame \in Frame(Served) /\ frame \in Frame(Response \cup Served) /\ frame.op \in Served
    <3>1. (IF op = "data" THEN Len(published) + 1 ELSE 0) \in 0 .. MaxSend + MaxServed
      BY <1>0, <2>2, BoundsAssumption
    <3>2. QED
      BY <3>1 DEF Frame
  <2> HIDE DEF frame
  <2>4. /\ wire' \in Seq(Frame(Response \cup Served)) /\ Len(wire') = Len(wire) + 1
        /\ wire'[Len(wire) + 1] = frame /\ \A i \in 1 .. Len(wire) : wire'[i] = wire[i]
        /\ published' \in Seq(Frame(Served)) /\ Len(published') <= MaxServed
    BY <1>0, <2>2, <2>3, BoundsAssumption
  <2>5. Serves(wire) => Serves(wire')
    BY <1>0, <2>3, <2>4 DEF Serves
  <2>6. Responds(wire) => Responds(wire')
    <3> SUFFICES ASSUME Responds(wire), NEW i \in DOMAIN wire', wire'[i].op \in Response
                 PROVE  i = 1 \/ (i = 2 /\ wire'[1].op = "partial")
      BY DEF Responds
    <3>1. i \in 1 .. Len(wire) /\ wire'[i] = wire[i]
      BY <1>0, <2>3, <2>4 DEF Response, Served
    <3>2. i = 1 \/ (i = 2 /\ wire[1].op = "partial")
      BY <1>0, <3>1 DEF Responds
    <3>3. QED
      BY <1>0, <2>4, <3>1, <3>2
  <2>7. QED
    BY <2>2, <2>4, <2>5, <2>6 DEF ReadInv, ReadTypes, ResponseFirst
<1>3. CASE \E how \in {"fin", "reset"} : ServerLeaves(how)
  <2>1. /\ step \notin {"resolve", "connect"} /\ peer' \in {"fin", "reset"} /\ wire' \in {wire, <<>>}
        /\ UNCHANGED <<step, buffer, received, parses, published>>
    BY <1>3 DEF ServerLeaves
  <2>2. Serves(<<>>) /\ Responds(<<>>) /\ <<>> \in Seq(Frame(Response \cup Served))
    BY DEF Serves, Responds
  <2>3. /\ wire' \in Seq(Frame(Response \cup Served))
        /\ Serves(wire) => Serves(wire')
        /\ Responds(wire) => Responds(wire')
    BY <1>0, <2>1, <2>2
  <2>4. QED
    <3>1. ReadTypes'
      BY <2>1, <2>3 DEF ReadInv, ReadTypes
    <3>2. ResponseFirst'
      BY <2>1, <2>3 DEF ReadInv, ResponseFirst, Responds, Serves
    <3>3. QED
      BY <3>1, <3>2
<1>4. QED
  BY <1>1, <1>2, <1>3 DEF Server

LEMMA ReadKept == ReadInv /\ [Next]_vars => ReadInv'
<1> SUFFICES ASSUME ReadInv, [Next]_vars
             PROVE  ReadInv'
  OBVIOUS
<1>0. LifeInv'
  BY LifeKept DEF ReadInv
<1>1. CASE LeadsOn
  BY <1>0, <1>1, LeadsOnReads DEF ReadInv
<1>2. CASE Server
  BY <1>0, <1>2, ServerReads DEF ReadInv
<1>3. CASE handle_read_http_response \/ handle_read_frame \/ process_frame
  BY <1>0, <1>3, ResponseReads, FrameReads, HandlingReads DEF ReadInv
<1>4. CASE Handshake
  <2>1. LeadsOn
    BY <1>4 DEF Handshake, handle_resolve, handle_connect, handle_send_http_request, LeadsOn, server
  <2>2. QED
    BY <1>1, <2>1
<1>5. CASE \/ send \/ reopen \/ read_frame \/ write_frame \/ UNCHANGED vars
           \/ \E o \in {"ok", "failed"} : handle_write_frame(o)
           \/ \E t \in Timer : handle_timeout(t) \/ Expire(t)
  <2>1. LeadsOn
    BY <1>5 DEF send, reopen, read_frame, write_frame, handle_write_frame, handle_timeout, Expire, LeadsOn,
                server, reading, vars
  <2>2. QED
    BY <1>1, <2>1
<1>6. QED
  BY <1>2, <1>3, <1>4, <1>5 DEF Next, Loop

TimerTypes == timers \in [Timer -> {"off", "set", "queued"}]

LEMMA TimersKept ==
  ASSUME LifeInv, TimerTypes, [Next]_vars
  PROVE  TimerTypes'
<1>1. ASSUME NEW t, terminate(t)
      PROVE  TimerTypes'
  BY <1>1 DEF terminate, Cancel, TimerTypes
<1>2. CASE UNCHANGED timers
  BY <1>2 DEF TimerTypes
<1>3. CASE \E op : send_close_frame(op)
  BY <1>3 DEF send_close_frame, TimerTypes, Timer
<1>4. CASE \E chunk : Opens(chunk)
  BY <1>4 DEF Opens, Cancel, TimerTypes, Timer
<1>5. CASE \E o \in {"ok", "failed", "aborted"} : handle_resolve(o) \/ handle_connect(o)
  <2>1. \/ \E t : terminate(t)
        \/ UNCHANGED timers
        \/ timers' = [timers EXCEPT !["dns"] = "off", !["connect"] = "set"]
        \/ timers' = [timers EXCEPT !["connect"] = "off", !["open"] = "set"]
    BY <1>5 DEF handle_resolve, handle_connect
  <2>2. QED
    BY <1>1, <1>2, <2>1 DEF TimerTypes, Timer
<1>6. CASE \E t \in Timer : Expire(t)
  BY <1>6 DEF Expire, TimerTypes
<1>7. CASE process_frame
  BY <1>1, <1>2, <1>3, <1>7 DEF process_frame, on_data, process_ping, process_close, consume_error
<1>8. CASE Server \/ send \/ reopen \/ read_frame \/ write_frame \/ UNCHANGED vars
  BY <1>2, <1>8 DEF Server, ServerReplies, ServerSends, ServerLeaves, send, reopen, read_frame,
                    write_frame, vars
<1>9. CASE \/ \E o \in {"ok", "failed"} : handle_write_frame(o) \/ handle_send_http_request(o)
           \/ \E t \in Timer : handle_timeout(t)
           \/ handle_read_frame
  BY <1>1, <1>2, <1>9 DEF handle_write_frame, handle_timeout, handle_read_frame, handle_send_http_request
<1>10. CASE handle_read_http_response
  BY <1>1, <1>2, <1>4, <1>10 DEF handle_read_http_response
<1>11. QED
  BY <1>5, <1>6, <1>7, <1>8, <1>9, <1>10 DEF Next, Loop, Handshake

ReportTypes == reports \in Seq({"open", "fail", "close"})

LEMMA ReportsKept ==
  ASSUME LifeInv, ReportTypes, [Next]_vars
  PROVE  ReportTypes'
<1> DEFINE S == {"open", "fail", "close"}
<1>1. \A r \in S : Append(reports, r) \in Seq(S)
  BY DEF ReportTypes
<1>2. CASE UNCHANGED reports
  BY <1>2 DEF ReportTypes
<1>3. CASE \E t : terminate(t)
  BY <1>1, <1>3 DEF terminate, LifeInv, ReportTypes
<1>4. CASE \E chunk : Opens(chunk)
  BY <1>1, <1>4 DEF Opens, ReportTypes
<1>5. CASE reopen
  BY <1>1, <1>5 DEF reopen, ReportTypes
<1>6. CASE handle_read_http_response
  BY <1>2, <1>3, <1>4, <1>6 DEF handle_read_http_response, Lives
<1>7. CASE Handshake
  BY <1>2, <1>3, <1>7 DEF Handshake, handle_resolve, handle_connect, handle_send_http_request, Lives
<1>8. CASE process_frame \/ handle_read_frame \/ read_frame
  BY <1>2, <1>3, <1>8 DEF process_frame, on_data, process_ping, process_close, consume_error,
                          send_close_frame, handle_read_frame, read_frame, Lives
<1>9. CASE \/ send \/ write_frame \/ Server \/ UNCHANGED vars
           \/ \E o \in {"ok", "failed"} : handle_write_frame(o)
           \/ \E t \in Timer : handle_timeout(t) \/ Expire(t)
  BY <1>2, <1>3, <1>9 DEF send, write_frame, Server, ServerReplies, ServerSends, ServerLeaves,
                          handle_write_frame, handle_timeout, Expire, Lives, vars
<1>10. QED
  BY <1>5, <1>6, <1>7, <1>8, <1>9 DEF Next, Loop

ConnectionInv == ReadInv /\ WriteTypes /\ TimerTypes /\ ReportTypes

LEMMA InitConnection == Init => ConnectionInv
<1> SUFFICES ASSUME Init
             PROVE  ConnectionInv
  OBVIOUS
<1>1. LifeInv /\ WriteTypes
  BY InitStrand DEF StrandInv
<1>2. /\ step = "resolve" /\ peer = "silent" /\ wire = <<>> /\ buffer = <<>>
      /\ published = <<>> /\ received = <<>> /\ parses \in BOOLEAN
  BY DEF Init
<1>3. ReadTypes
  BY <1>2, BoundsAssumption DEF ReadTypes
<1>4. ResponseFirst
  BY <1>2 DEF ResponseFirst
<1>5. TimerTypes
  BY DEF Init, TimerTypes
<1>6. ReportTypes
  BY DEF Init, ReportTypes
<1>7. QED
  BY <1>1, <1>3, <1>4, <1>5, <1>6 DEF ConnectionInv, ReadInv

(***************************************************************************)
(* Frames, timers and queues keep their types; nothing is read as a frame  *)
(* that belongs to the response, and nobody reads frames before the        *)
(* connection opened (connection_impl.hpp:847-1132, 1545-1664).            *)
(***************************************************************************)
THEOREM ConnectionTypes == Spec => []TypeOK
<1>1. Init => ConnectionInv
  BY InitConnection
<1>2. ConnectionInv /\ [Next]_vars => ConnectionInv'
  BY ReadKept, WriteTypesKept, TimersKept, ReportsKept DEF ConnectionInv, ReadInv
<1>3. ConnectionInv => TypeOK
  <2> SUFFICES ASSUME ConnectionInv
               PROVE  TypeOK
    OBVIOUS
  <2>1. LifeInv /\ ReadTypes /\ WriteTypes /\ TimerTypes /\ ReportTypes
    BY DEF ConnectionInv, ReadInv
  <2>2. QED
    BY <2>1 DEF LifeInv, ReadTypes, WriteTypes, TimerTypes, ReportTypes, TypeOK
<1>4. QED
  BY <1>1, <1>2, <1>3, PTL DEF Spec

-----------------------------------------------------------------------------
(* terminate has reported the failure of a connection that opens again.    *)
Reopening == step = "reopening" => ~parses /\ reports = <<"fail">>

(* Nothing is sent or received before a connection opens.                  *)
Unheard ==
  step \in {"resolve", "connect", "request", "response", "reopening"} =>
    sent = 0 /\ received = <<>>

Ordered == HandlersInOrder /\ Reopening /\ Unheard

LEMMA Pair == ASSUME NEW a, NEW b PROVE Append(<<a>>, b) = <<a, b>>
<1> DEFINE S == {a, b}
           s == <<a>>
           t == <<a, b>>
           late == Append(s, b)
<1>1. s \in Seq(S) /\ Len(s) = 1 /\ s[1] = a
  OBVIOUS
<1>2. t \in Seq(S) /\ Len(t) = 2 /\ t[1] = a /\ t[2] = b
  OBVIOUS
<1>3. b \in S
  OBVIOUS
<1>4. late \in Seq(S) /\ Len(late) = 2 /\ late[1] = a /\ late[2] = b
  <2> HIDE DEF s, S
  <2>1. late \in Seq(S) /\ Len(late) = Len(s) + 1 /\ late[Len(s) + 1] = b
        /\ \A i \in 1 .. Len(s) : late[i] = s[i]
    BY <1>1, <1>3
  <2>2. QED
    <3> HIDE DEF late
    <3>1. QED
      BY <1>1, <2>1
<1>5. \A i \in 1 .. Len(late) : late[i] = t[i]
  <2> HIDE DEF s, t, late, S
  <2>1. QED
    BY <1>2, <1>4
<1>6. late = t
  <2> HIDE DEF s, t, late, S
  <2>1. QED
    BY <1>2, <1>4, <1>5, SeqEqual
<1>7. QED
  BY <1>6

LEMMA Triple ==
  ASSUME NEW a, NEW b, NEW c
  PROVE  Append(<<a, b>>, c) = <<a, b, c>>
<1> DEFINE S == {a, b, c}
           s == <<a, b>>
           t == <<a, b, c>>
           late == Append(s, c)
<1>1. s \in Seq(S) /\ Len(s) = 2 /\ s[1] = a /\ s[2] = b
  OBVIOUS
<1>2. t \in Seq(S) /\ Len(t) = 3 /\ t[1] = a /\ t[2] = b /\ t[3] = c
  OBVIOUS
<1>3. c \in S
  OBVIOUS
<1>4. late \in Seq(S) /\ Len(late) = 3 /\ late[1] = a /\ late[2] = b /\ late[3] = c
  <2> HIDE DEF s, S
  <2>1. late \in Seq(S) /\ Len(late) = Len(s) + 1 /\ late[Len(s) + 1] = c
        /\ \A i \in 1 .. Len(s) : late[i] = s[i]
    BY <1>1, <1>3
  <2>2. QED
    <3> HIDE DEF late
    <3>1. QED
      BY <1>1, <2>1
<1>5. \A i \in 1 .. Len(late) : late[i] = t[i]
  <2> HIDE DEF s, t, late, S
  <2>1. QED
    BY <1>2, <1>4
<1>6. late = t
  <2> HIDE DEF s, t, late, S
  <2>1. QED
    BY <1>2, <1>4, <1>5, SeqEqual
<1>7. QED
  BY <1>6

(* A handler that ends the connection reports it once. *)
LEMMA TerminateReports ==
  ASSUME LifeInv, HandlersInOrder, NEW t, terminate(t), UNCHANGED parses
  PROVE  HandlersInOrder'
<1>1. state' = "closed"
  BY DEF terminate
<1>2. \/ reports' \in {<<"fail">>, <<"open", "close">>}
      \/ ~parses /\ reports' = <<"fail", "open", "close">>
  <2>1. CASE state = "connecting"
    <3>1. reports = <<>> /\ reports' = Append(reports, "fail")
      BY <2>1 DEF terminate, HandlersInOrder
    <3>2. QED
      BY <3>1
  <2>2. CASE state \in {"open", "closing"}
    <3>1. reports = <<"open">> \/ (~parses /\ reports = <<"fail", "open">>)
      BY <2>2 DEF HandlersInOrder
    <3>2. reports' = Append(reports, "close")
      BY <2>2 DEF terminate
    <3>3. Append(<<"open">>, "close") = <<"open", "close">>
      BY Pair
    <3>4. Append(<<"fail", "open">>, "close") = <<"fail", "open", "close">>
      BY Triple
    <3>5. QED
      BY <3>1, <3>2, <3>3, <3>4
  <2>3. CASE state = "closed"
    <3>1. reports' = reports
      BY <2>3 DEF terminate
    <3>2. QED
      BY <2>3, <3>1 DEF HandlersInOrder
  <2>4. QED
    BY <2>1, <2>2, <2>3 DEF LifeInv
<1>3. QED
  BY <1>1, <1>2 DEF HandlersInOrder

(* A connection that is not open is reading no frame, so this holds until  *)
(* the step that leads to frames.                                          *)
LEMMA UnheardKept ==
  ASSUME LifeInv, Unheard, [Next]_vars
  PROVE  Unheard'
<1> DEFINE early(s) == s \in {"resolve", "connect", "request", "response", "reopening"}
<1>1. CASE (early(step') => early(step)) /\ UNCHANGED <<sent, received>>
  BY <1>1 DEF Unheard
<1>2. CASE Handshake \/ handle_read_http_response
  BY <1>1, <1>2 DEF Handshake, handle_resolve, handle_connect, handle_send_http_request,
                    handle_read_http_response, Opens, writing
<1>3. CASE send
  BY <1>3 DEF send, LifeInv, Lives, reading, Unheard
<1>4. CASE reopen \/ handle_read_frame \/ read_frame \/ process_frame
  BY <1>4 DEF reopen, handle_read_frame, read_frame, process_frame, on_data, process_ping,
              process_close, consume_error, Handles, Unheard
<1>5. CASE \/ write_frame \/ Server \/ UNCHANGED vars
           \/ \E o \in {"ok", "failed"} : handle_write_frame(o)
           \/ \E t \in Timer : handle_timeout(t) \/ Expire(t)
  BY <1>1, <1>5 DEF write_frame, Server, ServerReplies, ServerSends, ServerLeaves, handle_write_frame,
                    handle_timeout, Expire, reading, writing, vars
<1>6. QED
  BY <1>2, <1>3, <1>4, <1>5 DEF Next, Loop

LEMMA OrderKept ==
  ASSUME ReadInv, Ordered, [Next]_vars
  PROVE  Ordered'
<1>0. UNCHANGED parses /\ Unheard' /\ LifeInv
  BY SameParses, UnheardKept DEF Ordered, ReadInv
<1>1. CASE UNCHANGED <<state, reports>> /\ (step' = "reopening" => step = "reopening")
  BY <1>0, <1>1 DEF Ordered, HandlersInOrder, Reopening
<1>2. CASE (\E t : terminate(t)) /\ step' # "reopening"
  BY <1>0, <1>2, TerminateReports DEF Ordered, Reopening
<1>3. CASE send \/ write_frame \/ Server \/ (\E t \in Timer : Expire(t)) \/ UNCHANGED vars
  BY <1>1, <1>3 DEF send, write_frame, Server, ServerReplies, ServerSends, ServerLeaves, Expire,
                    Lives, reading, vars
<1>4. CASE Handshake
  BY <1>1, <1>2, <1>4 DEF Handshake, handle_resolve, handle_connect, handle_send_http_request, Lives
<1>5. CASE handle_read_http_response
  <2>1. step = "response" /\ state \in {"connecting", "closed"}
    BY <1>5 DEF handle_read_http_response, ReadInv, LifeInv
  <2>2. \/ Lives /\ step' # "reopening"
        \/ terminate("none") /\ step' # "reopening"
        \/ state # "closed" /\ state' = "open" /\ reports' = Append(reports, "open") /\ step' = "handling"
        \/ state # "closed" /\ ~parses /\ terminate("none")
    BY <1>5, <2>1 DEF handle_read_http_response, Opens
  <2>3. CASE state # "closed" /\ state' = "open" /\ reports' = Append(reports, "open") /\ step' = "handling"
    <3>1. reports = <<>>
      BY <2>1, <2>3 DEF Ordered, HandlersInOrder
    <3>2. reports' = <<"open">>
      BY <2>3, <3>1
    <3>3. QED
      BY <1>0, <2>3, <3>2 DEF Ordered, HandlersInOrder, Reopening
  <2>4. CASE state # "closed" /\ ~parses /\ terminate("none")
    <3>1. reports = <<>> /\ state = "connecting"
      BY <2>1, <2>4 DEF Ordered, HandlersInOrder
    <3>2. reports' = <<"fail">>
      BY <2>4, <3>1 DEF terminate
    <3>3. state' = "closed"
      BY <2>4 DEF terminate
    <3>4. QED
      BY <1>0, <2>4, <3>2, <3>3 DEF Ordered, HandlersInOrder, Reopening
  <2>5. QED
    BY <1>1, <1>2, <2>2, <2>3, <2>4 DEF Lives
<1>6. CASE handle_read_frame \/ read_frame
  BY <1>1, <1>2, <1>6 DEF handle_read_frame, read_frame, Lives
<1>7. CASE process_frame
  <2>1. step' # "reopening"
    BY <1>7 DEF process_frame, on_data, process_ping, process_close, consume_error, Handles
  <2>2. CASE Lives \/ terminate("none")
    BY <1>1, <1>2, <2>1, <2>2 DEF Lives
  <2>3. CASE \E op : state \in {"open", "closing"} /\ send_close_frame(op)
    BY <1>0, <2>1, <2>3 DEF send_close_frame, Ordered, HandlersInOrder, Reopening
  <2>4. QED
    BY <1>7, <2>2, <2>3 DEF process_frame, on_data, process_ping, process_close, consume_error
<1>8. CASE \/ \E o \in {"ok", "failed"} : handle_write_frame(o)
           \/ \E t \in Timer : handle_timeout(t)
  <2>1. step' = step /\ step # "reopening"
    BY <1>8 DEF handle_write_frame, handle_timeout, Idle, reading
  <2>2. QED
    BY <1>1, <1>2, <1>8, <2>1 DEF handle_write_frame, handle_timeout, Lives
<1>9. CASE reopen
  <2>1. reports = <<"fail">> /\ ~parses
    BY <1>9 DEF reopen, Ordered, Reopening
  <2>2. state' = "open" /\ reports' = Append(reports, "open") /\ step' = "handling"
    BY <1>9 DEF reopen
  <2>3. Append(<<"fail">>, "open") = <<"fail", "open">>
    BY Pair
  <2>4. reports' = <<"fail", "open">>
    BY <2>1, <2>2, <2>3
  <2>5. QED
    BY <1>0, <2>1, <2>2, <2>4 DEF Ordered, HandlersInOrder, Reopening
<1>10. QED
  BY <1>3, <1>4, <1>5, <1>6, <1>7, <1>8, <1>9 DEF Next, Loop

(***************************************************************************)
(* The user sees one life of a connection: it opens and then closes, or it *)
(* fails, whatever timers, answers and errors cross; a connection that has *)
(* failed opens only if the extensions of the server do not parse, as      *)
(* nothing returns after terminate (connection_impl.hpp:1545-1791).        *)
(***************************************************************************)
THEOREM OneLife == Spec => []HandlersInOrder
<1>1. Init => ReadInv /\ Ordered
  BY InitConnection DEF ConnectionInv, Init, Ordered, HandlersInOrder, Reopening, Unheard
<1>2. ReadInv /\ Ordered /\ [Next]_vars => (ReadInv /\ Ordered)'
  BY ReadKept, OrderKept
<1>3. ReadInv /\ Ordered => HandlersInOrder
  BY DEF Ordered
<1>4. QED
  BY <1>1, <1>2, <1>3, PTL DEF Spec

-----------------------------------------------------------------------------
(* The messages among frames.                                              *)
AnyFrame == Frame(Response \cup Served \cup Written)

MessageStep(ms, f) == IF f.op = "data" THEN Append(ms, f.n) ELSE ms

MessageEffect == [f \in AnyFrame |-> [ms \in Seq(Nat) |-> MessageStep(ms, f)]]

LEMMA NumberedFrames == \A f \in AnyFrame : f.n \in Nat
BY BoundsAssumption DEF AnyFrame, Frame

LEMMA EveryFrame ==
  /\ Seq(Frame(Written)) \subseteq Seq(AnyFrame)
  /\ Seq(Frame(Served)) \subseteq Seq(AnyFrame)
  /\ Seq(Frame(Response \cup Served)) \subseteq Seq(AnyFrame)
<1>1. /\ Frame(Written) \subseteq AnyFrame /\ Frame(Served) \subseteq AnyFrame
      /\ Frame(Response \cup Served) \subseteq AnyFrame
  BY DEF Frame, AnyFrame
<1>2. ASSUME NEW S, NEW T, S \subseteq T
      PROVE  Seq(S) \subseteq Seq(T)
  BY <1>2
<1>3. QED
  BY <1>1, <1>2

LEMMA EffectType == MessageEffect \in [AnyFrame -> [Seq(Nat) -> Seq(Nat)]]
<1>1. ASSUME NEW f \in AnyFrame, NEW ms \in Seq(Nat)
      PROVE  MessageStep(ms, f) \in Seq(Nat)
  BY NumberedFrames, AppendProperties DEF MessageStep
<1>2. QED
  BY <1>1 DEF MessageEffect

LEMMA MessagesThrough ==
  ASSUME NEW q \in Seq(AnyFrame)
  PROVE  Messages(q) = Through(MessageEffect, Seq(Nat), <<>>, q)
<1> DEFINE F == MessageEffect
           X == Seq(Nat)
           none == <<>>
           n == Len(q)
           Body(g) == [S \in SUBSET (DOMAIN q) |->
                         IF S = {} THEN none ELSE MessageStep(g[S \ {Max(S)}], q[Max(S)])]
           c == CHOOSE g : g = Body(g)
<1>1. Messages(q) = c[DOMAIN q]
  BY Zenon DEF Messages, FoldLeft, MapThenFoldSet, MessageStep
<1>2. /\ n \in Nat /\ DOMAIN q = 1 .. n /\ F \in [AnyFrame -> [X -> X]]
      /\ none \in X
  BY LenProperties, EffectType
<1>3. \A S \in SUBSET (DOMAIN q) : S # {} => Max(S) \in DOMAIN q /\ q[Max(S)] \in AnyFrame
  BY <1>2, MaxIn, ElementOfSeq
<1>4. \A S \in SUBSET (DOMAIN q), ms \in X :
        S # {} => MessageStep(ms, q[Max(S)]) = F[q[Max(S)]][ms]
  BY <1>3 DEF MessageEffect
<1> HIDE DEF none, X, F
<1>5. c = Body(c)
  <2> DEFINE H == [i \in 1 .. n |-> F[q[i]]]
  <2>1. H \in [1 .. n -> [X -> X]]
    BY <1>2, ElementOfSeq
  <2>2. PICK g : Iterates(H, X, none, n, g)
    <3>1. n \in Nat
      BY <1>2
    <3> HIDE DEF H, n
    <3>2. QED
      BY <1>2, <2>1, <3>1, Iteration
  <2>3. ASSUME NEW S \in SUBSET (DOMAIN q)
        PROVE  g[S] = IF S = {} THEN none ELSE MessageStep(g[S \ {Max(S)}], q[Max(S)])
    <3>1. g[S \ {Max(S)}] \in X
      BY <1>2, <2>2 DEF Iterates
    <3>2. S # {} => H[Max(S)] = F[q[Max(S)]]
      BY <1>2, <1>3
    <3> HIDE DEF H
    <3>3. QED
      BY <1>2, <1>4, <2>2, <3>1, <3>2 DEF Iterates
  <2>4. g = Body(g)
    BY <1>2, <2>2, <2>3 DEF Iterates
  <2> HIDE DEF Body
  <2>5. QED
    BY <2>4
<1>6. /\ DOMAIN c = SUBSET (DOMAIN q)
      /\ c[{}] = none
      /\ \A S \in SUBSET (DOMAIN q) :
           S # {} => c[S] = MessageStep(c[S \ {Max(S)}], q[Max(S)])
  <2> HIDE DEF c
  <2>1. QED
    BY <1>5
<1> HIDE DEF c
<1>7. c[DOMAIN q] = Through(F, X, none, q)
  <2>1. \A S \in SUBSET (DOMAIN q) :
          S # {} /\ c[S \ {Max(S)}] \in X => c[S] = F[q[Max(S)]][c[S \ {Max(S)}]]
    BY <1>4, <1>6
  <2>2. Folds(F, X, none, q, c)
    BY <1>6, <2>1 DEF Folds
  <2>3. QED
    BY <1>2, <2>2, FoldIs
<1>8. QED
  BY <1>1, <1>7 DEF F, X, none

LEMMA MessagesType ==
  ASSUME NEW q \in Seq(AnyFrame)
  PROVE  Messages(q) \in Seq(Nat)
<1> DEFINE none == <<>>
<1>1. none \in Seq(Nat)
  OBVIOUS
<1>2. Messages(q) = Through(MessageEffect, Seq(Nat), none, q)
  BY MessagesThrough
<1> HIDE DEF none
<1>3. QED
  BY <1>1, <1>2, EffectType, ThroughType

LEMMA NoMessages == Messages(<<>>) = <<>>
<1> DEFINE none == <<>>
<1>1. none \in Seq(Nat) /\ none \in Seq(AnyFrame)
  OBVIOUS
<1>2. Messages(none) = Through(MessageEffect, Seq(Nat), none, none)
  BY <1>1, MessagesThrough
<1>3. \A base \in Seq(Nat) : Through(MessageEffect, Seq(Nat), base, <<>>) = base
  BY EffectType, ThroughNothing
<1>4. QED
  BY <1>1, <1>2, <1>3

LEMMA MessagesAppend ==
  ASSUME NEW q \in Seq(AnyFrame), NEW f \in AnyFrame
  PROVE  Messages(Append(q, f)) = MessageStep(Messages(q), f)
<1> DEFINE none == <<>>
<1>1. none \in Seq(Nat) /\ Append(q, f) \in Seq(AnyFrame)
  BY AppendProperties
<1>2. /\ Messages(q) = Through(MessageEffect, Seq(Nat), none, q)
      /\ Messages(Append(q, f)) = Through(MessageEffect, Seq(Nat), none, Append(q, f))
  BY <1>1, MessagesThrough
<1> HIDE DEF none
<1>3. Through(MessageEffect, Seq(Nat), none, Append(q, f))
        = MessageEffect[f][Through(MessageEffect, Seq(Nat), none, q)]
  BY <1>1, EffectType, ThroughAppend
<1>4. Messages(q) \in Seq(Nat)
  BY MessagesType
<1>5. QED
  BY <1>2, <1>3, <1>4 DEF MessageEffect

(* By induction over the second part. *)
LEMMA MessagesConcat ==
  ASSUME NEW p \in Seq(AnyFrame), NEW q \in Seq(AnyFrame)
  PROVE  Messages(p \o q) = Messages(p) \o Messages(q)
<1> DEFINE Prefix(k) == SubSeq(q, 1, k)
           T == {k \in Nat : k <= Len(q) =>
                               Messages(p \o Prefix(k)) = Messages(p) \o Messages(Prefix(k))}
<1>1. 0 \in T
  <2>1. Prefix(0) = <<>> /\ p \o <<>> = p
    OBVIOUS
  <2>2. Messages(p) \o <<>> = Messages(p)
    BY MessagesType
  <2> HIDE DEF Prefix
  <2>3. Messages(p \o Prefix(0)) = Messages(p) \o Messages(Prefix(0))
    BY <2>1, <2>2, NoMessages
  <2>4. QED
    BY <2>3
<1>2. ASSUME NEW k \in Nat, k \in T PROVE k + 1 \in T
  <2>1. SUFFICES ASSUME k + 1 <= Len(q)
                 PROVE  Messages(p \o Prefix(k + 1)) = Messages(p) \o Messages(Prefix(k + 1))
    <3> HIDE DEF Prefix
    <3>1. QED
      OBVIOUS
  <2> DEFINE f == q[k + 1]
  <2>2. f \in AnyFrame /\ Prefix(k) \in Seq(AnyFrame)
    BY <2>1
  <2>3. Prefix(k + 1) = Append(Prefix(k), f)
    BY <2>1
  <2> HIDE DEF Prefix, f
  <2>4. p \o Append(Prefix(k), f) = Append(p \o Prefix(k), f) /\ p \o Prefix(k) \in Seq(AnyFrame)
    BY <2>2
  <2>5. Messages(p \o Prefix(k)) = Messages(p) \o Messages(Prefix(k))
    BY <1>2, <2>1, LenProperties
  <2>6. Messages(p) \in Seq(Nat) /\ Messages(Prefix(k)) \in Seq(Nat) /\ f.n \in Nat
    BY <2>2, MessagesType, NumberedFrames
  <2>7. Messages(p \o Prefix(k + 1)) = MessageStep(Messages(p) \o Messages(Prefix(k)), f)
    BY <2>2, <2>3, <2>4, <2>5, MessagesAppend
  <2>8. Messages(Prefix(k + 1)) = MessageStep(Messages(Prefix(k)), f)
    BY <2>2, <2>3, MessagesAppend
  <2>9. ASSUME NEW a \in Seq(Nat), NEW b \in Seq(Nat), NEW x \in Nat
        PROVE  a \o Append(b, x) = Append(a \o b, x)
    OBVIOUS
  <2>10. QED
    BY <2>6, <2>7, <2>8, <2>9 DEF MessageStep
<1>3. Len(q) \in T
  <2> HIDE DEF T
  <2>1. QED
    BY <1>1, <1>2, LenProperties, SetInduction
<1>4. Prefix(Len(q)) = q /\ Len(q) \in Nat
  OBVIOUS
<1> HIDE DEF Prefix
<1>5. QED
  BY <1>3, <1>4

LEMMA MessagesOne ==
  ASSUME NEW f \in AnyFrame
  PROVE  Messages(<<f>>) = IF f.op = "data" THEN <<f.n>> ELSE <<>>
<1>1. <<f>> = Append(<<>>, f) /\ <<>> \in Seq(AnyFrame) /\ Append(<<>>, f.n) = <<f.n>>
  OBVIOUS
<1>2. Messages(Append(<<>>, f)) = MessageStep(Messages(<<>>), f)
  BY <1>1, MessagesAppend
<1>3. QED
  BY <1>1, <1>2, NoMessages DEF MessageStep

LEMMA MessagesHead ==
  ASSUME NEW q \in Seq(AnyFrame), q # <<>>
  PROVE  /\ Head(q) \in AnyFrame /\ Tail(q) \in Seq(AnyFrame)
         /\ Messages(q) = Messages(<<Head(q)>>) \o Messages(Tail(q))
<1>1. Head(q) \in AnyFrame /\ Tail(q) \in Seq(AnyFrame) /\ q = <<Head(q)>> \o Tail(q)
  BY HeadTailProperties, ConcatProperties
<1>2. \A f \in AnyFrame : <<f>> \in Seq(AnyFrame)
  OBVIOUS
<1>3. QED
  BY <1>1, <1>2, MessagesConcat

LEMMA MessagesSplit ==
  ASSUME NEW q \in Seq(AnyFrame), NEW k \in 0 .. Len(q)
  PROVE  /\ SubSeq(q, 1, k) \in Seq(AnyFrame) /\ SubSeq(q, k + 1, Len(q)) \in Seq(AnyFrame)
         /\ Messages(q) = Messages(SubSeq(q, 1, k)) \o Messages(SubSeq(q, k + 1, Len(q)))
<1>1. SubSeq(q, 1, k) \in Seq(AnyFrame) /\ SubSeq(q, k + 1, Len(q)) \in Seq(AnyFrame)
  OBVIOUS
<1>2. SubSeq(q, 1, k) \o SubSeq(q, k + 1, Len(q)) = q
  <2>1. /\ Len(q) \in Nat /\ 1 \in 1 .. Len(q) + 1 /\ k \in 1 - 1 .. Len(q)
        /\ Len(q) \in k .. Len(q)
    BY LenProperties
  <2>2. SubSeq(q, 1, Len(q)) = q
    OBVIOUS
  <2>3. QED
    BY <2>1, <2>2, ConcatAdjacentSubSeq
<1>3. QED
  BY <1>1, <1>2, MessagesConcat

-----------------------------------------------------------------------------
(* Sequences of messages. *)
Count(n) == [i \in 1 .. n |-> i]

LEMMA CountType == ASSUME NEW n \in Nat PROVE Count(n) \in Seq(Nat) /\ Len(Count(n)) = n
BY DEF Count

LEMMA CountNext ==
  ASSUME NEW n \in Nat
  PROVE  Count(n + 1) = Append(Count(n), n + 1)
<1> DEFINE s == Count(n + 1)
           t == Append(Count(n), n + 1)
<1>1. s \in Seq(Nat) /\ Len(s) = n + 1 /\ \A i \in 1 .. n + 1 : s[i] = i
  BY DEF Count
<1>2. Count(n) \in Seq(Nat) /\ Len(Count(n)) = n /\ \A i \in 1 .. n : Count(n)[i] = i
  BY DEF Count
<1>3. t \in Seq(Nat) /\ Len(t) = n + 1 /\ \A i \in 1 .. n + 1 : t[i] = i
  <2>1. t \in Seq(Nat) /\ Len(t) = n + 1 /\ t[n + 1] = n + 1 /\ \A i \in 1 .. n : t[i] = Count(n)[i]
    BY <1>2, AppendProperties
  <2> HIDE DEF t
  <2>2. QED
    BY <1>2, <2>1
<1> HIDE DEF s, t
<1>4. s = t
  BY <1>1, <1>3, SeqEqual
<1>5. QED
  BY <1>4 DEF s, t

LEMMA Prefix ==
  ASSUME NEW S, NEW s \in Seq(S), NEW t \in Seq(S)
  PROVE  /\ Len(s \o t) = Len(s) + Len(t) /\ Len(s) \in Nat /\ Len(t) \in Nat
         /\ SubSeq(s \o t, 1, Len(s)) = s
<1> DEFINE u == s \o t
           v == SubSeq(u, 1, Len(s))
<1>1. /\ u \in Seq(S) /\ Len(u) = Len(s) + Len(t) /\ Len(s) \in Nat /\ Len(t) \in Nat
      /\ \A i \in 1 .. Len(s) : u[i] = s[i]
  BY ConcatProperties, LenProperties
<1> HIDE DEF u
<1>2. v \in Seq(S) /\ Len(v) = Len(s) /\ \A i \in 1 .. Len(s) : v[i] = u[i]
  BY <1>1
<1> HIDE DEF v
<1>3. v = s
  BY <1>1, <1>2, SeqEqual
<1>4. QED
  BY <1>1, <1>3 DEF u, v

LEMMA Closed ==
  \A a, b \in Seq(Nat) : a \o b \in Seq(Nat)
BY ConcatProperties

LEMMA Lengths ==
  \A a, b \in Seq(Nat) : Len(a) \in Nat /\ Len(a \o b) = Len(a) + Len(b)
BY ConcatProperties, LenProperties

LEMMA Places ==
  \A a, b \in Seq(Nat) : \A i \in 1 .. Len(a) + Len(b) :
     (a \o b)[i] = IF i <= Len(a) THEN a[i] ELSE b[i - Len(a)]
BY ConcatProperties, LenProperties

LEMMA Assoc == \A a, b, c \in Seq(Nat) : (a \o b) \o c = a \o (b \o c)
BY ConcatAssociative

(* Concatenation that the provers do not look into.                        *)
Cat(a, b) == a \o b

LEMMA CatRules ==
  /\ \A a, b \in Seq(Nat) : Cat(a, b) \in Seq(Nat)
  /\ \A a, b, c \in Seq(Nat) : Cat(Cat(a, b), c) = Cat(a, Cat(b, c))
  /\ \A a \in Seq(Nat) : Cat(a, <<>>) = a /\ Cat(<<>>, a) = a
<1>1. \A a, b \in Seq(Nat) : Cat(a, b) \in Seq(Nat)
  BY Closed DEF Cat
<1>2. \A a, b, c \in Seq(Nat) : Cat(Cat(a, b), c) = Cat(a, Cat(b, c))
  BY Assoc DEF Cat
<1>3. \A a \in Seq(Nat) : Cat(a, <<>>) = a /\ Cat(<<>>, a) = a
  BY ConcatEmptySeq DEF Cat
<1>4. QED
  BY <1>1, <1>2, <1>3

LEMMA NextOf ==
  ASSUME NEW s \in Seq(Nat), NEW x \in Nat, NEW t \in Seq(Nat)
  PROVE  LET u == s \o (<<x>> \o t) IN Len(s) < Len(u) /\ u[Len(s) + 1] = x
<1>1. PICK one \in Seq(Nat) : one = <<x>> /\ Len(one) = 1 /\ one[1] = x
  <2>1. <<x>> \in Seq(Nat) /\ Len(<<x>>) = 1 /\ <<x>>[1] = x
    OBVIOUS
  <2>2. QED
    BY <2>1
<1>2. PICK r \in Seq(Nat) : r = one \o t
  BY Closed
<1>3. Len(r) = 1 + Len(t) /\ Len(t) \in Nat
  BY <1>1, <1>2, Lengths
<1>4. r[1] = x
  BY <1>1, <1>2, <1>3, Places
<1>5. PICK u \in Seq(Nat) : u = s \o r
  BY Closed
<1>6. Len(u) = Len(s) + Len(r) /\ Len(s) \in Nat
  BY <1>5, Lengths
<1>7. Len(s) + 1 \in 1 .. Len(s) + Len(r) /\ Len(s) + 1 - Len(s) = 1 /\ ~(Len(s) + 1 <= Len(s))
  BY <1>3, <1>6
<1>8. u[Len(s) + 1] = r[Len(s) + 1 - Len(s)]
  BY <1>5, <1>7, Places
<1>9. Len(s) < Len(u) /\ u[Len(s) + 1] = x
  BY <1>3, <1>4, <1>6, <1>7, <1>8
<1>10. QED
  BY <1>1, <1>2, <1>5, <1>9

-----------------------------------------------------------------------------
(* What was accepted for sending has arrived, is being written, or waits,  *)
(* in this order.  When the connection closed, a write that failed leaves  *)
(* the flag up, and nothing is written any more.                           *)
OutInv ==
  /\ current # <<>> => flag
  /\ \/ ~Alive /\ flag /\ current = <<>>
     \/ Messages(arrived) \o (Messages(current) \o Messages(queue)) = Count(sent)

(* What the server sent was received, waits in the buffer or on the wire,  *)
(* or was lost when the connection was reset.                              *)
Waiting == Cat(Messages(buffer), Messages(wire))

InInv ==
  Early =>
    \E lost \in Seq(Nat) :
      /\ Messages(published) = Cat(received, Cat(Waiting, lost))
      /\ peer # "reset" => lost = <<>>

ChannelInv == ReadInv /\ WriteTypes /\ Ordered /\ OutInv /\ InInv

LEMMA OutTypes ==
  ASSUME WriteTypes
  PROVE  /\ queue \in Seq(AnyFrame) /\ current \in Seq(AnyFrame) /\ arrived \in Seq(AnyFrame)
         /\ Messages(queue) \in Seq(Nat) /\ Messages(current) \in Seq(Nat)
         /\ Messages(arrived) \in Seq(Nat) /\ sent \in Nat
<1>1. queue \in Seq(AnyFrame) /\ current \in Seq(AnyFrame) /\ arrived \in Seq(AnyFrame)
  BY EveryFrame DEF WriteTypes
<1>2. sent \in Nat
  BY BoundsAssumption DEF WriteTypes
<1>3. QED
  BY <1>1, <1>2, MessagesType

LEMMA InTypes ==
  ASSUME ReadTypes
  PROVE  /\ buffer \in Seq(AnyFrame) /\ wire \in Seq(AnyFrame) /\ published \in Seq(AnyFrame)
         /\ Messages(buffer) \in Seq(Nat) /\ Messages(wire) \in Seq(Nat)
         /\ Messages(published) \in Seq(Nat) /\ received \in Seq(Nat)
<1>1. buffer \in Seq(AnyFrame) /\ wire \in Seq(AnyFrame) /\ published \in Seq(AnyFrame)
  BY EveryFrame DEF ReadTypes
<1>2. QED
  BY <1>1, MessagesType DEF ReadTypes

LEMMA WrittenFrame ==
  /\ \A f \in Frame({"data", "pong"}) : f \in AnyFrame
  /\ \A f \in Frame(CloseOp) : f \in AnyFrame /\ f.op # "data"
BY DEF Frame, AnyFrame, Written, CloseOp

LEMMA OneMore == ASSUME NEW S, NEW f \in S PROVE <<f>> \in Seq(S)
OBVIOUS

(* A write that ends has brought a part of its messages to the server.     *)
LEMMA WriteArrives ==
  ASSUME WriteTypes, OutInv, NEW o \in {"ok", "failed"}, handle_write_frame(o)
  PROVE  \E part, rest \in Seq(Nat) :
           /\ Messages(current) = part \o rest
           /\ Messages(arrived') = Messages(arrived) \o part
           /\ o = "ok" => rest = <<>>
           /\ current' = <<>> /\ queue' = queue /\ sent' = sent
           /\ Messages(arrived) \o (Messages(current) \o Messages(queue)) = Count(sent)
           /\ (~Alive' /\ flag' = flag) \/ o = "ok"
           /\ state' \in {state, "closed"}
<1>1. PICK n \in 0 .. Len(current) : /\ arrived' = arrived \o SubSeq(current, 1, n)
                                     /\ o = "ok" => n = Len(current)
  BY DEF handle_write_frame
<1>2. current \in Seq(AnyFrame) /\ arrived \in Seq(AnyFrame)
  BY OutTypes
<1> DEFINE front == SubSeq(current, 1, n)
           rest == SubSeq(current, n + 1, Len(current))
<1>3. /\ front \in Seq(AnyFrame) /\ rest \in Seq(AnyFrame)
      /\ Messages(current) = Messages(front) \o Messages(rest)
  BY <1>2, MessagesSplit
<1>4. o = "ok" => rest = <<>>
  BY <1>1, <1>2
<1>5. current # <<>> /\ current' = <<>> /\ queue' = queue /\ sent' = sent
  BY DEF handle_write_frame
<1>6. (~Alive' /\ flag' = flag) \/ o = "ok"
  BY DEF handle_write_frame, terminate, Alive, Idle, reading
<1>7. state' \in {state, "closed"}
  BY DEF handle_write_frame, terminate, Lives
<1>8. Messages(arrived \o front) = Messages(arrived) \o Messages(front)
  <2> HIDE DEF front
  <2>1. QED
    BY <1>2, <1>3, MessagesConcat
<1>9. arrived' = arrived \o front
  BY <1>1
<1> HIDE DEF front, rest
<1>10. Messages(front) \in Seq(Nat) /\ Messages(rest) \in Seq(Nat)
  BY <1>3, MessagesType
<1>11. o = "ok" => Messages(rest) = <<>>
  BY <1>4, NoMessages
<1>12. QED
  BY <1>3, <1>5, <1>6, <1>7, <1>8, <1>9, <1>10, <1>11 DEF OutInv

LEMMA OutKept ==
  ASSUME LifeInv, WriteTypes, OutInv, [Next]_vars
  PROVE  OutInv'
<1>1. /\ queue \in Seq(AnyFrame) /\ current \in Seq(AnyFrame) /\ arrived \in Seq(AnyFrame)
      /\ Messages(queue) \in Seq(Nat) /\ Messages(current) \in Seq(Nat)
      /\ Messages(arrived) \in Seq(Nat) /\ sent \in Nat
  BY OutTypes
<1>2. CASE Untouched
  BY <1>2 DEF Untouched, writing, OutInv
<1>3. CASE Speaks \/ TakesLeave
  <2>1. PICK f \in AnyFrame :
          /\ Pushed(<<f>>) /\ Alive
          /\ sent' = (IF f.op = "data" THEN sent + 1 ELSE sent)
          /\ f.op = "data" => f.n = sent'
    <3>1. CASE Speaks
      <4>1. PICK f \in Frame({"data", "pong"}) :
              /\ Pushed(<<f>>) /\ state = "open"
              /\ sent' = (IF f.op = "data" THEN sent + 1 ELSE sent)
              /\ f.op = "data" => f.n = sent'
        BY <3>1 DEF Speaks
      <4>2. f \in AnyFrame
        BY WrittenFrame
      <4>3. QED
        BY <4>1, <4>2 DEF Alive
    <3>2. CASE TakesLeave
      <4>1. PICK f \in Frame(CloseOp) :
              Pushed(<<f>>) /\ state \in {"open", "closing"} /\ sent' = sent
        BY <3>2 DEF TakesLeave
      <4>2. f \in AnyFrame /\ f.op # "data"
        BY WrittenFrame
      <4>3. QED
        BY <4>1, <4>2 DEF Alive
    <3>3. QED
      BY <1>3, <3>1, <3>2
  <2>2. queue' = queue \o <<f>> /\ UNCHANGED <<current, arrived, flag>>
    BY <2>1 DEF Pushed
  <2> DEFINE more == IF f.op = "data" THEN <<f.n>> ELSE <<>>
  <2>3. Messages(queue') = Messages(queue) \o more
    <3>1. <<f>> \in Seq(AnyFrame) /\ Messages(<<f>>) = more
      BY OneMore, MessagesOne
    <3> HIDE DEF more
    <3>2. QED
      BY <1>1, <2>2, <3>1, MessagesConcat
  <2>4. more \in Seq(Nat)
    BY NumberedFrames, OneMore
  <2>5. Messages(arrived) \o (Messages(current) \o Messages(queue)) = Count(sent)
    BY <2>1 DEF OutInv
  <2>6. Count(sent') = Count(sent) \o more
    <3>1. CASE f.op = "data"
      <4>1. Count(sent + 1) = Append(Count(sent), sent + 1) /\ more = <<sent + 1>>
        BY <1>1, <2>1, <3>1, CountNext
      <4>2. Append(Count(sent), sent + 1) = Count(sent) \o <<sent + 1>>
        <5>1. Count(sent) \in Seq(Nat) /\ sent + 1 \in Nat
          BY <1>1, CountType
        <5>2. QED
          BY <5>1, AppendIsConcat
      <4>3. QED
        BY <2>1, <3>1, <4>1, <4>2
    <3>2. CASE f.op # "data"
      BY <1>1, <2>1, <3>2, CountType, ConcatEmptySeq
    <3>3. QED
      BY <3>1, <3>2
  <2> HIDE DEF more
  <2>8. Messages(arrived) \o (Messages(current) \o (Messages(queue) \o more)) = Count(sent')
    <3>1. PICK a \in Seq(Nat), b \in Seq(Nat), c \in Seq(Nat) :
            a = Messages(arrived) /\ b = Messages(current) /\ c = Messages(queue)
      BY <1>1
    <3>2. PICK d \in Seq(Nat) : d = more
      BY <2>4
    <3>3. PICK e \in Seq(Nat) : e = b \o c
      BY Closed
    <3>4. e \o d = b \o (c \o d)
      BY <3>3, Assoc
    <3>5. (a \o e) \o d = a \o (e \o d)
      BY Assoc
    <3>6. QED
      BY <2>5, <2>6, <3>1, <3>2, <3>3, <3>4, <3>5
  <2>9. QED
    BY <2>2, <2>3, <2>8 DEF OutInv
<1>4. CASE write_frame
  <2>1. state' = state /\ step' = step /\ arrived' = arrived /\ sent' = sent
    BY <1>4 DEF write_frame, Lives, reading
  <2>2. CASE flag \/ queue = <<>>
    BY <1>4, <2>1, <2>2 DEF write_frame, OutInv, Alive
  <2>3. CASE ~flag /\ queue # <<>>
    <3>1. PICK k \in 1 .. Len(queue) :
            current' = SubSeq(queue, 1, k) /\ queue' = SubSeq(queue, k + 1, Len(queue))
      BY <1>4, <2>3, WriteTakes
    <3>2. k \in 0 .. Len(queue)
      OBVIOUS
    <3>3. Messages(queue) = Messages(current') \o Messages(queue')
      BY <1>1, <3>1, <3>2, MessagesSplit
    <3>4. current = <<>> /\ flag' = TRUE
      BY <1>4, <2>3 DEF write_frame, OutInv
    <3>5. Messages(current) \o Messages(queue) = Messages(queue)
      BY <1>1, <3>4, NoMessages, ConcatEmptySeq
    <3>6. QED
      BY <2>1, <2>3, <3>3, <3>4, <3>5 DEF OutInv
  <2>4. QED
    BY <2>2, <2>3
<1>5. CASE \E o \in {"ok", "failed"} : handle_write_frame(o)
  <2>1. PICK o \in {"ok", "failed"} : handle_write_frame(o)
    BY <1>5
  <2>2. PICK part \in Seq(Nat), rest \in Seq(Nat) :
           /\ Messages(current) = part \o rest
           /\ Messages(arrived') = Messages(arrived) \o part
           /\ o = "ok" => rest = <<>>
           /\ current' = <<>> /\ queue' = queue /\ sent' = sent
           /\ Messages(arrived) \o (Messages(current) \o Messages(queue)) = Count(sent)
           /\ (~Alive' /\ flag' = flag) \/ o = "ok"
    BY <2>1, WriteArrives
  <2>3. CASE o = "ok"
    <3>1. part = Messages(current)
      BY <1>1, <2>2, <2>3, ConcatEmptySeq
    <3>2. Messages(current') \o Messages(queue') = Messages(queue)
      BY <1>1, <2>2, NoMessages, ConcatEmptySeq
    <3>3. (Messages(arrived) \o Messages(current)) \o Messages(queue)
            = Messages(arrived) \o (Messages(current) \o Messages(queue))
      BY <1>1, Assoc
    <3>4. QED
      BY <2>2, <3>1, <3>2, <3>3 DEF OutInv
  <2>4. CASE ~Alive' /\ flag' = flag
    <3>1. flag
      BY <2>1 DEF handle_write_frame, OutInv
    <3>2. QED
      BY <2>2, <2>4, <3>1 DEF OutInv
  <2>5. QED
    BY <2>2, <2>3, <2>4
<1>6. QED
  BY <1>2, <1>3, <1>4, <1>5, WritingSteps

-----------------------------------------------------------------------------
(* Where the waiting messages go.                                          *)
LEMMA TakeOne ==
  ASSUME NEW p \in Seq(Nat), NEW x \in Nat, NEW t \in Seq(Nat), NEW w \in Seq(Nat), NEW l \in Seq(Nat)
  PROVE  Cat(p, Cat(Cat(<<x>> \o t, w), l)) = Cat(Append(p, x), Cat(Cat(t, w), l))
<1>1. PICK one \in Seq(Nat) : one = <<x>>
  BY OneMore
<1>2. Append(p, x) = Cat(p, one)
  BY <1>1, AppendIsConcat DEF Cat
<1>3. <<x>> \o t = Cat(one, t)
  BY <1>1 DEF Cat
<1>4. Cat(Cat(one, t), w) = Cat(one, Cat(t, w)) /\ Cat(t, w) \in Seq(Nat)
  BY CatRules
<1>5. PICK u \in Seq(Nat) : u = Cat(t, w)
  BY <1>4
<1>6. Cat(Cat(one, u), l) = Cat(one, Cat(u, l)) /\ Cat(u, l) \in Seq(Nat)
  BY CatRules
<1>7. PICK v \in Seq(Nat) : v = Cat(u, l)
  BY <1>6
<1>8. Cat(Cat(p, one), v) = Cat(p, Cat(one, v))
  BY CatRules
<1>9. QED
  BY <1>2, <1>3, <1>4, <1>5, <1>6, <1>7, <1>8

LEMMA AddMore ==
  ASSUME NEW p \in Seq(Nat), NEW b \in Seq(Nat), NEW w \in Seq(Nat), NEW m \in Seq(Nat)
  PROVE  Cat(Cat(p, Cat(Cat(b, w), <<>>)), m) = Cat(p, Cat(Cat(b, Cat(w, m)), <<>>))
<1>1. PICK u \in Seq(Nat) : u = Cat(b, w)
  BY CatRules
<1>2. PICK v \in Seq(Nat) : v = Cat(u, m)
  BY CatRules
<1>3. Cat(Cat(b, w), m) = Cat(b, Cat(w, m))
  BY CatRules
<1>4. Cat(u, <<>>) = u /\ Cat(v, <<>>) = v
  BY CatRules
<1>5. Cat(Cat(p, u), m) = Cat(p, Cat(u, m))
  BY CatRules
<1>6. QED
  BY <1>1, <1>2, <1>3, <1>4, <1>5

LEMMA LoseWaiting ==
  ASSUME NEW b \in Seq(Nat), NEW w \in Seq(Nat), NEW l \in Seq(Nat)
  PROVE  Cat(Cat(b, w), l) = Cat(Cat(b, <<>>), Cat(w, l))
BY CatRules

LEMMA StaysEarly ==
  ASSUME LifeInv, WriteTypes, [Next]_vars, Early'
  PROVE  Early
<1>1. CASE \E o \in {"ok", "failed"} : handle_write_frame(o)
  BY <1>1 DEF handle_write_frame, terminate, Lives, Early, Idle, reading
<1>2. CASE write_frame
  BY <1>2 DEF write_frame, Lives, Early, reading
<1>3. CASE Speaks \/ TakesLeave
  BY <1>3, LifeKept DEF Speaks, TakesLeave, Early, LifeInv
<1>4. QED
  BY <1>1, <1>2, <1>3, WritingSteps DEF Untouched

LEMMA SameWaiting ==
  ASSUME InInv, Early,
         Waiting' = Waiting, UNCHANGED <<received, published>>,
         peer' # "reset" => peer # "reset"
  PROVE  InInv'
BY DEF InInv

LEMMA ResponseKeeps ==
  ASSUME ReadInv, InInv, handle_read_http_response, Early', Early
  PROVE  InInv'
<1>1. step = "response" /\ UNCHANGED <<peer, published, received>> /\ buffer = <<>>
  BY DEF handle_read_http_response, server, ReadInv, LifeInv
<1>2. PICK n \in 1 .. Len(wire) :
        /\ wire' = SubSeq(wire, n + 1, Len(wire))
        /\ \/ SubSeq(wire, 1, n) = <<Control("partial")>> /\ buffer' = buffer
           \/ SubSeq(wire, 1, n)[1].op = "ok" /\ buffer' = Tail(SubSeq(wire, 1, n))
  BY <1>1 DEF handle_read_http_response, terminate, Lives, Opens, Early
<1> DEFINE chunk == SubSeq(wire, 1, n)
           rest == SubSeq(wire, n + 1, Len(wire))
<1>3. wire \in Seq(AnyFrame) /\ n \in 0 .. Len(wire) /\ Len(wire) \in Nat
  BY InTypes DEF ReadInv
<1>4. /\ chunk \in Seq(AnyFrame) /\ rest \in Seq(AnyFrame)
      /\ Messages(wire) = Messages(chunk) \o Messages(rest)
  BY <1>3, MessagesSplit
<1>5. Len(chunk) = n /\ n # 0 /\ chunk # <<>>
  BY <1>3
<1>6. Head(chunk) = chunk[1]
  BY <1>3
<1> HIDE DEF chunk, rest
<1>7. Messages(rest) \in Seq(Nat) /\ Messages(chunk) \in Seq(Nat)
  BY <1>4, MessagesType
<1>8. Messages(buffer') = Messages(chunk)
  <2>1. CASE chunk = <<Control("partial")>> /\ buffer' = buffer
    <3>1. Control("partial") \in AnyFrame /\ Control("partial").op # "data"
      BY BoundsAssumption DEF Control, AnyFrame, Frame, Response
    <3>2. QED
      BY <1>1, <2>1, <3>1, MessagesOne, NoMessages
  <2>2. CASE chunk[1].op = "ok" /\ buffer' = Tail(chunk)
    <3>1. Head(chunk) \in AnyFrame /\ Tail(chunk) \in Seq(AnyFrame)
          /\ Messages(chunk) = Messages(<<Head(chunk)>>) \o Messages(Tail(chunk))
      BY <1>4, <1>5, MessagesHead
    <3>2. Messages(<<Head(chunk)>>) = <<>>
      BY <1>6, <2>2, <3>1, MessagesOne
    <3>3. Messages(Tail(chunk)) \in Seq(Nat)
      BY <3>1, MessagesType
    <3>4. QED
      BY <2>2, <3>1, <3>2, <3>3, ConcatEmptySeq
  <2>3. QED
    BY <1>2, <2>1, <2>2 DEF chunk
<1>9. wire' = rest
  BY <1>2 DEF rest
<1>10. Waiting' = Messages(chunk) \o Messages(rest)
  BY <1>8, <1>9 DEF Waiting, Cat
<1>11. Waiting = Messages(chunk) \o Messages(rest)
  <2>1. Messages(wire) \in Seq(Nat) /\ Messages(buffer) = <<>>
    BY <1>1, <1>3, MessagesType, NoMessages
  <2>2. Waiting = Messages(wire)
    BY <2>1, CatRules DEF Waiting
  <2>3. QED
    BY <1>4, <2>2
<1>12. QED
  BY <1>1, <1>10, <1>11, SameWaiting

LEMMA FrameKeeps ==
  ASSUME ReadInv, InInv, handle_read_frame, Early', Early
  PROVE  InInv'
<1>1. step = "frames" /\ UNCHANGED <<peer, parses, published, received>> /\ buffer = <<>>
  BY DEF handle_read_frame, server, ReadInv, LifeInv
<1>2. PICK n \in 1 .. Len(wire) :
        wire' = SubSeq(wire, n + 1, Len(wire)) /\ buffer' = SubSeq(wire, 1, n)
  BY DEF handle_read_frame, terminate, Early
<1>3. wire \in Seq(AnyFrame) /\ n \in 0 .. Len(wire) /\ Messages(wire) \in Seq(Nat)
  BY InTypes DEF ReadInv
<1>4. Messages(wire) = Messages(buffer') \o Messages(wire')
  BY <1>2, <1>3, MessagesSplit
<1>5. Waiting' = Waiting
  BY <1>1, <1>3, <1>4, NoMessages, ConcatEmptySeq DEF Waiting, Cat
<1>6. QED
  BY <1>1, <1>5, SameWaiting

LEMMA HandlingKeeps ==
  ASSUME ReadInv, InInv, process_frame, Early', Early
  PROVE  InInv'
<1>1. state = "open"
  <2>1. step = "handling"
    BY DEF process_frame, on_data, process_ping, process_close, consume_error, Handles
  <2>2. QED
    BY <2>1 DEF Early, ReadInv, LifeInv
<1>2. UNCHANGED <<peer, published, wire>> /\ buffer # <<>> /\ buffer' = Tail(buffer)
      /\ \/ Head(buffer).op = "data" /\ received' = Append(received, Head(buffer).n)
         \/ Head(buffer).op # "data" /\ received' = received
  BY <1>1 DEF process_frame, on_data, process_ping, process_close, consume_error, Handles, server,
              send_close_frame, terminate, Early
<1>3. /\ buffer \in Seq(AnyFrame) /\ Messages(wire) \in Seq(Nat) /\ received \in Seq(Nat)
  BY InTypes DEF ReadInv
<1>4. /\ Head(buffer) \in AnyFrame /\ Tail(buffer) \in Seq(AnyFrame)
      /\ Messages(buffer) = Messages(<<Head(buffer)>>) \o Messages(Tail(buffer))
  BY <1>2, <1>3, MessagesHead
<1>5. PICK t \in Seq(Nat) : t = Messages(Tail(buffer))
  BY <1>4, MessagesType
<1>6. PICK w \in Seq(Nat) : w = Messages(wire)
  BY <1>3
<1>7. PICK x \in Nat : x = Head(buffer).n
  BY <1>4, NumberedFrames
<1>8. CASE Head(buffer).op = "data" /\ received' = Append(received, Head(buffer).n)
  <2>1. Messages(buffer) = <<x>> \o t
    BY <1>4, <1>5, <1>7, <1>8, MessagesOne
  <2>2. PICK lost \in Seq(Nat) :
          Messages(published) = Cat(received, Cat(Waiting, lost)) /\ (peer # "reset" => lost = <<>>)
    BY DEF InInv
  <2>3. Waiting = Cat(<<x>> \o t, w) /\ Waiting' = Cat(t, w)
    BY <1>2, <1>5, <1>6, <2>1 DEF Waiting
  <2>4. Cat(received, Cat(Cat(<<x>> \o t, w), lost)) = Cat(Append(received, x), Cat(Cat(t, w), lost))
    BY <1>3, TakeOne
  <2>5. Messages(published') = Cat(received', Cat(Waiting', lost))
    BY <1>2, <1>7, <1>8, <2>2, <2>3, <2>4
  <2>6. QED
    BY <1>2, <2>2, <2>5 DEF InInv
<1>9. CASE Head(buffer).op # "data" /\ received' = received
  <2>1. Messages(buffer) = <<>> \o t
    BY <1>4, <1>5, <1>9, MessagesOne
  <2>2. <<>> \o t = t
    BY ConcatEmptySeq
  <2>3. Waiting' = Waiting
    BY <1>2, <1>5, <2>1, <2>2 DEF Waiting
  <2>4. QED
    BY <1>2, <1>9, <2>3, SameWaiting
<1>10. QED
  BY <1>2, <1>8, <1>9

LEMMA ServerKeeps ==
  ASSUME ReadInv, InInv, Server, Early
  PROVE  InInv'
<1>1. /\ wire \in Seq(AnyFrame) /\ published \in Seq(AnyFrame)
      /\ Messages(wire) \in Seq(Nat) /\ Messages(published) \in Seq(Nat)
      /\ Messages(buffer) \in Seq(Nat) /\ received \in Seq(Nat)
  BY InTypes DEF ReadInv
<1>2. CASE \E op \in Response : ServerReplies(op)
  <2>1. PICK op \in Response : ServerReplies(op)
    BY <1>2
  <2>2. wire' = Append(wire, Control(op)) /\ UNCHANGED <<buffer, received, published>>
        /\ peer # "reset"
    BY <2>1 DEF ServerReplies
  <2>3. Control(op) \in AnyFrame /\ Control(op).op # "data"
    BY BoundsAssumption DEF Control, AnyFrame, Frame, Response
  <2>4. Messages(wire') = Messages(wire)
    BY <1>1, <2>2, <2>3, MessagesAppend DEF MessageStep
  <2>5. QED
    BY <2>2, <2>4, SameWaiting DEF Waiting
<1>3. CASE \E op \in Served : ServerSends(op)
  <2>1. PICK op \in Served : ServerSends(op)
    BY <1>3
  <2> DEFINE frame == [op |-> op, n |-> IF op = "data" THEN Len(published) + 1 ELSE 0]
             more == IF op = "data" THEN <<frame.n>> ELSE <<>>
  <2>2. /\ wire' = Append(wire, frame) /\ published' = Append(published, frame)
        /\ UNCHANGED <<peer, buffer, received>> /\ peer = "talking" /\ Len(published) < MaxServed
    BY <2>1 DEF ServerSends
  <2>3. frame \in AnyFrame /\ frame.op = op /\ frame.n \in Nat
    <3>1. Len(published) \in Nat
      BY <1>1, LenProperties
    <3>2. (IF op = "data" THEN Len(published) + 1 ELSE 0) \in 0 .. MaxSend + MaxServed
      BY <2>2, <3>1, BoundsAssumption
    <3>3. QED
      BY <3>2, BoundsAssumption DEF AnyFrame, Frame
  <2> HIDE DEF frame
  <2>4. PICK m \in Seq(Nat) : m = more
    <3>1. <<frame.n>> \in Seq(Nat) /\ <<>> \in Seq(Nat)
      BY <2>3, OneMore
    <3>2. more \in Seq(Nat)
      BY <3>1
    <3>3. QED
      BY <3>2, Zenon
  <2>5. \A q \in Seq(AnyFrame) : Messages(Append(q, frame)) = Messages(q) \o more
    <3>1. SUFFICES ASSUME NEW q \in Seq(AnyFrame)
                   PROVE  Messages(Append(q, frame)) = Messages(q) \o more
      OBVIOUS
    <3>2. Messages(Append(q, frame)) = MessageStep(Messages(q), frame)
      BY <2>3, MessagesAppend
    <3>3. Messages(q) \in Seq(Nat)
      BY MessagesType
    <3>4. CASE op = "data"
      <4>1. Append(Messages(q), frame.n) = Messages(q) \o <<frame.n>>
        BY <2>3, <3>3, AppendIsConcat
      <4>2. QED
        BY <2>3, <3>2, <3>4, <4>1 DEF MessageStep
    <3>5. CASE op # "data"
      <4>1. Messages(q) \o <<>> = Messages(q)
        BY <3>3, ConcatEmptySeq
      <4>2. QED
        BY <2>3, <3>2, <3>5, <4>1 DEF MessageStep
    <3>6. QED
      BY <3>4, <3>5
  <2> HIDE DEF more
  <2>6. PICK b \in Seq(Nat), w \in Seq(Nat) : b = Messages(buffer) /\ w = Messages(wire)
    BY <1>1
  <2>7. Messages(published) = Cat(received, Cat(Cat(b, w), <<>>))
    <3>1. PICK lost \in Seq(Nat) :
            Messages(published) = Cat(received, Cat(Waiting, lost)) /\ (peer # "reset" => lost = <<>>)
      BY DEF InInv
    <3>2. QED
      BY <2>2, <2>6, <3>1 DEF Waiting
  <2>8. Messages(published') = Cat(Messages(published), m) /\ Messages(wire') = Cat(w, m)
    BY <1>1, <2>2, <2>4, <2>5, <2>6 DEF Cat
  <2>9. Cat(Cat(received, Cat(Cat(b, w), <<>>)), m) = Cat(received, Cat(Cat(b, Cat(w, m)), <<>>))
    BY <1>1, AddMore
  <2>10. Waiting' = Cat(b, Cat(w, m))
    BY <2>2, <2>6, <2>8 DEF Waiting
  <2>11. Messages(published') = Cat(received', Cat(Waiting', <<>>))
    BY <2>2, <2>7, <2>8, <2>9, <2>10
  <2>12. <<>> \in Seq(Nat)
    OBVIOUS
  <2>13. QED
    BY <2>11, <2>12 DEF InInv
<1>4. CASE \E how \in {"fin", "reset"} : ServerLeaves(how)
  <2>1. PICK how \in {"fin", "reset"} : ServerLeaves(how)
    BY <1>4
  <2>2. /\ peer # "reset" /\ peer' = how /\ UNCHANGED <<buffer, received, published>>
        /\ wire' = IF how = "reset" THEN <<>> ELSE wire
    BY <2>1 DEF ServerLeaves
  <2>3. CASE how = "fin"
    BY <2>2, <2>3, SameWaiting DEF Waiting
  <2>4. CASE how = "reset"
    <3>1. PICK b \in Seq(Nat), w \in Seq(Nat) : b = Messages(buffer) /\ w = Messages(wire)
      BY <1>1
    <3>2. PICK lost \in Seq(Nat) : Messages(published) = Cat(received, Cat(Waiting, lost))
      BY DEF InInv
    <3>3. PICK gone \in Seq(Nat) : gone = Cat(w, lost)
      BY CatRules
    <3>4. Cat(Cat(b, w), lost) = Cat(Cat(b, <<>>), gone)
      BY <3>3, LoseWaiting
    <3>5. Waiting = Cat(b, w) /\ Waiting' = Cat(b, <<>>)
      BY <2>2, <2>4, <3>1, NoMessages DEF Waiting
    <3>6. Messages(published') = Cat(received', Cat(Waiting', gone))
      BY <2>2, <3>2, <3>4, <3>5
    <3>7. QED
      BY <2>2, <2>4, <3>6 DEF InInv
  <2>5. QED
    BY <2>3, <2>4
<1>5. QED
  BY <1>2, <1>3, <1>4 DEF Server

LEMMA InKept ==
  ASSUME ReadInv, WriteTypes, InInv, [Next]_vars
  PROVE  InInv'
<1> SUFFICES ASSUME Early'
             PROVE  InInv'
  BY DEF InInv
<1>1. Early
  BY StaysEarly DEF ReadInv
<1>2. CASE UNCHANGED <<buffer, wire, received, peer, published>>
  BY <1>1, <1>2, SameWaiting DEF Waiting
<1>3. CASE Server
  BY <1>1, <1>3, ServerKeeps
<1>4. CASE handle_read_http_response \/ handle_read_frame \/ process_frame
  BY <1>1, <1>4, ResponseKeeps, FrameKeeps, HandlingKeeps
<1>5. CASE \/ Handshake \/ send \/ reopen \/ read_frame \/ write_frame \/ UNCHANGED vars
           \/ \E o \in {"ok", "failed"} : handle_write_frame(o)
           \/ \E t \in Timer : handle_timeout(t) \/ Expire(t)
  <2>1. UNCHANGED <<buffer, wire, received, peer, published>>
    BY <1>5 DEF Handshake, handle_resolve, handle_connect, handle_send_http_request, send, reopen,
                read_frame, write_frame, handle_write_frame, handle_timeout, Expire, server, reading, vars
  <2>2. QED
    BY <1>2, <2>1
<1>6. QED
  BY <1>3, <1>4, <1>5 DEF Next, Loop

-----------------------------------------------------------------------------
(* The steps of the channel.                                               *)
Status == IF state = "closing" THEN "closed" ELSE state

StatusMoves ==
  /\ UNCHANGED parses
  /\ \/ Status' \in {Status, "closed"}
     \/ /\ Status = "connecting" \/ (Status = "closed" /\ ~parses /\ sent = 0 /\ received = <<>>)
        /\ Status' = "open"

LEMMA StatusSteps ==
  ASSUME LifeInv, WriteTypes, Ordered, [Next]_vars
  PROVE  StatusMoves
<1> USE SameParses
<1>0. CASE Handshake \/ handle_read_http_response
  <2>1. state \in {"connecting", "closed"}
    BY <1>0 DEF Handshake, handle_resolve, handle_connect, handle_send_http_request,
                handle_read_http_response, LifeInv
  <2>2. state' \in {state, "closed"} \/ (state # "closed" /\ state' = "open")
    BY <1>0 DEF Handshake, handle_resolve, handle_connect, handle_send_http_request,
                handle_read_http_response, terminate, Opens, Lives
  <2>3. QED
    BY <2>1, <2>2 DEF StatusMoves, Status
<1>1. CASE \E o \in {"ok", "failed"} : handle_write_frame(o)
  <2>1. state' \in {state, "closed"}
    BY <1>1 DEF handle_write_frame, terminate, Lives
  <2>2. QED
    BY <2>1 DEF StatusMoves, Status
<1>2. CASE Lives \/ (\E t : terminate(t))
  BY <1>2 DEF terminate, Lives, StatusMoves, Status
<1>3. CASE \/ send \/ write_frame \/ handle_read_frame \/ read_frame \/ Server \/ UNCHANGED vars
           \/ \E t \in Timer : handle_timeout(t) \/ Expire(t)
  BY <1>2, <1>3 DEF send, write_frame, handle_read_frame, read_frame, Server, ServerReplies,
                    ServerSends, ServerLeaves, handle_timeout, Expire, Lives, vars
<1>4. CASE process_frame
  <2>1. CASE \E op : state \in {"open", "closing"} /\ send_close_frame(op)
    BY <2>1 DEF send_close_frame, StatusMoves, Status
  <2>2. QED
    BY <1>2, <1>4, <2>1 DEF process_frame, on_data, process_ping, process_close, consume_error
<1>5. CASE reopen
  <2>1. /\ step = "reopening" /\ state \in {"connecting", "closed"} /\ state' = "open"
        /\ ~parses /\ sent = 0 /\ received = <<>>
    BY <1>5 DEF reopen, LifeInv, Ordered, Reopening, Unheard
  <2>2. QED
    BY <2>1 DEF StatusMoves, Status
<1>6. QED
  BY <1>0, <1>1, <1>3, <1>4, <1>5 DEF Next, Loop

LEMMA ChannelVars ==
  /\ Ch!vars = <<Status, parses, Count(sent), Messages(arrived), Messages(published), received>>
BY DEF Ch!vars, Status, Count

LEMMA CountNone == Count(0) = <<>>
<1>1. Count(0) \in Seq(Nat) /\ Len(Count(0)) = 0
  BY CountType
<1>2. QED
  BY <1>1, EmptySeq

(* A step that moves no message opens or closes the channel, or neither.   *)
LEMMA QuietStep ==
  ASSUME StatusMoves, UNCHANGED <<Count(sent), Messages(arrived), Messages(published), received>>
  PROVE  [Ch!Next]_(Ch!vars)
<1>0. UNCHANGED parses
  BY DEF StatusMoves
<1>1. CASE Status' = Status
  BY <1>0, <1>1 DEF Ch!vars, Status, Count
<1>2. CASE Status' = "closed" /\ Status # "closed"
  <2>1. Ch!Close
    BY <1>0, <1>2 DEF Ch!Close, Status, Count
  <2>2. QED
    BY <2>1 DEF Ch!Next
<1>3. CASE /\ Status = "connecting" \/ (Status = "closed" /\ ~parses /\ sent = 0 /\ received = <<>>)
           /\ Status' = "open"
  <2>1. Ch!Open
    BY <1>0, <1>3, CountNone DEF Ch!Open, Status, Count
  <2>2. QED
    BY <2>1 DEF Ch!Next
<1>4. QED
  BY <1>1, <1>2, <1>3 DEF StatusMoves

LEMMA SendStep ==
  ASSUME WriteTypes, send
  PROVE  [Ch!Next]_(Ch!vars)
<1>1. /\ state = "open" /\ state' = "open" /\ sent' = sent + 1 /\ sent < MaxSend
      /\ UNCHANGED <<parses, arrived, published, received>>
  BY DEF send, Lives, Pushed, reading, server
<1>2. sent \in Nat /\ sent + 1 \in 1 .. MaxSend + MaxServed
  BY <1>1, BoundsAssumption DEF WriteTypes
<1>3. Count(sent') = Append(Count(sent), sent + 1)
  BY <1>1, <1>2, CountNext
<1>4. PICK m \in 1 .. MaxSend + MaxServed : m = sent + 1
  BY <1>2
<1>5. Ch!Send(m)
  BY <1>1, <1>3, <1>4 DEF Ch!Send, Count
<1>6. QED
  BY <1>5 DEF Ch!Next

LEMMA ArriveStep ==
  ASSUME WriteTypes, OutInv, StatusMoves, NEW o \in {"ok", "failed"}, handle_write_frame(o)
  PROVE  [Ch!Next]_(Ch!vars)
<1>1. PICK part \in Seq(Nat), rest \in Seq(Nat) :
         /\ Messages(current) = part \o rest
         /\ Messages(arrived') = Messages(arrived) \o part
         /\ sent' = sent /\ state' \in {state, "closed"}
         /\ Messages(arrived) \o (Messages(current) \o Messages(queue)) = Count(sent)
  BY WriteArrives
<1>2. UNCHANGED <<parses, published, received>>
  BY DEF handle_write_frame, reading, server
<1>3. PICK a \in Seq(Nat), b \in Seq(Nat) : a = Messages(arrived) /\ b = Messages(queue)
  BY OutTypes
<1>4. PICK c \in Seq(Nat) : c = Cat(a, part)
  BY CatRules
<1>5. PICK d \in Seq(Nat) : d = Cat(rest, b)
  BY CatRules
<1>6. Count(sent) = Cat(c, d)
  <2>1. Count(sent) = Cat(a, Cat(Cat(part, rest), b))
    BY <1>1, <1>3 DEF Cat
  <2>2. Cat(Cat(part, rest), b) = Cat(part, d)
    BY <1>5, CatRules
  <2>3. Cat(Cat(a, part), d) = Cat(a, Cat(part, d))
    BY CatRules
  <2>4. QED
    BY <1>4, <2>1, <2>2, <2>3
<1>7. Messages(arrived') = c
  BY <1>1, <1>3, <1>4 DEF Cat
<1>8. CASE part = <<>>
  <2>1. c = a
    BY <1>4, <1>8, CatRules
  <2>2. QED
    BY <1>1, <1>2, <1>3, <1>7, <2>1, QuietStep
<1>9. CASE part # <<>>
  <2>1. Len(part) \in Nat /\ Len(part) # 0
    BY <1>9, LenProperties
  <2>2. Len(c) = Len(a) + Len(part) /\ Len(a) \in Nat
    BY <1>4, Lengths DEF Cat
  <2>3. /\ Len(Count(sent)) = Len(c) + Len(d) /\ Len(d) \in Nat
        /\ SubSeq(Count(sent), 1, Len(c)) = c
    BY <1>6, Prefix DEF Cat
  <2>4. Len(c) \in Len(Messages(arrived)) + 1 .. Len(Count(sent))
    BY <1>3, <2>1, <2>2, <2>3
  <2>5. \E n \in Len(Messages(arrived)) + 1 .. Len(Count(sent)) :
          Messages(arrived') = SubSeq(Count(sent), 1, n)
    BY <1>7, <2>3, <2>4
  <2>6. Status' \in {Status, "closed"}
    BY <1>1 DEF Status
  <2>7. Ch!Arrive
    BY <1>1, <1>2, <2>5, <2>6 DEF Ch!Arrive, Status, Count
  <2>8. QED
    BY <2>7 DEF Ch!Next
<1>10. QED
  BY <1>8, <1>9

LEMMA PublishStep ==
  ASSUME ReadTypes, StatusMoves, NEW op \in Served, ServerSends(op)
  PROVE  [Ch!Next]_(Ch!vars)
<1> DEFINE frame == [op |-> op, n |-> IF op = "data" THEN Len(published) + 1 ELSE 0]
<1>1. /\ published' = Append(published, frame) /\ Len(published) < MaxServed
      /\ UNCHANGED <<parses, sent, arrived, received, state>>
  BY DEF ServerSends, writing, Lives
<1>2. Len(published) \in Nat /\ published \in Seq(AnyFrame)
  BY InTypes, LenProperties
<1>3. /\ frame \in AnyFrame /\ frame.op = op
      /\ op = "data" => frame.n \in 1 .. MaxSend + MaxServed
  <2>1. (IF op = "data" THEN Len(published) + 1 ELSE 0) \in 0 .. MaxSend + MaxServed
    BY <1>1, <1>2, BoundsAssumption
  <2>2. frame \in AnyFrame
    BY <2>1, BoundsAssumption DEF AnyFrame, Frame
  <2>3. op = "data" => frame.n = Len(published) + 1
    OBVIOUS
  <2>4. QED
    BY <1>1, <1>2, <2>2, <2>3, BoundsAssumption
<1> HIDE DEF frame
<1>4. Messages(published') = MessageStep(Messages(published), frame)
  BY <1>1, <1>2, <1>3, MessagesAppend
<1>5. CASE op = "data"
  <2>1. Messages(published') = Append(Messages(published), frame.n)
    BY <1>3, <1>4, <1>5 DEF MessageStep
  <2>2. Ch!Publish(frame.n)
    BY <1>1, <2>1 DEF Ch!Publish
  <2>3. QED
    BY <1>3, <1>5, <2>2 DEF Ch!Next
<1>6. CASE op # "data"
  <2>1. Messages(published') = Messages(published)
    BY <1>3, <1>4, <1>6 DEF MessageStep
  <2>2. QED
    BY <1>1, <2>1, QuietStep
<1>7. QED
  BY <1>5, <1>6

LEMMA ReceiveStep ==
  ASSUME ReadTypes, InInv, StatusMoves, on_data
  PROVE  [Ch!Next]_(Ch!vars)
<1>1. /\ buffer # <<>> /\ Head(buffer).op = "data"
      /\ received' = (IF state = "open" THEN Append(received, Head(buffer).n) ELSE received)
      /\ UNCHANGED <<state, parses, sent, arrived, published>>
  BY DEF on_data, Handles, Lives, writing, server
<1>2. CASE state # "open"
  BY <1>1, <1>2, QuietStep
<1>3. CASE state = "open"
  <2>1. /\ buffer \in Seq(AnyFrame) /\ Messages(wire) \in Seq(Nat) /\ received \in Seq(Nat)
    BY InTypes
  <2>2. /\ Head(buffer) \in AnyFrame /\ Tail(buffer) \in Seq(AnyFrame)
        /\ Messages(buffer) = Messages(<<Head(buffer)>>) \o Messages(Tail(buffer))
    BY <1>1, <2>1, MessagesHead
  <2>3. PICK t \in Seq(Nat), w \in Seq(Nat) : t = Messages(Tail(buffer)) /\ w = Messages(wire)
    BY <2>1, <2>2, MessagesType
  <2>4. PICK x \in Nat : x = Head(buffer).n
    BY <2>2, NumberedFrames
  <2>5. PICK one \in Seq(Nat) : one = <<x>>
    BY OneMore
  <2>6. Messages(buffer) = Cat(one, t)
    BY <1>1, <2>2, <2>3, <2>4, <2>5, MessagesOne DEF Cat
  <2>7. PICK lost \in Seq(Nat) : Messages(published) = Cat(received, Cat(Waiting, lost))
    BY <1>3 DEF InInv, Early
  <2>8. PICK rest \in Seq(Nat) : rest = Cat(Cat(t, w), lost)
    BY CatRules
  <2>9. Cat(Waiting, lost) = Cat(one, rest)
    <3>1. Cat(Cat(one, t), w) = Cat(one, Cat(t, w)) /\ Cat(t, w) \in Seq(Nat)
      BY CatRules
    <3>2. PICK u \in Seq(Nat) : u = Cat(t, w)
      BY <3>1
    <3>3. Cat(Cat(one, u), lost) = Cat(one, Cat(u, lost))
      BY CatRules
    <3>4. QED
      BY <2>3, <2>6, <2>8, <3>1, <3>2, <3>3 DEF Waiting
  <2>10. Messages(published) = received \o (<<x>> \o rest)
    BY <2>5, <2>7, <2>9 DEF Cat
  <2>11. /\ Len(received) < Len(Messages(published))
         /\ Messages(published)[Len(received) + 1] = x
    <3>1. /\ Len(received) < Len(received \o (<<x>> \o rest))
          /\ (received \o (<<x>> \o rest))[Len(received) + 1] = x
      BY <2>1, NextOf
    <3>2. QED
      BY <2>10, <3>1
  <2>12. Ch!Receive
    BY <1>1, <1>3, <2>4, <2>11 DEF Ch!Receive
  <2>13. QED
    BY <2>12 DEF Ch!Next
<1>4. QED
  BY <1>2, <1>3

LEMMA ChannelStep ==
  ASSUME ChannelInv, [Next]_vars
  PROVE  [Ch!Next]_(Ch!vars)
<1>1. ReadTypes /\ LifeInv /\ WriteTypes /\ Ordered /\ OutInv /\ InInv
  BY DEF ChannelInv, ReadInv
<1>2. StatusMoves
  BY <1>1, StatusSteps
<1>3. CASE UNCHANGED <<sent, arrived, published, received>>
  BY <1>2, <1>3, QuietStep
<1>4. CASE send
  BY <1>1, <1>4, SendStep
<1>5. CASE \E o \in {"ok", "failed"} : handle_write_frame(o)
  BY <1>1, <1>2, <1>5, ArriveStep
<1>6. CASE Server
  <2>1. CASE \E op \in Served : ServerSends(op)
    BY <1>1, <1>2, <2>1, PublishStep
  <2>2. CASE \/ \E op \in Response : ServerReplies(op)
             \/ \E how \in {"fin", "reset"} : ServerLeaves(how)
    BY <1>3, <2>2 DEF ServerReplies, ServerLeaves, writing
  <2>3. QED
    BY <1>6, <2>1, <2>2 DEF Server
<1>7. CASE process_frame
  <2>1. CASE on_data
    BY <1>1, <1>2, <2>1, ReceiveStep
  <2>2. CASE process_ping \/ process_close \/ consume_error
    BY <1>3, <2>2 DEF process_ping, process_close, consume_error, Handles, Pushed, send_close_frame,
                      server, writing
  <2>3. QED
    BY <1>7, <2>1, <2>2 DEF process_frame
<1>8. CASE \/ Handshake \/ handle_read_http_response \/ reopen \/ handle_read_frame \/ read_frame
           \/ write_frame \/ UNCHANGED vars
           \/ \E t \in Timer : handle_timeout(t) \/ Expire(t)
  BY <1>3, <1>8 DEF Handshake, handle_resolve, handle_connect, handle_send_http_request,
                    handle_read_http_response, reopen, handle_read_frame, read_frame, write_frame,
                    handle_timeout, Expire, reading, writing, server, vars
<1>9. QED
  BY <1>4, <1>5, <1>6, <1>7, <1>8 DEF Next, Loop

LEMMA InitChannel == Init => Ch!Init /\ ChannelInv
<1> SUFFICES ASSUME Init
             PROVE  Ch!Init /\ ChannelInv
  OBVIOUS
<1>1. /\ state = "connecting" /\ current = <<>> /\ queue = <<>> /\ arrived = <<>> /\ sent = 0
      /\ buffer = <<>> /\ wire = <<>> /\ published = <<>> /\ received = <<>>
  BY DEF Init
<1>2. Count(0) = <<>> /\ parses \in BOOLEAN
  BY CountNone DEF Init
<1>3. Ch!Init
  BY <1>1, <1>2, NoMessages DEF Ch!Init, Count
<1>4. Cat(<<>>, <<>>) = <<>> /\ <<>> \in Seq(Nat)
  <2>1. <<>> \in Seq(Nat)
    OBVIOUS
  <2>2. QED
    BY <2>1, CatRules
<1>5. OutInv
  BY <1>1, <1>2, <1>4, NoMessages DEF OutInv, Cat
<1>6. InInv
  <2>1. Messages(published) = Cat(received, Cat(Waiting, <<>>))
    BY <1>1, <1>4, NoMessages DEF Waiting
  <2>2. QED
    BY <1>4, <2>1 DEF InInv
<1>7. ReadInv /\ WriteTypes
  BY InitConnection DEF ConnectionInv
<1>8. Ordered
  BY <1>1 DEF Init, Ordered, HandlersInOrder, Reopening, Unheard
<1>9. QED
  BY <1>3, <1>5, <1>6, <1>7, <1>8 DEF ChannelInv

(***************************************************************************)
(* The connection is a channel: what is accepted for sending arrives, and  *)
(* what the server sends is received, in order, once and with no gap, only *)
(* while the connection is open; a failed write, a reset or a close loses  *)
(* what is left and nothing else.  A connection that closed opens only if  *)
(* the server's extensions do not parse and nothing was sent or received   *)
(* (connection_impl.hpp:103-150, 964-1108, 1616-1641, 1793-1929).          *)
(***************************************************************************)
THEOREM ConnectionIsChannel == Spec => ImplementsChannel
<1>1. ChannelInv /\ [Next]_vars => ChannelInv'
  BY ReadKept, WriteTypesKept, OrderKept, OutKept, InKept DEF ChannelInv, ReadInv
<1>2. ChannelInv /\ [Next]_vars => [Ch!Next]_(Ch!vars)
  BY ChannelStep
<1>3. QED
  BY <1>1, <1>2, InitChannel, PTL DEF Spec, ImplementsChannel, Ch!Spec
=============================================================================
