-------------------------------- MODULE Hybi13 --------------------------------
(***************************************************************************)
(* How a connection turns the bytes it reads into messages, while TCP      *)
(* delivers them in pieces of any size: the HTTP response first, then,     *)
(* from the piece in which it ends, frames by processor/hybi13.  The loops *)
(* of handle_read_frame and consume are unrolled, a step per turn.         *)
(*                                                                         *)
(* The sender is external: it writes the lines of a response, unless the   *)
(* receiver is a server, and the frames of a script, masked if it is;      *)
(* scripts may break the protocol.                                         *)
(***************************************************************************)
EXTENDS Framing, HttpResponse

CONSTANTS
  Scripts,            \* what senders write: lines and frames
  m_max_message_size,
  SizeT               \* how many values a size_t has: 2^64

ScriptFrame ==
  [op : 0 .. 15, payload : Seq(Byte), fin : BOOLEAN, rsv : 0 .. 7, proper : BOOLEAN,
   form : {0, payload_size_code_16bit, payload_size_code_64bit}]

ASSUME SizeAssumption ==
  m_max_message_size \in Nat /\ SizeT \in Nat /\ m_max_message_size < SizeT
ASSUME ScriptAssumption ==
  \A s \in Scripts : s.lines \in Seq(Seq(Byte)) /\ s.frames \in Seq(ScriptFrame)

VARIABLES
  server,    \* m_server: the receiver is the server
  script,    \* the lines and frames being received
  input,     \* their bytes
  p,         \* bytes consumed
  read,      \* bytes read from the socket
  response,  \* m_response
  m_state,   \* "http", then "basic", "extended", "application" or "ready"
  needed,    \* m_bytes_needed
  header,    \* m_basic_header, as far as it is read
  extended,  \* m_extended_header, as far as it is read
  data,      \* m_data_msg: none or one message
  control,   \* m_control_msg
  delivered, \* messages given to handle_read_frame
  error      \* what consume returned

frame == <<m_state, needed, header, extended, data, control, delivered, error>>
sender == <<server, script, input>>
vars == <<sender, p, read, response, frame>>

Message == [op : 0 .. 15, payload : Seq(Byte), key : Seq(Byte), validator : Seq(SUBSET Byte)]

Key == <<1, 2, 4, 8>>

Text(lines) ==
  IF server THEN <<>> ELSE FlattenSeq([i \in DOMAIN lines |-> lines[i] \o CRLF]) \o CRLF

(* A frame has op, payload, fin and rsv; `form' is 0 or the code of a size *)
(* that follows, minimal or not; proper ones are masked as they must be.   *)
Bytes(f) ==
  LET size == Len(f.payload)
      key == IF f.proper = server THEN Key ELSE <<>>
      code == IF f.form = 0 THEN SizeCode(size) ELSE f.form
  IN  prepare_header(f.op, size, code, f.fin, f.rsv, key)
        \o (IF key = <<>> THEN f.payload ELSE byte_mask(f.payload, key))

Frames == script.frames
BytesOf(frames) == FlattenSeq([i \in DOMAIN frames |-> Bytes(frames[i])])

TypeOK ==
  /\ server \in BOOLEAN /\ script \in Scripts
  /\ p \in 0 .. read /\ read \in 0 .. Len(input)
  /\ m_state \in {"http", "basic", "extended", "application", "ready"}
  /\ needed \in Nat
  /\ m_state = "basic" => Len(header) + needed = 2
  /\ m_state = "extended" => Len(header) = 2 /\ Len(extended) + needed = get_header_len(header) - 2
  /\ \A m \in ToSet(data) \cup ToSet(control) \cup ToSet(delivered) :
       m.op \in 0 .. 15 /\ m.payload \in Seq(Byte)
  /\ Len(data) <= 1 /\ Len(control) <= 1

Init ==
  /\ server \in BOOLEAN
  /\ script \in Scripts
  /\ input = Text(script.lines) \o BytesOf(Frames)
  /\ p = 0 /\ read = 0
  /\ response = Fresh
  /\ m_state = (IF server THEN "basic" ELSE "http") /\ needed = 2 /\ header = <<>> /\ extended = <<>>
  /\ data = <<>> /\ control = <<>> /\ delivered = <<>>
  /\ error = "none"

-----------------------------------------------------------------------------
(* The bytes of the piece that follow the response are frames. *)
handle_read_http_response ==
  LET result == consume_response(response, SubSeq(input, p + 1, read)) IN
  /\ error = "none" /\ m_state = "http" /\ p < read
  /\ response' = result.response
  /\ p' = p + result.processed
  /\ IF result.error = "none" /\ headers_ready(result.response)
     THEN /\ error' = IF result.response.accepts THEN "none" ELSE "invalid_http_status"
          /\ m_state' = IF result.response.accepts THEN "basic" ELSE m_state
     ELSE error' = result.error /\ UNCHANGED m_state
  /\ UNCHANGED <<sender, read, needed, header, extended, data, control, delivered>>

validate_incoming_basic_header(h, new_msg) ==
  LET op == get_opcode(h)
      faults == <<
        <<is_control(op) /\ get_basic_size(h) > payload_size_basic, "control_too_big">>,
        <<get_rsv(h) # 0, "invalid_rsv_bit">>,
        <<reserved(op), "invalid_opcode">>,
        <<is_control(op) /\ ~get_fin(h), "fragmented_control">>,
        <<new_msg /\ op = CONTINUATION, "invalid_continuation">>,
        <<~new_msg /\ ~is_control(op) /\ op # CONTINUATION, "invalid_continuation">>,
        <<server /\ ~get_masked(h), "masking_required">>,
        <<~server /\ get_masked(h), "masking_forbidden">> >>
      found == {i \in DOMAIN faults : faults[i][1]}
  IN  IF found = {} THEN "none" ELSE faults[Min(found)][2]

validate_incoming_extended_header(h, ext) ==
  LET size == get_payload_size(h, ext)
      code == get_basic_size(h)
  IN  IF \/ code = payload_size_code_16bit /\ size <= payload_size_basic
         \/ code = payload_size_code_64bit /\ size <= payload_size_extended
      THEN "non_minimal_encoding" ELSE "none"

(* Mutant of Turns: a frame without payload waits for more bytes. *)
Turns_NeedBytes == error = "none" /\ m_state # "ready" /\ p < read

(* The loop of consume goes on. *)
Turns == error = "none" /\ m_state # "ready" /\ (p < read \/ needed = 0)

Available == Min({needed, read - p})
Taken == SubSeq(input, p + 1, p + Available)
Takes == p' = p + Available

read_header ==
  LET h == header \o Taken
      fault == validate_incoming_basic_header(h, data = <<>>)
  IN  /\ Turns /\ m_state = "basic"
      /\ Takes
      /\ header' = h
      /\ IF needed > Available
         THEN needed' = needed - Available /\ UNCHANGED <<m_state, extended, error>>
         ELSE IF fault # "none"
         THEN error' = fault /\ needed' = 0 /\ UNCHANGED <<m_state, extended>>
         ELSE /\ m_state' = "extended"
              /\ extended' = <<>>
              /\ needed' = get_header_len(h) - 2
              /\ UNCHANGED error
      /\ UNCHANGED <<sender, read, response, data, control, delivered>>

NewMessage(ext) ==
  [op |-> get_opcode(header), payload |-> <<>>, key |-> get_masking_key(header, ext),
   validator |-> Accept]

(* Mutant of TooBig: each frame alone is held against the limit. *)
TooBig_EachFrame(size) == size > m_max_message_size

(* A message must not grow beyond the limit, but the sum wraps; control    *)
(* frames are short.                                                       *)
TooBig(size) ==
  ((IF data = <<>> THEN 0 ELSE Len(data[1].payload)) + size) % SizeT > m_max_message_size

(* A frame goes to the control message or to the data message, which a     *)
(* continuation gives a new key and nothing else.                          *)
read_extended_header ==
  LET ext == extended \o Taken
      fault == validate_incoming_extended_header(header, ext)
      size == get_payload_size(header, ext) % SizeT
      isControl == is_control(get_opcode(header))
  IN  /\ Turns /\ m_state = "extended"
      /\ Takes
      /\ extended' = ext
      /\ IF needed > Available
         THEN needed' = needed - Available /\ UNCHANGED <<m_state, data, control, error>>
         ELSE IF fault # "none"
         THEN error' = fault /\ needed' = 0 /\ UNCHANGED <<m_state, data, control>>
         ELSE /\ m_state' = "application"
              /\ needed' = size
              /\ IF isControl
                 THEN control' = <<NewMessage(ext)>> /\ UNCHANGED <<data, error>>
                 ELSE IF TooBig(size)
                 THEN error' = "message_too_big" /\ UNCHANGED <<data, control>>
                 ELSE /\ data' = IF data = <<>> THEN <<NewMessage(ext)>>
                                 ELSE <<[data[1] EXCEPT !.key = get_masking_key(header, ext)]>>
                      /\ UNCHANGED <<control, error>>
      /\ UNCHANGED <<sender, read, response, header, delivered>>

(* process_payload_bytes *)
Filled(m, bytes) ==
  LET plain == IF get_masked(header) THEN byte_mask(bytes, m.key) ELSE bytes
  IN  [m EXCEPT !.payload = @ \o plain,
                !.key = IF get_masked(header) THEN circshift_prepared_key(@, Len(bytes)) ELSE @,
                !.validator = IF m.op = TEXT THEN decode(@, plain) ELSE @]

(* Mutant of reset_headers: the count of bytes is not reset. *)
reset_headers_Counts ==
  m_state' = "basic" /\ header' = <<>> /\ extended' = <<>> /\ needed' = needed - Available

reset_headers == m_state' = "basic" /\ needed' = 2 /\ header' = <<>> /\ extended' = <<>>

(* finalize_message asks for a complete code point if the last frame of    *)
(* the message has opcode TEXT, not if the message has.                    *)
process_payload ==
  LET isControl == is_control(get_opcode(header))
      m == Filled(IF isControl THEN control[1] ELSE data[1], Taken)
      fault == \/ m.validator = Reject
               \/ /\ needed = Available /\ get_fin(header)
                  /\ get_opcode(header) = TEXT /\ ~complete(m.validator)
  IN  /\ Turns /\ m_state = "application"
      /\ Takes
      /\ IF isControl THEN control' = <<m>> /\ UNCHANGED data
                      ELSE data' = <<m>> /\ UNCHANGED control
      /\ error' = IF fault THEN "invalid_utf8" ELSE error
      /\ IF fault \/ needed > Available
         THEN needed' = needed - Available /\ UNCHANGED <<m_state, header, extended>>
         ELSE IF ~get_fin(header) THEN reset_headers
         ELSE m_state' = "ready" /\ needed' = 0 /\ UNCHANGED <<header, extended>>
      /\ UNCHANGED <<sender, read, response, delivered>>

get_message ==
  /\ m_state = "ready"
  /\ IF is_control(get_opcode(header))
     THEN delivered' = delivered \o control /\ control' = <<>> /\ UNCHANGED data
     ELSE delivered' = delivered \o data /\ data' = <<>> /\ UNCHANGED control
  /\ reset_headers
  /\ UNCHANGED <<sender, p, read, response, error>>

consume == read_header \/ read_extended_header \/ process_payload

(* All that was read is handled. *)
Waits == error = "none" /\ m_state # "ready" /\ p = read /\ ~Turns

handle_async_read ==
  /\ Waits
  /\ \E n \in read + 1 .. Len(input) : read' = n
  /\ UNCHANGED <<sender, p, response, frame>>

Next == handle_read_http_response \/ consume \/ get_message \/ handle_async_read

Spec == Init /\ [][Next]_vars

-----------------------------------------------------------------------------
(* The protocol, frame by frame: the message that f belongs to, as far as  *)
(* f takes it, if `open' is what precedes; and whether f may follow it.    *)
IsData(f) == ~is_control(f.op)

WithFrame(open, f) ==
  IF IsData(f) /\ open # <<>>
  THEN [op |-> open[1].op, payload |-> open[1].payload \o f.payload]
  ELSE [op |-> f.op, payload |-> f.payload]

Legal(open, f) ==
  LET m == WithFrame(open, f)
      validator == decode(Accept, m.payload)
  IN  /\ f.rsv = 0 /\ f.proper /\ ~reserved(f.op)
      /\ f.form = 0 \/ f.form = SizeCode(Len(f.payload))
      /\ IF IsData(f)
         THEN /\ f.op = CONTINUATION <=> open # <<>>
              /\ Len(m.payload) <= m_max_message_size
              /\ m.op = TEXT => validator # Reject /\ (f.fin => complete(validator))
         ELSE f.fin /\ Len(f.payload) <= payload_size_basic

(* What frames say, if they are legal: whole messages, and the beginning   *)
(* of one.                                                                 *)
Said(frames) ==
  LET after[i \in 0 .. Len(frames)] ==
        IF i = 0 THEN [legal |-> TRUE, open |-> <<>>, messages |-> <<>>]
        ELSE LET a == after[i - 1]
                 f == frames[i]
                 m == WithFrame(a.open, f)
             IN  [legal |-> a.legal /\ Legal(a.open, f),
                  open |-> IF ~IsData(f) THEN a.open ELSE IF f.fin THEN <<>> ELSE <<m>>,
                  messages |-> IF f.fin THEN Append(a.messages, m) ELSE a.messages]
  IN  after[Len(frames)]

(* The first k frames, and the bytes of the input that end with them.      *)
First(k) == SubSeq(Frames, 1, k)
Offset(k) == Len(Text(script.lines)) + Len(BytesOf(First(k)))

(***************************************************************************)
(* However the bytes are cut into reads, a response is refused if it must  *)
(* be, and no byte of it is lost or read twice (impl/response.hpp:42-137,  *)
(* connection_impl.hpp:1580-1654).                                         *)
(***************************************************************************)
HandshakeAsSent ==
  LET lines == script.lines
      legal == /\ lines[1] = <<S>> /\ \A i \in 2 .. Len(lines) : lines[i] = <<H>>
               /\ Len(Text(lines)) <= max_header_size
  IN  ~server =>
        /\ m_state = "http" /\ error # "none" => ~legal
        /\ m_state = "http" /\ Waits => p < Len(Text(lines))
        /\ m_state # "http" => legal /\ p >= Len(Text(lines))
        /\ m_state = "basic" /\ error = "none" /\ header \o data \o delivered = <<>> =>
             p = Len(Text(lines))

(***************************************************************************)
(* However the bytes are cut into reads, the messages delivered are those  *)
(* of the legal frames that have arrived in full, in their order, control  *)
(* frames between the fragments of a message, no sooner and no later; no   *)
(* illegal frame passes and no legal one is an error (hybi13.hpp:382-510,  *)
(* 744-950; connection_impl.hpp:1016-1107).                                *)
(***************************************************************************)
AsSent ==
  m_state # "http" /\ (Waits \/ error # "none") =>
    \E k \in 0 .. Len(Frames) :
      /\ Said(First(k)).legal /\ Offset(k) <= p
      /\ [i \in DOMAIN delivered |-> [op |-> delivered[i].op, payload |-> delivered[i].payload]]
           = Said(First(k)).messages
      /\ IF error = "none" THEN k < Len(Frames) => p < Offset(k + 1)
                           ELSE k < Len(Frames) /\ ~Said(First(k + 1)).legal

(* No frame announces so many bytes that the sum of TooBig wraps.          *)
AnnouncesFit == m_state = "application" => needed + m_max_message_size < SizeT

(***************************************************************************)
(* No message, being received or delivered, exceeds the limit, in however  *)
(* many fragments it comes, if AnnouncesFit always; a control frame, which *)
(* is not held against it, has a small limit of its own                    *)
(* (hybi13.hpp:436-468, frame.hpp:156).                                    *)
(***************************************************************************)
MessagesAreBounded ==
  \A m \in ToSet(data) \cup ToSet(control) \cup ToSet(delivered) :
    Len(m.payload) <= IF is_control(m.op) THEN payload_size_basic ELSE m_max_message_size

(***************************************************************************)
(* "ensure that text messages end on a valid UTF8 code point"              *)
(* (hybi13.hpp:536).                                                       *)
(***************************************************************************)
TextIsComplete ==
  \A m \in ToSet(delivered) : m.op = TEXT => complete(decode(Accept, m.payload))
=============================================================================
