----------------------------- MODULE HttpResponse -----------------------------
(***************************************************************************)
(* How http::parser::response takes the answer of a server, in pieces, up  *)
(* to the bytes that follow it.  One byte stands for the text of a line:   *)
(* S for a response line that accepts, R for one that refuses or lacks     *)
(* what the client asked for, H for a header; other text does not parse.   *)
(* Servers announce no body.                                               *)
(***************************************************************************)
EXTENDS Naturals, Sequences, SequencesExt, FiniteSetsExt

CONSTANT max_header_size

ASSUME HeaderAssumption == max_header_size \in Nat

S == 83
R == 82
H == 72
CRLF == <<13, 10>>

(* response: m_state, m_buf, m_header_bytes; `accepts' is the status.      *)
Fresh == [state |-> "response_line", buf |-> <<>>, header_bytes |-> 0, accepts |-> FALSE]

(* Mutant of Processed: what earlier pieces left counts as well. *)
Processed_All(buf, end, len) == end + 1

(* The bytes of the piece of length len that end with the blank line whose *)
(* delimiter starts at `end' of m_buf.                                     *)
Processed(buf, end, len) == len - (Len(buf) - end + 1) + 2

(* Where the delimiters of m_buf start, and where its lines do, the last   *)
(* of which has none yet.                                                  *)
Ends(buf) == {i \in 1 .. Len(buf) - 1 : SubSeq(buf, i, i + 1) = CRLF}
Begins(buf) == {1} \cup {i + 2 : i \in Ends(buf)}
End(buf, begin) == Min({i \in Ends(buf) : i >= begin} \cup {Len(buf) + 1})
Line(buf, begin) == SubSeq(buf, begin, End(buf, begin) - 1)

(* response::consume: the response afterwards, the bytes of the piece that *)
(* belong to it, and an error.  The loop over the lines stops at a blank   *)
(* one, at a fault, or without a delimiter; each of its turns counts three *)
(* bytes for the delimiter, a turn that finds none as well.                *)
consume_response(response, piece) ==
  LET buf == response.buf \o piece
      isFirst(b) == response.state = "response_line" /\ b = 1
      whole(b) == End(buf, b) \in Ends(buf)
      bytes(b) == response.header_bytes + b + Len(Line(buf, b)) + 2
                    + Cardinality({i \in Ends(buf) : i < b})
      tooBig(b) == bytes(b) > max_header_size
      invalid(b) == IF isFirst(b) THEN ToSet(Line(buf, b)) \cap {S, R} = {}
                                  ELSE H \notin ToSet(Line(buf, b))
      stops(b) == tooBig(b) \/ ~whole(b) \/ Line(buf, b) = <<>> \/ invalid(b)
      last == Min({b \in Begins(buf) : stops(b)})
      accepts == response.accepts \/ (isFirst(1) /\ last > 1 /\ S \in ToSet(Line(buf, 1)))
      Failed(fault) == [response |-> response, processed |-> 0, error |-> fault]
  IN  CASE tooBig(last) -> Failed("too_large")
        [] ~tooBig(last) /\ ~whole(last) ->
             [response |-> [state |-> IF last > 1 THEN "headers" ELSE response.state,
                            buf |-> Line(buf, last), accepts |-> accepts,
                            header_bytes |-> bytes(last) - Len(Line(buf, last))],
              processed |-> Len(piece), error |-> "none"]
        [] ~tooBig(last) /\ whole(last) /\ Line(buf, last) = <<>> /\ ~isFirst(last) ->
             [response |-> [state |-> "body", buf |-> <<>>, accepts |-> accepts,
                            header_bytes |-> bytes(last)],
              processed |-> Processed(buf, End(buf, last), Len(piece)), error |-> "none"]
        [] OTHER -> Failed("bad_request")

headers_ready(response) == response.state = "body"
=============================================================================
