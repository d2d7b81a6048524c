------------------------------- MODULE MCHybi13 -------------------------------
(* Scripts of up to three small frames, legal and illegal, and some whose  *)
(* sizes are at the boundaries of the format.                              *)
EXTENDS Hybi13

Frame(op, payload, fin) ==
  [op |-> op, payload |-> payload, fin |-> fin, rsv |-> 0, form |-> 0, proper |-> TRUE]

PING == 9

MCWhole == {
  Frame(TEXT, <<>>, TRUE), Frame(TEXT, <<65, 195, 169>>, TRUE), Frame(TEXT, <<65, 226>>, FALSE),
  Frame(CONTINUATION, <<130, 172, 66, 67, 68>>, TRUE), Frame(CONTINUATION, <<>>, FALSE),
  Frame(CONTINUATION, <<130>>, TRUE),
  Frame(PING, <<195>>, TRUE), Frame(CLOSE, <<>>, TRUE) }

MCBroken == {
  Frame(TEXT, <<65, 195>>, TRUE), Frame(PING, <<>>, FALSE), Frame(3, <<>>, TRUE),
  [Frame(TEXT, <<66>>, TRUE) EXCEPT !.rsv = 4], [Frame(TEXT, <<66>>, TRUE) EXCEPT !.proper = FALSE],
  [Frame(TEXT, <<66>>, TRUE) EXCEPT !.form = 126], [Frame(PING, <<66>>, TRUE) EXCEPT !.form = 127] }

Long(op, size, fin) == Frame(op, [i \in 1 .. size |-> 97], fin)

MCLong == {
  <<Long(TEXT, 125, TRUE)>>, <<Long(TEXT, 126, TRUE)>>, <<Long(TEXT, 131, TRUE)>>,
  <<Long(TEXT, 100, FALSE), Long(CONTINUATION, 31, TRUE)>>, <<Long(PING, 126, TRUE)>> }

MCSmall == UNION {[1 .. n -> MCWhole] : n \in 1 .. 3}
             \cup {s \o <<f>> : s \in {<<>>} \cup [1 .. 1 -> MCWhole], f \in MCBroken}

(* A text message in fragments whose last one ends within a code point.    *)
MCCut(s) == \E i \in DOMAIN s :
  s[i] = Frame(CONTINUATION, <<130>>, TRUE) /\ \E j \in 1 .. i - 1 : s[j].op = TEXT /\ ~s[j].fin

(* Some responses, and messages whose bytes look like the end of one.      *)
MCLines == {
  <<<<S>>>>, <<<<S>>, <<H>>, <<H>>>>, <<<<R>>, <<H>>>>, <<<<H>>>>, <<<<S>>, <<S>>>>, <<<<>>>>,
  <<<<S>>, [i \in 1 .. 61 |-> H]>> }
MCAfter == {
  <<>>, <<Frame(TEXT, <<13, 10, 13, 10>>, TRUE), Frame(TEXT, <<>>, TRUE)>> }

MCScripts ==
  [lines : {<<<<S>>>>}, frames : {s \in MCSmall : ~MCCut(s)} \cup MCLong]
    \cup [lines : MCLines, frames : MCAfter]

(* A continuation that, where a size_t has 256 values, wraps the sum.      *)
MCWrapScripts ==
  [lines : {<<<<S>>>>}, frames : {<<Long(TEXT, 100, FALSE), Long(CONTINUATION, 156, TRUE)>>}]

MCCutScripts == [lines : {<<<<S>>>>}, frames : {s \in MCSmall : MCCut(s)}]
=============================================================================
