----------------------------- MODULE MCConnRead -----------------------------
(* Instances of ConnRead for TLC: frames of up to three bytes.             *)
EXTENDS ConnRead

Frame(op, fin, n) ==
  [op |-> op, fin |-> fin, n |-> n, rsv |-> FALSE, masked |-> TRUE, good |-> TRUE]

DataOps == {"continuation", "text", "binary"}

(* What a client that counts its bytes sends.                              *)
DataFrames == {Frame(op, fin, n) : op \in DataOps, fin \in BOOLEAN, n \in 0..2}
ControlFrames == {Frame(op, TRUE, n) : op \in {"ping", "pong"}, n \in {0, 2}}
                   \cup {Frame("close", TRUE, 0), Frame("close", TRUE, 2)}
Polite == DataFrames \cup ControlFrames

(* What the others may send as well.                                       *)
Rude == {Frame("invalid", TRUE, 0), Frame("text", TRUE, 4), Frame("ping", FALSE, 0),
         Frame("ping", TRUE, 3), Frame("close", TRUE, 1), Frame("continuation", TRUE, 3),
         [Frame("text", TRUE, 1) EXCEPT !.rsv = TRUE],
         [Frame("text", TRUE, 1) EXCEPT !.masked = FALSE],
         [Frame("close", TRUE, 2) EXCEPT !.good = FALSE],
         [Frame("pong", TRUE, 2) EXCEPT !.good = FALSE]}
AllFrames == Polite \cup Rude

Whole == {"NextReader", "ReadMessage", "ReadString", "ReadBinary"}

Setting(calls, habits) ==
  [calls |-> calls, habits |-> habits, skipUTF8 |-> FALSE, limited |-> TRUE, buffer |-> 2]

(* Everything fails; nothing does; an application that does not take a     *)
(* fatal error for the end; and one that leaves messages unread, with a    *)
(* read buffer shorter than a control frame may be.                        *)
Connections ==
  {Setting(Whole, {"pings", "fails", "closes"}),
   [Setting(Whole, {"pings"}) EXCEPT !.skipUTF8 = TRUE],
   Setting({"ReadMessage"}, {"insists"}),
   [Setting({"NextReader", "ReadJSON"}, {"abandon"}) EXCEPT !.limited = FALSE, !.buffer = 1]}
=============================================================================
