----------------------------- MODULE EchoFrames ------------------------------
(***************************************************************************)
(* Frames on the wire between the client of client/src/webbou/client.rs    *)
(* and the echo handler of server/webbou/server.go.  A frame travels as    *)
(* two cells, so that reads and writes may split it and reads may return   *)
(* parts of several frames at once.                                        *)
(***************************************************************************)
EXTENDS Integers, Sequences

Frame(type, data, key) == [type |-> type, data |-> data, key |-> key]
Cells(f) == <<<<f, 1>>, <<f, 2>>>>
NoFrame == Frame("none", 0, "none")

\* The frames that the client and the server send, and their cells.
ClientFrame == [type : {"HELLO", "DATA", "PING", "CLOSE"}, data : Nat,
                key : {"none", "client", "lz4"}]
ServerFrame == [type : {"HELLO_ACK", "DATA", "PONG"}, data : Nat, key : {"none"}]
ClientCell == ClientFrame \X {1, 2}
ServerCell == ServerFrame \X {1, 2}

\* FrameReader::read_frame on a buffer: the first frame, if it is complete.
Complete(buf) == Len(buf) >= 2
First(buf) == buf[1][1]
Sticky_Drained(buf) == buf

Drained(buf) == SubSeq(buf, 3, Len(buf))

-----------------------------------------------------------------------------
\* A run of whole frames, the last one possibly cut short.
Framed(s) == \A i \in 1..Len(s) :
  IF i % 2 = 1 THEN s[i][2] = 1 ELSE i > 1 /\ s[i] = <<s[i - 1][1], 2>>

\* p has its payloads (0 is none) from w, in the order of w.
Echoes(p, w) ==
  /\ \A i \in 1..Len(p) : p[i] # 0 => \E k \in 1..Len(w) : w[k] = p[i]
  /\ \A i, j \in 1..Len(p) : i < j /\ p[i] # 0 /\ p[j] # 0 =>
       \E k, l \in 1..Len(w) : k < l /\ w[k] = p[i] /\ w[l] = p[j]

=============================================================================
