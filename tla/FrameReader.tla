----------------------------- MODULE FrameReader -----------------------------
(***************************************************************************)
(* Reassembly of frames from a byte stream that arrives in arbitrary       *)
(* pieces: FrameReader.ReadFrame with the read loop of the Go server       *)
(* (server/webbou/protocol.go, server.go) and FrameReader::read_frame with *)
(* recv of the Rust client (client/src/webbou/protocol.rs, client.rs), fed *)
(* the same stream independently of each other while it is written.        *)
(*                                                                         *)
(* A byte is known by the frame it belongs to and its offset in it.  What  *)
(* the readers look at is the magic byte, the length field and, once the   *)
(* frame is there, version and checksum; kind says which of them is bad.   *)
(***************************************************************************)
EXTENDS Integers, Sequences

CONSTANTS
  HeaderSize,  \* 16 in the code
  MaxLength,   \* maxLength / max_length, where 0 is no limit
  Frames,      \* the frames that may be sent
  MaxFrames    \* bound on the frames sent

Kinds == {"ok", "magic", "version", "checksum"}

ASSUME ReaderAssumption ==
  /\ HeaderSize \in Nat \ {0} /\ MaxLength \in Nat /\ MaxFrames \in Nat
  /\ Frames \subseteq [kind : Kinds, len : Nat]

VARIABLES
  sent, wire,        \* the frames sent and the bytes of them
  start,             \* History: where each frame starts on the wire, and the wire's end
  goPos, rsPos,      \* bytes of the wire read so far by each end
  goBuf, rsBuf,      \* fr.buffer, self.buffer
  goOut, rsOut,      \* frames handed on, as positions in sent
  goMode             \* "read": in conn.Read, "parse": in the inner loop; after the
                     \* handler ended, "closed" by an error of ReadFrame or "gone"

stream == <<sent, wire, start>>
goVars == <<goPos, goBuf, goOut, goMode>>
rsVars == <<rsPos, rsBuf, rsOut>>
readerVars == <<stream, goVars, rsVars>>

ReaderInit ==
  /\ sent = <<>> /\ wire = <<>> /\ start = <<0>>
  /\ goPos = 0 /\ goBuf = <<>> /\ goOut = <<>> /\ goMode = "read"
  /\ rsPos = 0 /\ rsBuf = <<>> /\ rsOut = <<>>

-----------------------------------------------------------------------------
\* Marshal: a header, then the payload, here of the n-th frame.
Size(f) == HeaderSize + f.len
Marshal(n, f) == [i \in 1..Size(f) |-> [frame |-> n, offset |-> i - 1]]

\* The peer writes a frame.
Write(f) ==
  /\ Len(sent) < MaxFrames
  /\ sent' = Append(sent, f)
  /\ wire' = wire \o Marshal(Len(sent) + 1, f)
  /\ start' = Append(start, Len(wire) + Size(f))
  /\ UNCHANGED <<goVars, rsVars>>

Chunk(pos, n) == SubSeq(wire, pos + 1, pos + n)

-----------------------------------------------------------------------------
\* The fields of the header at the front of a buffer.  Off a frame boundary
\* there is no magic byte and the length is whatever the bytes say: 0, say.
Aligned(buf) == buf[1].offset = 0
Front(buf) == sent[buf[1].frame]
MagicOk(buf) == Aligned(buf) /\ Front(buf).kind # "magic"
Length(buf) == IF Aligned(buf) THEN Front(buf).len ELSE 0
TooLarge(length) == MaxLength > 0 /\ length > MaxLength

\* UnmarshalFrame / Frame::unmarshal on the bytes of one frame.
Validate(data) ==
  /\ Aligned(data) /\ data = Marshal(data[1].frame, Front(data))
  /\ Front(data).kind = "ok"

Rest(buf, n) == SubSeq(buf, n + 1, Len(buf))

\* Go: ReadFrame.  An error leaves the buffer as it is.
EagerReadFrame(buf) ==
  IF Len(buf) < HeaderSize THEN [result |-> "none", rest |-> buf]
  ELSE [result |-> "frame", rest |-> Rest(buf, HeaderSize + Length(buf))]

ReadFrame(buf) == LET totalSize == HeaderSize + Length(buf) IN
  IF Len(buf) < HeaderSize THEN [result |-> "none", rest |-> buf]
  ELSE IF TooLarge(Length(buf)) THEN [result |-> "error", rest |-> buf]
  ELSE IF Len(buf) < totalSize THEN [result |-> "none", rest |-> buf]
  ELSE IF ~Validate(SubSeq(buf, 1, totalSize)) THEN [result |-> "error", rest |-> buf]
  ELSE [result |-> "frame", rest |-> Rest(buf, totalSize)]

\* Rust: read_frame.  The frame is drained before it is checked.
LateReadFrame(buf) == LET frameLen == HeaderSize + Length(buf) IN
  IF Len(buf) < HeaderSize THEN [result |-> "none", rest |-> buf]
  ELSE IF ~MagicOk(buf) THEN [result |-> "error", rest |-> Rest(buf, 1)]
  ELSE IF TooLarge(Length(buf)) THEN [result |-> "error", rest |-> Rest(buf, HeaderSize)]
  ELSE IF Len(buf) < frameLen THEN [result |-> "none", rest |-> buf]
  ELSE [result |-> IF Validate(SubSeq(buf, 1, frameLen)) THEN "frame" ELSE "error",
        rest |-> Rest(buf, frameLen)]

read_frame(buf) == LET frameLen == HeaderSize + Length(buf) IN
  IF Len(buf) < HeaderSize THEN [result |-> "none", rest |-> buf]
  ELSE IF ~MagicOk(buf) \/ TooLarge(Length(buf)) THEN [result |-> "error", rest |-> buf]
  ELSE IF Len(buf) < frameLen THEN [result |-> "none", rest |-> buf]
  ELSE [result |-> IF Validate(SubSeq(buf, 1, frameLen)) THEN "frame" ELSE "error",
        rest |-> Rest(buf, frameLen)]

-----------------------------------------------------------------------------
\* conn.Read and Feed in the handler's outer loop.
ConnRead(n) ==
  /\ goMode = "read" /\ goPos + n <= Len(wire)
  /\ goBuf' = goBuf \o Chunk(goPos, n)
  /\ goPos' = goPos + n
  /\ goMode' = "parse"
  /\ UNCHANGED <<stream, goOut, rsVars>>

\* conn.Read fails: the peer is gone, or the read deadline has passed.
ReadFails ==
  /\ goMode = "read"
  /\ goMode' = "gone"
  /\ UNCHANGED <<stream, goPos, goBuf, goOut, rsVars>>

\* nil goes back to conn.Read, an error ends the handler.
Spinning_Mode(result) == IF result = "error" THEN "closed" ELSE "parse"

Mode(result) ==
  IF result = "frame" THEN "parse" ELSE IF result = "none" THEN "read" ELSE "closed"

\* One turn of the inner loop; the frame goes on to the rate limiter and, if
\* that agrees, to handleFrame.
InnerLoop == LET r == ReadFrame(goBuf) IN
  /\ goMode = "parse"
  /\ goBuf' = r.rest
  /\ goOut' = IF r.result = "frame" THEN Append(goOut, goBuf[1].frame) ELSE goOut
  /\ goMode' = Mode(r.result)
  /\ UNCHANGED <<stream, goPos, rsVars>>

\* One call of recv: read, feed, one read_frame.  The caller may go on after
\* an error.
Recv(n) == LET fed == rsBuf \o Chunk(rsPos, n) r == read_frame(fed) IN
  /\ rsPos + n <= Len(wire)
  /\ rsPos' = rsPos + n
  /\ rsBuf' = r.rest
  /\ rsOut' = IF r.result = "frame" THEN Append(rsOut, fed[1].frame) ELSE rsOut
  /\ UNCHANGED <<stream, goVars>>

ReaderNext ==
  \/ \E f \in Frames : Write(f)
  \/ \E n \in 1..Len(wire) : ConnRead(n) \/ Recv(n)
  \/ ReadFails \/ InnerLoop

\* While there are bytes to read, conn.Read returns: some of them, or an error.
Read ==
  /\ goPos < Len(wire)
  /\ ReadFails \/ \E n \in 1..Len(wire) : ConnRead(n)

\* Reads return, and the server handles what it has read.
ReaderSpec ==
  /\ ReaderInit /\ [][ReaderNext]_readerVars
  /\ WF_readerVars(Read) /\ WF_readerVars(InnerLoop)

-----------------------------------------------------------------------------
Good(n) == sent[n].kind = "ok" /\ ~TooLarge(sent[n].len)

\* Types of both readers, for the proofs.
ReaderTypeOK ==
  /\ goPos \in 0..Len(wire) /\ rsPos \in 0..Len(wire)
  /\ goOut \in Seq(1..Len(sent)) /\ rsOut \in Seq(1..Len(sent))
  /\ goMode \in {"read", "parse", "closed", "gone"}

\* However the stream is cut into reads, the server handles exactly its frames
\* in order up to the first bad one: the buffer is what was read and not yet
\* handled, the server waits in Read, or ends because Read fails, only when the
\* next frame is incomplete, and gives up only at a bad frame.
ServerReassembles == LET m == Len(goOut) IN
  /\ goOut = [i \in 1..m |-> i] /\ \A i \in 1..m : Good(i)
  /\ goBuf = SubSeq(wire, start[m + 1] + 1, goPos)
  /\ goMode \in {"read", "gone"} /\ m < Len(sent) => goPos < start[m + 2]
  /\ goMode = "closed" => m < Len(sent) /\ ~Good(m + 1)

\* However the stream is cut, the client's buffer starts at a frame boundary,
\* and recv returns the good frames in front of it, in order and all of them;
\* it gets past a bad version or checksum, never past a bad magic byte or
\* length.
ClientReassembles == \E m \in 0..Len(sent) :
  /\ rsBuf = SubSeq(wire, start[m + 1] + 1, rsPos) /\ rsPos >= start[m + 1]
  /\ \A i, j \in 1..Len(rsOut) : i < j => rsOut[i] < rsOut[j]
  /\ {rsOut[i] : i \in 1..Len(rsOut)} = {i \in 1..m : Good(i)}
  /\ \A i \in 1..m : sent[i].kind # "magic" /\ ~TooLarge(sent[i].len)

\* The server handles every frame once it was written, unless a bad frame in
\* front of it or a failing Read ends the handler; and every frame once its last
\* byte was read, also when the very next Read fails.
ServerCatchesUp == \A n \in 1..MaxFrames :
  /\ Len(sent) >= n ~> Len(goOut) >= n \/ goMode \in {"closed", "gone"}
  /\ Len(sent) >= n /\ goPos >= start[n + 1] ~> Len(goOut) >= n \/ goMode = "closed"

=============================================================================
