------------------------------ MODULE TlvParser ------------------------------
(****************************************************************************)
(* The parser of the frames a gateway and a node exchange                   *)
(* (src/common/core/io/tlv_parser.cc).  A frame is one type byte, LenBytes  *)
(* bytes of length and that many bytes of value.  The connection reads      *)
(* whatever the socket has into the span GetReadBuffer returns and calls    *)
(* OnData, which turns the bytes into frames.                               *)
(*                                                                          *)
(* A byte is represented by its position in the stream: a cell of the       *)
(* buffer holds the position of the byte stored there, so a byte that is    *)
(* lost, overwritten or read from the wrong cell shows in what is           *)
(* delivered.  A length field decodes to a frame's length exactly when its  *)
(* cells hold the bytes of that frame's length field.                       *)
(****************************************************************************)
EXTENDS Integers, Sequences, SequencesExt, FiniteSetsExt

CONSTANTS
  BufferSize,   \* kBufferSize
  LenBytes,     \* sizeof(frame_.length_)
  Streams       \* the streams considered: sequences of value lengths

ASSUME SizesAssumption ==
  /\ LenBytes \in Nat \ {0}
  /\ BufferSize \in Nat /\ BufferSize > LenBytes + 1
  /\ Streams \subseteq Seq(Nat)

VARIABLES
  lens,         \* the stream: lens[i] is the value length of frame i
  asserts,      \* whether the build keeps assert()
  read,         \* bytes the kernel has copied out of the stream
  state_, frame_, buffer_, cursor_, bytes_not_parsed_, accumulated_value_,
  parsing,      \* inside OnData's loop
  delivered,    \* what on_message_ was called with
  aborted       \* an assert() failed

stream == <<lens, asserts>>
parser == <<state_, frame_, buffer_, cursor_, bytes_not_parsed_, accumulated_value_>>
vars == <<lens, asserts, read, parser, parsing, delivered, aborted>>

-----------------------------------------------------------------------------
(* The stream. *)

FrameSize(n) == 1 + LenBytes + n

\* The position of the type byte of frame i; the first byte is at 1.
Start(i) == 1 + FoldLeft(LAMBDA s, n : s + FrameSize(n), 0, SubSeq(lens, 1, i - 1))

Total == Start(Len(lens) + 1) - 1

\* What the peer sent as frame i.
Sent(i) == [type  |-> Start(i),
            value |-> [j \in 1..lens[i] |-> Start(i) + LenBytes + j]]

Cells == 0..(BufferSize - 1)

\* n cells of the buffer from c on, as a span over buffer_ shows them.
Span(c, n) == [j \in 1..n |-> buffer_[c + j - 1]]

\* ntohl over the cells from c on; Garbage when they are not a length field.
Garbage == -1
Decode(c) ==
  LET owner == {i \in DOMAIN lens : Span(c, LenBytes) = [j \in 1..LenBytes |-> Start(i) + j]}
  IN  IF owner = {} THEN Garbage ELSE lens[CHOOSE i \in owner : TRUE]

-----------------------------------------------------------------------------
Init ==
  /\ lens \in Streams
  /\ asserts \in BOOLEAN
  /\ read = 0
  /\ state_ = "empty"
  /\ frame_ = [type |-> 0, length |-> 0]
  /\ buffer_ = [c \in Cells |-> 0]
  /\ cursor_ = 0
  /\ bytes_not_parsed_ = 0
  /\ accumulated_value_ = <<>>
  /\ parsing = FALSE
  /\ delivered = <<>>
  /\ aborted = FALSE

\* GetReadBuffer: a cursor at the end of the buffer wraps, then the bytes kept
\* unparsed are skipped in the states that keep some.
WrappedCursor == IF cursor_ = BufferSize THEN 0 ELSE cursor_

ReadFrom ==
  IF state_ \in {"type_read", "length_read"} THEN WrappedCursor + bytes_not_parsed_
                                             ELSE WrappedCursor

\* The kernel fills k bytes of the span and OnData is called with k.
Read(k) ==
  /\ ~parsing /\ ~aborted
  /\ k <= BufferSize - ReadFrom /\ read + k <= Total
  /\ buffer_' = [c \in Cells |-> IF c \in ReadFrom..(ReadFrom + k - 1)
                                   THEN read + 1 + c - ReadFrom ELSE buffer_[c]]
  /\ cursor_' = WrappedCursor
  /\ bytes_not_parsed_' = bytes_not_parsed_ + k
  /\ read' = read + k
  /\ parsing' = TRUE
  /\ UNCHANGED <<stream, state_, frame_, accumulated_value_, delivered, aborted>>

-----------------------------------------------------------------------------
(* OnData: iterateThroughReadBuffer until it asks for more data or no byte  *)
(* is left.  Each case of its switch is an action.                          *)

Take(n) ==
  /\ cursor_' = cursor_ + n
  /\ bytes_not_parsed_' = bytes_not_parsed_ - n
  /\ parsing' = (bytes_not_parsed_ - n > 0)

\* setState(empty): the frame goes to on_message_.
Deliver(value) ==
  /\ state_' = "empty"
  /\ delivered' = Append(delivered, [type |-> frame_.type, value |-> value])

TypeByte ==
  /\ parsing /\ state_ = "empty"
  /\ frame_' = [frame_ EXCEPT !.type = buffer_[cursor_]]
  /\ state_' = "type_read"
  /\ Take(1)
  /\ UNCHANGED <<stream, read, buffer_, accumulated_value_, delivered, aborted>>

\* The length field may not fit behind the cursor: the bytes there are moved
\* to the front of the buffer.
AtBufferEnd == cursor_ + LenBytes >= BufferSize

\* Faulty: the cursor moves to the front, the bytes do not.
NotMoved == buffer_

MovedToFront ==
  [c \in Cells |-> IF c < bytes_not_parsed_ THEN buffer_[cursor_ + c] ELSE buffer_[c]]

Compact ==
  /\ parsing /\ state_ = "type_read" /\ AtBufferEnd
  /\ asserts => bytes_not_parsed_ < LenBytes
  /\ buffer_' = MovedToFront
  /\ cursor_' = 0
  /\ parsing' = FALSE
  /\ UNCHANGED <<stream, read, state_, frame_, bytes_not_parsed_, accumulated_value_,
                 delivered, aborted>>

\* assert(bytes_not_parsed_ < sizeof(frame_.length_)) fails.
CompactAborts ==
  /\ parsing /\ state_ = "type_read" /\ AtBufferEnd
  /\ asserts /\ bytes_not_parsed_ >= LenBytes
  /\ aborted' = TRUE
  /\ parsing' = FALSE
  /\ UNCHANGED <<stream, read, parser, delivered>>

\* Faulty: a length field with nothing behind it counts as incomplete.
LengthCompleteOffByOne == bytes_not_parsed_ > LenBytes

LengthComplete == bytes_not_parsed_ >= LenBytes

LengthField ==
  /\ parsing /\ state_ = "type_read" /\ ~AtBufferEnd
  /\ LengthComplete
  /\ frame_' = [frame_ EXCEPT !.length = Decode(cursor_)]
  /\ Take(LenBytes)
  /\ IF frame_'.length = 0 THEN Deliver(<<>>)
                           ELSE state_' = "length_read" /\ UNCHANGED delivered
  /\ UNCHANGED <<stream, read, buffer_, accumulated_value_, aborted>>

WholeValue ==
  /\ parsing /\ state_ = "length_read"
  /\ bytes_not_parsed_ >= frame_.length
  /\ Deliver(Span(cursor_, frame_.length))
  /\ Take(frame_.length)
  /\ UNCHANGED <<stream, read, frame_, buffer_, accumulated_value_, aborted>>

\* The value will end before the end of the buffer (or the length field is not
\* complete): the bytes stay where they are.
FitsInBuffer == cursor_ + frame_.length < BufferSize

NeedMoreData ==
  /\ parsing
  /\ \/ state_ = "type_read" /\ ~AtBufferEnd /\ ~LengthComplete
     \/ state_ = "length_read" /\ bytes_not_parsed_ < frame_.length /\ FitsInBuffer
  /\ parsing' = FALSE
  /\ UNCHANGED <<stream, read, parser, delivered, aborted>>

\* The value will not end before the end of the buffer: it is accumulated.
StartAccumulating ==
  /\ parsing /\ state_ = "length_read"
  /\ bytes_not_parsed_ < frame_.length /\ ~FitsInBuffer
  /\ accumulated_value_' = Span(cursor_, bytes_not_parsed_)
  /\ state_' = "value_partially_copied"
  /\ Take(bytes_not_parsed_)
  /\ UNCHANGED <<stream, read, frame_, buffer_, delivered, aborted>>

\* The bytes the accumulated value still lacks.
Missing == frame_.length - Len(accumulated_value_)

FinishAccumulating ==
  /\ parsing /\ state_ = "value_partially_copied"
  /\ Len(accumulated_value_) + bytes_not_parsed_ >= frame_.length
  /\ Deliver(accumulated_value_ \o Span(cursor_, Missing))
  /\ accumulated_value_' = <<>>
  /\ Take(Missing)
  /\ UNCHANGED <<stream, read, frame_, buffer_, aborted>>

Accumulate ==
  /\ parsing /\ state_ = "value_partially_copied"
  /\ Len(accumulated_value_) + bytes_not_parsed_ < frame_.length
  /\ accumulated_value_' = accumulated_value_ \o Span(cursor_, bytes_not_parsed_)
  /\ Take(bytes_not_parsed_)
  /\ UNCHANGED <<stream, read, state_, frame_, buffer_, delivered, aborted>>

Next ==
  \/ \E k \in 1..BufferSize : Read(k)
  \/ TypeByte \/ Compact \/ CompactAborts \/ LengthField \/ WholeValue
  \/ NeedMoreData \/ StartAccumulating \/ FinishAccumulating \/ Accumulate

Spec == Init /\ [][Next]_vars

-----------------------------------------------------------------------------
(* Properties. *)

\* The frames handed to the handler are the frames the peer sent, whole, in
\* order and none twice, however the socket cuts the stream: OnData delivers
\* exactly the bytes of each frame from buffer_ or accumulated_value_.
FramesIntact ==
  /\ Len(delivered) <= Len(lens)
  /\ \A i \in DOMAIN delivered : delivered[i] = Sent(i)

\* When every byte of the stream has been read and OnData has returned, every
\* frame has been delivered: none waits for bytes that never come.  A build
\* without assert() may still hold a frame of length 0 whose length field ended
\* exactly at the end of the buffer.  Until then GetReadBuffer never returns an
\* empty span: a read of no bytes would return 0, which the connection takes for
\* the end of the stream.
NothingHeldBack ==
  ~parsing /\ ~aborted =>
    /\ ReadFrom < BufferSize
    /\ read = Total => \/ Len(delivered) = Len(lens)
                       \/ /\ ~asserts
                          /\ Len(delivered) = Len(lens) - 1 /\ Last(lens) = 0
                          /\ state_ = "type_read" /\ bytes_not_parsed_ = LenBytes
=============================================================================
