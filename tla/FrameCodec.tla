----------------------------- MODULE FrameCodec -----------------------------
(***************************************************************************)
(* The incremental line decoder of src/frame-codec.js, through which every *)
(* ACP request and every provider event is read.  The pipe hands over the  *)
(* stream in chunks cut anywhere; push() scans a chunk part by part and    *)
(* keeps the unfinished line in one buffer of bounded capacity.            *)
(*                                                                         *)
(* Bytes: a whole character, the two halves of one, and the newline.       *)
(***************************************************************************)
EXTENDS Integers, Sequences, FiniteSets

CONSTANTS
  MaxLineBytes,      \* maxLineBytes
  FirstCapacity,     \* the 1024 bytes allocated at first
  StreamLimit,       \* bound: bytes of the stream
  ChunkLimit         \* bound: bytes of a chunk

ASSUME LimitsAssumption ==
  /\ MaxLineBytes \in Nat \ {0} /\ FirstCapacity \in Nat \ {0}
  /\ StreamLimit \in Nat /\ ChunkLimit \in Nat

Bytes == {"char", "lead", "trail", "nl"}

VARIABLES
  stream,    \* every byte received (history)
  chunk,     \* the part of the current chunk that push() has not scanned
  decoder,   \* storage, its capacity, overflow
  results,   \* what push() and finish() have returned
  ended      \* the stream has ended

vars == <<stream, chunk, decoder, results, ended>>

Smaller(m, n) == IF m < n THEN m ELSE n
Larger(m, n) == IF m < n THEN n ELSE m

Codes == {"line", "FRAME_TOO_LARGE", "FRAME_INVALID_UTF8", "FRAME_TRUNCATED"}

Line(bytes) == [code |-> "line", bytes |-> bytes]
Error(code) == [code |-> code, bytes |-> <<>>]

\* The fatal TextDecoder accepts the bytes.
WellFormed(bytes) ==
  /\ \A i \in DOMAIN bytes :
       bytes[i] = "lead" => i + 1 \in DOMAIN bytes /\ bytes[i + 1] = "trail"
  /\ \A i \in DOMAIN bytes :
       bytes[i] = "trail" => i - 1 \in DOMAIN bytes /\ bytes[i - 1] = "lead"

Decoded(bytes) == IF WellFormed(bytes) THEN Line(bytes) ELSE Error("FRAME_INVALID_UTF8")

-----------------------------------------------------------------------------
(***************************************************************************)
(* accumulate(part): the decoder and the results it pushes.                *)
(***************************************************************************)
\* A buffer that doubles past its limit
GrownUncapped(capacity, needed) ==
  IF needed > capacity THEN Larger(needed, 2 * capacity) ELSE capacity

Grown(capacity, needed) ==
  IF needed > capacity THEN Smaller(MaxLineBytes, Larger(needed, 2 * capacity)) ELSE capacity

Storing(held, overflow, capacity) ==
  [held |-> held, overflow |-> overflow, capacity |-> capacity]

Accumulated(d, part) ==
  LET needed == Len(d.held) + Len(part)
  IN  IF d.overflow \/ part = <<>> THEN d
      ELSE IF needed > MaxLineBytes THEN Storing(<<>>, TRUE, d.capacity)
      ELSE Storing(d.held \o part, FALSE, Grown(d.capacity, needed))

Overflows(d, part) == ~d.overflow /\ Accumulated(d, part).overflow

Reported(d, part) == IF Overflows(d, part) THEN <<Error("FRAME_TOO_LARGE")>> ELSE <<>>

\* A decoder that takes the rest of a line that was too long for the next line
ClearedHeldOnly(d) == [d EXCEPT !.held = <<>>]

Cleared(d) == Storing(<<>>, FALSE, d.capacity)

-----------------------------------------------------------------------------
Newlines == {i \in DOMAIN chunk : chunk[i] = "nl"}

\* A data event: the next chunk of the stream
Receive ==
  /\ ~ended /\ chunk = <<>>
  /\ \E n \in 1..ChunkLimit : \E bytes \in [1..n -> Bytes] :
       /\ Len(stream) + n <= StreamLimit
       /\ stream' = stream \o bytes
       /\ chunk' = bytes
  /\ UNCHANGED <<decoder, results, ended>>

\* One turn of the loop of push(): the part up to the next newline ends a line.
PushLine ==
  /\ \E newline \in Newlines :
       /\ \A j \in Newlines : newline <= j
       /\ LET part == SubSeq(chunk, 1, newline - 1)
              full == Accumulated(decoder, part)
          IN /\ chunk' = SubSeq(chunk, newline + 1, Len(chunk))
             /\ decoder' = Cleared(full)
             /\ results' = results \o Reported(decoder, part) \o
                             (IF full.overflow THEN <<>> ELSE <<Decoded(full.held)>>)
  /\ UNCHANGED <<stream, ended>>

\* The last turn: no newline is left in the chunk.
PushRest ==
  /\ chunk # <<>> /\ Newlines = {}
  /\ chunk' = <<>>
  /\ decoder' = Accumulated(decoder, chunk)
  /\ results' = results \o Reported(decoder, chunk)
  /\ UNCHANGED <<stream, ended>>

\* finish(), at the end of the stream
Finish ==
  /\ ~ended /\ chunk = <<>>
  /\ ended' = TRUE
  /\ decoder' = Cleared(decoder)
  /\ results' = results \o
       (IF decoder.held = <<>> \/ decoder.overflow THEN <<>>
        ELSE IF WellFormed(decoder.held) THEN <<Error("FRAME_TRUNCATED")>>
        ELSE <<Error("FRAME_INVALID_UTF8")>>)
  /\ UNCHANGED <<stream, chunk>>

Init ==
  /\ stream = <<>> /\ chunk = <<>> /\ results = <<>> /\ ended = FALSE
  /\ decoder = Storing(<<>>, FALSE, Smaller(FirstCapacity, MaxLineBytes))

Next == Receive \/ PushLine \/ PushRest \/ Finish

Spec == Init /\ [][Next]_vars

-----------------------------------------------------------------------------
(***************************************************************************)
(* Types.  The buffer holds no newline and never more than MaxLineBytes.   *)
(***************************************************************************)
TypeOK ==
  /\ stream \in Seq(Bytes) /\ chunk \in Seq(Bytes) /\ ended \in BOOLEAN
  /\ decoder \in [held : Seq(Bytes \ {"nl"}), overflow : BOOLEAN, capacity : 1..MaxLineBytes]
  /\ Len(decoder.held) <= decoder.capacity
  /\ results \in Seq([code : Codes, bytes : Seq(Bytes \ {"nl"})])

(***************************************************************************)
(* Reference: what the bytes mean, whatever chunks they come in.  Lines    *)
(* are what newlines end; the rest of the bytes is the unfinished line.    *)
(***************************************************************************)
LineEnds(bytes) == {i \in DOMAIN bytes : bytes[i] = "nl"}

\* The k-th line of the bytes, where end(k) is the position of its newline
LineAt(bytes, i) ==
  LET before == {j \in LineEnds(bytes) : j < i}
      start == CHOOSE j \in before \cup {0} : \A l \in before : l <= j
  IN SubSeq(bytes, start + 1, i - 1)

Meaning(line) ==
  IF Len(line) > MaxLineBytes THEN Error("FRAME_TOO_LARGE") ELSE Decoded(line)

LineResults(bytes) ==
  LET end == [k \in 1..Cardinality(LineEnds(bytes)) |->
                CHOOSE i \in LineEnds(bytes) :
                  Cardinality({j \in LineEnds(bytes) : j <= i}) = k]
  IN [k \in DOMAIN end |-> Meaning(LineAt(bytes, end[k]))]

TailResults(line, final) ==
  IF Len(line) > MaxLineBytes THEN <<Error("FRAME_TOO_LARGE")>>
  ELSE IF ~final \/ line = <<>> THEN <<>>
  ELSE IF WellFormed(line) THEN <<Error("FRAME_TRUNCATED")>>
  ELSE <<Error("FRAME_INVALID_UTF8")>>

Reference(bytes, final) ==
  LineResults(bytes) \o TailResults(LineAt(bytes, Len(bytes) + 1), final)

(***************************************************************************)
(* However the stream is cut into chunks, the results are those of its     *)
(* lines, one for each and in their order: a line that is too long gives   *)
(* one error, at once, and takes nothing from the line after it; a         *)
(* character cut by a chunk is whole again; and the end of the stream      *)
(* reports an unfinished line unless it was reported already.              *)
(***************************************************************************)
FramesAreExact ==
  results = Reference(SubSeq(stream, 1, Len(stream) - Len(chunk)), ended)
=============================================================================
