-------------------------- MODULE FrameCodecProofs --------------------------
(***************************************************************************)
(* Type correctness of the line decoder, and with it the bound on what it  *)
(* retains; and exactness: its results are those of the stream's lines.    *)
(* For every limit, every stream and every way of cutting it into chunks.  *)
(***************************************************************************)
EXTENDS FrameCodec, SequenceTheorems, FiniteSetTheorems, NaturalsInduction,
        WellFoundedInduction, TLAPS

Text == Bytes \ {"nl"}
DecoderType ==
  [held : Seq(Text), overflow : BOOLEAN, capacity : 1..MaxLineBytes]
Result == [code : Codes, bytes : Seq(Text)]

(***************************************************************************)
(* A part of a line leaves the decoder well typed and within its capacity  *)
(* (accumulate never retains more than MaxLineBytes).                      *)
(***************************************************************************)
LEMMA AccumulateIsBounded ==
  ASSUME NEW d \in DecoderType, NEW part \in Seq(Text), Len(d.held) <= d.capacity
  PROVE  /\ Accumulated(d, part) \in DecoderType
         /\ Len(Accumulated(d, part).held) <= Accumulated(d, part).capacity
<1> DEFINE needed == Len(d.held) + Len(part)
<1>1. needed \in Nat /\ d.held \o part \in Seq(Text) /\ Len(d.held \o part) = needed
  BY DEF DecoderType
<1>2. CASE d.overflow \/ part = <<>>
  BY <1>2 DEF Accumulated
<1>3. CASE ~(d.overflow \/ part = <<>>) /\ needed > MaxLineBytes
  <2>1. Accumulated(d, part) = Storing(<<>>, TRUE, d.capacity)
    BY <1>3 DEF Accumulated
  <2> QED BY <2>1 DEF DecoderType, Storing
<1>4. CASE ~(d.overflow \/ part = <<>>) /\ ~(needed > MaxLineBytes)
  <2> DEFINE capacity == Grown(d.capacity, needed)
  <2>1. Accumulated(d, part) = Storing(d.held \o part, FALSE, capacity)
    BY <1>4 DEF Accumulated
  <2>2. capacity \in 1..MaxLineBytes /\ needed <= capacity
    BY <1>1, <1>4, LimitsAssumption DEF Grown, Smaller, Larger, DecoderType
  <2> QED BY <1>1, <2>1, <2>2 DEF DecoderType, Storing
<1> QED BY <1>2, <1>3, <1>4

(***************************************************************************)
(* What push() and finish() report has the type of a result.               *)
(***************************************************************************)
LEMMA ErrorIsResult == \A code \in Codes : Error(code) \in Result
BY DEF Error, Result

LEMMA DecodedIsResult ==
  ASSUME NEW bytes \in Seq(Text)
  PROVE  Decoded(bytes) \in Result
<1>1. CASE WellFormed(bytes)
  BY <1>1 DEF Decoded, Line, Result, Codes
<1>2. CASE ~WellFormed(bytes)
  BY <1>2, ErrorIsResult DEF Decoded, Codes
<1> QED BY <1>1, <1>2

LEMMA ReportIsResults ==
  ASSUME NEW d, NEW part
  PROVE  Reported(d, part) \in Seq(Result)
<1>1. Error("FRAME_TOO_LARGE") \in Result
  BY ErrorIsResult DEF Codes
<1>2. <<Error("FRAME_TOO_LARGE")>> \in Seq(Result)
  BY <1>1
<1> QED BY <1>2 DEF Reported

(***************************************************************************)
(* Type correctness for all limits: in particular the buffer never grows   *)
(* past MaxLineBytes and holds the unfinished line only.                   *)
(***************************************************************************)
THEOREM DecoderIsBounded == Spec => []TypeOK
<1> DEFINE Typed == /\ stream \in Seq(Bytes) /\ chunk \in Seq(Bytes) /\ ended \in BOOLEAN
                    /\ decoder \in DecoderType /\ Len(decoder.held) <= decoder.capacity
                    /\ results \in Seq(Result)
<1>0. TypeOK <=> Typed
  BY DEF TypeOK, DecoderType, Result, Text
<1>p. TypeOK' <=> Typed'
  BY DEF TypeOK, DecoderType, Result, Text
<1>1. Init => TypeOK
  <2> SUFFICES ASSUME Init PROVE TypeOK
    OBVIOUS
  <2>1. Smaller(FirstCapacity, MaxLineBytes) \in 1..MaxLineBytes
    BY LimitsAssumption DEF Smaller
  <2>2. decoder \in DecoderType /\ Len(decoder.held) <= decoder.capacity
    BY <2>1 DEF Init, Storing, DecoderType
  <2>3. stream \in Seq(Bytes) /\ chunk \in Seq(Bytes) /\ ended \in BOOLEAN /\ results \in Seq(Result)
    <3>1. <<>> \in Seq(Bytes) /\ <<>> \in Seq(Result)
      BY EmptySeq
    <3> QED BY <3>1 DEF Init
  <2> QED BY <1>0, <2>2, <2>3
<1>2. TypeOK /\ [Next]_vars => TypeOK'
  <2> SUFFICES ASSUME TypeOK, [Next]_vars PROVE TypeOK'
    OBVIOUS
  <2>0. decoder \in DecoderType /\ Len(decoder.held) <= decoder.capacity
    BY <1>0
  <2>1. CASE Receive
    <3>1. PICK n \in 1..ChunkLimit : \E bytes \in [1..n -> Bytes] :
            stream' = stream \o bytes /\ chunk' = bytes
      BY <2>1 DEF Receive
    <3>2. PICK bytes \in [1..n -> Bytes] : stream' = stream \o bytes /\ chunk' = bytes
      BY <3>1
    <3>3. bytes \in Seq(Bytes)
      BY <3>1, LimitsAssumption
    <3> QED BY <2>1, <3>2, <3>3 DEF TypeOK, Receive
  <2>2. CASE PushLine
    <3>1. PICK newline \in Newlines :
            /\ \A j \in Newlines : newline <= j
            /\ chunk' = SubSeq(chunk, newline + 1, Len(chunk))
            /\ LET part == SubSeq(chunk, 1, newline - 1)
                   full == Accumulated(decoder, part)
               IN /\ decoder' = Cleared(full)
                  /\ results' = results \o Reported(decoder, part) \o
                                  (IF full.overflow THEN <<>> ELSE <<Decoded(full.held)>>)
      BY <2>2 DEF PushLine
    <3> DEFINE part == SubSeq(chunk, 1, newline - 1)
               full == Accumulated(decoder, part)
    <3>2. newline \in 1..Len(chunk) /\ chunk \in Seq(Bytes)
      BY DEF Newlines, TypeOK
    <3>3. part \in Seq(Text)
      <4>1. part \in Seq(Bytes) /\ Len(part) = newline - 1
        BY <3>2
      <4>2. \A i \in 1..Len(part) : part[i] \in Text
        BY <3>1, <3>2, <4>1 DEF Newlines, Text
      <4> QED BY <4>1, <4>2, IsASeq
    <3>4. full \in DecoderType /\ Len(full.held) <= full.capacity
      BY <2>0, <3>3, AccumulateIsBounded
    <3>5. decoder' \in DecoderType /\ Len(decoder'.held) <= decoder'.capacity
      BY <3>1, <3>4 DEF Cleared, Storing, DecoderType
    <3>6. chunk' \in Seq(Bytes)
      BY <3>1, <3>2
    <3>7. results' \in Seq(Result)
      <4> DEFINE line == IF full.overflow THEN <<>> ELSE <<Decoded(full.held)>>
      <4>1. full.held \in Seq(Text)
        BY <3>4 DEF DecoderType
      <4>2. line \in Seq(Result)
        <5>1. Decoded(full.held) \in Result
          BY <4>1, DecodedIsResult
        <5> QED BY <5>1
      <4>3. Reported(decoder, part) \in Seq(Result)
        BY ReportIsResults
      <4>4. results \in Seq(Result)
        BY <1>0
      <4>5. results' = results \o Reported(decoder, part) \o line
        BY <3>1
      <4> HIDE DEF line
      <4> QED BY <4>2, <4>3, <4>4, <4>5
    <3> QED BY <2>2, <3>5, <3>6, <3>7, <1>0, <1>p DEF PushLine
  <2>3. CASE PushRest
    <3>1. chunk \in Seq(Text)
      BY <2>3 DEF PushRest, Newlines, TypeOK, Text
    <3>2. decoder' \in DecoderType /\ Len(decoder'.held) <= decoder'.capacity
      BY <2>0, <2>3, <3>1, AccumulateIsBounded DEF PushRest
    <3>3. results' \in Seq(Result)
      <4>1. Reported(decoder, chunk) \in Seq(Result) /\ results \in Seq(Result)
        BY <1>0, ReportIsResults
      <4> QED BY <2>3, <4>1 DEF PushRest
    <3> QED BY <1>0, <1>p, <2>3, <3>2, <3>3 DEF PushRest
  <2>4. CASE Finish
    <3>1. decoder' \in DecoderType /\ Len(decoder'.held) <= decoder'.capacity
      BY <2>0, <2>4 DEF Finish, Cleared, Storing, DecoderType
    <3>2. Error("FRAME_TRUNCATED") \in Result /\ Error("FRAME_INVALID_UTF8") \in Result
      BY ErrorIsResult DEF Codes
    <3>3. results' \in Seq(Result)
      <4>1. PICK last \in {<<>>, <<Error("FRAME_TRUNCATED")>>, <<Error("FRAME_INVALID_UTF8")>>} :
              results' = results \o last
        BY <2>4 DEF Finish
      <4>2. <<Error("FRAME_TRUNCATED")>> \in Seq(Result) /\ <<Error("FRAME_INVALID_UTF8")>> \in Seq(Result)
        BY <3>2
      <4>3. last \in Seq(Result)
        BY <4>1, <4>2, EmptySeq
      <4>4. results \in Seq(Result)
        BY <1>0
      <4> QED BY <4>1, <4>3, <4>4
    <3> QED BY <1>0, <1>p, <2>4, <3>1, <3>3 DEF Finish
  <2>5. CASE UNCHANGED vars
    BY <2>5 DEF TypeOK, vars
  <2> QED BY <2>1, <2>2, <2>3, <2>4, <2>5 DEF Next
<1> QED BY <1>1, <1>2, PTL DEF Spec
-----------------------------------------------------------------------------
(***************************************************************************)
(* The lines of a stream.  Start(bytes, i) is the newline before the line  *)
(* that ends at i, or 0.                                                   *)
(***************************************************************************)
EndsBefore(bytes, i) == {j \in LineEnds(bytes) : j < i}
Start(bytes, i) ==
  CHOOSE j \in EndsBefore(bytes, i) \cup {0} : \A l \in EndsBefore(bytes, i) : l <= j

LEMMA LineFromStart ==
  ASSUME NEW bytes, NEW i
  PROVE  LineAt(bytes, i) = SubSeq(bytes, Start(bytes, i) + 1, i - 1)
BY DEF LineAt, Start, EndsBefore

LEMMA LeastOf ==
  ASSUME NEW S \in SUBSET Nat, S # {}
  PROVE  \E m \in S : \A k \in S : m <= k
<1>1. IsWellFoundedOn(OpToRel(<, Nat), Nat)
  BY NatLessThanWellFounded
<1>2. PICK m \in S : \A k \in S : <<k, m>> \notin OpToRel(<, Nat)
  BY <1>1, WFMin, Zenon
<1>3. \A k \in S : ~(k < m)
  BY <1>2 DEF OpToRel
<1> QED BY <1>3

LEMMA StartIsLast ==
  ASSUME NEW bytes \in Seq(Bytes), NEW i \in 1..(Len(bytes) + 1)
  PROVE  /\ Start(bytes, i) \in EndsBefore(bytes, i) \cup {0}
         /\ \A l \in EndsBefore(bytes, i) : l <= Start(bytes, i)
         /\ Start(bytes, i) \in 0..(i - 1)
<1> DEFINE S == {n \in Nat : \A l \in EndsBefore(bytes, i) : l <= n}
<1>1. \A l \in EndsBefore(bytes, i) : l \in 1..(i - 1)
  BY DEF EndsBefore, LineEnds
<1>2. i - 1 \in S
  BY <1>1
<1>3. PICK m \in S : \A k \in S : m <= k
  BY <1>2, LeastOf
<1>4. m \in EndsBefore(bytes, i) \cup {0}
  <2>1. SUFFICES ASSUME m \notin EndsBefore(bytes, i), m # 0 PROVE FALSE
    OBVIOUS
  <2>2. m - 1 \in S
    BY <1>1, <2>1
  <2> QED BY <1>3, <2>2
<1>5. \E j \in EndsBefore(bytes, i) \cup {0} : \A l \in EndsBefore(bytes, i) : l <= j
  BY <1>4
<1>6. /\ Start(bytes, i) \in EndsBefore(bytes, i) \cup {0}
      /\ \A l \in EndsBefore(bytes, i) : l <= Start(bytes, i)
  BY <1>5, Zenon DEF Start
<1> QED BY <1>1, <1>6

(***************************************************************************)
(* What follows a position does not change the line that ends there.       *)
(***************************************************************************)
LEMMA LineOfPrefix ==
  ASSUME NEW bytes \in Seq(Bytes), NEW more \in Seq(Bytes), NEW i \in 1..(Len(bytes) + 1)
  PROVE  /\ Start(bytes \o more, i) = Start(bytes, i)
         /\ LineAt(bytes \o more, i) = LineAt(bytes, i)
<1>w. PICK whole : whole = bytes \o more
  OBVIOUS
<1>1. /\ whole \in Seq(Bytes) /\ Len(whole) = Len(bytes) + Len(more)
      /\ \A k \in 1..Len(bytes) : whole[k] = bytes[k]
  BY <1>w, ConcatProperties
<1>d. DOMAIN whole = 1..Len(whole) /\ DOMAIN bytes = 1..Len(bytes) /\ Len(more) \in Nat
  BY <1>1, LenProperties
<1>2. EndsBefore(whole, i) = EndsBefore(bytes, i)
  <2>1. \A j \in 1..Len(whole) : j < i => j \in 1..Len(bytes)
    BY <1>1
  <2>2. \A j \in 1..Len(bytes) : j \in 1..Len(whole)
    BY <1>1, <1>d
  <2> QED BY <1>1, <1>d, <2>1, <2>2 DEF EndsBefore, LineEnds
<1>3. Start(whole, i) = Start(bytes, i)
  BY <1>2 DEF Start
<1>4. PICK s \in 0..(i - 1) : s = Start(bytes, i)
  BY StartIsLast
<1>5. SubSeq(whole, s + 1, i - 1) = SubSeq(bytes, s + 1, i - 1)
  <2>1. \A k \in (s + 1)..(i - 1) : whole[k] = bytes[k] /\ bytes[k] \in Bytes
    BY <1>1, <1>4
  <2>2. /\ SubSeq(whole, s + 1, i - 1) \in Seq(Bytes) /\ SubSeq(bytes, s + 1, i - 1) \in Seq(Bytes)
        /\ Len(SubSeq(whole, s + 1, i - 1)) = i - 1 - s /\ Len(SubSeq(bytes, s + 1, i - 1)) = i - 1 - s
    BY <1>4, <2>1, SubSeqProperties
  <2>3. \A k \in 1..(i - 1 - s) : SubSeq(whole, s + 1, i - 1)[k] = SubSeq(bytes, s + 1, i - 1)[k]
    <3>1. \A k \in 1..(i - 1 - s) : SubSeq(whole, s + 1, i - 1)[k] = whole[s + k]
      BY <1>4, <2>1
    <3>2. \A k \in 1..(i - 1 - s) : SubSeq(bytes, s + 1, i - 1)[k] = bytes[s + k]
      BY <1>4, <2>1
    <3>3. \A k \in 1..(i - 1 - s) : whole[s + k] = bytes[s + k]
      <4> TAKE k \in 1..(i - 1 - s)
      <4>1. s + k \in (s + 1)..(i - 1)
        BY <1>4
      <4> QED BY <2>1, <4>1
    <3> QED BY <3>1, <3>2, <3>3
  <2> QED BY <2>2, <2>3, SeqEqual
<1> QED BY <1>w, <1>3, <1>4, <1>5, LineFromStart

(***************************************************************************)
(* The unfinished line of a stream: a part without newline extends it, a   *)
(* newline ends it.                                                        *)
(***************************************************************************)
Unfinished(bytes) == LineAt(bytes, Len(bytes) + 1)

LEMMA UnfinishedIsText ==
  ASSUME NEW bytes \in Seq(Bytes)
  PROVE  Unfinished(bytes) \in Seq(Bytes)
<1>1. PICK s \in 0..Len(bytes) : s = Start(bytes, Len(bytes) + 1)
  BY StartIsLast
<1>2. Unfinished(bytes) = SubSeq(bytes, s + 1, Len(bytes))
  BY <1>1, LineFromStart DEF Unfinished
<1>3. SubSeq(bytes, s + 1, Len(bytes)) \in Seq(Bytes)
  BY <1>1
<1> QED BY <1>2, <1>3

LEMMA PartExtendsLine ==
  ASSUME NEW bytes \in Seq(Bytes), NEW part \in Seq(Text)
  PROVE  /\ LineEnds(bytes \o part) = LineEnds(bytes)
         /\ Unfinished(bytes \o part) = Unfinished(bytes) \o part
<1>0. part \in Seq(Bytes)
  BY SeqMonotonic DEF Text
<1>w. PICK whole : whole = bytes \o part
  OBVIOUS
<1>1. whole \in Seq(Bytes) /\ Len(whole) = Len(bytes) + Len(part) /\ Len(part) \in Nat
  BY <1>w, <1>0, ConcatProperties
<1>2. \A k \in 1..Len(whole) : whole[k] = IF k <= Len(bytes) THEN bytes[k] ELSE part[k - Len(bytes)]
  BY <1>w, <1>0, <1>1, ConcatProperties
<1>3. \A k \in 1..Len(part) : part[k] # "nl"
  BY DEF Text
<1>4. LineEnds(whole) = LineEnds(bytes)
  <2>1. DOMAIN whole = 1..Len(whole) /\ DOMAIN bytes = 1..Len(bytes)
    BY <1>1
  <2>2. \A k \in 1..Len(whole) : whole[k] = "nl" => k \in 1..Len(bytes) /\ bytes[k] = "nl"
    <3> TAKE k \in 1..Len(whole)
    <3>1. CASE k <= Len(bytes)
      BY <1>2, <3>1
    <3>2. CASE ~(k <= Len(bytes))
      <4>1. k - Len(bytes) \in 1..Len(part) /\ whole[k] = part[k - Len(bytes)]
        BY <1>1, <1>2, <3>2
      <4> QED BY <1>3, <4>1
    <3> QED BY <3>1, <3>2
  <2>3. \A k \in 1..Len(bytes) : k \in 1..Len(whole) /\ whole[k] = bytes[k]
    BY <1>0, <1>1, <1>2
  <2> QED BY <2>1, <2>2, <2>3 DEF LineEnds
<1>5. Start(whole, Len(whole) + 1) = Start(bytes, Len(bytes) + 1)
  <2>1. EndsBefore(whole, Len(whole) + 1) = EndsBefore(bytes, Len(bytes) + 1)
    <3>1. \A j \in LineEnds(bytes) : j < Len(whole) + 1 /\ j < Len(bytes) + 1
      BY <1>1 DEF LineEnds
    <3> QED BY <1>4, <3>1 DEF EndsBefore
  <2> QED BY <2>1 DEF Start
<1>6. PICK s \in 0..Len(bytes) : s = Start(bytes, Len(bytes) + 1)
  BY StartIsLast
<1>7. Unfinished(bytes) = SubSeq(bytes, s + 1, Len(bytes)) /\ Unfinished(whole) = SubSeq(whole, s + 1, Len(whole))
  <2>1. Len(bytes) + 1 - 1 = Len(bytes) /\ Len(whole) + 1 - 1 = Len(whole)
    BY <1>1
  <2>2. /\ Unfinished(bytes) = SubSeq(bytes, Start(bytes, Len(bytes) + 1) + 1, Len(bytes) + 1 - 1)
        /\ Unfinished(whole) = SubSeq(whole, Start(whole, Len(whole) + 1) + 1, Len(whole) + 1 - 1)
    <3>1. Unfinished(bytes) = LineAt(bytes, Len(bytes) + 1) /\ Unfinished(whole) = LineAt(whole, Len(whole) + 1)
      BY DEF Unfinished
    <3>2. LineAt(bytes, Len(bytes) + 1) = SubSeq(bytes, Start(bytes, Len(bytes) + 1) + 1, Len(bytes) + 1 - 1)
      BY LineFromStart
    <3>3. LineAt(whole, Len(whole) + 1) = SubSeq(whole, Start(whole, Len(whole) + 1) + 1, Len(whole) + 1 - 1)
      BY LineFromStart
    <3> QED BY <3>1, <3>2, <3>3
  <2> QED BY <1>5, <1>6, <2>1, <2>2, Zenon
<1>8. SubSeq(whole, s + 1, Len(whole)) = SubSeq(bytes, s + 1, Len(bytes)) \o part
  <2>1. PICK a : a = SubSeq(bytes, s + 1, Len(bytes))
    OBVIOUS
  <2>2. PICK b : b = SubSeq(whole, s + 1, Len(whole))
    OBVIOUS
  <2>3. a \in Seq(Bytes) /\ Len(a) = Len(bytes) - s /\ \A k \in 1..(Len(bytes) - s) : a[k] = bytes[s + k]
    BY <1>6, <2>1
  <2>4. b \in Seq(Bytes) /\ Len(b) = Len(whole) - s /\ \A k \in 1..(Len(whole) - s) : b[k] = whole[s + k]
    <3>1. \A k \in (s + 1)..Len(whole) : whole[k] \in Bytes
      BY <1>1, <1>6
    <3>2. s + 1 \in Int /\ Len(whole) \in Int /\ s <= Len(whole)
      BY <1>1, <1>6
    <3>3. /\ b \in Seq(Bytes) /\ Len(b) = IF s + 1 <= Len(whole) THEN Len(whole) - (s + 1) + 1 ELSE 0
          /\ \A k \in 1..(Len(whole) - (s + 1) + 1) : b[k] = whole[s + 1 + k - 1]
      BY <2>2, <3>1, <3>2, SubSeqProperties
    <3>4. Len(b) = Len(whole) - s
      BY <3>2, <3>3, <1>6
    <3>5. Len(whole) - (s + 1) + 1 = Len(whole) - s /\ \A k \in Int : s + 1 + k - 1 = s + k
      BY <3>2, <1>6
    <3> QED BY <3>3, <3>4, <3>5
  <2>5. a \o part \in Seq(Bytes) /\ Len(a \o part) = Len(whole) - s
    BY <1>0, <1>1, <1>6, <2>3, ConcatProperties
  <2>6. \A k \in 1..(Len(whole) - s) : (a \o part)[k] = IF k <= Len(a) THEN a[k] ELSE part[k - Len(a)]
    <3>1. Len(whole) - s = Len(a) + Len(part)
      BY <1>1, <1>6, <2>3
    <3> QED BY <1>0, <2>3, <3>1, ConcatProperties
  <2>7. \A k \in 1..(Len(whole) - s) : (a \o part)[k] = b[k]
    <3> TAKE k \in 1..(Len(whole) - s)
    <3>1. s + k \in 1..Len(whole) /\ Len(bytes) \in Nat
      BY <1>1, <1>6
    <3>2. CASE k <= Len(a)
      <4>1. k \in 1..(Len(bytes) - s) /\ s + k <= Len(bytes)
        BY <1>6, <2>3, <3>1, <3>2
      <4> QED BY <1>2, <2>3, <2>4, <2>6, <3>1, <3>2, <4>1
    <3>3. CASE ~(k <= Len(a))
      <4>1. k - Len(a) = s + k - Len(bytes) /\ ~(s + k <= Len(bytes))
        BY <1>6, <2>3, <3>1, <3>3
      <4>2. (a \o part)[k] = part[k - Len(a)]
        BY <2>6, <3>3
      <4>3. whole[s + k] = part[s + k - Len(bytes)]
        BY <1>2, <3>1, <4>1
      <4> QED BY <2>4, <4>1, <4>2, <4>3
    <3> QED BY <3>2, <3>3
  <2> QED BY <2>1, <2>2, <2>4, <2>5, <2>7, SeqEqual
<1> QED BY <1>w, <1>4, <1>7, <1>8

LEMMA NewlineEndsLine ==
  ASSUME NEW bytes \in Seq(Bytes)
  PROVE  /\ bytes \o <<"nl">> \in Seq(Bytes)
         /\ LineEnds(bytes \o <<"nl">>) = LineEnds(bytes) \cup {Len(bytes) + 1}
         /\ Unfinished(bytes \o <<"nl">>) = <<>>
<1>0. PICK end \in Seq(Bytes) : end = <<"nl">> /\ Len(end) = 1 /\ end[1] = "nl"
  <2>1. "nl" \in Bytes
    BY DEF Bytes
  <2>2. <<"nl">> \in Seq(Bytes) /\ Len(<<"nl">>) = 1 /\ <<"nl">>[1] = "nl"
    BY <2>1
  <2> QED BY <2>2
<1>1. PICK whole : whole = bytes \o end
  OBVIOUS
<1>2. whole \in Seq(Bytes) /\ Len(whole) = Len(bytes) + 1
  BY <1>0, <1>1, ConcatProperties
<1>3. \A k \in 1..Len(whole) : whole[k] = IF k <= Len(bytes) THEN bytes[k] ELSE "nl"
  BY <1>0, <1>1, ConcatProperties
<1>4. LineEnds(whole) = LineEnds(bytes) \cup {Len(bytes) + 1}
  BY <1>2, <1>3 DEF LineEnds
<1>5. Len(bytes) + 1 \in EndsBefore(whole, Len(whole) + 1)
  BY <1>2, <1>4 DEF EndsBefore
<1>6. Start(whole, Len(whole) + 1) = Len(whole)
  <2>1. Start(whole, Len(whole) + 1) \in 0..Len(whole)
    BY <1>2, StartIsLast
  <2>2. Len(bytes) + 1 <= Start(whole, Len(whole) + 1)
    BY <1>2, <1>5, StartIsLast
  <2> QED BY <1>2, <2>1, <2>2
<1>7. Unfinished(whole) = SubSeq(whole, Len(whole) + 1, Len(whole))
  BY <1>2, <1>6, LineFromStart DEF Unfinished
<1>8. Unfinished(whole) = <<>>
  BY <1>2, <1>7, SubSeqEmpty
<1> QED BY <1>0, <1>1, <1>2, <1>4, <1>8

(***************************************************************************)
(* Each of the newlines has a rank: the k-th has k newlines up to it.      *)
(***************************************************************************)
UpTo(bytes, i) == {j \in LineEnds(bytes) : j <= i}
LineEnd(bytes, k) == CHOOSE i \in LineEnds(bytes) : Cardinality({j \in LineEnds(bytes) : j <= i}) = k
LineCount(bytes) == Cardinality(LineEnds(bytes))

LEMMA ResultsByLine ==
  ASSUME NEW bytes
  PROVE  LineResults(bytes) = [k \in 1..LineCount(bytes) |-> Meaning(LineAt(bytes, LineEnd(bytes, k)))]
<1> DEFINE end == [k \in 1..LineCount(bytes) |-> LineEnd(bytes, k)]
<1>1. LineResults(bytes) = [k \in DOMAIN end |-> Meaning(LineAt(bytes, end[k]))]
  BY DEF LineResults, LineEnd, LineCount
<1>2. DOMAIN end = 1..LineCount(bytes) /\ \A k \in 1..LineCount(bytes) : end[k] = LineEnd(bytes, k)
  OBVIOUS
<1> HIDE DEF end
<1> QED BY <1>1, <1>2

LEMMA LinesAreFinite ==
  ASSUME NEW bytes \in Seq(Bytes)
  PROVE  /\ IsFiniteSet(LineEnds(bytes)) /\ LineCount(bytes) \in Nat
         /\ \A i : /\ IsFiniteSet(UpTo(bytes, i)) /\ Cardinality(UpTo(bytes, i)) \in Nat
                   /\ Cardinality(UpTo(bytes, i)) <= LineCount(bytes)
<1>1. LineEnds(bytes) \in SUBSET (1..Len(bytes)) /\ Len(bytes) \in Nat
  BY DEF LineEnds
<1>2. IsFiniteSet(1..Len(bytes))
  BY <1>1, FS_Interval
<1>3. IsFiniteSet(LineEnds(bytes))
  BY <1>1, <1>2, FS_Subset
<1>4. \A i : UpTo(bytes, i) \in SUBSET LineEnds(bytes)
  BY DEF UpTo
<1> QED BY <1>3, <1>4, FS_Subset, FS_CardinalityType DEF LineCount

LEMMA LineEndExists ==
  ASSUME NEW bytes \in Seq(Bytes), NEW k \in 1..LineCount(bytes)
  PROVE  LineEnd(bytes, k) \in LineEnds(bytes) /\ Cardinality(UpTo(bytes, LineEnd(bytes, k))) = k
<1> DEFINE S == {n \in Nat : Cardinality(UpTo(bytes, n)) >= k}
<1>1. LineEnds(bytes) \in SUBSET (1..Len(bytes)) /\ Len(bytes) \in Nat
  BY DEF LineEnds
<1>2. UpTo(bytes, Len(bytes)) = LineEnds(bytes) /\ UpTo(bytes, 0) = {}
  BY <1>1 DEF UpTo
<1>k. k \in Nat /\ k >= 1 /\ k <= LineCount(bytes)
  BY LinesAreFinite
<1>3. Len(bytes) \in S
  BY <1>1, <1>2, <1>k DEF LineCount
<1>4. PICK i \in S : \A n \in S : i <= n
  BY <1>3, LeastOf
<1>5. i # 0
  <2>1. SUFFICES ASSUME i = 0 PROVE FALSE
    OBVIOUS
  <2>2. Cardinality(UpTo(bytes, 0)) = 0
    BY <1>2, FS_EmptySet, Zenon
  <2>3. Cardinality(UpTo(bytes, i)) >= k
    BY <1>4
  <2> QED BY <2>1, <2>2, <2>3, <1>k
<1>6. i - 1 \in Nat /\ ~(Cardinality(UpTo(bytes, i - 1)) >= k)
  <2>1. i - 1 \in Nat /\ ~(i <= i - 1)
    BY <1>4, <1>5
  <2> QED BY <1>4, <2>1
<1>7. UpTo(bytes, i) = IF i \in LineEnds(bytes) THEN UpTo(bytes, i - 1) \cup {i} ELSE UpTo(bytes, i - 1)
  BY <1>1, <1>4 DEF UpTo
<1>8. i \in LineEnds(bytes)
  BY <1>4, <1>6, <1>7
<1>9. i \notin UpTo(bytes, i - 1)
  BY <1>4 DEF UpTo
<1>10. Cardinality(UpTo(bytes, i)) = Cardinality(UpTo(bytes, i - 1)) + 1
  BY <1>7, <1>8, <1>9, LinesAreFinite, FS_AddElement
<1>11. Cardinality(UpTo(bytes, i)) = k
  <2>1. Cardinality(UpTo(bytes, i - 1)) \in Nat
    BY LinesAreFinite
  <2> QED BY <1>4, <1>6, <1>10, <1>k, <2>1
<1>12. \E n \in LineEnds(bytes) : Cardinality({j \in LineEnds(bytes) : j <= n}) = k
  BY <1>8, <1>11 DEF UpTo
<1> QED BY <1>12, Zenon DEF LineEnd, UpTo

(***************************************************************************)
(* A part without newline adds no result.                                  *)
(***************************************************************************)
LEMMA PartAddsNoLine ==
  ASSUME NEW bytes \in Seq(Bytes), NEW part \in Seq(Text)
  PROVE  LineResults(bytes \o part) = LineResults(bytes)
<1>0. part \in Seq(Bytes)
  BY SeqMonotonic DEF Text
<1>1. PICK whole : whole = bytes \o part
  OBVIOUS
<1>2. LineEnds(whole) = LineEnds(bytes)
  BY <1>1, PartExtendsLine
<1>3. LineCount(whole) = LineCount(bytes) /\ \A k : LineEnd(whole, k) = LineEnd(bytes, k)
  BY <1>2 DEF LineCount, LineEnd
<1>4. \A k \in 1..LineCount(bytes) : LineAt(whole, LineEnd(bytes, k)) = LineAt(bytes, LineEnd(bytes, k))
  <2> TAKE k \in 1..LineCount(bytes)
  <2>1. LineEnd(bytes, k) \in 1..(Len(bytes) + 1)
    BY LineEndExists DEF LineEnds
  <2> QED BY <1>0, <1>1, <2>1, LineOfPrefix
<1> QED BY <1>1, <1>3, <1>4, ResultsByLine

(***************************************************************************)
(* A newline adds one result: the meaning of the unfinished line.          *)
(***************************************************************************)
LEMMA NewlineAddsLine ==
  ASSUME NEW bytes \in Seq(Bytes)
  PROVE  LineResults(bytes \o <<"nl">>) = LineResults(bytes) \o <<Meaning(Unfinished(bytes))>>
<1>0. PICK end \in Seq(Bytes) : end = <<"nl">>
  <2>1. "nl" \in Bytes
    BY DEF Bytes
  <2>2. <<"nl">> \in Seq(Bytes)
    BY <2>1
  <2> QED BY <2>2
<1>1. PICK whole : whole = bytes \o end
  OBVIOUS
<1>2. PICK last : last = Len(bytes) + 1
  OBVIOUS
<1>3. whole \in Seq(Bytes) /\ LineEnds(whole) = LineEnds(bytes) \cup {last}
  BY <1>0, <1>1, <1>2, NewlineEndsLine
<1>4. last \in Nat /\ LineEnds(bytes) \in SUBSET (1..Len(bytes)) /\ Len(bytes) \in Nat
  BY <1>2 DEF LineEnds
<1>5. last \notin LineEnds(bytes) /\ \A i \in LineEnds(bytes) : i < last
  BY <1>2, <1>4
<1>6. PICK count \in Nat : count = LineCount(bytes)
  BY LinesAreFinite
<1>7. LineCount(whole) = count + 1
  BY <1>3, <1>5, <1>6, LinesAreFinite, FS_AddElement DEF LineCount
<1>8. \A i \in LineEnds(bytes) : {j \in LineEnds(whole) : j <= i} = UpTo(bytes, i)
  BY <1>3, <1>4, <1>5 DEF UpTo
<1>9. {j \in LineEnds(whole) : j <= last} = LineEnds(whole)
  BY <1>3, <1>4, <1>5
<1>10. \A k \in 1..count : LineEnd(whole, k) = LineEnd(bytes, k)
  <2> TAKE k \in 1..count
  <2>1. Cardinality({j \in LineEnds(whole) : j <= last}) # k
    <3>1. Cardinality({j \in LineEnds(whole) : j <= last}) = count + 1
      BY <1>7, <1>9, Zenon DEF LineCount
    <3> QED BY <3>1
  <2>2. \A i : /\ i \in LineEnds(whole)
               /\ Cardinality({j \in LineEnds(whole) : j <= i}) = k
          <=> /\ i \in LineEnds(bytes)
              /\ Cardinality({j \in LineEnds(bytes) : j <= i}) = k
    BY <1>3, <1>8, <2>1 DEF UpTo
  <2> QED BY <2>2, Zenon DEF LineEnd
<1>11. LineEnd(whole, count + 1) = last
  <2>1. \A i \in LineEnds(bytes) : Cardinality({j \in LineEnds(whole) : j <= i}) # count + 1
    <3> TAKE i \in LineEnds(bytes)
    <3>1. Cardinality(UpTo(bytes, i)) \in Nat /\ Cardinality(UpTo(bytes, i)) <= count
      BY <1>6, LinesAreFinite
    <3>2. ~(Cardinality(UpTo(bytes, i)) = count + 1)
      BY <3>1
    <3> QED BY <1>8, <3>2, Zenon
  <2>2. LineEnd(whole, count + 1) \in LineEnds(whole)
    BY <1>3, <1>7, LineEndExists
  <2>3. Cardinality(UpTo(whole, LineEnd(whole, count + 1))) = count + 1
    BY <1>3, <1>7, LineEndExists
  <2> QED BY <1>3, <2>1, <2>2, <2>3 DEF UpTo
<1>12. \A k \in 1..count : LineAt(whole, LineEnd(bytes, k)) = LineAt(bytes, LineEnd(bytes, k))
  <2> TAKE k \in 1..count
  <2>1. LineEnd(bytes, k) \in 1..(Len(bytes) + 1)
    BY <1>6, LineEndExists DEF LineEnds
  <2> QED BY <1>0, <1>1, <2>1, LineOfPrefix
<1>13. LineAt(whole, last) = Unfinished(bytes)
  <2>1. last \in 1..(Len(bytes) + 1)
    BY <1>2, <1>4
  <2> QED BY <1>0, <1>1, <1>2, <2>1, LineOfPrefix DEF Unfinished
<1>14. PICK old : old = LineResults(bytes)
  OBVIOUS
<1>15. PICK new : new = Meaning(Unfinished(bytes))
  OBVIOUS
<1>16. old = [k \in 1..count |-> Meaning(LineAt(bytes, LineEnd(bytes, k)))]
  BY <1>6, <1>14, ResultsByLine
<1>17. LineResults(whole) = [k \in 1..(count + 1) |-> Meaning(LineAt(whole, LineEnd(whole, k)))]
  BY <1>7, ResultsByLine
<1>18. LineResults(whole) = [k \in 1..(count + 1) |-> IF k <= count THEN old[k] ELSE new]
  <2>1. \A k \in 1..(count + 1) : Meaning(LineAt(whole, LineEnd(whole, k))) = IF k <= count THEN old[k] ELSE new
    <3> TAKE k \in 1..(count + 1)
    <3>1. CASE k \in 1..count
      BY <1>10, <1>12, <1>16, <3>1
    <3>2. CASE k = count + 1
      BY <1>11, <1>13, <1>15, <3>2
    <3> QED BY <3>1, <3>2
  <2> QED BY <1>17, <2>1
<1>19. old \o <<new>> = [k \in 1..(count + 1) |-> IF k <= count THEN old[k] ELSE new]
  <2>1. Len(old) = count
    BY <1>16
  <2> QED BY <2>1, <1>16
<1> QED BY <1>0, <1>1, <1>14, <1>15, <1>18, <1>19

-----------------------------------------------------------------------------
(***************************************************************************)
(* The decoder and an unfinished line.  Tracks: it holds the line, or has  *)
(* dropped it because it is too long.                                      *)
(***************************************************************************)
Tracks(d, line) ==
  /\ d.overflow <=> Len(line) > MaxLineBytes
  /\ d.held = IF d.overflow THEN <<>> ELSE line

LEMMA TailIsResults ==
  ASSUME NEW line, NEW final \in BOOLEAN
  PROVE  TailResults(line, final) \in Seq(Result)
<1>1. \A code \in Codes : <<Error(code)>> \in Seq(Result)
  BY ErrorIsResult
<1>2. <<Error("FRAME_TOO_LARGE")>> \in Seq(Result)
  BY <1>1 DEF Codes
<1>3. <<Error("FRAME_TRUNCATED")>> \in Seq(Result)
  BY <1>1 DEF Codes
<1>4. <<Error("FRAME_INVALID_UTF8")>> \in Seq(Result)
  BY <1>1 DEF Codes
<1>5. <<>> \in Seq(Result)
  BY EmptySeq
<1> QED BY <1>2, <1>3, <1>4, <1>5, Zenon DEF TailResults

(***************************************************************************)
(* A part of a line: the decoder keeps track, and what it has reported of  *)
(* the unfinished line is what that line asks for.                         *)
(***************************************************************************)
LEMMA AccumulatedTracks ==
  ASSUME NEW d \in DecoderType, NEW line \in Seq(Bytes), NEW part \in Seq(Text), Tracks(d, line)
  PROVE  /\ Tracks(Accumulated(d, part), line \o part)
         /\ TailResults(line, FALSE) \o Reported(d, part) = TailResults(line \o part, FALSE)
<1>0. part \in Seq(Bytes)
  BY SeqMonotonic DEF Text
<1>1. PICK whole \in Seq(Bytes) : whole = line \o part
  BY <1>0, ConcatProperties
<1>2. Len(whole) = Len(line) + Len(part) /\ Len(line) \in Nat /\ Len(part) \in Nat
  BY <1>0, <1>1, ConcatProperties, LenProperties
<1>3. MaxLineBytes \in Nat \ {0}
  BY LimitsAssumption
<1>4. PICK report : report = <<Error("FRAME_TOO_LARGE")>>
  OBVIOUS
<1>5. report \in Seq(Result) /\ report \o <<>> = report /\ <<>> \o report = report
  <2>1. Error("FRAME_TOO_LARGE") \in Result
    BY ErrorIsResult DEF Codes
  <2>2. report \in Seq(Result)
    BY <1>4, <2>1
  <2> QED BY <2>2, ConcatEmptySeq
<1>6. <<>> \o <<>> = <<>>
  BY EmptySeq, ConcatEmptySeq
<1>7. \A l : TailResults(l, FALSE) = IF Len(l) > MaxLineBytes THEN report ELSE <<>>
  BY <1>4 DEF TailResults
<1>8. Reported(d, part) = IF ~d.overflow /\ Accumulated(d, part).overflow THEN report ELSE <<>>
  BY <1>4 DEF Reported, Overflows
<1>9. CASE d.overflow
  <2>1. Accumulated(d, part) = d
    BY <1>9 DEF Accumulated
  <2>2. Len(line) > MaxLineBytes /\ d.held = <<>>
    BY <1>9 DEF Tracks
  <2>3. Len(whole) > MaxLineBytes
    BY <1>2, <1>3, <2>2
  <2>4. Tracks(Accumulated(d, part), whole)
    BY <1>9, <2>1, <2>2, <2>3 DEF Tracks
  <2>5. TailResults(line, FALSE) \o Reported(d, part) = TailResults(whole, FALSE)
    BY <1>5, <1>7, <1>8, <1>9, <2>2, <2>3
  <2> QED BY <1>1, <2>4, <2>5
<1>10. CASE ~d.overflow
  <2>1. ~(Len(line) > MaxLineBytes) /\ d.held = line
    BY <1>10 DEF Tracks
  <2>2. CASE part = <<>>
    <3>1. whole = line
      BY <1>1, <2>2, ConcatEmptySeq
    <3>2. Accumulated(d, part) = d
      BY <2>2 DEF Accumulated
    <3>3. TailResults(line, FALSE) \o Reported(d, part) = TailResults(line, FALSE)
      BY <1>6, <1>7, <1>8, <1>10, <2>1, <3>2
    <3> QED BY <1>1, <3>1, <3>2, <3>3
  <2>3. CASE part # <<>> /\ Len(whole) > MaxLineBytes
    <3>1. Accumulated(d, part) = Storing(<<>>, TRUE, d.capacity)
      BY <1>2, <1>10, <2>1, <2>3 DEF Accumulated
    <3>2. Accumulated(d, part).overflow = TRUE /\ Accumulated(d, part).held = <<>>
      BY <3>1 DEF Storing
    <3>3. Tracks(Accumulated(d, part), whole)
      BY <2>3, <3>2 DEF Tracks
    <3>4. TailResults(line, FALSE) \o Reported(d, part) = TailResults(whole, FALSE)
      BY <1>5, <1>7, <1>8, <1>10, <2>1, <2>3, <3>2
    <3> QED BY <1>1, <3>3, <3>4
  <2>4. CASE part # <<>> /\ ~(Len(whole) > MaxLineBytes)
    <3>1. Accumulated(d, part) = Storing(whole, FALSE, Grown(d.capacity, Len(whole)))
      BY <1>1, <1>2, <1>10, <2>1, <2>4 DEF Accumulated
    <3>2. Accumulated(d, part).overflow = FALSE /\ Accumulated(d, part).held = whole
      BY <3>1 DEF Storing
    <3>3. Tracks(Accumulated(d, part), whole)
      BY <2>4, <3>2 DEF Tracks
    <3>4. TailResults(line, FALSE) \o Reported(d, part) = TailResults(whole, FALSE)
      BY <1>6, <1>7, <1>8, <1>10, <2>1, <2>4, <3>2
    <3> QED BY <1>1, <3>3, <3>4
  <2> QED BY <2>2, <2>3, <2>4
<1> QED BY <1>9, <1>10 DEF DecoderType

(***************************************************************************)
(* The end of a line: its result is given now, unless it was given when    *)
(* the line became too long.                                               *)
(***************************************************************************)
LEMMA LineEndReports ==
  ASSUME NEW d \in DecoderType, NEW line \in Seq(Bytes), Tracks(d, line)
  PROVE  TailResults(line, FALSE) \o (IF d.overflow THEN <<>> ELSE <<Decoded(d.held)>>) = <<Meaning(line)>>
<1>1. <<Error("FRAME_TOO_LARGE")>> \in Seq(Result)
  <2>1. Error("FRAME_TOO_LARGE") \in Result
    BY ErrorIsResult DEF Codes
  <2> QED BY <2>1
<1>2. PICK report \in Seq(Result) : report = <<Error("FRAME_TOO_LARGE")>>
  BY <1>1
<1>3. CASE d.overflow
  <2>1. Len(line) > MaxLineBytes
    BY <1>3 DEF Tracks
  <2>2. TailResults(line, FALSE) = report /\ <<Meaning(line)>> = report
    BY <1>2, <2>1 DEF TailResults, Meaning
  <2>3. report \o <<>> = report
    BY ConcatEmptySeq
  <2> QED BY <1>3, <2>2, <2>3
<1>4. CASE ~d.overflow
  <2>1. ~(Len(line) > MaxLineBytes) /\ d.held = line
    BY <1>4 DEF Tracks
  <2>2. TailResults(line, FALSE) = <<>> /\ Meaning(line) = Decoded(line)
    BY <2>1 DEF TailResults, Meaning
  <2>3. <<Decoded(line)>> \in Seq(Result)
    <3>1. Decoded(line) \in Result
      <4>1. d.held \in Seq(Text)
        BY DEF DecoderType
      <4> QED BY <2>1, <4>1, DecodedIsResult
    <3> QED BY <3>1
  <2>4. <<>> \o <<Decoded(line)>> = <<Decoded(line)>>
    BY <2>3, ConcatEmptySeq
  <2> QED BY <1>4, <2>1, <2>2, <2>4
<1> QED BY <1>3, <1>4 DEF DecoderType

(***************************************************************************)
(* The end of the stream reports the unfinished line unless it was         *)
(* reported already.                                                       *)
(***************************************************************************)
AtEnd(d) ==
  IF d.held = <<>> \/ d.overflow THEN <<>>
  ELSE IF WellFormed(d.held) THEN <<Error("FRAME_TRUNCATED")>>
  ELSE <<Error("FRAME_INVALID_UTF8")>>

LEMMA StreamEndReports ==
  ASSUME NEW d \in DecoderType, NEW line \in Seq(Bytes), Tracks(d, line)
  PROVE  TailResults(line, FALSE) \o AtEnd(d) = TailResults(line, TRUE)
<1>1. TailResults(line, FALSE) \in Seq(Result) /\ TailResults(line, TRUE) \in Seq(Result)
  BY TailIsResults
<1>2. CASE d.overflow
  <2>1. AtEnd(d) = <<>> /\ Len(line) > MaxLineBytes
    BY <1>2 DEF AtEnd, Tracks
  <2>2. TailResults(line, FALSE) = TailResults(line, TRUE)
    BY <2>1 DEF TailResults
  <2> QED BY <1>1, <2>1, <2>2, ConcatEmptySeq
<1>3. CASE ~d.overflow
  <2>1. ~(Len(line) > MaxLineBytes) /\ d.held = line
    BY <1>3 DEF Tracks
  <2>2. AtEnd(d) = TailResults(line, TRUE) /\ TailResults(line, FALSE) = <<>>
    BY <1>3, <2>1 DEF AtEnd, TailResults
  <2> QED BY <1>1, <2>2, ConcatEmptySeq
<1> QED BY <1>2, <1>3 DEF DecoderType

(***************************************************************************)
(* The results of a stream are a sequence.                                 *)
(***************************************************************************)
Outcome == [code : Codes, bytes : Seq(Bytes)]

LEMMA MeaningIsOutcome ==
  ASSUME NEW line \in Seq(Bytes)
  PROVE  Meaning(line) \in Outcome
<1>1. <<>> \in Seq(Bytes)
  BY EmptySeq
<1>2. \A code \in Codes : Error(code) \in Outcome
  BY <1>1 DEF Error, Outcome
<1>3. Error("FRAME_TOO_LARGE") \in Outcome
  BY <1>2 DEF Codes
<1>4. Error("FRAME_INVALID_UTF8") \in Outcome
  BY <1>2 DEF Codes
<1>5. Line(line) \in Outcome
  BY DEF Line, Outcome, Codes
<1> QED BY <1>3, <1>4, <1>5, Zenon DEF Meaning, Decoded

LEMMA LineResultsAreOutcomes ==
  ASSUME NEW bytes \in Seq(Bytes)
  PROVE  LineResults(bytes) \in Seq(Outcome)
<1>1. LineCount(bytes) \in Nat
  BY LinesAreFinite
<1>2. \A k \in 1..LineCount(bytes) : Meaning(LineAt(bytes, LineEnd(bytes, k))) \in Outcome
  <2> TAKE k \in 1..LineCount(bytes)
  <2>1. PICK i \in 1..Len(bytes) : i = LineEnd(bytes, k)
    BY LineEndExists DEF LineEnds
  <2>2. PICK s \in 0..(i - 1) : s = Start(bytes, i)
    BY <2>1, StartIsLast
  <2>3. LineAt(bytes, i) = SubSeq(bytes, s + 1, i - 1)
    BY <2>2, LineFromStart
  <2>4. SubSeq(bytes, s + 1, i - 1) \in Seq(Bytes)
    BY <2>1, <2>2
  <2> QED BY <2>1, <2>3, <2>4, MeaningIsOutcome
<1>3. LineResults(bytes) = [k \in 1..LineCount(bytes) |-> Meaning(LineAt(bytes, LineEnd(bytes, k)))]
  BY ResultsByLine
<1>4. LineResults(bytes) \in [1..LineCount(bytes) -> Outcome]
  BY <1>2, <1>3
<1> QED BY <1>1, <1>4, SeqDef

LEMMA ResultsAreOutcomes ==
  ASSUME NEW s \in Seq(Result)
  PROVE  s \in Seq(Outcome)
<1>1. Text \subseteq Bytes
  BY DEF Text
<1>2. \A b \in Seq(Text) : b \in Seq(Bytes)
  BY <1>1, SeqMonotonic
<1>3. Result \subseteq Outcome
  BY <1>2 DEF Result, Outcome
<1> QED BY <1>3, SeqMonotonic

(***************************************************************************)
(* The reference, a part and a newline at a time.                          *)
(***************************************************************************)
LEMMA PartAdds ==
  ASSUME NEW bytes \in Seq(Bytes), NEW d \in DecoderType, NEW part \in Seq(Text),
         Tracks(d, Unfinished(bytes))
  PROVE  /\ Reference(bytes, FALSE) \o Reported(d, part) = Reference(bytes \o part, FALSE)
         /\ Tracks(Accumulated(d, part), Unfinished(bytes \o part))
<1>1. PICK line \in Seq(Bytes) : line = Unfinished(bytes)
  BY UnfinishedIsText
<1>2. Unfinished(bytes \o part) = line \o part /\ LineResults(bytes \o part) = LineResults(bytes)
  BY <1>1, PartExtendsLine, PartAddsNoLine
<1>3. PICK lines \in Seq(Outcome) : lines = LineResults(bytes)
  BY LineResultsAreOutcomes
<1>4. PICK tail \in Seq(Outcome) : tail = TailResults(line, FALSE)
  BY TailIsResults, ResultsAreOutcomes
<1>5. PICK report \in Seq(Outcome) : report = Reported(d, part)
  BY ReportIsResults, ResultsAreOutcomes
<1>6. tail \o report = TailResults(line \o part, FALSE) /\ Tracks(Accumulated(d, part), line \o part)
  BY <1>1, <1>4, <1>5, AccumulatedTracks
<1>7. Reference(bytes, FALSE) = lines \o tail
  BY <1>1, <1>3, <1>4 DEF Reference, Unfinished
<1>8. Reference(bytes \o part, FALSE) = lines \o (tail \o report)
  BY <1>2, <1>3, <1>6 DEF Reference, Unfinished
<1>9. (lines \o tail) \o report = lines \o (tail \o report)
  BY ConcatAssociative, SMTT(30)
<1> QED BY <1>2, <1>5, <1>6, <1>7, <1>8, <1>9

LEMMA NewlineAdds ==
  ASSUME NEW bytes \in Seq(Bytes), NEW d \in DecoderType, Tracks(d, Unfinished(bytes))
  PROVE  /\ Reference(bytes, FALSE) \o (IF d.overflow THEN <<>> ELSE <<Decoded(d.held)>>) =
              Reference(bytes \o <<"nl">>, FALSE)
         /\ Tracks(Cleared(d), Unfinished(bytes \o <<"nl">>))
<1>1. PICK line \in Seq(Bytes) : line = Unfinished(bytes)
  BY UnfinishedIsText
<1>2. PICK lines \in Seq(Outcome) : lines = LineResults(bytes)
  BY LineResultsAreOutcomes
<1>3. PICK tail \in Seq(Outcome) : tail = TailResults(line, FALSE)
  BY TailIsResults, ResultsAreOutcomes
<1>4. PICK last \in Seq(Outcome) : last = IF d.overflow THEN <<>> ELSE <<Decoded(d.held)>>
  <2>1. Decoded(d.held) \in Result
    BY DecodedIsResult DEF DecoderType
  <2>2. <<Decoded(d.held)>> \in Seq(Result) /\ <<>> \in Seq(Result)
    BY <2>1
  <2> QED BY <2>2, ResultsAreOutcomes
<1>5. tail \o last = <<Meaning(line)>>
  BY <1>1, <1>3, <1>4, LineEndReports
<1>6. PICK whole : whole = bytes \o <<"nl">>
  OBVIOUS
<1>7. whole \in Seq(Bytes) /\ Unfinished(whole) = <<>> /\ LineResults(whole) = lines \o (tail \o last)
  BY <1>1, <1>2, <1>5, <1>6, NewlineEndsLine, NewlineAddsLine
<1>8. (lines \o tail) \o last = lines \o (tail \o last) /\ lines \o (tail \o last) \in Seq(Outcome)
  <2>1. tail \o last \in Seq(Outcome)
    BY ConcatProperties
  <2> QED BY <2>1, ConcatAssociative, ConcatProperties, SMTT(30)
<1>9. ~(Len(<<>>) > MaxLineBytes)
  BY LimitsAssumption
<1>10. TailResults(<<>>, FALSE) = <<>>
  BY <1>9 DEF TailResults
<1>11. Reference(whole, FALSE) = (lines \o (tail \o last)) \o <<>>
  BY <1>7, <1>10 DEF Reference, Unfinished
<1>12. Reference(whole, FALSE) = lines \o (tail \o last)
  BY <1>8, <1>11, ConcatEmptySeq
<1>13. Reference(bytes, FALSE) = lines \o tail
  BY <1>1, <1>2, <1>3 DEF Reference, Unfinished
<1>14. Tracks(Cleared(d), <<>>)
  BY <1>9 DEF Tracks, Cleared, Storing
<1> QED BY <1>4, <1>6, <1>7, <1>8, <1>12, <1>13, <1>14

LEMMA EndAdds ==
  ASSUME NEW bytes \in Seq(Bytes), NEW d \in DecoderType, Tracks(d, Unfinished(bytes))
  PROVE  Reference(bytes, FALSE) \o AtEnd(d) = Reference(bytes, TRUE)
<1>1. PICK line \in Seq(Bytes) : line = Unfinished(bytes)
  BY UnfinishedIsText
<1>2. PICK lines \in Seq(Outcome) : lines = LineResults(bytes)
  BY LineResultsAreOutcomes
<1>3. PICK tail \in Seq(Outcome) : tail = TailResults(line, FALSE)
  BY TailIsResults, ResultsAreOutcomes
<1>4. PICK last \in Seq(Outcome) : last = AtEnd(d)
  <2>1. \A code \in Codes : <<Error(code)>> \in Seq(Result)
    BY ErrorIsResult
  <2>2. <<Error("FRAME_TRUNCATED")>> \in Seq(Result)
    BY <2>1 DEF Codes
  <2>3. <<Error("FRAME_INVALID_UTF8")>> \in Seq(Result)
    BY <2>1 DEF Codes
  <2>4. <<>> \in Seq(Result)
    BY EmptySeq
  <2>5. AtEnd(d) \in Seq(Result)
    BY <2>2, <2>3, <2>4, Zenon DEF AtEnd
  <2> QED BY <2>5, ResultsAreOutcomes
<1>5. tail \o last = TailResults(line, TRUE)
  BY <1>1, <1>3, <1>4, StreamEndReports
<1>6. Reference(bytes, FALSE) = lines \o tail /\ Reference(bytes, TRUE) = lines \o (tail \o last)
  BY <1>1, <1>2, <1>3, <1>5 DEF Reference, Unfinished
<1>7. (lines \o tail) \o last = lines \o (tail \o last)
  BY ConcatAssociative
<1> QED BY <1>4, <1>6, <1>7

-----------------------------------------------------------------------------
(***************************************************************************)
(* The inductive invariant: the stream is what push() has scanned and what *)
(* is left of the chunk, the decoder tracks the unfinished line of what    *)
(* was scanned, and the results are the reference's.                       *)
(***************************************************************************)
Scanned == SubSeq(stream, 1, Len(stream) - Len(chunk))

FramesInv ==
  /\ stream = Scanned \o chunk
  /\ ended => chunk = <<>>
  /\ ~ended => Tracks(decoder, Unfinished(Scanned))
  /\ results = Reference(Scanned, ended)

LEMMA FrontOfConcat ==
  ASSUME NEW a \in Seq(Bytes), NEW b \in Seq(Bytes)
  PROVE  SubSeq(a \o b, 1, Len(a \o b) - Len(b)) = a
<1>1. PICK whole \in Seq(Bytes) : whole = a \o b
  BY ConcatProperties
<1>2. Len(whole) = Len(a) + Len(b) /\ Len(a) \in Nat /\ Len(b) \in Nat
  BY <1>1, ConcatProperties, LenProperties
<1>3. \A k \in 1..Len(a) : whole[k] = a[k]
  BY <1>1, <1>2, ConcatProperties
<1>4. PICK front : front = SubSeq(whole, 1, Len(a))
  OBVIOUS
<1>5. front \in Seq(Bytes) /\ Len(front) = Len(a) /\ \A k \in 1..Len(a) : front[k] = whole[k]
  BY <1>2, <1>4
<1>6. front = a
  BY <1>3, <1>5, SeqEqual
<1>7. Len(whole) - Len(b) = Len(a)
  BY <1>2
<1> QED BY <1>1, <1>4, <1>6, <1>7

LEMMA ScannedIsBytes ==
  ASSUME TypeOK, FramesInv
  PROVE  Scanned \in Seq(Bytes)
<1>2. Len(stream) \in Nat /\ Len(chunk) \in Nat /\ stream \in Seq(Bytes)
  <2>1. stream \in Seq(Bytes) /\ chunk \in Seq(Bytes)
    BY DEF TypeOK
  <2> QED BY <2>1, LenProperties
<1>1. PICK n \in Int : n = Len(stream) - Len(chunk)
  BY <1>2
<1>3. \A k \in 1..n : stream[k] \in Bytes
  BY <1>1, <1>2
<1>4. SubSeq(stream, 1, n) \in Seq(Bytes)
  BY <1>3, SubSeqProperties
<1> QED BY <1>1, <1>4 DEF Scanned

\* The parts of a chunk around its n-th byte
LEMMA ChunkParts ==
  ASSUME NEW c \in Seq(Bytes), NEW n \in 1..Len(c)
  PROVE  /\ SubSeq(c, 1, n - 1) \in Seq(Bytes) /\ SubSeq(c, n + 1, Len(c)) \in Seq(Bytes)
         /\ c = (SubSeq(c, 1, n - 1) \o <<c[n]>>) \o SubSeq(c, n + 1, Len(c))
<1>1. Len(c) \in Nat
  BY LenProperties
<1>2. SubSeq(c, 1, n) \o SubSeq(c, n + 1, Len(c)) = SubSeq(c, 1, Len(c))
  <2>1. 1 \in 1..(Len(c) + 1) /\ n \in (1 - 1)..Len(c) /\ Len(c) \in n..Len(c)
    BY <1>1
  <2> QED BY <2>1, ConcatAdjacentSubSeq
<1>3. SubSeq(c, 1, Len(c)) = c
  BY SubSeqFull
<1>4. SubSeq(c, 1, n) = SubSeq(c, 1, n - 1) \o <<c[n]>>
  <2>1. 1 \in 1..Len(c) /\ n \in 1..Len(c)
    BY <1>1
  <2> QED BY <2>1, SubSeqRecursiveSecond
<1>5. SubSeq(c, 1, n - 1) \in Seq(Bytes) /\ SubSeq(c, n + 1, Len(c)) \in Seq(Bytes)
  BY <1>1
<1> QED BY <1>2, <1>3, <1>4, <1>5

\* A part and its newline, after what was scanned before the part
Joins(before, part, end, rest) ==
  before \o ((part \o end) \o rest) = ((before \o part) \o end) \o rest

LEMMA PartJoins ==
  ASSUME NEW before \in Seq(Bytes), NEW part \in Seq(Bytes), NEW end \in Seq(Bytes),
         NEW rest \in Seq(Bytes)
  PROVE  Joins(before, part, end, rest)
<1>1. PICK mid \in Seq(Bytes) : mid = part \o end
  BY ConcatProperties
<1>2. (before \o mid) \o rest = before \o (mid \o rest)
  BY <1>1, ConcatAssociative, SMTT(30)
<1>3. (before \o part) \o end = before \o mid
  BY <1>1, ConcatAssociative
<1> QED BY <1>1, <1>2, <1>3 DEF Joins

LEMMA InitFrames == Init => FramesInv
<1> SUFFICES ASSUME Init PROVE FramesInv
  OBVIOUS
<1>1. stream = <<>> /\ chunk = <<>> /\ results = <<>> /\ ended = FALSE
  BY DEF Init
<1>2. decoder.overflow = FALSE /\ decoder.held = <<>>
  BY DEF Init, Storing
<1>3. PICK none \in Seq(Bytes) : none = <<>> /\ Len(none) = 0
  BY EmptySeq
<1>4. none \o none = none
  BY <1>3, ConcatEmptySeq
<1>5. Scanned = none
  <2>1. SubSeq(none \o none, 1, Len(none \o none) - Len(none)) = none
    BY FrontOfConcat
  <2> QED BY <1>1, <1>3, <1>4, <2>1 DEF Scanned
<1>6. ~(Len(none) > MaxLineBytes)
  BY <1>3, LimitsAssumption
<1>7. LineEnds(none) = {} /\ LineCount(none) = 0
  <2>1. LineEnds(none) = {}
    BY <1>3 DEF LineEnds
  <2> QED BY <2>1, FS_EmptySet DEF LineCount
<1>8. LineResults(none) = <<>>
  BY <1>7, ResultsByLine
<1>9. Unfinished(none) = none
  <2>1. PICK s \in 0..0 : s = Start(none, Len(none) + 1)
    <3>1. PICK i \in 1..(Len(none) + 1) : i = Len(none) + 1 /\ i - 1 = 0
      BY <1>3
    <3>2. Start(none, i) \in 0..(i - 1)
      BY <1>3, <3>1, StartIsLast
    <3> QED BY <3>1, <3>2
  <2>2. Unfinished(none) = SubSeq(none, s + 1, Len(none) + 1 - 1)
    BY <2>1, LineFromStart DEF Unfinished
  <2>3. SubSeq(none, s + 1, Len(none) + 1 - 1) = <<>>
    BY <1>3, <2>1, SubSeqEmpty
  <2> QED BY <1>3, <2>2, <2>3
<1>10. TailResults(none, FALSE) = <<>>
  BY <1>6 DEF TailResults
<1>11. Reference(none, FALSE) = <<>> \o <<>>
  BY <1>8, <1>9, <1>10 DEF Reference, Unfinished
<1>12. Reference(none, FALSE) = <<>>
  BY <1>3, <1>4, <1>11
<1>13. Tracks(decoder, Unfinished(none))
  BY <1>2, <1>3, <1>6, <1>9 DEF Tracks
<1> QED BY <1>1, <1>3, <1>4, <1>5, <1>12, <1>13 DEF FramesInv

LEMMA NextFrames == TypeOK /\ FramesInv /\ [Next]_vars => FramesInv'
<1> SUFFICES ASSUME TypeOK, FramesInv, [Next]_vars PROVE FramesInv'
  OBVIOUS
<1>1. stream \in Seq(Bytes) /\ chunk \in Seq(Bytes) /\ decoder \in DecoderType /\ ended \in BOOLEAN
  BY DEF TypeOK, DecoderType, Text
<1>2. PICK s \in Seq(Bytes) : s = Scanned
  BY ScannedIsBytes
<1>3. /\ stream = s \o chunk
      /\ ended => chunk = <<>>
      /\ ~ended => Tracks(decoder, Unfinished(s))
      /\ results = Reference(s, ended)
  BY <1>2 DEF FramesInv
<1>4. ASSUME NEW t \in Seq(Bytes), chunk' \in Seq(Bytes), stream' = t \o chunk'
      PROVE  Scanned' = t
  BY <1>4, FrontOfConcat DEF Scanned
<1>5. CASE Receive
  <2>1. ~ended /\ chunk = <<>> /\ decoder' = decoder /\ results' = results /\ ended' = ended
    BY <1>5 DEF Receive
  <2>2. PICK n \in 1..ChunkLimit : \E bytes \in [1..n -> Bytes] : stream' = stream \o bytes /\ chunk' = bytes
    BY <1>5 DEF Receive
  <2>3. PICK bytes \in [1..n -> Bytes] : stream' = stream \o bytes /\ chunk' = bytes
    BY <2>2
  <2>4. bytes \in Seq(Bytes)
    BY <2>2, LimitsAssumption
  <2>5. stream = s
    BY <1>3, <2>1, ConcatEmptySeq
  <2>6. Scanned' = s
    BY <1>4, <2>3, <2>4, <2>5
  <2> QED BY <1>3, <2>1, <2>3, <2>5, <2>6 DEF FramesInv
<1>6. CASE PushLine
  <2>1. PICK newline \in Newlines :
          /\ \A j \in Newlines : newline <= j
          /\ chunk' = SubSeq(chunk, newline + 1, Len(chunk))
          /\ LET part == SubSeq(chunk, 1, newline - 1)
                 full == Accumulated(decoder, part)
             IN /\ decoder' = Cleared(full)
                /\ results' = results \o Reported(decoder, part) \o
                                (IF full.overflow THEN <<>> ELSE <<Decoded(full.held)>>)
    BY <1>6 DEF PushLine
  <2>2. stream' = stream /\ ended' = ended
    BY <1>6 DEF PushLine
  <2>3. newline \in 1..Len(chunk) /\ chunk[newline] = "nl"
    BY <1>1 DEF Newlines
  <2>4. ended = FALSE
    <3>1. chunk # <<>>
      BY <1>1, <2>3
    <3> QED BY <1>1, <1>3, <3>1
  <2>e. PICK end \in Seq(Bytes) : end = <<chunk[newline]>> /\ end = <<"nl">>
    <3>1. chunk[newline] \in Bytes
      BY <1>1, <2>3
    <3>2. <<chunk[newline]>> \in Seq(Bytes)
      BY <3>1
    <3> QED BY <2>3, <3>2
  <2>5. PICK part : part = SubSeq(chunk, 1, newline - 1)
    OBVIOUS
  <2>6. PICK rest : rest = SubSeq(chunk, newline + 1, Len(chunk))
    OBVIOUS
  <2>7. part \in Seq(Bytes) /\ rest \in Seq(Bytes) /\ chunk = (part \o end) \o rest
    BY <1>1, <2>3, <2>e, <2>5, <2>6, ChunkParts
  <2>8. part \in Seq(Text)
    <3>1. Len(part) = newline - 1 /\ \A i \in 1..(newline - 1) : part[i] = chunk[i]
      BY <1>1, <2>3, <2>5
    <3>2. \A i \in 1..Len(part) : part[i] \in Text
      <4>1. \A i \in 1..(newline - 1) : chunk[i] # "nl" /\ chunk[i] \in Bytes
        BY <1>1, <2>1, <2>3 DEF Newlines
      <4> QED BY <2>3, <3>1, <4>1 DEF Text
    <3>3. Len(part) \in Nat /\ part \in [1..Len(part) -> Text]
      <4>1. Len(part) \in Nat /\ DOMAIN part = 1..Len(part) /\ part \in [1..Len(part) -> Bytes]
        BY <2>7, LenProperties
      <4> QED BY <3>2, <4>1
    <3> QED BY <3>3, SeqDef
  <2>9. PICK full : full = Accumulated(decoder, part)
    OBVIOUS
  <2>10. full \in DecoderType
    <3>1. Len(decoder.held) <= decoder.capacity
      BY DEF TypeOK
    <3> QED BY <1>1, <2>8, <2>9, <3>1, AccumulateIsBounded
  <2>11. PICK t \in Seq(Bytes) : t = s \o part
    BY <2>7, ConcatProperties
  <2>12. PICK u \in Seq(Bytes) : u = t \o end
    BY <2>e, <2>11, ConcatProperties
  <2>13. Reference(s, FALSE) \o Reported(decoder, part) = Reference(t, FALSE) /\ Tracks(full, Unfinished(t))
    BY <1>1, <1>3, <2>4, <2>8, <2>9, <2>11, PartAdds
  <2>14. /\ Reference(t, FALSE) \o (IF full.overflow THEN <<>> ELSE <<Decoded(full.held)>>) = Reference(u, FALSE)
         /\ Tracks(Cleared(full), Unfinished(u))
    BY <2>e, <2>10, <2>11, <2>12, <2>13, NewlineAdds
  <2>15. decoder' = Cleared(full)
    BY <2>1, <2>5, <2>9
  <2>16. results' = results \o Reported(decoder, part) \o (IF full.overflow THEN <<>> ELSE <<Decoded(full.held)>>)
    BY <2>1, <2>5, <2>9
  <2>17. results' = Reference(u, FALSE)
    BY <1>3, <2>4, <2>13, <2>14, <2>16
  <2>18. stream' = u \o chunk' /\ chunk' \in Seq(Bytes)
    <3>1. s \o chunk = ((s \o part) \o end) \o rest
      <4>1. s \in Seq(Bytes) /\ part \in Seq(Bytes) /\ end \in Seq(Bytes) /\ rest \in Seq(Bytes)
        BY <1>2, <2>e, <2>7
      <4>2. Joins(s, part, end, rest)
        BY <4>1, PartJoins, Zenon
      <4> QED BY <2>7, <4>2 DEF Joins
    <3>2. chunk' = rest /\ rest \in Seq(Bytes)
      BY <2>1, <2>6, <2>7
    <3> QED BY <1>3, <2>2, <2>11, <2>12, <3>1, <3>2
  <2>19. Scanned' = u
    BY <1>4, <2>18
  <2> QED BY <2>2, <2>4, <2>14, <2>15, <2>17, <2>18, <2>19 DEF FramesInv
<1>7. CASE PushRest
  <2>1. /\ chunk # <<>> /\ Newlines = {} /\ chunk' = <<>> /\ decoder' = Accumulated(decoder, chunk)
        /\ results' = results \o Reported(decoder, chunk) /\ stream' = stream /\ ended' = ended
    BY <1>7 DEF PushRest
  <2>2. ended = FALSE
    BY <1>1, <1>3, <2>1
  <2>3. chunk \in Seq(Text)
    BY <1>1, <2>1 DEF Newlines, Text
  <2>4. PICK t \in Seq(Bytes) : t = s \o chunk
    BY <1>1, ConcatProperties
  <2>5. Reference(s, FALSE) \o Reported(decoder, chunk) = Reference(t, FALSE) /\ Tracks(decoder', Unfinished(t))
    BY <1>1, <1>3, <2>1, <2>2, <2>3, <2>4, PartAdds
  <2>6. stream' = t \o chunk' /\ chunk' \in Seq(Bytes)
    BY <1>3, <2>1, <2>4, ConcatEmptySeq, EmptySeq
  <2>7. Scanned' = t
    BY <1>4, <2>6
  <2> QED BY <1>3, <2>1, <2>2, <2>5, <2>6, <2>7 DEF FramesInv
<1>8. CASE Finish
  <2>1. ~ended /\ chunk = <<>> /\ ended' = TRUE /\ stream' = stream /\ chunk' = chunk
    BY <1>8 DEF Finish
  <2>2. results' = results \o AtEnd(decoder)
    BY <1>8 DEF Finish, AtEnd
  <2>3. results' = Reference(s, TRUE)
    <3>1. ended = FALSE /\ Tracks(decoder, Unfinished(s))
      BY <1>1, <1>3, <2>1
    <3>2. Reference(s, FALSE) \o AtEnd(decoder) = Reference(s, TRUE)
      BY <1>1, <3>1, EndAdds
    <3> QED BY <1>3, <2>2, <3>1, <3>2
  <2>4. Scanned' = s
    BY <1>1, <1>3, <1>4, <2>1
  <2> QED BY <1>3, <2>1, <2>3, <2>4 DEF FramesInv
<1>9. CASE UNCHANGED vars
  BY <1>9 DEF FramesInv, Scanned, vars
<1> QED BY <1>5, <1>6, <1>7, <1>8, <1>9 DEF Next

(***************************************************************************)
(* However the stream is cut into chunks, push() and finish() return one   *)
(* result for each line, in the order of the lines: its text, or the error *)
(* its bytes ask for.  For all limits and every stream.                    *)
(***************************************************************************)
THEOREM DecodingIsExact == Spec => []FramesAreExact
<1>1. FramesInv => FramesAreExact
  BY DEF FramesInv, FramesAreExact, Scanned
<1> QED BY InitFrames, NextFrames, DecoderIsBounded, <1>1, PTL DEF Spec
====
