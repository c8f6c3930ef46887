------------------------------- MODULE Base64 -------------------------------
(***************************************************************************)
(* Base64Decode (base64.c): letters to bytes, into an area of a given      *)
(* size.                                                                   *)
(***************************************************************************)
EXTENDS Integers, Sequences, SequencesExt

CONSTANT Sextet   \* the table d, for the letters that stand for six bits

ASSUME SextetAssumption == \A l \in DOMAIN Sextet : Sextet[l] \in 0..63

\* Blanks and carriage returns are invalid, a line feed is passed over.
Class(l) ==
  CASE l \in DOMAIN Sextet -> "bits"
    [] l = "lf" -> "whitespace"
    [] l = "=" -> "equals"
    [] l \notin DOMAIN Sextet \cup {"lf", "="} -> "invalid"

ByteAt(buf, shift) == (buf \div 2^shift) % 256

\* buf, behind the letters of a group.
Buf(group) == FoldLeft(LAMBDA buf, l : 64 * buf + Sextet[l], 0, group)

\* Mutant of BytesOfGroup: the bits of an unfinished group are taken from its end.
MutBytesUnshifted(group) ==
  CASE Len(group) = 4 -> <<ByteAt(Buf(group), 16), ByteAt(Buf(group), 8), ByteAt(Buf(group), 0)>>
    [] Len(group) = 3 -> <<ByteAt(Buf(group), 8), ByteAt(Buf(group), 0)>>
    [] Len(group) = 2 -> <<ByteAt(Buf(group), 0)>>
    [] Len(group) < 2 -> <<>>

\* Three bytes of four letters; of the last ones what they are good for.
BytesOfGroup(group) ==
  CASE Len(group) = 4 -> <<ByteAt(Buf(group), 16), ByteAt(Buf(group), 8), ByteAt(Buf(group), 0)>>
    [] Len(group) = 3 -> <<ByteAt(Buf(group), 10), ByteAt(Buf(group), 2)>>
    [] Len(group) = 2 -> <<ByteAt(Buf(group), 4)>>
    [] Len(group) < 2 -> <<>>

\* The loop ends at an =.  ok is result 0; out is not looked at otherwise, for
\* which there is a letter that is invalid, or no room.
Base64Decode(in, room) ==
  LET data == SubSeq(in, 1, SelectInSeq(Append(in, "="), LAMBDA l : Class(l) = "equals") - 1)
      bits == SelectSeq(data, LAMBDA l : Class(l) = "bits")
      groups == [g \in 1..(Len(bits) + 3) \div 4 |->
                   SubSeq(bits, 4 * g - 3, Min({4 * g, Len(bits)}))]
      out == FlattenSeq([g \in DOMAIN groups |-> BytesOfGroup(groups[g])])
  IN  [ok |-> (\A l \in Range(data) : Class(l) # "invalid") /\ Len(out) <= room, out |-> out]
=============================================================================
