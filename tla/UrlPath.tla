------------------------------- MODULE UrlPath -------------------------------
(***************************************************************************)
(* urlpath.c and static.c: the path of a request, decoded in place, and    *)
(* the test whether it is in one of the mapped folders.  A path is memory  *)
(* (offsets from 0 to bytes), its length and the number of slashes that    *)
(* were counted.  Bytes are numbers; a read of memory that was not written *)
(* gives the byte heap.                                                    *)
(***************************************************************************)
EXTENDS Integers, Sequences, FiniteSets, SequencesExt

Slash == 47
Percent == 37

IsHex(b) == b \in 48..57 \/ b \in 65..70 \/ b \in 97..102
HexValue(b) ==
  CASE b \in 48..57  -> b - 48
    [] b \in 65..70  -> b - 55
    [] b \in 97..102 -> b - 87

\* Mutant of HexByte: the first digit is shifted by a byte.
MutHexShift(b1, b2) ==
  IF IsHex(b1) /\ IsHex(b2) THEN 256 * HexValue(b1) + HexValue(b2) ELSE 0

\* strtoul of two characters: up to the first that is no hex digit.  (A sign,
\* a blank or 0x in front are left out.)
HexByte(b1, b2) ==
  CASE IsHex(b1) /\ IsHex(b2)  -> 16 * HexValue(b1) + HexValue(b2)
    [] IsHex(b1) /\ ~IsHex(b2) -> HexValue(b1)
    [] OTHER                   -> 0

Bytes(mem, heap, i) == IF i \in DOMAIN mem THEN mem[i] ELSE heap

\* Mutant of DecodeLetter: the letters behind an escape stay where they are.
MutDecodeNoMove(d, left, heap) ==
  LET raw == Bytes(d.mem, heap, d.read)
      escape == raw = Percent /\ left >= 2
      let == IF escape
             THEN HexByte(Bytes(d.mem, heap, d.read + 1), Bytes(d.mem, heap, d.read + 2))
             ELSE raw
  IN  [mem   |-> IF escape THEN [d.mem EXCEPT ![d.write] = let] ELSE d.mem,
       read  |-> d.read + IF escape THEN 3 ELSE 1,
       write |-> d.write + 1,
       dup   |-> escape,
       slash |-> d.slash + IF let = Slash THEN 1 ELSE 0]

\* decode: one turn of the loop, with left the length that is left.  An
\* escape takes three bytes and counts for one.
DecodeLetter(d, left, heap) ==
  LET raw == Bytes(d.mem, heap, d.read)
      escape == raw = Percent /\ left >= 2
      let == IF escape
             THEN HexByte(Bytes(d.mem, heap, d.read + 1), Bytes(d.mem, heap, d.read + 2))
             ELSE raw
      dup == d.dup \/ escape
  IN  [mem   |-> IF dup THEN [d.mem EXCEPT ![d.write] = let] ELSE d.mem,
       read  |-> d.read + IF escape THEN 3 ELSE 1,
       write |-> d.write + 1,
       dup   |-> dup,
       slash |-> d.slash + IF let = Slash THEN 1 ELSE 0]

\* decode of n > 0 bytes: n - 1 turns, so the last byte of a path is not
\* looked at, and behind an escape the turns go on past the end.
Decode(raw, heap) ==
  LET n == Len(raw)
      start == [mem   |-> [i \in 0..n |-> IF i < n THEN raw[i + 1] ELSE heap],
                read  |-> 0, write |-> 0, dup |-> FALSE, slash |-> 0]
      turn[k \in 0..n - 1] ==
        IF k = 0 THEN start ELSE DecodeLetter(turn[k - 1], n - k, heap)
      done == turn[n - 1]
  IN  [mem |-> [done.mem EXCEPT ![n] = 0], len |-> n, slashcnt |-> done.slash]

\* urlpathc(path, len): a leading slash is dropped.
WithoutSlash(raw) == IF raw # <<>> /\ Head(raw) = Slash THEN Tail(raw) ELSE raw

\* urlpathc(path): the url of a folder in conf.xml.
FolderPath(url) ==
  [mem |-> [i \in 0..Len(url) |-> IF i < Len(url) THEN url[i + 1] ELSE 0],
   len |-> Len(url),
   slashcnt |-> Cardinality({i \in 1..Len(url) : url[i] = Slash})]

\* The first slash from an offset on.
NextSlash(p, from) ==
  CHOOSE i \in from..p.len - 1 : p.mem[i] = Slash /\ \A j \in from..i - 1 : p.mem[j] # Slash

\* slashpos: the places of the slashes that were counted.
SlashPos(p) ==
  LET pos[k \in 1..p.slashcnt] == NextSlash(p, IF k = 1 THEN 0 ELSE pos[k - 1] + 1)
  IN  pos

\* The C string in p from an offset on.
CString(p, from) ==
  LET nul == CHOOSE i \in from..p.len :
               p.mem[i] = 0 /\ \A j \in from..i - 1 : p.mem[j] # 0
  IN  [i \in 1..nul - from |-> p.mem[from + i - 1]]

\* Mutant of InFolder: the length of the folder's name is not compared.
MutInFolderPrefix(p, f) ==
  /\ f.slashcnt = p.slashcnt - 1
  /\ \A i \in 0..SlashPos(p)[1] - 1 : f.mem[i] = p.mem[i]

\* infolder: as many parts as the folder and one more.  The loop over the
\* parts never goes on to the next one, so only the first is compared.
InFolder(p, f) ==
  /\ f.slashcnt = p.slashcnt - 1
  /\ LET end == SlashPos(p)[1] IN
     /\ end = IF f.slashcnt > 0 THEN SlashPos(f)[1] ELSE f.len
     /\ \A i \in 0..end - 1 : f.mem[i] = p.mem[i]

\* ismapped: the first of the folders that p is in, or 0.
IsMapped(p, urls) ==
  LET in == {i \in 1..Len(urls) : InFolder(p, FolderPath(urls[i]))}
  IN  IF in = {} THEN 0 ELSE CHOOSE i \in in : \A j \in in : i <= j

\* getfile: what follows the last slash.  (The case that this is the last
\* byte cannot be: that byte is not counted.)
GetFile(p) == CString(p, SlashPos(p)[p.slashcnt] + 1)
=============================================================================
