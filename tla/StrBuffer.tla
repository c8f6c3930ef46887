------------------------------ MODULE StrBuffer ------------------------------
(***************************************************************************)
(* str_buffer.c: text in an area of memory that grows when it is full.     *)
(* The area holds maxlen bytes; content is the text up to pos, and behind  *)
(* it there must be room for the NUL that ends it.  int does not overflow  *)
(* here: lengths stay far below 2^31.                                      *)
(***************************************************************************)
EXTENDS Integers, Sequences

CONSTANTS
  Byte,       \* the values of a char, as numbers
  BufLen,     \* BUFLEN: 5000 in the code
  Slack       \* 50 in str_buffer__extend, which also has twice that

ASSUME ByteAssumption == Byte \subseteq Nat
ASSUME SizesAssumption == BufLen \in Nat \ {0} /\ Slack \in Nat

VARIABLES
  maxlen,     \* size of the area
  content,    \* the text from data to pos
  tail,       \* val_append: what its loop has written behind pos
  todo,       \* val_append: the letters it has not come to; <<>> otherwise
  inval,      \* val_append is running
  text,       \* what was asked to be appended, escapes written out
  lost        \* the area grew while the loop had written something

vars == <<maxlen, content, tail, todo, inval, text, lost>>

MaxPos == maxlen - 1

\* Mutant of Extended: the area grows by a fixed step.
MutExtendedByStep(needed) == maxlen + 2 * Slack

\* str_buffer__extend: the new size; the text up to pos is copied.
Extended(needed) ==
  maxlen + IF maxlen < needed + Slack THEN needed + 2 * Slack ELSE maxlen

\* str_append and str_appendZ.
StrAppend(s) ==
  LET end == Len(content) + Len(s) IN
  /\ ~inval
  /\ maxlen' = IF end > MaxPos THEN Extended(end - MaxPos) ELSE maxlen
  /\ content' = content \o s
  /\ text' = text \o s
  /\ UNCHANGED <<tail, todo, inval, lost>>

\* val_append is called.
ValBegin(val) ==
  /\ ~inval
  /\ inval' = TRUE
  /\ todo' = val
  /\ tail' = <<>>
  /\ UNCHANGED <<maxlen, content, text, lost>>

\* The top of the loop.  When the area is nearly full it is extended, which
\* copies the text up to buffer->pos; pos is set to that, and what the loop
\* has written is gone.
NearlyFull == Len(content) + Len(tail) + 2 >= MaxPos

\* Mutant of KeptTail: each letter starts at buffer->pos.
MutKeptNothing == <<>>

KeptTail == IF NearlyFull THEN <<>> ELSE tail

MakeRoom ==
  /\ maxlen' = IF NearlyFull THEN Extended(2) ELSE maxlen
  /\ lost' = (lost \/ (NearlyFull /\ tail # <<>>))

\* A backslash goes in front of backslash, apostrophe and quote.
Backslash == 92
Special == {Backslash, 39, 34}
Escape(let) == IF let \in Special THEN <<Backslash, let>> ELSE <<let>>

\* val_append: one letter.
ValLetter ==
  /\ inval
  /\ todo # <<>>
  /\ MakeRoom
  /\ tail' = KeptTail \o Escape(Head(todo))
  /\ text' = text \o Escape(Head(todo))
  /\ todo' = Tail(todo)
  /\ UNCHANGED <<content, inval>>

\* val_append: the NUL of the value, which asks for room as well.
ValEnd ==
  /\ inval
  /\ todo = <<>>
  /\ MakeRoom
  /\ content' = content \o KeptTail
  /\ tail' = <<>>
  /\ inval' = FALSE
  /\ UNCHANGED <<todo, text>>

-----------------------------------------------------------------------------
\* str_buffer__new.
Init ==
  /\ maxlen = BufLen
  /\ content = <<>>
  /\ tail = <<>>
  /\ todo = <<>>
  /\ inval = FALSE
  /\ text = <<>>
  /\ lost = FALSE

Next ==
  \/ \E s \in Seq(Byte) : StrAppend(s) \/ ValBegin(s)
  \/ ValLetter
  \/ ValEnd

Spec == Init /\ [][Next]_vars

-----------------------------------------------------------------------------
\* The type of the state.
TypeOK ==
  /\ maxlen \in Nat
  /\ content \in Seq(Byte \cup {Backslash})
  /\ tail \in Seq(Byte \cup {Backslash})
  /\ todo \in Seq(Byte)
  /\ inval \in BOOLEAN
  /\ text \in Seq(Byte \cup {Backslash})
  /\ lost \in BOOLEAN

\* Nothing is written outside the area, the ending NUL included: neither by
\* str_append nor, after the room it makes, by the loop of val_append
\* (str_buffer.c:42-46, 56-72).
InArea == Len(content) + Len(tail) + 1 <= maxlen

\* The buffer has all that was asked to be appended, in that order, as long
\* as the area never grew behind letters that val_append had written.
TextKept == ~lost => content \o tail = text
=============================================================================
