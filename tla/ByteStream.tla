------------------------------ MODULE ByteStream ------------------------------
(***************************************************************************)
(* What the Read and Seek implementations of ISOFileReader promise their   *)
(* caller: each reader is a position in a fixed sequence of bytes.  A read *)
(* returns the bytes at the position, as many as were asked for or as are  *)
(* left, and moves past them; a seek moves to the exact sum the caller     *)
(* named or is refused; a call that fails moves nothing.                   *)
(***************************************************************************)
EXTENDS Integers

CONSTANTS
  Readers,   \* the readers
  Size,      \* Size[r]: bytes in the file of reader r
  Content,   \* Content[r][p]: the byte of that file at position p
  MaxRead,   \* the longest buffer a caller passes to read
  I64_MAX    \* the largest i64

VARIABLES
  pos,       \* pos[r]: the position of reader r
  reply      \* what the last call returned

streamVars == <<pos, reply>>

NoData == [i \in {} |-> 0]

Reply(op, r, ok, n, data) ==
  [op |-> op, r |-> r, ok |-> ok, n |-> n, data |-> data]

Init ==
  /\ pos = [r \in Readers |-> 0]
  /\ \E r \in Readers : reply = Reply("none", r, TRUE, 0, NoData)

(* How many bytes a read of n bytes at position p of reader r returns. *)
Count(r, p, n) ==
  IF p >= Size[r] THEN 0 ELSE IF Size[r] - p < n THEN Size[r] - p ELSE n

Read(r, n) ==
  LET k == Count(r, pos[r], n)
  IN  /\ pos' = [pos EXCEPT ![r] = @ + k]
      /\ reply' = Reply("read", r, TRUE, k,
                        [i \in 0 .. k - 1 |-> Content[r][pos[r] + i]])

(* The caller's offset is relative to the start, the end or the position. *)
Seek(r, base, offset) ==
  LET target == base + offset
  IN  IF target \in 0 .. I64_MAX
      THEN /\ pos' = [pos EXCEPT ![r] = target]
           /\ reply' = Reply("seek", r, TRUE, target, NoData)
      ELSE /\ reply' = Reply("seek", r, FALSE, 0, NoData)
           /\ UNCHANGED pos

Fail(r) ==
  /\ reply' = Reply("read", r, FALSE, 0, NoData)
  /\ UNCHANGED pos

Next ==
  \E r \in Readers :
    \/ \E n \in 0 .. MaxRead : Read(r, n)
    \/ Fail(r)
    \/ \E offset \in 0 .. (2 * I64_MAX) + 1 : Seek(r, 0, offset)
    \/ \E offset \in -(I64_MAX + 1) .. I64_MAX :
         Seek(r, Size[r], offset) \/ Seek(r, pos[r], offset)

Spec == Init /\ [][Next]_streamVars

=============================================================================
