--------------------------- MODULE DirectoryStream ---------------------------
(***************************************************************************)
(* What ISODirectory promises its caller.  An iterator is a directory and  *)
(* the set of its records that have been handed out: each call hands out   *)
(* the first of those that are left, says that there are none left, or     *)
(* fails and changes nothing.  A path is answered with the record it leads *)
(* to or with None if it leads nowhere, or fails.  How records lie in      *)
(* blocks, what is cached and how the shared image is read is not visible. *)
(***************************************************************************)
EXTENDS Integers

CONSTANTS
  Iterators,     \* the iterators
  Root,          \* the directory they begin with
  Offsets(_),    \* Offsets(d): the offsets of the records of directory d
  Locate(_, _),  \* Locate(d, path): what the path leads to from directory d
  Nowhere        \* what a path that leads nowhere leads to

VARIABLES
  dir,           \* dir[w]: the directory of iterator w
  yielded,       \* yielded[w]: the offsets of the records it has handed out
  asked,         \* the call that has not returned yet
  answer         \* what the last call returned, until the next begins

streamVars == <<dir, yielded, asked, answer>>

-----------------------------------------------------------------------------

Nothing == [op |-> "none"]
AskNext(w) == [op |-> "next", w |-> w]
AskFind(d, path) == [op |-> "find", from |-> d, path |-> path]

Entry(at) == [res |-> "some", at |-> at]
NoEntry == [res |-> "none"]
Error == [res |-> "err"]

(* Where a record is. *)
Place(at) == [dir |-> at.dir, offset |-> at.offset]

Left(w) == Offsets(dir[w]) \ yielded[w]

Init ==
  /\ dir = [w \in Iterators |-> Root]
  /\ yielded = [w \in Iterators |-> {}]
  /\ asked = Nothing
  /\ answer = NoEntry

(* A fresh iterator, over any directory the caller has. *)
Contents(w) ==
  /\ asked = Nothing
  /\ dir' = [dir EXCEPT ![w] = dir'[w]]
  /\ yielded' = [yielded EXCEPT ![w] = {}]
  /\ answer' = NoEntry
  /\ UNCHANGED asked

Call ==
  /\ asked = Nothing
  /\ \/ asked' \in {AskNext(w) : w \in Iterators}
     \/ asked'.op = "find" /\ asked' = AskFind(asked'.from, asked'.path)
  /\ answer' = NoEntry
  /\ UNCHANGED <<dir, yielded>>

(* The first record that is left. *)
Yield(w) ==
  /\ asked = AskNext(w)
  /\ \E o \in Left(w) :
       /\ \A other \in Left(w) : o <= other
       /\ yielded' = [yielded EXCEPT ![w] = @ \cup {o}]
       /\ answer' = Entry([dir |-> dir[w], offset |-> o])
  /\ asked' = Nothing
  /\ UNCHANGED dir

End(w) ==
  /\ asked = Nothing
  /\ Left(w) = {}
  /\ answer' = NoEntry
  /\ UNCHANGED <<dir, yielded, asked>>

Find ==
  /\ asked.op = "find"
  /\ LET at == Locate(asked.from, asked.path)
     IN  answer' = IF at = Nowhere THEN NoEntry ELSE Entry(Place(at))
  /\ asked' = Nothing
  /\ UNCHANGED <<dir, yielded>>

Fail ==
  /\ asked # Nothing
  /\ answer' = Error
  /\ asked' = Nothing
  /\ UNCHANGED <<dir, yielded>>

Next ==
  \/ Call \/ Find \/ Fail
  \/ \E w \in Iterators : Contents(w) \/ Yield(w) \/ End(w)

Spec == Init /\ [][Next]_streamVars

=============================================================================
