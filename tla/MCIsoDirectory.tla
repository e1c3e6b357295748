--------------------------- MODULE MCIsoDirectory ---------------------------
(***************************************************************************)
(* Three directories in blocks of six bytes.  The root has two blocks: the *)
(* first is filled to the last byte, the second ends one byte before a     *)
(* record could not fit.  "sub" has a block that ends in zeros and one     *)
(* with a record that does not parse; the directory behind the child link  *)
(* "cl" has a file whose name is refused.  The System Use entries of "a"   *)
(* go on in three continuation areas; the name ends in the second.         *)
(***************************************************************************)
EXTENDS IsoDirectory

CE(loc, offset, length) ==
  [t |-> "CE", loc |-> loc, offset |-> offset, length |-> length]
NM(name, continue) == [t |-> "NM", name |-> name, continue |-> continue]

File(name, len, susp) ==
  [name |-> <<name>>, len |-> len, kind |-> "file", loc |-> 0, size |-> 0,
   assoc |-> FALSE, bad |-> "no", susp |-> susp]
Directory(name, len, loc, size) ==
  [File(name, len, <<>>) EXCEPT !.kind = "dir", !.loc = loc, !.size = size]

MCRoot == Dir(0, 12)

MCRecords == [
  dot |-> Directory(".", 2, 0, 12),
  a   |-> File("a", 2, <<NM("al", TRUE), CE(6, 0, 4)>>),
  b   |-> File("b", 2, <<>>),
  sub |-> Directory("sub", 3, 2, 12),
  cl  |-> File("cl", 2, <<[t |-> "CL", loc |-> 4]>>),
  dots |-> Directory(".", 2, 2, 12),
  xa  |-> [File("x", 2, <<>>) EXCEPT !.assoc = TRUE],
  x   |-> File("X", 3, <<>>),
  p   |-> [File("p", 2, <<>>) EXCEPT !.bad = "parse"],
  dotc |-> Directory(".", 2, 4, 6),
  v   |-> [File("v", 2, <<>>) EXCEPT !.bad = "name"],
  y   |-> File("y", 2, <<>>)]

MCSuspEntries == [
  n2 |-> NM("p", TRUE), c2 |-> CE(7, 0, 4), n3 |-> NM("h", TRUE),
  n6 |-> NM("a", TRUE),
  n4 |-> NM("bet", FALSE), n5 |-> NM("tail", FALSE),
  c3 |-> CE(5, 0, 1), re |-> [t |-> "RE"], n7 |-> NM("tail", TRUE)]

z == "zero"
i == "inside"

MCBlocks == <<
  <<"dot", i, "a", i, "b", i>>,
  <<"sub", i, i, "cl", i, z>>,
  <<"dots", i, "xa", i, z, z>>,
  <<"x", i, i, "p", i, z>>,
  <<"dotc", i, "v", i, "y", i>>,
  <<"n7", z, z, z, z, z>>,
  <<"n2", "n3", "n6", "c2", z, z>>,
  <<"n4", "c3", "n5", "re", z, z>> >>

MCImageLen == 6 * Len(MCBlocks)
ImageOf(blocks) ==
  [at \in 0 .. MCImageLen - 1 |-> blocks[(at \div 6) + 1][(at % 6) + 1]]
MCImage == ImageOf(MCBlocks)
MCNames == {<<"x">>, <<"al", "p", "h", "a", "bet">>, <<"sub">>, <<"none">>}
(* Below a directory and through a child link, with empty segments, below a *)
(* file, and nowhere.                                                      *)
MCPaths == {<<>>, << <<>>, <<"sub">>, <<>>, <<"x">> >>, << <<"cl">>, <<".">> >>,
            << <<"b">>, <<"x">> >>, << <<"sub">>, <<"y">> >>}
MCWalkPaths == {<< <<>> >>, << <<"sub">>, <<"x">> >>}
MCSub == {<<"sub">>}
MCPieces == {".", "a", "b", "sub", "cl", "x", "X", "p", "v", "y", "al", "h", "bet",
             "tail", "none"}
MCLower == [p \in MCPieces |-> IF p = "X" THEN "x" ELSE p]
MCCell == DOMAIN MCRecords \cup DOMAIN MCSuspEntries \cup {z, i}

(* The directories are as ISO 9660 wants them. *)
ASSUME AllWellFormed

(* So are the continuation areas, but for the one below. *)
ASSUME Records = MCRecords => AreasWellFormed

(* The first continuation area does not begin at the start of its block. *)
MCRecordsOffset == [MCRecords EXCEPT !.a.susp = <<NM("al", TRUE), CE(6, 2, 1)>>]

=============================================================================
