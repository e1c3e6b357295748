----------------------------- MODULE MCEntryMeta -----------------------------
(***************************************************************************)
(* Records of plain names with and without extension and version, "." and  *)
(* ".."; entries of each kind, among them names, links and times that are  *)
(* spread over several entries.                                            *)
(***************************************************************************)
EXTENDS EntryMeta

At(day, sec, gmt) == [day |-> day, sec |-> sec, gmt |-> gmt]

IsoFile(base, extension, name, version) ==
  [dir |-> FALSE, base |-> base, extension |-> extension, name |-> name,
   version |-> version, len |-> 5, time |-> At(1, 60, 4)]
Directory(name) == [IsoFile(<<>>, <<>>, name, "1") EXCEPT !.dir = TRUE]

MCHeaders == {
  IsoFile(<<"A">>, <<"TXT">>, <<"A", ".", "TXT", ";", "2">>, "2"),
  IsoFile(<<"A">>, <<>>, <<"A", ".", ";", "1">>, "1"),
  IsoFile(<<"B">>, <<>>, <<"B">>, "1"),
  IsoFile(<<"C">>, <<"X">>, <<"C", ".", "X">>, "1"),
  Directory(<<"\\0">>), Directory(<<"SUB">>)}
MCTokens == STRING
MCNumbers == {"1", "2"}

NM(name, continue) == [t |-> "NM", name |-> name, continue |-> continue, utf8 |-> TRUE]
SL(records, continue) == [t |-> "SL", records |-> records, continue |-> continue]
Part(flags, text) == [flags |-> flags, text |-> text]
PX(mode) == [t |-> "PX", mode |-> mode, uid |-> 0, gid |-> 0]
TF(flags, times) == [t |-> "TF", flags |-> flags, times |-> times, long |-> FALSE]

MCNamesAndTimes == {
  NM(<<"al">>, TRUE), NM(<<"pha">>, FALSE), NM(<<".">>, TRUE), NM(<<>>, FALSE),
  TF({"modify"}, <<At(2, 0, 52)>>), TF({"creation", "access"}, <<At(3, 86399, 0), At(4, 3600, 4)>>),
  TF({"attributes", "modify", "access"}, <<At(5, 0, 0), At(None, 7, 1), At(6, None, 236)>>), TF({}, <<>>),
  TF({"modify", "backup"}, <<At(7, 1, 1), At(8, 2, 0)>>), TF({"access", "creation"}, <<At(9, 4, 103)>>),
  [TF({"access"}, <<At(9, 3, 0)>>) EXCEPT !.long = TRUE],
  PX({15, 8, 7, 5}), PX({14, 13, 16, 4}), PX({15, 14, 11, 6, 10, 0}), PX({14, 9, 8, 1}),
  [NM(<<"bad">>, FALSE) EXCEPT !.utf8 = FALSE],
  [t |-> "ER", ids |-> <<"RRIP_1991A">>], [t |-> "ER", ids |-> <<>>], [t |-> "RE"], [t |-> "CL"]}
MCLinks == {
  SL(<<Part({"ROOT"}, <<>>), Part({}, <<"usr">>)>>, FALSE),
  SL(<<Part({}, <<"a">>)>>, TRUE), SL(<<Part({"CURRENT"}, <<>>)>>, TRUE),
  SL(<<Part({"PARENT"}, <<>>), Part({}, <<"b">>)>>, FALSE), SL(<<>>, FALSE),
  PX({15, 13} \cup (0 .. 8))}
MCEntries == MCNamesAndTimes \cup MCLinks

=============================================================================
