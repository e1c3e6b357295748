------------------------------ MODULE MCVolume ------------------------------
(***************************************************************************)
(* An image of two-byte blocks with several volumes one after the other:   *)
(* Rock Ridge and Joliet side by side; Joliet only, with two descriptors   *)
(* of each kind; no primary descriptor; a wrong block size; garbage before *)
(* the terminator; an enhanced descriptor; an encoding, an identifier or a *)
(* date that does not parse; no terminator.  The directories are in blocks *)
(* 0 and 1.                                                                *)
(***************************************************************************)
EXTENDS Volume, TLC

Desc(type, root) ==
  [type |-> type, version |-> 1, encoding |-> "Iso9660", utf8 |-> TRUE, biblio |-> TRUE,
   dates |-> "digits", size |-> [le |-> 2, be |-> 2], root |-> root]
Joliet == [Desc(2, "joliet") EXCEPT !.encoding = "Ucs2Level3", !.utf8 = FALSE]
MCDescriptors == [
  boot |-> Desc(0, None), other |-> Desc(3, None),
  rr |-> [Desc(1, "rr") EXCEPT !.size.be = 0],
  plain |-> [Desc(1, "plain") EXCEPT !.dates = "zeros"],
  small |-> [Desc(1, "plain") EXCEPT !.size.le = 1],
  sup |-> Joliet,
  supsmall |-> [Joliet EXCEPT !.size.le = 1],
  enhanced |-> [Joliet EXCEPT !.version = 2],
  koi8 |-> [Desc(1, "plain") EXCEPT !.encoding = "other"],
  latin |-> [Desc(1, "plain") EXCEPT !.utf8 = FALSE],
  undated |-> [Desc(1, "plain") EXCEPT !.dates = "blank"],
  biblio |-> [Joliet EXCEPT !.biblio = FALSE],
  term |-> Desc(255, None)]

MCBlocks == <<"x", "x",
  "boot", "rr", "sup", "term",
  "rr", "sup", "plain", "sup", "term",
  "sup", "other", "term",
  "rr", "small", "term",
  "rr", "supsmall", "term",
  "rr", "x", "term",
  "plain", "term",
  "rr", "enhanced", "term",
  "koi8", "term",
  "latin", "term",
  "undated", "term",
  "rr", "biblio", "term",
  "rr", "boot">>
MCStarts == {2, 6, 11, 14, 17, 20, 23, 25, 28, 30, 32, 34, 37}
MCImageLen == 2 * Len(MCBlocks)
MCImage == [a \in 0 .. MCImageLen - 1 |->
              IF a % 2 = 0 THEN MCBlocks[(a \div 2) + 1] ELSE "x"]
MCCell == {"x"} \cup DOMAIN MCDescriptors

MCChildren == [
  rr |-> [dir |-> "rrdir", long |-> "rrfile"],
  rrdir |-> (".." :> "rr") @@ [file |-> "rrfile"],
  plain |-> [LONG |-> "plainfile"],
  joliet |-> [dir |-> "joldir"],
  joldir |-> [file |-> "jolfile"]]
MCDirLba == [d \in DOMAIN MCChildren |-> IF d \in {"rr", "plain"} THEN 0 ELSE 1]
MCPaths == {<<"", "">>, <<"", "long">>, <<"dir", "", "file">>, <<"long", "file">>,
            <<"dir", "..", "long">>, <<"dir", "none">>}

=============================================================================
