---------------------------- MODULE MCFileReader ----------------------------
(***************************************************************************)
(* Two files in an image of three-byte blocks: a file of four bytes (one   *)
(* whole block and the start of the next) and one of a single block.       *)
(* Every byte of the image is different.                                   *)
(***************************************************************************)
EXTENDS FileReader

MCStartLba == [r \in Readers |-> IF r = "a" THEN 1 ELSE 3]
MCSize == [r \in Readers |-> IF r = "a" THEN 4 ELSE 2]
MCImageLen == 12
MCImage == [a \in 0 .. MCImageLen - 1 |-> a + 1]
MCCell == 0 .. MCImageLen

=============================================================================
