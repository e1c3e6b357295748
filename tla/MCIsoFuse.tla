------------------------------ MODULE MCIsoFuse ------------------------------
(***************************************************************************)
(* A root with a file "f", a directory "d" and, between them, a directory  *)
(* "m" that was relocated there; before "f" comes "a", an associated file  *)
(* of the same name.  "d" holds a symbolic link, a hard link "h" to "f",   *)
(* and ends in the relocated directory too.  "dot" is the "." of "d" and   *)
(* "m".  The run about nodes leaves "m" out.                               *)
(***************************************************************************)
EXTENDS IsoFuse

MCEntries == {"root", "a", "f", "m", "d", "dot", "l", "h"}
MCNodesEntries == MCEntries \ {"m"}
MCNames == {"f", "m", "d", "l", "h"}
MCKind == [e \in Entries |->
             CASE e \in {"a", "f", "h"} -> "file" [] e = "l" -> "symlink" [] OTHER -> "dir"]
MCName == [e \in Entries |->
             CASE e \in MCNames -> e [] e = "a" -> "f" [] OTHER -> "."]
MCExtent == [e \in Entries |->
               CASE e = "h" -> "f" [] e = "dot" -> "d" [] OTHER -> e]
MCSerial == [e \in Entries |->
               CASE e = "root" -> 2 [] e \in {"f", "h"} -> 3 [] e = "a" -> 4
                 [] e \in {"d", "dot"} -> 5 [] e = "l" -> 6 [] e = "m" -> 7]
MCListing == [e \in Entries \cap {"root", "d", "dot", "m"} |->
                SelectSeq(CASE e = "root" -> <<"root", "a", "f", "m", "d">>
                            [] e \in {"d", "dot"} -> <<"dot", "l", "h", "m">>
                            [] e = "m" -> <<"dot">>,
                          LAMBDA x : x \in Entries)]
MCBothModes == BOOLEAN
MCSerialMode == {FALSE}

=============================================================================
