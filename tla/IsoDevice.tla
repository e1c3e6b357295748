------------------------------ MODULE IsoDevice ------------------------------
(***************************************************************************)
(* The image behind an ISO9660 value: the one reader T that every ISOFile, *)
(* ISODirectory, ISOFileReader and directory iterator shares through       *)
(* FileRef (an Rc<RefCell<T>>), with the single file position all of them  *)
(* move.  The image is addressed in bytes; what a byte is (a Cell) is left *)
(* to the module that reads it.                                            *)
(***************************************************************************)
EXTENDS Integers

CONSTANTS
  BLOCK_SIZE,  \* bytes in a block (2048 in the code)
  Cell,        \* the values a byte of the image can have
  ZERO,        \* the byte a fresh BlockBuffer is filled with
  ImageLen,    \* bytes in the image
  Image,       \* the bytes of the image
  Faults,      \* what the reader may do wrong: "error", "short"
  MaxFaults    \* how often it may: the bound on the fault counter

ASSUME DeviceAssumption ==
  /\ BLOCK_SIZE \in Nat \ {0}
  /\ ZERO \in Cell
  /\ ImageLen \in Nat
  /\ Image \in [0 .. ImageLen - 1 -> Cell]
  /\ Faults \subseteq {"error", "short"}
  /\ MaxFaults \in Nat

VARIABLES
  cursor,      \* the file position of the shared reader
  faults       \* how many times the reader has failed or fallen short

deviceVars == <<cursor, faults>>

-----------------------------------------------------------------------------

(* A BlockBuffer, and the one BlockBufferCtor::new() makes. *)
BlockBuffer == [0 .. BLOCK_SIZE - 1 -> Cell]
NewBlockBuffer == [i \in 0 .. BLOCK_SIZE - 1 |-> ZERO]

(* Where the seek that precedes every read leaves the shared position. *)
SeekPos(lba) == lba * BLOCK_SIZE

(* How many bytes a read into a BlockBuffer can get at a position: none    *)
(* past the end of the image, part of a block at its end.                  *)
Available(at) ==
  IF at >= ImageLen THEN 0
  ELSE IF ImageLen - at < BLOCK_SIZE THEN ImageLen - at ELSE BLOCK_SIZE

(* Read::read from a position: everything that is there or, when the       *)
(* reader falls short, a part of it.                                       *)
ReadOk(at, n) ==
  /\ \/ /\ n = Available(at)
        /\ UNCHANGED faults
     \/ /\ "short" \in Faults
        /\ faults < MaxFaults
        /\ n \in 1 .. Available(at) - 1
        /\ faults' = faults + 1
  /\ cursor' = at + n

(* read_at returns Ok(n): it reads where the seek has left the position. *)
ReadAtOkUnsought(lba, n) == ReadOk(cursor, n)
ReadAtOk(lba, n) == ReadOk(SeekPos(lba), n)

(* The buffer it was given: it begins with the n bytes the reader has just *)
(* passed, wherever that was; the tail keeps what it had.                  *)
Fill(buf, at, n) ==
  [i \in 0 .. BLOCK_SIZE - 1 |-> IF i < n THEN Image[at + i] ELSE buf[i]]
ReadInto(buf, n) == Fill(buf, cursor' - n, n)

(* read_at returns Err: the seek failed, or the read after it did.  An     *)
(* error leaves the buffer alone (the contract of std::io::Read).          *)
ReadAtErr(lba) ==
  /\ "error" \in Faults
  /\ faults < MaxFaults
  /\ faults' = faults + 1
  /\ cursor' \in {cursor, SeekPos(lba)}

DeviceInit == cursor = 0 /\ faults = 0

DeviceTypeOK == cursor \in Nat /\ faults \in 0 .. MaxFaults

=============================================================================
