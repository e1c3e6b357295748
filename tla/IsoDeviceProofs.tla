--------------------------- MODULE IsoDeviceProofs ---------------------------
(***************************************************************************)
(* Lemmas about the image and read_at, for every block size and image,     *)
(* which the proofs about the components that read it rest on.             *)
(***************************************************************************)
EXTENDS IsoDevice, TLAPS

-----------------------------------------------------------------------------
(* Blocks *)

(* A position splits into its block and its offset in the block            *)
(* (seek / blksize and seek % blksize of ISOFileReader::read).             *)
LEMMA Split ==
  ASSUME NEW p \in Nat
  PROVE  /\ p \div BLOCK_SIZE \in Nat
         /\ (p % BLOCK_SIZE) \in 0 .. BLOCK_SIZE - 1
         /\ p = ((p \div BLOCK_SIZE) * BLOCK_SIZE) + (p % BLOCK_SIZE)
<1>1. BLOCK_SIZE \in Nat /\ BLOCK_SIZE > 0
  BY DeviceAssumption
<1>2. \A b \in Nat \ {0} : /\ p \div b \in Nat
                           /\ (p % b) \in 0 .. b - 1
                           /\ p = (b * (p \div b)) + (p % b)
  OBVIOUS
<1>3. p = (BLOCK_SIZE * (p \div BLOCK_SIZE)) + (p % BLOCK_SIZE)
  BY <1>1, <1>2
<1>4. \A a, b \in Nat : a * b = b * a
  OBVIOUS
<1> QED
  BY <1>1, <1>2, <1>3, <1>4

(* Byte p of a file is in block StartLba + p / blksize of the image. *)
LEMMA BlockOfByte ==
  ASSUME NEW s \in Nat, NEW p \in Nat
  PROVE  /\ SeekPos(s + (p \div BLOCK_SIZE)) \in Nat
         /\ SeekPos(s + (p \div BLOCK_SIZE)) + (p % BLOCK_SIZE) = SeekPos(s) + p
<1> DEFINE q == p \div BLOCK_SIZE
           o == p % BLOCK_SIZE
<1>1. BLOCK_SIZE \in Nat
  BY DeviceAssumption
<1>2. q \in Nat /\ o \in Nat /\ p = (q * BLOCK_SIZE) + o
  BY Split, <1>1
<1> HIDE DEF q, o
<1>3. \A a, b, c \in Nat : (a + b) * c = (a * c) + (b * c)
  OBVIOUS
<1>4. (s + q) * BLOCK_SIZE = (s * BLOCK_SIZE) + (q * BLOCK_SIZE)
  BY <1>1, <1>2, <1>3
<1>5. \A a, b \in Nat : a * b \in Nat
  OBVIOUS
<1>6. s * BLOCK_SIZE \in Nat /\ q * BLOCK_SIZE \in Nat
  BY <1>1, <1>2, <1>5
<1> USE DEF SeekPos
<1>7. SeekPos(s + q) \in Nat /\ SeekPos(s + q) + o = SeekPos(s) + p
  BY <1>2, <1>4, <1>6
<1> QED
  BY <1>7 DEF q, o

(* The seek takes: what read_at leaves in the buffer begins with the bytes *)
(* at the block asked for.                                                 *)
LEMMA ReadIntoIs ==
  ASSUME NEW lba \in Nat, NEW n \in 0 .. BLOCK_SIZE, ReadAtOk(lba, n), NEW b
  PROVE  ReadInto(b, n) = Fill(b, SeekPos(lba), n)
<1>1. BLOCK_SIZE \in Nat
  BY DeviceAssumption
<1>2. \A a, c \in Nat : a * c \in Nat
  OBVIOUS
<1>3. SeekPos(lba) \in Nat
  BY <1>1, <1>2 DEF SeekPos
<1>4. cursor' = SeekPos(lba) + n
  BY DEF ReadAtOk, ReadOk
<1>5. cursor' - n = SeekPos(lba)
  BY <1>1, <1>3, <1>4
<1> QED
  BY <1>5 DEF ReadInto

(* What read_at can return, and what it leaves in the buffer. *)
LEMMA ReadAtOkType ==
  ASSUME NEW b \in BlockBuffer, NEW lba \in Nat, NEW n \in 0 .. BLOCK_SIZE,
         DeviceTypeOK, ReadAtOk(lba, n)
  PROVE  /\ DeviceTypeOK'
         /\ ReadInto(b, n) \in BlockBuffer
<1> DEFINE at == SeekPos(lba)
<1>1. BLOCK_SIZE \in Nat /\ ImageLen \in Nat /\ MaxFaults \in Nat
  BY DeviceAssumption
<1>2. \A a, c \in Nat : a * c \in Nat
  OBVIOUS
<1>3. at \in Nat
  BY <1>1, <1>2 DEF SeekPos
<1> HIDE DEF at
<1>4. n <= Available(at)
  BY <1>1, <1>3 DEF ReadAtOk, ReadOk, Available, at
<1>5. DeviceTypeOK'
  BY <1>1, <1>3 DEF ReadAtOk, ReadOk, DeviceTypeOK, at
<1>6. \A i \in 0 .. n - 1 : at + i \in 0 .. ImageLen - 1
  BY <1>1, <1>3, <1>4 DEF Available
<1>7. \A i \in 0 .. n - 1 : Image[at + i] \in Cell
  BY <1>6, DeviceAssumption
<1>8. Fill(b, at, n) \in BlockBuffer
  BY <1>1, <1>7 DEF Fill, BlockBuffer
<1> QED
  BY <1>5, <1>8, ReadIntoIs DEF at

(* After a read that fails the position is still one of the image or past  *)
(* it, and the fault is counted.                                           *)
LEMMA ReadAtErrType ==
  ASSUME NEW lba \in Nat, DeviceTypeOK, ReadAtErr(lba)
  PROVE  DeviceTypeOK'
<1>1. BLOCK_SIZE \in Nat /\ MaxFaults \in Nat
  BY DeviceAssumption
<1>2. \A a, c \in Nat : a * c \in Nat
  OBVIOUS
<1>3. SeekPos(lba) \in Nat
  BY <1>1, <1>2 DEF SeekPos
<1> QED
  BY <1>1, <1>3 DEF ReadAtErr, DeviceTypeOK

(* A read that gets a whole block is a read inside the image, and one that *)
(* gets less without a fault is not.                                       *)
LEMMA WholeBlock ==
  ASSUME NEW lba \in Nat, NEW n \in 0 .. BLOCK_SIZE, ReadAtOk(lba, n)
  PROVE  /\ SeekPos(lba) \in Nat
         /\ n = BLOCK_SIZE => SeekPos(lba) + BLOCK_SIZE <= ImageLen
         /\ n # BLOCK_SIZE /\ faults' = faults /\ faults \in Nat =>
              ~(SeekPos(lba) + BLOCK_SIZE <= ImageLen)
<1> DEFINE at == SeekPos(lba)
<1>1. BLOCK_SIZE \in Nat \ {0} /\ ImageLen \in Nat
  BY DeviceAssumption
<1>2. \A a, c \in Nat : a * c \in Nat
  OBVIOUS
<1>3. at \in Nat
  BY <1>1, <1>2 DEF SeekPos
<1> HIDE DEF at
<1>4. \/ n = Available(at)
      \/ n \in 1 .. Available(at) - 1 /\ faults' = faults + 1
  BY DEF ReadAtOk, ReadOk, at
<1>5. Available(at) \in 0 .. BLOCK_SIZE
  BY <1>1, <1>3 DEF Available
<1>6. Available(at) = BLOCK_SIZE <=> at + BLOCK_SIZE <= ImageLen
  BY <1>1, <1>3 DEF Available
<1> QED
  BY <1>1, <1>3, <1>4, <1>5, <1>6 DEF at

=============================================================================
