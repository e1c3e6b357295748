--------------------------- MODULE FileReaderProofs ---------------------------
(***************************************************************************)
(* Proofs about FileReader, for every image, block size, set of readers    *)
(* and sequence of calls: TypeOK; on an intact image, ReadsTheFile; and    *)
(* that FileReader implements ByteStream.                                  *)
(***************************************************************************)
EXTENDS FileReader, IsoDeviceProofs

-----------------------------------------------------------------------------
(* One iteration of the loop *)

(* The chunk an iteration copies is not empty, lies inside the block and   *)
(* inside the file, and fits in what is left of the caller's buffer.       *)
LEMMA Iteration ==
  ASSUME TypeOK, CallInBounds, pc = "read", More
  PROVE  /\ Lba \in Nat
         /\ Done \in Nat
         /\ Start \in 0 .. BLOCK_SIZE - 1
         /\ Chunk \in Nat \ {0}
         /\ Start + Chunk <= BLOCK_SIZE
         /\ Done + Chunk <= call.n
         /\ call.seek + Chunk <= Size[call.r]
<1> DEFINE q == call.seek \div BLOCK_SIZE
           m == q * BLOCK_SIZE
           size == Size[call.r]
<1>1. BLOCK_SIZE \in Nat
  BY DeviceAssumption
<1>2. call.seek \in Nat /\ call.n \in Nat /\ seek[call.r] \in Nat /\ size \in Nat
  BY ReaderAssumption DEF TypeOK
<1>3. q \in Nat /\ StartLba[call.r] \in Nat
  BY <1>2, Split, ReaderAssumption DEF TypeOK
<1>4. m \in Nat
  BY <1>1, <1>3, \A a, c \in Nat : a * c \in Nat
<1>5. Start \in 0 .. BLOCK_SIZE - 1 /\ call.seek = m + Start
  BY <1>2, Split DEF Start
<1>6. Lba \in Nat
  BY <1>3 DEF Lba
<1>7. Done \in Nat /\ Done < call.n /\ call.seek < size
  BY <1>2 DEF More, CallInBounds, Done
<1>8. End = IF size - m < BLOCK_SIZE THEN size - m ELSE BLOCK_SIZE
  BY DEF End
<1> HIDE DEF q, m, size
<1>9. Start < End /\ End <= BLOCK_SIZE /\ m + End <= size /\ End \in Nat
  BY <1>1, <1>2, <1>4, <1>5, <1>7, <1>8
<1>10. /\ Chunk \in Nat \ {0} /\ Chunk <= End - Start /\ Done + Chunk <= call.n
  BY <1>1, <1>2, <1>5, <1>7, <1>9 DEF Chunk
<1>11. Start + Chunk <= BLOCK_SIZE /\ call.seek + Chunk <= size
  BY <1>1, <1>2, <1>4, <1>5, <1>9, <1>10
<1> QED
  BY <1>5, <1>6, <1>7, <1>10, <1>11 DEF size

(* Copying from a block leaves well-typed locals within their bounds. *)
LEMMA CopyType ==
  ASSUME TypeOK, CallInBounds, pc = "read", More,
         NEW block \in BlockBuffer, CopyFrom(block), UNCHANGED <<seek, pc>>
  PROVE  /\ call'.r \in Readers
         /\ call'.n \in 0 .. MaxRead
         /\ call'.seek \in 0 .. I64_MAX
         /\ call'.dst \in Buffer(call'.n)
         /\ CallInBounds'
<1>1. BLOCK_SIZE \in Nat /\ MaxRead \in Nat /\ I64_MAX \in Nat
  BY DeviceAssumption, ReaderAssumption
<1>2. /\ Done \in Nat /\ Start \in 0 .. BLOCK_SIZE - 1 /\ Chunk \in Nat
      /\ Start + Chunk <= BLOCK_SIZE
      /\ Done + Chunk <= call.n
      /\ call.seek + Chunk <= Size[call.r]
  BY Iteration
<1>3. call.seek \in Nat /\ seek[call.r] \in Nat /\ call.r \in Readers /\ call.n \in 0 .. MaxRead
  BY DEF TypeOK
<1>4. Size[call.r] \in Nat /\ Size[call.r] <= I64_MAX
  BY <1>3, ReaderAssumption
<1>5. \A i \in 0 .. call.n - 1 :
        Done <= i /\ i < Done + Chunk => Start + (i - Done) \in 0 .. BLOCK_SIZE - 1
  BY <1>1, <1>2, <1>3
<1>6. \A i \in 0 .. call.n - 1 :
        Done <= i /\ i < Done + Chunk => block[Start + (i - Done)] \in Cell
  BY <1>5 DEF BlockBuffer
<1>7. \A i \in 0 .. call.n - 1 : call.dst[i] \in Cell
  BY DEF TypeOK, Buffer
<1>8. Copied(block) \in Buffer(call.n)
  BY <1>6, <1>7 DEF Copied, Buffer
<1>9. call'.r = call.r /\ call'.n = call.n /\ call'.dst = Copied(block)
      /\ call'.seek = call.seek + Chunk
  BY DEF CopyFrom
<1>10. call'.seek \in 0 .. I64_MAX
  BY <1>1, <1>2, <1>3, <1>4, <1>9
<1>11. CallInBounds'
  <2>1. seek'[call'.r] = seek[call.r]
    BY <1>9
  <2>2. Done' = Done + Chunk
    BY <1>2, <1>3, <1>9, <2>1 DEF Done
  <2> QED
    BY <1>2, <1>3, <1>9, <2>2 DEF CallInBounds
<1> QED
  BY <1>3, <1>8, <1>9, <1>10, <1>11

-----------------------------------------------------------------------------
(* Type correctness *)

TypeInv == TypeOK /\ CallInBounds

LEMMA NoCallType ==
  /\ NoCall.r \in Readers /\ NoCall.n = 0 /\ NoCall.seek = 0
  /\ NoCall.dst \in Buffer(NoCall.n)
<1>1. (CHOOSE r \in Readers : TRUE) \in Readers
  BY ReaderAssumption
<1>2. NoData \in Buffer(0)
  BY DEF NoData, Buffer
<1> QED
  BY <1>1, <1>2 DEF NoCall

LEMMA InitTypeInv == Init => TypeInv
<1> SUFFICES ASSUME Init PROVE TypeInv
  OBVIOUS
<1>1. /\ BLOCK_SIZE \in Nat /\ MaxFaults \in Nat /\ ZERO \in Cell
      /\ MaxRead \in Nat /\ I64_MAX \in Nat
  BY DeviceAssumption, ReaderAssumption
<1>2. DeviceTypeOK
  BY <1>1 DEF Init, DeviceInit, DeviceTypeOK
<1>3. buf \in [Readers -> BlockBuffer]
  BY <1>1 DEF Init, NewBlockBuffer, BlockBuffer
<1>4. buf_lba \in [Readers -> Nat \cup {NoBlock}] /\ seek \in [Readers -> 0 .. I64_MAX]
  BY <1>1 DEF Init
<1>5. /\ call.r \in Readers /\ call.n \in 0 .. MaxRead
      /\ call.seek \in 0 .. I64_MAX /\ call.dst \in Buffer(call.n)
  BY <1>1, NoCallType DEF Init
<1>6. /\ reply.op \in {"none", "read", "seek"} /\ reply.r \in Readers
      /\ reply.ok \in BOOLEAN /\ reply.n \in 0 .. I64_MAX
  BY <1>1, NoCallType DEF Init, Reply
<1>7. pc = "idle"
  BY DEF Init
<1> QED
  BY <1>2, <1>3, <1>4, <1>5, <1>6, <1>7 DEF TypeInv, TypeOK, CallInBounds

LEMMA ReadCallType ==
  ASSUME TypeInv, NEW r \in Readers, NEW n \in 0 .. MaxRead, ReadCall(r, n)
  PROVE  TypeInv'
<1>1. MaxRead \in Nat /\ I64_MAX \in Nat /\ ZERO \in Cell
  BY DeviceAssumption, ReaderAssumption
<1>2. call' = [r |-> r, n |-> n, seek |-> seek[r],
               dst |-> [i \in 0 .. n - 1 |-> ZERO]]
  BY DEF ReadCall
<1>3. /\ call'.r = r /\ call'.n = n /\ call'.seek = seek[r]
      /\ call'.dst = [i \in 0 .. n - 1 |-> ZERO]
  BY <1>2
<1>4. call'.dst \in Buffer(call'.n)
  BY <1>1, <1>3 DEF Buffer
<1>5. seek[r] \in 0 .. I64_MAX
  BY DEF TypeInv, TypeOK
<1>6. Done' = 0
  BY <1>1, <1>3, <1>5 DEF Done, ReadCall
<1>7. CallInBounds'
  BY <1>1, <1>3, <1>6 DEF CallInBounds
<1> QED
  BY <1>3, <1>4, <1>5, <1>7 DEF TypeInv, TypeOK, DeviceTypeOK, ReadCall

LEMMA ReadCachedType ==
  ASSUME TypeInv, ReadCached
  PROVE  TypeInv'
<1>1. /\ TypeOK /\ CallInBounds /\ pc = "read" /\ More
      /\ CopyFrom(buf[call.r])
      /\ UNCHANGED <<cursor, faults, buf, buf_lba, seek, pc, reply>>
  BY DEF TypeInv, ReadCached
<1>2. buf[call.r] \in BlockBuffer
  BY DEF TypeInv, TypeOK
<1>3. /\ call'.r \in Readers /\ call'.n \in 0 .. MaxRead
      /\ call'.seek \in 0 .. I64_MAX /\ call'.dst \in Buffer(call'.n)
      /\ CallInBounds'
  BY <1>1, <1>2, CopyType
<1> QED
  BY <1>1, <1>3 DEF TypeInv, TypeOK, DeviceTypeOK

LEMMA ReadLoadedType ==
  ASSUME TypeInv, ReadLoaded
  PROVE  TypeInv'
<1>1. /\ TypeOK /\ CallInBounds /\ pc = "read" /\ More
      /\ UNCHANGED <<seek, pc, reply>>
  BY DEF TypeInv, ReadLoaded
<1>2. PICK n \in 0 .. BLOCK_SIZE :
        /\ ReadAtOk(Lba, n)
        /\ buf' = [buf EXCEPT ![call.r] = ReadInto(buf[call.r], n)]
        /\ buf_lba' = [buf_lba EXCEPT ![call.r] = Lba]
        /\ CopyFrom(ReadInto(buf[call.r], n))
  BY DEF ReadLoaded
<1> DEFINE block == ReadInto(buf[call.r], n)
<1>3. Lba \in Nat /\ call.r \in Readers /\ buf[call.r] \in BlockBuffer /\ DeviceTypeOK
  BY <1>1, Iteration DEF TypeOK
<1>4. DeviceTypeOK' /\ block \in BlockBuffer
  BY <1>2, <1>3, ReadAtOkType
<1> HIDE DEF block
<1>5. buf' \in [Readers -> BlockBuffer]
  BY <1>1, <1>2, <1>4 DEF TypeOK, block
<1>6. buf_lba' \in [Readers -> Nat \cup {NoBlock}]
  BY <1>1, <1>2, <1>3 DEF TypeOK
<1>7. CopyFrom(block)
  BY <1>2 DEF block
<1>8. /\ call'.r \in Readers /\ call'.n \in 0 .. MaxRead
      /\ call'.seek \in 0 .. I64_MAX /\ call'.dst \in Buffer(call'.n)
      /\ CallInBounds'
  BY <1>1, <1>4, <1>7, CopyType
<1> QED
  BY <1>1, <1>4, <1>5, <1>6, <1>8 DEF TypeInv, TypeOK

LEMMA ReadFailsType ==
  ASSUME TypeInv, ReadFails
  PROVE  TypeInv'
<1>1. /\ TypeOK /\ CallInBounds /\ pc = "read" /\ More /\ ReadAtErr(Lba)
      /\ reply' = Reply("read", call.r, FALSE, 0, NoData)
      /\ pc' = "idle" /\ call' = NoCall
      /\ UNCHANGED <<buf, buf_lba, seek>>
  BY DEF TypeInv, ReadFails, ReadError
<1>2. I64_MAX \in Nat /\ MaxRead \in Nat
  BY ReaderAssumption
<1>3. Lba \in Nat /\ call.r \in Readers /\ DeviceTypeOK
  BY <1>1, Iteration DEF TypeOK
<1>4. DeviceTypeOK'
  BY <1>1, <1>3, ReadAtErrType
<1>5. /\ call'.r \in Readers /\ call'.n \in 0 .. MaxRead
      /\ call'.seek \in 0 .. I64_MAX /\ call'.dst \in Buffer(call'.n)
  BY <1>1, <1>2, NoCallType
<1>6. /\ reply'.op = "read" /\ reply'.r \in Readers
      /\ reply'.ok \in BOOLEAN /\ reply'.n \in 0 .. I64_MAX
  BY <1>1, <1>2, <1>3 DEF Reply
<1> QED
  BY <1>1, <1>4, <1>5, <1>6 DEF TypeInv, TypeOK, CallInBounds

LEMMA ReadReturnsType ==
  ASSUME TypeInv, ReadReturns
  PROVE  TypeInv'
<1>1. /\ TypeOK /\ CallInBounds /\ pc = "read"
      /\ reply' = Reply("read", call.r, TRUE, Done,
                        [i \in 0 .. Done - 1 |-> call.dst[i]])
      /\ seek' = [seek EXCEPT ![call.r] = call.seek]
      /\ pc' = "idle" /\ call' = NoCall
      /\ UNCHANGED <<cursor, faults, buf, buf_lba>>
  BY DEF TypeInv, ReadReturns
<1>2. I64_MAX \in Nat /\ MaxRead \in Nat
  BY ReaderAssumption
<1>3. call.seek \in 0 .. I64_MAX /\ seek[call.r] \in 0 .. I64_MAX /\ call.r \in Readers
  BY <1>1 DEF TypeOK
<1>4. Done \in 0 .. I64_MAX
  BY <1>1, <1>2, <1>3 DEF CallInBounds, Done
<1>5. /\ call'.r \in Readers /\ call'.n \in 0 .. MaxRead
      /\ call'.seek \in 0 .. I64_MAX /\ call'.dst \in Buffer(call'.n)
  BY <1>1, <1>2, NoCallType
<1>6. /\ reply'.op = "read" /\ reply'.r \in Readers
      /\ reply'.ok \in BOOLEAN /\ reply'.n \in 0 .. I64_MAX
  BY <1>1, <1>3, <1>4 DEF Reply
<1>7. seek' \in [Readers -> 0 .. I64_MAX]
  BY <1>1, <1>3 DEF TypeOK
<1> QED
  BY <1>1, <1>5, <1>6, <1>7 DEF TypeInv, TypeOK, DeviceTypeOK, CallInBounds

(* What the three kinds of seek have in common: an i64 was formed. *)
LEMMA SeekToType ==
  ASSUME TypeInv, NEW r \in Readers, NEW t \in Int, t <= I64_MAX, SeekTo(r, t)
  PROVE  TypeInv'
<1>1. I64_MAX \in Nat
  BY ReaderAssumption
<1>2. /\ TypeOK /\ pc = "idle"
      /\ UNCHANGED <<cursor, faults, buf, buf_lba, pc, call>>
  BY DEF TypeInv, SeekTo
<1>3. CASE t < 0
  <2>1. reply' = Reply("seek", r, FALSE, 0, NoData) /\ seek' = seek
    BY <1>3 DEF SeekTo
  <2>2. /\ reply'.op = "seek" /\ reply'.r \in Readers
        /\ reply'.ok \in BOOLEAN /\ reply'.n \in 0 .. I64_MAX
    BY <1>1, <2>1 DEF Reply
  <2> QED
    BY <1>2, <2>1, <2>2 DEF TypeInv, TypeOK, DeviceTypeOK, CallInBounds
<1>4. CASE ~(t < 0)
  <2>1. /\ reply' = Reply("seek", r, TRUE, t, NoData)
        /\ seek' = [seek EXCEPT ![r] = t]
    BY <1>4 DEF SeekTo
  <2>2. t \in 0 .. I64_MAX
    BY <1>1, <1>4
  <2>3. /\ reply'.op = "seek" /\ reply'.r \in Readers
        /\ reply'.ok \in BOOLEAN /\ reply'.n \in 0 .. I64_MAX
    BY <2>1, <2>2 DEF Reply
  <2>4. seek' \in [Readers -> 0 .. I64_MAX]
    BY <1>2, <2>1, <2>2 DEF TypeOK
  <2> QED
    BY <1>2, <2>3, <2>4 DEF TypeInv, TypeOK, DeviceTypeOK, CallInBounds
<1> QED
  BY <1>3, <1>4

(* The wrapped value of every sum a seek forms is an i64, and it is        *)
(* negative exactly when the sum itself is not a position.                 *)
LEMMA I64Wraps ==
  ASSUME NEW x \in -(I64_MAX + 1) .. (2 * I64_MAX) + 1
  PROVE  /\ I64(x) \in Int /\ I64(x) <= I64_MAX
         /\ x \in 0 .. I64_MAX => I64(x) = x
         /\ x \notin 0 .. I64_MAX => I64(x) < 0
BY ReaderAssumption DEF I64

(* The sums of seek are in the range I64Wraps is about. *)
LEMMA SeekSums ==
  ASSUME TypeOK, NEW r \in Readers
  PROVE  /\ \A o \in 0 .. (2 * I64_MAX) + 1 :
              o \in -(I64_MAX + 1) .. (2 * I64_MAX) + 1
         /\ \A o \in -(I64_MAX + 1) .. I64_MAX :
              /\ Size[r] + o \in -(I64_MAX + 1) .. (2 * I64_MAX) + 1
              /\ seek[r] + o \in -(I64_MAX + 1) .. (2 * I64_MAX) + 1
<1>1. I64_MAX \in Nat /\ Size[r] \in 0 .. I64_MAX
  BY ReaderAssumption
<1>2. seek[r] \in 0 .. I64_MAX
  BY DEF TypeOK
<1> QED
  BY <1>1, <1>2

LEMMA NextTypeInv == TypeInv /\ [Next]_vars => TypeInv'
<1> SUFFICES ASSUME TypeInv, [Next]_vars PROVE TypeInv'
  OBVIOUS
<1>1. CASE ReadStep
  BY <1>1, ReadCachedType, ReadLoadedType, ReadFailsType, ReadReturnsType
  DEF ReadStep
<1>2. CASE \E r \in Readers : \E n \in 0 .. MaxRead : ReadCall(r, n)
  BY <1>2, ReadCallType
<1>3. CASE \E r \in Readers : \E o \in 0 .. (2 * I64_MAX) + 1 : SeekStart(r, o)
  BY <1>3, SeekToType, I64Wraps, SeekSums DEF SeekStart, TypeInv
<1>4. CASE \E r \in Readers : \E o \in -(I64_MAX + 1) .. I64_MAX : SeekEnd(r, o)
  BY <1>4, SeekToType, I64Wraps, SeekSums DEF SeekEnd, TypeInv
<1>5. CASE \E r \in Readers : \E o \in -(I64_MAX + 1) .. I64_MAX : SeekCurrent(r, o)
  BY <1>5, SeekToType, I64Wraps, SeekSums DEF SeekCurrent, TypeInv
<1>6. CASE UNCHANGED vars
  BY <1>6 DEF vars, TypeInv, TypeOK, DeviceTypeOK, CallInBounds, Done
<1> QED
  BY <1>1, <1>2, <1>3, <1>4, <1>5, <1>6 DEF Next

LEMMA TypeInvariant == Spec => []TypeInv
BY InitTypeInv, NextTypeInv, PTL DEF Spec

(* Every reader's state stays well typed: positions never leave the i64    *)
(* range, the loop of read never leaves the file's blocks or the caller's  *)
(* buffer (the slice &self.buf[start..end] and the unwraps never panic).   *)
THEOREM TypeCorrect == Spec => []TypeOK
<1>1. TypeInv => TypeOK
  BY DEF TypeInv
<1> QED
  BY <1>1, TypeInvariant, PTL

-----------------------------------------------------------------------------
(* Reads return the bytes of the file *)

Safe == CacheCoherent /\ CopiedSoFar /\ ReadsTheFile

(* On an intact image a load fills the whole buffer with the block. *)
LEMMA LoadsTheBlock ==
  ASSUME Intact, TypeInv, pc = "read", More,
         NEW n \in 0 .. BLOCK_SIZE, ReadAtOk(Lba, n)
  PROVE  /\ SeekPos(Lba) + BLOCK_SIZE <= ImageLen
         /\ \A i \in 0 .. BLOCK_SIZE - 1 :
              ReadInto(buf[call.r], n)[i] = Image[SeekPos(Lba) + i]
<1>1. BLOCK_SIZE \in Nat /\ ImageLen \in Nat
  BY DeviceAssumption
<1>2. call.r \in Readers /\ call.seek \in Nat /\ Size[call.r] \in Nat /\ StartLba[call.r] \in Nat
  BY ReaderAssumption DEF TypeInv, TypeOK
<1>3. call.seek \in 0 .. Size[call.r] - 1
  BY <1>2 DEF More
<1>4. SeekPos(Lba) + BLOCK_SIZE <= ImageLen
  BY <1>2, <1>3 DEF Intact, Lba
<1>5. SeekPos(Lba) \in Nat
  BY <1>2, BlockOfByte DEF Lba
<1>6. Available(SeekPos(Lba)) = BLOCK_SIZE
  BY <1>1, <1>4, <1>5, DeviceAssumption DEF Available
<1>7. n = BLOCK_SIZE
  BY <1>6 DEF ReadAtOk, ReadOk, Intact
<1>8. Lba \in Nat
  BY Iteration DEF TypeInv
<1>9. ReadInto(buf[call.r], n) = Fill(buf[call.r], SeekPos(Lba), n)
  BY <1>8, ReadIntoIs
<1> QED
  BY <1>1, <1>4, <1>7, <1>9 DEF Fill

(* Copying from the block the position is in copies bytes of the file. *)
LEMMA CopiesTheFile ==
  ASSUME TypeInv, CopiedSoFar, pc = "read", More, NEW block \in BlockBuffer,
         \A i \in 0 .. BLOCK_SIZE - 1 : block[i] = Image[SeekPos(Lba) + i],
         CopyFrom(block), UNCHANGED <<seek, pc>>
  PROVE  CopiedSoFar'
<1> DEFINE base == SeekPos(StartLba[call.r])
<1>1. BLOCK_SIZE \in Nat
  BY DeviceAssumption
<1>2. /\ Done \in Nat /\ Start \in 0 .. BLOCK_SIZE - 1 /\ Chunk \in Nat
      /\ Start + Chunk <= BLOCK_SIZE /\ Done + Chunk <= call.n
  BY Iteration DEF TypeInv
<1>3. /\ call.seek \in Nat /\ seek[call.r] \in Nat /\ call.n \in Nat
      /\ StartLba[call.r] \in Nat
  BY ReaderAssumption DEF TypeInv, TypeOK
<1>4. call.seek = seek[call.r] + Done
  BY <1>3 DEF Done
<1>5. SeekPos(Lba) \in Nat /\ SeekPos(Lba) + Start = base + call.seek
  BY <1>3, BlockOfByte DEF Lba, Start
<1>6. base \in Nat
  BY <1>1, <1>3, \A a, c \in Nat : a * c \in Nat DEF SeekPos
<1>7. call'.r = call.r /\ call'.dst = Copied(block) /\ call'.seek = call.seek + Chunk
  BY DEF CopyFrom
<1>8. seek'[call'.r] = seek[call.r]
  BY <1>7
<1>9. Done' = Done + Chunk
  BY <1>2, <1>3, <1>7, <1>8 DEF Done
<1> HIDE DEF base
<1>10. ASSUME NEW i \in 0 .. (Done + Chunk) - 1
       PROVE  Copied(block)[i] = Image[base + (seek[call.r] + i)]
  <2>1. i \in 0 .. call.n - 1
    BY <1>2, <1>3
  <2>2. CASE i < Done
    <3>1. Copied(block)[i] = call.dst[i]
      BY <1>2, <2>1, <2>2 DEF Copied
    <3>2. i \in 0 .. Done - 1
      BY <1>2, <2>2
    <3> QED
      BY <3>1, <3>2 DEF CopiedSoFar, ContentAt, base
  <2>3. CASE ~(i < Done)
    <3>1. Copied(block)[i] = block[Start + (i - Done)]
      BY <1>2, <2>1, <2>3 DEF Copied
    <3>2. Start + (i - Done) \in 0 .. BLOCK_SIZE - 1
      BY <1>1, <1>2, <2>3
    <3>3. block[Start + (i - Done)] = Image[SeekPos(Lba) + (Start + (i - Done))]
      BY <3>2
    <3>4. SeekPos(Lba) + (Start + (i - Done)) = base + (seek[call.r] + i)
      BY <1>2, <1>3, <1>4, <1>5, <1>6
    <3> QED
      BY <3>1, <3>3, <3>4
  <2> QED
    BY <2>2, <2>3
<1>11. \A i \in 0 .. Done' - 1 : call'.dst[i] = ContentAt(call'.r, seek'[call'.r] + i)
  BY <1>7, <1>8, <1>9, <1>10 DEF ContentAt, base
<1> QED
  BY <1>11 DEF CopiedSoFar

LEMMA ReadCallSafe ==
  ASSUME TypeInv, Safe, NEW r \in Readers, NEW n \in 0 .. MaxRead, ReadCall(r, n)
  PROVE  Safe'
<1>1. call'.r = r /\ call'.seek = seek[r]
  BY DEF ReadCall
<1>2. seek[r] \in Nat /\ seek' = seek
  BY DEF TypeInv, TypeOK, ReadCall
<1>3. Done' = 0
  BY <1>1, <1>2 DEF Done
<1>4. CopiedSoFar'
  BY <1>3 DEF CopiedSoFar
<1>5. CacheCoherent' /\ ReadsTheFile'
  BY DEF Safe, ReadCall, CacheCoherent, ReadsTheFile
<1> QED
  BY <1>4, <1>5 DEF Safe

LEMMA ReadCachedSafe ==
  ASSUME TypeInv, Safe, ReadCached
  PROVE  Safe'
<1>1. /\ pc = "read" /\ More /\ buf_lba[call.r] = Lba /\ CopyFrom(buf[call.r])
      /\ UNCHANGED <<cursor, faults, buf, buf_lba, seek, pc, reply>>
  BY DEF ReadCached
<1>2. buf[call.r] \in BlockBuffer /\ call.r \in Readers
  BY DEF TypeInv, TypeOK
<1>3. Lba # NoBlock
  BY <1>1, Iteration DEF TypeInv, NoBlock
<1>4. \A i \in 0 .. BLOCK_SIZE - 1 : buf[call.r][i] = Image[SeekPos(Lba) + i]
  BY <1>1, <1>2, <1>3 DEF Safe, CacheCoherent
<1>5. CopiedSoFar'
  BY <1>1, <1>2, <1>4, CopiesTheFile DEF Safe
<1>6. CacheCoherent' /\ ReadsTheFile'
  BY <1>1 DEF Safe, CacheCoherent, ReadsTheFile
<1> QED
  BY <1>5, <1>6 DEF Safe

LEMMA ReadLoadedSafe ==
  ASSUME Intact, TypeInv, Safe, ReadLoaded
  PROVE  Safe'
<1>1. pc = "read" /\ More /\ UNCHANGED <<seek, pc, reply>>
  BY DEF ReadLoaded
<1>2. PICK n \in 0 .. BLOCK_SIZE :
        /\ ReadAtOk(Lba, n)
        /\ buf' = [buf EXCEPT ![call.r] = ReadInto(buf[call.r], n)]
        /\ buf_lba' = [buf_lba EXCEPT ![call.r] = Lba]
        /\ CopyFrom(ReadInto(buf[call.r], n))
  BY DEF ReadLoaded
<1> DEFINE block == ReadInto(buf[call.r], n)
<1>3. /\ SeekPos(Lba) + BLOCK_SIZE <= ImageLen
      /\ \A i \in 0 .. BLOCK_SIZE - 1 : block[i] = Image[SeekPos(Lba) + i]
  BY <1>1, <1>2, LoadsTheBlock
<1>4. Lba \in Nat /\ call.r \in Readers /\ buf[call.r] \in BlockBuffer /\ DeviceTypeOK
  BY <1>1, Iteration DEF TypeInv, TypeOK
<1>5. block \in BlockBuffer
  BY <1>2, <1>4, ReadAtOkType
<1>6. CopyFrom(block) /\ buf' = [buf EXCEPT ![call.r] = block]
  BY <1>2
<1> HIDE DEF block
<1>7. CopiedSoFar'
  BY <1>1, <1>3, <1>5, <1>6, CopiesTheFile DEF Safe
<1>8. ASSUME NEW r \in Readers, buf_lba'[r] # NoBlock
      PROVE  /\ SeekPos(buf_lba'[r]) + BLOCK_SIZE <= ImageLen
             /\ \A i \in 0 .. BLOCK_SIZE - 1 :
                  buf'[r][i] = Image[SeekPos(buf_lba'[r]) + i]
  <2>1. CASE r = call.r
    <3>1. buf'[r] = block /\ buf_lba'[r] = Lba
      BY <1>2, <1>4, <1>6, <2>1 DEF TypeInv, TypeOK
    <3> QED
      BY <1>3, <3>1
  <2>2. CASE r # call.r
    <3>1. buf'[r] = buf[r] /\ buf_lba'[r] = buf_lba[r]
      BY <1>2, <1>4, <1>6, <2>2 DEF TypeInv, TypeOK
    <3> QED
      BY <1>8, <3>1 DEF Safe, CacheCoherent
  <2> QED
    BY <2>1, <2>2
<1>9. CacheCoherent'
  BY <1>8 DEF CacheCoherent, SeekPos
<1>10. ReadsTheFile'
  BY <1>1 DEF Safe, ReadsTheFile
<1> QED
  BY <1>7, <1>9, <1>10 DEF Safe

LEMMA ReadFailsSafe ==
  ASSUME TypeInv, Safe, ReadFails
  PROVE  Safe'
<1>1. /\ reply' = Reply("read", call.r, FALSE, 0, NoData) /\ pc' = "idle"
      /\ UNCHANGED <<buf, buf_lba, seek>>
  BY DEF ReadFails, ReadError
<1>2. reply'.ok = FALSE
  BY <1>1 DEF Reply
<1>3. CopiedSoFar' /\ ReadsTheFile'
  BY <1>1, <1>2 DEF CopiedSoFar, ReadsTheFile
<1>4. CacheCoherent'
  BY <1>1 DEF Safe, CacheCoherent
<1> QED
  BY <1>3, <1>4 DEF Safe

LEMMA ReadReturnsSafe ==
  ASSUME TypeInv, Safe, ReadReturns
  PROVE  Safe'
<1>1. /\ pc = "read"
      /\ reply' = Reply("read", call.r, TRUE, Done,
                        [i \in 0 .. Done - 1 |-> call.dst[i]])
      /\ seek' = [seek EXCEPT ![call.r] = call.seek]
      /\ pc' = "idle"
      /\ UNCHANGED <<cursor, faults, buf, buf_lba>>
  BY DEF ReadReturns
<1>2. /\ reply'.r = call.r /\ reply'.n = Done
      /\ reply'.data = [i \in 0 .. Done - 1 |-> call.dst[i]]
  BY <1>1 DEF Reply
<1>3. call.seek \in Nat /\ seek[call.r] \in Nat /\ call.r \in Readers
  BY DEF TypeInv, TypeOK
<1>4. seek'[reply'.r] = call.seek
  BY <1>1, <1>2, <1>3 DEF TypeInv, TypeOK
<1>5. Done \in Nat /\ call.seek = seek[call.r] + Done
  BY <1>1, <1>3 DEF TypeInv, CallInBounds, Done
<1>6. ASSUME NEW i \in 0 .. Done - 1
      PROVE  reply'.data[i] = ContentAt(reply'.r, (seek'[reply'.r] - reply'.n) + i)
  <2>1. (call.seek - Done) + i = seek[call.r] + i
    BY <1>3, <1>5
  <2>2. call.dst[i] = ContentAt(call.r, seek[call.r] + i)
    BY <1>1 DEF Safe, CopiedSoFar
  <2> QED
    BY <1>2, <1>4, <2>1, <2>2
<1>7. ReadsTheFile'
  BY <1>2, <1>6 DEF ReadsTheFile, ContentAt, SeekPos
<1>8. CopiedSoFar'
  BY <1>1 DEF CopiedSoFar
<1>9. CacheCoherent'
  BY <1>1 DEF Safe, CacheCoherent
<1> QED
  BY <1>7, <1>8, <1>9 DEF Safe

LEMMA SeekToSafe ==
  ASSUME TypeInv, Safe, NEW r \in Readers, NEW t, SeekTo(r, t)
  PROVE  Safe'
<1>1. /\ pc = "idle" /\ UNCHANGED <<buf, buf_lba, pc>> /\ reply'.op = "seek"
  BY DEF SeekTo, Reply
<1>2. CopiedSoFar' /\ ReadsTheFile'
  BY <1>1 DEF CopiedSoFar, ReadsTheFile
<1>3. CacheCoherent'
  BY <1>1 DEF Safe, CacheCoherent
<1> QED
  BY <1>2, <1>3 DEF Safe

LEMMA InitSafe == Init => Safe
<1> SUFFICES ASSUME Init PROVE Safe
  OBVIOUS
<1>1. pc = "idle" /\ reply.op = "none" /\ \A r \in Readers : buf_lba[r] = NoBlock
  BY DEF Init, Reply
<1> QED
  BY <1>1 DEF Safe, CacheCoherent, CopiedSoFar, ReadsTheFile

LEMMA NextSafe == Intact /\ TypeInv /\ Safe /\ [Next]_vars => Safe'
<1> SUFFICES ASSUME Intact, TypeInv, Safe, [Next]_vars PROVE Safe'
  OBVIOUS
<1>1. CASE ReadStep
  BY <1>1, ReadCachedSafe, ReadLoadedSafe, ReadFailsSafe, ReadReturnsSafe
  DEF ReadStep
<1>2. CASE \E r \in Readers : \E n \in 0 .. MaxRead : ReadCall(r, n)
  BY <1>2, ReadCallSafe
<1>3. CASE \E r \in Readers : \E o \in 0 .. (2 * I64_MAX) + 1 : SeekStart(r, o)
  BY <1>3, SeekToSafe DEF SeekStart
<1>4. CASE \E r \in Readers : \E o \in -(I64_MAX + 1) .. I64_MAX : SeekEnd(r, o)
  BY <1>4, SeekToSafe DEF SeekEnd
<1>5. CASE \E r \in Readers : \E o \in -(I64_MAX + 1) .. I64_MAX : SeekCurrent(r, o)
  BY <1>5, SeekToSafe DEF SeekCurrent
<1>6. CASE UNCHANGED vars
  BY <1>6 DEF vars, Safe, CacheCoherent, CopiedSoFar, ReadsTheFile, Done,
              ContentAt, SeekPos
<1> QED
  BY <1>1, <1>2, <1>3, <1>4, <1>5, <1>6 DEF Next

LEMMA SafeInvariant ==
  ASSUME Intact
  PROVE  Spec => [](TypeInv /\ Safe)
<1>1. Init => TypeInv /\ Safe
  BY InitTypeInv, InitSafe
<1>2. (TypeInv /\ Safe) /\ [Next]_vars => (TypeInv /\ Safe)'
  BY NextTypeInv, NextSafe
<1> QED
  BY <1>1, <1>2, PTL DEF Spec

(* On an image that holds the whole file, and a reader whose reads may     *)
(* fail but never fall short, every byte ISOFileReader::read returns is    *)
(* the byte of the file at that position, whatever calls on the same and   *)
(* on other readers came before and whichever of them failed.              *)
THEOREM ReadsCorrect ==
  ASSUME Intact
  PROVE  Spec => []ReadsTheFile
<1>1. TypeInv /\ Safe => ReadsTheFile
  BY DEF Safe
<1> QED
  BY <1>1, SafeInvariant, PTL

-----------------------------------------------------------------------------
(* The readers implement byte streams *)

LEMMA ReturnIsRead ==
  ASSUME TypeInv, Safe, ReadReturns
  PROVE  \E r \in Readers : \E n \in 0 .. MaxRead : Stream!Read(r, n)
<1> DEFINE r == call.r
           k == Stream!Count(r, seek[r], call.n)
<1>1. /\ pc = "read" /\ ~More
      /\ reply' = Reply("read", r, TRUE, Done, [i \in 0 .. Done - 1 |-> call.dst[i]])
      /\ seek' = [seek EXCEPT ![r] = call.seek]
  BY DEF ReadReturns
<1>2. /\ call.seek \in Nat /\ seek[r] \in Nat /\ r \in Readers
      /\ call.n \in 0 .. MaxRead /\ Size[r] \in Nat /\ MaxRead \in Nat
  BY ReaderAssumption DEF TypeInv, TypeOK
<1>3. /\ Done \in Nat /\ Done <= call.n /\ call.seek = seek[r] + Done
      /\ Done = 0 \/ call.seek <= Size[r]
  BY <1>1, <1>2 DEF TypeInv, CallInBounds, Done
<1>4. Done = call.n \/ call.seek >= Size[r]
  BY <1>1, <1>2, <1>3 DEF More
<1>5. k = Done
  BY <1>2, <1>3, <1>4 DEF Stream!Count
<1>6. seek' = [seek EXCEPT ![r] = @ + k]
  BY <1>1, <1>3, <1>5
<1>7. ASSUME NEW i \in 0 .. Done - 1
      PROVE  call.dst[i] =
               [x \in Readers |-> [p \in 0 .. Size[x] - 1 |-> ContentAt(x, p)]][r][seek[r] + i]
  <2>1. seek[r] + i \in 0 .. Size[r] - 1
    BY <1>2, <1>3
  <2>2. call.dst[i] = ContentAt(r, seek[r] + i)
    BY <1>1 DEF Safe, CopiedSoFar
  <2> QED
    BY <1>2, <2>1, <2>2
<1>8. [i \in 0 .. Done - 1 |-> call.dst[i]] =
        [i \in 0 .. k - 1 |->
           [x \in Readers |-> [p \in 0 .. Size[x] - 1 |-> ContentAt(x, p)]][r][seek[r] + i]]
  BY <1>5, <1>7
<1>9. Stream!Read(r, call.n)
  BY <1>1, <1>5, <1>6, <1>8 DEF Stream!Read, Stream!Reply, Reply
<1> QED
  BY <1>2, <1>9

(* A seek of the code is the stream's seek to the exact sum. *)
LEMMA SeekIsSeek ==
  ASSUME NEW r \in Readers, NEW base \in Int, NEW o \in Int,
         base + o \in -(I64_MAX + 1) .. (2 * I64_MAX) + 1,
         SeekTo(r, I64(base + o))
  PROVE  Stream!Seek(r, base, o)
<1>1. CASE base + o \in 0 .. I64_MAX
  <2>1. I64(base + o) = base + o /\ ~(base + o < 0)
    BY <1>1, I64Wraps, ReaderAssumption
  <2> QED
    BY <1>1, <2>1 DEF SeekTo, Stream!Seek, Reply, Stream!Reply, NoData, Stream!NoData
<1>2. CASE base + o \notin 0 .. I64_MAX
  <2>1. I64(base + o) < 0
    BY <1>2, I64Wraps
  <2> QED
    BY <1>2, <2>1 DEF SeekTo, Stream!Seek, Reply, Stream!Reply, NoData, Stream!NoData
<1> QED
  BY <1>1, <1>2

LEMMA InitIsInit == Init => Stream!Init
<1> SUFFICES ASSUME Init PROVE Stream!Init
  OBVIOUS
<1>1. NoCall.r \in Readers
  BY NoCallType
<1> QED
  BY <1>1 DEF Init, Stream!Init, Reply, Stream!Reply, NoData, Stream!NoData

LEMMA StepIsStep == TypeInv /\ Safe /\ [Next]_vars => [Stream!Next]_(Stream!streamVars)
<1> SUFFICES ASSUME TypeInv, Safe, [Next]_vars
             PROVE  Stream!Next \/ UNCHANGED <<seek, reply>>
  BY DEF Stream!streamVars
<1>1. CASE ReadCached \/ ReadLoaded
  BY <1>1 DEF ReadCached, ReadLoaded
<1>2. CASE ReadFails
  <2>1. /\ reply' = Stream!Reply("read", call.r, FALSE, 0, Stream!NoData)
        /\ UNCHANGED seek
    BY <1>2 DEF ReadFails, ReadError, Reply, Stream!Reply, NoData, Stream!NoData
  <2>2. call.r \in Readers
    BY DEF TypeInv, TypeOK
  <2> QED
    BY <2>1, <2>2 DEF Stream!Next, Stream!Fail
<1>3. CASE ReadReturns
  BY <1>3, ReturnIsRead DEF Stream!Next
<1>4. CASE \E r \in Readers : \E n \in 0 .. MaxRead : ReadCall(r, n)
  BY <1>4 DEF ReadCall
<1>5. CASE \E r \in Readers : \E o \in 0 .. (2 * I64_MAX) + 1 : SeekStart(r, o)
  <2>1. PICK r \in Readers, o \in 0 .. (2 * I64_MAX) + 1 : SeekStart(r, o)
    BY <1>5
  <2>2. 0 + o = o /\ o \in -(I64_MAX + 1) .. (2 * I64_MAX) + 1
    BY ReaderAssumption
  <2>3. Stream!Seek(r, 0, o)
    BY <2>1, <2>2, SeekIsSeek DEF SeekStart
  <2> QED
    BY <2>3 DEF Stream!Next
<1>6. CASE \E r \in Readers : \E o \in -(I64_MAX + 1) .. I64_MAX : SeekEnd(r, o)
  <2>1. PICK r \in Readers, o \in -(I64_MAX + 1) .. I64_MAX : SeekEnd(r, o)
    BY <1>6
  <2>2. Size[r] \in Int /\ Size[r] + o \in -(I64_MAX + 1) .. (2 * I64_MAX) + 1
    BY SeekSums, ReaderAssumption DEF TypeInv
  <2>3. Stream!Seek(r, Size[r], o)
    BY <2>1, <2>2, SeekIsSeek DEF SeekEnd
  <2> QED
    BY <2>3 DEF Stream!Next
<1>7. CASE \E r \in Readers : \E o \in -(I64_MAX + 1) .. I64_MAX : SeekCurrent(r, o)
  <2>1. PICK r \in Readers, o \in -(I64_MAX + 1) .. I64_MAX : SeekCurrent(r, o)
    BY <1>7
  <2>2. seek[r] \in Int /\ seek[r] + o \in -(I64_MAX + 1) .. (2 * I64_MAX) + 1
    BY SeekSums DEF TypeInv, TypeOK
  <2>3. Stream!Seek(r, seek[r], o)
    BY <2>1, <2>2, SeekIsSeek DEF SeekCurrent
  <2> QED
    BY <2>3 DEF Stream!Next
<1>8. CASE UNCHANGED vars
  BY <1>8 DEF vars
<1> QED
  BY <1>1, <1>2, <1>3, <1>4, <1>5, <1>6, <1>7, <1>8 DEF Next, ReadStep

(* On an intact image the readers implement ByteStream: every call returns *)
(* what a stream over the file's bytes returns and moves the position as   *)
(* that stream does, although the reader works block by block from a       *)
(* cache, shares the image's position and wraps its arithmetic.            *)
THEOREM ImplementsByteStream ==
  ASSUME Intact
  PROVE  Spec => StreamSpec
<1>1. Spec => [](TypeInv /\ Safe)
  BY SafeInvariant
<1> QED
  BY <1>1, InitIsInit, StepIsStep, PTL DEF Spec, StreamSpec, Stream!Spec
=============================================================================
