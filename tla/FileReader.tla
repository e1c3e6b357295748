------------------------------ MODULE FileReader ------------------------------
(***************************************************************************)
(* ISOFileReader: byte-granular reads and seeks of a file, served from one *)
(* cached block.  Several readers are open at once and share the image's   *)
(* position.  A read is a loop that loads and copies one block after the   *)
(* other; each iteration is a step, and no other call starts before the    *)
(* loop has ended, for the readers live on one thread (FileRef is an Rc).  *)
(* Arithmetic on i64 wraps, as it does in a release build.                 *)
(***************************************************************************)
EXTENDS IsoDevice

CONSTANTS
  Readers,     \* the open readers
  StartLba,    \* StartLba[r]: header.extent_loc of the reader's file
  Size,        \* Size[r]: header.extent_length of the reader's file
  MaxRead,     \* the longest buffer a caller passes to read
  I64_MAX      \* the largest i64

ASSUME ReaderAssumption ==
  /\ Readers # {}
  /\ StartLba \in [Readers -> Nat]
  /\ Size \in [Readers -> Nat]
  /\ MaxRead \in Nat
  /\ I64_MAX \in Nat
  /\ \A r \in Readers : Size[r] <= I64_MAX

VARIABLES
  buf,         \* buf[r]: the cached block
  buf_lba,     \* buf_lba[r]: the block it holds, or NoBlock
  seek,        \* seek[r]: the reader's position
  pc,          \* "idle", or "read" while a read is running
  call,        \* the locals of the running read
  reply        \* what the last call returned

vars == <<cursor, faults, buf, buf_lba, seek, pc, call, reply>>

-----------------------------------------------------------------------------

(* buf_lba: None. *)
NoBlock == -1

(* The first n bytes of the buffer the caller passed. *)
Buffer(n) == [0 .. n - 1 -> Cell]

(* What a call returns: bytes read or the new position, or an error. *)
NoData == [i \in {} |-> 0]
Reply(op, r, ok, n, data) ==
  [op |-> op, r |-> r, ok |-> ok, n |-> n, data |-> data]

(* The locals of a read that is not running. *)
NoCall == [r |-> CHOOSE r \in Readers : TRUE, n |-> 0, seek |-> 0,
           dst |-> NoData]

(* ISOFile::read: a reader at position 0 with an empty cache. *)
Init ==
  /\ DeviceInit
  /\ buf = [r \in Readers |-> NewBlockBuffer]
  /\ buf_lba = [r \in Readers |-> NoBlock]
  /\ seek = [r \in Readers |-> 0]
  /\ pc = "idle"
  /\ call = NoCall
  /\ reply = Reply("none", NoCall.r, TRUE, 0, NoData)

-----------------------------------------------------------------------------
(* Read::read *)

ReadCall(r, n) ==
  /\ pc = "idle"
  /\ pc' = "read"
  /\ call' = [r |-> r, n |-> n, seek |-> seek[r],
              dst |-> [i \in 0 .. n - 1 |-> ZERO]]
  /\ UNCHANGED <<cursor, faults, buf, buf_lba, seek, reply>>

(* Bytes the running read has delivered. *)
Done == call.seek - seek[call.r]

(* The condition of the while loop. *)
MoreAtEnd == Done < call.n /\ call.seek <= Size[call.r]
More == Done < call.n /\ call.seek < Size[call.r]

(* The block the next byte is in. *)
Lba == StartLba[call.r] + (call.seek \div BLOCK_SIZE)

(* The part of that block that belongs to the file and is still unread,    *)
(* cut to what the caller's buffer has room for.                           *)
Start == call.seek % BLOCK_SIZE
End == LET left == Size[call.r] - ((call.seek \div BLOCK_SIZE) * BLOCK_SIZE)
       IN  IF left < BLOCK_SIZE THEN left ELSE BLOCK_SIZE
Chunk == IF call.n - Done < End - Start THEN call.n - Done ELSE End - Start

(* seek += buf.write(&self.buf[start..end]) *)
Copied(block) ==
  [i \in 0 .. call.n - 1 |->
     IF Done <= i /\ i < Done + Chunk THEN block[Start + (i - Done)]
                                     ELSE call.dst[i]]
CopyFrom(block) ==
  call' = [r |-> call.r, n |-> call.n, seek |-> call.seek + Chunk,
           dst |-> Copied(block)]

(* One iteration of the loop when the block is the cached one. *)
ReadCached ==
  /\ pc = "read" /\ More
  /\ buf_lba[call.r] = Lba
  /\ CopyFrom(buf[call.r])
  /\ UNCHANGED <<cursor, faults, buf, buf_lba, seek, pc, reply>>

(* One iteration that loads the block first.  The count read_at returns is *)
(* not looked at: after a short read the tail of the buffer is the block   *)
(* that was cached before.                                                 *)
ReadLoaded ==
  /\ pc = "read" /\ More
  /\ buf_lba[call.r] # Lba
  /\ \E n \in 0 .. BLOCK_SIZE :
       LET block == ReadInto(buf[call.r], n)
       IN  /\ ReadAtOk(Lba, n)
           /\ buf' = [buf EXCEPT ![call.r] = block]
           /\ buf_lba' = [buf_lba EXCEPT ![call.r] = Lba]
           /\ CopyFrom(block)
  /\ UNCHANGED <<seek, pc, reply>>

(* read_at fails: the call returns the error, the position stays where it  *)
(* was before the call and the cache keeps the block it had.               *)
ReadError ==
  /\ pc = "read" /\ More
  /\ buf_lba[call.r] # Lba
  /\ ReadAtErr(Lba)
  /\ reply' = Reply("read", call.r, FALSE, 0, NoData)
  /\ pc' = "idle" /\ call' = NoCall
  /\ UNCHANGED buf

ReadFailsMoved ==
  ReadError /\ seek' = [seek EXCEPT ![call.r] = call.seek] /\ UNCHANGED buf_lba
ReadFails == ReadError /\ UNCHANGED <<buf_lba, seek>>

(* The loop ends: the position moves past the bytes delivered. *)
ReadReturns ==
  /\ pc = "read" /\ ~More
  /\ reply' = Reply("read", call.r, TRUE, Done,
                    [i \in 0 .. Done - 1 |-> call.dst[i]])
  /\ seek' = [seek EXCEPT ![call.r] = call.seek]
  /\ pc' = "idle" /\ call' = NoCall
  /\ UNCHANGED <<cursor, faults, buf, buf_lba>>

-----------------------------------------------------------------------------
(* Seek::seek *)

(* A u64, or a sum of two i64, as an i64. *)
I64(x) ==
  IF x > I64_MAX THEN x - 2 * (I64_MAX + 1)
  ELSE IF x < -(I64_MAX + 1) THEN x + 2 * (I64_MAX + 1) ELSE x

SeekToUnchecked(r, target) ==
  /\ pc = "idle"
  /\ reply' = Reply("seek", r, TRUE, target, NoData)
  /\ seek' = [seek EXCEPT ![r] = target]
  /\ UNCHANGED <<cursor, faults, buf, buf_lba, pc, call>>

SeekTo(r, target) ==
  /\ pc = "idle"
  /\ IF target < 0
     THEN /\ reply' = Reply("seek", r, FALSE, 0, NoData)
          /\ UNCHANGED seek
     ELSE /\ reply' = Reply("seek", r, TRUE, target, NoData)
          /\ seek' = [seek EXCEPT ![r] = target]
  /\ UNCHANGED <<cursor, faults, buf, buf_lba, pc, call>>

SeekStart(r, offset) == SeekTo(r, I64(offset))
SeekEnd(r, offset) == SeekTo(r, I64(Size[r] + offset))
SeekCurrent(r, offset) == SeekTo(r, I64(seek[r] + offset))

-----------------------------------------------------------------------------

ReadStep == ReadCached \/ ReadLoaded \/ ReadFails \/ ReadReturns

Next ==
  \/ ReadStep
  \/ \E r \in Readers :
       \/ \E n \in 0 .. MaxRead : ReadCall(r, n)
       \/ \E offset \in 0 .. (2 * I64_MAX) + 1 : SeekStart(r, offset)
       \/ \E offset \in -(I64_MAX + 1) .. I64_MAX : SeekEnd(r, offset)
       \/ \E offset \in -(I64_MAX + 1) .. I64_MAX : SeekCurrent(r, offset)

Spec == Init /\ [][Next]_vars

(* A call that runs goes on to its next step: the reader's thread is not   *)
(* preempted inside read, and read_at returns.  No fault is forced.        *)
FairSpec == Spec /\ WF_vars(ReadStep /\ UNCHANGED faults)

-----------------------------------------------------------------------------
(* Properties *)

TypeOK ==
  /\ DeviceTypeOK
  /\ buf \in [Readers -> BlockBuffer]
  /\ buf_lba \in [Readers -> Nat \cup {NoBlock}]
  /\ seek \in [Readers -> 0 .. I64_MAX]
  /\ pc \in {"idle", "read"}
  /\ call.r \in Readers
  /\ call.n \in 0 .. MaxRead
  /\ call.seek \in 0 .. I64_MAX
  /\ call.dst \in Buffer(call.n)
  /\ reply.op \in {"none", "read", "seek"}
  /\ reply.r \in Readers
  /\ reply.ok \in BOOLEAN
  /\ reply.n \in 0 .. I64_MAX

(* The byte at position p of the file of reader r. *)
ContentAt(r, p) == Image[SeekPos(StartLba[r]) + p]

(* The image holds every block of every file, and no read falls short. *)
Intact ==
  /\ "short" \notin Faults
  /\ \A r \in Readers : \A p \in 0 .. Size[r] - 1 :
       SeekPos(StartLba[r] + (p \div BLOCK_SIZE)) + BLOCK_SIZE <= ImageLen

(* Every byte a read hands to its caller is the byte of the file at that   *)
(* position: the cached block is the one the position is in, whatever      *)
(* seeks, reads of other readers and failed reads came before              *)
(* (ISOFileReader::read).                                                  *)
ReadsTheFile ==
  reply.op = "read" /\ reply.ok =>
    \A i \in 0 .. reply.n - 1 :
      reply.data[i] = ContentAt(reply.r, seek[reply.r] - reply.n + i)

(* What makes ReadsTheFile hold after every step: a running read has gone  *)
(* no further than its caller's buffer and the file allow, ...             *)
CallInBounds ==
  pc = "read" => /\ 0 <= Done /\ Done <= call.n
                 /\ Done = 0 \/ call.seek <= Size[call.r]

(* ... a cache that claims a block holds that block of the image, ...      *)
CacheCoherent ==
  \A r \in Readers :
    buf_lba[r] # NoBlock =>
      /\ SeekPos(buf_lba[r]) + BLOCK_SIZE <= ImageLen
      /\ \A i \in 0 .. BLOCK_SIZE - 1 : buf[r][i] = Image[SeekPos(buf_lba[r]) + i]

(* ... and what a running read has copied so far are bytes of the file.    *)
CopiedSoFar ==
  pc = "read" =>
    \A i \in 0 .. Done - 1 :
      call.dst[i] = ContentAt(call.r, seek[call.r] + i)

(* A read that was started returns, with data or with an error: the loop   *)
(* of ISOFileReader::read always advances.                                 *)
ReadsReturn == pc = "read" ~> pc = "idle"

(* The readers are byte streams: position, data and refusals of every call *)
(* are those of ByteStream.                                                *)
Stream == INSTANCE ByteStream WITH
  pos <- seek,
  Content <- [r \in Readers |-> [p \in 0 .. Size[r] - 1 |-> ContentAt(r, p)]]

StreamSpec == Stream!Spec

=============================================================================
