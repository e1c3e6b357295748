----------------------------- MODULE IsoDirectory -----------------------------
(***************************************************************************)
(* Walking directories: ISODirectory::read_entry_at, the iterator that     *)
(* contents() returns, find(), find_recursive(), and the directories their *)
(* entries lead to.                                                        *)
(* A walk keeps one cached block and the offset of its next record; all    *)
(* walks share the image's position.  read_entry_at is a sequence of steps *)
(* (load the block, parse the record, follow each continuation area,       *)
(* build the entry), any of which may fail; no other call starts before it *)
(* has returned, for directories live on one thread.                       *)
(*                                                                         *)
(* A byte of the image is a Cell: the first byte of a directory record     *)
(* (Records says which), a System Use entry of a continuation area         *)
(* (SuspEntries), ZERO, or any other cell for the inside of a record.      *)
(***************************************************************************)
EXTENDS IsoDevice, Sequences, SequencesExt

CONSTANTS
  MinRecord,    \* bytes of the shortest record (34 in the code)
  U32_SIZE,     \* 2^32: lengths are u32 and their sums wrap
  Records,      \* Records[c]: what DirectoryEntryHeader::parse gets at cell c
  SuspEntries,  \* SuspEntries[c]: the System Use entry at cell c
  Root,         \* the directory value the walks start from
  Iterators,    \* the walks the program keeps between calls
  Finder,       \* the walk inside a call of find
  Names,        \* the names find is called with
  Paths,        \* the paths find_recursive is called with: sequences of segments
  Lower         \* Lower[p]: the lower-case form of a piece of a name

(* The System Use entries of the image. *)
Susp == Range(SuspEntries) \cup UNION {Range(Records[c].susp) : c \in DOMAIN Records}

(* An ISODirectory as far as a walk needs it: extent_loc, extent_length.   *)
(* The directories of the image: those of the records, and those of the    *)
(* child links, which are taken for one block long.                        *)
Dir(loc, len) == [loc |-> loc, len |-> len]
RecordDirs ==
  {Dir(Records[c].loc, Records[c].size) : c \in {c \in DOMAIN Records : Records[c].kind = "dir"}}
LinkDirs == {Dir(e.loc, BLOCK_SIZE) : e \in {e \in Susp : e.t = "CL"}}
Directories == {Root} \cup RecordDirs \cup LinkDirs

(* Locations and lengths are numbers; lengths, and one block, are u32. *)
ASSUME DirectoryAssumption ==
  /\ MinRecord \in 1 .. BLOCK_SIZE
  /\ U32_SIZE \in Nat /\ BLOCK_SIZE < U32_SIZE
  /\ DOMAIN Records \subseteq Cell \ {ZERO}
  /\ DOMAIN SuspEntries \subseteq Cell \ {ZERO}
  /\ \A c \in DOMAIN Records : /\ Records[c].len \in Nat \ {0}
                              /\ Records[c].susp \in Seq(Susp)
  /\ \A d \in Directories : d.loc \in Nat /\ d.len \in 0 .. U32_SIZE - 1
  /\ \A e \in Susp : e.t = "CE" => e.loc \in Nat /\ e.length \in Nat
  /\ Names \subseteq Seq(DOMAIN Lower) \ {<<>>}
  /\ Paths \subseteq Seq(Seq(DOMAIN Lower))
  /\ Finder \notin Iterators

Walks == Iterators \cup {Finder}

VARIABLES
  dirs,         \* the ISODirectory values the program has got hold of
  dir,          \* dir[w]: the directory of walk w
  block,        \* block[w]: its cached block
  block_num,    \* block_num[w]: which block of the directory it is, or None
  next_offset,  \* next_offset[w]: where its next record is, or None
  listed,       \* listed[w]: the offsets of the records it has yielded
  pc,           \* "idle", or the next step of the running call
  call,         \* the locals of the running call
  reply         \* what the last call returned, until the next begins

walkVars == <<dirs, dir, block, block_num, next_offset, listed>>
vars == <<cursor, faults, walkVars, pc, call, reply>>

-----------------------------------------------------------------------------

None == -1

(* ISODirectory::block_count; the sum is a u32. *)
BlockCount(d) == ((d.len + BLOCK_SIZE - 1) % U32_SIZE) \div BLOCK_SIZE

(* cont: None. *)
NoCont == [t |-> "none"]
IsCE(e) == e.t = "CE"

(* from and path: where a find began and the path it was given; i: which   *)
(* segment of it is looked for; the rest are locals of read_entry_at.      *)
NewCall(op, w, from, path, i, offset) ==
  [op |-> op, w |-> w, from |-> from, path |-> path, i |-> i,
   offset |-> offset, rec |-> ZERO, susp |-> <<>>, cont |-> NoCont]
NoCall == NewCall("none", Finder, Root, <<>>, 0, 0)

(* What a call returns: an entry ("some", with its directory, its offset   *)
(* there and its System Use entries), "none", or an error ("err").         *)
Reply(res, d) ==
  [op |-> call.op, from |-> call.from, path |-> call.path, res |-> res,
   dir |-> d, offset |-> call.offset, rec |-> call.rec, susp |-> call.susp]
NoEntry(op) ==
  [op |-> op, from |-> Root, path |-> <<>>, res |-> "none",
   dir |-> Root, offset |-> 0, rec |-> ZERO, susp |-> <<>>]
NoReply == NoEntry("none")

Init ==
  /\ DeviceInit
  /\ dirs = {Root}
  /\ dir = [w \in Walks |-> Root]
  /\ block = [w \in Walks |-> NewBlockBuffer]
  /\ block_num = [w \in Walks |-> None]
  /\ next_offset = [w \in Walks |-> 0]
  /\ listed = [w \in Walks |-> {}]
  /\ pc = "idle"
  /\ call = NoCall
  /\ reply = NoReply

-----------------------------------------------------------------------------
(* Starting a walk, and starting a call *)

(* A fresh iterator over d. *)
NewIterator(w, d) ==
  /\ dir' = [dir EXCEPT ![w] = d]
  /\ block' = [block EXCEPT ![w] = NewBlockBuffer]
  /\ block_num' = [block_num EXCEPT ![w] = None]
  /\ next_offset' = [next_offset EXCEPT ![w] = 0]
  /\ listed' = [listed EXCEPT ![w] = {}]

(* ISODirectory::contents *)
Contents(w, d) ==
  /\ pc = "idle"
  /\ NewIterator(w, d)
  /\ reply' = NoReply
  /\ UNCHANGED <<cursor, faults, dirs, pc, call>>

(* A caller of read_entry_at that goes on from an offset it was given      *)
(* earlier, with a buffer of its own (readdir of the FUSE daemon).         *)
Resume(w) ==
  /\ pc = "idle"
  /\ block' = [block EXCEPT ![w] = NewBlockBuffer]
  /\ block_num' = [block_num EXCEPT ![w] = None]
  /\ UNCHANGED <<cursor, faults, dirs, dir, next_offset, listed, pc, call, reply>>

(* ISODirectoryIterator::next, with a record left ... *)
NextCall(w) ==
  /\ pc = "idle"
  /\ next_offset[w] # None
  /\ pc' = "load"
  /\ call' = NewCall("next", w, Root, <<>>, 0, next_offset[w])
  /\ reply' = NoReply
  /\ UNCHANGED <<cursor, faults, walkVars>>

(* ... and with none left. *)
NextNone(w) ==
  /\ pc = "idle"
  /\ next_offset[w] = None
  /\ reply' = NoEntry("next")
  /\ UNCHANGED <<cursor, faults, walkVars, pc, call>>

(* The segments of a path from the i-th on; those that are empty are       *)
(* passed over.                                                            *)
Rest(path, i) == {k \in i .. Len(path) : path[k] # <<>>}

(* A walk of its own for the first segment of a path. *)
StartFind(d, path) ==
  /\ pc = "idle"
  /\ NewIterator(Finder, d)
  /\ pc' = "load"
  /\ call' = NewCall("find", Finder, d, path, Min(Rest(path, 1)), 0)
  /\ reply' = NoReply
  /\ UNCHANGED <<cursor, faults, dirs>>

(* ISODirectory::find: one segment. *)
FindCall(d, name) == StartFind(d, <<name>>)

(* ISODirectory::find_recursive.  Without a segment the directory itself   *)
(* is the answer.                                                          *)
FindRecursive(d, path) == Rest(path, 1) # {} /\ StartFind(d, path)

FindSelf(d, path) ==
  /\ pc = "idle" /\ Rest(path, 1) = {}
  /\ pc' = "self"
  /\ call' = NewCall("find", Finder, d, path, 0, None)
  /\ reply' = NoReply
  /\ UNCHANGED <<cursor, faults, walkVars>>

FindSelfReturns ==
  /\ pc = "self"
  /\ reply' = Reply("some", call.from)
  /\ pc' = "idle" /\ call' = NoCall
  /\ UNCHANGED <<cursor, faults, walkVars>>

-----------------------------------------------------------------------------
(* ISODirectory::read_entry_at *)

W == call.w
BlockNum == call.offset \div BLOCK_SIZE
BlockPos == call.offset % BLOCK_SIZE

Return(res) == reply' = Reply(res, dir[W]) /\ pc' = "idle" /\ call' = NoCall

(* The early return of an error, with block b and block number num.        *)
(* next() does not move the offset: the next call tries the same record    *)
(* again.  The walk of a find() is dropped with the call.                  *)
FailRetries(b, num) ==
  /\ pc' = "load"
  /\ block' = [block EXCEPT ![W] = b] /\ block_num' = [block_num EXCEPT ![W] = num]
  /\ UNCHANGED <<call, reply, dirs, dir, next_offset, listed>>
FailWith(res, b, num) ==
  /\ Return(res)
  /\ \/ call.op = "find" /\ NewIterator(Finder, Root)
     \/ /\ call.op = "next"
        /\ block' = [block EXCEPT ![W] = b] /\ block_num' = [block_num EXCEPT ![W] = num]
        /\ UNCHANGED <<dir, next_offset, listed>>
  /\ UNCHANGED dirs
FailAsNone(b, num) == FailWith("none", b, num)
Fail(b, num) == FailWith("err", b, num)
FailHere == Fail(block[W], block_num[W])

LoadCached ==
  /\ pc = "load"
  /\ block_num[W] = BlockNum
  /\ pc' = "parse"
  /\ UNCHANGED <<cursor, faults, walkVars, call, reply>>

LoadBlock ==
  /\ pc = "load"
  /\ block_num[W] # BlockNum
  /\ ReadAtOk(dir[W].loc + BlockNum, BLOCK_SIZE)
  /\ block' = [block EXCEPT ![W] = ReadInto(block[W], BLOCK_SIZE)]
  /\ block_num' = [block_num EXCEPT ![W] = BlockNum]
  /\ pc' = "parse"
  /\ UNCHANGED <<dirs, dir, next_offset, listed, call, reply>>

(* Err(ReadSize): the buffer is part old and part new. *)
LoadShortWith(num) ==
  /\ pc = "load"
  /\ block_num[W] # BlockNum
  /\ \E n \in 0 .. BLOCK_SIZE - 1 :
       /\ ReadAtOk(dir[W].loc + BlockNum, n)
       /\ Fail(ReadInto(block[W], n), num)
LoadShortKeeps == LoadShortWith(block_num[W])
LoadShort == LoadShortWith(None)

LoadFails ==
  /\ pc = "load"
  /\ block_num[W] # BlockNum
  /\ ReadAtErr(dir[W].loc + BlockNum)
  /\ FailHere

(* The record at the offset, and whether it parses.  Bytes that are no     *)
(* record do not: a zero length makes the parser ask for more bytes than   *)
(* there are, as a record that runs past the end of its block does.  Files *)
(* are not interleaved: with the feature "assertions" such a record is a   *)
(* panic, without it the gap is ignored.                                   *)
RecordCell == block[W][BlockPos]
Rec == Records[call.rec]
Parses(c) ==
  /\ c \in DOMAIN Records
  /\ Records[c].bad # "parse"
  /\ BlockPos + Records[c].len <= BLOCK_SIZE

(* The record's own System Use entries: those that are no continuation     *)
(* area, and of several continuation areas the last.                       *)
CEs(es) == {i \in 1 .. Len(es) : IsCE(es[i])}
NotCEs(es) ==
  LET pushed[i \in 0 .. Len(es)] ==
        IF i = 0 THEN <<>>
        ELSE IF IsCE(es[i]) THEN pushed[i - 1] ELSE Append(pushed[i - 1], es[i])
  IN  pushed[Len(es)]
LastCE(es) == IF CEs(es) = {} THEN NoCont ELSE es[Max(CEs(es))]

Parse ==
  /\ pc = "parse" /\ Parses(RecordCell)
  /\ LET own == Records[RecordCell].susp
     IN  call' = [call EXCEPT !.rec = RecordCell, !.susp = NotCEs(own), !.cont = LastCE(own)]
  /\ pc' = "cont"
  /\ UNCHANGED <<cursor, faults, walkVars, reply>>

ParseFails ==
  /\ pc = "parse" /\ ~Parses(RecordCell)
  /\ FailHere
  /\ UNCHANGED <<cursor, faults>>

(* system_use_entries(&block[from..to]): entries up to the first byte that *)
(* begins none.                                                            *)
SystemUseEntries(b, from, to) ==
  LET end == Max({i \in from .. to :
                    \A j \in from .. i - 1 : b[j] \in DOMAIN SuspEntries})
  IN  [i \in 1 .. end - from |-> SuspEntries[b[from + i - 1]]]

(* The entries of a continuation area.  The code reads the area's length   *)
(* from the start of its block; the offset the CE entry gives is not used. *)
AreaEntries(b, ce) == SystemUseEntries(b, 0, ce.length)

(* susp with the entries of an area appended, and the first CE entry taken *)
(* out of it to be followed next.                                          *)
AppendAreaSwap(susp, es) ==
  LET all == susp \o es
      i == Min(CEs(all))
  IN  IF CEs(all) = {} THEN [susp |-> all, cont |-> NoCont]
      ELSE [susp |-> Front([all EXCEPT ![i] = Last(all)]), cont |-> all[i]]
AppendAreaFirst(susp, es) ==
  LET all == susp \o es
  IN  IF CEs(all) = {} THEN [susp |-> all, cont |-> NoCont]
      ELSE [susp |-> Tail(all), cont |-> Head(all)]
AppendArea(susp, es) ==
  LET all == susp \o es
      i == Min(CEs(all))
  IN  IF CEs(all) = {} THEN [susp |-> all, cont |-> NoCont]
      ELSE [susp |-> RemoveAt(all, i), cont |-> all[i]]

(* One round of the continuation loop, in a buffer of its own whose        *)
(* filling is not checked: after a short read the entries that are missing *)
(* are dropped, and only an area without any is an error.  That is the     *)
(* build without the feature "assertions"; with it the code stops in a     *)
(* panic after most short reads, which takes behaviours away.              *)
Continue ==
  /\ pc = "cont" /\ call.cont # NoCont
  /\ \E n \in 0 .. BLOCK_SIZE :
       LET b == ReadInto(NewBlockBuffer, n)
           es == AreaEntries(b, call.cont)
           next == AppendArea(call.susp, es)
       IN  /\ ReadAtOk(call.cont.loc, n)
           /\ \/ /\ es # <<>>
                 /\ call' = [call EXCEPT !.susp = next.susp, !.cont = next.cont]
                 /\ UNCHANGED <<walkVars, pc, reply>>
              \/ /\ es = <<>>
                 /\ FailHere

ContinueFails ==
  /\ pc = "cont" /\ call.cont # NoCont
  /\ ReadAtErr(call.cont.loc)
  /\ FailHere

-----------------------------------------------------------------------------
(* The entry, and where the next record is *)

(* DirectoryEntry::new, and the directory a CL entry makes of a file entry *)
(* (the one block its extent_length is set to): the directory the entry    *)
(* is, if it is one.                                                       *)
CLs(susp) == {i \in 1 .. Len(susp) : susp[i].t = "CL"}
EntryDir(rec, susp) ==
  IF CLs(susp) # {} THEN {Dir(susp[Min(CLs(susp))].loc, BLOCK_SIZE)}
  ELSE IF Records[rec].kind = "dir" THEN {Dir(Records[rec].loc, Records[rec].size)}
  ELSE {}

(* The record after this one, in this block or at the start of the next.   *)
NextOffsetOf(limit) ==
  LET pos == BlockPos + Rec.len
      skip == pos >= limit \/ block[W][pos] = ZERO
      num == IF skip THEN BlockNum + 1 ELSE BlockNum
  IN  IF num < BlockCount(dir[W])
      THEN (num * BLOCK_SIZE) + (IF skip THEN 0 ELSE pos) ELSE None
NextOffsetEarly == NextOffsetOf(BLOCK_SIZE - MinRecord)
NextOffset == NextOffsetOf(BLOCK_SIZE - (MinRecord - 1))

(* alt_name: the pieces of the NM entries up to the first that is not      *)
(* continued.                                                              *)
Pieces(susp) == SelectSeq(susp, LAMBDA e : e.t = "NM")
AltName(susp) ==
  LET nm == Pieces(susp)
      last == CHOOSE i \in 1 .. Len(nm) :
                /\ i = Len(nm) \/ ~nm[i].continue
                /\ \A j \in 1 .. i - 1 : nm[j].continue
  IN  [i \in 1 .. last |-> nm[i].name]

(* The identifier of the entry: the alternate name if there is one. *)
Identifier(rec, susp) ==
  IF Pieces(susp) = <<>> THEN Records[rec].name ELSE AltName(susp)

(* eq_ignore_ascii_case *)
SameName(a, b) ==
  /\ Len(a) = Len(b)
  /\ \A i \in 1 .. Len(a) : Lower[a[i]] = Lower[b[i]]

(* find() passes over associated files and compares identifiers. *)
Wanted == call.path[call.i]
FindMatchesAny == SameName(Identifier(call.rec, call.susp), Wanted)
FindMatches == ~Rec.assoc /\ SameName(Identifier(call.rec, call.susp), Wanted)

Further == Rest(call.path, call.i + 1)

(* read_entry_at returns an entry: to the caller of next(), ... *)
Advance ==
  /\ next_offset' = [next_offset EXCEPT ![W] = NextOffset]
  /\ listed' = [listed EXCEPT ![W] = @ \cup {call.offset}]
  /\ UNCHANGED <<dir, block, block_num>>

HasEntry == pc = "cont" /\ call.cont = NoCont /\ Rec.bad = "no"

Yield ==
  /\ HasEntry /\ call.op = "next"
  /\ Advance
  /\ Return("some")
  /\ dirs' = dirs \cup EntryDir(call.rec, call.susp)
  /\ UNCHANGED <<cursor, faults>>

(* ... or to the loop of find(): the entry of the last segment, ... *)
FindEnds(res) == Return(res) /\ NewIterator(Finder, Root)

FindReturns ==
  /\ HasEntry /\ call.op = "find" /\ FindMatches /\ Further = {}
  /\ FindEnds("some")
  /\ dirs' = dirs \cup EntryDir(call.rec, call.susp)
  /\ UNCHANGED <<cursor, faults>>

(* ... of one before it, in which the next is looked for if it is a        *)
(* directory, ...                                                          *)
FindDescends ==
  /\ HasEntry /\ call.op = "find" /\ FindMatches /\ Further # {}
  /\ \/ EntryDir(call.rec, call.susp) = {} /\ FindEnds("none")
     \/ \E d \in EntryDir(call.rec, call.susp) :
          /\ NewIterator(Finder, d)
          /\ pc' = "load"
          /\ call' = [call EXCEPT !.i = Min(Further), !.offset = 0]
          /\ UNCHANGED reply
  /\ UNCHANGED <<cursor, faults, dirs>>

(* ... or another, after which there is one more or none. *)
FindGoesOn ==
  /\ HasEntry /\ call.op = "find" /\ ~FindMatches
  /\ \/ NextOffset = None /\ FindEnds("none")
     \/ /\ NextOffset # None
        /\ Advance
        /\ pc' = "load"
        /\ call' = [call EXCEPT !.offset = NextOffset]
        /\ UNCHANGED reply
  /\ UNCHANGED <<cursor, faults, dirs>>

(* ISOFile::new refuses the version of the identifier. *)
NameFails ==
  /\ pc = "cont" /\ call.cont = NoCont /\ Rec.bad = "name"
  /\ FailHere
  /\ UNCHANGED <<cursor, faults>>

-----------------------------------------------------------------------------

Step ==
  \/ LoadCached \/ LoadBlock \/ LoadShort \/ LoadFails
  \/ Parse \/ ParseFails \/ Continue \/ ContinueFails
  \/ Yield \/ FindReturns \/ FindDescends \/ FindGoesOn \/ NameFails
  \/ FindSelfReturns

Next ==
  \/ Step
  \/ \E w \in Iterators : NextCall(w) \/ NextNone(w) \/ Resume(w)
  \/ \E w \in Iterators, d \in dirs : Contents(w, d)
  \/ \E d \in dirs, name \in Names : FindCall(d, name)
  \/ \E d \in dirs, path \in Paths : FindRecursive(d, path) \/ FindSelf(d, path)

Spec == Init /\ [][Next]_vars

(* A running call goes on: read_at returns and the thread is scheduled.    *)
(* No fault is forced.                                                     *)
FairSpec == Spec /\ WF_vars(Step /\ UNCHANGED faults)

-----------------------------------------------------------------------------
(* Properties *)

(* The state is well formed; in particular what is followed as a           *)
(* continuation area is one (the unreachable!() of read_entry_at).         *)
TypeOK ==
  /\ DeviceTypeOK
  /\ dirs \subseteq Directories
  /\ dir \in [Walks -> Directories]
  /\ block \in [Walks -> BlockBuffer]
  /\ block_num \in [Walks -> Nat \cup {None}]
  /\ next_offset \in [Walks -> Nat \cup {None}]
  /\ pc \in {"idle", "self", "load", "parse", "cont"}
  /\ call.w \in Walks
  /\ call.offset \in Nat \cup {None}
  /\ call.op \in {"none", "next", "find"}
  /\ call.cont = NoCont \/ IsCE(call.cont)
  /\ reply.res \in {"some", "none", "err"}

(* The offsets of the records of a directory, in its blocks in the image. *)
IsRecord(d, o) ==
  SeekPos(d.loc) + o < ImageLen /\ Image[SeekPos(d.loc) + o] \in DOMAIN Records
RecordOffsets(d) == {o \in 0 .. d.len - 1 : IsRecord(d, o)}

(* A directory as ISO 9660 wants it.  It has a block, and its length can   *)
(* be rounded up to blocks.  A record has the least length, lies within    *)
(* its block and within the directory, and no other begins inside it; a    *)
(* zero byte behind it is behind the last record of the block.             *)
WellFormed(d) ==
  /\ 0 < d.len /\ d.len + BLOCK_SIZE <= U32_SIZE
  /\ \A o \in {o \in 0 .. (BlockCount(d) * BLOCK_SIZE) - 1 : IsRecord(d, o)} :
       LET at == SeekPos(d.loc) + o
           len == Records[Image[at]].len
       IN  /\ o < d.len /\ MinRecord <= len /\ (o % BLOCK_SIZE) + len <= BLOCK_SIZE
           /\ \A other \in RecordOffsets(d) :
                /\ other <= o \/ o + len <= other
                /\ /\ (o % BLOCK_SIZE) + len < BLOCK_SIZE
                   /\ at + len < ImageLen /\ Image[at + len] = ZERO
                   => other <= o \/ o \div BLOCK_SIZE < other \div BLOCK_SIZE

(* What ListedExactly holds for. *)
AllWellFormed == \A d \in Directories : WellFormed(d)

(* A block a walk takes for cached is that block of its directory, even    *)
(* after reads that failed or fell short (the buf_block_num that           *)
(* read_entry_at resets before it returns ReadSize).                       *)
BlockCoherent ==
  \A w \in Walks :
    block_num[w] # None =>
      LET at == SeekPos(dir[w].loc + block_num[w])
      IN  /\ at + BLOCK_SIZE <= ImageLen
          /\ \A i \in 0 .. BLOCK_SIZE - 1 : block[w][i] = Image[at + i]

(* A walk has yielded exactly the records before its next offset, and when *)
(* it has ended every record of the directory: none is skipped or goes     *)
(* back to be yielded again, at the end of a block or because an earlier   *)
(* call failed, and nothing that is no record is taken for one             *)
(* (read_entry_at, ISODirectoryIterator::next).                            *)
ListedExactly ==
  \A w \in Walks :
    listed[w] = {o \in RecordOffsets(dir[w]) :
                   next_offset[w] = None \/ o < next_offset[w]}

(* What the image says the System Use entries of a record are: its own,    *)
(* then those of its continuation area, at the offset the CE entry gives,  *)
(* and so on along the chain.                                              *)
Joined(es, rest) ==
  NotCEs(es) \o (IF CEs(es) = {} THEN <<>> ELSE rest[es[Min(CEs(es))]])
Areas == {e \in Susp : IsCE(e)}
EntriesAt(ce) ==
  [i \in 1 .. ce.length |-> SuspEntries[Image[SeekPos(ce.loc) + ce.offset + i - 1]]]
Area[ce \in Areas] == Joined(EntriesAt(ce), Area)
FullSusp(rec) == Joined(Records[rec].susp, Area)

(* Continuation areas as SUSP wants them, as far as the code follows them: *)
(* at the start of a block, in the image and filled with entries; a record *)
(* or an area goes on in at most one, and no chain of them is a cycle: each *)
(* can be given a number below that of the area it is reached from.        *)
Goes(es) == {es[i] : i \in CEs(es)}
WellLinked ==
  /\ IsFiniteSet(Areas)
  /\ \E depth \in [Areas -> 0 .. Cardinality(Areas)] :
       \A ce \in Areas : \A next \in Goes(EntriesAt(ce)) : depth[next] < depth[ce]
AreasWellFormed ==
  /\ \A ce \in Areas :
       /\ ce.offset = 0 /\ ce.length <= BLOCK_SIZE
       /\ SeekPos(ce.loc) + ce.length <= ImageLen
       /\ \A i \in 0 .. ce.length - 1 : Image[SeekPos(ce.loc) + i] \in DOMAIN SuspEntries
       /\ \A i, j \in CEs(EntriesAt(ce)) : i = j
  /\ \A c \in DOMAIN Records : \A i, j \in CEs(Records[c].susp) : i = j
  /\ WellLinked

(* The System Use entries of an entry that is returned are all those of    *)
(* its record and of its continuation areas, in that order (the order the  *)
(* pieces of an alternate name are joined in).                             *)
SuspComplete ==
  reply.res = "some" /\ reply.offset # None => reply.susp = FullSusp(reply.rec)

(* What a path leads to: segment by segment the first entry of that name   *)
(* (in either case) that is no associated file, and on from there if that  *)
(* is a directory; an empty segment leads nowhere else.                    *)
Matches(d, name) ==
  {o \in RecordOffsets(d) :
     LET rec == Image[SeekPos(d.loc) + o]
     IN  ~Records[rec].assoc /\ SameName(Identifier(rec, FullSusp(rec)), name)}
Nowhere == [dir |-> Root, offset |-> None, is |-> {}]
LocateIn(d, name) ==
  IF Matches(d, name) = {} THEN Nowhere
  ELSE LET o == CHOOSE o \in Matches(d, name) : \A other \in Matches(d, name) : o <= other
           rec == Image[SeekPos(d.loc) + o]
       IN  [dir |-> d, offset |-> o, is |-> EntryDir(rec, FullSusp(rec))]
LocateNext(at, name) ==
  IF name = <<>> THEN at
  ELSE IF at.is = {} THEN Nowhere ELSE LocateIn(CHOOSE d \in at.is : TRUE, name)
Located(from, path) ==
  LET at[k \in 0 .. Len(path)] ==
        IF k = 0 THEN [dir |-> from, offset |-> None, is |-> {from}]
        ELSE LocateNext(at[k - 1], path[k])
  IN  at
Locate(from, path) == Located(from, path)[Len(path)]
Place(at) == [dir |-> at.dir, offset |-> at.offset]

(* find and find_recursive return what the path leads to, and answer that  *)
(* there is nothing only when it leads nowhere: never because a read       *)
(* failed on the way (ISODirectory::find, find_recursive).                 *)
FindIsRight ==
  LET at == Locate(reply.from, reply.path)
  IN  reply.op = "find" =>
        /\ reply.res = "some" =>
             at # Nowhere /\ reply.dir = at.dir /\ reply.offset = at.offset
        /\ reply.res = "none" => at = Nowhere

(* What a caller sees of the state: the directory of each iterator and     *)
(* what it has yielded, the call that is running and what the last one     *)
(* returned.                                                               *)
StreamDir == [w \in Iterators |-> dir[w]]
StreamYielded == [w \in Iterators |-> listed[w]]
StreamAsked ==
  CASE pc = "idle" -> [op |-> "none"]
    [] pc # "idle" /\ call.op = "next" -> [op |-> "next", w |-> call.w]
    [] OTHER -> [op |-> "find", from |-> call.from, path |-> call.path]
StreamAnswer ==
  IF reply.res = "some" THEN [res |-> "some", at |-> Place(reply)]
  ELSE [res |-> reply.res]

Stream == INSTANCE DirectoryStream WITH
  Offsets <- RecordOffsets, dir <- StreamDir, yielded <- StreamYielded,
  asked <- StreamAsked, answer <- StreamAnswer

(* The walks are directory streams: what every call of next, find and      *)
(* find_recursive returns, and what it leaves behind, is what              *)
(* DirectoryStream allows.                                                 *)
StreamSpec == Stream!Spec

(* Every call returns: with an entry, with None or with an error, provided *)
(* the chain of continuation areas ends.                                   *)
CallsReturn == pc # "idle" ~> pc = "idle"

=============================================================================
