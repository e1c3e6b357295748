------------------------------- MODULE IsoFuse -------------------------------
(***************************************************************************)
(* The FUSE daemon (ISOFuse): the table of inodes, the open handles and    *)
(* the request handlers, driven by a kernel that looks names up, forgets   *)
(* nodes, opens, reads and lists.  The daemon serves one request at a      *)
(* time; a handler is one step, except readdir, whose loop takes a step    *)
(* per directory record.  A FORGET travels on its own: the kernel drops    *)
(* its references at once, the daemon hears of it later.                   *)
(*                                                                         *)
(* A directory is the sequence of its entries, in the order a walk yields  *)
(* them (IsoDirectory); the offset of a record is its index.               *)
(***************************************************************************)
EXTENDS Integers, Sequences, FiniteSets, SequencesExt

CONSTANTS
  Entries,        \* the directory entries of the image
  Kind,           \* Kind[e]: "dir", "file" or "symlink"
  Name,           \* Name[e]: its identifier
  Names,          \* the names the kernel looks up
  Relocated,      \* the entries with an RE record
  Associated,     \* the entries flagged as associated files
  Serial,         \* Serial[e]: its PX serial number (0 and 1 the kernel refuses)
  Extent,         \* Extent[e]: the extent its record points to
  Listing,        \* Listing[d]: the entries of directory d, "." and ".." too
  Root,           \* the root directory
  Modes,          \* the values ISOFuse::new may give inode_autogenerated
  U64_MAX,        \* the largest u64
  MaxLookups,     \* bound: references the kernel takes to one node
  MaxForgets,     \* bound: FORGETs of one node under way
  MaxFiles,       \* bound: files the kernel has open at once
  MaxDirs,        \* bound: directories the kernel has open at once
  MaxFaults       \* bound: reads of the image that fail

FUSE_ROOT_ID == 1
Directories == {e \in Entries : Kind[e] = "dir"}

(* Every directory has at least a "." record; entries with the same serial *)
(* number are links to one object.                                         *)
ASSUME FuseAssumption ==
  /\ Root \in Entries /\ Kind[Root] = "dir"
  /\ Modes # {} /\ Modes \subseteq BOOLEAN
  /\ U64_MAX \in Nat /\ U64_MAX > FUSE_ROOT_ID
  /\ Relocated \subseteq Entries /\ Associated \subseteq Entries
  /\ Serial \in [Entries -> FUSE_ROOT_ID + 1 .. U64_MAX]
  /\ Kind \in [Entries -> {"dir", "file", "symlink"}]
  /\ Listing \in [Directories -> Seq(Entries) \ {<<>>}]
  /\ FALSE \in Modes =>
       \A d, e \in Entries : Serial[d] = Serial[e] =>
         /\ Extent[d] = Extent[e] /\ Kind[d] = Kind[e]
         /\ d \in Directories => Listing[d] = Listing[e]
  /\ {MaxLookups, MaxForgets, MaxFiles, MaxDirs, MaxFaults} \subseteq Nat

VARIABLES
  inodes,            \* inodes[ino]: the entry behind an inode number
  inode_autogenerated, \* whether numbers are given out or the image's are used
  inode_number,      \* the next number to give out
  file_number,       \* the next file handle
  directory_number,  \* the next directory handle
  open_files,        \* open_files[fh]: the file a handle reads
  open_directories,  \* open_directories[fh]: the directory it lists
  pc,                \* "idle", or "readdir" while that loop runs
  rd,                \* the locals of the running readdir
  faults,            \* how many reads of the image have failed
  nodes,             \* kernel: nodes[ino]: its references, and the entry it first stood for
  forgets,           \* kernel: forgets[ino]: FORGETs sent and not yet served
  files,             \* kernel: files[fh]: the node and entry behind an open file
  listings           \* kernel: listings[fh]: what readdir has returned so far

daemonVars == <<inodes, inode_number, file_number, directory_number,
                open_files, open_directories>>
kernelVars == <<nodes, forgets, files, listings>>
vars == <<daemonVars, inode_autogenerated, pc, rd, faults, kernelVars>>

-----------------------------------------------------------------------------

None == -1

(* HashMap::insert and remove. *)
With(f, k, v) == [x \in DOMAIN f \cup {k} |-> IF x = k THEN v ELSE f[x]]
Without(f, k) == [x \in DOMAIN f \ {k} |-> f[x]]
Empty == [x \in {} |-> 0]

(* += 1 on a u64 *)
Bump(n) == (n + 1) % (U64_MAX + 1)

NoReadDir == [fh |-> 0, offset |-> 0, out |-> <<>>]

(* ISOFuse::new, which decides once and for all where inode numbers come   *)
(* from (Volume).                                                          *)
Init ==
  /\ inode_autogenerated \in Modes
  /\ inodes = With(Empty, FUSE_ROOT_ID, Root)
  /\ inode_number = FUSE_ROOT_ID + 1
  /\ file_number = 0 /\ directory_number = 0
  /\ open_files = Empty /\ open_directories = Empty
  /\ pc = "idle" /\ rd = NoReadDir
  /\ faults = 0
  /\ nodes = With(Empty, FUSE_ROOT_ID, [refs |-> 1, entry |-> Root])
  /\ forgets = [ino \in 0 .. U64_MAX |-> 0]
  /\ files = Empty /\ listings = Empty

-----------------------------------------------------------------------------
(* lookup, forget *)

(* What find gives for a name (IsoDirectory): the first entry so called    *)
(* that is not an associated file; names that differ in case only are one  *)
(* name here.                                                              *)
Found(dir, name) ==
  LET at == {i \in 1 .. Len(Listing[dir]) :
               Listing[dir][i] \notin Associated /\ Name[Listing[dir][i]] = name}
  IN  IF at = {} THEN {}
      ELSE {Listing[dir][CHOOSE i \in at : \A j \in at : i <= j]}

InodeNumber(e) == IF inode_autogenerated THEN inode_number ELSE Serial[e]
InodeBumped == IF inode_autogenerated THEN Bump(inode_number) ELSE inode_number

(* The kernel's side of an entry reply: one more reference to the node,    *)
(* which for the kernel goes on being what it was when it came to be.      *)
Referenced(ino, e) ==
  nodes' = With(nodes, ino,
                  IF ino \in DOMAIN nodes
                  THEN [refs |-> nodes[ino].refs + 1, entry |-> nodes[ino].entry]
                  ELSE [refs |-> 1, entry |-> e])

LookupEntryWith(e, next) ==
  LET ino == InodeNumber(e)
  IN  /\ ino \in DOMAIN nodes => nodes[ino].refs < MaxLookups
      /\ inodes' = With(inodes, ino, e)
      /\ inode_number' = next
      /\ Referenced(ino, e)
LookupEntryStuck(e) == LookupEntryWith(e, inode_number)
LookupEntry(e) == LookupEntryWith(e, InodeBumped)

(* How often the kernel has been given a handle it has not released. *)
Opens(handles, fh) == IF fh \in DOMAIN handles THEN handles[fh].opens + 1 ELSE 1

(* Another request of the kernel about a node it holds. *)
Request(ino) == pc = "idle" /\ ino \in DOMAIN nodes
Known(ino) == ino \in DOMAIN inodes
Is(ino, kind) == Known(ino) /\ Kind[inodes[ino]] = kind

(* A read of the image fails. *)
ImageError == faults < MaxFaults /\ faults' = faults + 1

CanNumberAlways == TRUE
CanNumber == inode_number # U64_MAX

(* The answers that change nothing on either side: "ok" with data, or the  *)
(* error that the kernel passes on to its caller.                          *)
Answers == {"ok", "EINVAL", "ENOENT", "ENOTDIR", "EISDIR", "ENFILE", "EIO", "ENOTSUP"}
Answer(res) == res \in Answers /\ UNCHANGED <<daemonVars, kernelVars>>

Lookup(parent, name) ==
  /\ Request(parent)
  /\ \/ ~Known(parent) /\ Answer("EINVAL") /\ UNCHANGED faults
     \/ /\ Known(parent) /\ ~Is(parent, "dir")
        /\ Answer("ENOTDIR") /\ UNCHANGED faults
     \/ /\ Is(parent, "dir") /\ ~CanNumber
        /\ Answer("ENFILE") /\ UNCHANGED faults
     \/ /\ Is(parent, "dir") /\ CanNumber /\ Found(inodes[parent], name) = {}
        /\ Answer("ENOENT") /\ UNCHANGED faults
     \/ /\ Is(parent, "dir") /\ CanNumber /\ ImageError
        /\ Answer("ENOENT")
     \/ /\ Is(parent, "dir") /\ CanNumber
        /\ \E e \in Found(inodes[parent], name) : LookupEntry(e)
        /\ UNCHANGED <<file_number, directory_number, open_files,
                       open_directories, faults, forgets, files, listings>>
  /\ UNCHANGED <<pc, rd>>

(* The kernel drops every reference to a node that is not open. *)
Evict(ino) ==
  /\ ino \in DOMAIN nodes \ {FUSE_ROOT_ID}
  /\ \A fh \in DOMAIN files : files[fh].ino # ino
  /\ \A fh \in DOMAIN listings : listings[fh].ino # ino
  /\ forgets[ino] < MaxForgets
  /\ nodes' = Without(nodes, ino)
  /\ forgets' = [forgets EXCEPT ![ino] = @ + 1]
  /\ UNCHANGED <<daemonVars, pc, rd, faults, files, listings>>

(* The count of references the FORGET gives back is not looked at; a node  *)
(* that is not in the table is only logged.                                *)
Forget(ino) ==
  /\ pc = "idle"
  /\ forgets[ino] > 0
  /\ forgets' = [forgets EXCEPT ![ino] = @ - 1]
  /\ inodes' = Without(inodes, ino)
  /\ UNCHANGED <<inode_number, file_number, directory_number, open_files,
                 open_directories, pc, rd, faults, nodes, files, listings>>

(* getattr and readlink answer from the table and change nothing.  A link  *)
(* without an SL entry has no target.                                      *)
GetAttr(ino) ==
  /\ Request(ino)
  /\ Answer(IF Known(ino) THEN "ok" ELSE "EINVAL")
  /\ UNCHANGED <<pc, rd, faults>>

ReadLink(ino) ==
  /\ Request(ino)
  /\ \/ Is(ino, "symlink") /\ Answer("ok")
     \/ Answer("EINVAL")
  /\ UNCHANGED <<pc, rd, faults>>

(* Nothing has extended attributes. *)
GetXattr(ino) ==
  /\ Request(ino)
  /\ Answer("ENOTSUP")
  /\ UNCHANGED <<pc, rd, faults>>

-----------------------------------------------------------------------------
(* open, read, release *)

OpenOkWith(ino, next) ==
  /\ Cardinality(DOMAIN files) < MaxFiles
  /\ open_files' = With(open_files, file_number, inodes[ino])
  /\ files' = With(files, file_number, [ino |-> ino, entry |-> nodes[ino].entry,
                                      opens |-> Opens(files, file_number)])
  /\ file_number' = next
  /\ UNCHANGED <<inodes, inode_number, directory_number, open_directories,
                 nodes, forgets, listings>>
OpenOkReuses(ino) == OpenOkWith(ino, Cardinality(DOMAIN open_files))
OpenOk(ino) == OpenOkWith(ino, Bump(file_number))

OpenAnyKind(ino) ==
  /\ Request(ino)
  /\ Known(ino) /\ file_number # U64_MAX /\ OpenOk(ino)
  /\ UNCHANGED <<pc, rd, faults>>

Open(ino) ==
  /\ Request(ino)
  /\ \/ ~Known(ino) /\ Answer("EINVAL")
     \/ Known(ino) /\ ~Is(ino, "file") /\ Answer("EISDIR")
     \/ Is(ino, "file") /\ file_number = U64_MAX /\ Answer("ENFILE")
     \/ Is(ino, "file") /\ file_number # U64_MAX /\ OpenOk(ino)
  /\ UNCHANGED <<pc, rd, faults>>

(* The reader of the handle seeks and reads (FileReader, which has its     *)
(* position too); the answer is data of the file behind it, or an error:   *)
(* EINVAL for a negative offset or a handle that is not open.              *)
Read(fh) ==
  /\ pc = "idle" /\ fh \in DOMAIN files
  /\ \/ Answer("EINVAL") /\ UNCHANGED faults
     \/ fh \in DOMAIN open_files /\ Answer("ok") /\ UNCHANGED faults
     \/ fh \in DOMAIN open_files /\ ImageError /\ Answer("EIO")
  /\ UNCHANGED <<pc, rd>>

(* Whether the handle was in the table changes the answer only. *)
Release(fh) ==
  /\ pc = "idle" /\ fh \in DOMAIN files
  /\ files' = Without(files, fh)
  /\ open_files' = Without(open_files, fh)
  /\ UNCHANGED <<inodes, inode_number, file_number, directory_number,
                 open_directories, pc, rd, faults, nodes, forgets, listings>>

-----------------------------------------------------------------------------
(* opendir, readdir, releasedir *)

OpenDirOk(ino) ==
  /\ Cardinality(DOMAIN listings) < MaxDirs
  /\ open_directories' = With(open_directories, directory_number, inodes[ino])
  /\ listings' = With(listings, directory_number,
                      [ino |-> ino, entry |-> nodes[ino].entry, offset |-> 0,
                       got |-> <<>>, end |-> FALSE,
                       opens |-> Opens(listings, directory_number)])
  /\ directory_number' = Bump(directory_number)
  /\ UNCHANGED <<inodes, inode_number, file_number, open_files, nodes, forgets, files>>

OpenDir(ino) ==
  /\ Request(ino)
  /\ \/ ~Known(ino) /\ Answer("EINVAL")
     \/ Known(ino) /\ ~Is(ino, "dir") /\ Answer("ENOTDIR")
     \/ Is(ino, "dir") /\ directory_number = U64_MAX /\ Answer("ENFILE")
     \/ Is(ino, "dir") /\ directory_number # U64_MAX /\ OpenDirOk(ino)
  /\ UNCHANGED <<pc, rd, faults>>

ReleaseDirWith(fh, left) ==
  /\ pc = "idle" /\ fh \in DOMAIN listings
  /\ listings' = Without(listings, fh)
  /\ open_directories' = left
  /\ UNCHANGED <<inodes, inode_number, file_number, directory_number,
                 open_files, pc, rd, faults, nodes, forgets, files>>
ReleaseDirKeeps(fh) == ReleaseDirWith(fh, open_directories)
ReleaseDir(fh) == ReleaseDirWith(fh, Without(open_directories, fh))

(* The kernel starts the listing over. *)
RewindDir(fh) ==
  /\ pc = "idle" /\ fh \in DOMAIN listings
  /\ listings' = [listings EXCEPT ![fh] =
                    [@ EXCEPT !.offset = 0, !.got = <<>>, !.end = FALSE]]
  /\ UNCHANGED <<daemonVars, pc, rd, faults, nodes, forgets, files>>

(* reply.ok(): the kernel goes on after the last entry it got; an answer   *)
(* without entries is the end of the directory.                            *)
ReadDirOk(fh, out) ==
  /\ listings' =
       [listings EXCEPT ![fh] =
          IF out = <<>> THEN [@ EXCEPT !.end = TRUE]
          ELSE [@ EXCEPT !.offset = Last(out).next,
                         !.got = listings[fh].got \o [i \in 1 .. Len(out) |-> out[i].entry]]]
  /\ pc' = "idle" /\ rd' = NoReadDir
  /\ UNCHANGED <<nodes, forgets, files>>

ReadDirCall(fh) ==
  /\ pc = "idle" /\ fh \in DOMAIN listings
  /\ IF fh \notin DOMAIN open_directories
     THEN Answer("EINVAL") /\ UNCHANGED <<pc, rd>>
     ELSE \/ /\ listings[fh].offset = None
             /\ ReadDirOk(fh, <<>>) /\ UNCHANGED daemonVars
          \/ /\ listings[fh].offset # None
             /\ pc' = "readdir"
             /\ rd' = [fh |-> fh, offset |-> listings[fh].offset, out |-> <<>>]
             /\ UNCHANGED <<daemonVars, kernelVars>>
  /\ UNCHANGED faults

(* The record the loop is at, and where the next one is. *)
RdList == Listing[open_directories[rd.fh]]
RdEntry == RdList[rd.offset + 1]
RdNext == IF rd.offset + 1 < Len(RdList) THEN rd.offset + 1 ELSE None

(* An error answer drops the entries that were added before it. *)
ReadDirFails(res) ==
  /\ Answer(res)
  /\ pc' = "idle" /\ rd' = NoReadDir

ReadDirLimit ==
  /\ pc = "readdir" /\ ~CanNumber
  /\ ReadDirFails("ENFILE")
  /\ UNCHANGED faults

ReadDirError ==
  /\ pc = "readdir" /\ CanNumber /\ ImageError
  /\ ReadDirFails("EINVAL")

(* A relocated directory is passed over. *)
ReadDirHidesTo(offset) ==
  /\ pc = "readdir" /\ CanNumber /\ RdEntry \in Relocated
  /\ \/ /\ RdNext # None
        /\ rd' = [rd EXCEPT !.offset = offset]
        /\ UNCHANGED <<pc, kernelVars>>
     \/ RdNext = None /\ ReadDirOk(rd.fh, rd.out)
  /\ UNCHANGED <<daemonVars, faults>>
ReadDirHidesStuck == ReadDirHidesTo(rd.offset)
ReadDirHides == ReadDirHidesTo(RdNext)

(* The reply is full: the entry is not in it, and the kernel will ask for  *)
(* it again.  The first entry always fits.                                 *)
ReadDirFull ==
  /\ pc = "readdir" /\ CanNumber /\ RdEntry \notin Relocated
  /\ rd.out # <<>>
  /\ ReadDirOk(rd.fh, rd.out)
  /\ UNCHANGED <<daemonVars, faults>>

(* The entry is added under its number, and put in the table unless it is  *)
(* "." or "..".                                                            *)
ReadDirAddsAt(fuse_offset) ==
  LET out == Append(rd.out, [ino |-> InodeNumber(RdEntry), next |-> fuse_offset,
                             entry |-> RdEntry])
  IN  /\ pc = "readdir" /\ CanNumber /\ RdEntry \notin Relocated
      /\ inodes' = IF Name[RdEntry] \in {".", ".."} THEN inodes
                   ELSE With(inodes, InodeNumber(RdEntry), RdEntry)
      /\ inode_number' = InodeBumped
      /\ \/ /\ RdNext # None
            /\ rd' = [rd EXCEPT !.offset = RdNext, !.out = out]
            /\ UNCHANGED <<pc, kernelVars>>
         \/ RdNext = None /\ ReadDirOk(rd.fh, out)
      /\ UNCHANGED <<file_number, directory_number, open_files,
                     open_directories, faults>>
ReadDirAddsHere == ReadDirAddsAt(rd.offset)
ReadDirAdds == ReadDirAddsAt(RdNext)

-----------------------------------------------------------------------------

ReadDirStep ==
  ReadDirLimit \/ ReadDirError \/ ReadDirHides \/ ReadDirFull \/ ReadDirAdds

Next ==
  /\ \/ ReadDirStep
     \/ \E ino \in DOMAIN nodes, name \in Names : Lookup(ino, name)
     \/ \E ino \in DOMAIN nodes :
          \/ Evict(ino) \/ GetAttr(ino) \/ GetXattr(ino)
          \/ ReadLink(ino) \/ Open(ino) \/ OpenDir(ino)
     \/ \E ino \in 0 .. U64_MAX : Forget(ino)
     \/ \E fh \in DOMAIN files : Read(fh) \/ Release(fh)
     \/ \E fh \in DOMAIN listings : ReadDirCall(fh) \/ ReleaseDir(fh) \/ RewindDir(fh)
  /\ UNCHANGED inode_autogenerated

Spec == Init /\ [][Next]_vars

(* The daemon does not stop inside a request; no fault is forced. *)
FairSpec == Spec /\ WF_vars(ReadDirStep /\ UNCHANGED <<faults, inode_autogenerated>>)

-----------------------------------------------------------------------------
(* Properties *)

(* The tables are well formed: a file handle has a reader of a file, a     *)
(* directory handle a directory, and readdir is inside its directory.      *)
TypeOK ==
  /\ DOMAIN inodes \subseteq 0 .. U64_MAX
  /\ \A ino \in DOMAIN inodes : inodes[ino] \in Entries
  /\ inode_number \in 0 .. U64_MAX
  /\ file_number \in 0 .. U64_MAX
  /\ directory_number \in 0 .. U64_MAX
  /\ \A fh \in DOMAIN open_files : Kind[open_files[fh]] = "file"
  /\ \A fh \in DOMAIN open_directories : Kind[open_directories[fh]] = "dir"
  /\ pc \in {"idle", "readdir"}
  /\ pc = "readdir" => /\ rd.fh \in DOMAIN open_directories
                       /\ rd.offset \in 0 .. Len(RdList) - 1
  /\ faults \in 0 .. MaxFaults

(* As long as the kernel holds a node, it stands for the entry that the    *)
(* kernel's first lookup gave it, or for a hard link to it: no later       *)
(* lookup, readdir or FORGET gives its number to something else.  With     *)
(* generated numbers it does not go from the daemon's table either.        *)
NodesStable ==
  \A ino \in DOMAIN nodes :
    /\ Known(ino) => Extent[inodes[ino]] = Extent[nodes[ino].entry]
    /\ inode_autogenerated => Known(ino)

(* A node the kernel holds is in the daemon's table, wherever its number   *)
(* comes from: the requests about it can be served.                        *)
NodesKept == \A ino \in DOMAIN nodes : Known(ino)

(* An open handle reads or lists what was opened, whatever is looked up,   *)
(* forgotten, opened or released meanwhile; no handle is given out twice,  *)
(* and the daemon keeps none the kernel has released.                      *)
HandlesStable ==
  /\ DOMAIN open_files = DOMAIN files
  /\ \A fh \in DOMAIN files :
       Extent[open_files[fh]] = Extent[files[fh].entry] /\ files[fh].opens = 1
  /\ DOMAIN open_directories = DOMAIN listings
  /\ \A fh \in DOMAIN listings :
       /\ Extent[open_directories[fh]] = Extent[listings[fh].entry]
       /\ listings[fh].opens = 1

(* got is what there is to see of the first n entries of a list: each     *)
(* entry that is not relocated once, in the order of the list.             *)
Shows(got, list, n) ==
  \E at \in [1 .. Len(got) -> 1 .. n] :
    /\ \A j, k \in 1 .. Len(got) : j < k => at[j] < at[k]
    /\ \A k \in 1 .. Len(got) : got[k] = list[at[k]] /\ got[k] \notin Relocated
    /\ \A i \in 1 .. n : list[i] \notin Relocated => \E k \in 1 .. Len(got) : at[k] = i

(* What a series of readdir requests has returned is the directory without *)
(* its relocated entries, each once and in order, up to some record, and   *)
(* all of it when the end is reported, wherever replies were cut and       *)
(* whichever requests failed.                                              *)
ListingExact ==
  \A fh \in DOMAIN listings :
    LET l == listings[fh]
        list == Listing[l.entry]
    IN  /\ \E n \in 0 .. Len(list) : Shows(l.got, list, n)
        /\ l.end => Shows(l.got, list, Len(list))

(* The loop of readdir ends. *)
ReadDirReturns == pc = "readdir" ~> pc = "idle"

=============================================================================
