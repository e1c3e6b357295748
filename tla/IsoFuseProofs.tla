---------------------------- MODULE IsoFuseProofs ----------------------------
(***************************************************************************)
(* Proofs about IsoFuse, for every image, both ways of numbering inodes,   *)
(* any number of requests and any limit of the counters: TypeOK,           *)
(* NodesStable, HandlesStable and ListingExact.                            *)
(***************************************************************************)
EXTENDS IsoFuse, NatLemmas, SequenceTheorems

-----------------------------------------------------------------------------
(* The inductive invariant *)

ListingRecord ==
  [ino : 0 .. U64_MAX, entry : Entries, offset : Nat \cup {None},
   got : Seq(Entries), end : BOOLEAN, opens : Nat]
ReplyEntry == [ino : 0 .. U64_MAX, next : Nat \cup {None}, entry : Entries]

(* An offset at which a listing can be resumed. *)
Resumable(offset, d) == offset # None => offset < Len(Listing[d])

(* The rest of what the variables range over.  The offsets the kernel has  *)
(* and those in the reply under way are offsets of records.                *)
Ranges ==
  /\ inode_autogenerated \in Modes
  /\ DOMAIN nodes \subseteq 0 .. U64_MAX
  /\ \A ino \in DOMAIN nodes : nodes[ino].entry \in Entries
  /\ forgets \in [0 .. U64_MAX -> Nat]
  /\ \A fh \in DOMAIN open_files : open_files[fh] \in Entries
  /\ \A fh \in DOMAIN files : files[fh].entry \in Entries
  /\ \A fh \in DOMAIN open_directories : open_directories[fh] \in Directories
  /\ DOMAIN listings = DOMAIN open_directories
  /\ \A fh \in DOMAIN listings :
       /\ listings[fh] \in ListingRecord
       /\ Resumable(listings[fh].offset, open_directories[fh])
  /\ rd \in [fh : Nat, offset : Nat, out : Seq(ReplyEntry)]
  /\ pc = "readdir" =>
       \A i \in 1 .. Len(rd.out) : Resumable(rd.out[i].next, open_directories[rd.fh])
  /\ DOMAIN open_directories \subseteq 0 .. U64_MAX

TypeInv == TypeOK /\ Ranges

(* Two entries the daemon may take for each other: with serial numbers,    *)
(* links to the same object.                                               *)
Same(a, b) == a = b \/ (~inode_autogenerated /\ Serial[a] = Serial[b])

(* Where a number comes from: the counter, which is past every number that *)
(* was given out, or the image.  A node whose FORGET is under way is no    *)
(* longer held when numbers are not used again.                            *)
Generated ==
  inode_autogenerated =>
    /\ \A ino \in DOMAIN inodes \cup DOMAIN nodes : ino < inode_number
    /\ DOMAIN nodes \subseteq DOMAIN inodes
    /\ \A ino \in 0 .. U64_MAX :
         forgets[ino] > 0 => ino < inode_number /\ ino \notin DOMAIN nodes
FromSerial ==
  ~inode_autogenerated =>
    /\ \A ino \in DOMAIN inodes : ino # FUSE_ROOT_ID => Serial[inodes[ino]] = ino
    /\ \A ino \in DOMAIN nodes : ino # FUSE_ROOT_ID => Serial[nodes[ino].entry] = ino
RootStays ==
  /\ FUSE_ROOT_ID \in DOMAIN nodes /\ nodes[FUSE_ROOT_ID].entry = Root
  /\ FUSE_ROOT_ID \in DOMAIN inodes => inodes[FUSE_ROOT_ID] = Root
NodesAgree ==
  \A ino \in DOMAIN nodes : Known(ino) => Same(inodes[ino], nodes[ino].entry)

NodesInv == Generated /\ FromSerial /\ RootStays /\ NodesAgree

(* Handles are given out by counters, too. *)
FilesInv ==
  /\ DOMAIN open_files = DOMAIN files
  /\ \A fh \in DOMAIN files :
       /\ fh \in Nat /\ fh < file_number /\ files[fh].opens = 1
       /\ Same(open_files[fh], files[fh].entry)
DirectoriesInv ==
  \A fh \in DOMAIN listings :
    /\ fh < directory_number /\ listings[fh].opens = 1
    /\ Same(open_directories[fh], listings[fh].entry)

(* How many records come before an offset, and the entries of a reply. *)
Before(offset, list) == IF offset = None THEN Len(list) ELSE offset
Told(out) == [i \in 1 .. Len(out) |-> out[i].entry]

(* What the kernel has got of a directory is what there is to see before   *)
(* the offset it goes on from; and with the entries of the reply under way *)
(* what there is to see before the record readdir is at, and before the    *)
(* offset of the last entry of the reply, from which the kernel will go on *)
(* if the reply is sent now.                                               *)
ListingInv(l, d) ==
  LET list == Listing[d]
      n == Before(l.offset, list)
  IN  /\ Shows(l.got, list, n)
      /\ l.end => \A i \in n + 1 .. Len(list) : list[i] \in Relocated
ListingsInv == \A fh \in DOMAIN listings : ListingInv(listings[fh], open_directories[fh])

(* As long as the reply is empty, readdir has passed over relocated        *)
(* directories only.                                                       *)
ReplyInv ==
  pc = "readdir" =>
    LET l == listings[rd.fh]
        seen == l.got \o Told(rd.out)
        n == Before(l.offset, RdList)
    IN  /\ Shows(seen, RdList, rd.offset)
        /\ rd.out # <<>> =>
             /\ Shows(seen, RdList, Before(Last(rd.out).next, RdList))
             /\ ~l.end
        /\ rd.out = <<>> =>
             /\ n <= rd.offset
             /\ \A i \in n + 1 .. rd.offset : RdList[i] \in Relocated

-----------------------------------------------------------------------------
(* What a step does *)

(* Below its limit a counter counts. *)
LEMMA BumpIs ==
  ASSUME NEW n \in 0 .. U64_MAX, n # U64_MAX
  PROVE  Bump(n) = n + 1 /\ Bump(n) \in 0 .. U64_MAX
<1>1. U64_MAX \in Nat
  BY FuseAssumption
<1>2. n + 1 \in 0 .. U64_MAX
  BY <1>1
<1>3. \A m \in Nat : \A k \in 0 .. m : k % (m + 1) = k
  OBVIOUS
<1> QED
  BY <1>1, <1>2, <1>3 DEF Bump

(* What find gives is an entry of the image. *)
LEMMA FoundIsEntry ==
  ASSUME NEW d \in Directories, NEW name
  PROVE  Found(d, name) \subseteq Entries
<1> DEFINE at == {i \in 1 .. Len(Listing[d]) :
                    Listing[d][i] \notin Associated /\ Name[Listing[d][i]] = name}
<1>1. Listing[d] \in Seq(Entries)
  BY FuseAssumption
<1>2. CASE at = {}
  BY <1>2 DEF Found
<1>3. CASE at # {}
  <2>1. at \subseteq 1 .. Len(Listing[d]) /\ at \subseteq Nat
    BY <1>1
  <2> DEFINE first == CHOOSE i \in at : \A j \in at : i <= j
  <2>2. \E i \in at : \A j \in at : i <= j
    <3> HIDE DEF at
    <3> QED
      BY <1>3, <2>1, Least
  <2>3. first \in at
    BY <2>2
  <2>4. Found(d, name) = {Listing[d][first]}
    BY <1>3 DEF Found
  <2> HIDE DEF at, first
  <2>5. Listing[d][first] \in Entries
    BY <1>1, <2>1, <2>3
  <2> QED
    BY <2>4, <2>5
<1> QED
  BY <1>2, <1>3

(* The effects of the handlers: an answer that changes nothing but the     *)
(* count of faults; an entry that is looked up, a file or a directory that *)
(* is opened; and the ends of a readdir.                                   *)
Quiet == UNCHANGED <<daemonVars, kernelVars, pc, rd>>
Looks(e) ==
  /\ CanNumber /\ LookupEntry(e)
  /\ UNCHANGED <<file_number, directory_number, open_files, open_directories,
                 forgets, files, listings, pc, rd>>
OpensFile(ino) ==
  /\ pc = "idle" /\ Is(ino, "file") /\ file_number # U64_MAX /\ OpenOk(ino)
  /\ UNCHANGED <<pc, rd>>
OpensDirectory(ino) ==
  /\ pc = "idle" /\ Is(ino, "dir") /\ directory_number # U64_MAX /\ OpenDirOk(ino)
  /\ UNCHANGED <<pc, rd>>
Begins(fh) ==
  /\ pc = "idle" /\ fh \in DOMAIN open_directories /\ listings[fh].offset # None
  /\ pc' = "readdir"
  /\ rd' = [fh |-> fh, offset |-> listings[fh].offset, out |-> <<>>]
  /\ UNCHANGED <<daemonVars, kernelVars>>
AtEnd(fh) ==
  /\ pc = "idle" /\ listings[fh].offset = None
  /\ ReadDirOk(fh, <<>>) /\ UNCHANGED daemonVars
Fails ==
  /\ pc = "readdir" /\ pc' = "idle" /\ rd' = NoReadDir
  /\ UNCHANGED <<daemonVars, kernelVars>>
PassesOver ==
  /\ pc = "readdir" /\ RdEntry \in Relocated /\ RdNext # None
  /\ rd' = [rd EXCEPT !.offset = RdNext]
  /\ UNCHANGED <<daemonVars, kernelVars, pc>>
Sends ==
  /\ pc = "readdir"
  /\ rd.out # <<>> \/ (RdNext = None /\ RdEntry \in Relocated)
  /\ ReadDirOk(rd.fh, rd.out) /\ UNCHANGED daemonVars

Effect ==
  \/ Quiet
  \/ \E e \in Entries : Looks(e)
  \/ \E ino \in DOMAIN nodes : Evict(ino) \/ OpensFile(ino) \/ OpensDirectory(ino)
  \/ \E ino \in 0 .. U64_MAX : Forget(ino)
  \/ \E fh \in DOMAIN files : Release(fh)
  \/ \E fh \in DOMAIN listings :
       ReleaseDir(fh) \/ RewindDir(fh) \/ Begins(fh) \/ AtEnd(fh)
  \/ Fails \/ PassesOver \/ Sends \/ ReadDirAdds

(* Every step has one of these effects. *)
LEMMA StepHasEffect ==
  ASSUME TypeInv, [Next]_vars
  PROVE  /\ Effect
         /\ inode_autogenerated' = inode_autogenerated
         /\ faults' \in 0 .. MaxFaults
<1>0. faults \in 0 .. MaxFaults /\ MaxFaults \in Nat
  BY FuseAssumption DEF TypeInv, TypeOK
<1> DEFINE Good == Effect /\ faults' \in 0 .. MaxFaults
<1> SUFFICES Good
  BY DEF Next, vars
<1>1. CASE UNCHANGED vars
  BY <1>0, <1>1 DEF vars, Effect, Quiet
<1>2. ASSUME NEW ino \in DOMAIN nodes, NEW name \in Names, Lookup(ino, name)
      PROVE  Good
  <2>1. ASSUME Is(ino, "dir"), CanNumber, NEW e \in Found(inodes[ino], name),
               LookupEntry(e),
               UNCHANGED <<file_number, directory_number, open_files,
                           open_directories, faults, forgets, files, listings>>,
               UNCHANGED <<pc, rd>>
        PROVE  Good
    <3>1. inodes[ino] \in Directories
      BY <2>1 DEF Is, Known, Directories, TypeInv, TypeOK
    <3>2. e \in Entries
      BY <3>1, FoundIsEntry
    <3>3. Looks(e)
      BY <2>1 DEF Looks
    <3> QED
      BY <1>0, <2>1, <3>2, <3>3 DEF Effect
  <2>2. CASE \E res \in Answers : Answer(res) /\ UNCHANGED <<pc, rd>> /\ (UNCHANGED faults \/ ImageError)
    BY <1>0, <2>2 DEF Effect, Quiet, Answer, ImageError
  <2> QED
    BY <1>2, <2>1, <2>2 DEF Lookup, Answers
<1>3. ASSUME NEW ino \in DOMAIN nodes, GetAttr(ino) \/ GetXattr(ino) \/ ReadLink(ino)
      PROVE  Good
  BY <1>0, <1>3 DEF GetAttr, GetXattr, ReadLink, Answer, Effect, Quiet
<1>4. ASSUME NEW ino \in DOMAIN nodes, Open(ino)
      PROVE  Good
  BY <1>0, <1>4 DEF Open, Request, Answer, Effect, Quiet, OpensFile
<1>5. ASSUME NEW ino \in DOMAIN nodes, OpenDir(ino)
      PROVE  Good
  BY <1>0, <1>5 DEF OpenDir, Request, Answer, Effect, Quiet, OpensDirectory
<1>6. ASSUME NEW ino \in DOMAIN nodes, Evict(ino)
      PROVE  Good
  <2>1. faults' = faults
    BY <1>6 DEF Evict
  <2> QED
    BY <1>0, <1>6, <2>1 DEF Effect
<1>7. ASSUME NEW ino \in 0 .. U64_MAX, Forget(ino)
      PROVE  Good
  <2>1. faults' = faults
    BY <1>7 DEF Forget
  <2> QED
    BY <1>0, <1>7, <2>1 DEF Effect
<1>8. ASSUME NEW fh \in DOMAIN files, Read(fh)
      PROVE  Good
  BY <1>0, <1>8 DEF Read, Answer, ImageError, Effect, Quiet
<1>9. ASSUME NEW fh \in DOMAIN files, Release(fh)
      PROVE  Good
  <2>1. faults' = faults
    BY <1>9 DEF Release
  <2> QED
    BY <1>0, <1>9, <2>1 DEF Effect
<1>10. ASSUME NEW fh \in DOMAIN listings, ReleaseDir(fh) \/ RewindDir(fh)
       PROVE  Good
  <2>1. faults' = faults
    BY <1>10 DEF ReleaseDir, ReleaseDirWith, RewindDir
  <2> QED
    BY <1>0, <1>10, <2>1 DEF Effect
<1>11. ASSUME NEW fh \in DOMAIN listings, ReadDirCall(fh)
       PROVE  Good
  <2>1. faults' = faults
    BY <1>11 DEF ReadDirCall
  <2>2. Quiet \/ Begins(fh) \/ AtEnd(fh)
    BY <1>11 DEF ReadDirCall, Quiet, Begins, AtEnd, Answer
  <2> QED
    BY <1>0, <2>1, <2>2 DEF Effect
<1>12. CASE ReadDirLimit \/ ReadDirError
  <2>1. Fails
    BY <1>12 DEF ReadDirLimit, ReadDirError, ReadDirFails, Answer, Fails
  <2>2. faults' \in 0 .. MaxFaults
    BY <1>0, <1>12 DEF ReadDirLimit, ReadDirError, ImageError
  <2> QED
    BY <2>1, <2>2 DEF Effect
<1>13. CASE ReadDirHides
  <2>1. PassesOver \/ Sends
    BY <1>13 DEF ReadDirHides, ReadDirHidesTo, PassesOver, Sends
  <2>2. faults' = faults
    BY <1>13 DEF ReadDirHides, ReadDirHidesTo
  <2> QED
    BY <1>0, <2>1, <2>2 DEF Effect
<1>14. CASE ReadDirFull
  <2>1. Sends /\ faults' = faults
    BY <1>14 DEF ReadDirFull, Sends
  <2> QED
    BY <1>0, <2>1 DEF Effect
<1>15. CASE ReadDirAdds
  <2>1. faults' = faults
    BY <1>15 DEF ReadDirAdds, ReadDirAddsAt
  <2> QED
    BY <1>0, <1>15, <2>1 DEF Effect
<1> QED
  BY <1>1, <1>2, <1>3, <1>4, <1>5, <1>6, <1>7, <1>8, <1>9, <1>10, <1>11, <1>12,
     <1>13, <1>14, <1>15 DEF Next, ReadDirStep

-----------------------------------------------------------------------------
(* Type correctness *)

LEMMA NoReadDirType == NoReadDir \in [fh : Nat, offset : Nat, out : Seq(ReplyEntry)]
BY DEF NoReadDir

(* The record a readdir is at is an entry of the image, and the one after  *)
(* it, if there is one, is in the directory.                               *)
LEMMA RdIsInside ==
  ASSUME TypeInv, pc = "readdir"
  PROVE  /\ RdList \in Seq(Entries) /\ RdList # <<>>
         /\ rd.offset + 1 \in 1 .. Len(RdList)
         /\ RdEntry \in Entries
         /\ RdNext \in Nat \cup {None}
         /\ RdNext # None => RdNext = rd.offset + 1 /\ RdNext \in 0 .. Len(RdList) - 1
         /\ RdNext = None => rd.offset + 1 = Len(RdList)
         /\ rd.fh \in DOMAIN listings
<1>1. /\ open_directories[rd.fh] \in Directories
      /\ rd.offset \in 0 .. Len(RdList) - 1
      /\ rd.fh \in DOMAIN listings
  BY DEF TypeInv, TypeOK, Ranges
<1>2. RdList \in Seq(Entries) /\ RdList # <<>>
  BY <1>1, FuseAssumption DEF RdList
<1>3. Len(RdList) \in Nat /\ rd.offset \in Nat /\ rd.offset + 1 \in 1 .. Len(RdList)
  BY <1>1, <1>2
<1>4. RdEntry \in Entries
  BY <1>2, <1>3 DEF RdEntry
<1>5. None \notin Nat
  BY DEF None
<1> QED
  BY <1>1, <1>2, <1>3, <1>4, <1>5 DEF RdNext

(* Numbers that are given out are in range. *)
LEMMA InodeNumberType ==
  ASSUME TypeInv, CanNumber, NEW e \in Entries
  PROVE  InodeNumber(e) \in 0 .. U64_MAX /\ InodeBumped \in 0 .. U64_MAX
<1>1. Serial[e] \in 0 .. U64_MAX
  BY FuseAssumption DEF FUSE_ROOT_ID
<1>2. inode_number \in 0 .. U64_MAX /\ inode_number # U64_MAX
  BY DEF TypeInv, TypeOK, CanNumber
<1> QED
  BY <1>1, <1>2, BumpIs DEF InodeNumber, InodeBumped

(* What the kernel makes of an empty reply, and of a rewind. *)
LEMMA ListingEnds ==
  ASSUME NEW l \in ListingRecord, NEW m, m = [l EXCEPT !.end = TRUE]
  PROVE  /\ m \in ListingRecord /\ m.end = TRUE
         /\ m.entry = l.entry /\ m.opens = l.opens
         /\ m.offset = l.offset /\ m.got = l.got
BY Zenon DEF ListingRecord

LEMMA ListingRewinds ==
  ASSUME NEW l \in ListingRecord, NEW m,
         m = [l EXCEPT !.offset = 0, !.got = <<>>, !.end = FALSE]
  PROVE  /\ m \in ListingRecord /\ m.end = FALSE
         /\ m.entry = l.entry /\ m.opens = l.opens
         /\ m.offset = 0 /\ m.got = <<>>
<1>1. 0 \in Nat \cup {None} /\ <<>> \in Seq(Entries)
  OBVIOUS
<1> QED
  BY <1>1, Zenon DEF ListingRecord

LEMMA InitTypeInv == Init => TypeInv
<1> SUFFICES ASSUME Init
             PROVE  TypeInv
  OBVIOUS
<1>1. TypeOK
  BY FuseAssumption DEF Init, TypeOK, With, Empty, FUSE_ROOT_ID
<1>2. Ranges
  BY FuseAssumption, NoReadDirType DEF Init, Ranges, With, Empty, FUSE_ROOT_ID
<1> QED
  BY <1>1, <1>2 DEF TypeInv

(* A lookup leaves the nodes the kernel holds what they are. *)
LEMMA ReferencedKeeps ==
  ASSUME NEW k, NEW e, Referenced(k, e)
  PROVE  /\ DOMAIN nodes' = DOMAIN nodes \cup {k}
         /\ \A ino \in DOMAIN nodes : nodes'[ino].entry = nodes[ino].entry
         /\ k \notin DOMAIN nodes => nodes'[k].entry = e
BY DEF Referenced, With

LEMMA LooksType ==
  ASSUME TypeInv, UNCHANGED inode_autogenerated, faults' \in 0 .. MaxFaults,
         NEW e \in Entries, Looks(e)
  PROVE  TypeInv'
<1> DEFINE ino == InodeNumber(e)
<1>1. /\ ino \in 0 .. U64_MAX
      /\ inodes' = With(inodes, ino, e) /\ inode_number' \in 0 .. U64_MAX
      /\ DOMAIN nodes' = DOMAIN nodes \cup {ino}
      /\ \A x \in DOMAIN nodes' :
           IF x \in DOMAIN nodes THEN nodes'[x].entry = nodes[x].entry
           ELSE nodes'[x].entry = e
  BY InodeNumberType, ReferencedKeeps DEF Looks, LookupEntry, LookupEntryWith
<1> HIDE DEF ino
<1>2. TypeOK'
  BY <1>1 DEF With, TypeInv, TypeOK, Looks, RdList
<1>3. Ranges'
  BY <1>1 DEF TypeInv, Ranges, Looks
<1> QED
  BY <1>2, <1>3 DEF TypeInv

LEMMA KernelType ==
  ASSUME TypeInv, UNCHANGED inode_autogenerated, faults' \in 0 .. MaxFaults,
         \/ \E ino \in DOMAIN nodes : Evict(ino)
         \/ \E ino \in 0 .. U64_MAX : Forget(ino)
  PROVE  TypeInv'
<1>1. ASSUME NEW ino \in DOMAIN nodes, Evict(ino)
      PROVE  TypeInv'
  <2>1. TypeOK'
    BY <1>1 DEF TypeInv, TypeOK, Evict, daemonVars, RdList
  <2>2. /\ DOMAIN nodes' \subseteq DOMAIN nodes
        /\ \A x \in DOMAIN nodes' : nodes'[x] = nodes[x]
    BY <1>1 DEF Without, Evict
  <2>3. forgets' \in [0 .. U64_MAX -> Nat]
    BY <1>1 DEF TypeInv, Ranges, Evict
  <2>4. UNCHANGED <<daemonVars, pc, rd, files, listings>>
    BY <1>1 DEF Evict
  <2>5. Ranges'
    BY <2>2, <2>3, <2>4 DEF TypeInv, Ranges, daemonVars
  <2> QED
    BY <2>1, <2>5 DEF TypeInv
<1>2. ASSUME NEW ino \in 0 .. U64_MAX, Forget(ino)
      PROVE  TypeInv'
  <2>1. TypeOK'
    BY <1>2 DEF Without, TypeInv, TypeOK, Forget, RdList
  <2>2. Ranges'
    BY <1>2 DEF TypeInv, Ranges, Forget
  <2> QED
    BY <2>1, <2>2 DEF TypeInv
<1> QED
  BY <1>1, <1>2

LEMMA FilesType ==
  ASSUME TypeInv, UNCHANGED inode_autogenerated, faults' \in 0 .. MaxFaults,
         \/ \E ino \in DOMAIN nodes : OpensFile(ino)
         \/ \E fh \in DOMAIN files : Release(fh)
  PROVE  TypeInv'
<1>1. ASSUME NEW ino \in DOMAIN nodes, OpensFile(ino)
      PROVE  TypeInv'
  <2>1. /\ Kind[inodes[ino]] = "file" /\ inodes[ino] \in Entries
        /\ nodes[ino].entry \in Entries
        /\ Bump(file_number) \in 0 .. U64_MAX
    BY <1>1, BumpIs DEF OpensFile, Is, Known, TypeInv, TypeOK, Ranges
  <2>2. TypeOK'
    BY <1>1, <2>1 DEF With, TypeInv, TypeOK, OpensFile, OpenOk, OpenOkWith, RdList
  <2>3. Ranges'
    BY <1>1, <2>1 DEF With, TypeInv, Ranges, OpensFile, OpenOk, OpenOkWith
  <2> QED
    BY <2>2, <2>3 DEF TypeInv
<1>2. ASSUME NEW fh \in DOMAIN files, Release(fh)
      PROVE  TypeInv'
  <2>1. TypeOK'
    BY <1>2 DEF Without, TypeInv, TypeOK, Release, RdList
  <2>2. Ranges'
    BY <1>2 DEF Without, TypeInv, Ranges, Release
  <2> QED
    BY <2>1, <2>2 DEF TypeInv
<1> QED
  BY <1>1, <1>2

LEMMA DirectoriesType ==
  ASSUME TypeInv, UNCHANGED inode_autogenerated, faults' \in 0 .. MaxFaults,
         \/ \E ino \in DOMAIN nodes : OpensDirectory(ino)
         \/ \E fh \in DOMAIN listings : ReleaseDir(fh) \/ RewindDir(fh)
  PROVE  TypeInv'
<1>1. ASSUME NEW ino \in DOMAIN nodes, OpensDirectory(ino)
      PROVE  TypeInv'
  <2> DEFINE n == directory_number
             l == [ino |-> ino, entry |-> nodes[ino].entry, offset |-> 0, got |-> <<>>,
                   end |-> FALSE, opens |-> Opens(listings, n)]
  <2>1. /\ inodes[ino] \in Directories
        /\ nodes[ino].entry \in Entries /\ ino \in 0 .. U64_MAX
        /\ Bump(n) \in 0 .. U64_MAX /\ n \in 0 .. U64_MAX
    BY <1>1, BumpIs
       DEF OpensDirectory, Is, Known, TypeInv, TypeOK, Ranges, Directories
  <2>2. Opens(listings, n) \in Nat
    BY DEF Opens, TypeInv, Ranges, ListingRecord
  <2>3. l \in ListingRecord
    BY <2>1, <2>2 DEF ListingRecord
  <2>4. Resumable(0, inodes[ino])
    BY <2>1, FuseAssumption DEF Resumable
  <2>5. TypeOK'
    BY <1>1, <2>1 DEF With, TypeInv, TypeOK, OpensDirectory, OpenDirOk, Directories
  <2>6. l.offset = 0
    OBVIOUS
  <2>7. /\ listings' = With(listings, n, l)
        /\ open_directories' = With(open_directories, n, inodes[ino])
    BY <1>1 DEF OpensDirectory, OpenDirOk
  <2> HIDE DEF l, n
  <2>8. DOMAIN listings' = DOMAIN listings \cup {n} /\ DOMAIN open_directories' = DOMAIN listings'
    BY <2>7 DEF With, TypeInv, Ranges
  <2>9. ASSUME NEW fh \in DOMAIN listings'
        PROVE  /\ open_directories'[fh] \in Directories
               /\ listings'[fh] \in ListingRecord
               /\ Resumable(listings'[fh].offset, open_directories'[fh])
    <3>1. CASE fh = n
      BY <2>1, <2>3, <2>4, <2>6, <2>7, <2>8, <3>1 DEF With
    <3>2. CASE fh # n
      BY <2>7, <2>8, <3>2 DEF With, TypeInv, Ranges
    <3> QED
      BY <3>1, <3>2
  <2>10. pc' = "idle" /\ UNCHANGED <<nodes, forgets, files, open_files, rd>>
    BY <1>1 DEF OpensDirectory, OpenDirOk
  <2>11. DOMAIN open_directories' \subseteq 0 .. U64_MAX
    BY <2>1, <2>8 DEF TypeInv, Ranges
  <2>12. Ranges'
    BY <2>8, <2>9, <2>10, <2>11 DEF TypeInv, Ranges
  <2> QED
    BY <2>5, <2>12 DEF TypeInv
<1>2. ASSUME NEW fh \in DOMAIN listings, ReleaseDir(fh)
      PROVE  TypeInv'
  <2>1. TypeOK'
    BY <1>2 DEF Without, TypeInv, TypeOK, ReleaseDir, ReleaseDirWith
  <2>2. Ranges'
    BY <1>2 DEF Without, TypeInv, Ranges, ReleaseDir, ReleaseDirWith
  <2> QED
    BY <2>1, <2>2 DEF TypeInv
<1>3. ASSUME NEW fh \in DOMAIN listings, RewindDir(fh)
      PROVE  TypeInv'
  <2> DEFINE l == listings[fh]
             m == [l EXCEPT !.offset = 0, !.got = <<>>, !.end = FALSE]
  <2>1. TypeOK'
    BY <1>3 DEF TypeInv, TypeOK, RewindDir, daemonVars
  <2>2. l \in ListingRecord /\ open_directories[fh] \in Directories
    BY DEF TypeInv, Ranges
  <2>4. listings' = [listings EXCEPT ![fh] = m]
    BY <1>3 DEF RewindDir
  <2>5. m \in ListingRecord /\ m.offset = 0
    BY <2>2, ListingRewinds
  <2>6. Resumable(0, open_directories[fh])
    BY <2>2, FuseAssumption DEF Resumable
  <2> HIDE DEF m
  <2>7. Ranges'
    BY <1>3, <2>4, <2>5, <2>6 DEF TypeInv, Ranges, RewindDir, daemonVars
  <2> QED
    BY <2>1, <2>7 DEF TypeInv
<1> QED
  BY <1>1, <1>2, <1>3

(* What the kernel makes of a reply. *)
LEMMA ReplySent ==
  ASSUME NEW fh \in DOMAIN listings, listings[fh] \in ListingRecord,
         NEW out \in Seq(ReplyEntry), ReadDirOk(fh, out)
  PROVE  /\ pc' = "idle" /\ rd' = NoReadDir
         /\ DOMAIN listings' = DOMAIN listings
         /\ \A x \in DOMAIN listings : x # fh => listings'[x] = listings[x]
         /\ listings'[fh] \in ListingRecord
         /\ listings'[fh].entry = listings[fh].entry
         /\ listings'[fh].opens = listings[fh].opens
         /\ out = <<>> => /\ listings'[fh].offset = listings[fh].offset
                         /\ listings'[fh].got = listings[fh].got
                         /\ listings'[fh].end = TRUE
         /\ out # <<>> => /\ listings'[fh].offset = Last(out).next
                         /\ listings'[fh].got = listings[fh].got \o Told(out)
                         /\ listings'[fh].end = listings[fh].end
         /\ UNCHANGED <<nodes, forgets, files>>
<1> DEFINE l == listings[fh]
<1>1. CASE out = <<>>
  <2> DEFINE m == [l EXCEPT !.end = TRUE]
  <2>1. listings' = [listings EXCEPT ![fh] = m]
    BY <1>1, Zenon DEF ReadDirOk
  <2>2. /\ m \in ListingRecord /\ m.end = TRUE
        /\ m.entry = l.entry /\ m.opens = l.opens
        /\ m.offset = l.offset /\ m.got = l.got
    BY ListingEnds
  <2> HIDE DEF m
  <2> QED
    BY <1>1, <2>1, <2>2 DEF ReadDirOk
<1>2. CASE out # <<>>
  <2> DEFINE o == Last(out).next
             g == l.got \o Told(out)
             m == [l EXCEPT !.offset = o, !.got = g]
  <2>1. listings' = [listings EXCEPT ![fh] = m]
    BY <1>2, Zenon DEF ReadDirOk, Told
  <2>2. o \in Nat \cup {None}
    <3>1. Last(out) \in ReplyEntry
      BY <1>2 DEF Last
    <3> QED
      BY <3>1 DEF ReplyEntry
  <2>3. g \in Seq(Entries)
    <3>1. Told(out) \in Seq(Entries)
      <4>1. \A i \in 1 .. Len(out) : out[i] \in ReplyEntry
        OBVIOUS
      <4>2. \A i \in 1 .. Len(out) : out[i].entry \in Entries
        BY <4>1 DEF ReplyEntry
      <4>3. Len(out) \in Nat
        OBVIOUS
      <4> QED
        BY <4>2, <4>3 DEF Told
    <3>2. l.got \in Seq(Entries)
      BY DEF ListingRecord
    <3> QED
      BY <3>1, <3>2
  <2> HIDE DEF g, o
  <2>4. /\ m \in ListingRecord /\ m.end = l.end
        /\ m.entry = l.entry /\ m.opens = l.opens
        /\ m.offset = o /\ m.got = g
    BY <2>2, <2>3, Zenon DEF ListingRecord
  <2> HIDE DEF m
  <2> QED
    BY <1>2, <2>1, <2>4 DEF ReadDirOk, o, g
<1> QED
  BY <1>1, <1>2

(* A reply that is sent leaves the kernel with an offset of a record. *)
LEMMA ReplyType ==
  ASSUME TypeInv, UNCHANGED inode_autogenerated, faults' \in 0 .. MaxFaults,
         NEW fh \in DOMAIN listings, NEW out \in Seq(ReplyEntry),
         \A i \in 1 .. Len(out) : Resumable(out[i].next, open_directories[fh]),
         ReadDirOk(fh, out),
         UNCHANGED <<file_number, directory_number, open_files, open_directories>>,
         DOMAIN inodes' \subseteq 0 .. U64_MAX,
         \A ino \in DOMAIN inodes' : inodes'[ino] \in Entries,
         inode_number' \in 0 .. U64_MAX
  PROVE  TypeInv'
<1>1. listings[fh] \in ListingRecord /\ Resumable(listings[fh].offset, open_directories[fh])
  BY DEF TypeInv, Ranges
<1>2. /\ pc' = "idle" /\ rd' = NoReadDir
      /\ DOMAIN listings' = DOMAIN listings
      /\ \A x \in DOMAIN listings : x # fh => listings'[x] = listings[x]
      /\ listings'[fh] \in ListingRecord
      /\ out = <<>> => listings'[fh].offset = listings[fh].offset
      /\ out # <<>> => listings'[fh].offset = Last(out).next
      /\ UNCHANGED <<nodes, forgets, files>>
  BY <1>1, ReplySent
<1>3. out # <<>> => Resumable(Last(out).next, open_directories[fh])
  BY DEF Last
<1>4. Resumable(listings'[fh].offset, open_directories[fh])
  BY <1>1, <1>2, <1>3
<1>5. TypeOK'
  BY <1>2 DEF TypeInv, TypeOK
<1>6. \A x \in DOMAIN listings' :
        listings'[x] \in ListingRecord /\ Resumable(listings'[x].offset, open_directories'[x])
  BY <1>2, <1>4 DEF TypeInv, Ranges
<1>7. Ranges'
  BY <1>2, <1>6, NoReadDirType DEF TypeInv, Ranges
<1> QED
  BY <1>5, <1>7 DEF TypeInv

(* The reply readdir builds, with the entry it is at, is one it may send. *)
LEMMA AddedType ==
  ASSUME TypeInv, pc = "readdir", CanNumber, NEW out,
         out = Append(rd.out, [ino |-> InodeNumber(RdEntry), next |-> RdNext,
                               entry |-> RdEntry])
  PROVE  /\ out \in Seq(ReplyEntry) /\ out # <<>>
         /\ Last(out).next = RdNext
         /\ Told(out) = Append(Told(rd.out), RdEntry)
         /\ \A i \in 1 .. Len(out) : Resumable(out[i].next, open_directories[rd.fh])
<1> DEFINE r == [ino |-> InodeNumber(RdEntry), next |-> RdNext, entry |-> RdEntry]
<1>1. r \in ReplyEntry /\ r.next = RdNext /\ r.entry = RdEntry
  <2>1. InodeNumber(RdEntry) \in 0 .. U64_MAX /\ RdNext \in Nat \cup {None} /\ RdEntry \in Entries
    BY RdIsInside, InodeNumberType
  <2> QED
    BY <2>1 DEF ReplyEntry
<1>2. Resumable(RdNext, open_directories[rd.fh])
  BY RdIsInside DEF Resumable, RdList
<1>3. rd.out \in Seq(ReplyEntry)
  BY DEF TypeInv, Ranges
<1>4. out = Append(rd.out, r)
  OBVIOUS
<1> HIDE DEF r
<1>5. /\ out \in Seq(ReplyEntry) /\ out # <<>> /\ Len(out) = Len(rd.out) + 1
      /\ out[Len(out)] = r
      /\ \A i \in 1 .. Len(rd.out) : out[i] = rd.out[i]
  BY <1>1, <1>3, <1>4
<1>6. \A i \in 1 .. Len(out) : Resumable(out[i].next, open_directories[rd.fh])
  BY <1>1, <1>2, <1>3, <1>5 DEF TypeInv, Ranges
<1>7. Told(out) = Append(Told(rd.out), RdEntry)
  BY <1>1, <1>3, <1>5, RdIsInside DEF Told, ReplyEntry
<1> QED
  BY <1>1, <1>5, <1>6, <1>7 DEF Last

(* The locals of a readdir that goes to the next record, without and with  *)
(* an entry added to the reply.                                            *)
LEMMA RdMoves ==
  ASSUME NEW r \in [fh : Nat, offset : Nat, out : Seq(ReplyEntry)], NEW o \in Nat,
         NEW s, s = [r EXCEPT !.offset = o]
  PROVE  /\ s \in [fh : Nat, offset : Nat, out : Seq(ReplyEntry)]
         /\ s.fh = r.fh /\ s.offset = o /\ s.out = r.out
BY Zenon

LEMMA RdAdds ==
  ASSUME NEW r \in [fh : Nat, offset : Nat, out : Seq(ReplyEntry)], NEW o \in Nat,
         NEW a \in Seq(ReplyEntry),
         NEW s, s = [r EXCEPT !.offset = o, !.out = a]
  PROVE  /\ s \in [fh : Nat, offset : Nat, out : Seq(ReplyEntry)]
         /\ s.fh = r.fh /\ s.offset = o /\ s.out = a
BY Zenon

LEMMA ReadDirType ==
  ASSUME TypeInv, UNCHANGED inode_autogenerated, faults' \in 0 .. MaxFaults,
         \/ \E fh \in DOMAIN listings : Begins(fh) \/ AtEnd(fh)
         \/ Fails \/ PassesOver \/ Sends \/ ReadDirAdds
  PROVE  TypeInv'
<1>1. ASSUME NEW fh \in DOMAIN listings, Begins(fh)
      PROVE  TypeInv'
  <2>1. /\ listings[fh].offset \in Nat /\ fh \in Nat
        /\ open_directories[fh] \in Directories
        /\ Resumable(listings[fh].offset, open_directories[fh])
    BY <1>1 DEF TypeInv, Ranges, Begins, ListingRecord
  <2>2. /\ rd'.fh = fh /\ rd'.offset = listings[fh].offset /\ rd'.out = <<>>
        /\ rd' \in [fh : Nat, offset : Nat, out : Seq(ReplyEntry)]
    BY <1>1, <2>1 DEF Begins
  <2>3. rd'.offset \in 0 .. Len(Listing[open_directories[fh]]) - 1
    <3>1. Len(Listing[open_directories[fh]]) \in Nat
      BY <2>1, FuseAssumption
    <3> QED
      BY <1>1, <2>1, <2>2, <3>1 DEF Resumable, Begins
  <2>4. TypeOK'
    BY <1>1, <2>2, <2>3 DEF TypeInv, TypeOK, Begins, daemonVars, RdList
  <2>5. Ranges'
    BY <1>1, <2>2 DEF TypeInv, Ranges, Begins, daemonVars, kernelVars
  <2> QED
    BY <2>4, <2>5 DEF TypeInv
<1>2. ASSUME NEW fh \in DOMAIN listings, AtEnd(fh)
      PROVE  TypeInv'
  <2>1. /\ <<>> \in Seq(ReplyEntry)
        /\ \A i \in 1 .. Len(<<>>) : Resumable(<<>>[i].next, open_directories[fh])
    OBVIOUS
  <2>2. /\ ReadDirOk(fh, <<>>)
        /\ UNCHANGED <<file_number, directory_number, open_files, open_directories>>
        /\ DOMAIN inodes' \subseteq 0 .. U64_MAX /\ inode_number' \in 0 .. U64_MAX
        /\ \A ino \in DOMAIN inodes' : inodes'[ino] \in Entries
    BY <1>2 DEF AtEnd, TypeInv, TypeOK, daemonVars
  <2> QED
    BY <2>1, <2>2, ReplyType
<1>3. CASE Fails
  <2>1. TypeOK'
    BY <1>3 DEF Fails, TypeInv, TypeOK, daemonVars
  <2>2. Ranges'
    BY <1>3, NoReadDirType DEF Fails, TypeInv, Ranges, daemonVars, kernelVars
  <2> QED
    BY <2>1, <2>2 DEF TypeInv
<1>4. CASE PassesOver
  <2>1. RdNext \in 0 .. Len(RdList) - 1 /\ RdNext \in Nat
    BY <1>4, RdIsInside DEF PassesOver
  <2>2. /\ rd'.fh = rd.fh /\ rd'.offset = RdNext /\ rd'.out = rd.out
        /\ rd' \in [fh : Nat, offset : Nat, out : Seq(ReplyEntry)]
    BY <1>4, <2>1, RdMoves DEF PassesOver, TypeInv, Ranges
  <2>3. RdList' = RdList
    BY <1>4, <2>2 DEF RdList, PassesOver, daemonVars
  <2>4. TypeOK'
    BY <1>4, <2>1, <2>2, <2>3 DEF PassesOver, TypeInv, TypeOK, daemonVars
  <2>5. Ranges'
    BY <1>4, <2>2 DEF PassesOver, TypeInv, Ranges, daemonVars, kernelVars
  <2> QED
    BY <2>4, <2>5 DEF TypeInv
<1>5. CASE Sends
  <2>1. pc = "readdir" /\ rd.fh \in DOMAIN listings
    BY <1>5, RdIsInside DEF Sends
  <2> QED
    BY <1>5, <2>1, ReplyType DEF Sends, daemonVars, TypeInv, TypeOK, Ranges
<1>6. CASE ReadDirAdds
  <2> DEFINE r == [ino |-> InodeNumber(RdEntry), next |-> RdNext, entry |-> RdEntry]
             out == Append(rd.out, r)
  <2>1. /\ pc = "readdir" /\ CanNumber /\ rd.fh \in DOMAIN listings
        /\ UNCHANGED <<file_number, directory_number, open_files, open_directories>>
    BY <1>6, RdIsInside DEF ReadDirAdds, ReadDirAddsAt
  <2>2. /\ out \in Seq(ReplyEntry)
        /\ \A i \in 1 .. Len(out) : Resumable(out[i].next, open_directories[rd.fh])
    BY <2>1, AddedType
  <2>3. /\ DOMAIN inodes' \subseteq 0 .. U64_MAX
        /\ \A ino \in DOMAIN inodes' : inodes'[ino] \in Entries
        /\ inode_number' \in 0 .. U64_MAX
    BY <1>6, <2>1, RdIsInside, InodeNumberType
       DEF ReadDirAdds, ReadDirAddsAt, With, TypeInv, TypeOK
  <2>4. CASE ReadDirOk(rd.fh, out)
    <3> HIDE DEF out
    <3> QED
      BY <2>1, <2>2, <2>3, <2>4, ReplyType
  <2>5. CASE /\ RdNext # None
             /\ rd' = [rd EXCEPT !.offset = RdNext, !.out = out]
             /\ UNCHANGED <<pc, kernelVars>>
    <3>1. RdNext \in 0 .. Len(RdList) - 1 /\ RdNext \in Nat
      BY <2>1, <2>5, RdIsInside
    <3>2. /\ rd'.fh = rd.fh /\ rd'.offset = RdNext /\ rd'.out = out
          /\ rd' \in [fh : Nat, offset : Nat, out : Seq(ReplyEntry)]
      <4> HIDE DEF out
      <4> QED
        BY <2>2, <2>5, <3>1, RdAdds DEF TypeInv, Ranges
    <3>3. RdList' = RdList
      BY <2>1, <3>2 DEF RdList
    <3> HIDE DEF out
    <3>4. TypeOK'
      BY <2>1, <2>3, <2>5, <3>1, <3>2, <3>3 DEF TypeInv, TypeOK
    <3>5. Ranges'
      BY <2>1, <2>2, <2>5, <3>2 DEF TypeInv, Ranges, kernelVars
    <3> QED
      BY <3>4, <3>5 DEF TypeInv
  <2> QED
    BY <1>6, <2>4, <2>5 DEF ReadDirAdds, ReadDirAddsAt
<1> QED
  BY <1>1, <1>2, <1>3, <1>4, <1>5, <1>6

(* A readdir that adds an entry goes on with the next record or sends the  *)
(* reply.                                                                  *)
LEMMA AddsEffect ==
  ASSUME TypeInv, ReadDirAdds, NEW out,
         out = Append(rd.out, [ino |-> InodeNumber(RdEntry), next |-> RdNext,
                               entry |-> RdEntry])
  PROVE  /\ pc = "readdir" /\ RdEntry \in Entries \ Relocated
         /\ rd.fh \in DOMAIN listings /\ out \in Seq(ReplyEntry)
         /\ UNCHANGED <<file_number, directory_number, open_files, open_directories,
                        nodes, forgets, files>>
         /\ \/ /\ RdNext # None /\ UNCHANGED <<pc, listings>>
               /\ rd'.fh = rd.fh /\ rd'.offset = RdNext /\ rd'.out = out
            \/ RdNext = None /\ ReadDirOk(rd.fh, out)
<1>1. /\ pc = "readdir" /\ CanNumber /\ RdEntry \in Entries \ Relocated
      /\ rd.fh \in DOMAIN listings
      /\ UNCHANGED <<file_number, directory_number, open_files, open_directories>>
  BY RdIsInside DEF ReadDirAdds, ReadDirAddsAt
<1>2. out \in Seq(ReplyEntry)
  BY <1>1, AddedType
<1>3. \/ /\ RdNext # None /\ UNCHANGED <<pc, kernelVars>>
         /\ rd' = [rd EXCEPT !.offset = RdNext, !.out = out]
      \/ RdNext = None /\ ReadDirOk(rd.fh, out)
  BY Zenon DEF ReadDirAdds, ReadDirAddsAt
<1>4. ASSUME RdNext # None, rd' = [rd EXCEPT !.offset = RdNext, !.out = out]
      PROVE  rd'.fh = rd.fh /\ rd'.offset = RdNext /\ rd'.out = out
  <2>1. RdNext \in Nat /\ rd \in [fh : Nat, offset : Nat, out : Seq(ReplyEntry)]
    BY <1>1, <1>4, RdIsInside DEF TypeInv, Ranges
  <2> QED
    BY <1>2, <1>4, <2>1, RdAdds
<1>5. UNCHANGED <<nodes, forgets, files>>
  <2>1. ReadDirOk(rd.fh, out) => UNCHANGED <<nodes, forgets, files>>
    BY DEF ReadDirOk
  <2>2. UNCHANGED kernelVars => UNCHANGED <<nodes, forgets, files>>
    BY DEF kernelVars
  <2> QED
    BY <1>3, <2>1, <2>2
<1>6. UNCHANGED kernelVars => UNCHANGED listings
  BY DEF kernelVars
<1> QED
  BY <1>1, <1>2, <1>3, <1>4, <1>5, <1>6

LEMMA NextTypeInv == TypeInv /\ [Next]_vars => TypeInv'
<1> SUFFICES ASSUME TypeInv, [Next]_vars
             PROVE  TypeInv'
  OBVIOUS
<1>1. Effect /\ UNCHANGED inode_autogenerated /\ faults' \in 0 .. MaxFaults
  BY StepHasEffect
<1>2. CASE Quiet
  <2>1. TypeOK'
    BY <1>1, <1>2 DEF Quiet, TypeInv, TypeOK, RdList, daemonVars
  <2>2. Ranges'
    BY <1>1, <1>2 DEF Quiet, TypeInv, Ranges, daemonVars, kernelVars
  <2> QED
    BY <2>1, <2>2 DEF TypeInv
<1> QED
  BY <1>1, <1>2, LooksType, KernelType, FilesType, DirectoriesType, ReadDirType DEF Effect

(* The tables stay well formed, and readdir never asks a directory for a   *)
(* record past its end, whatever the kernel requests.                      *)
THEOREM TypeCorrect == Spec => []TypeOK
<1>1. Spec => []TypeInv
  BY InitTypeInv, NextTypeInv, PTL DEF Spec
<1>2. TypeInv => TypeOK
  BY DEF TypeInv
<1> QED
  BY <1>1, <1>2, PTL

-----------------------------------------------------------------------------
(* Nodes *)

LEMMA InitNodes == Init => NodesInv
<1> SUFFICES ASSUME Init
             PROVE  NodesInv
  OBVIOUS
<1>1. /\ DOMAIN inodes = {FUSE_ROOT_ID} /\ inodes[FUSE_ROOT_ID] = Root
      /\ DOMAIN nodes = {FUSE_ROOT_ID} /\ nodes[FUSE_ROOT_ID].entry = Root
  BY DEF Init, With, Empty
<1>2. /\ inode_number = FUSE_ROOT_ID + 1 /\ FUSE_ROOT_ID = 1
      /\ \A ino \in 0 .. U64_MAX : forgets[ino] = 0
  BY DEF Init, FUSE_ROOT_ID
<1> QED
  BY <1>1, <1>2
     DEF NodesInv, Generated, FromSerial, RootStays, NodesAgree, Known, Same

(* A number the counter gives is new; one of the image is the entry's own, *)
(* and no entry has the root's.                                            *)
LEMMA NumberIsFree ==
  ASSUME TypeInv, NodesInv, CanNumber, NEW e \in Entries
  PROVE  /\ InodeNumber(e) # FUSE_ROOT_ID
         /\ inode_autogenerated =>
              /\ InodeNumber(e) = inode_number /\ InodeBumped = inode_number + 1
              /\ InodeNumber(e) \notin DOMAIN inodes \cup DOMAIN nodes
              /\ forgets[InodeNumber(e)] = 0
         /\ ~inode_autogenerated => InodeNumber(e) = Serial[e] /\ InodeBumped = inode_number
<1>1. /\ inode_number \in 0 .. U64_MAX /\ inode_number # U64_MAX
      /\ DOMAIN inodes \cup DOMAIN nodes \subseteq 0 .. U64_MAX
      /\ forgets \in [0 .. U64_MAX -> Nat]
      /\ U64_MAX \in Nat
  BY FuseAssumption DEF TypeInv, TypeOK, Ranges, CanNumber
<1>2. Serial[e] # FUSE_ROOT_ID
  BY FuseAssumption DEF FUSE_ROOT_ID
<1>3. CASE inode_autogenerated
  <2>1. InodeNumber(e) = inode_number /\ InodeBumped = inode_number + 1
    BY <1>1, <1>3, BumpIs DEF InodeNumber, InodeBumped
  <2>2. /\ \A ino \in DOMAIN inodes \cup DOMAIN nodes : ino < inode_number
        /\ \A ino \in 0 .. U64_MAX : forgets[ino] > 0 => ino < inode_number
        /\ FUSE_ROOT_ID \in DOMAIN nodes
    BY <1>3 DEF NodesInv, Generated, RootStays
  <2>3. inode_number \notin DOMAIN inodes \cup DOMAIN nodes
    BY <1>1, <2>2
  <2>4. forgets[inode_number] = 0
    BY <1>1, <2>2
  <2> QED
    BY <1>3, <2>1, <2>2, <2>3, <2>4
<1>4. CASE ~inode_autogenerated
  BY <1>2, <1>4 DEF InodeNumber, InodeBumped
<1> QED
  BY <1>3, <1>4

(* An entry that is put in the table under its number, by lookup, which    *)
(* tells the kernel, or by readdir, which does not.                        *)
LEMMA NumberedNodes ==
  ASSUME TypeInv, NodesInv, CanNumber, NEW e \in Entries,
         UNCHANGED <<inode_autogenerated, forgets>>,
         inode_number' = InodeBumped,
         \/ inodes' = inodes /\ nodes' = nodes
         \/ /\ inodes' = With(inodes, InodeNumber(e), e)
            /\ nodes' = nodes \/ Referenced(InodeNumber(e), e)
  PROVE  NodesInv'
<1> DEFINE k == InodeNumber(e)
<1>1. /\ k # FUSE_ROOT_ID /\ k \in 0 .. U64_MAX
      /\ inode_autogenerated =>
           /\ k = inode_number /\ inode_number' = inode_number + 1
           /\ k \notin DOMAIN inodes \cup DOMAIN nodes /\ forgets[k] = 0
      /\ ~inode_autogenerated => k = Serial[e] /\ inode_number' = inode_number
  BY NumberIsFree, InodeNumberType
<1>2. /\ inode_number \in Nat
      /\ DOMAIN inodes \subseteq Nat /\ DOMAIN nodes \subseteq Nat
  BY DEF TypeInv, TypeOK, Ranges
<1>3. /\ DOMAIN inodes' \in {DOMAIN inodes, DOMAIN inodes \cup {k}}
      /\ \A ino \in DOMAIN inodes' :
           IF ino \in DOMAIN inodes /\ ino # k THEN inodes'[ino] = inodes[ino]
           ELSE ino = k /\ inodes'[ino] \in {e, inodes[ino]}
                        /\ (inodes'[ino] = e \/ (ino \in DOMAIN inodes /\ inodes' = inodes))
  BY DEF With
<1>4. /\ \/ DOMAIN nodes' = DOMAIN nodes
         \/ DOMAIN nodes' = DOMAIN nodes \cup {k} /\ k \in DOMAIN inodes' /\ inodes'[k] = e
      /\ \A ino \in DOMAIN nodes' :
           IF ino \in DOMAIN nodes THEN nodes'[ino].entry = nodes[ino].entry
           ELSE ino = k /\ nodes'[ino].entry = e
  BY ReferencedKeeps DEF With
<1> HIDE DEF k
<1>5. Generated'
  BY <1>1, <1>2, <1>3, <1>4 DEF NodesInv, Generated
<1>6. FromSerial'
  BY <1>1, <1>3, <1>4 DEF NodesInv, FromSerial
<1>7. RootStays'
  BY <1>1, <1>3, <1>4 DEF NodesInv, RootStays
<1>8. NodesAgree'
  <2>1. SUFFICES ASSUME NEW ino \in DOMAIN nodes', ino \in DOMAIN inodes'
                 PROVE  Same(inodes'[ino], nodes'[ino].entry)
    BY DEF NodesAgree, Known, Same
  <2>2. CASE ino # k
    BY <1>3, <1>4, <2>1, <2>2 DEF NodesInv, NodesAgree, Known, Same
  <2>3. CASE ino = k /\ inode_autogenerated
    BY <1>1, <1>3, <1>4, <2>1, <2>3 DEF NodesInv, NodesAgree, Known, Same
  <2>4. CASE ino = k /\ ~inode_autogenerated
    BY <1>1, <1>6, <2>1, <2>4 DEF FromSerial, Same
  <2> QED
    BY <2>2, <2>3, <2>4
<1> QED
  BY <1>5, <1>6, <1>7, <1>8 DEF NodesInv

LEMMA KernelNodes ==
  ASSUME TypeInv, NodesInv, UNCHANGED inode_autogenerated,
         \/ \E ino \in DOMAIN nodes : Evict(ino)
         \/ \E ino \in 0 .. U64_MAX : Forget(ino)
  PROVE  NodesInv'
<1>0. /\ forgets \in [0 .. U64_MAX -> Nat] /\ DOMAIN nodes \subseteq 0 .. U64_MAX
      /\ DOMAIN inodes \subseteq 0 .. U64_MAX
  BY DEF TypeInv, TypeOK, Ranges
<1>1. ASSUME NEW ino \in DOMAIN nodes, Evict(ino)
      PROVE  NodesInv'
  <2>1. /\ ino # FUSE_ROOT_ID /\ UNCHANGED <<inodes, inode_number>>
        /\ DOMAIN nodes' = DOMAIN nodes \ {ino}
        /\ \A x \in DOMAIN nodes' : nodes'[x] = nodes[x]
        /\ forgets' = [forgets EXCEPT ![ino] = @ + 1]
    BY <1>1 DEF Evict, Without, daemonVars
  <2>2. Generated'
    BY <1>0, <2>1 DEF NodesInv, Generated
  <2> QED
    BY <2>1, <2>2 DEF NodesInv, FromSerial, RootStays, NodesAgree, Known, Same
<1>2. ASSUME NEW ino \in 0 .. U64_MAX, Forget(ino)
      PROVE  NodesInv'
  <2>1. /\ UNCHANGED <<nodes, inode_number>> /\ forgets[ino] > 0
        /\ DOMAIN inodes' = DOMAIN inodes \ {ino}
        /\ \A x \in DOMAIN inodes' : inodes'[x] = inodes[x]
        /\ forgets' = [forgets EXCEPT ![ino] = @ - 1]
    BY <1>2 DEF Forget, Without
  <2>2. Generated'
    <3>1. \A x \in 0 .. U64_MAX : forgets'[x] > 0 => forgets[x] > 0
      BY <1>0, <2>1
    <3> QED
      BY <2>1, <3>1 DEF NodesInv, Generated
  <2> QED
    BY <2>1, <2>2 DEF NodesInv, FromSerial, RootStays, NodesAgree, Known, Same
<1> QED
  BY <1>1, <1>2

LEMMA NextNodes == TypeInv /\ NodesInv /\ [Next]_vars => NodesInv'
<1> SUFFICES ASSUME TypeInv, NodesInv, [Next]_vars
             PROVE  NodesInv'
  OBVIOUS
<1>1. Effect /\ UNCHANGED inode_autogenerated
  BY StepHasEffect
<1>2. ASSUME NEW e \in Entries, Looks(e)
      PROVE  NodesInv'
  BY <1>1, <1>2, NumberedNodes DEF Looks, LookupEntry, LookupEntryWith
<1>3. CASE ReadDirAdds
  <2>1. pc = "readdir" /\ CanNumber /\ RdEntry \in Entries
    BY <1>3, RdIsInside DEF ReadDirAdds, ReadDirAddsAt
  <2>2. UNCHANGED <<nodes, forgets>>
    BY <1>3, AddsEffect
  <2>3. /\ inode_number' = InodeBumped
        /\ inodes' = inodes \/ inodes' = With(inodes, InodeNumber(RdEntry), RdEntry)
    BY <1>3 DEF ReadDirAdds, ReadDirAddsAt
  <2> QED
    BY <1>1, <2>1, <2>2, <2>3, NumberedNodes
<1>4. CASE UNCHANGED <<inodes, nodes, inode_number, forgets>>
  BY <1>1, <1>4
     DEF NodesInv, Generated, FromSerial, RootStays, NodesAgree, Known, Same
<1>5. (\E ino \in DOMAIN nodes : OpensFile(ino) \/ OpensDirectory(ino)) =>
        UNCHANGED <<inodes, nodes, inode_number, forgets>>
  BY DEF OpensFile, OpenOk, OpenOkWith, OpensDirectory, OpenDirOk
<1>6. (\E fh \in DOMAIN files : Release(fh)) =>
        UNCHANGED <<inodes, nodes, inode_number, forgets>>
  BY DEF Release
<1>7. (\E fh \in DOMAIN listings :
         ReleaseDir(fh) \/ RewindDir(fh) \/ Begins(fh) \/ AtEnd(fh)) =>
        UNCHANGED <<inodes, nodes, inode_number, forgets>>
  BY DEF ReleaseDir, ReleaseDirWith, RewindDir, Begins, AtEnd, ReadDirOk, daemonVars,
         kernelVars
<1>8. Quiet \/ Fails \/ PassesOver \/ Sends =>
        UNCHANGED <<inodes, nodes, inode_number, forgets>>
  BY DEF Quiet, Fails, PassesOver, Sends, ReadDirOk, daemonVars, kernelVars
<1> QED
  BY <1>1, <1>2, <1>3, <1>4, <1>5, <1>6, <1>7, <1>8, KernelNodes DEF Effect

(* Entries the daemon takes for each other are the same object.            *)
LEMMA SameObject ==
  ASSUME TypeInv, NEW a \in Entries, NEW b \in Entries, Same(a, b)
  PROVE  /\ Extent[a] = Extent[b] /\ Kind[a] = Kind[b]
         /\ a \in Directories => Listing[a] = Listing[b]
<1>1. CASE a = b
  BY <1>1
<1>2. CASE ~inode_autogenerated /\ Serial[a] = Serial[b]
  <2>1. FALSE \in Modes
    BY <1>2, FuseAssumption DEF TypeInv, Ranges
  <2> QED
    BY <1>2, <2>1, FuseAssumption
<1> QED
  BY <1>1, <1>2 DEF Same

(* A node the kernel holds keeps the object it stood for when it was first *)
(* looked up: no later lookup or readdir gives its number to something     *)
(* else, and with generated numbers forget never removes it.               *)
THEOREM NodesAreStable == Spec => []NodesStable
<1>1. TypeInv /\ NodesInv => NodesStable
  <2> SUFFICES ASSUME TypeInv, NodesInv, NEW ino \in DOMAIN nodes
               PROVE  /\ Known(ino) => Extent[inodes[ino]] = Extent[nodes[ino].entry]
                      /\ inode_autogenerated => Known(ino)
    BY DEF NodesStable
  <2>1. ASSUME Known(ino)
        PROVE  Extent[inodes[ino]] = Extent[nodes[ino].entry]
    <3>1. inodes[ino] \in Entries /\ nodes[ino].entry \in Entries
      BY <2>1 DEF Known, TypeInv, TypeOK, Ranges
    <3>2. Same(inodes[ino], nodes[ino].entry)
      BY <2>1 DEF NodesInv, NodesAgree
    <3> QED
      BY <3>1, <3>2, SameObject
  <2>2. inode_autogenerated => Known(ino)
    BY DEF NodesInv, Generated, Known
  <2> QED
    BY <2>1, <2>2
<1>2. Spec => [](TypeInv /\ NodesInv)
  <2>1. Init => TypeInv /\ NodesInv
    BY InitTypeInv, InitNodes
  <2>2. TypeInv /\ NodesInv /\ [Next]_vars => (TypeInv /\ NodesInv)'
    BY NextTypeInv, NextNodes
  <2> QED
    BY <2>1, <2>2, PTL DEF Spec
<1> QED
  BY <1>1, <1>2, PTL

-----------------------------------------------------------------------------
(* Handles *)

LEMMA NextFiles == TypeInv /\ NodesInv /\ FilesInv /\ [Next]_vars => FilesInv'
<1> SUFFICES ASSUME TypeInv, NodesInv, FilesInv, [Next]_vars
             PROVE  FilesInv'
  OBVIOUS
<1>1. Effect /\ UNCHANGED inode_autogenerated
  BY StepHasEffect
<1>2. ASSUME NEW ino \in DOMAIN nodes, OpensFile(ino)
      PROVE  FilesInv'
  <2> DEFINE n == file_number
  <2>1. /\ n \in Nat /\ file_number' = n + 1
    BY <1>2, BumpIs DEF OpensFile, OpenOk, OpenOkWith, TypeInv, TypeOK
  <2>2. /\ DOMAIN open_files' = DOMAIN files \cup {n} /\ DOMAIN files' = DOMAIN files \cup {n}
        /\ open_files'[n] = inodes[ino] /\ files'[n].entry = nodes[ino].entry
        /\ files'[n].opens = Opens(files, n)
        /\ \A fh \in DOMAIN files \ {n} :
             open_files'[fh] = open_files[fh] /\ files'[fh] = files[fh]
    BY <1>2 DEF OpensFile, OpenOk, OpenOkWith, With, FilesInv
  <2>3. n \notin DOMAIN files
    BY <2>1 DEF FilesInv
  <2>4. Opens(files, n) = 1
    BY <2>3 DEF Opens
  <2>5. Same(inodes[ino], nodes[ino].entry)
    BY <1>2 DEF OpensFile, Is, NodesInv, NodesAgree
  <2> HIDE DEF n
  <2> QED
    BY <1>1, <2>1, <2>2, <2>3, <2>4, <2>5 DEF FilesInv, Same, n
<1>3. ASSUME NEW fh \in DOMAIN files, Release(fh)
      PROVE  FilesInv'
  BY <1>1, <1>3 DEF Release, Without, FilesInv, Same
<1>4. CASE UNCHANGED <<files, open_files, file_number>>
  BY <1>1, <1>4 DEF FilesInv, Same
<1>5. (\E ino \in DOMAIN nodes : Evict(ino) \/ OpensDirectory(ino)) =>
        UNCHANGED <<files, open_files, file_number>>
  BY DEF Evict, OpensDirectory, OpenDirOk, daemonVars
<1>6. /\ (\E e \in Entries : Looks(e)) => UNCHANGED <<files, open_files, file_number>>
      /\ (\E ino \in 0 .. U64_MAX : Forget(ino)) =>
           UNCHANGED <<files, open_files, file_number>>
  BY DEF Looks, Forget
<1>7. (\E fh \in DOMAIN listings :
         ReleaseDir(fh) \/ RewindDir(fh) \/ Begins(fh) \/ AtEnd(fh)) =>
        UNCHANGED <<files, open_files, file_number>>
  BY DEF ReleaseDir, ReleaseDirWith, RewindDir, Begins, AtEnd, ReadDirOk, daemonVars,
         kernelVars
<1>8. Quiet \/ Fails \/ PassesOver \/ Sends =>
        UNCHANGED <<files, open_files, file_number>>
  BY DEF Quiet, Fails, PassesOver, Sends, ReadDirOk, daemonVars, kernelVars
<1>9. ReadDirAdds => UNCHANGED <<files, open_files, file_number>>
  BY AddsEffect
<1> QED
  BY <1>1, <1>2, <1>3, <1>4, <1>5, <1>6, <1>7, <1>8, <1>9 DEF Effect

(* A reply of readdir changes neither the entry a listing is of nor how    *)
(* often its handle has been given out.                                    *)
LEMMA ReadDirKeepsListings ==
  ASSUME TypeInv,
         \/ \E fh \in DOMAIN listings : RewindDir(fh) \/ AtEnd(fh)
         \/ Sends \/ ReadDirAdds
  PROVE  /\ DOMAIN listings' = DOMAIN listings
         /\ UNCHANGED <<open_directories, directory_number>>
         /\ \A fh \in DOMAIN listings :
              /\ listings'[fh].entry = listings[fh].entry
              /\ listings'[fh].opens = listings[fh].opens
<1>0. \A fh \in DOMAIN listings : listings[fh] \in ListingRecord
  BY DEF TypeInv, Ranges
<1>1. ASSUME NEW fh \in DOMAIN listings, NEW out \in Seq(ReplyEntry), ReadDirOk(fh, out)
      PROVE  /\ DOMAIN listings' = DOMAIN listings
             /\ \A x \in DOMAIN listings :
                  /\ listings'[x].entry = listings[x].entry
                  /\ listings'[x].opens = listings[x].opens
  <2>1. /\ DOMAIN listings' = DOMAIN listings
        /\ \A x \in DOMAIN listings : x # fh => listings'[x] = listings[x]
        /\ listings'[fh].entry = listings[fh].entry
        /\ listings'[fh].opens = listings[fh].opens
    BY <1>0, <1>1, ReplySent
  <2> QED
    BY <2>1
<1>2. ASSUME NEW fh \in DOMAIN listings, RewindDir(fh)
      PROVE  /\ DOMAIN listings' = DOMAIN listings
             /\ UNCHANGED <<open_directories, directory_number>>
             /\ \A x \in DOMAIN listings :
                  /\ listings'[x].entry = listings[x].entry
                  /\ listings'[x].opens = listings[x].opens
  <2> DEFINE l == listings[fh]
             m == [l EXCEPT !.offset = 0, !.got = <<>>, !.end = FALSE]
  <2>1. listings' = [listings EXCEPT ![fh] = m]
    BY <1>2 DEF RewindDir
  <2>2. m.entry = l.entry /\ m.opens = l.opens
    BY <1>0, ListingRewinds
  <2> HIDE DEF m
  <2>3. UNCHANGED <<open_directories, directory_number>>
    BY <1>2 DEF RewindDir, daemonVars
  <2> QED
    BY <2>1, <2>2, <2>3
<1>3. ASSUME NEW fh \in DOMAIN listings, AtEnd(fh)
      PROVE  ReadDirOk(fh, <<>>) /\ UNCHANGED <<open_directories, directory_number>>
  BY <1>3 DEF AtEnd, daemonVars
<1>4. ASSUME Sends
      PROVE  /\ rd.fh \in DOMAIN listings /\ rd.out \in Seq(ReplyEntry)
             /\ ReadDirOk(rd.fh, rd.out) /\ UNCHANGED <<open_directories, directory_number>>
  BY <1>4, RdIsInside DEF Sends, daemonVars, TypeInv, Ranges
<1>5. ASSUME ReadDirAdds
      PROVE  /\ UNCHANGED <<open_directories, directory_number>>
             /\ \/ UNCHANGED listings
                \/ /\ rd.fh \in DOMAIN listings
                   /\ \E out \in Seq(ReplyEntry) : ReadDirOk(rd.fh, out)
  BY <1>5, AddsEffect
<1>6. <<>> \in Seq(ReplyEntry)
  OBVIOUS
<1> QED
  BY <1>1, <1>2, <1>3, <1>4, <1>5, <1>6

LEMMA NextDirectories ==
  TypeInv /\ NodesInv /\ DirectoriesInv /\ [Next]_vars => DirectoriesInv'
<1> SUFFICES ASSUME TypeInv, NodesInv, DirectoriesInv, [Next]_vars
             PROVE  DirectoriesInv'
  OBVIOUS
<1>1. Effect /\ UNCHANGED inode_autogenerated
  BY StepHasEffect
<1>2. ASSUME NEW ino \in DOMAIN nodes, OpensDirectory(ino)
      PROVE  DirectoriesInv'
  <2> DEFINE n == directory_number
  <2>1. n \in Nat /\ directory_number' = n + 1 /\ DOMAIN listings \subseteq Nat
    BY <1>2, BumpIs DEF OpensDirectory, OpenDirOk, TypeInv, TypeOK, Ranges
  <2>2. /\ DOMAIN listings' = DOMAIN listings \cup {n}
        /\ open_directories'[n] = inodes[ino] /\ listings'[n].entry = nodes[ino].entry
        /\ listings'[n].opens = Opens(listings, n)
        /\ \A fh \in DOMAIN listings \ {n} :
             open_directories'[fh] = open_directories[fh] /\ listings'[fh] = listings[fh]
    BY <1>2 DEF OpensDirectory, OpenDirOk, With, TypeInv, Ranges
  <2>3. n \notin DOMAIN listings
    BY <2>1 DEF DirectoriesInv
  <2>4. Opens(listings, n) = 1
    BY <2>3 DEF Opens
  <2>5. Same(inodes[ino], nodes[ino].entry)
    BY <1>2 DEF OpensDirectory, Is, NodesInv, NodesAgree
  <2> HIDE DEF n
  <2> QED
    BY <1>1, <2>1, <2>2, <2>3, <2>4, <2>5 DEF DirectoriesInv, Same, n
<1>3. ASSUME NEW fh \in DOMAIN listings, ReleaseDir(fh)
      PROVE  DirectoriesInv'
  BY <1>1, <1>3
     DEF ReleaseDir, ReleaseDirWith, Without, DirectoriesInv, Same, TypeInv, Ranges
<1>4. CASE /\ DOMAIN listings' = DOMAIN listings
           /\ UNCHANGED <<open_directories, directory_number>>
           /\ \A fh \in DOMAIN listings :
                /\ listings'[fh].entry = listings[fh].entry
                /\ listings'[fh].opens = listings[fh].opens
  BY <1>1, <1>4 DEF DirectoriesInv, Same
<1>5. CASE UNCHANGED <<listings, open_directories, directory_number>>
  BY <1>4, <1>5
<1>6. (\E ino \in DOMAIN nodes : Evict(ino) \/ OpensFile(ino)) =>
        UNCHANGED <<listings, open_directories, directory_number>>
  BY DEF Evict, OpensFile, OpenOk, OpenOkWith, daemonVars
<1>7. /\ (\E e \in Entries : Looks(e)) =>
           UNCHANGED <<listings, open_directories, directory_number>>
      /\ (\E ino \in 0 .. U64_MAX : Forget(ino)) =>
           UNCHANGED <<listings, open_directories, directory_number>>
      /\ (\E fh \in DOMAIN files : Release(fh)) =>
           UNCHANGED <<listings, open_directories, directory_number>>
  BY DEF Looks, Forget, Release
<1>8. /\ (\E fh \in DOMAIN listings : Begins(fh)) =>
           UNCHANGED <<listings, open_directories, directory_number>>
      /\ Quiet \/ Fails \/ PassesOver =>
           UNCHANGED <<listings, open_directories, directory_number>>
  BY DEF Begins, Quiet, Fails, PassesOver, daemonVars, kernelVars
<1> QED
  BY <1>1, <1>2, <1>3, <1>4, <1>5, <1>6, <1>7, <1>8, ReadDirKeepsListings DEF Effect

(* An open handle reads or lists the object that was opened, is given out  *)
(* once, and goes when the kernel releases it: the counters of handles     *)
(* never come back to one in use, and the tables are changed by nothing    *)
(* but open, release and their directory counterparts.                     *)
THEOREM HandlesAreStable == Spec => []HandlesStable
<1> DEFINE Inv == TypeInv /\ NodesInv /\ FilesInv /\ DirectoriesInv
<1>1. Init => Inv
  <2>1. Init => FilesInv /\ DirectoriesInv
    BY DEF Init, FilesInv, DirectoriesInv, Empty
  <2> QED
    BY <2>1, InitTypeInv, InitNodes
<1>2. Inv /\ [Next]_vars => Inv'
  BY NextTypeInv, NextNodes, NextFiles, NextDirectories
<1>3. Inv => HandlesStable
  <2> SUFFICES ASSUME Inv
               PROVE  HandlesStable
    OBVIOUS
  <2>1. ASSUME NEW fh \in DOMAIN files
        PROVE  Extent[open_files[fh]] = Extent[files[fh].entry] /\ files[fh].opens = 1
    <3>1. open_files[fh] \in Entries /\ files[fh].entry \in Entries
      BY DEF TypeInv, Ranges, FilesInv
    <3> QED
      BY <3>1, SameObject DEF FilesInv
  <2>2. ASSUME NEW fh \in DOMAIN listings
        PROVE  /\ Extent[open_directories[fh]] = Extent[listings[fh].entry]
               /\ listings[fh].opens = 1
    <3>1. open_directories[fh] \in Entries /\ listings[fh].entry \in Entries
      BY DEF TypeInv, Ranges, ListingRecord, Directories
    <3> QED
      BY <3>1, SameObject DEF DirectoriesInv
  <2> QED
    BY <2>1, <2>2 DEF HandlesStable, FilesInv, TypeInv, Ranges
<1> HIDE DEF Inv
<1> QED
  BY <1>1, <1>2, <1>3, PTL DEF Spec

-----------------------------------------------------------------------------
(* Listings *)

(* Nothing is there to see before the first record. *)
LEMMA ShowsNothing ==
  ASSUME NEW list
  PROVE  Shows(<<>>, list, 0)
<1> DEFINE at == [k \in 1 .. Len(<<>>) |-> 1]
<1>1. at \in [1 .. Len(<<>>) -> 1 .. 0]
  OBVIOUS
<1>2. Len(<<>>) = 0 /\ 1 .. 0 = {}
  OBVIOUS
<1> HIDE DEF at
<1>3. /\ \A j, k \in 1 .. Len(<<>>) : j < k => at[j] < at[k]
      /\ \A k \in 1 .. Len(<<>>) : <<>>[k] = list[at[k]] /\ <<>>[k] \notin Relocated
      /\ \A i \in 1 .. 0 : list[i] \notin Relocated => \E k \in 1 .. Len(<<>>) : at[k] = i
  BY <1>2
<1> QED
  BY <1>1, <1>3, Zenon DEF Shows

(* Relocated records add nothing to what there is to see. *)
LEMMA ShowsRest ==
  ASSUME NEW got \in Seq(Entries), NEW list \in Seq(Entries),
         NEW n \in Nat, NEW m \in Nat, n <= m, m <= Len(list),
         Shows(got, list, n),
         \A i \in n + 1 .. m : list[i] \in Relocated
  PROVE  Shows(got, list, m)
<1>1. PICK at \in [1 .. Len(got) -> 1 .. n] :
        /\ \A j, k \in 1 .. Len(got) : j < k => at[j] < at[k]
        /\ \A k \in 1 .. Len(got) : got[k] = list[at[k]] /\ got[k] \notin Relocated
        /\ \A i \in 1 .. n : list[i] \notin Relocated => \E k \in 1 .. Len(got) : at[k] = i
  BY DEF Shows
<1>2. at \in [1 .. Len(got) -> 1 .. m]
  OBVIOUS
<1>3. \A i \in 1 .. m : list[i] \notin Relocated => \E k \in 1 .. Len(got) : at[k] = i
  <2>1. \A i \in 1 .. m : i \in 1 .. n \/ i \in n + 1 .. m
    OBVIOUS
  <2> QED
    BY <1>1, <2>1
<1> QED
  BY <1>1, <1>2, <1>3 DEF Shows

(* Another one is the next to be seen. *)
LEMMA ShowsNext ==
  ASSUME NEW got \in Seq(Entries), NEW list \in Seq(Entries),
         NEW n \in Nat, n + 1 <= Len(list),
         Shows(got, list, n), list[n + 1] \notin Relocated
  PROVE  Shows(Append(got, list[n + 1]), list, n + 1)
<1>1. PICK at \in [1 .. Len(got) -> 1 .. n] :
        /\ \A j, k \in 1 .. Len(got) : j < k => at[j] < at[k]
        /\ \A k \in 1 .. Len(got) : got[k] = list[at[k]] /\ got[k] \notin Relocated
        /\ \A i \in 1 .. n : list[i] \notin Relocated => \E k \in 1 .. Len(got) : at[k] = i
  BY DEF Shows
<1> DEFINE more == Append(got, list[n + 1])
           to == [k \in 1 .. Len(got) + 1 |-> IF k <= Len(got) THEN at[k] ELSE n + 1]
<1>2. /\ Len(got) \in Nat /\ Len(more) = Len(got) + 1
      /\ more[Len(got) + 1] = list[n + 1]
      /\ \A k \in 1 .. Len(got) : more[k] = got[k]
  <2>1. list[n + 1] \in Entries
    OBVIOUS
  <2> QED
    BY <2>1
<1>3. /\ to \in [1 .. Len(more) -> 1 .. n + 1]
      /\ to[Len(got) + 1] = n + 1
      /\ \A k \in 1 .. Len(got) : to[k] = at[k] /\ to[k] \in 1 .. n
  <2> HIDE DEF more
  <2>1. \A k \in 1 .. Len(got) : to[k] = at[k] /\ at[k] \in 1 .. n
    BY <1>2
  <2>2. to[Len(got) + 1] = n + 1
    BY <1>2
  <2>3. \A k \in 1 .. Len(got) + 1 : to[k] \in 1 .. n + 1
    BY <1>2, <2>1, <2>2
  <2> QED
    BY <1>2, <2>1, <2>2, <2>3
<1> HIDE DEF more, to
<1>4. \A k \in 1 .. Len(more) : k \in 1 .. Len(got) \/ k = Len(got) + 1
  BY <1>2
<1>5. \A j, k \in 1 .. Len(more) : j < k => to[j] < to[k]
  <2> SUFFICES ASSUME NEW j \in 1 .. Len(more), NEW k \in 1 .. Len(more), j < k
               PROVE  to[j] < to[k]
    OBVIOUS
  <2>1. j \in 1 .. Len(got)
    BY <1>2
  <2>2. CASE k \in 1 .. Len(got)
    BY <1>1, <1>3, <2>1, <2>2
  <2>3. CASE k = Len(got) + 1
    BY <1>3, <2>1, <2>3
  <2> QED
    BY <1>4, <2>2, <2>3
<1>6. \A k \in 1 .. Len(more) : more[k] = list[to[k]] /\ more[k] \notin Relocated
  BY <1>1, <1>2, <1>3, <1>4
<1>7. \A i \in 1 .. n + 1 : list[i] \notin Relocated => \E k \in 1 .. Len(more) : to[k] = i
  <2> SUFFICES ASSUME NEW i \in 1 .. n + 1, list[i] \notin Relocated
               PROVE  \E k \in 1 .. Len(more) : to[k] = i
    OBVIOUS
  <2>1. CASE i = n + 1
    <3>1. Len(got) + 1 \in 1 .. Len(more)
      BY <1>2
    <3> QED
      BY <1>3, <2>1, <3>1
  <2>2. CASE i \in 1 .. n
    <3>1. PICK k \in 1 .. Len(got) : at[k] = i
      BY <1>1, <2>2
    <3>2. k \in 1 .. Len(more) /\ to[k] = i
      BY <1>2, <1>3, <3>1
    <3> QED
      BY <3>2
  <2> QED
    BY <2>1, <2>2
<1>8. Shows(more, list, n + 1)
  BY <1>3, <1>5, <1>6, <1>7 DEF Shows
<1> QED
  BY <1>8 DEF more

(* A listing that is begun, or begun again, has shown nothing. *)
LEMMA FreshListing ==
  ASSUME NEW l, NEW d \in Directories, l.offset = 0, l.got = <<>>, l.end = FALSE
  PROVE  ListingInv(l, d)
BY ShowsNothing DEF ListingInv, Before, None

(* What the kernel has after a reply with entries, if they and what it had *)
(* are what there is to see before the offset of the last.                 *)
LEMMA RepliedListing ==
  ASSUME TypeInv, NEW fh \in DOMAIN listings, NEW out \in Seq(ReplyEntry), out # <<>>,
         ReadDirOk(fh, out), ~listings[fh].end,
         Shows(listings[fh].got \o Told(out), Listing[open_directories[fh]],
               Before(Last(out).next, Listing[open_directories[fh]]))
  PROVE  ListingInv(listings'[fh], open_directories[fh])
<1>1. listings[fh] \in ListingRecord
  BY DEF TypeInv, Ranges
<1>2. /\ listings'[fh].offset = Last(out).next
      /\ listings'[fh].got = listings[fh].got \o Told(out)
      /\ listings'[fh].end = listings[fh].end
  BY <1>1, ReplySent
<1> QED
  BY <1>2 DEF ListingInv

(* What the kernel has and what the reply under way adds are entries. *)
LEMMA SeenType ==
  ASSUME TypeInv, pc = "readdir"
  PROVE  /\ listings[rd.fh].got \in Seq(Entries) /\ Told(rd.out) \in Seq(Entries)
         /\ listings[rd.fh].got \o Told(rd.out) \in Seq(Entries)
<1>1. listings[rd.fh].got \in Seq(Entries)
  BY RdIsInside DEF TypeInv, Ranges, ListingRecord
<1>2. rd.out \in Seq(ReplyEntry)
  BY DEF TypeInv, Ranges
<1>3. \A i \in 1 .. Len(rd.out) : rd.out[i] \in ReplyEntry /\ Len(rd.out) \in Nat
  BY <1>2
<1>4. \A i \in 1 .. Len(rd.out) : rd.out[i].entry \in Entries
  BY <1>3 DEF ReplyEntry
<1>5. Told(rd.out) \in Seq(Entries)
  BY <1>2, <1>4 DEF Told
<1> QED
  BY <1>1, <1>5

(* A readdir that starts, and one that passes over a relocated directory.  *)
LEMMA BeginsReply ==
  ASSUME TypeInv, ListingsInv, NEW fh \in DOMAIN listings, Begins(fh)
  PROVE  ReplyInv'
<1>1. /\ rd'.fh = fh /\ rd'.offset = listings[fh].offset /\ rd'.out = <<>>
      /\ UNCHANGED <<listings, open_directories>>
      /\ listings[fh].offset # None /\ listings[fh].offset \in Nat
      /\ listings[fh].got \in Seq(Entries)
  BY DEF Begins, daemonVars, kernelVars, TypeInv, Ranges, ListingRecord
<1>2. RdList' = Listing[open_directories[fh]]
  BY <1>1 DEF RdList
<1>3. Told(<<>>) = <<>>
  BY DEF Told
<1>4. listings[fh].got \o <<>> = listings[fh].got
  BY <1>1
<1>5. Shows(listings[fh].got, Listing[open_directories[fh]], listings[fh].offset)
  BY <1>1 DEF ListingsInv, ListingInv, Before
<1> QED
  <2>1. Shows(listings'[rd'.fh].got \o Told(rd'.out), RdList', rd'.offset)
    BY <1>1, <1>2, <1>3, <1>4, <1>5
  <2>2. Before(listings'[rd'.fh].offset, RdList') = rd'.offset /\ rd'.offset \in Nat
    BY <1>1 DEF Before
  <2> QED
    BY <1>1, <2>1, <2>2 DEF ReplyInv

LEMMA PassesOverReply ==
  ASSUME TypeInv, ReplyInv, PassesOver
  PROVE  ReplyInv'
<1> DEFINE seen == listings[rd.fh].got \o Told(rd.out)
           n == rd.offset
           old == Before(listings[rd.fh].offset, RdList)
<1>1. /\ pc = "readdir" /\ RdNext # None /\ RdEntry \in Relocated
      /\ UNCHANGED <<listings, open_directories>>
  BY DEF PassesOver, daemonVars, kernelVars
<1>2. RdNext = n + 1 /\ n + 1 \in 1 .. Len(RdList) /\ RdList \in Seq(Entries) /\ n \in Nat
  BY <1>1, RdIsInside DEF TypeInv, Ranges
<1>3. rd'.fh = rd.fh /\ rd'.out = rd.out /\ rd'.offset = n + 1
  <2>1. rd \in [fh : Nat, offset : Nat, out : Seq(ReplyEntry)] /\ RdNext \in Nat
    BY <1>2 DEF TypeInv, Ranges
  <2> QED
    BY <1>2, <2>1, RdMoves DEF PassesOver
<1>4. RdList' = RdList
  BY <1>1, <1>3 DEF RdList
<1>5. seen \in Seq(Entries)
  BY <1>1, SeenType
<1>6. RdList[n + 1] \in Relocated
  BY <1>1 DEF RdEntry
<1>7. Shows(seen, RdList, n)
  BY <1>1 DEF ReplyInv
<1> HIDE DEF seen
<1>8. Shows(seen, RdList, n + 1)
  <2>1. \A i \in n + 1 .. n + 1 : RdList[i] \in Relocated
    BY <1>2, <1>6
  <2> QED
    BY <1>2, <1>5, <1>7, <2>1, ShowsRest
<1>9. rd.out = <<>> => /\ old <= n + 1
                       /\ \A i \in old + 1 .. n + 1 : RdList[i] \in Relocated
  <2>1. old \in Nat
    BY <1>1, RdIsInside DEF Before, TypeInv, Ranges, ListingRecord
  <2>2. rd.out = <<>> => /\ old <= n
                         /\ \A i \in old + 1 .. n : RdList[i] \in Relocated
    BY <1>1 DEF ReplyInv
  <2> HIDE DEF old
  <2>3. \A i \in old + 1 .. n + 1 : i = n + 1 \/ i \in old + 1 .. n
    BY <1>2, <2>1
  <2> QED
    BY <1>2, <1>6, <2>1, <2>2, <2>3
<1> QED
  BY <1>1, <1>3, <1>4, <1>8, <1>9 DEF ReplyInv, seen

LEMMA SendsListing ==
  ASSUME TypeInv, ListingsInv, ReplyInv, Sends
  PROVE  ListingInv(listings'[rd.fh], open_directories[rd.fh])
<1> DEFINE fh == rd.fh
           l == listings[fh]
           n == Before(l.offset, RdList)
<1>1. /\ pc = "readdir" /\ fh \in DOMAIN listings
      /\ rd.out \in Seq(ReplyEntry) /\ ReadDirOk(fh, rd.out)
  BY RdIsInside DEF Sends, TypeInv, Ranges
<1>2. CASE rd.out # <<>>
  BY <1>1, <1>2, RepliedListing DEF ReplyInv, RdList
<1>3. CASE rd.out = <<>>
  <2>1. RdList[rd.offset + 1] \in Relocated /\ rd.offset + 1 = Len(RdList) /\ rd.offset \in Nat
    BY <1>1, <1>3, RdIsInside DEF Sends, RdEntry, TypeInv, Ranges
  <2>2. /\ listings'[fh].offset = l.offset /\ listings'[fh].got = l.got
    <3>1. l \in ListingRecord
      BY <1>1 DEF TypeInv, Ranges
    <3> QED
      BY <1>1, <1>3, <3>1, ReplySent
  <2>3. n \in Nat /\ n <= rd.offset /\ \A i \in n + 1 .. rd.offset : RdList[i] \in Relocated
    BY <1>1, <1>3, RdIsInside DEF ReplyInv, Before, TypeInv, Ranges, ListingRecord
  <2>4. \A i \in n + 1 .. Len(RdList) : RdList[i] \in Relocated
    <3> HIDE DEF n
    <3>1. \A i \in n + 1 .. Len(RdList) : i = rd.offset + 1 \/ i \in n + 1 .. rd.offset
      BY <2>1, <2>3
    <3> QED
      BY <2>1, <2>3, <3>1
  <2>5. Shows(l.got, RdList, n)
    BY <1>1 DEF ListingsInv, ListingInv, RdList
  <2> QED
    BY <2>2, <2>4, <2>5 DEF ListingInv, RdList
<1> QED
  BY <1>2, <1>3

(* An entry put behind a part of the listing is put behind the listing. *)
LEMMA AppendBehind ==
  ASSUME NEW S, NEW a \in Seq(S), NEW b \in Seq(S), NEW x \in S
  PROVE  a \o Append(b, x) = Append(a \o b, x)
<1>1. a \o b \in Seq(S) /\ <<x>> \in Seq(S)
  OBVIOUS
<1>2. Append(b, x) = b \o <<x>> /\ Append(a \o b, x) = (a \o b) \o <<x>>
  BY <1>1, AppendIsConcat
<1> QED
  BY <1>1, <1>2, ConcatAssociative

(* The entry readdir adds is the next there is to see. *)
LEMMA AddsShows ==
  ASSUME TypeInv, ListingsInv, ReplyInv, pc = "readdir", CanNumber, RdEntry \notin Relocated,
         NEW out, out = Append(rd.out, [ino |-> InodeNumber(RdEntry), next |-> RdNext,
                                        entry |-> RdEntry])
  PROVE  /\ Shows(listings[rd.fh].got \o Told(out), RdList, rd.offset + 1)
         /\ Before(RdNext, RdList) = rd.offset + 1
         /\ ~listings[rd.fh].end
<1> DEFINE l == listings[rd.fh]
           seen == l.got \o Told(rd.out)
           n == Before(l.offset, RdList)
<1>1. /\ RdList \in Seq(Entries) /\ rd.offset + 1 \in 1 .. Len(RdList) /\ rd.offset \in Nat
      /\ RdEntry = RdList[rd.offset + 1] /\ RdEntry \in Entries
      /\ rd.fh \in DOMAIN listings
  BY RdIsInside DEF RdEntry, TypeInv, Ranges
<1>2. seen \in Seq(Entries) /\ l.got \in Seq(Entries) /\ Told(rd.out) \in Seq(Entries)
  BY SeenType
<1>3. l.got \o Told(out) = Append(seen, RdEntry)
  <2>1. Told(out) = Append(Told(rd.out), RdEntry)
    BY AddedType
  <2> DEFINE a == l.got
             b == Told(rd.out)
  <2>2. a \in Seq(Entries) /\ b \in Seq(Entries) /\ RdEntry \in Entries
    BY <1>1, <1>2
  <2> HIDE DEF a, b
  <2>3. a \o Append(b, RdEntry) = Append(a \o b, RdEntry)
    BY <2>2, AppendBehind
  <2> QED
    BY <2>1, <2>3 DEF a, b
<1>4. Shows(seen, RdList, rd.offset)
  BY DEF ReplyInv
<1> HIDE DEF seen
<1>5. Shows(Append(seen, RdEntry), RdList, rd.offset + 1)
  BY <1>1, <1>2, <1>4, ShowsNext
<1>6. Before(RdNext, RdList) = rd.offset + 1
  BY RdIsInside DEF Before
<1>7. ~l.end
  <2>1. CASE rd.out # <<>>
    BY <2>1 DEF ReplyInv
  <2>2. CASE rd.out = <<>>
    <3>1. n <= rd.offset /\ n \in Nat
      BY <1>1, <2>2 DEF ReplyInv, Before, TypeInv, Ranges, ListingRecord
    <3>2. l.end => \A i \in n + 1 .. Len(RdList) : RdList[i] \in Relocated
      BY <1>1 DEF ListingsInv, ListingInv, RdList
    <3> HIDE DEF n
    <3>3. rd.offset + 1 \in n + 1 .. Len(RdList)
      BY <1>1, <3>1
    <3> QED
      BY <1>1, <3>2, <3>3
  <2> QED
    BY <2>1, <2>2
<1> QED
  BY <1>3, <1>5, <1>6, <1>7

(* The listings of other handles are not touched. *)
LEMMA OtherListings ==
  ASSUME TypeInv, ListingsInv, NEW fh \in DOMAIN listings, NEW out \in Seq(ReplyEntry),
         ReadDirOk(fh, out), UNCHANGED open_directories,
         ListingInv(listings'[fh], open_directories[fh])
  PROVE  ListingsInv' /\ ReplyInv'
<1>1. listings[fh] \in ListingRecord
  BY DEF TypeInv, Ranges
<1>2. /\ DOMAIN listings' = DOMAIN listings /\ pc' = "idle"
      /\ \A x \in DOMAIN listings : x # fh => listings'[x] = listings[x]
  BY <1>1, ReplySent
<1> QED
  BY <1>2 DEF ListingsInv, ReplyInv

LEMMA NextListings ==
  TypeInv /\ ListingsInv /\ ReplyInv /\ [Next]_vars => ListingsInv' /\ ReplyInv'
<1> DEFINE Good == ListingsInv' /\ ReplyInv'
<1> SUFFICES ASSUME TypeInv, ListingsInv, ReplyInv, [Next]_vars
             PROVE  Good
  OBVIOUS
<1>1. Effect
  BY StepHasEffect
<1>2. ASSUME NEW ino \in DOMAIN nodes, OpensDirectory(ino)
      PROVE  Good
  <2> DEFINE n == directory_number
             l == listings'[n]
  <2>1. /\ DOMAIN listings' = DOMAIN listings \cup {n}
        /\ open_directories'[n] = inodes[ino]
        /\ l.offset = 0 /\ l.got = <<>> /\ l.end = FALSE
        /\ \A fh \in DOMAIN listings \ {n} :
             open_directories'[fh] = open_directories[fh] /\ listings'[fh] = listings[fh]
        /\ pc' = "idle"
    BY <1>2 DEF OpensDirectory, OpenDirOk, With, TypeInv, Ranges
  <2>2. inodes[ino] \in Directories
    BY <1>2 DEF OpensDirectory, Is, Known, Directories, TypeInv, TypeOK
  <2>3. ListingInv(l, inodes[ino])
    BY <2>1, <2>2, FreshListing
  <2> QED
    BY <2>1, <2>3 DEF ListingsInv, ReplyInv
<1>3. ASSUME NEW fh \in DOMAIN listings, ReleaseDir(fh)
      PROVE  Good
  <2>1. /\ DOMAIN listings' = DOMAIN listings \ {fh} /\ pc' = "idle"
        /\ \A x \in DOMAIN listings' :
             open_directories'[x] = open_directories[x] /\ listings'[x] = listings[x]
    BY <1>3 DEF ReleaseDir, ReleaseDirWith, Without, TypeInv, Ranges
  <2> QED
    BY <2>1 DEF ListingsInv, ReplyInv
<1>4. ASSUME NEW fh \in DOMAIN listings, RewindDir(fh)
      PROVE  Good
  <2> DEFINE l == listings[fh]
             m == [l EXCEPT !.offset = 0, !.got = <<>>, !.end = FALSE]
  <2>1. listings' = [listings EXCEPT ![fh] = m]
    BY <1>4 DEF RewindDir
  <2>2. l \in ListingRecord /\ open_directories[fh] \in Directories
    BY DEF TypeInv, Ranges
  <2>3. m.offset = 0 /\ m.got = <<>> /\ m.end = FALSE
    BY <2>2, ListingRewinds
  <2> HIDE DEF m
  <2>4. ListingInv(m, open_directories[fh])
    BY <2>2, <2>3, FreshListing
  <2>5. UNCHANGED open_directories /\ pc' = "idle"
    BY <1>4 DEF RewindDir, daemonVars
  <2> QED
    BY <2>1, <2>4, <2>5 DEF ListingsInv, ReplyInv
<1>5. ASSUME NEW fh \in DOMAIN listings, Begins(fh)
      PROVE  Good
  <2>1. UNCHANGED <<listings, open_directories>>
    BY <1>5 DEF Begins, daemonVars, kernelVars
  <2> QED
    BY <1>5, <2>1, BeginsReply DEF ListingsInv
<1>6. ASSUME NEW fh \in DOMAIN listings, AtEnd(fh)
      PROVE  Good
  <2>1. /\ ReadDirOk(fh, <<>>) /\ UNCHANGED open_directories /\ listings[fh].offset = None
        /\ <<>> \in Seq(ReplyEntry) /\ listings[fh] \in ListingRecord
        /\ open_directories[fh] \in Directories
    BY <1>6 DEF AtEnd, daemonVars, TypeInv, Ranges
  <2>2. listings'[fh].offset = None /\ listings'[fh].got = listings[fh].got
    BY <2>1, ReplySent
  <2>3. ListingInv(listings'[fh], open_directories[fh])
    <3>1. Len(Listing[open_directories[fh]]) \in Nat
      BY <2>1, FuseAssumption
    <3>2. Shows(listings[fh].got, Listing[open_directories[fh]], Len(Listing[open_directories[fh]]))
      BY <2>1 DEF ListingsInv, ListingInv, Before
    <3> QED
      BY <2>2, <3>1, <3>2 DEF ListingInv, Before
  <2> QED
    BY <2>1, <2>3, OtherListings
<1>7. CASE PassesOver
  <2>1. UNCHANGED <<listings, open_directories>>
    BY <1>7 DEF PassesOver, daemonVars, kernelVars
  <2> QED
    BY <1>7, <2>1, PassesOverReply DEF ListingsInv
<1>8. CASE Sends
  <2>1. /\ rd.fh \in DOMAIN listings /\ rd.out \in Seq(ReplyEntry)
        /\ ReadDirOk(rd.fh, rd.out) /\ UNCHANGED open_directories
    BY <1>8, RdIsInside DEF Sends, daemonVars, TypeInv, Ranges
  <2> QED
    BY <1>8, <2>1, SendsListing, OtherListings
<1>9. CASE ReadDirAdds
  <2> DEFINE r == [ino |-> InodeNumber(RdEntry), next |-> RdNext, entry |-> RdEntry]
             out == Append(rd.out, r)
             l == listings[rd.fh]
  <2>1. /\ pc = "readdir" /\ CanNumber /\ RdEntry \notin Relocated
        /\ UNCHANGED open_directories
    BY <1>9 DEF ReadDirAdds, ReadDirAddsAt
  <2>2. /\ rd.fh \in DOMAIN listings /\ out \in Seq(ReplyEntry)
        /\ \/ /\ RdNext # None /\ UNCHANGED <<pc, listings>>
              /\ rd'.fh = rd.fh /\ rd'.offset = RdNext /\ rd'.out = out
           \/ ReadDirOk(rd.fh, out)
    BY <1>9, AddsEffect
  <2>3. out # <<>> /\ Last(out).next = RdNext
    BY <2>1, AddedType
  <2>4. /\ Shows(l.got \o Told(out), RdList, rd.offset + 1)
        /\ Before(RdNext, RdList) = rd.offset + 1 /\ ~l.end
    BY <2>1, AddsShows
  <2> HIDE DEF out
  <2>5. CASE ReadDirOk(rd.fh, out)
    <3>1. ListingInv(listings'[rd.fh], open_directories[rd.fh])
      BY <2>2, <2>3, <2>4, <2>5, RepliedListing DEF RdList
    <3> QED
      BY <2>1, <2>2, <2>5, <3>1, OtherListings
  <2>6. CASE /\ RdNext # None /\ UNCHANGED <<pc, listings>>
             /\ rd'.fh = rd.fh /\ rd'.offset = RdNext /\ rd'.out = out
    <3>1. RdList' = RdList
      BY <2>1, <2>6 DEF RdList
    <3>2. RdNext = rd.offset + 1
      BY <2>1, <2>6, RdIsInside
    <3>3. ReplyInv'
      BY <2>3, <2>4, <2>6, <3>1, <3>2 DEF ReplyInv
    <3> QED
      BY <2>1, <2>6, <3>3 DEF ListingsInv
  <2> QED
    BY <2>2, <2>5, <2>6
<1>10. CASE Fails
  BY <1>10 DEF Fails, daemonVars, kernelVars, ListingsInv, ReplyInv
<1>11. CASE UNCHANGED <<listings, open_directories, pc, rd>>
  <2>1. RdList' = RdList
    BY <1>11 DEF RdList
  <2> QED
    BY <1>11, <2>1 DEF ListingsInv, ReplyInv
<1>12. /\ Quiet => UNCHANGED <<listings, open_directories, pc, rd>>
       /\ (\E e \in Entries : Looks(e)) => UNCHANGED <<listings, open_directories, pc, rd>>
       /\ (\E ino \in DOMAIN nodes : Evict(ino) \/ OpensFile(ino)) =>
            UNCHANGED <<listings, open_directories, pc, rd>>
       /\ (\E ino \in 0 .. U64_MAX : Forget(ino)) =>
            UNCHANGED <<listings, open_directories, pc, rd>>
       /\ (\E fh \in DOMAIN files : Release(fh)) =>
            UNCHANGED <<listings, open_directories, pc, rd>>
  BY DEF Quiet, Looks, Evict, OpensFile, OpenOk, OpenOkWith, Forget, Release, daemonVars,
         kernelVars
<1> QED
  BY <1>1, <1>2, <1>3, <1>4, <1>5, <1>6, <1>7, <1>8, <1>9, <1>10, <1>11, <1>12 DEF Effect

(* What readdir has returned through a handle is the directory without its *)
(* relocated entries, each once and in order, wherever the kernel's buffer *)
(* cut the replies and whichever requests failed in between; all of it     *)
(* when the end is reported.                                               *)
THEOREM ListingIsExact == Spec => []ListingExact
<1> DEFINE Inv == TypeInv /\ NodesInv /\ DirectoriesInv /\ ListingsInv /\ ReplyInv
<1>1. Init => Inv
  <2>1. Init => DirectoriesInv /\ ListingsInv /\ ReplyInv
    BY DEF Init, DirectoriesInv, ListingsInv, ReplyInv, Empty
  <2> QED
    BY <2>1, InitTypeInv, InitNodes
<1>2. Inv /\ [Next]_vars => Inv'
  BY NextTypeInv, NextNodes, NextDirectories, NextListings
<1>3. Inv => ListingExact
  <2> SUFFICES ASSUME Inv, NEW fh \in DOMAIN listings
               PROVE  LET l == listings[fh]
                          list == Listing[l.entry]
                      IN  /\ \E n \in 0 .. Len(list) : Shows(l.got, list, n)
                          /\ l.end => Shows(l.got, list, Len(list))
    BY DEF ListingExact
  <2> DEFINE l == listings[fh]
             list == Listing[l.entry]
             n == Before(l.offset, list)
  <2>1. /\ l \in ListingRecord /\ open_directories[fh] \in Directories
        /\ Resumable(l.offset, open_directories[fh])
    BY DEF TypeInv, Ranges
  <2>2. l.got \in Seq(Entries) /\ l.entry \in Entries /\ l.offset \in Nat \cup {None}
    BY <2>1 DEF ListingRecord
  <2>3. Listing[open_directories[fh]] = list
    BY <2>1, <2>2, SameObject DEF DirectoriesInv, Directories
  <2>4. list \in Seq(Entries) /\ Len(list) \in Nat
    BY <2>1, <2>3, FuseAssumption
  <2>5. n \in 0 .. Len(list)
    BY <2>1, <2>2, <2>3, <2>4 DEF Resumable, Before
  <2>6. /\ Shows(l.got, list, n)
        /\ l.end => \A i \in n + 1 .. Len(list) : list[i] \in Relocated
    BY <2>3 DEF ListingsInv, ListingInv
  <2> HIDE DEF n
  <2>7. l.end => Shows(l.got, list, Len(list))
    BY <2>2, <2>4, <2>5, <2>6, ShowsRest
  <2> QED
    BY <2>5, <2>6, <2>7
<1> HIDE DEF Inv
<1> QED
  BY <1>1, <1>2, <1>3, PTL DEF Spec

=============================================================================
