------------------------------- MODULE Volume -------------------------------
(***************************************************************************)
(* ISO9660: the scan of the volume descriptors that makes one (new), the   *)
(* choice between its two directory hierarchies (is_rr, root, root_at),    *)
(* path lookup (open, find_recursive) and what the FUSE daemon decides     *)
(* from them when it mounts the volume (ISOFuse::new).  Every one of them  *)
(* reads the image, and a read may fail or fall short.                     *)
(*                                                                         *)
(* A cell of the image that is a key of Descriptors is the first byte of a *)
(* volume descriptor.  A directory is in the block DirLba gives; what find *)
(* returns in it is a lookup in Children (IsoDirectory).                   *)
(***************************************************************************)
EXTENDS IsoDevice, Sequences

CONSTANTS
  Starts,       \* the first descriptor of each volume of the image (16 in the code)
  Descriptors,  \* Descriptors[c]: the fields of the descriptor at c
  RockRidge,    \* the root directories whose "." has a Rock Ridge ER entry
  Serial,       \* the root directories whose "." has a serial number
  Children,     \* Children[d][name]: the entry of that name in directory d
  DirLba,       \* DirLba[d]: the block directory d is in
  Paths         \* the paths open is called with: sequences of segments

(* A descriptor without a root directory record has the root "none".       *)
ASSUME VolumeAssumption ==
  /\ Starts # {} /\ Starts \subseteq Nat
  /\ DOMAIN Descriptors \subseteq Cell
  /\ \A c \in DOMAIN Descriptors : Descriptors[c].root \in DOMAIN Children \cup {"none"}
  /\ "none" \notin DOMAIN Children
  /\ DirLba \in [DOMAIN Children -> Nat]
  /\ RockRidge \cup Serial \subseteq DOMAIN Children
  /\ \A path \in Paths : path \in Seq(STRING)

VARIABLES
  first,      \* the volume that is opened
  lba,        \* the descriptor the scan is at
  primary,    \* the root the last primary descriptor gave, or None
  sup_root,   \* the root the last supplementary descriptor gave, or None
  pc,         \* "scan", "failed", "idle", or the next step of a call
  call,       \* the locals of the running call
  reply       \* what the last call returned

vars == <<cursor, faults, first, lba, primary, sup_root, pc, call, reply>>

-----------------------------------------------------------------------------

None == "none"
NewCall(op, path) == [op |-> op, path |-> path, i |-> 0, root |-> None, entry |-> None]
NoCall == NewCall(None, <<>>)
NoReply == [op |-> None, path |-> <<>>, root |-> None, res |-> None, entry |-> None,
            serial |-> FALSE]
Reply(res, entry, serial) ==
  [op |-> call.op, path |-> call.path, root |-> call.root, res |-> res, entry |-> entry,
   serial |-> serial]

Init ==
  /\ DeviceInit
  /\ first \in Starts
  /\ lba = first
  /\ primary = None /\ sup_root = None
  /\ pc = "scan"
  /\ call = NoCall
  /\ reply = NoReply

-----------------------------------------------------------------------------
(* ISO9660::new *)

(* both_endian16: of the two recordings of a number the little-endian one. *)
BothEndian(n) == n.le

(* decode_string: ISO 9660 text must be UTF-8.  UCS-2 always decodes: text *)
(* that is malformed panics in a build with the feature "assertions", and  *)
(* gets replacement characters in one without.                             *)
Encodings == {"Iso9660", "Ucs2Level1", "Ucs2Level2", "Ucs2Level3"}
Decodes(encoding, utf8) == encoding = "Iso9660" => utf8

(* date_time_ascii: every field is a number or all zero bytes.  What the    *)
(* date then is, is never used.                                            *)
DateTimeAscii(dates) == dates \in {"digits", "zeros"}

(* descriptor_table: one field that does not parse and the descriptor does *)
(* not, the bibliographic identifier always as ISO 9660 text.              *)
DescriptorTable(d) ==
  /\ d.encoding \in Encodings
  /\ d.root # None
  /\ DateTimeAscii(d.dates)
  /\ Decodes(d.encoding, d.utf8)
  /\ Decodes("Iso9660", d.biblio)

(* volume_descriptor: the kind of descriptor, or None.  The tag includes   *)
(* the version.  Descriptors of another type are passed over.              *)
KindOf(d) ==
  CASE d.version # 1 -> None
    [] d.type = 0 -> IF Decodes("Iso9660", d.utf8) THEN "boot" ELSE None
    [] d.type = 1 -> IF DescriptorTable(d) THEN "primary" ELSE None
    [] d.type = 2 -> IF DescriptorTable(d) THEN "supplementary" ELSE None
    [] d.type = 255 -> "terminator"
    [] OTHER -> "other"

(* VolumeDescriptor::parse of a block that is no descriptor is an error. *)
KindIn(cell) ==
  IF cell \in DOMAIN Descriptors THEN KindOf(Descriptors[cell]) ELSE None

(* Only blocks of BLOCK_SIZE bytes are supported. *)
AnySize(d) == TRUE
RightSize(d) == BothEndian(d.size) = BLOCK_SIZE

(* The next descriptor, and whether the terminator ends a volume that can  *)
(* be used.                                                                *)
SameLba == lba
NextLba == lba + 1
AnyVolume == TRUE
HasPrimary == primary # None

(* One round of the loop: a whole block was read. *)
ScanBlock ==
  LET cell == ReadInto(NewBlockBuffer, BLOCK_SIZE)[0]
      kind == KindIn(cell)
      d == Descriptors[cell]
  IN  /\ pc = "scan"
      /\ ReadAtOk(lba, BLOCK_SIZE)
      /\ \/ /\ kind = "primary" /\ RightSize(d)
            /\ primary' = d.root /\ lba' = NextLba
            /\ UNCHANGED <<sup_root, pc>>
         \/ /\ kind = "supplementary" /\ RightSize(d)
            /\ sup_root' = d.root /\ lba' = NextLba
            /\ UNCHANGED <<primary, pc>>
         \/ /\ kind \in {"boot", "other"}
            /\ lba' = NextLba
            /\ UNCHANGED <<primary, sup_root, pc>>
         \/ /\ kind = "terminator"
            /\ pc' = IF HasPrimary THEN "idle" ELSE "failed"
            /\ UNCHANGED <<primary, sup_root, lba>>
         \/ /\ \/ kind = None
               \/ kind \in {"primary", "supplementary"} /\ ~RightSize(d)
            /\ pc' = "failed"
            /\ UNCHANGED <<primary, sup_root, lba>>
      /\ UNCHANGED <<first, call, reply>>

(* Err(ReadSize), or the error of the read. *)
ReadFails(l) ==
  (\E n \in 0 .. BLOCK_SIZE - 1 : ReadAtOk(l, n)) \/ ReadAtErr(l)

ScanFails ==
  /\ pc = "scan"
  /\ ReadFails(lba)
  /\ pc' = "failed"
  /\ UNCHANGED <<first, lba, primary, sup_root, call, reply>>

-----------------------------------------------------------------------------
(* root, root_at, open, and the daemon's mount *)

Begin(op, path) ==
  /\ pc = "idle"
  /\ pc' = "root"
  /\ call' = NewCall(op, path)
  /\ reply' = NoReply
  /\ UNCHANGED <<cursor, faults, first, lba, primary, sup_root>>

RootCall == Begin("root", <<>>)

OpenCall(path) == Begin("open", path)

MountCall == Begin("mount", <<>>)

(* root_at reads nothing; an index other than 0 and 1 is unimplemented!(). *)
RootAt(index) ==
  LET r == IF index = 0 THEN primary ELSE sup_root
  IN  /\ pc = "idle"
      /\ reply' = [NoReply EXCEPT !.op = "root_at", !.entry = r,
                                  !.res = IF r = None THEN "none" ELSE "some"]
      /\ UNCHANGED <<cursor, faults, first, lba, primary, sup_root, pc, call>>

Return(res, entry, serial) ==
  /\ reply' = Reply(res, entry, serial)
  /\ pc' = "idle" /\ call' = NoCall
  /\ UNCHANGED <<first, lba, primary, sup_root>>

(* is_rr() reads the first record of the primary root; when that fails it  *)
(* answers that there is no Rock Ridge.                                    *)
IsRR(is_rr) ==
  \/ ReadAtOk(DirLba[primary], BLOCK_SIZE) /\ is_rr = (primary \in RockRidge)
  \/ ReadFails(DirLba[primary]) /\ ~is_rr

(* root(), for its caller, for open and for the mount. *)
Selected(is_rr) == IF is_rr \/ sup_root = None THEN primary ELSE sup_root

SelectRoot(is_rr) ==
  LET r == Selected(is_rr)
  IN  /\ pc = "root"
      /\ IsRR(is_rr)
      /\ \/ call.op = "root" /\ Return("some", r, FALSE)
         \/ /\ call.op # "root"
            /\ pc' = IF call.op = "open" THEN "find" ELSE "slashdot"
            /\ call' = [call EXCEPT !.root = r, !.entry = r, !.i = 1]
            /\ UNCHANGED <<first, lba, primary, sup_root, reply>>

(* ISOFuse::new reads the first record of the root, with two unwrap(), ... *)
Slashdot ==
  /\ pc = "slashdot"
  /\ \/ /\ ReadAtOk(DirLba[call.root], BLOCK_SIZE)
        /\ pc' = "mode"
        /\ UNCHANGED <<first, lba, primary, sup_root, call, reply>>
     \/ /\ ReadFails(DirLba[call.root])
        /\ Return("panic", None, FALSE)

(* ... and asks is_rr() once more: nodes are numbered by serial number     *)
(* (not inode_autogenerated) if that has Rock Ridge and this one a number. *)
BySerialAlone(is_rr) == call.root \in Serial
BySerial(is_rr) == is_rr /\ call.root \in Serial
InodeAutogenerated(is_rr) ==
  /\ pc = "mode"
  /\ IsRR(is_rr)
  /\ Return("some", call.root, BySerial(is_rr))

(* A segment between two slashes with nothing between them. *)
Blank == ""

(* find_recursive: empty segments of the path are passed over.  The        *)
(* segments that are still to be found, and the next of them; ...          *)
Rest == {k \in call.i .. Len(call.path) : call.path[k] # Blank}
Segment == CHOOSE k \in Rest : \A j \in Rest : k <= j

(* ... the last one has been found, ...                                    *)
OpenReturns ==
  /\ pc = "find" /\ Rest = {}
  /\ Return("some", call.entry, FALSE)
  /\ UNCHANGED <<cursor, faults>>

(* ... what has been found so far is no directory, ... *)
OpenNotDir ==
  /\ pc = "find" /\ Rest # {}
  /\ call.entry \notin DOMAIN Children
  /\ Return("none", None, FALSE)
  /\ UNCHANGED <<cursor, faults>>

(* ... or the next segment is looked for in it.  An error of find ends the *)
(* call.                                                                   *)
OpenFinds ==
  /\ pc = "find" /\ Rest # {}
  /\ call.entry \in DOMAIN Children
  /\ ReadAtOk(DirLba[call.entry], BLOCK_SIZE)
  /\ LET names == Children[call.entry]
         name == call.path[Segment]
     IN  \/ name \notin DOMAIN names /\ Return("none", None, FALSE)
         \/ /\ name \in DOMAIN names
            /\ call' = [call EXCEPT !.entry = names[name], !.i = Segment + 1]
            /\ UNCHANGED <<first, lba, primary, sup_root, pc, reply>>

OpenFailsWith(res) ==
  /\ pc = "find" /\ Rest # {}
  /\ call.entry \in DOMAIN Children
  /\ ReadFails(DirLba[call.entry])
  /\ Return(res, None, FALSE)
OpenFailsSilently == OpenFailsWith("none")
OpenFails == OpenFailsWith("err")

-----------------------------------------------------------------------------

Step ==
  \/ ScanBlock \/ ScanFails
  \/ \E is_rr \in BOOLEAN : SelectRoot(is_rr) \/ InodeAutogenerated(is_rr)
  \/ Slashdot
  \/ OpenReturns \/ OpenNotDir \/ OpenFinds \/ OpenFails

Next ==
  \/ Step
  \/ RootCall \/ MountCall
  \/ \E index \in {0, 1} : RootAt(index)
  \/ \E path \in Paths : OpenCall(path)

Spec == Init /\ [][Next]_vars

(* A scan or a call that has begun goes on; no fault is forced. *)
FairSpec == Spec /\ WF_vars(Step /\ UNCHANGED faults)

-----------------------------------------------------------------------------
(* Properties *)

(* The volume has been accepted. *)
Opened == {"idle", "root", "slashdot", "mode", "find"}

(* The state is well formed; a volume that was accepted has a primary      *)
(* root, as the unwrapping of its parts in the accessors requires.         *)
TypeOK ==
  /\ DeviceTypeOK
  /\ lba \in Nat
  /\ {primary, sup_root} \subseteq DOMAIN Children \cup {None}
  /\ pc \in {"scan", "failed"} \cup Opened
  /\ pc \in Opened => primary # None
  /\ reply.res \in {"some", "none", "err", "panic"}

(* The descriptors of the volume, up to its terminator. *)
DescriptorAt(l) == Descriptors[Image[SeekPos(l)]]
KindAt(l) == KindIn(Image[SeekPos(l)])
InImage(l) == SeekPos(l) + BLOCK_SIZE <= ImageLen
Ends(l) == InImage(l) /\ KindAt(l) = "terminator"
Legal(l) ==
  /\ InImage(l) /\ KindAt(l) # None
  /\ KindAt(l) \in {"primary", "supplementary"} => DescriptorAt(l).size.le = BLOCK_SIZE
RootOf(kind, end) ==
  LET ks == {k \in first .. end - 1 : KindAt(k) = kind}
  IN  IF ks = {} THEN None
      ELSE DescriptorAt(CHOOSE k \in ks : \A j \in ks : j <= k).root
Passed(end) == \A l \in first .. end - 1 : Legal(l) /\ ~Ends(l)
Complete(end) == Ends(end) /\ Passed(end) /\ RootOf("primary", end) # None

(* The scan accepts a volume exactly when a terminator ends a series of    *)
(* legal descriptors with a primary one among them; the roots it keeps are *)
(* those of the last descriptor of each kind.  Without an I/O error it     *)
(* refuses no such volume (ISO9660::new).                                  *)
ScanIsRight ==
  LET ends == {l \in first .. first + ImageLen : Complete(l)}
  IN  /\ pc \in Opened =>
           \E end \in ends : /\ primary = RootOf("primary", end)
                             /\ sup_root = RootOf("supplementary", end)
      /\ pc = "failed" /\ faults = 0 => ends = {}

(* The first n segments of a path lead from a root along the entries of c; *)
(* an empty segment leads nowhere else.                                    *)
Leads(root, path, c, n) ==
  /\ c[0] = root
  /\ \A k \in 1 .. n :
       IF path[k] = Blank THEN c[k] = c[k - 1]
       ELSE /\ c[k - 1] \in DOMAIN Children
            /\ path[k] \in DOMAIN Children[c[k - 1]]
            /\ c[k] = Children[c[k - 1]][path[k]]

(* The entry a path leads to in a hierarchy: only directories lead on. *)
Objects ==
  DOMAIN Children \cup
    UNION {{Children[d][name] : name \in DOMAIN Children[d]} : d \in DOMAIN Children}
Resolve(root, path) ==
  {e \in Objects : \E c \in [0 .. Len(path) -> DOMAIN Children \cup {e}] :
                    c[Len(path)] = e /\ Leads(root, path, c, Len(path))}

(* open answers for the hierarchy it selected: the entry the path leads to *)
(* there, or None only if it leads nowhere there; an error while a segment *)
(* is looked for is never taken for a missing entry (find_recursive).      *)
OpenIsRightInRoot ==
  reply.op = "open" =>
    /\ reply.res = "some" => reply.entry \in Resolve(reply.root, reply.path)
    /\ reply.res = "none" => Resolve(reply.root, reply.path) = {}

(* Every scan and every call ends. *)
CallsReturn == pc \notin {"idle", "failed"} ~> pc \in {"idle", "failed"}

(* However the probes of a mount come out, the daemon numbers nodes by     *)
(* serial number only if the primary hierarchy has Rock Ridge and the      *)
(* mounted one has numbers; that is the primary one unless the             *)
(* supplementary one has numbers, too.  When no read fails and the roots   *)
(* are in the image, root() is the most featureful hierarchy and the mount *)
(* uses its numbers if it has them (ISO9660::root, ISOFuse::new).          *)
MountIsRight ==
  LET best == Selected(primary \in RockRidge)
  IN  reply.op \in {"root", "mount"} =>
        /\ reply.serial => /\ primary \in RockRidge /\ reply.root \in Serial
                           /\ sup_root \notin Serial => reply.root = primary
        /\ faults = 0 /\ InImage(DirLba[primary]) /\ InImage(DirLba[best]) =>
             /\ reply.entry = best
             /\ reply.op = "mount" => reply.serial = (primary \in RockRidge /\ best \in Serial)

(* open answers for the most featureful hierarchy, the primary one if it   *)
(* has Rock Ridge, and reports an I/O error as an error.                   *)
OpenIsRight ==
  reply.op = "open" =>
    LET best == Selected(primary \in RockRidge)
    IN  /\ reply.res = "some" => reply.entry \in Resolve(best, reply.path)
        /\ reply.res = "none" => Resolve(best, reply.path) = {}

=============================================================================
