---------------------------- MODULE VolumeProofs ----------------------------
(***************************************************************************)
(* Proofs about Volume, for every image, set of descriptors, tree of       *)
(* directories and path, and every sequence of calls and faults: TypeOK,   *)
(* ScanIsRight, MountIsRight and OpenIsRightInRoot.                        *)
(***************************************************************************)
EXTENDS Volume, IsoDeviceProofs, NatLemmas

-----------------------------------------------------------------------------
(* The inductive invariant *)

Roots == DOMAIN Children \cup {None}
CallRecord ==
  [op : {None, "root", "open", "mount"}, path : Seq(STRING), i : Nat, root : Roots,
   entry : Objects \cup {None}]
ReplyRecord ==
  [op : {None, "root", "open", "mount", "root_at"}, path : Seq(STRING), root : Roots,
   res : {"some", "none", "err", "panic"},
   entry : Objects \cup {None}, serial : BOOLEAN]

(* The rest of what the variables range over; a call that has a root has   *)
(* one of the volume's.                                                    *)
TypeInv ==
  /\ TypeOK
  /\ first \in Nat /\ first <= lba
  /\ call \in CallRecord /\ reply \in ReplyRecord
  /\ pc = "root" => call.op # None
  /\ pc \in {"slashdot", "mode"} => call.op = "mount"
  /\ pc = "find" => call.op = "open" /\ call.entry \in Objects
  /\ pc \in {"slashdot", "mode", "find"} => call.root \in {primary, sup_root} \ {None}

(* The descriptors before the one the scan is at were legal and did not    *)
(* end the volume, and the roots are the last they gave; an accepted       *)
(* volume ends where the scan stopped.                                     *)
ScanInv ==
  /\ pc # "failed" => /\ Passed(lba)
                      /\ primary = RootOf("primary", lba)
                      /\ sup_root = RootOf("supplementary", lba)
  /\ pc \in Opened => Ends(lba)
  /\ pc = "failed" /\ faults = 0 => \A end \in Nat : first <= end => ~Complete(end)

(* The root a mount goes on with is the right one if nothing has failed. *)
Best == Selected(primary \in RockRidge)
MountInv ==
  /\ MountIsRight
  /\ pc = "scan" => reply.op = None
  /\ pc \in {"slashdot", "mode"} /\ faults = 0 /\ InImage(DirLba[primary]) =>
       call.root = Best

(* The first n segments of a path lead from a root to the entry e, through *)
(* directories only.                                                       *)
WayTo(root, path, n, e) ==
  \E c \in [0 .. n -> DOMAIN Children \cup {e}] : c[n] = e /\ Leads(root, path, c, n)

(* The segments that open has passed lead from the root to the entry it    *)
(* has found, and no other way along the path comes by another entry.      *)
OpenInv ==
  /\ OpenIsRightInRoot
  /\ pc = "find" =>
       LET n == call.i - 1
           last == Len(call.path)
       IN  /\ n \in 0 .. last
           /\ WayTo(call.root, call.path, n, call.entry)
           /\ \A e \in Objects : \A c \in [0 .. last -> DOMAIN Children \cup {e}] :
                Leads(call.root, call.path, c, last) => c[n] = call.entry

-----------------------------------------------------------------------------
(* Reads, descriptors and the records of calls *)

(* A read that succeeds is of a block of the image, and one that fails     *)
(* without a fault is not.                                                 *)
LEMMA ReadOutcome ==
  ASSUME DeviceTypeOK, NEW l \in Nat
  PROVE  /\ ReadAtOk(l, BLOCK_SIZE) =>
              DeviceTypeOK' /\ InImage(l) /\ (faults' = 0 => faults = 0)
         /\ ReadFails(l) =>
              DeviceTypeOK' /\ (faults' = 0 => faults = 0 /\ ~InImage(l))
<1>1. BLOCK_SIZE \in Nat \ {0} /\ NewBlockBuffer \in BlockBuffer /\ faults \in Nat
  BY DeviceAssumption DEF NewBlockBuffer, BlockBuffer, DeviceTypeOK
<1>2. ASSUME NEW n \in 0 .. BLOCK_SIZE, ReadAtOk(l, n)
      PROVE  /\ DeviceTypeOK' /\ (faults' = 0 => faults = 0)
             /\ n = BLOCK_SIZE => InImage(l)
             /\ n # BLOCK_SIZE /\ faults' = 0 => ~InImage(l)
  <2>1. DeviceTypeOK'
    BY <1>1, <1>2, ReadAtOkType
  <2>2. faults' = faults \/ faults' = faults + 1
    BY <1>2 DEF ReadAtOk, ReadOk
  <2>3. faults' = 0 => faults' = faults
    BY <1>1, <2>2
  <2> QED
    BY <1>1, <1>2, <2>1, <2>3, WholeBlock DEF InImage
<1>3. ASSUME ReadAtErr(l)
      PROVE  DeviceTypeOK' /\ faults' # 0
  BY <1>1, <1>3, ReadAtErrType DEF ReadAtErr
<1>4. BLOCK_SIZE \in 0 .. BLOCK_SIZE /\ \A n \in 0 .. BLOCK_SIZE - 1 : n \in 0 .. BLOCK_SIZE /\ n # BLOCK_SIZE
  BY <1>1
<1> QED
  BY <1>2, <1>3, <1>4 DEF ReadFails

(* The scan looks at the first byte of the block it has asked for. *)
LEMMA ScansTheBlock ==
  ASSUME NEW l \in Nat, ReadAtOk(l, BLOCK_SIZE)
  PROVE  LET cell == ReadInto(NewBlockBuffer, BLOCK_SIZE)[0]
         IN  KindIn(cell) = KindAt(l) /\ Descriptors[cell] = DescriptorAt(l)
<1>1. BLOCK_SIZE \in Nat \ {0} /\ BLOCK_SIZE \in 0 .. BLOCK_SIZE
  BY DeviceAssumption
<1>2. SeekPos(l) \in Nat
  BY <1>1, WholeBlock
<1>3. ReadInto(NewBlockBuffer, BLOCK_SIZE) = Fill(NewBlockBuffer, SeekPos(l), BLOCK_SIZE)
  BY <1>1, ReadIntoIs
<1>4. ReadInto(NewBlockBuffer, BLOCK_SIZE)[0] = Image[SeekPos(l) + 0]
  BY <1>1, <1>3 DEF Fill
<1>5. SeekPos(l) + 0 = SeekPos(l)
  BY <1>2
<1> QED
  BY <1>4, <1>5 DEF KindAt, DescriptorAt

(* A descriptor of a hierarchy gives its root. *)
LEMMA KindRoot ==
  ASSUME NEW l \in Nat, KindAt(l) \in {"primary", "supplementary"}
  PROVE  DescriptorAt(l).root \in DOMAIN Children
<1> DEFINE d == DescriptorAt(l)
<1>1. Image[SeekPos(l)] \in DOMAIN Descriptors /\ KindOf(d) \in {"primary", "supplementary"}
  BY DEF KindAt, KindIn, DescriptorAt, None
<1>2. d.root \in DOMAIN Children \cup {"none"}
  BY <1>1, VolumeAssumption DEF DescriptorAt
<1> HIDE DEF d
<1>3. DescriptorTable(d)
  BY <1>1 DEF KindOf, None
<1> QED
  BY <1>2, <1>3 DEF DescriptorTable, None, d

(* The parts of a call that has a root. *)
LEMMA CallSelects ==
  ASSUME NEW b \in CallRecord, NEW r \in DOMAIN Children
  PROVE  LET c == [b EXCEPT !.root = r, !.entry = r, !.i = 1]
         IN  /\ c \in CallRecord /\ c.op = b.op /\ c.path = b.path
             /\ c.root = r /\ c.entry = r /\ c.i = 1
<1>1. r \in Objects \cup {None} /\ r \in Roots /\ 1 \in Nat
  BY DEF Objects, Roots
<1> QED
  BY <1>1, Zenon DEF CallRecord

(* A call that returns leaves its answer. *)
LEMMA Returned ==
  ASSUME TypeInv, NEW res \in {"some", "none", "err", "panic"},
         NEW e \in Objects \cup {None}, NEW serial \in BOOLEAN, Return(res, e, serial)
  PROVE  /\ reply' \in ReplyRecord /\ reply'.op = call.op /\ reply'.path = call.path
         /\ reply'.root = call.root /\ reply'.res = res /\ reply'.entry = e
         /\ reply'.serial = serial
         /\ pc' = "idle" /\ call' = NoCall /\ call' \in CallRecord
         /\ UNCHANGED <<first, lba, primary, sup_root>>
<1>1. call \in CallRecord
  BY DEF TypeInv
<1>2. /\ call.op \in {None, "root", "open", "mount"} /\ call.path \in Seq(STRING) /\ call.root \in Roots
  BY <1>1 DEF CallRecord
<1>3. reply' = [op |-> call.op, path |-> call.path, root |-> call.root, res |-> res,
                entry |-> e, serial |-> serial]
  BY DEF Return, Reply
<1>4. NoCall \in CallRecord
  BY DEF NoCall, NewCall, CallRecord, Roots
<1> QED
  BY <1>2, <1>3, <1>4 DEF Return, ReplyRecord

(* What root_at answers. *)
LEMMA RootAtReply ==
  ASSUME NEW r \in Roots, NEW res \in {"some", "none"}, NEW x,
         x = [NoReply EXCEPT !.op = "root_at", !.entry = r, !.res = res]
  PROVE  x \in ReplyRecord /\ x.op = "root_at"
<1>1. NoReply \in ReplyRecord
  BY DEF NoReply, ReplyRecord, Roots, None
<1>2. r \in Objects \cup {None} /\ "root_at" \in {None, "root", "open", "mount", "root_at"}
  BY DEF Objects, Roots
<1> QED
  BY <1>1, <1>2, Zenon DEF ReplyRecord

(* The next segment of a path: those before it are empty. *)
LEMMA NextSegment ==
  ASSUME TypeInv, Rest # {}
  PROVE  /\ Segment \in Nat /\ Segment \in call.i .. Len(call.path)
         /\ call.path[Segment] # Blank
         /\ \A k \in call.i .. Segment - 1 : call.path[k] = Blank
<1> DEFINE i == call.i
           n == Len(call.path)
<1>0. Rest = {k \in i .. n : call.path[k] # Blank}
  BY DEF Rest
<1>1. i \in Nat /\ n \in Nat
  <2>1. call.i \in Nat /\ call.path \in Seq(STRING)
    BY DEF TypeInv, CallRecord
  <2> QED
    BY <2>1
<1> HIDE DEF i, n
<1>2. Rest \subseteq Nat
  BY <1>0, <1>1
<1>3. \E k \in Rest : \A j \in Rest : k <= j
  BY <1>2, Least
<1>4. Segment \in Rest /\ \A j \in Rest : Segment <= j
  BY <1>3 DEF Segment
<1>5. Segment \in Nat /\ Segment \in i .. n /\ call.path[Segment] # Blank
  BY <1>0, <1>2, <1>4
<1>6. ASSUME NEW k \in i .. Segment - 1, call.path[k] # Blank
      PROVE  FALSE
  <2>1. k \in Rest
    BY <1>0, <1>1, <1>5, <1>6
  <2> QED
    BY <1>1, <1>4, <1>5, <2>1
<1> QED
  BY <1>5, <1>6 DEF i, n

-----------------------------------------------------------------------------
(* Type correctness *)

LEMMA InitTypeInv == Init => TypeInv
<1> SUFFICES ASSUME Init
             PROVE  TypeInv
  OBVIOUS
<1>1. TypeOK
  BY VolumeAssumption, DeviceAssumption
     DEF Init, DeviceInit, TypeOK, DeviceTypeOK, Opened, NoReply, None
<1>2. NoCall \in CallRecord /\ NoReply \in ReplyRecord
  BY DEF NoCall, NewCall, CallRecord, NoReply, ReplyRecord, Roots, None
<1> QED
  BY <1>1, <1>2, VolumeAssumption DEF Init, TypeInv

(* One round of the scan, told by the descriptor at lba. *)
LEMMA ScanRound ==
  ASSUME lba \in Nat, ScanBlock
  PROVE  LET kind == KindAt(lba)
             d == DescriptorAt(lba)
         IN  \/ /\ lba' = NextLba /\ pc' = pc
                /\ \/ /\ kind = "primary" /\ RightSize(d)
                      /\ primary' = d.root /\ UNCHANGED sup_root
                   \/ /\ kind = "supplementary" /\ RightSize(d)
                      /\ sup_root' = d.root /\ UNCHANGED primary
                   \/ kind \in {"boot", "other"} /\ UNCHANGED <<primary, sup_root>>
             \/ /\ kind = "terminator" /\ HasPrimary
                /\ pc' = "idle" /\ UNCHANGED <<primary, sup_root, lba>>
             \/ /\ pc' = "failed" /\ UNCHANGED <<primary, sup_root, lba>>
                /\ \/ kind = "terminator" /\ ~HasPrimary
                   \/ kind = None
                   \/ kind \in {"primary", "supplementary"} /\ ~RightSize(d)
<1> DEFINE cell == ReadInto(NewBlockBuffer, BLOCK_SIZE)[0]
<1>1. ReadAtOk(lba, BLOCK_SIZE)
  BY DEF ScanBlock
<1>2. KindIn(cell) = KindAt(lba) /\ Descriptors[cell] = DescriptorAt(lba)
  BY <1>1, ScansTheBlock
<1> HIDE DEF cell
<1> QED
  BY <1>2 DEF ScanBlock, cell

LEMMA ScanType ==
  ASSUME TypeInv, ScanBlock \/ ScanFails
  PROVE  TypeInv'
<1>1. lba \in Nat /\ first \in Nat /\ first <= lba /\ DeviceTypeOK /\ pc = "scan"
  BY DEF TypeInv, TypeOK, ScanBlock, ScanFails
<1>2. DeviceTypeOK'
  BY <1>1, ReadOutcome DEF ScanBlock, ScanFails
<1>3. /\ primary' \in Roots /\ sup_root' \in Roots
      /\ lba' \in {lba, lba + 1}
      /\ pc' \in {"scan", "failed", "idle"} /\ (pc' = "idle" => primary' # None)
  <2>1. CASE ScanBlock
    <3> DEFINE kind == KindAt(lba)
               d == DescriptorAt(lba)
    <3>1. kind \in {"primary", "supplementary"} => d.root \in Roots
      BY <1>1, KindRoot DEF Roots
    <3>2. primary \in Roots /\ sup_root \in Roots
      BY DEF TypeInv, TypeOK, Roots
    <3>3. \/ /\ lba' = NextLba /\ pc' = pc
             /\ \/ /\ kind = "primary" /\ primary' = d.root /\ UNCHANGED sup_root
                \/ /\ kind = "supplementary" /\ sup_root' = d.root /\ UNCHANGED primary
                \/ UNCHANGED <<primary, sup_root>>
          \/ HasPrimary /\ pc' = "idle" /\ UNCHANGED <<primary, sup_root, lba>>
          \/ pc' = "failed" /\ UNCHANGED <<primary, sup_root, lba>>
      BY <1>1, <2>1, ScanRound
    <3> HIDE DEF kind, d
    <3>4. primary' \in Roots /\ sup_root' \in Roots
      BY <3>1, <3>2, <3>3
    <3>5. lba' \in {lba, lba + 1} /\ pc' \in {"scan", "failed", "idle"}
      BY <1>1, <3>3 DEF NextLba
    <3>6. pc' = "idle" => primary' # None
      BY <1>1, <3>3 DEF HasPrimary
    <3> QED
      BY <3>4, <3>5, <3>6
  <2>2. CASE ScanFails
    BY <1>1, <2>2 DEF ScanFails, TypeInv, TypeOK, Roots
  <2> QED
    BY <2>1, <2>2
<1>4. UNCHANGED <<first, call, reply>>
  BY DEF ScanBlock, ScanFails
<1>5. TypeOK'
  BY <1>1, <1>2, <1>3, <1>4 DEF TypeInv, TypeOK, Opened, Roots
<1> QED
  BY <1>1, <1>3, <1>4, <1>5 DEF TypeInv

LEMMA ReturnType ==
  ASSUME TypeInv, pc \in Opened, DeviceTypeOK',
         NEW res \in {"some", "none", "err", "panic"},
         NEW e \in Objects \cup {None}, NEW serial \in BOOLEAN, Return(res, e, serial)
  PROVE  TypeInv'
<1>1. /\ reply' \in ReplyRecord /\ reply'.res = res
      /\ pc' = "idle" /\ call' \in CallRecord
      /\ UNCHANGED <<first, lba, primary, sup_root>>
  BY Returned
<1>2. TypeOK'
  BY <1>1 DEF TypeInv, TypeOK, Opened
<1> QED
  BY <1>1, <1>2 DEF TypeInv

(* The root a call goes on with. *)
LEMMA SelectedRoot ==
  ASSUME TypeInv, pc \in Opened, NEW is_rr \in BOOLEAN
  PROVE  /\ primary \in DOMAIN Children /\ DirLba[primary] \in Nat
         /\ Selected(is_rr) \in DOMAIN Children
         /\ Selected(is_rr) \in {primary, sup_root} \ {None}
         /\ Selected(is_rr) \in Objects
BY VolumeAssumption DEF TypeInv, TypeOK, Selected, Objects, None

LEMMA SelectRootType ==
  ASSUME TypeInv, NEW is_rr \in BOOLEAN, SelectRoot(is_rr)
  PROVE  TypeInv'
<1> DEFINE r == Selected(is_rr)
<1>1. pc = "root" /\ pc \in Opened /\ call \in CallRecord
  BY DEF SelectRoot, Opened, TypeInv
<1>2. /\ r \in DOMAIN Children /\ r \in {primary, sup_root} \ {None} /\ r \in Objects
      /\ DirLba[primary] \in Nat
  BY <1>1, SelectedRoot
<1>3. DeviceTypeOK'
  BY <1>2, ReadOutcome DEF SelectRoot, IsRR, TypeInv, TypeOK
<1> HIDE DEF r
<1>4. CASE Return("some", r, FALSE)
  BY <1>1, <1>2, <1>3, <1>4, ReturnType
<1>5. CASE /\ call.op # "root"
           /\ pc' = IF call.op = "open" THEN "find" ELSE "slashdot"
           /\ call' = [call EXCEPT !.root = r, !.entry = r, !.i = 1]
           /\ UNCHANGED <<first, lba, primary, sup_root, reply>>
  <2>1. /\ call' \in CallRecord /\ call'.op = call.op
        /\ call'.root = r /\ call'.entry = r
    <3>1. call' = [call EXCEPT !.root = r, !.entry = r, !.i = 1]
      BY <1>5
    <3> QED
      BY <1>1, <1>2, <3>1, CallSelects, Zenon
  <2>2. call.op \in {"open", "mount"}
    BY <1>1, <1>5 DEF TypeInv, CallRecord
  <2>3. pc' \in {"find", "slashdot"} /\ (pc' = "find" <=> call.op = "open")
    BY <1>5
  <2>4. TypeOK'
    BY <1>1, <1>3, <1>5, <2>3 DEF TypeInv, TypeOK, Opened
  <2> QED
    BY <1>2, <1>5, <2>1, <2>2, <2>3, <2>4 DEF TypeInv
<1> QED
  BY <1>4, <1>5 DEF SelectRoot, r

LEMMA MountType ==
  ASSUME TypeInv, Slashdot \/ \E is_rr \in BOOLEAN : InodeAutogenerated(is_rr)
  PROVE  TypeInv'
<1>1. /\ pc \in {"slashdot", "mode"} /\ pc \in Opened /\ primary # None
      /\ call.root \in DOMAIN Children
      /\ DirLba[call.root] \in Nat /\ DirLba[primary] \in Nat
  BY VolumeAssumption
     DEF Slashdot, InodeAutogenerated, Opened, TypeInv, TypeOK, None
<1>2. call.root \in Objects
  BY <1>1 DEF Objects
<1>3. DeviceTypeOK'
  BY <1>1, ReadOutcome DEF Slashdot, InodeAutogenerated, IsRR, TypeInv, TypeOK
<1>4. ASSUME NEW is_rr \in BOOLEAN, InodeAutogenerated(is_rr)
      PROVE  TypeInv'
  BY <1>1, <1>2, <1>3, <1>4, ReturnType DEF InodeAutogenerated, BySerial
<1>5. CASE Slashdot /\ Return("panic", None, FALSE)
  BY <1>1, <1>3, <1>5, ReturnType
<1>6. CASE /\ pc = "slashdot" /\ pc' = "mode"
           /\ UNCHANGED <<first, lba, primary, sup_root, call, reply>>
  BY <1>1, <1>3, <1>6 DEF TypeInv, TypeOK, Opened
<1> QED
  BY <1>4, <1>5, <1>6 DEF Slashdot

(* What a name stands for in a directory is an object of the image. *)
LEMMA ChildIsObject ==
  ASSUME NEW d \in DOMAIN Children, NEW name \in DOMAIN Children[d]
  PROVE  Children[d][name] \in Objects
BY DEF Objects

(* The parts of an open that has found a segment. *)
LEMMA CallGoesOn ==
  ASSUME TypeInv, call.entry \in DOMAIN Children, Rest # {},
         call.path[Segment] \in DOMAIN Children[call.entry],
         call' = [call EXCEPT !.entry = Children[call.entry][call.path[Segment]],
                              !.i = Segment + 1]
  PROVE  /\ call' \in CallRecord /\ call'.op = call.op /\ call'.path = call.path
         /\ call'.root = call.root /\ call'.i = Segment + 1
         /\ call'.entry = Children[call.entry][call.path[Segment]]
         /\ call'.entry \in Objects
<1> DEFINE e == Children[call.entry][call.path[Segment]]
           i == Segment + 1
           m == [call EXCEPT !.entry = e, !.i = i]
<1>1. e \in Objects
  BY ChildIsObject
<1>2. i \in Nat
  <2>1. Segment \in Nat
    BY NextSegment
  <2> QED
    BY <2>1
<1>3. call' = m
  OBVIOUS
<1> HIDE DEF e, i
<1>4. /\ m \in CallRecord /\ m.op = call.op /\ m.path = call.path
      /\ m.root = call.root /\ m.i = i /\ m.entry = e
  <2>1. e \in Objects \cup {None} /\ call \in CallRecord
    BY <1>1 DEF TypeInv
  <2> QED
    BY <1>2, <2>1, Zenon DEF CallRecord
<1> HIDE DEF m
<1> QED
  BY <1>1, <1>3, <1>4 DEF e, i

LEMMA OpenType ==
  ASSUME TypeInv, OpenReturns \/ OpenNotDir \/ OpenFinds \/ OpenFails
  PROVE  TypeInv'
<1>1. pc = "find" /\ pc \in Opened /\ call.entry \in Objects /\ call \in CallRecord
  BY DEF OpenReturns, OpenNotDir, OpenFinds, OpenFails, OpenFailsWith, Opened, TypeInv
<1>2. DeviceTypeOK'
  <2>1. UNCHANGED <<cursor, faults>> => DeviceTypeOK'
    BY DEF TypeInv, TypeOK, DeviceTypeOK
  <2>2. call.entry \in DOMAIN Children => DirLba[call.entry] \in Nat
    BY VolumeAssumption
  <2> QED
    BY <2>1, <2>2, ReadOutcome
       DEF OpenReturns, OpenNotDir, OpenFinds, OpenFails, OpenFailsWith, TypeInv, TypeOK
<1>3. ASSUME NEW res \in {"some", "none", "err", "panic"},
             NEW e \in Objects \cup {None}, Return(res, e, FALSE)
      PROVE  TypeInv'
  BY <1>1, <1>2, <1>3, ReturnType
<1>4. ASSUME call.entry \in DOMAIN Children, Rest # {},
             call.path[Segment] \in DOMAIN Children[call.entry],
             call' = [call EXCEPT !.entry = Children[call.entry][call.path[Segment]],
                                  !.i = Segment + 1],
             UNCHANGED <<first, lba, primary, sup_root, pc, reply>>
      PROVE  TypeInv'
  <2>1. /\ call' \in CallRecord /\ call'.op = call.op /\ call'.entry \in Objects
        /\ call'.root = call.root
    BY <1>4, CallGoesOn, Zenon
  <2> QED
    BY <1>1, <1>2, <1>4, <2>1 DEF TypeInv, TypeOK
<1> QED
  BY <1>1, <1>3, <1>4, Zenon
     DEF OpenReturns, OpenNotDir, OpenFinds, OpenFails, OpenFailsWith

LEMMA RootAtAnswers ==
  ASSUME TypeInv, NEW index \in {0, 1}, RootAt(index)
  PROVE  /\ reply' \in ReplyRecord /\ reply'.op = "root_at" /\ pc' = "idle"
         /\ UNCHANGED <<cursor, faults, first, lba, primary, sup_root, pc, call>>
<1> DEFINE r == IF index = 0 THEN primary ELSE sup_root
           res == IF r = None THEN "none" ELSE "some"
<1>1. r \in Roots /\ res \in {"some", "none"}
  BY DEF TypeInv, TypeOK, Roots
<1>2. /\ reply' = [NoReply EXCEPT !.op = "root_at", !.entry = r, !.res = res]
      /\ UNCHANGED <<cursor, faults, first, lba, primary, sup_root, pc, call>>
      /\ pc' = "idle"
  BY Zenon DEF RootAt
<1> HIDE DEF r, res
<1> QED
  BY <1>1, <1>2, RootAtReply

LEMMA CallType ==
  ASSUME TypeInv,
         \/ RootCall \/ MountCall \/ \E path \in Paths : OpenCall(path)
         \/ \E index \in {0, 1} : RootAt(index)
  PROVE  TypeInv'
<1>1. ASSUME NEW op \in {"root", "open", "mount"}, NEW path \in Seq(STRING), Begin(op, path)
      PROVE  TypeInv'
  <2>1. call' \in CallRecord /\ call'.op = op
    BY <1>1 DEF Begin, NewCall, CallRecord, Roots
  <2>2. NoReply \in ReplyRecord /\ NoReply.res = "none"
    BY DEF NoReply, ReplyRecord, Roots, None
  <2>3. /\ pc = "idle" /\ pc' = "root" /\ reply' = NoReply
        /\ UNCHANGED <<cursor, faults, first, lba, primary, sup_root>>
    BY <1>1 DEF Begin
  <2>4. TypeOK'
    BY <2>2, <2>3 DEF TypeInv, TypeOK, DeviceTypeOK, Opened
  <2> QED
    BY <2>1, <2>2, <2>3, <2>4 DEF TypeInv, None
<1>2. ASSUME NEW index \in {0, 1}, RootAt(index)
      PROVE  TypeInv'
  <2>1. /\ reply' \in ReplyRecord
        /\ UNCHANGED <<cursor, faults, first, lba, primary, sup_root, pc, call>>
    BY <1>2, RootAtAnswers
  <2>2. reply'.res \in {"some", "none", "err", "panic"}
    BY <2>1 DEF ReplyRecord
  <2>3. TypeOK'
    BY <2>1, <2>2 DEF TypeInv, TypeOK, DeviceTypeOK
  <2> QED
    BY <2>1, <2>3 DEF TypeInv
<1>3. <<>> \in Seq(STRING) /\ \A path \in Paths : path \in Seq(STRING)
  BY VolumeAssumption
<1> QED
  BY <1>1, <1>2, <1>3 DEF RootCall, MountCall, OpenCall

LEMMA NextTypeInv == TypeInv /\ [Next]_vars => TypeInv'
<1> SUFFICES ASSUME TypeInv, [Next]_vars
             PROVE  TypeInv'
  OBVIOUS
<1>1. CASE UNCHANGED vars
  <2>1. TypeOK'
    BY <1>1 DEF vars, TypeInv, TypeOK, DeviceTypeOK
  <2> QED
    BY <1>1, <2>1 DEF vars, TypeInv
<1> QED
  BY <1>1, ScanType, SelectRootType, MountType, OpenType, CallType DEF Next, Step

(* A volume that was accepted has a primary root, so that the accessors    *)
(* never meet the case they call unreachable, and calls answer with one of *)
(* the results their types have.                                           *)
THEOREM TypeCorrect == Spec => []TypeOK
<1>1. Spec => []TypeInv
  BY InitTypeInv, NextTypeInv, PTL DEF Spec
<1>2. TypeInv => TypeOK
  BY DEF TypeInv
<1> QED
  BY <1>1, <1>2, PTL

-----------------------------------------------------------------------------
(* The scan of the descriptors *)

(* The last descriptor of a kind, after one more. *)
LEMMA RootOfNext ==
  ASSUME first \in Nat, NEW l \in Nat, first <= l, NEW kind
  PROVE  RootOf(kind, l + 1) = IF KindAt(l) = kind THEN DescriptorAt(l).root ELSE RootOf(kind, l)
<1> DEFINE ks(end) == {k \in first .. end - 1 : KindAt(k) = kind}
           last(end) == CHOOSE k \in ks(end) : \A j \in ks(end) : j <= k
<1>1. CASE KindAt(l) = kind
  <2>1. l \in ks(l + 1) /\ \A j \in ks(l + 1) : j <= l /\ j \in Nat
    BY <1>1
  <2>2. last(l + 1) = l
    <3>1. \A k \in ks(l + 1) : (\A j \in ks(l + 1) : j <= k) => k = l
      BY <2>1
    <3>2. last(l + 1) \in ks(l + 1) /\ \A j \in ks(l + 1) : j <= last(l + 1)
      <4> HIDE DEF ks
      <4> QED
        BY <2>1
    <3> HIDE DEF last, ks
    <3> QED
      BY <3>1, <3>2
  <2>3. RootOf(kind, l + 1) = IF ks(l + 1) = {} THEN None ELSE DescriptorAt(last(l + 1)).root
    BY DEF RootOf
  <2> HIDE DEF ks, last
  <2> QED
    BY <1>1, <2>1, <2>2, <2>3
<1>2. CASE KindAt(l) # kind
  <2>1. ks(l + 1) = ks(l)
    <3>1. \A k \in first .. (l + 1) - 1 : k = l \/ k \in first .. l - 1
      OBVIOUS
    <3>2. \A k \in first .. l - 1 : k \in first .. (l + 1) - 1
      OBVIOUS
    <3> QED
      BY <1>2, <3>1, <3>2
  <2>2. \A end : RootOf(kind, end) = IF ks(end) = {} THEN None ELSE DescriptorAt(last(end)).root
    BY DEF RootOf
  <2> HIDE DEF ks
  <2>3. last(l + 1) = last(l)
    BY <2>1
  <2> HIDE DEF last
  <2> QED
    BY <1>2, <2>1, <2>2, <2>3
<1> QED
  BY <1>1, <1>2

(* A descriptor that does not end the volume and is legal is passed. *)
LEMMA PassedNext ==
  ASSUME first \in Nat, NEW l \in Nat, first <= l, Passed(l), Legal(l), ~Ends(l)
  PROVE  Passed(l + 1)
<1>1. \A k \in first .. (l + 1) - 1 : k = l \/ k \in first .. l - 1
  OBVIOUS
<1> QED
  BY <1>1 DEF Passed

(* Where the scan stops in vain no volume ends, there or elsewhere. *)
LEMMA NoneComplete ==
  ASSUME first \in Nat, NEW l \in Nat, first <= l, Passed(l), ~Complete(l),
         Ends(l) \/ ~Legal(l)
  PROVE  \A end \in Nat : first <= end => ~Complete(end)
<1> SUFFICES ASSUME NEW end \in Nat, first <= end, Complete(end)
             PROVE  FALSE
  OBVIOUS
<1>1. CASE end < l
  BY <1>1 DEF Passed, Complete
<1>2. CASE l < end
  BY <1>2 DEF Passed, Complete
<1> QED
  BY <1>1, <1>2

LEMMA InitScan == Init => ScanInv
<1> SUFFICES ASSUME Init
             PROVE  ScanInv
  OBVIOUS
<1>1. /\ pc = "scan" /\ lba = first /\ first \in Nat
      /\ primary = None /\ sup_root = None
  BY VolumeAssumption DEF Init
<1>2. first .. lba - 1 = {}
  BY <1>1
<1>3. Passed(lba)
  BY <1>2 DEF Passed
<1>4. \A kind : RootOf(kind, lba) = None
  BY <1>2 DEF RootOf
<1> QED
  BY <1>1, <1>3, <1>4 DEF ScanInv, Opened

LEMMA ScanBlockScan ==
  ASSUME TypeInv, ScanInv, ScanBlock
  PROVE  ScanInv'
<1> DEFINE kind == KindAt(lba)
           d == DescriptorAt(lba)
<1>1. lba \in Nat /\ first \in Nat /\ first <= lba /\ first' = first /\ pc = "scan"
  BY DEF TypeInv, TypeOK, ScanBlock
<1>2. InImage(lba)
  BY <1>1, ReadOutcome DEF ScanBlock, TypeInv, TypeOK
<1>3. /\ Passed(lba)
      /\ primary = RootOf("primary", lba) /\ sup_root = RootOf("supplementary", lba)
  BY <1>1 DEF ScanInv
<1>4. Ends(lba) <=> kind = "terminator"
  BY <1>2 DEF Ends
<1>5. Legal(lba) <=> /\ kind # None
                     /\ kind \in {"primary", "supplementary"} => RightSize(d)
  BY <1>2 DEF Legal, RightSize, BothEndian
<1>6. /\ RootOf("primary", lba + 1) = IF kind = "primary" THEN d.root ELSE primary
      /\ RootOf("supplementary", lba + 1) =
           IF kind = "supplementary" THEN d.root ELSE sup_root
  BY <1>1, <1>3, RootOfNext
<1> HIDE DEF kind, d
<1>8. CASE /\ lba' = lba + 1 /\ pc' = pc
           /\ \/ /\ kind = "primary" /\ RightSize(d)
                 /\ primary' = d.root /\ UNCHANGED sup_root
              \/ /\ kind = "supplementary" /\ RightSize(d)
                 /\ sup_root' = d.root /\ UNCHANGED primary
              \/ kind \in {"boot", "other"} /\ UNCHANGED <<primary, sup_root>>
  <2>1. Passed(lba + 1)
    BY <1>1, <1>3, <1>4, <1>5, <1>8, PassedNext DEF None
  <2>2. primary' = RootOf("primary", lba + 1) /\ sup_root' = RootOf("supplementary", lba + 1)
    BY <1>6, <1>8
  <2> QED
    BY <1>1, <1>8, <2>1, <2>2 DEF ScanInv, Passed, RootOf, Opened
<1>9. CASE kind = "terminator" /\ HasPrimary /\ pc' = "idle" /\ UNCHANGED <<primary, sup_root, lba>>
  BY <1>1, <1>3, <1>4, <1>9 DEF ScanInv, Passed, RootOf, Opened, Ends
<1>10. CASE /\ pc' = "failed" /\ UNCHANGED <<primary, sup_root, lba>>
            /\ \/ kind = "terminator" /\ ~HasPrimary
               \/ kind = None
               \/ kind \in {"primary", "supplementary"} /\ ~RightSize(d)
  <2>1. ~Complete(lba) /\ (Ends(lba) \/ ~Legal(lba))
    BY <1>3, <1>4, <1>5, <1>10 DEF Complete, HasPrimary, None
  <2>2. \A end \in Nat : first <= end => ~Complete(end)
    BY <1>1, <1>3, <2>1, NoneComplete
  <2> QED
    BY <1>1, <1>10, <2>2 DEF ScanInv, Complete, Passed, RootOf, Opened
<1> QED
  BY <1>1, <1>8, <1>9, <1>10, ScanRound DEF NextLba, kind, d

LEMMA ScanFailsScan ==
  ASSUME TypeInv, ScanInv, ScanFails
  PROVE  ScanInv'
<1>1. /\ lba \in Nat /\ first \in Nat /\ first <= lba /\ first' = first /\ pc = "scan"
      /\ pc' = "failed"
  BY DEF TypeInv, TypeOK, ScanFails
<1>2. faults' = 0 => ~InImage(lba)
  BY <1>1, ReadOutcome DEF ScanFails, TypeInv, TypeOK
<1>3. Passed(lba)
  BY <1>1 DEF ScanInv
<1>4. faults' = 0 => \A end \in Nat : first <= end => ~Complete(end)
  BY <1>1, <1>2, <1>3, NoneComplete DEF Complete, Ends, Legal
<1> QED
  BY <1>1, <1>4 DEF ScanInv, Complete, Passed, RootOf, Opened

(* A step that is none of the scan's is one of an accepted volume, and     *)
(* leaves what the scan has found.                                         *)
LEMMA OtherSteps ==
  ASSUME TypeInv, Next, ~ScanBlock, ~ScanFails
  PROVE  pc \in Opened /\ pc' \in Opened /\ UNCHANGED <<first, lba, primary, sup_root>>
<1>1. ASSUME NEW is_rr \in BOOLEAN, SelectRoot(is_rr) \/ InodeAutogenerated(is_rr)
      PROVE  pc \in Opened /\ pc' \in Opened /\ UNCHANGED <<first, lba, primary, sup_root>>
  BY <1>1 DEF SelectRoot, InodeAutogenerated, Return, Opened
<1>2. CASE Slashdot \/ OpenReturns \/ OpenNotDir \/ OpenFails
  BY <1>2 DEF Slashdot, OpenReturns, OpenNotDir, OpenFails, OpenFailsWith, Return, Opened
<1>3. CASE OpenFinds
  BY <1>3, Zenon DEF OpenFinds, Return, Opened
<1>4. CASE RootCall \/ MountCall \/ \E path \in Paths : OpenCall(path)
  BY <1>4 DEF RootCall, MountCall, OpenCall, Begin, Opened
<1>5. ASSUME NEW index \in {0, 1}, RootAt(index)
      PROVE  pc \in Opened /\ pc' \in Opened /\ UNCHANGED <<first, lba, primary, sup_root>>
  BY <1>5 DEF RootAt, Opened
<1> QED
  BY <1>1, <1>2, <1>3, <1>4, <1>5 DEF Next, Step

LEMMA NextScan == TypeInv /\ ScanInv /\ [Next]_vars => ScanInv'
<1> SUFFICES ASSUME TypeInv, ScanInv, [Next]_vars
             PROVE  ScanInv'
  OBVIOUS
<1>1. CASE UNCHANGED vars
  BY <1>1 DEF vars, ScanInv, Complete, Passed, RootOf
<1>2. CASE Next /\ ~ScanBlock /\ ~ScanFails
  <2>1. pc \in Opened /\ pc' \in Opened /\ UNCHANGED <<first, lba, primary, sup_root>>
    BY <1>2, OtherSteps
  <2>2. pc # "failed" /\ pc' # "failed"
    BY <2>1 DEF Opened
  <2> QED
    BY <2>1, <2>2 DEF ScanInv, Passed, RootOf
<1> QED
  BY <1>1, <1>2, ScanBlockScan, ScanFailsScan

(* A volume is accepted exactly when a terminator ends a series of legal   *)
(* descriptors with a primary one among them, and its roots are the last   *)
(* that series gives, wherever reads failed before (ISO9660::new).         *)
THEOREM ScanCorrect == Spec => []ScanIsRight
<1>1. Spec => [](TypeInv /\ ScanInv)
  <2>1. Init => TypeInv /\ ScanInv
    BY InitTypeInv, InitScan
  <2>2. TypeInv /\ ScanInv /\ [Next]_vars => (TypeInv /\ ScanInv)'
    BY NextTypeInv, NextScan
  <2> QED
    BY <2>1, <2>2, PTL DEF Spec
<1>2. TypeInv /\ ScanInv => ScanIsRight
  <2> SUFFICES ASSUME TypeInv, ScanInv
               PROVE  ScanIsRight
    OBVIOUS
  <2>1. /\ first \in Nat /\ lba \in Nat /\ first <= lba
        /\ BLOCK_SIZE \in Nat \ {0} /\ ImageLen \in Nat
    BY DeviceAssumption DEF TypeInv, TypeOK
  <2>2. ASSUME pc \in Opened
        PROVE  /\ Complete(lba) /\ lba \in first .. first + ImageLen
               /\ primary = RootOf("primary", lba)
               /\ sup_root = RootOf("supplementary", lba)
    <3>1. pc # "failed" /\ primary # None
      BY <2>2 DEF Opened, TypeInv, TypeOK
    <3>2. Complete(lba)
      BY <2>2, <3>1 DEF ScanInv, Complete
    <3>3. (lba * BLOCK_SIZE) + BLOCK_SIZE <= ImageLen
      BY <3>2 DEF Complete, Ends, InImage, SeekPos
    <3>4. \A a \in Nat, b \in Nat \ {0} : a <= a * b /\ a * b \in Nat
      OBVIOUS
    <3>5. lba <= lba * BLOCK_SIZE /\ lba * BLOCK_SIZE \in Nat
      BY <2>1, <3>4
    <3>6. lba \in first .. first + ImageLen
      BY <2>1, <3>3, <3>5
    <3> QED
      BY <3>1, <3>2, <3>6 DEF ScanInv
  <2>3. ASSUME pc = "failed", faults = 0
        PROVE  {l \in first .. first + ImageLen : Complete(l)} = {}
    <3>1. \A l \in first .. first + ImageLen : l \in Nat /\ first <= l
      BY <2>1
    <3> QED
      BY <2>3, <3>1 DEF ScanInv
  <2> QED
    BY <2>2, <2>3 DEF ScanIsRight
<1> QED
  BY <1>1, <1>2, PTL

-----------------------------------------------------------------------------
(* root() and the mount *)

(* What is_rr() answers: yes only for Rock Ridge, and the truth if no read *)
(* failed.                                                                 *)
LEMMA ProbeIsRight ==
  ASSUME TypeInv, pc \in Opened, NEW is_rr \in BOOLEAN, IsRR(is_rr)
  PROVE  /\ is_rr => primary \in RockRidge
         /\ faults' = 0 => faults = 0
         /\ faults' = 0 /\ InImage(DirLba[primary]) => is_rr = (primary \in RockRidge)
<1>1. DirLba[primary] \in Nat /\ DeviceTypeOK
  BY SelectedRoot DEF TypeInv, TypeOK
<1> QED
  BY <1>1, ReadOutcome DEF IsRR

LEMMA SelectRootMount ==
  ASSUME TypeInv, MountInv, NEW is_rr \in BOOLEAN, SelectRoot(is_rr)
  PROVE  MountInv'
<1> DEFINE r == Selected(is_rr)
<1>1. pc = "root" /\ pc \in Opened /\ call \in CallRecord /\ IsRR(is_rr)
  BY DEF SelectRoot, Opened, TypeInv
<1>2. r \in DOMAIN Children /\ r \in Objects
  BY <1>1, SelectedRoot
<1>3. UNCHANGED <<primary, sup_root>>
  BY <1>1 DEF SelectRoot, Return
<1>4. faults' = 0 => faults = 0
  BY <1>1, ProbeIsRight
<1>5. faults' = 0 /\ InImage(DirLba[primary]) => r = Best
  BY <1>1, ProbeIsRight DEF Best
<1>6. Best' = Best
  BY <1>3 DEF Best, Selected
<1> HIDE DEF r
<1>7. CASE call.op = "root" /\ Return("some", r, FALSE)
  <2>1. /\ reply'.op = "root" /\ reply'.entry = r /\ reply'.serial = FALSE /\ pc' = "idle"
    BY <1>2, <1>7, Returned
  <2> QED
    BY <1>3, <1>5, <1>6, <2>1 DEF MountInv, MountIsRight, Best
<1>8. CASE /\ call' = [call EXCEPT !.root = r, !.entry = r, !.i = 1]
           /\ UNCHANGED reply /\ pc' # "scan"
  <2>1. call'.root = r
    <3>1. call' = [call EXCEPT !.root = r, !.entry = r, !.i = 1]
      BY <1>8
    <3> QED
      BY <1>1, <1>2, <3>1, CallSelects, Zenon
  <2> QED
    BY <1>3, <1>4, <1>5, <1>6, <1>8, <2>1 DEF MountInv, MountIsRight, Best
<1> QED
  BY <1>7, <1>8 DEF SelectRoot, r

LEMMA SlashdotMount ==
  ASSUME TypeInv, MountInv, Slashdot
  PROVE  MountInv'
<1>1. /\ pc = "slashdot" /\ pc \in Opened /\ call.op = "mount"
      /\ call.root \in DOMAIN Children
      /\ DirLba[call.root] \in Nat /\ DeviceTypeOK
  BY VolumeAssumption DEF Slashdot, Opened, TypeInv, TypeOK, None
<1>2. UNCHANGED <<primary, sup_root>> /\ Best' = Best
  BY DEF Slashdot, Return, Best, Selected
<1>3. faults' = 0 /\ InImage(DirLba[primary]) => call.root = Best
  BY <1>1, ReadOutcome DEF Slashdot, MountInv
<1>4. CASE ReadFails(DirLba[call.root]) /\ Return("panic", None, FALSE)
  <2>1. reply'.op = "mount" /\ reply'.serial = FALSE /\ pc' = "idle"
    BY <1>1, <1>4, Returned
  <2>2. ~(faults' = 0 /\ InImage(DirLba[primary]) /\ InImage(DirLba[Best]))
    BY <1>1, <1>3, <1>4, ReadOutcome
  <2> QED
    BY <1>2, <2>1, <2>2 DEF MountInv, MountIsRight, Best
<1>5. CASE ReadAtOk(DirLba[call.root], BLOCK_SIZE) /\ pc' = "mode" /\ UNCHANGED <<call, reply>>
  <2>1. faults' = 0 => faults = 0
    BY <1>1, <1>5, ReadOutcome
  <2> QED
    BY <1>2, <1>3, <1>5, <2>1 DEF MountInv, MountIsRight, Best
<1> QED
  BY <1>4, <1>5 DEF Slashdot

LEMMA ModeMount ==
  ASSUME TypeInv, MountInv, NEW is_rr \in BOOLEAN, InodeAutogenerated(is_rr)
  PROVE  MountInv'
<1>1. /\ pc = "mode" /\ pc \in Opened /\ call.op = "mount" /\ IsRR(is_rr)
      /\ call.root \in {primary, sup_root} /\ call.root \in DOMAIN Children
  BY DEF InodeAutogenerated, Opened, TypeInv, TypeOK
<1>2. call.root \in Objects /\ BySerial(is_rr) \in BOOLEAN
  BY <1>1 DEF Objects, BySerial
<1>3. /\ reply'.op = "mount" /\ reply'.entry = call.root /\ reply'.root = call.root
      /\ reply'.serial = BySerial(is_rr)
      /\ pc' = "idle" /\ UNCHANGED <<primary, sup_root>>
  BY <1>1, <1>2, Returned DEF InodeAutogenerated
<1>4. /\ is_rr => primary \in RockRidge
      /\ faults' = 0 => faults = 0
      /\ faults' = 0 /\ InImage(DirLba[primary]) =>
           is_rr = (primary \in RockRidge) /\ call.root = Best
  BY <1>1, ProbeIsRight DEF MountInv
<1>5. Best' = Best
  BY <1>3 DEF Best, Selected
<1>6. reply'.serial => /\ primary \in RockRidge /\ reply'.root \in Serial
                       /\ sup_root \notin Serial => reply'.root = primary
  BY <1>1, <1>3, <1>4 DEF BySerial
<1>7. faults' = 0 /\ InImage(DirLba[primary]) =>
        /\ reply'.entry = Best
        /\ reply'.serial = (primary \in RockRidge /\ Best \in Serial)
  BY <1>3, <1>4 DEF BySerial
<1> QED
  BY <1>3, <1>5, <1>6, <1>7 DEF MountInv, MountIsRight, Best

LEMMA NextMount == TypeInv /\ MountInv /\ [Next]_vars => MountInv'
<1> SUFFICES ASSUME TypeInv, MountInv, [Next]_vars
             PROVE  MountInv'
  OBVIOUS
<1>1. CASE UNCHANGED vars
  BY <1>1 DEF vars, MountInv, MountIsRight, Best, Selected
<1>2. CASE ScanBlock \/ ScanFails
  <2>1. pc = "scan" /\ UNCHANGED reply /\ pc' \in {"scan", "failed", "idle"}
    BY <1>2 DEF ScanBlock, ScanFails
  <2>2. reply.op \notin {"root", "mount"}
    BY <2>1 DEF MountInv, None
  <2> QED
    BY <2>1, <2>2 DEF MountInv, MountIsRight
<1>3. ASSUME NEW res \in {"some", "none", "err", "panic"}, NEW e \in Objects \cup {None},
             Return(res, e, FALSE), call.op = "open"
      PROVE  MountInv'
  <2>1. reply'.op = "open" /\ pc' = "idle"
    BY <1>3, Returned
  <2> QED
    BY <2>1 DEF MountInv, MountIsRight
<1>4. CASE OpenReturns \/ OpenNotDir \/ OpenFails
  <2>1. pc = "find" /\ call.op = "open" /\ call.entry \in Objects
    BY <1>4 DEF OpenReturns, OpenNotDir, OpenFails, OpenFailsWith, TypeInv
  <2> QED
    BY <1>3, <1>4, <2>1 DEF OpenReturns, OpenNotDir, OpenFails, OpenFailsWith
<1>5. CASE OpenFinds
  <2>1. pc = "find" /\ call.op = "open" /\ DirLba[call.entry] \in Nat /\ DeviceTypeOK
    BY <1>5, VolumeAssumption DEF OpenFinds, TypeInv, TypeOK
  <2>2. faults' = 0 => faults = 0
    BY <1>5, <2>1, ReadOutcome DEF OpenFinds
  <2>3. \/ Return("none", None, FALSE)
        \/ UNCHANGED <<first, lba, primary, sup_root, pc, reply>>
    BY <1>5, Zenon DEF OpenFinds
  <2>4. CASE UNCHANGED <<first, lba, primary, sup_root, pc, reply>>
    BY <2>1, <2>2, <2>4 DEF MountInv, MountIsRight, Best, Selected
  <2> QED
    BY <1>3, <2>1, <2>3, <2>4
<1>6. CASE RootCall \/ MountCall \/ \E path \in Paths : OpenCall(path)
  <2>1. pc' = "root" /\ reply'.op = None
    BY <1>6 DEF RootCall, MountCall, OpenCall, Begin, NoReply
  <2> QED
    BY <2>1 DEF MountInv, MountIsRight, None
<1>7. ASSUME NEW index \in {0, 1}, RootAt(index)
      PROVE  MountInv'
  <2>1. pc' = "idle" /\ reply'.op = "root_at"
    BY <1>7, RootAtAnswers
  <2> QED
    BY <2>1 DEF MountInv, MountIsRight
<1> QED
  BY <1>1, <1>2, <1>4, <1>5, <1>6, <1>7, SelectRootMount, SlashdotMount, ModeMount
     DEF Next, Step

(* However the probes of Rock Ridge come out, root() is the most           *)
(* featureful hierarchy if no read failed, and the mount uses serial       *)
(* numbers only where there is Rock Ridge and the root has one             *)
(* (ISO9660::root, ISOFuse::new).                                          *)
THEOREM MountCorrect == Spec => []MountIsRight
<1>1. Init => TypeInv /\ MountInv
  <2>1. Init => MountInv
    BY DEF Init, MountInv, MountIsRight, NoReply, None
  <2> QED
    BY <2>1, InitTypeInv
<1>2. TypeInv /\ MountInv /\ [Next]_vars => (TypeInv /\ MountInv)'
  BY NextTypeInv, NextMount
<1>3. MountInv => MountIsRight
  BY DEF MountInv
<1> QED
  BY <1>1, <1>2, <1>3, PTL DEF Spec

-----------------------------------------------------------------------------
(* Paths *)

(* Empty segments lead on to the same entry, ... *)
LEMMA LeadsOn ==
  ASSUME NEW root, NEW path, NEW e, NEW n \in Nat, NEW m \in Nat, n <= m,
         WayTo(root, path, n, e), \A k \in n + 1 .. m : path[k] = Blank
  PROVE  WayTo(root, path, m, e)
<1>1. PICK c \in [0 .. n -> DOMAIN Children \cup {e}] : c[n] = e /\ Leads(root, path, c, n)
  BY DEF WayTo
<1> DEFINE d == [k \in 0 .. m |-> IF k <= n THEN c[k] ELSE e]
<1>2. d \in [0 .. m -> DOMAIN Children \cup {e}]
  BY <1>1
<1>3. \A k \in 0 .. m : d[k] = IF k <= n THEN c[k] ELSE e
  OBVIOUS
<1> HIDE DEF d
<1>4. d[m] = e /\ d[0] = root
  BY <1>1, <1>3 DEF Leads
<1>5. ASSUME NEW k \in 1 .. m
      PROVE  IF path[k] = Blank THEN d[k] = d[k - 1]
             ELSE /\ d[k - 1] \in DOMAIN Children
                  /\ path[k] \in DOMAIN Children[d[k - 1]]
                  /\ d[k] = Children[d[k - 1]][path[k]]
  <2>1. CASE k <= n
    <3>1. d[k] = c[k] /\ d[k - 1] = c[k - 1] /\ k \in 1 .. n
      BY <1>1, <1>3, <2>1
    <3> QED
      BY <1>1, <3>1 DEF Leads
  <2>2. CASE n < k
    <3>1. d[k] = e /\ d[k - 1] = e /\ k \in n + 1 .. m
      BY <1>1, <1>3, <2>2
    <3> QED
      BY <3>1
  <2> QED
    BY <2>1, <2>2
<1> QED
  BY <1>2, <1>4, <1>5 DEF Leads, WayTo

(* ... and a name to the entry of that name. *)
LEMMA LeadsNext ==
  ASSUME NEW root, NEW path, NEW e \in DOMAIN Children, NEW m \in Nat,
         WayTo(root, path, m, e), path[m + 1] # Blank, path[m + 1] \in DOMAIN Children[e]
  PROVE  WayTo(root, path, m + 1, Children[e][path[m + 1]])
<1> DEFINE f == Children[e][path[m + 1]]
<1>1. PICK c \in [0 .. m -> DOMAIN Children \cup {e}] : c[m] = e /\ Leads(root, path, c, m)
  BY DEF WayTo
<1> DEFINE d == [k \in 0 .. m + 1 |-> IF k <= m THEN c[k] ELSE f]
<1>2. \A k \in 0 .. m : c[k] \in DOMAIN Children
  BY <1>1
<1>3. d \in [0 .. m + 1 -> DOMAIN Children \cup {f}]
  BY <1>2
<1>4. \A k \in 0 .. m + 1 : d[k] = IF k <= m THEN c[k] ELSE f
  OBVIOUS
<1> HIDE DEF d
<1>5. d[m + 1] = f /\ d[m] = e /\ d[0] = root
  BY <1>1, <1>4 DEF Leads
<1>6. ASSUME NEW k \in 1 .. m + 1
      PROVE  IF path[k] = Blank THEN d[k] = d[k - 1]
             ELSE /\ d[k - 1] \in DOMAIN Children
                  /\ path[k] \in DOMAIN Children[d[k - 1]]
                  /\ d[k] = Children[d[k - 1]][path[k]]
  <2>1. CASE k <= m
    <3>1. d[k] = c[k] /\ d[k - 1] = c[k - 1] /\ k \in 1 .. m
      BY <1>1, <1>4, <2>1
    <3> QED
      BY <1>1, <3>1 DEF Leads
  <2>2. CASE k = m + 1
    <3>1. k - 1 = m
      BY <2>2
    <3> QED
      BY <1>5, <2>2, <3>1
  <2> QED
    BY <2>1, <2>2
<1> QED
  BY <1>3, <1>5, <1>6 DEF Leads, WayTo

(* No way along the path leaves an entry at an empty segment. *)
LEMMA Stays ==
  ASSUME NEW c, NEW n \in Nat, NEW m \in Nat, n <= m,
         \A k \in n + 1 .. m : c[k] = c[k - 1]
  PROVE  c[m] = c[n]
<1> DEFINE T == {j \in Nat : n + j <= m => c[n + j] = c[n]}
<1>1. 0 \in T
  OBVIOUS
<1>2. ASSUME NEW j \in Nat, j \in T
      PROVE  j + 1 \in T
  <2> SUFFICES ASSUME n + (j + 1) <= m
               PROVE  c[n + (j + 1)] = c[n]
    OBVIOUS
  <2>1. c[n + j] = c[n]
    BY <1>2
  <2> DEFINE k == n + (j + 1)
  <2>2. k \in n + 1 .. m /\ k - 1 = n + j
    OBVIOUS
  <2> HIDE DEF k, T
  <2>3. c[k] = c[n]
    BY <2>1, <2>2
  <2> QED
    BY <2>3 DEF k
<1>3. Nat \subseteq T
  <2> HIDE DEF T
  <2> QED
    BY <1>1, <1>2, Induction
<1>4. m - n \in Nat /\ n + (m - n) = m
  OBVIOUS
<1>5. m - n \in T
  BY <1>3, <1>4
<1> QED
  BY <1>4, <1>5

(* Where a running open is.  Every way along its path comes by the entry   *)
(* it has found, also before the segment it looks for next.                *)
LEMMA OpenIsAt ==
  ASSUME TypeInv, OpenInv, pc = "find"
  PROVE  /\ call.path \in Seq(STRING) /\ Len(call.path) \in Nat
         /\ call.i \in Nat /\ call.i - 1 \in Nat /\ call.i - 1 <= Len(call.path)
         /\ WayTo(call.root, call.path, call.i - 1, call.entry)
         /\ Rest # {} =>
              \A e \in Objects : \A c \in [0 .. Len(call.path) -> DOMAIN Children \cup {e}] :
                Leads(call.root, call.path, c, Len(call.path)) =>
                  /\ c[Segment - 1] = call.entry /\ call.entry \in DOMAIN Children
                  /\ call.path[Segment] \in DOMAIN Children[call.entry]
                  /\ c[Segment] = Children[call.entry][call.path[Segment]]
<1> DEFINE p == call.path
           last == Len(call.path)
           i == call.i
           n == call.i - 1
<1>1. p \in Seq(STRING) /\ last \in Nat /\ i \in Nat
  <2>1. call.path \in Seq(STRING) /\ call.i \in Nat
    BY DEF TypeInv, CallRecord
  <2> QED
    BY <2>1
<1>2. n \in 0 .. last
  BY DEF OpenInv
<1>3. n \in Nat /\ n <= last /\ i = n + 1
  <2> HIDE DEF last
  <2> QED
    BY <1>1, <1>2
<1>4. WayTo(call.root, p, n, call.entry)
  BY DEF OpenInv
<1>5. ASSUME Rest # {}, NEW e \in Objects,
             NEW c \in [0 .. last -> DOMAIN Children \cup {e}], Leads(call.root, p, c, last)
      PROVE  /\ c[Segment - 1] = call.entry /\ call.entry \in DOMAIN Children
             /\ p[Segment] \in DOMAIN Children[call.entry]
             /\ c[Segment] = Children[call.entry][p[Segment]]
  <2>1. /\ Segment \in Nat /\ Segment \in i .. last /\ p[Segment] # Blank
        /\ \A k \in i .. Segment - 1 : p[k] = Blank
    BY <1>5, NextSegment
  <2>2. c[n] = call.entry
    BY <1>5 DEF OpenInv
  <2> HIDE DEF p, last, i, n
  <2> DEFINE m == Segment - 1
  <2>3. m \in Nat /\ n <= m /\ m <= last /\ Segment \in 1 .. last
    BY <1>1, <1>3, <2>1
  <2>4. \A k \in n + 1 .. m : p[k] = Blank
    BY <1>3, <2>1
  <2>5. \A k \in n + 1 .. m : c[k] = c[k - 1]
    BY <1>1, <1>3, <1>5, <2>3, <2>4 DEF Leads
  <2> HIDE DEF m
  <2>6. c[m] = c[n]
    BY <1>3, <2>3, <2>5, Stays
  <2>7. c[Segment - 1] = call.entry
    BY <2>2, <2>6 DEF m
  <2> QED
    BY <1>5, <2>1, <2>3, <2>7 DEF Leads
<1> QED
  BY <1>1, <1>3, <1>4, <1>5

LEMMA OpenReturnsOpen ==
  ASSUME TypeInv, OpenInv, OpenReturns
  PROVE  OpenInv'
<1> DEFINE p == call.path
           last == Len(call.path)
           n == call.i - 1
           e == call.entry
<1>1. pc = "find" /\ Rest = {} /\ call.entry \in Objects /\ call.op = "open"
  BY DEF OpenReturns, TypeInv
<1>2. /\ reply'.op = "open" /\ reply'.path = p /\ reply'.root = call.root
      /\ reply'.res = "some" /\ reply'.entry = e /\ pc' = "idle"
  BY <1>1, Returned DEF OpenReturns
<1>3. /\ last \in Nat /\ call.i \in Nat /\ n \in Nat /\ n <= last
  BY <1>1, OpenIsAt
<1>4. WayTo(call.root, p, n, e)
  BY <1>1, OpenIsAt
<1>5. \A k \in n + 1 .. last : p[k] = Blank
  <2>1. \A k \in call.i .. last : p[k] = Blank
    BY <1>1 DEF Rest
  <2>2. n + 1 = call.i
    BY <1>3
  <2> QED
    BY <2>1, <2>2
<1> HIDE DEF p, last, n, e
<1>6. WayTo(call.root, p, last, e)
  BY <1>3, <1>4, <1>5, LeadsOn
<1>7. e \in Resolve(call.root, p)
  BY <1>1, <1>6 DEF Resolve, WayTo, p, last, e
<1> QED
  BY <1>2, <1>7 DEF OpenInv, OpenIsRightInRoot

(* open answers that there is no entry where no way leads on. *)
LEMMA OpenGivesUp ==
  ASSUME TypeInv, OpenInv, pc = "find", Rest # {}, Return("none", None, FALSE),
         \/ call.entry \notin DOMAIN Children
         \/ call.path[Segment] \notin DOMAIN Children[call.entry]
  PROVE  OpenInv'
<1>1. /\ reply'.op = "open" /\ reply'.path = call.path /\ reply'.root = call.root
      /\ reply'.res = "none" /\ pc' = "idle"
  BY Returned DEF TypeInv
<1>2. Resolve(call.root, call.path) = {}
  BY OpenIsAt DEF Resolve
<1> QED
  BY <1>1, <1>2 DEF OpenInv, OpenIsRightInRoot

LEMMA OpenGoesOn ==
  ASSUME TypeInv, OpenInv, pc = "find", Rest # {}, call.entry \in DOMAIN Children,
         call.path[Segment] \in DOMAIN Children[call.entry],
         call'.path = call.path, call'.root = call.root, call'.i = Segment + 1,
         call'.entry = Children[call.entry][call.path[Segment]],
         UNCHANGED <<pc, reply>>
  PROVE  OpenInv'
<1> DEFINE p == call.path
           last == Len(call.path)
           n == call.i - 1
           s == Segment
           e == call.entry
           r == call.root
           f == Children[e][p[s]]
<1>1. /\ s \in Nat /\ s \in call.i .. last /\ p[s] # Blank
      /\ \A k \in call.i .. s - 1 : p[k] = Blank
  BY NextSegment
<1>2. /\ last \in Nat /\ call.i \in Nat /\ n \in Nat /\ n <= last
      /\ WayTo(r, p, n, e)
  BY OpenIsAt
<1>3. \A x \in Objects : \A d \in [0 .. last -> DOMAIN Children \cup {x}] :
        Leads(r, p, d, last) => d[s] = f
  BY OpenIsAt
<1>4. e \in DOMAIN Children /\ p[s] \in DOMAIN Children[e]
  OBVIOUS
<1>5. last = Len(call'.path) /\ s \in 0 .. last /\ n < s /\ call'.i - 1 = s /\ n + 1 = call.i
  BY <1>1, <1>2
<1>6. \A k \in n + 1 .. s - 1 : p[k] = Blank
  BY <1>1, <1>5
<1>7. WayTo(r, p, s, f)
  <2> HIDE DEF p, last, n, e, r
  <2> DEFINE m == s - 1
  <2>1. m \in Nat /\ n <= m /\ m + 1 = s
    BY <1>1, <1>2, <1>5
  <2>2. \A k \in n + 1 .. m : p[k] = Blank
    BY <1>6
  <2> HIDE DEF m
  <2>3. WayTo(r, p, m, e)
    BY <1>2, <2>1, <2>2, LeadsOn
  <2>4. p[m + 1] # Blank /\ p[m + 1] \in DOMAIN Children[e]
    BY <1>1, <1>4, <2>1
  <2>5. WayTo(r, p, m + 1, Children[e][p[m + 1]])
    BY <1>4, <2>1, <2>3, <2>4, LeadsNext
  <2> QED
    BY <2>1, <2>5
<1> HIDE DEF f, s
<1>8. call'.entry = f /\ call'.path = p /\ call'.root = r
  BY DEF f, s
<1> HIDE DEF p, r, e
<1> QED
  BY <1>3, <1>5, <1>7, <1>8 DEF OpenInv, OpenIsRightInRoot

LEMMA SelectRootOpen ==
  ASSUME TypeInv, OpenInv, NEW is_rr \in BOOLEAN, SelectRoot(is_rr)
  PROVE  OpenInv'
<1> DEFINE r == Selected(is_rr)
<1>1. pc = "root" /\ pc \in Opened /\ call \in CallRecord
  BY DEF SelectRoot, Opened, TypeInv
<1>2. r \in DOMAIN Children /\ r \in Objects
  BY <1>1, SelectedRoot
<1> HIDE DEF r
<1>3. CASE call.op = "root" /\ Return("some", r, FALSE)
  <2>1. reply'.op = "root" /\ pc' = "idle"
    BY <1>2, <1>3, Returned
  <2> QED
    BY <2>1 DEF OpenInv, OpenIsRightInRoot
<1>4. CASE call' = [call EXCEPT !.root = r, !.entry = r, !.i = 1] /\ UNCHANGED reply
  <2>1. call'.root = r /\ call'.entry = r /\ call'.i = 1 /\ call'.path = call.path
    <3>1. call' = [call EXCEPT !.root = r, !.entry = r, !.i = 1]
      BY <1>4
    <3> QED
      BY <1>1, <1>2, <3>1, CallSelects, Zenon
  <2>2. Len(call.path) \in Nat
    <3>1. call.path \in Seq(STRING)
      BY <1>1 DEF CallRecord
    <3> QED
      BY <3>1
  <2>3. WayTo(r, call.path, 0, r)
    <3> DEFINE c == [k \in 0 .. 0 |-> r]
    <3>1. c \in [0 .. 0 -> DOMAIN Children \cup {r}] /\ c[0] = r
      OBVIOUS
    <3> HIDE DEF c
    <3>2. Leads(r, call.path, c, 0)
      BY <3>1 DEF Leads
    <3> QED
      BY <3>1, <3>2 DEF WayTo
  <2>4. \A c, n : Leads(r, call.path, c, n) => c[0] = r
    BY DEF Leads
  <2>5. call'.i - 1 = 0 /\ 0 \in 0 .. Len(call.path)
    BY <2>1, <2>2
  <2> QED
    BY <1>4, <2>1, <2>3, <2>4, <2>5 DEF OpenInv, OpenIsRightInRoot
<1> QED
  BY <1>3, <1>4 DEF SelectRoot, r

LEMMA NextOpen == TypeInv /\ OpenInv /\ [Next]_vars => OpenInv'
<1> SUFFICES ASSUME TypeInv, OpenInv, [Next]_vars
             PROVE  OpenInv'
  OBVIOUS
<1>1. CASE UNCHANGED <<call, pc, reply>>
  BY <1>1 DEF OpenInv, OpenIsRightInRoot
<1>2. CASE UNCHANGED reply /\ pc' # "find"
  BY <1>2 DEF OpenInv, OpenIsRightInRoot
<1>3. CASE pc' # "find" /\ reply'.op # "open"
  BY <1>3 DEF OpenInv, OpenIsRightInRoot
<1>4. CASE ScanBlock \/ ScanFails
  <2>1. UNCHANGED reply /\ pc' # "find"
    BY <1>4 DEF ScanBlock, ScanFails
  <2> QED
    BY <1>2, <2>1
<1>5. CASE Slashdot
  <2>1. (UNCHANGED reply /\ pc' # "find") \/ Return("panic", None, FALSE)
    BY <1>5 DEF Slashdot
  <2>2. ASSUME Return("panic", None, FALSE)
        PROVE  pc' # "find" /\ reply'.op = "mount"
    BY <1>5, <2>2, Returned DEF Slashdot, TypeInv
  <2> QED
    BY <1>2, <1>3, <2>1, <2>2
<1>6. ASSUME NEW is_rr \in BOOLEAN, InodeAutogenerated(is_rr)
      PROVE  OpenInv'
  <2>1. call.op = "mount" /\ call.root \in DOMAIN Children
    BY <1>6 DEF InodeAutogenerated, TypeInv, TypeOK
  <2>2. call.root \in Objects /\ BySerial(is_rr) \in BOOLEAN
    BY <2>1 DEF Objects, BySerial
  <2>3. pc' # "find" /\ reply'.op = "mount"
    BY <1>6, <2>1, <2>2, Returned DEF InodeAutogenerated
  <2> QED
    BY <1>3, <2>3
<1>7. CASE OpenNotDir
  BY <1>7, OpenGivesUp DEF OpenNotDir
<1>8. CASE OpenFinds
  BY <1>8, OpenGivesUp, CallGoesOn, OpenGoesOn, Zenon DEF OpenFinds
<1>9. CASE OpenFails
  <2>1. pc' # "find" /\ reply'.res = "err"
    BY <1>9, Returned DEF OpenFails, OpenFailsWith
  <2> QED
    BY <2>1 DEF OpenInv, OpenIsRightInRoot
<1>10. CASE RootCall \/ MountCall \/ \E path \in Paths : OpenCall(path)
  <2>1. pc' = "root" /\ reply'.op = None
    BY <1>10 DEF RootCall, MountCall, OpenCall, Begin, NoReply
  <2> QED
    BY <1>3, <2>1 DEF None
<1>11. ASSUME NEW index \in {0, 1}, RootAt(index)
       PROVE  OpenInv'
  <2>1. pc' = "idle" /\ reply'.op = "root_at"
    BY <1>11, RootAtAnswers
  <2> QED
    BY <1>3, <2>1
<1> QED
  BY <1>1, <1>4, <1>5, <1>6, <1>7, <1>8, <1>9, <1>10, <1>11, SelectRootOpen, OpenReturnsOpen
     DEF Next, Step, vars

(* open gives the entry its path leads to in the hierarchy it selected,    *)
(* and answers that there is none only if the path leads nowhere: an error *)
(* while a segment is looked for is never taken for that                   *)
(* (ISODirectory::find_recursive).                                         *)
THEOREM OpenCorrectInRoot == Spec => []OpenIsRightInRoot
<1>1. Init => TypeInv /\ OpenInv
  <2>1. Init => OpenInv
    BY DEF Init, OpenInv, OpenIsRightInRoot, NoReply, None
  <2> QED
    BY <2>1, InitTypeInv
<1>2. TypeInv /\ OpenInv /\ [Next]_vars => (TypeInv /\ OpenInv)'
  BY NextTypeInv, NextOpen
<1>3. OpenInv => OpenIsRightInRoot
  BY DEF OpenInv
<1> QED
  BY <1>1, <1>2, <1>3, PTL DEF Spec

=============================================================================
