-------------------------- MODULE IsoDirectoryProofs --------------------------
(***************************************************************************)
(* Proofs about IsoDirectory for every image, set of directories, of walks *)
(* and of paths, with any number of failed and short reads.                *)
(*                                                                         *)
(* The state stays well formed, every directory the program gets hold of   *)
(* is one of the image, and a block a walk takes for cached is that block  *)
(* of its directory.  If the directories are well formed a walk yields     *)
(* every record once and nothing else.                                     *)
(***************************************************************************)
EXTENDS IsoDirectory, IsoDeviceProofs, NatLemmas

-----------------------------------------------------------------------------
(* The inductive invariants *)

Running == {"load", "parse", "cont"}

CallRecord ==
  [op : {"none", "next", "find"}, w : Walks, from : Directories,
   path : {<<>>} \cup {<<name>> : name \in Names} \cup Paths, i : Nat,
   offset : Nat \cup {None}, rec : Cell, susp : Seq(Susp), cont : Susp \cup {NoCont}]

(* A running call is a next or a find; the entries of its record and the   *)
(* area it follows next are entries of the image.                          *)
TypeInv ==
  /\ TypeOK
  /\ call \in CallRecord
  /\ pc # "idle" => call.op \in {"next", "find"}
  /\ pc \in Running => call.offset \in Nat
  /\ pc \in Running /\ call.op = "next" => call.w \in Iterators
  /\ pc \in Running /\ call.op = "find" => call.w = Finder
  /\ pc = "cont" => call.rec \in DOMAIN Records

(* A running call is at its walk's offset, then has that block, then the   *)
(* record at that place, which lies within the block.                      *)
CallInv ==
  /\ pc \in Running => call.offset = next_offset[W]
  /\ pc \in {"parse", "cont"} => block_num[W] = BlockNum
  /\ pc = "cont" => call.rec = RecordCell /\ BlockPos + Rec.len <= BLOCK_SIZE

(* A walk that has not ended has a place in a block of its directory. *)
ListInv ==
  /\ ListedExactly
  /\ listed \in [Walks -> SUBSET Int]
  /\ \A w \in Walks :
       next_offset[w] # None => next_offset[w] < BlockCount(dir[w]) * BLOCK_SIZE
  /\ CallInv

-----------------------------------------------------------------------------
(* System Use entries *)

(* The next segment of a path, where there is one. *)
LEMMA RestIndex ==
  ASSUME NEW path \in {<<>>} \cup {<<name>> : name \in Names} \cup Paths, NEW i \in Nat
  PROVE  /\ Len(path) \in Nat
         /\ Rest(path, i) # {} =>
              /\ Min(Rest(path, i)) \in Nat /\ Min(Rest(path, i)) \in Rest(path, i)
              /\ \A k \in Rest(path, i) : Min(Rest(path, i)) <= k
<1>1. Len(path) \in Nat
  BY DirectoryAssumption
<1>2. Rest(path, i) \subseteq 0 .. Len(path)
  BY <1>1 DEF Rest
<1> QED
  BY <1>1, <1>2, MinIndex

(* A name by itself is a path of one segment. *)
LEMMA NameIsPath ==
  ASSUME NEW name \in Names
  PROVE  Rest(<<name>>, 1) # {}
<1>1. Len(<<name>>) = 1 /\ <<name>>[1] = name /\ name # <<>>
  BY DirectoryAssumption
<1> QED
  BY <1>1 DEF Rest

(* The first n rounds of the fold over the entries of a record. *)
Pushes(es, g, n) ==
  /\ g \in [0 .. n -> Seq(Susp)]
  /\ g[0] = <<>>
  /\ \A i \in 1 .. n : g[i] = IF IsCE(es[i]) THEN g[i - 1] ELSE Append(g[i - 1], es[i])

(* There is such a fold. *)
LEMMA PushesExists ==
  ASSUME NEW es \in Seq(Susp)
  PROVE  \E g : Pushes(es, g, Len(es))
<1> DEFINE T == {n \in Nat : n <= Len(es) => \E g : Pushes(es, g, n)}
<1>1. 0 \in T
  <2> DEFINE g == [i \in 0 .. 0 |-> <<>>]
  <2>1. Pushes(es, g, 0)
    BY DEF Pushes
  <2> QED
    BY <2>1
<1>2. ASSUME NEW n \in Nat, n \in T
      PROVE  n + 1 \in T
  <2> SUFFICES ASSUME n + 1 <= Len(es)
               PROVE  \E h : Pushes(es, h, n + 1)
    OBVIOUS
  <2>1. PICK g : Pushes(es, g, n)
    BY <1>2
  <2> DEFINE x == IF IsCE(es[n + 1]) THEN g[n] ELSE Append(g[n], es[n + 1])
             h == [i \in 0 .. n + 1 |-> IF i <= n THEN g[i] ELSE x]
  <2>2. x \in Seq(Susp)
    <3>1. g[n] \in Seq(Susp) /\ es[n + 1] \in Susp
      BY <2>1 DEF Pushes
    <3> QED
      BY <3>1
  <2>3. h \in [0 .. n + 1 -> Seq(Susp)]
    <3> HIDE DEF x
    <3> QED
      BY <2>1, <2>2 DEF Pushes
  <2>4. (\A i \in 0 .. n : h[i] = g[i]) /\ h[n + 1] = x
    OBVIOUS
  <2> HIDE DEF h
  <2>5. ASSUME NEW i \in 1 .. n + 1
        PROVE  h[i] = IF IsCE(es[i]) THEN h[i - 1] ELSE Append(h[i - 1], es[i])
    <3>1. CASE i \in 1 .. n
      <4>1. h[i] = g[i] /\ h[i - 1] = g[i - 1]
        BY <2>4, <3>1
      <4> QED
        BY <2>1, <3>1, <4>1 DEF Pushes
    <3>2. CASE i = n + 1
      <4>1. i - 1 = n
        BY <3>2
      <4> QED
        BY <2>4, <3>2, <4>1
    <3> QED
      BY <3>1, <3>2
  <2>6. h[0] = <<>>
    BY <2>1, <2>4 DEF Pushes
  <2> QED
    BY <2>3, <2>5, <2>6 DEF Pushes
<1>3. Nat \subseteq T
  <2> HIDE DEF T
  <2> QED
    BY <1>1, <1>2, Induction
<1> QED
  BY <1>3

(* What the fold of read_entry_at over the record's own entries computes. *)
LEMMA NotCEsIsFold ==
  ASSUME NEW es \in Seq(Susp)
  PROVE  \E g : Pushes(es, g, Len(es)) /\ NotCEs(es) = g[Len(es)]
<1> DEFINE n == Len(es)
           Round(g) == [i \in 0 .. n |->
                          IF i = 0 THEN <<>>
                          ELSE IF IsCE(es[i]) THEN g[i - 1] ELSE Append(g[i - 1], es[i])]
           pushed == CHOOSE g : g = Round(g)
<1>0. n \in Nat
  OBVIOUS
<1>1. PICK h : Pushes(es, h, n)
  BY PushesExists
<1>2. h = Round(h)
  <2>1. h = [i \in 0 .. n |-> h[i]]
    BY <1>1 DEF Pushes
  <2>2. \A i \in 0 .. n : i = 0 \/ i \in 1 .. n
    BY <1>0
  <2>3. \A i \in 0 .. n :
          h[i] = IF i = 0 THEN <<>>
                 ELSE IF IsCE(es[i]) THEN h[i - 1] ELSE Append(h[i - 1], es[i])
    BY <1>1, <2>2 DEF Pushes
  <2> HIDE DEF n
  <2> QED
    BY <2>1, <2>3
<1>3. pushed = Round(pushed)
  <2> HIDE DEF Round
  <2> QED
    BY <1>2
<1>4. NotCEs(es) = pushed[n]
  BY DEF NotCEs
<1> HIDE DEF pushed
<1>5. \A i \in 0 .. n :
        pushed[i] = IF i = 0 THEN <<>>
                    ELSE IF IsCE(es[i]) THEN pushed[i - 1] ELSE Append(pushed[i - 1], es[i])
  BY <1>3
<1> DEFINE T == {i \in Nat : i <= n => pushed[i] = h[i]}
<1> HIDE DEF n
<1>6. 0 \in T
  BY <1>0, <1>1, <1>5 DEF Pushes
<1>7. ASSUME NEW i \in Nat, i \in T
      PROVE  i + 1 \in T
  <2> SUFFICES ASSUME i + 1 <= n
               PROVE  pushed[i + 1] = h[i + 1]
    OBVIOUS
  <2> DEFINE j == i + 1
  <2>1. pushed[i] = h[i] /\ j \in 1 .. n /\ j \in 0 .. n /\ j # 0 /\ j - 1 = i
    BY <1>0, <1>7
  <2> HIDE DEF j
  <2>2. pushed[j] = IF IsCE(es[j]) THEN pushed[j - 1] ELSE Append(pushed[j - 1], es[j])
    BY <1>5, <2>1
  <2>3. h[j] = IF IsCE(es[j]) THEN h[j - 1] ELSE Append(h[j - 1], es[j])
    BY <1>1, <2>1 DEF Pushes
  <2>4. pushed[j] = h[j]
    BY <2>1, <2>2, <2>3
  <2> QED
    BY <2>4 DEF j
<1>8. Nat \subseteq T
  <2> HIDE DEF T
  <2> QED
    BY <1>6, <1>7, Induction
<1>9. pushed[n] = h[n]
  BY <1>0, <1>8
<1> QED
  BY <1>1, <1>4, <1>9 DEF n

LEMMA NotCEsType ==
  ASSUME NEW es \in Seq(Susp)
  PROVE  NotCEs(es) \in Seq(Susp)
<1>1. PICK g : Pushes(es, g, Len(es)) /\ NotCEs(es) = g[Len(es)]
  BY NotCEsIsFold
<1>2. Len(es) \in 0 .. Len(es)
  OBVIOUS
<1> QED
  BY <1>1, <1>2 DEF Pushes

(* The area a record goes on in is one of its continuation areas. *)
LEMMA LastCEType ==
  ASSUME NEW es \in Seq(Susp)
  PROVE  LastCE(es) \in Susp \cup {NoCont} /\ (LastCE(es) = NoCont \/ IsCE(LastCE(es)))
<1>1. CASE CEs(es) = {}
  BY <1>1 DEF LastCE
<1>2. CASE CEs(es) # {}
  <2>1. Len(es) \in Nat /\ CEs(es) \subseteq 0 .. Len(es)
    BY DEF CEs
  <2> DEFINE m == Max(CEs(es))
  <2>2. m \in CEs(es)
    BY <1>2, <2>1, MaxIndex
  <2> HIDE DEF m
  <2>3. m \in 1 .. Len(es) /\ IsCE(es[m])
    BY <2>2 DEF CEs
  <2>4. es[m] \in Susp
    BY <2>3
  <2>5. LastCE(es) = es[m]
    BY <1>2 DEF LastCE, m
  <2> QED
    BY <2>3, <2>4, <2>5
<1> QED
  BY <1>1, <1>2

(* What system_use_entries finds in a continuation area are entries. *)
LEMMA AreaEntriesType ==
  ASSUME NEW b, NEW ce \in Susp, IsCE(ce)
  PROVE  AreaEntries(b, ce) \in Seq(Susp)
<1> DEFINE upto == {i \in 0 .. ce.length : \A j \in 0 .. i - 1 : b[j] \in DOMAIN SuspEntries}
           end == Max(upto)
<1>1. ce.length \in Nat
  BY DirectoryAssumption DEF IsCE
<1>2. 0 \in upto /\ upto \subseteq 0 .. ce.length
  BY <1>1
<1>3. end \in upto
  <2> HIDE DEF upto
  <2> QED
    BY <1>1, <1>2, MaxIndex
<1>4. AreaEntries(b, ce) = [i \in 1 .. end - 0 |-> SuspEntries[b[0 + i - 1]]]
  BY DEF AreaEntries, SystemUseEntries
<1> HIDE DEF end
<1>5. end \in Nat /\ \A j \in 0 .. end - 1 : b[j] \in DOMAIN SuspEntries
  BY <1>1, <1>3
<1>6. ASSUME NEW i \in 1 .. end
      PROVE  SuspEntries[b[0 + i - 1]] \in Susp
  <2>1. 0 + i - 1 \in 0 .. end - 1
    BY <1>5
  <2>2. b[0 + i - 1] \in DOMAIN SuspEntries
    BY <1>5, <2>1
  <2> QED
    BY <2>2 DEF Susp, Range
<1>7. end - 0 = end
  BY <1>5
<1> QED
  BY <1>4, <1>5, <1>6, <1>7

(* What is taken out of the entries to be followed next is a continuation  *)
(* area, and the others are kept.                                          *)
LEMMA AppendAreaType ==
  ASSUME NEW susp \in Seq(Susp), NEW es \in Seq(Susp)
  PROVE  LET next == AppendArea(susp, es)
         IN  /\ next.susp \in Seq(Susp) /\ next.cont \in Susp \cup {NoCont}
             /\ next.cont = NoCont \/ IsCE(next.cont)
<1> DEFINE all == susp \o es
<1>1. all \in Seq(Susp) /\ Len(all) \in Nat
  OBVIOUS
<1> HIDE DEF all
<1>2. CASE CEs(all) = {}
  BY <1>1, <1>2 DEF AppendArea, all
<1>3. CASE CEs(all) # {}
  <2> DEFINE m == Min(CEs(all))
  <2>1. CEs(all) \subseteq 0 .. Len(all)
    BY <1>1 DEF CEs
  <2>2. m \in CEs(all)
    BY <1>1, <1>3, <2>1, MinIndex
  <2> HIDE DEF m
  <2>3. m \in 1 .. Len(all) /\ IsCE(all[m]) /\ all[m] \in Susp
    BY <1>1, <2>2 DEF CEs
  <2>4. RemoveAt(all, m) \in Seq(Susp)
    BY <1>1, <2>3 DEF RemoveAt
  <2>5. AppendArea(susp, es) = [susp |-> RemoveAt(all, m), cont |-> all[m]]
    BY <1>3 DEF AppendArea, all, m
  <2> QED
    BY <2>3, <2>4, <2>5
<1> QED
  BY <1>2, <1>3

(* An entry that is a directory is one of the image's. *)
LEMMA EntryDirType ==
  ASSUME NEW rec \in DOMAIN Records, NEW susp \in Seq(Susp)
  PROVE  EntryDir(rec, susp) \subseteq Directories
<1>1. CASE CLs(susp) # {}
  <2> DEFINE m == Min(CLs(susp))
  <2>1. Len(susp) \in Nat /\ CLs(susp) \subseteq 0 .. Len(susp)
    BY DEF CLs
  <2>2. m \in CLs(susp)
    BY <1>1, <2>1, MinIndex
  <2>3. EntryDir(rec, susp) = {Dir(susp[m].loc, BLOCK_SIZE)}
    BY <1>1 DEF EntryDir
  <2> HIDE DEF m
  <2>4. susp[m] \in Susp /\ susp[m].t = "CL"
    BY <2>2 DEF CLs
  <2>5. Dir(susp[m].loc, BLOCK_SIZE) \in LinkDirs
    BY <2>4 DEF LinkDirs
  <2> QED
    BY <2>3, <2>5 DEF Directories
<1>2. CASE CLs(susp) = {}
  <2>1. EntryDir(rec, susp) \subseteq RecordDirs
    BY <1>2 DEF EntryDir, RecordDirs
  <2> QED
    BY <2>1 DEF Directories
<1> QED
  BY <1>1, <1>2

-----------------------------------------------------------------------------
(* The records of calls *)

(* The locals of a call that begins. *)
LEMMA CallBegins ==
  ASSUME NEW op \in {"none", "next", "find"}, NEW w \in Walks, NEW d \in Directories,
         NEW path \in {<<>>} \cup {<<name>> : name \in Names} \cup Paths,
         NEW i \in Nat, NEW o \in Nat \cup {None}, call' = NewCall(op, w, d, path, i, o)
  PROVE  /\ call' \in CallRecord
         /\ call'.op = op /\ call'.w = w /\ call'.from = d /\ call'.path = path
         /\ call'.i = i /\ call'.offset = o /\ call'.cont = NoCont /\ call'.susp = <<>>
<1>1. ZERO \in Cell /\ <<>> \in Seq(Susp)
  BY DeviceAssumption
<1> QED
  BY <1>1 DEF NewCall, CallRecord

LEMMA CallEnds ==
  ASSUME call' = NoCall
  PROVE  call' \in CallRecord /\ call'.w = Finder /\ call'.cont = NoCont
<1>1. Finder \in Walks /\ Root \in Directories
  BY DEF Walks, Directories
<1> QED
  BY <1>1, CallBegins DEF NoCall

(* What a step of a running call changes of its locals. *)
LEMMA CallParses ==
  ASSUME call \in CallRecord, NEW c \in Cell, NEW s \in Seq(Susp), NEW a \in Susp \cup {NoCont},
         call' = [call EXCEPT !.rec = c, !.susp = s, !.cont = a]
  PROVE  /\ call' \in CallRecord
         /\ call'.op = call.op /\ call'.w = call.w /\ call'.offset = call.offset
         /\ call'.from = call.from /\ call'.path = call.path /\ call'.i = call.i
         /\ call'.rec = c /\ call'.susp = s /\ call'.cont = a
BY Zenon DEF CallRecord

LEMMA CallContinues ==
  ASSUME call \in CallRecord, NEW s \in Seq(Susp), NEW a \in Susp \cup {NoCont},
         call' = [call EXCEPT !.susp = s, !.cont = a]
  PROVE  /\ call' \in CallRecord
         /\ call'.op = call.op /\ call'.w = call.w /\ call'.offset = call.offset
         /\ call'.from = call.from /\ call'.path = call.path /\ call'.i = call.i
         /\ call'.rec = call.rec /\ call'.susp = s /\ call'.cont = a
BY Zenon DEF CallRecord

LEMMA CallDescends ==
  ASSUME call \in CallRecord, NEW i \in Nat, call' = [call EXCEPT !.i = i, !.offset = 0]
  PROVE  /\ call' \in CallRecord
         /\ call'.op = call.op /\ call'.w = call.w /\ call'.offset = 0
         /\ call'.from = call.from /\ call'.path = call.path /\ call'.i = i
         /\ call'.cont = call.cont
<1>1. 0 \in Nat \cup {None}
  OBVIOUS
<1> QED
  BY <1>1, Zenon DEF CallRecord

LEMMA CallAdvances ==
  ASSUME call \in CallRecord, NEW o \in Nat \cup {None}, call' = [call EXCEPT !.offset = o]
  PROVE  /\ call' \in CallRecord
         /\ call'.op = call.op /\ call'.w = call.w /\ call'.offset = o
         /\ call'.from = call.from /\ call'.path = call.path /\ call'.i = call.i
         /\ call'.cont = call.cont
BY Zenon DEF CallRecord

-----------------------------------------------------------------------------
(* The type invariant *)

(* The block and the position in it of a running call. *)
LEMMA CallIsAt ==
  ASSUME TypeInv, pc \in Running
  PROVE  /\ W \in Walks /\ dir[W] \in Directories /\ block[W] \in BlockBuffer
         /\ dir[W].loc \in Nat /\ dir[W].loc + BlockNum \in Nat
         /\ block_num[W] \in Nat \cup {None}
         /\ BlockNum \in Nat /\ BlockPos \in 0 .. BLOCK_SIZE - 1
         /\ call.offset \in Nat /\ call.offset = (BlockNum * BLOCK_SIZE) + BlockPos
         /\ call.op \in {"next", "find"} /\ call \in CallRecord
<1>1. call.offset \in Nat /\ W \in Walks /\ call \in CallRecord
  BY DEF TypeInv, TypeOK, W
<1>2. /\ BlockNum \in Nat /\ BlockPos \in 0 .. BLOCK_SIZE - 1
      /\ call.offset = (BlockNum * BLOCK_SIZE) + BlockPos
  BY <1>1, Split DEF BlockNum, BlockPos
<1>3. dir[W] \in Directories /\ block[W] \in BlockBuffer /\ block_num[W] \in Nat \cup {None}
  BY <1>1 DEF TypeInv, TypeOK
<1>4. dir[W].loc \in Nat
  BY <1>3, DirectoryAssumption
<1>5. call.op \in {"next", "find"}
  BY DEF TypeInv, Running
<1> QED
  BY <1>1, <1>2, <1>3, <1>4, <1>5

(* block_count is a number. *)
LEMMA BlockCountType ==
  ASSUME NEW d \in Directories
  PROVE  BlockCount(d) \in Nat
<1>1. d.len \in Nat /\ BLOCK_SIZE \in Nat \ {0} /\ U32_SIZE \in Nat \ {0}
  BY DirectoryAssumption, DeviceAssumption
<1> DEFINE n == d.len + BLOCK_SIZE - 1
<1>2. n \in Nat
  BY <1>1
<1> HIDE DEF n
<1>3. n % U32_SIZE \in Nat
  BY <1>1, <1>2
<1> DEFINE m == n % U32_SIZE
<1> HIDE DEF m
<1>4. m \div BLOCK_SIZE \in Nat
  BY <1>1, <1>3 DEF m
<1> QED
  BY <1>4 DEF BlockCount, m, n

(* Where the record after this one is: behind it or at the start of the    *)
(* next block, or nowhere.                                                 *)
LEMMA NextOffsetIs ==
  ASSUME TypeInv, pc = "cont"
  PROVE  LET pos == BlockPos + Rec.len
             skip == pos >= BLOCK_SIZE - (MinRecord - 1) \/ block[W][pos] = ZERO
             num == IF skip THEN BlockNum + 1 ELSE BlockNum
             n == BlockCount(dir[W])
         IN  /\ Rec.len \in Nat \ {0} /\ pos \in Nat /\ num \in Nat /\ n \in Nat
             /\ num >= n => NextOffset = None
             /\ num < n => NextOffset \in Nat /\ num * BLOCK_SIZE \in Nat
             /\ num < n /\ skip => NextOffset = num * BLOCK_SIZE
             /\ num < n /\ ~skip => NextOffset = (num * BLOCK_SIZE) + pos
<1> DEFINE pos == BlockPos + Rec.len
           skip == pos >= BLOCK_SIZE - (MinRecord - 1) \/ block[W][pos] = ZERO
           num == IF skip THEN BlockNum + 1 ELSE BlockNum
           n == BlockCount(dir[W])
<1>1. pc \in Running /\ Rec.len \in Nat \ {0} /\ BLOCK_SIZE \in Nat
  BY DirectoryAssumption, DeviceAssumption DEF Rec, TypeInv, Running
<1>2. BlockNum \in Nat /\ BlockPos \in Nat /\ dir[W] \in Directories
  BY <1>1, CallIsAt
<1>3. n \in Nat
  BY <1>2, BlockCountType
<1>4. pos \in Nat
  BY <1>1, <1>2
<1>5. NextOffset = IF num < n THEN (num * BLOCK_SIZE) + (IF skip THEN 0 ELSE pos) ELSE None
  BY DEF NextOffset, NextOffsetOf
<1> HIDE DEF pos, skip, n
<1>6. num \in Nat
  BY <1>2
<1> HIDE DEF num
<1> DEFINE base == num * BLOCK_SIZE
<1>7. base \in Nat
  <2>1. \A a, c \in Nat : a * c \in Nat
    OBVIOUS
  <2> QED
    BY <1>1, <1>6, <2>1
<1> HIDE DEF base
<1>8. /\ num >= n => NextOffset = None
      /\ num < n => NextOffset = base + (IF skip THEN 0 ELSE pos)
  BY <1>3, <1>5, <1>6 DEF base
<1>9. /\ num < n => NextOffset \in Nat
      /\ num < n /\ skip => NextOffset = base
      /\ num < n /\ ~skip => NextOffset = base + pos
  BY <1>4, <1>7, <1>8
<1> QED
  BY <1>1, <1>3, <1>4, <1>6, <1>7, <1>8, <1>9 DEF base, num, n, skip, pos

LEMMA NextOffsetType ==
  ASSUME TypeInv, pc = "cont"
  PROVE  NextOffset \in Nat \cup {None}
BY NextOffsetIs

(* A fresh iterator is well formed, and its block is no block. *)
LEMMA NewIteratorType ==
  ASSUME TypeOK, NEW w \in Walks, NEW d \in Directories, NewIterator(w, d)
  PROVE  /\ dir' \in [Walks -> Directories]
         /\ block' \in [Walks -> BlockBuffer]
         /\ block_num' \in [Walks -> Nat \cup {None}]
         /\ next_offset' \in [Walks -> Nat \cup {None}]
<1>1. NewBlockBuffer \in BlockBuffer
  BY DeviceAssumption DEF NewBlockBuffer, BlockBuffer
<1>2. 0 \in Nat \cup {None} /\ None \in Nat \cup {None}
  OBVIOUS
<1> QED
  BY <1>1, <1>2 DEF TypeOK, NewIterator

LEMMA InitTypeInv == Init => TypeInv
<1> SUFFICES ASSUME Init
             PROVE  TypeInv
  OBVIOUS
<1>1. DeviceTypeOK
  BY DeviceAssumption DEF Init, DeviceInit, DeviceTypeOK
<1>2. NewBlockBuffer \in BlockBuffer /\ ZERO \in Cell
  BY DeviceAssumption DEF NewBlockBuffer, BlockBuffer
<1>3. Root \in Directories /\ Finder \in Walks
  BY DEF Directories, Walks
<1>4. <<>> \in Seq(Susp)
  OBVIOUS
<1>5. /\ call \in CallRecord /\ call.w = Finder /\ call.offset = 0 /\ call.op = "none"
      /\ call.cont = NoCont
  BY <1>2, <1>3, <1>4 DEF Init, NoCall, NewCall, CallRecord
<1>6. reply.res = "none" /\ pc = "idle"
  BY DEF Init, NoReply, NoEntry
<1>7. /\ dir \in [Walks -> Directories] /\ block \in [Walks -> BlockBuffer]
      /\ block_num \in [Walks -> Nat \cup {None}] /\ next_offset \in [Walks -> Nat \cup {None}]
      /\ dirs \subseteq Directories
  BY <1>2, <1>3 DEF Init
<1> QED
  BY <1>1, <1>3, <1>5, <1>6, <1>7 DEF TypeInv, TypeOK, Running

(* Calls that begin, and iterators that are made between calls. *)
LEMMA BeginType ==
  ASSUME TypeInv,
         \/ \E w \in Iterators : NextCall(w) \/ NextNone(w) \/ Resume(w)
         \/ \E w \in Iterators, d \in dirs : Contents(w, d)
         \/ \E d \in dirs, name \in Names : FindCall(d, name)
         \/ \E d \in dirs, path \in Paths : FindRecursive(d, path) \/ FindSelf(d, path)
  PROVE  TypeInv'
<1>1. /\ Root \in Directories /\ Finder \in Walks /\ Iterators \subseteq Walks
      /\ dirs \subseteq Directories
  BY DEF Directories, Walks, TypeInv, TypeOK
<1>2. DeviceTypeOK' <=> DeviceTypeOK
  BY DEF NextCall, NextNone, Resume, Contents, FindCall, FindRecursive, FindSelf, StartFind,
         DeviceTypeOK
<1>3. NoReply.res = "none" /\ NoEntry("next").res = "none"
  BY DEF NoReply, NoEntry
<1>4. ASSUME NEW w \in Iterators, NextCall(w)
      PROVE  TypeInv'
  <2>1. next_offset[w] \in Nat /\ w \in Walks
    BY <1>1, <1>4 DEF NextCall, TypeInv, TypeOK
  <2>2. /\ call' \in CallRecord /\ call'.op = "next" /\ call'.w = w
        /\ call'.offset = next_offset[w] /\ call'.cont = NoCont
    <3> DEFINE o == next_offset[w]
    <3>1. call' = NewCall("next", w, Root, <<>>, 0, o) /\ o \in Nat \cup {None}
      BY <1>4, <2>1 DEF NextCall
    <3>2. <<>> \in {<<>>} \cup {<<name>> : name \in Names} \cup Paths
      OBVIOUS
    <3> HIDE DEF o
    <3>3. /\ call' \in CallRecord /\ call'.op = "next" /\ call'.w = w
          /\ call'.offset = o /\ call'.cont = NoCont
      BY <1>1, <2>1, <3>1, <3>2, CallBegins
    <3> QED
      BY <3>3 DEF o
  <2> QED
    BY <1>2, <1>3, <1>4, <2>1, <2>2 DEF NextCall, TypeInv, TypeOK, walkVars, Running
<1>5. ASSUME NEW w \in Iterators, NextNone(w)
      PROVE  TypeInv'
  BY <1>2, <1>3, <1>5 DEF NextNone, TypeInv, TypeOK, walkVars
<1>6. ASSUME NEW w \in Iterators, Resume(w)
      PROVE  TypeInv'
  <2>1. NewBlockBuffer \in BlockBuffer /\ None \in Nat \cup {None} /\ w \in Walks
    BY <1>1, DeviceAssumption DEF NewBlockBuffer, BlockBuffer
  <2>2. block' \in [Walks -> BlockBuffer] /\ block_num' \in [Walks -> Nat \cup {None}]
    BY <1>6, <2>1 DEF Resume, TypeInv, TypeOK
  <2> QED
    BY <1>2, <1>6, <2>2 DEF Resume, TypeInv, TypeOK
<1>7. ASSUME NEW w \in Iterators, NEW d \in dirs, Contents(w, d)
      PROVE  TypeInv'
  <2>1. /\ dir' \in [Walks -> Directories] /\ block' \in [Walks -> BlockBuffer]
        /\ block_num' \in [Walks -> Nat \cup {None}] /\ next_offset' \in [Walks -> Nat \cup {None}]
    BY <1>1, <1>7, NewIteratorType DEF Contents, TypeInv
  <2> QED
    BY <1>2, <1>3, <1>7, <2>1 DEF Contents, TypeInv, TypeOK
<1>8. ASSUME NEW d \in dirs, NEW path \in {<<name>> : name \in Names} \cup Paths,
             Rest(path, 1) # {}, StartFind(d, path)
      PROVE  TypeInv'
  <2>0. Min(Rest(path, 1)) \in Nat
    BY <1>8, RestIndex
  <2>1. /\ dir' \in [Walks -> Directories] /\ block' \in [Walks -> BlockBuffer]
        /\ block_num' \in [Walks -> Nat \cup {None}] /\ next_offset' \in [Walks -> Nat \cup {None}]
    BY <1>1, <1>8, NewIteratorType DEF StartFind, TypeInv
  <2>2. /\ call' \in CallRecord /\ call'.op = "find" /\ call'.w = Finder
        /\ call'.offset = 0 /\ call'.cont = NoCont
    <3> DEFINE i == Min(Rest(path, 1))
    <3>1. call' = NewCall("find", Finder, d, path, i, 0) /\ i \in Nat
      BY <1>8, <2>0 DEF StartFind
    <3> HIDE DEF i
    <3> QED
      BY <1>1, <3>1, CallBegins
  <2> QED
    BY <1>1, <1>2, <1>3, <1>8, <2>1, <2>2 DEF StartFind, TypeInv, TypeOK, Running
<1>9. ASSUME NEW d \in dirs, NEW path \in Paths, FindSelf(d, path)
      PROVE  TypeInv'
  <2>1. /\ call' \in CallRecord /\ call'.op = "find" /\ call'.w = Finder
        /\ call'.offset = None /\ call'.cont = NoCont
    <3> DEFINE o == None
    <3>1. call' = NewCall("find", Finder, d, path, 0, o) /\ o \in Nat \cup {None}
      BY <1>9 DEF FindSelf
    <3>2. d \in Directories /\ path \in {<<>>} \cup {<<name>> : name \in Names} \cup Paths
      BY <1>1
    <3> HIDE DEF o
    <3>3. /\ call' \in CallRecord /\ call'.op = "find" /\ call'.w = Finder
          /\ call'.offset = o /\ call'.cont = NoCont
      BY <1>1, <3>1, <3>2, CallBegins
    <3> QED
      BY <3>3 DEF o
  <2> QED
    BY <1>1, <1>2, <1>3, <1>9, <2>1 DEF FindSelf, TypeInv, TypeOK, walkVars, Running
<1> QED
  BY <1>4, <1>5, <1>6, <1>7, <1>8, <1>9, NameIsPath DEF FindCall, FindRecursive

(* The early returns of read_entry_at. *)
LEMMA FailType ==
  ASSUME TypeInv, pc \in Running, DeviceTypeOK',
         NEW b \in BlockBuffer, NEW num \in Nat \cup {None}, Fail(b, num)
  PROVE  TypeInv'
<1>1. W \in Walks /\ Finder \in Walks /\ Root \in Directories
  BY DEF Walks, Directories, TypeInv, TypeOK, W
<1>2. reply'.res = "err" /\ pc' = "idle" /\ call' = NoCall /\ UNCHANGED dirs
  BY DEF Fail, FailWith, Return, Reply
<1>3. /\ dir' \in [Walks -> Directories] /\ block' \in [Walks -> BlockBuffer]
      /\ block_num' \in [Walks -> Nat \cup {None}] /\ next_offset' \in [Walks -> Nat \cup {None}]
  <2>1. CASE NewIterator(Finder, Root)
    BY <1>1, <2>1, NewIteratorType DEF TypeInv
  <2>2. CASE /\ block' = [block EXCEPT ![W] = b] /\ block_num' = [block_num EXCEPT ![W] = num]
             /\ UNCHANGED <<dir, next_offset, listed>>
    BY <1>1, <2>2 DEF TypeInv, TypeOK
  <2> QED
    BY <2>1, <2>2 DEF Fail, FailWith
<1>4. /\ call' \in CallRecord /\ call'.w = Finder /\ call'.cont = NoCont
  BY <1>2, CallEnds
<1> QED
  BY <1>1, <1>2, <1>3, <1>4 DEF TypeInv, TypeOK, Running, CallRecord

(* The block is loaded, or is there already. *)
LEMMA LoadType ==
  ASSUME TypeInv, LoadCached \/ LoadBlock \/ LoadShort \/ LoadFails
  PROVE  TypeInv'
<1> DEFINE l == dir[W].loc + BlockNum
<1>1. pc = "load" /\ pc \in Running /\ DeviceTypeOK /\ BLOCK_SIZE \in Nat
  BY DeviceAssumption
     DEF LoadCached, LoadBlock, LoadShort, LoadShortWith, LoadFails, Running, TypeInv, TypeOK
<1>2. /\ W \in Walks /\ l \in Nat /\ BlockNum \in Nat /\ block[W] \in BlockBuffer
      /\ block_num[W] \in Nat \cup {None} /\ None \in Nat \cup {None}
  BY <1>1, CallIsAt
<1>3. CASE LoadCached
  BY <1>1, <1>3 DEF LoadCached, TypeInv, TypeOK, DeviceTypeOK, walkVars, Running
<1>4. CASE LoadBlock
  <2>1. ReadAtOk(l, BLOCK_SIZE) /\ BLOCK_SIZE \in 0 .. BLOCK_SIZE
    BY <1>1, <1>4 DEF LoadBlock
  <2> DEFINE b == ReadInto(block[W], BLOCK_SIZE)
  <2>2. block' = [block EXCEPT ![W] = b] /\ block_num' = [block_num EXCEPT ![W] = BlockNum]
    BY <1>4 DEF LoadBlock
  <2> HIDE DEF l
  <2>3. DeviceTypeOK' /\ b \in BlockBuffer
    BY <1>1, <1>2, <2>1, ReadAtOkType
  <2> HIDE DEF b
  <2>4. block' \in [Walks -> BlockBuffer] /\ block_num' \in [Walks -> Nat \cup {None}]
    BY <1>2, <2>2, <2>3 DEF TypeInv, TypeOK
  <2> QED
    BY <1>1, <1>4, <2>3, <2>4 DEF LoadBlock, TypeInv, TypeOK, Running
<1>5. CASE LoadShort
  <2>1. PICK n \in 0 .. BLOCK_SIZE - 1 :
          ReadAtOk(l, n) /\ Fail(ReadInto(block[W], n), None)
    BY <1>5 DEF LoadShort, LoadShortWith
  <2>2. n \in 0 .. BLOCK_SIZE
    BY <1>1
  <2> HIDE DEF l
  <2> DEFINE b == ReadInto(block[W], n)
  <2>3. DeviceTypeOK' /\ b \in BlockBuffer
    BY <1>1, <1>2, <2>1, <2>2, ReadAtOkType
  <2> HIDE DEF b
  <2>4. Fail(b, None)
    BY <2>1 DEF b
  <2> QED
    BY <1>1, <1>2, <2>3, <2>4, FailType
<1>6. CASE LoadFails
  <2>1. ReadAtErr(l) /\ Fail(block[W], block_num[W])
    BY <1>6 DEF LoadFails, FailHere
  <2> HIDE DEF l
  <2>2. DeviceTypeOK'
    BY <1>1, <1>2, <2>1, ReadAtErrType
  <2> QED
    BY <1>1, <1>2, <2>1, <2>2, FailType
<1> QED
  BY <1>3, <1>4, <1>5, <1>6

(* The record is parsed. *)
LEMMA ParseType ==
  ASSUME TypeInv, Parse \/ ParseFails
  PROVE  TypeInv'
<1>1. pc = "parse" /\ pc \in Running /\ DeviceTypeOK /\ UNCHANGED <<cursor, faults>>
  BY DEF Parse, ParseFails, Running, TypeInv, TypeOK
<1>2. /\ W \in Walks /\ block[W] \in BlockBuffer /\ block_num[W] \in Nat \cup {None}
      /\ call \in CallRecord /\ call.op \in {"next", "find"} /\ call.offset \in Nat
  BY <1>1, CallIsAt
<1>3. DeviceTypeOK'
  BY <1>1 DEF DeviceTypeOK
<1>4. CASE Parse
  <2> DEFINE c == RecordCell
             s == NotCEs(Records[RecordCell].susp)
             a == LastCE(Records[RecordCell].susp)
  <2>1. c \in DOMAIN Records /\ c \in Cell /\ Records[c].susp \in Seq(Susp)
    BY <1>4, DirectoryAssumption DEF Parse, Parses
  <2>2. s \in Seq(Susp) /\ a \in Susp \cup {NoCont} /\ (a = NoCont \/ IsCE(a))
    BY <2>1, NotCEsType, LastCEType
  <2>3. call' = [call EXCEPT !.rec = c, !.susp = s, !.cont = a]
    BY <1>4 DEF Parse
  <2> HIDE DEF c, s, a
  <2>4. /\ call' \in CallRecord
        /\ call'.op = call.op /\ call'.w = call.w /\ call'.offset = call.offset
        /\ call'.rec = c /\ call'.cont = a
    BY <1>2, <2>1, <2>2, <2>3, CallParses, Zenon
  <2>5. pc' = "cont" /\ UNCHANGED <<walkVars, reply>>
    BY <1>4 DEF Parse
  <2> QED
    BY <1>1, <1>2, <1>3, <2>1, <2>2, <2>4, <2>5 DEF TypeInv, TypeOK, Running, walkVars
<1>5. CASE ParseFails
  BY <1>1, <1>2, <1>3, <1>5, FailType DEF ParseFails, FailHere
<1> QED
  BY <1>4, <1>5

(* A continuation area is followed. *)
LEMMA ContinueType ==
  ASSUME TypeInv, Continue \/ ContinueFails
  PROVE  TypeInv'
<1> DEFINE ce == call.cont
<1>1. pc = "cont" /\ pc \in Running /\ DeviceTypeOK /\ BLOCK_SIZE \in Nat
  BY DeviceAssumption DEF Continue, ContinueFails, Running, TypeInv, TypeOK
<1>2. /\ W \in Walks /\ block[W] \in BlockBuffer /\ block_num[W] \in Nat \cup {None}
      /\ call \in CallRecord /\ call.op \in {"next", "find"} /\ call.offset \in Nat
  BY <1>1, CallIsAt
<1>3. ce # NoCont /\ ce \in Susp \cup {NoCont} /\ (ce = NoCont \/ IsCE(ce))
  BY <1>2 DEF Continue, ContinueFails, TypeInv, TypeOK, CallRecord
<1>4. ce \in Susp /\ IsCE(ce) /\ ce.loc \in Nat
  BY <1>3, DirectoryAssumption DEF IsCE
<1>5. CASE Continue
  <2>1. PICK n \in 0 .. BLOCK_SIZE :
          LET b == ReadInto(NewBlockBuffer, n)
              es == AreaEntries(b, ce)
              next == AppendArea(call.susp, es)
          IN  /\ ReadAtOk(ce.loc, n)
              /\ \/ /\ es # <<>>
                    /\ call' = [call EXCEPT !.susp = next.susp, !.cont = next.cont]
                    /\ UNCHANGED <<walkVars, pc, reply>>
                 \/ es = <<>> /\ FailHere
    BY <1>5 DEF Continue
  <2> DEFINE es == AreaEntries(ReadInto(NewBlockBuffer, n), ce)
             s == AppendArea(call.susp, es).susp
             a == AppendArea(call.susp, es).cont
  <2>2. NewBlockBuffer \in BlockBuffer
    BY DeviceAssumption DEF NewBlockBuffer, BlockBuffer
  <2>3. DeviceTypeOK'
    <3> DEFINE l == ce.loc
    <3>1. l \in Nat /\ ReadAtOk(l, n)
      BY <1>4, <2>1
    <3> HIDE DEF l
    <3> QED
      BY <1>1, <2>2, <3>1, ReadAtOkType
  <2>4. es \in Seq(Susp)
    BY <1>4, AreaEntriesType
  <2>5. call.susp \in Seq(Susp)
    BY <1>2 DEF CallRecord
  <2>6. s \in Seq(Susp) /\ a \in Susp \cup {NoCont} /\ (a = NoCont \/ IsCE(a))
    <3> HIDE DEF es
    <3> QED
      BY <2>4, <2>5, AppendAreaType
  <2> HIDE DEF s, a
  <2>7. CASE FailHere
    BY <1>1, <1>2, <2>3, <2>7, FailType DEF FailHere
  <2>8. CASE call' = [call EXCEPT !.susp = s, !.cont = a] /\ UNCHANGED <<walkVars, pc, reply>>
    <3>1. call' = [call EXCEPT !.susp = s, !.cont = a]
      BY <2>8
    <3>2. /\ call' \in CallRecord
          /\ call'.op = call.op /\ call'.w = call.w /\ call'.offset = call.offset
          /\ call'.rec = call.rec /\ call'.cont = a
      BY <1>2, <2>6, <3>1, CallContinues, Zenon
    <3>3. UNCHANGED <<walkVars, pc, reply>>
      BY <2>8
    <3> HIDE <3>1
    <3> QED
      BY <1>1, <2>3, <2>6, <3>2, <3>3 DEF TypeInv, TypeOK, Running, walkVars
  <2> QED
    BY <2>1, <2>7, <2>8, Zenon DEF s, a
<1>6. CASE ContinueFails
  <2> DEFINE l == ce.loc
  <2>1. ReadAtErr(l) /\ l \in Nat /\ FailHere
    BY <1>4, <1>6 DEF ContinueFails
  <2> HIDE DEF l
  <2>2. DeviceTypeOK'
    BY <1>1, <2>1, ReadAtErrType
  <2> QED
    BY <1>1, <1>2, <2>1, <2>2, FailType DEF FailHere
<1> QED
  BY <1>5, <1>6

(* The record is an entry, or its name is refused. *)
LEMMA EntryType ==
  ASSUME TypeInv, Yield \/ FindReturns \/ FindDescends \/ FindGoesOn \/ NameFails
  PROVE  TypeInv'
<1> DEFINE found == EntryDir(call.rec, call.susp)
           o == NextOffset
<1>1. pc = "cont" /\ pc \in Running /\ DeviceTypeOK /\ UNCHANGED <<cursor, faults>>
  BY DEF Yield, FindReturns, FindDescends, FindGoesOn, NameFails, HasEntry, Running,
         TypeInv, TypeOK
<1>2. /\ W \in Walks /\ block[W] \in BlockBuffer /\ block_num[W] \in Nat \cup {None}
      /\ call \in CallRecord /\ call.op \in {"next", "find"} /\ call.offset \in Nat
  BY <1>1, CallIsAt
<1>3. DeviceTypeOK'
  BY <1>1 DEF DeviceTypeOK
<1>4. found \subseteq Directories
  <2>1. call.rec \in DOMAIN Records /\ call.susp \in Seq(Susp)
    BY <1>1, <1>2 DEF TypeInv, CallRecord
  <2> QED
    BY <2>1, EntryDirType
<1>5. o \in Nat \cup {None}
  BY <1>1, NextOffsetType
<1>6. Finder \in Walks /\ Root \in Directories
  BY DEF Walks, Directories
<1> HIDE DEF found, o
<1>7. ASSUME Advance
      PROVE  /\ next_offset' \in [Walks -> Nat \cup {None}]
             /\ UNCHANGED <<dir, block, block_num>>
  <2>1. next_offset' = [next_offset EXCEPT ![W] = o] /\ UNCHANGED <<dir, block, block_num>>
    BY <1>7 DEF Advance, o
  <2> QED
    BY <1>2, <1>5, <2>1 DEF TypeInv, TypeOK
<1>8. ASSUME NEW w \in Walks, NEW d \in Directories, NewIterator(w, d)
      PROVE  /\ dir' \in [Walks -> Directories] /\ block' \in [Walks -> BlockBuffer]
             /\ block_num' \in [Walks -> Nat \cup {None}]
             /\ next_offset' \in [Walks -> Nat \cup {None}]
  BY <1>8, NewIteratorType DEF TypeInv
<1>9. ASSUME NEW res \in {"some", "none"}, Return(res), dirs' \subseteq Directories,
             dir' \in [Walks -> Directories], block' \in [Walks -> BlockBuffer],
             block_num' \in [Walks -> Nat \cup {None}],
             next_offset' \in [Walks -> Nat \cup {None}]
      PROVE  TypeInv'
  <2>1. reply'.res = res /\ pc' = "idle" /\ call' = NoCall
    BY <1>9 DEF Return, Reply
  <2>2. call' \in CallRecord /\ call'.w = Finder /\ call'.cont = NoCont
    BY <2>1, CallEnds
  <2> QED
    BY <1>3, <1>6, <1>9, <2>1, <2>2 DEF TypeInv, TypeOK, Running, CallRecord
<1>10. dirs \subseteq Directories /\ dirs \cup found \subseteq Directories
  BY <1>4 DEF TypeInv, TypeOK
<1>11. CASE Yield
  <2>1. dirs' = dirs \cup found /\ Advance /\ Return("some")
    BY <1>11 DEF Yield, found
  <2> QED
    BY <1>7, <1>9, <1>10, <2>1 DEF TypeInv, TypeOK
<1>12. CASE FindReturns
  <2>1. dirs' = dirs \cup found /\ NewIterator(Finder, Root) /\ Return("some")
    BY <1>12 DEF FindReturns, FindEnds, found
  <2> QED
    BY <1>6, <1>8, <1>9, <1>10, <2>1
<1>13. ASSUME FindEnds("none"), UNCHANGED dirs
       PROVE  TypeInv'
  BY <1>6, <1>8, <1>9, <1>10, <1>13 DEF FindEnds
<1>14. ASSUME NEW d \in found, NewIterator(Finder, d), pc' = "load", call.op = "find",
              Further # {}, call' = [call EXCEPT !.i = Min(Further), !.offset = 0],
              UNCHANGED <<reply, dirs>>
       PROVE  TypeInv'
  <2> DEFINE i == Min(Further)
  <2>1. i \in Nat
    <3> DEFINE path == call.path
               j == call.i + 1
    <3>1. /\ j \in Nat /\ path \in {<<>>} \cup {<<name>> : name \in Names} \cup Paths
          /\ Further = Rest(path, j)
      BY <1>2 DEF CallRecord, Further
    <3> HIDE DEF path, j
    <3> QED
      BY <1>14, <3>1, RestIndex
  <2>2. call' = [call EXCEPT !.i = i, !.offset = 0]
    BY <1>14
  <2> HIDE DEF i
  <2>3. /\ call' \in CallRecord /\ call'.op = call.op /\ call'.w = call.w /\ call'.offset = 0
        /\ call'.cont = call.cont
    BY <1>2, <2>1, <2>2, CallDescends, Zenon
  <2>4. /\ dir' \in [Walks -> Directories] /\ block' \in [Walks -> BlockBuffer]
        /\ block_num' \in [Walks -> Nat \cup {None}] /\ next_offset' \in [Walks -> Nat \cup {None}]
    BY <1>4, <1>6, <1>8, <1>14
  <2>5. pc' = "load" /\ UNCHANGED <<reply, dirs>> /\ call.op = "find"
    BY <1>14
  <2> QED
    BY <1>1, <1>3, <2>3, <2>4, <2>5 DEF TypeInv, TypeOK, Running
<1>15. ASSUME o # None, Advance, pc' = "load", call.op = "find",
              call' = [call EXCEPT !.offset = o], UNCHANGED <<reply, dirs>>
       PROVE  TypeInv'
  <2>1. call' = [call EXCEPT !.offset = o]
    BY <1>15
  <2>2. /\ call' \in CallRecord /\ call'.op = call.op /\ call'.w = call.w /\ call'.offset = o
        /\ call'.cont = call.cont
    BY <1>2, <1>5, <2>1, CallAdvances, Zenon
  <2>3. next_offset' \in [Walks -> Nat \cup {None}] /\ UNCHANGED <<dir, block, block_num>>
    BY <1>7, <1>15
  <2>4. pc' = "load" /\ UNCHANGED <<reply, dirs>> /\ call.op = "find" /\ o \in Nat
    BY <1>5, <1>15
  <2> QED
    BY <1>1, <1>3, <2>2, <2>3, <2>4 DEF TypeInv, TypeOK, Running
<1>16. CASE FindDescends
  BY <1>13, <1>14, <1>16, Zenon DEF FindDescends, found
<1>17. CASE FindGoesOn
  BY <1>13, <1>15, <1>17, Zenon DEF FindGoesOn, o
<1>18. CASE NameFails
  BY <1>1, <1>2, <1>3, <1>18, FailType DEF NameFails, FailHere
<1> QED
  BY <1>11, <1>12, <1>16, <1>17, <1>18

LEMMA NextTypeInv == TypeInv /\ [Next]_vars => TypeInv'
<1> SUFFICES ASSUME TypeInv, [Next]_vars
             PROVE  TypeInv'
  OBVIOUS
<1>1. CASE FindSelfReturns
  <2>1. /\ pc' = "idle" /\ call' = NoCall /\ reply'.res = "some"
        /\ UNCHANGED <<cursor, faults, walkVars>>
    BY <1>1 DEF FindSelfReturns, Reply
  <2>2. call' \in CallRecord /\ call'.w = Finder /\ call'.cont = NoCont /\ Finder \in Walks
    BY <2>1, CallEnds DEF Walks
  <2> QED
    BY <2>1, <2>2 DEF TypeInv, TypeOK, DeviceTypeOK, walkVars, Running, CallRecord
<1>2. CASE UNCHANGED vars
  BY <1>2 DEF TypeInv, TypeOK, DeviceTypeOK, vars, walkVars
<1> QED
  BY <1>1, <1>2, LoadType, ParseType, ContinueType, EntryType, BeginType DEF Next, Step

(* The state of the walks stays well formed, every directory the program   *)
(* gets hold of is one of the image, and what is followed as a             *)
(* continuation area is one: the unreachable!() of read_entry_at is.       *)
THEOREM TypeCorrect == Spec => []TypeOK
<1>1. TypeInv => TypeOK
  BY DEF TypeInv
<1> QED
  BY <1>1, InitTypeInv, NextTypeInv, PTL DEF Spec

-----------------------------------------------------------------------------
(* The cached block *)

(* A block the image holds is in a buffer. *)
Holds(b, l) ==
  /\ SeekPos(l) + BLOCK_SIZE <= ImageLen
  /\ \A i \in 0 .. BLOCK_SIZE - 1 : b[i] = Image[SeekPos(l) + i]

(* What a step does to the block of a walk: nothing, or it is the block    *)
(* that has just been read, or none.                                       *)
BlockStep(w) ==
  \/ UNCHANGED <<dir[w], block[w], block_num[w]>>
  \/ block_num'[w] = None
  \/ dir'[w] = dir[w] /\ Holds(block'[w], dir[w].loc + block_num'[w])

(* A step of that kind keeps the caches coherent. *)
LEMMA BlockStepCoherent ==
  ASSUME BlockCoherent, \A w \in Walks : BlockStep(w)
  PROVE  BlockCoherent'
BY DEF BlockCoherent, BlockStep, Holds

(* Every step of the system is one of those: a block that was read in part *)
(* is never taken for the block it was before or should have become.       *)
LEMMA NextBlockStep ==
  ASSUME TypeInv, [Next]_vars, NEW w \in Walks
  PROVE  BlockStep(w)
<1>1. /\ dir \in [Walks -> Directories] /\ block \in [Walks -> BlockBuffer]
      /\ block_num \in [Walks -> Nat \cup {None}] /\ W \in Walks /\ Finder \in Walks
      /\ Iterators \subseteq Walks
  BY DEF TypeInv, TypeOK, Walks, W
<1>2. ASSUME UNCHANGED <<dir, block, block_num>>
      PROVE  BlockStep(w)
  BY <1>2 DEF BlockStep
<1>3. ASSUME NEW v \in Walks, NEW d, NewIterator(v, d)
      PROVE  BlockStep(w)
  BY <1>1, <1>3 DEF NewIterator, BlockStep
<1>4. ASSUME NEW b, Fail(b, None)
      PROVE  BlockStep(w)
  <2>1. CASE NewIterator(Finder, Root)
    BY <1>1, <1>3, <2>1
  <2>2. CASE /\ block' = [block EXCEPT ![W] = b] /\ block_num' = [block_num EXCEPT ![W] = None]
             /\ UNCHANGED dir
    BY <1>1, <2>2 DEF BlockStep
  <2> QED
    BY <1>4, <2>1, <2>2 DEF Fail, FailWith
<1>5. ASSUME FailHere
      PROVE  BlockStep(w)
  <2>1. CASE NewIterator(Finder, Root)
    BY <1>1, <1>3, <2>1
  <2>2. CASE /\ block' = [block EXCEPT ![W] = block[W]]
             /\ block_num' = [block_num EXCEPT ![W] = block_num[W]]
             /\ UNCHANGED dir
    BY <1>1, <2>2 DEF BlockStep
  <2> QED
    BY <1>5, <2>1, <2>2 DEF FailHere, Fail, FailWith
<1>6. CASE LoadBlock
  <2> DEFINE l == dir[W].loc + BlockNum
             b == ReadInto(block[W], BLOCK_SIZE)
  <2>1. /\ block' = [block EXCEPT ![W] = b] /\ block_num' = [block_num EXCEPT ![W] = BlockNum]
        /\ UNCHANGED dir /\ ReadAtOk(l, BLOCK_SIZE) /\ pc \in Running
    BY <1>6 DEF LoadBlock, Running
  <2>2. l \in Nat
    BY <2>1, CallIsAt
  <2>3. BLOCK_SIZE \in Nat /\ BLOCK_SIZE \in 0 .. BLOCK_SIZE
    BY DeviceAssumption
  <2>4. Holds(b, l)
    <3> HIDE DEF l
    <3>1. SeekPos(l) + BLOCK_SIZE <= ImageLen
      BY <2>1, <2>2, <2>3, WholeBlock
    <3>2. b = Fill(block[W], SeekPos(l), BLOCK_SIZE)
      BY <2>1, <2>2, <2>3, ReadIntoIs
    <3>3. \A i \in 0 .. BLOCK_SIZE - 1 : b[i] = Image[SeekPos(l) + i]
      BY <2>3, <3>2 DEF Fill
    <3> QED
      BY <3>1, <3>3 DEF Holds
  <2> HIDE DEF b
  <2>5. w = W => /\ block'[w] = b /\ block_num'[w] = BlockNum /\ dir'[w] = dir[w]
                 /\ dir[w].loc + block_num'[w] = l
    BY <1>1, <2>1
  <2>6. w # W => UNCHANGED <<dir[w], block[w], block_num[w]>>
    BY <1>1, <2>1
  <2> HIDE DEF l
  <2> QED
    BY <2>4, <2>5, <2>6 DEF BlockStep
<1>7. CASE LoadShort
  BY <1>4, <1>7 DEF LoadShort, LoadShortWith
<1>8. CASE \/ LoadFails \/ ParseFails \/ ContinueFails \/ NameFails
  BY <1>5, <1>8 DEF LoadFails, ParseFails, ContinueFails, NameFails
<1>9. CASE LoadCached \/ Parse \/ FindSelfReturns \/ UNCHANGED vars
  BY <1>2, <1>9 DEF LoadCached, Parse, FindSelfReturns, vars, walkVars
<1>10. CASE Continue
  BY <1>2, <1>5, <1>10 DEF Continue, walkVars
<1>11. CASE Yield \/ FindReturns
  BY <1>1, <1>2, <1>3, <1>11 DEF Yield, FindReturns, FindEnds, Advance
<1>12. CASE FindDescends
  BY <1>1, <1>3, <1>12 DEF FindDescends, FindEnds
<1>13. CASE FindGoesOn
  BY <1>1, <1>2, <1>3, <1>13 DEF FindGoesOn, FindEnds, Advance
<1>14. ASSUME NEW v \in Iterators, NextCall(v) \/ NextNone(v) \/ Resume(v)
       PROVE  BlockStep(w)
  <2>1. CASE NextCall(v) \/ NextNone(v)
    BY <1>2, <2>1 DEF NextCall, NextNone, walkVars
  <2>2. CASE Resume(v)
    BY <1>1, <2>2 DEF Resume, BlockStep
  <2> QED
    BY <1>14, <2>1, <2>2
<1>15. ASSUME NEW v \in Iterators, NEW d \in dirs, Contents(v, d)
       PROVE  BlockStep(w)
  BY <1>1, <1>3, <1>15 DEF Contents
<1>16. ASSUME NEW d \in dirs, NEW path, FindRecursive(d, path) \/ StartFind(d, path)
       PROVE  BlockStep(w)
  BY <1>1, <1>3, <1>16 DEF FindRecursive, StartFind
<1>17. ASSUME NEW d \in dirs, NEW path, FindSelf(d, path)
       PROVE  BlockStep(w)
  BY <1>2, <1>17 DEF FindSelf, walkVars
<1> QED
  BY <1>6, <1>7, <1>8, <1>9, <1>10, <1>11, <1>12, <1>13, <1>14, <1>15, <1>16, <1>17
     DEF Next, Step, FindCall

(* A block a walk takes for cached is that block of its directory, however *)
(* many reads have failed or fallen short: read_entry_at resets            *)
(* buf_block_num before it returns ReadSize, and an error of read_at       *)
(* leaves block and number as they were.                                   *)
THEOREM BlocksCoherent == Spec => []BlockCoherent
<1>1. Init => BlockCoherent
  BY DEF Init, BlockCoherent
<1>2. TypeInv /\ BlockCoherent /\ [Next]_vars => BlockCoherent'
  BY NextBlockStep, BlockStepCoherent
<1> QED
  BY <1>1, <1>2, InitTypeInv, NextTypeInv, PTL DEF Spec

-----------------------------------------------------------------------------
(* What a walk yields *)

(* block_count of a well-formed directory rounds its length up. *)
LEMMA LenInBlocks ==
  ASSUME NEW d \in Directories, WellFormed(d)
  PROVE  /\ BlockCount(d) \in Nat /\ BlockCount(d) * BLOCK_SIZE \in Nat
         /\ d.len \in Nat /\ 0 < d.len /\ d.len <= BlockCount(d) * BLOCK_SIZE
<1> DEFINE len == d.len
           m == len + BLOCK_SIZE - 1
           k == m \div BLOCK_SIZE
<1>1. /\ len \in Nat /\ BLOCK_SIZE \in Nat \ {0} /\ U32_SIZE \in Nat \ {0}
      /\ 0 < len /\ len + BLOCK_SIZE <= U32_SIZE
  BY DirectoryAssumption, DeviceAssumption DEF WellFormed
<1> HIDE DEF len
<1>2. m \in Nat /\ m < U32_SIZE /\ len = m - BLOCK_SIZE + 1
  BY <1>1
<1> HIDE DEF m
<1>3. m % U32_SIZE = m
  BY <1>1, <1>2
<1>4. /\ k \in Nat /\ (m % BLOCK_SIZE) \in 0 .. BLOCK_SIZE - 1
      /\ m = (k * BLOCK_SIZE) + (m % BLOCK_SIZE)
  BY <1>2, Split
<1>5. BlockCount(d) = k
  BY <1>3 DEF BlockCount, m, len
<1> HIDE DEF k
<1> DEFINE b == k * BLOCK_SIZE
<1>6. b \in Nat
  <2>1. \A a, c \in Nat : a * c \in Nat
    OBVIOUS
  <2> QED
    BY <1>1, <1>4, <2>1
<1>7. m = b + (m % BLOCK_SIZE)
  BY <1>4
<1> HIDE DEF b
<1>8. len <= b
  BY <1>1, <1>2, <1>4, <1>6, <1>7
<1> QED
  BY <1>1, <1>4, <1>5, <1>6, <1>8 DEF b, len

(* A number in block q, and one in a later block. *)
LEMMA InBlock ==
  ASSUME NEW q \in Nat, NEW x \in Nat
  PROVE  /\ q * BLOCK_SIZE \in Nat /\ (q + 1) * BLOCK_SIZE = (q * BLOCK_SIZE) + BLOCK_SIZE
         /\ q < x \div BLOCK_SIZE => (q + 1) * BLOCK_SIZE <= x
         /\ q * BLOCK_SIZE <= x /\ x < (q * BLOCK_SIZE) + BLOCK_SIZE =>
              x \div BLOCK_SIZE = q /\ x % BLOCK_SIZE = x - (q * BLOCK_SIZE)
<1> DEFINE p == x \div BLOCK_SIZE
           r == x % BLOCK_SIZE
           B == BLOCK_SIZE
<1>1. B \in Nat \ {0}
  BY DeviceAssumption
<1>2. p \in Nat /\ r \in 0 .. B - 1 /\ x = (p * B) + r
  BY Split
<1> HIDE DEF p, r, B
<1>3. \A a, c \in Nat : a * c \in Nat
  OBVIOUS
<1>4. \A a, c \in Nat : (a + 1) * c = (a * c) + c
  OBVIOUS
<1>5. q * B \in Nat /\ p * B \in Nat /\ (q + 1) * B = (q * B) + B /\ (p + 1) * B = (p * B) + B
  BY <1>1, <1>2, <1>3, <1>4
<1>6. \A a, e, c \in Nat : a <= e => a * c <= e * c
  OBVIOUS
<1>7. q < p => (q + 1) * B <= p * B
  <2>1. q < p => q + 1 <= p /\ q + 1 \in Nat
    BY <1>2
  <2> QED
    BY <1>1, <1>2, <1>6, <2>1
<1>8. p < q => (p + 1) * B <= q * B
  <2>1. p < q => p + 1 <= q /\ p + 1 \in Nat
    BY <1>2
  <2> QED
    BY <1>1, <1>2, <1>6, <2>1
<1> DEFINE qB == q * B
           pB == p * B
           q1 == (q + 1) * B
<1>9. /\ qB \in Nat /\ pB \in Nat /\ q1 = qB + B /\ x = pB + r
      /\ (q < p => q1 <= pB) /\ (p < q => pB + B <= qB)
  BY <1>2, <1>5, <1>7, <1>8
<1>10. p = q => pB = qB
  OBVIOUS
<1> HIDE DEF qB, pB, q1
<1>11. q < p => q1 <= x
  BY <1>1, <1>2, <1>9
<1>12. qB <= x /\ x < qB + B => p = q
  BY <1>1, <1>2, <1>9
<1>13. qB <= x /\ x < qB + B => r = x - qB
  BY <1>2, <1>9, <1>10, <1>12
<1> QED
  BY <1>9, <1>11, <1>12, <1>13 DEF p, r, B, qB, pB, q1

(* Behind a record of a well-formed directory the next one is not before   *)
(* its end, and where too little of the block is left for a record or a    *)
(* zero byte follows it is not in the same block.                          *)
LEMMA AfterRecord ==
  ASSUME NEW d \in Directories, WellFormed(d), NEW o \in Nat,
         o < BlockCount(d) * BLOCK_SIZE, IsRecord(d, o)
  PROVE  LET at == SeekPos(d.loc) + o
             len == Records[Image[at]].len
             pos == (o % BLOCK_SIZE) + len
         IN  /\ len \in Nat \ {0}
             /\ o \in RecordOffsets(d)
             /\ \A x \in RecordOffsets(d) : o < x => o + len <= x
             /\ \/ pos >= BLOCK_SIZE - (MinRecord - 1)
                \/ pos < BLOCK_SIZE /\ at + len < ImageLen /\ Image[at + len] = ZERO
                => \A x \in RecordOffsets(d) :
                     o < x => ((o \div BLOCK_SIZE) + 1) * BLOCK_SIZE <= x
<1> DEFINE at == SeekPos(d.loc) + o
           len == Records[Image[at]].len
           q == o \div BLOCK_SIZE
           r == o % BLOCK_SIZE
           n == BlockCount(d) * BLOCK_SIZE
<1>1. /\ n \in Nat /\ d.len \in Nat /\ d.len <= n
  BY LenInBlocks
<1>2. BLOCK_SIZE \in Nat \ {0} /\ MinRecord \in Nat \ {0}
  BY DeviceAssumption, DirectoryAssumption
<1>3. q \in Nat /\ r \in 0 .. BLOCK_SIZE - 1 /\ o = (q * BLOCK_SIZE) + r
  BY Split
<1>4. len \in Nat \ {0}
  BY DirectoryAssumption DEF IsRecord
<1>5. /\ o < d.len
      /\ \A x \in RecordOffsets(d) :
           /\ x <= o \/ o + len <= x
           /\ r + len < BLOCK_SIZE /\ at + len < ImageLen /\ Image[at + len] = ZERO =>
                x <= o \/ q < x \div BLOCK_SIZE
  BY <1>1 DEF WellFormed
<1>6. \A x \in RecordOffsets(d) : x \in Nat /\ x < d.len /\ x < n /\ IsRecord(d, x)
  BY <1>1 DEF RecordOffsets
<1>7. o \in RecordOffsets(d)
  BY <1>1, <1>5 DEF RecordOffsets
<1> HIDE DEF at, len, q, r, n
<1>8. \A x \in RecordOffsets(d) : o < x => o + len <= x
  BY <1>4, <1>5, <1>6
<1>9. ASSUME r + len < BLOCK_SIZE, at + len < ImageLen, Image[at + len] = ZERO,
             NEW x \in RecordOffsets(d), o < x
      PROVE  (q + 1) * BLOCK_SIZE <= x
  <2>1. x \in Nat /\ q < x \div BLOCK_SIZE
    BY <1>5, <1>6, <1>9
  <2> QED
    BY <1>3, <2>1, InBlock
<1>10. ASSUME r + len >= BLOCK_SIZE - (MinRecord - 1), NEW x \in RecordOffsets(d), o < x
       PROVE  (q + 1) * BLOCK_SIZE <= x
  <2> DEFINE b == q * BLOCK_SIZE
             rx == x % BLOCK_SIZE
             lenx == Records[Image[SeekPos(d.loc) + x]].len
  <2>1. x \in Nat /\ x < n /\ IsRecord(d, x) /\ o + len <= x
    BY <1>6, <1>8, <1>10
  <2>2. /\ b \in Nat /\ (q + 1) * BLOCK_SIZE = b + BLOCK_SIZE
        /\ b <= x /\ x < b + BLOCK_SIZE => rx = x - b
    BY <1>3, <2>1, InBlock
  <2>3. MinRecord <= lenx /\ rx + lenx <= BLOCK_SIZE
    BY <1>1, <2>1 DEF WellFormed, n
  <2>4. lenx \in Nat /\ o = b + r
    BY <1>3, <2>1, DirectoryAssumption DEF IsRecord
  <2>5. rx \in Nat
    BY <1>2, <2>1, Split
  <2> HIDE DEF b, rx, lenx
  <2>6. b <= x
    BY <1>3, <1>4, <2>1, <2>2, <2>4
  <2>7. SUFFICES ASSUME x < b + BLOCK_SIZE
                 PROVE  FALSE
    BY <1>2, <2>1, <2>2
  <2>8. rx = x - b
    BY <2>2, <2>6, <2>7
  <2> QED
    BY <1>2, <1>3, <1>4, <1>10, <2>1, <2>2, <2>3, <2>4, <2>5, <2>8
<1> QED
  BY <1>4, <1>7, <1>8, <1>9, <1>10 DEF at, len, q, r

(* The record a call has parsed is the one its directory has at its        *)
(* offset.                                                                 *)
LEMMA RecordIsThere ==
  ASSUME TypeInv, BlockCoherent, ListInv, pc = "cont"
  PROVE  LET d == dir[W]
             at == SeekPos(d.loc) + call.offset
             pos == BlockPos + Rec.len
         IN  /\ IsRecord(d, call.offset) /\ call.rec = Image[at]
             /\ pos < BLOCK_SIZE => at + Rec.len < ImageLen /\ block[W][pos] = Image[at + Rec.len]
<1> DEFINE d == dir[W]
           l == d.loc + BlockNum
           s == SeekPos(l)
           o == call.offset
           at == SeekPos(d.loc) + o
           len == Rec.len
           r == BlockPos
<1>1. pc \in Running /\ BLOCK_SIZE \in Nat \ {0} /\ ImageLen \in Nat
  BY DeviceAssumption DEF Running
<1>2. /\ W \in Walks /\ d.loc \in Nat /\ BlockNum \in Nat /\ r \in 0 .. BLOCK_SIZE - 1
      /\ o \in Nat
  BY <1>1, CallIsAt
<1>3. block_num[W] = BlockNum /\ call.rec = block[W][r] /\ r + len <= BLOCK_SIZE
  BY DEF ListInv, CallInv, RecordCell
<1>4. s + BLOCK_SIZE <= ImageLen /\ \A i \in 0 .. BLOCK_SIZE - 1 : block[W][i] = Image[s + i]
  <2>1. block_num[W] # None
    BY <1>2, <1>3 DEF None
  <2> QED
    BY <1>2, <1>3, <2>1 DEF BlockCoherent
<1>5. call.rec \in DOMAIN Records /\ len \in Nat \ {0}
  BY DirectoryAssumption DEF TypeInv, Rec
<1>6. s \in Nat /\ s + r = at
  <2> DEFINE loc == d.loc
  <2>1. s = SeekPos(loc + (o \div BLOCK_SIZE)) /\ r = o % BLOCK_SIZE /\ at = SeekPos(loc) + o
    BY DEF BlockNum, BlockPos
  <2>2. loc \in Nat
    BY <1>2
  <2> HIDE DEF loc, s, r, at, o, d
  <2> QED
    BY <1>2, <2>1, <2>2, BlockOfByte
<1> HIDE DEF s, at, len, r, o
<1>7. at < ImageLen /\ call.rec = Image[at]
  BY <1>1, <1>2, <1>3, <1>4, <1>6
<1>8. r + len < BLOCK_SIZE => at + len < ImageLen /\ block[W][r + len] = Image[at + len]
  <2>1. SUFFICES ASSUME r + len < BLOCK_SIZE
                 PROVE  at + len < ImageLen /\ block[W][r + len] = Image[at + len]
    OBVIOUS
  <2>2. r + len \in 0 .. BLOCK_SIZE - 1 /\ s + (r + len) = at + len
    BY <1>1, <1>2, <1>5, <1>6, <2>1
  <2>3. block[W][r + len] = Image[at + len]
    BY <1>4, <2>2
  <2> QED
    BY <1>1, <1>2, <1>4, <1>5, <1>6, <2>1, <2>3
<1> QED
  BY <1>5, <1>7, <1>8 DEF IsRecord, at, len, r, o

(* Between a record and the offset read_entry_at returns with it there is  *)
(* no other, also where that offset is in the next block or there is none. *)
LEMMA NextIsNext ==
  ASSUME AllWellFormed, TypeInv, BlockCoherent, ListInv, pc = "cont"
  PROVE  /\ {x \in RecordOffsets(dir[W]) : NextOffset = None \/ x < NextOffset}
              = {x \in RecordOffsets(dir[W]) : x < call.offset} \cup {call.offset}
         /\ NextOffset # None => NextOffset < BlockCount(dir[W]) * BLOCK_SIZE
<1> DEFINE d == dir[W]
           o == call.offset
           n == BlockCount(d)
           size == n * BLOCK_SIZE
           q == BlockNum
           r == BlockPos
           len == Rec.len
           pos == r + len
           at == SeekPos(d.loc) + o
           skip == pos >= BLOCK_SIZE - (MinRecord - 1) \/ block[W][pos] = ZERO
           num == IF skip THEN q + 1 ELSE q
           base == q * BLOCK_SIZE
           next == NextOffset
           RO == RecordOffsets(d)
<1>1. pc \in Running /\ BLOCK_SIZE \in Nat \ {0} /\ MinRecord \in 1 .. BLOCK_SIZE
  BY DeviceAssumption, DirectoryAssumption DEF Running
<1>2. /\ W \in Walks /\ d \in Directories /\ q \in Nat /\ r \in 0 .. BLOCK_SIZE - 1
      /\ o \in Nat /\ o = base + r
  BY <1>1, CallIsAt
<1>3. WellFormed(d)
  BY <1>2 DEF AllWellFormed
<1>4. n \in Nat /\ size \in Nat /\ d.len \in Nat /\ d.len <= size
  BY <1>2, <1>3, LenInBlocks
<1>5. o < size
  <2>1. o = next_offset[W] /\ o # None
    BY <1>1, <1>2 DEF ListInv, CallInv, None
  <2> QED
    BY <1>2, <2>1 DEF ListInv
<1>6. /\ IsRecord(d, o) /\ call.rec = Image[at]
      /\ pos < BLOCK_SIZE => at + len < ImageLen /\ block[W][pos] = Image[at + len]
  BY RecordIsThere
<1>7. len = Records[Image[at]].len
  BY <1>6 DEF Rec
<1>8. /\ len \in Nat \ {0}
      /\ num >= n => next = None
      /\ num < n => next \in Nat
      /\ num < n /\ skip => next = num * BLOCK_SIZE
      /\ num < n /\ ~skip => next = (num * BLOCK_SIZE) + pos
  BY NextOffsetIs
<1>9. skip => \/ pos >= BLOCK_SIZE - (MinRecord - 1)
              \/ pos < BLOCK_SIZE /\ at + len < ImageLen /\ Image[at + len] = ZERO
  <2>1. block[W][pos] = ZERO /\ ~(pos >= BLOCK_SIZE - (MinRecord - 1)) => pos < BLOCK_SIZE
    BY <1>1, <1>2, <1>8
  <2> QED
    BY <1>6, <2>1
<1>10. /\ o \in RO
       /\ \A x \in RO : o < x => o + len <= x
       /\ skip => \A x \in RO : o < x => (q + 1) * BLOCK_SIZE <= x
  <2>1. q = o \div BLOCK_SIZE /\ r = o % BLOCK_SIZE
    BY DEF BlockNum, BlockPos
  <2> DEFINE rec == Records[Image[at]]
  <2> HIDE DEF o, d
  <2>2. /\ o \in RO
        /\ \A x \in RO : o < x => o + rec.len <= x
        /\ \/ (o % BLOCK_SIZE) + rec.len >= BLOCK_SIZE - (MinRecord - 1)
           \/ /\ (o % BLOCK_SIZE) + rec.len < BLOCK_SIZE
              /\ at + rec.len < ImageLen /\ Image[at + rec.len] = ZERO
           => \A x \in RO : o < x => ((o \div BLOCK_SIZE) + 1) * BLOCK_SIZE <= x
    BY <1>2, <1>3, <1>5, <1>6, AfterRecord
  <2> HIDE DEF skip, q, r, len, at, RO, rec
  <2>3. rec.len = len
    BY <1>7 DEF rec
  <2> QED
    BY <1>9, <2>1, <2>2, <2>3
<1>11. \A x \in RO : x \in Nat /\ x < d.len /\ x < size
  BY <1>4 DEF RecordOffsets
<1>12. ~skip => pos < BLOCK_SIZE
  BY <1>1, <1>2, <1>8
<1> HIDE DEF RO, next, skip, len, o, q, r, n
<1>13. /\ base \in Nat /\ (q + 1) * BLOCK_SIZE = base + BLOCK_SIZE
  BY <1>2, InBlock
<1>14. num <= n /\ (num < n => (num * BLOCK_SIZE) + BLOCK_SIZE <= size) /\ (num = n => num * BLOCK_SIZE = size)
  <2>1. q < n
    <3>1. \A a, e, c \in Nat : a <= e => a * c <= e * c
      OBVIOUS
    <3>2. n <= q => size <= base
      BY <1>1, <1>2, <1>4, <3>1
    <3> HIDE DEF size, base
    <3> QED
      BY <1>1, <1>2, <1>4, <1>5, <1>13, <3>2
  <2>2. num \in Nat /\ num <= n
    BY <1>2, <1>4, <2>1
  <2> HIDE DEF num
  <2>3. num < n => (num + 1) * BLOCK_SIZE <= size
    <3>1. \A a, e, c \in Nat : a <= e => a * c <= e * c
      OBVIOUS
    <3>2. num < n => num + 1 <= n /\ num + 1 \in Nat
      BY <1>4, <2>2
    <3> QED
      BY <1>1, <1>4, <3>1, <3>2
  <2>4. (num + 1) * BLOCK_SIZE = (num * BLOCK_SIZE) + BLOCK_SIZE
    BY <2>2, InBlock
  <2> QED
    BY <2>2, <2>3, <2>4
<1> DEFINE b1 == num * BLOCK_SIZE
<1>15. (skip => b1 = base + BLOCK_SIZE) /\ (~skip => b1 = base) /\ b1 \in Nat
  BY <1>1, <1>13
<1> HIDE DEF b1, base, size, pos
<1>16. /\ num >= n => next = None /\ b1 = size
       /\ num < n => next \in Nat /\ b1 + BLOCK_SIZE <= size
       /\ num < n /\ skip => next = b1
       /\ num < n /\ ~skip => next = b1 + pos
  <2>1. num \in Nat
    BY <1>2
  <2> HIDE DEF num
  <2> QED
    BY <1>4, <1>8, <1>14, <2>1 DEF b1
<1>17. pos = r + len
  BY DEF pos
<1>18. next # None => next < size
  BY <1>1, <1>2, <1>4, <1>8, <1>12, <1>15, <1>16, <1>17, <1>14
<1>19. ASSUME NEW x \in RO
       PROVE  (next = None \/ x < next) <=> (x < o \/ x = o)
  <2>1. x \in Nat /\ x < size
    BY <1>11
  <2>2. CASE skip
    <3>1. o < x => b1 <= x
      BY <1>10, <1>13, <1>15, <2>2, <2>1
    <3>2. o < b1
      BY <1>1, <1>2, <1>13, <1>15, <2>2
    <3>3. CASE num < n
      BY <1>2, <1>15, <1>16, <2>1, <2>2, <3>1, <3>2, <3>3 DEF None
    <3>4. CASE num >= n
      BY <1>2, <1>15, <1>16, <2>1, <2>2, <3>1, <3>2, <3>4 DEF None
    <3> QED
      BY <1>2, <1>4, <3>3, <3>4
  <2>3. CASE ~skip
    <3>1. num = q /\ b1 = base
      BY <1>15, <2>3
    <3>2. num < n
      <4>1. ~(b1 = size)
        BY <1>1, <1>2, <1>4, <1>5, <1>13, <1>15, <3>1
      <4> QED
        BY <1>2, <1>4, <1>16, <3>1, <4>1
    <3>3. next = o + len
      BY <1>2, <1>8, <1>13, <1>16, <1>17, <2>3, <3>1, <3>2
    <3> QED
      BY <1>2, <1>8, <1>10, <2>1, <3>3 DEF None
  <2> QED
    BY <2>2, <2>3
<1> QED
  BY <1>10, <1>18, <1>19 DEF RO, next, o, d, size, n

(* What a step does to a walk: nothing, or it begins anew, or it yields    *)
(* the record of the running call.                                         *)
WalkStep(w) ==
  \/ UNCHANGED <<dir[w], next_offset[w], listed[w]>>
  \/ dir'[w] \in Directories /\ next_offset'[w] = 0 /\ listed'[w] = {}
  \/ /\ pc = "cont" /\ w = W /\ UNCHANGED dir[w]
     /\ next_offset'[w] = NextOffset /\ listed'[w] = listed[w] \cup {call.offset}

LEMMA WalkStepLists ==
  ASSUME AllWellFormed, TypeInv, BlockCoherent, ListInv, NEW w \in Walks, WalkStep(w)
  PROVE  /\ listed'[w] = {o \in RecordOffsets(dir'[w]) :
                            next_offset'[w] = None \/ o < next_offset'[w]}
         /\ next_offset'[w] # None => next_offset'[w] < BlockCount(dir'[w]) * BLOCK_SIZE
<1>1. CASE UNCHANGED <<dir[w], next_offset[w], listed[w]>>
  BY <1>1 DEF ListInv, ListedExactly
<1>2. CASE dir'[w] \in Directories /\ next_offset'[w] = 0 /\ listed'[w] = {}
  <2> DEFINE d == dir'[w]
  <2>1. d \in Directories /\ WellFormed(d)
    BY <1>2 DEF AllWellFormed
  <2> HIDE DEF d
  <2>2. 0 < BlockCount(d) * BLOCK_SIZE
    BY <2>1, LenInBlocks
  <2>3. {o \in RecordOffsets(d) : 0 = None \/ o < 0} = {}
    <3>1. d.len \in Nat
      BY <2>1, LenInBlocks
    <3> QED
      BY <3>1 DEF RecordOffsets, None
  <2> QED
    BY <1>2, <2>2, <2>3 DEF d
<1>3. CASE /\ pc = "cont" /\ w = W /\ UNCHANGED dir[w]
           /\ next_offset'[w] = NextOffset /\ listed'[w] = listed[w] \cup {call.offset}
  <2>1. call.offset = next_offset[W] /\ call.offset # None
    BY <1>3 DEF ListInv, CallInv, TypeInv, Running, None
  <2>2. listed[w] = {x \in RecordOffsets(dir[W]) : x < call.offset}
    BY <1>3, <2>1 DEF ListInv, ListedExactly
  <2> QED
    BY <1>3, <2>2, NextIsNext
<1> QED
  BY <1>1, <1>2, <1>3 DEF WalkStep

(* Every step does one of those to every walk. *)
LEMMA NextWalkStep ==
  ASSUME TypeInv, ListInv, [Next]_vars
  PROVE  listed' \in [Walks -> SUBSET Int] /\ \A w \in Walks : WalkStep(w)
<1>1. /\ dir \in [Walks -> Directories] /\ next_offset \in [Walks -> Nat \cup {None}]
      /\ listed \in [Walks -> SUBSET Int] /\ W \in Walks /\ Finder \in Walks
      /\ Iterators \subseteq Walks /\ Root \in Directories /\ dirs \subseteq Directories
  BY DEF TypeInv, TypeOK, ListInv, Walks, W, Directories
<1> DEFINE Goal == listed' \in [Walks -> SUBSET Int] /\ \A w \in Walks : WalkStep(w)
<1> SUFFICES Goal
  OBVIOUS
<1>2. ASSUME UNCHANGED <<dir, next_offset, listed>>
      PROVE  Goal
  BY <1>1, <1>2 DEF WalkStep
<1>3. ASSUME NEW v \in Walks, NEW d \in Directories, NewIterator(v, d)
      PROVE  Goal
  BY <1>1, <1>3 DEF NewIterator, WalkStep
<1>4. ASSUME NEW b, NEW num, Fail(b, num)
      PROVE  Goal
  BY <1>1, <1>2, <1>3, <1>4 DEF Fail, FailWith
<1>5. ASSUME pc = "cont", Advance
      PROVE  Goal
  <2>1. call.offset \in Int
    BY <1>5 DEF TypeInv, Running
  <2>2. /\ next_offset' = [next_offset EXCEPT ![W] = NextOffset]
        /\ listed' = [listed EXCEPT ![W] = @ \cup {call.offset}] /\ UNCHANGED dir
    BY <1>5 DEF Advance
  <2>3. listed' \in [Walks -> SUBSET Int]
    BY <1>1, <2>1, <2>2
  <2>4. ASSUME NEW w \in Walks
        PROVE  WalkStep(w)
    BY <1>1, <1>5, <2>2 DEF WalkStep
  <2> QED
    BY <2>3, <2>4
<1>6. ASSUME pc = "cont"
      PROVE  EntryDir(call.rec, call.susp) \subseteq Directories
  <2>1. call.rec \in DOMAIN Records /\ call.susp \in Seq(Susp)
    BY <1>6 DEF TypeInv, CallRecord
  <2> QED
    BY <2>1, EntryDirType
<1> HIDE DEF Goal
<1>7. CASE LoadShort \/ LoadFails \/ ParseFails \/ ContinueFails \/ NameFails
  BY <1>4, <1>7 DEF LoadShort, LoadShortWith, LoadFails, ParseFails, ContinueFails, NameFails,
                    FailHere
<1>8. CASE LoadCached \/ LoadBlock \/ Parse \/ FindSelfReturns \/ UNCHANGED vars
  BY <1>2, <1>8 DEF LoadCached, LoadBlock, Parse, FindSelfReturns, vars, walkVars
<1>9. CASE Continue
  BY <1>2, <1>4, <1>9 DEF Continue, FailHere, walkVars
<1>10. CASE Yield \/ FindReturns
  BY <1>1, <1>3, <1>5, <1>10 DEF Yield, FindReturns, FindEnds, HasEntry
<1>11. CASE FindDescends
  BY <1>1, <1>3, <1>6, <1>11 DEF FindDescends, FindEnds, HasEntry
<1>12. CASE FindGoesOn
  BY <1>1, <1>3, <1>5, <1>12 DEF FindGoesOn, FindEnds, HasEntry
<1>13. ASSUME NEW v \in Iterators, NextCall(v) \/ NextNone(v) \/ Resume(v)
       PROVE  Goal
  BY <1>2, <1>13 DEF NextCall, NextNone, Resume, walkVars
<1>14. ASSUME NEW v \in Iterators, NEW d \in dirs, Contents(v, d)
       PROVE  Goal
  BY <1>1, <1>3, <1>14 DEF Contents
<1>15. ASSUME NEW d \in dirs, NEW path, FindRecursive(d, path) \/ StartFind(d, path)
       PROVE  Goal
  BY <1>1, <1>3, <1>15 DEF FindRecursive, StartFind
<1>16. ASSUME NEW d \in dirs, NEW path, FindSelf(d, path)
       PROVE  Goal
  BY <1>2, <1>16 DEF FindSelf, walkVars
<1> QED
  BY <1>7, <1>8, <1>9, <1>10, <1>11, <1>12, <1>13, <1>14, <1>15, <1>16
     DEF Next, Step, FindCall

(* What is known of a running call stays so, to its next step. *)
LEMMA NextCallInv ==
  ASSUME TypeInv, CallInv, [Next]_vars
  PROVE  CallInv'
<1>1. W \in Walks /\ Finder \in Walks /\ next_offset \in [Walks -> Nat \cup {None}]
  BY DEF TypeInv, TypeOK, W, Walks
<1>2. ASSUME pc' \in {"idle", "self"}
      PROVE  CallInv'
  BY <1>2 DEF CallInv, Running
<1>3. ASSUME call'.w = call.w, call'.offset = call.offset
      PROVE  W' = W /\ BlockNum' = BlockNum /\ BlockPos' = BlockPos
  BY <1>3 DEF W, BlockNum, BlockPos
<1>4. ASSUME pc' = "load", call'.offset = next_offset'[call'.w]
      PROVE  CallInv'
  BY <1>4 DEF CallInv, Running, W
<1>5. CASE LoadCached \/ LoadBlock
  <2>1. UNCHANGED <<call, next_offset>> /\ pc = "load" /\ pc' = "parse"
    BY <1>5 DEF LoadCached, LoadBlock, walkVars
  <2>2. W' = W /\ BlockNum' = BlockNum
    BY <1>3, <2>1
  <2>3. block_num'[W] = BlockNum
    BY <1>1, <1>5 DEF LoadCached, LoadBlock, walkVars, TypeInv, TypeOK
  <2>4. call.offset = next_offset[W]
    BY <2>1 DEF CallInv, Running
  <2> QED
    BY <2>1, <2>2, <2>3, <2>4 DEF CallInv
<1>6. CASE Parse
  <2> DEFINE c == RecordCell
             s == NotCEs(Records[RecordCell].susp)
             a == LastCE(Records[RecordCell].susp)
  <2>1. /\ c \in DOMAIN Records /\ c \in Cell /\ Records[c].susp \in Seq(Susp)
        /\ BlockPos + Records[c].len <= BLOCK_SIZE
    BY <1>6, DirectoryAssumption DEF Parse, Parses
  <2>2. s \in Seq(Susp) /\ a \in Susp \cup {NoCont}
    BY <2>1, NotCEsType, LastCEType
  <2>3. call' = [call EXCEPT !.rec = c, !.susp = s, !.cont = a] /\ call \in CallRecord
    BY <1>6 DEF Parse, TypeInv
  <2>4. pc = "parse" /\ pc' = "cont" /\ UNCHANGED <<next_offset, block, block_num>>
    BY <1>6 DEF Parse, walkVars
  <2> HIDE DEF s, a
  <2>5. call'.w = call.w /\ call'.offset = call.offset /\ call'.rec = c
    <3> HIDE DEF c
    <3> QED
      BY <2>1, <2>2, <2>3, CallParses, Zenon
  <2>6. W' = W /\ BlockNum' = BlockNum /\ BlockPos' = BlockPos
    BY <1>3, <2>5
  <2>7. RecordCell' = c
    BY <2>4, <2>6 DEF RecordCell
  <2>8. Rec' = Records[c]
    BY <2>5 DEF Rec
  <2> HIDE DEF c
  <2>9. call.offset = next_offset[W] /\ block_num[W] = BlockNum
    BY <2>4 DEF CallInv, Running
  <2> QED
    BY <2>1, <2>4, <2>5, <2>6, <2>7, <2>8, <2>9 DEF CallInv
<1>7. ASSUME NEW s, NEW a, call' = [call EXCEPT !.susp = s, !.cont = a],
             UNCHANGED <<walkVars, pc>>
      PROVE  CallInv'
  <2>1. call'.w = call.w /\ call'.offset = call.offset /\ call'.rec = call.rec
    <3>1. call \in CallRecord
      BY DEF TypeInv
    <3> QED
      BY <1>7, <3>1, Zenon DEF CallRecord
  <2>2. UNCHANGED <<pc, next_offset, block, block_num>>
    BY <1>7 DEF walkVars
  <2>3. W' = W /\ BlockNum' = BlockNum /\ BlockPos' = BlockPos
    BY <1>3, <2>1
  <2>4. RecordCell' = RecordCell /\ Rec' = Rec
    BY <2>1, <2>2, <2>3 DEF RecordCell, Rec
  <2> QED
    BY <2>1, <2>2, <2>3, <2>4 DEF CallInv
<1>8. ASSUME NEW b, NEW num, Fail(b, num)
      PROVE  CallInv'
  BY <1>2, <1>8 DEF Fail, FailWith, Return
<1>9. CASE LoadShort \/ LoadFails \/ ParseFails \/ ContinueFails \/ NameFails
  BY <1>8, <1>9 DEF LoadShort, LoadShortWith, LoadFails, ParseFails, ContinueFails, NameFails,
                    FailHere
<1>10. CASE Continue
  BY <1>7, <1>8, <1>10, Zenon DEF Continue, FailHere
<1>11. CASE Yield \/ FindReturns \/ FindSelfReturns
  BY <1>2, <1>11 DEF Yield, FindReturns, FindSelfReturns, FindEnds, Return
<1>12. ASSUME FindEnds("none")
       PROVE  CallInv'
  BY <1>2, <1>12 DEF FindEnds, Return
<1>13. ASSUME pc = "cont", call.op = "find", NEW d, NewIterator(Finder, d), pc' = "load",
              call' = [call EXCEPT !.i = Min(Further), !.offset = 0]
       PROVE  CallInv'
  <2>1. call.w = Finder
    BY <1>13 DEF TypeInv, Running
  <2>2. call'.w = call.w /\ call'.offset = 0
    <3>1. call \in CallRecord
      BY DEF TypeInv
    <3> QED
      BY <1>13, <3>1, Zenon DEF CallRecord
  <2>3. next_offset' = [next_offset EXCEPT ![Finder] = 0] /\ pc' = "load"
    BY <1>13 DEF NewIterator
  <2>4. next_offset'[Finder] = 0
    BY <1>1, <2>3
  <2> QED
    BY <1>4, <2>1, <2>2, <2>3, <2>4
<1>14. ASSUME Advance, pc' = "load", call' = [call EXCEPT !.offset = NextOffset]
       PROVE  CallInv'
  <2>1. call'.w = call.w /\ call'.offset = NextOffset
    <3>1. call \in CallRecord
      BY DEF TypeInv
    <3> QED
      BY <1>14, <3>1, Zenon DEF CallRecord
  <2>2. next_offset' = [next_offset EXCEPT ![W] = NextOffset] /\ pc' = "load"
    BY <1>14 DEF Advance
  <2>3. next_offset'[W] = NextOffset
    BY <1>1, <2>2
  <2> QED
    BY <1>4, <2>1, <2>2, <2>3 DEF W
<1>15. CASE FindDescends
  BY <1>12, <1>13, <1>15, Zenon DEF FindDescends, HasEntry
<1>16. CASE FindGoesOn
  BY <1>12, <1>14, <1>16, Zenon DEF FindGoesOn
<1>17. ASSUME NEW v \in Iterators, NextCall(v)
       PROVE  CallInv'
  <2>1. call'.w = v /\ call'.offset = next_offset[v] /\ pc' = "load" /\ UNCHANGED next_offset
    BY <1>17 DEF NextCall, NewCall, walkVars
  <2> QED
    BY <1>4, <2>1
<1>18. ASSUME NEW d, NEW path, StartFind(d, path)
       PROVE  CallInv'
  <2>1. call'.w = Finder /\ call'.offset = 0 /\ pc' = "load" /\ next_offset'[Finder] = 0
    BY <1>1, <1>18 DEF StartFind, NewCall, NewIterator
  <2> QED
    BY <1>4, <2>1
<1>19. ASSUME NEW v \in Iterators, NextNone(v) \/ Resume(v) \/ \E d \in dirs : Contents(v, d)
       PROVE  CallInv'
  <2>1. pc' = "idle"
    BY <1>19 DEF NextNone, Resume, Contents
  <2> QED
    BY <1>2, <2>1
<1>20. ASSUME NEW d, NEW path, FindSelf(d, path)
       PROVE  CallInv'
  BY <1>2, <1>20 DEF FindSelf
<1>21. CASE UNCHANGED vars
  BY <1>21 DEF vars, walkVars, CallInv, W, BlockNum, BlockPos, RecordCell, Rec
<1> QED
  BY <1>5, <1>6, <1>9, <1>10, <1>11, <1>15, <1>16, <1>17, <1>18, <1>19, <1>20, <1>21
     DEF Next, Step, FindCall, FindRecursive

LEMMA InitListInv ==
  ASSUME AllWellFormed, Init
  PROVE  ListInv
<1>1. Root \in Directories /\ WellFormed(Root)
  BY DEF Directories, AllWellFormed
<1>2. 0 < BlockCount(Root) * BLOCK_SIZE /\ Root.len \in Nat
  BY <1>1, LenInBlocks
<1>3. {o \in RecordOffsets(Root) : 0 = None \/ o < 0} = {}
  BY <1>2 DEF RecordOffsets, None
<1> QED
  BY <1>2, <1>3 DEF Init, ListInv, CallInv, ListedExactly, Running

(* Every step keeps a walk's list exact. *)
LEMMA NextListInv ==
  ASSUME AllWellFormed, TypeInv, BlockCoherent, ListInv, [Next]_vars
  PROVE  ListInv'
<1>1. CallInv
  BY DEF ListInv
<1>2. CallInv'
  BY <1>1, NextCallInv
<1>3. listed' \in [Walks -> SUBSET Int] /\ \A w \in Walks : WalkStep(w)
  BY NextWalkStep
<1>4. \A w \in Walks :
        /\ listed'[w] = {o \in RecordOffsets(dir'[w]) :
                           next_offset'[w] = None \/ o < next_offset'[w]}
        /\ next_offset'[w] # None => next_offset'[w] < BlockCount(dir'[w]) * BLOCK_SIZE
  BY <1>3, WalkStepLists
<1>5. ListedExactly'
  BY <1>4 DEF ListedExactly
<1> QED
  BY <1>2, <1>3, <1>4, <1>5 DEF ListInv

(* If every directory of the image is well formed, a walk that goes on     *)
(* after any number of failed and short reads has yielded exactly the      *)
(* records before its offset, and when it has ended all of them: none is   *)
(* skipped at the end of a block, yielded twice, or made of other bytes    *)
(* (read_entry_at, ISODirectoryIterator::next).                            *)
THEOREM WalksListExactly ==
  ASSUME AllWellFormed
  PROVE  Spec => []ListedExactly
<1>1. Init => ListInv
  BY InitListInv
<1>2. TypeInv /\ BlockCoherent /\ ListInv /\ [Next]_vars => ListInv'
  BY NextListInv
<1>3. Init => BlockCoherent
  BY DEF Init, BlockCoherent
<1>4. TypeInv /\ BlockCoherent /\ [Next]_vars => BlockCoherent'
  BY NextBlockStep, BlockStepCoherent
<1>5. ListInv => ListedExactly
  BY DEF ListInv
<1> QED
  BY <1>1, <1>2, <1>3, <1>4, <1>5, InitTypeInv, NextTypeInv, PTL DEF Spec

=============================================================================
