------------------------ MODULE DirectoryStreamProofs ------------------------
(***************************************************************************)
(* Proofs about what the calls of IsoDirectory return, for every image     *)
(* whose directories and continuation areas are well formed: an entry has  *)
(* all the System Use entries recorded for it, find and find_recursive     *)
(* give what their path leads to, and the walks implement DirectoryStream. *)
(* Reads may fail any number of times but not fall short: the filling of a *)
(* continuation area is not checked by the code.                           *)
(***************************************************************************)
EXTENDS IsoDirectoryProofs, SequenceTheorems, FiniteSetTheorems

-----------------------------------------------------------------------------
(* The inductive invariants *)

(* The entries of the areas a chain has left. *)
Left(cont) == IF cont = NoCont THEN <<>> ELSE Area[cont]

(* What a call has read and what is left of the chain make all entries. *)
SuspInv ==
  /\ SuspComplete
  /\ pc = "self" => call.offset = None /\ call.op = "find"
  /\ pc = "cont" => CEs(call.susp) = {} /\ call.susp \o Left(call.cont) = FullSusp(call.rec)

(* A find is in the directory the segments before lead to, and has passed  *)
(* over no record that matches.                                            *)
FindInv ==
  /\ FindIsRight
  /\ pc = "self" => Rest(call.path, 1) = {}
  /\ pc \in Running /\ call.op = "find" =>
       /\ call.i \in Rest(call.path, 1)
       /\ Located(call.from, call.path)[call.i - 1].is = {dir[W]}
       /\ \A o \in Matches(dir[W], Wanted) : call.offset <= o

-----------------------------------------------------------------------------
(* The entries of a record or an area, and its continuation area *)

(* NotCEs drops the entry at m, the only continuation area, and keeps the  *)
(* others in order; m is behind the end if there is none.                  *)
LEMMA NotCEsAt ==
  ASSUME NEW es \in Seq(Susp), NEW m \in 1 .. Len(es) + 1,
         \A i \in 1 .. Len(es) : IsCE(es[i]) <=> i = m
  PROVE  /\ Len(NotCEs(es)) = IF m <= Len(es) THEN Len(es) - 1 ELSE Len(es)
         /\ \A k \in 1 .. Len(NotCEs(es)) :
              NotCEs(es)[k] = IF k < m THEN es[k] ELSE es[k + 1]
<1>1. PICK g : Pushes(es, g, Len(es)) /\ NotCEs(es) = g[Len(es)]
  BY NotCEsIsFold
<1> DEFINE Shape(i) == /\ Len(g[i]) = IF m <= i THEN i - 1 ELSE i
                       /\ \A k \in 1 .. Len(g[i]) :
                            g[i][k] = IF k < m THEN es[k] ELSE es[k + 1]
           T == {i \in Nat : i <= Len(es) => Shape(i)}
<1>2. Len(es) \in Nat /\ m \in Nat \ {0}
  OBVIOUS
<1>3. 0 \in T
  <2>1. g[0] = <<>>
    BY <1>1 DEF Pushes
  <2> QED
    BY <1>2, <2>1
<1>4. ASSUME NEW i \in Nat, i \in T
      PROVE  i + 1 \in T
  <2> SUFFICES ASSUME i + 1 <= Len(es)
               PROVE  Shape(i + 1)
    OBVIOUS
  <2> DEFINE j == i + 1
  <2>1. Shape(i)
    BY <1>2, <1>4
  <2>2. j \in 1 .. Len(es) /\ j - 1 = i /\ i \in 0 .. Len(es)
    BY <1>2
  <2>3. g[j] = IF IsCE(es[j]) THEN g[i] ELSE Append(g[i], es[j])
    <3> HIDE DEF j
    <3> QED
      BY <1>1, <2>2 DEF Pushes
  <2>4. g[i] \in Seq(Susp) /\ Len(g[i]) \in Nat
    <3>1. g[i] \in Seq(Susp)
      BY <1>1, <2>2 DEF Pushes
    <3> QED
      BY <3>1
  <2>5. CASE j = m
    <3>1. g[j] = g[i]
      BY <2>2, <2>3, <2>5
    <3> QED
      BY <1>2, <2>1, <2>5, <3>1
  <2>6. CASE j # m
    <3>1. g[j] = Append(g[i], es[j])
      BY <2>2, <2>3, <2>6
    <3> DEFINE s == g[i]
               x == es[j]
    <3>2. /\ Len(Append(s, x)) = Len(s) + 1
          /\ \A k \in 1 .. Len(s) : Append(s, x)[k] = s[k]
          /\ Append(s, x)[Len(s) + 1] = x
      BY <2>4
    <3>3. Len(g[j]) = IF m <= j THEN j - 1 ELSE j
      BY <1>2, <2>1, <2>4, <2>6, <3>1, <3>2
    <3>4. ASSUME NEW k \in 1 .. Len(g[j])
          PROVE  g[j][k] = IF k < m THEN es[k] ELSE es[k + 1]
      <4>1. CASE k \in 1 .. Len(s)
        BY <2>1, <3>1, <3>2, <4>1
      <4>2. CASE k = Len(s) + 1
        <5>1. g[j][k] = es[j]
          BY <3>1, <3>2, <4>2
        <5>2. IF m <= i THEN k = i ELSE k = j
          BY <1>2, <2>1, <4>2
        <5>3. CASE m <= i
          <6>1. k = i /\ ~(k < m) /\ k + 1 = j
            BY <1>2, <5>2, <5>3
          <6> QED
            BY <5>1, <6>1
        <5>4. CASE ~(m <= i)
          <6>1. k = j /\ k < m
            BY <1>2, <2>6, <5>2, <5>4
          <6> QED
            BY <5>1, <6>1
        <5> QED
          BY <5>3, <5>4
      <4> QED
        BY <2>4, <3>1, <3>2, <4>1, <4>2
    <3> QED
      BY <3>3, <3>4
  <2> QED
    BY <2>5, <2>6
<1>5. Nat \subseteq T
  <2> HIDE DEF T
  <2> QED
    BY <1>3, <1>4, Induction
<1>6. Shape(Len(es))
  BY <1>2, <1>5
<1> QED
  BY <1>1, <1>6

(* No continuation area is left in what NotCEs gives. *)
LEMMA NotCEsHasNone ==
  ASSUME NEW es \in Seq(Susp)
  PROVE  CEs(NotCEs(es)) = {}
<1>1. PICK g : Pushes(es, g, Len(es)) /\ NotCEs(es) = g[Len(es)]
  BY NotCEsIsFold
<1> DEFINE T == {i \in Nat : i <= Len(es) => \A k \in 1 .. Len(g[i]) : ~IsCE(g[i][k])}
<1>2. Len(es) \in Nat
  OBVIOUS
<1>3. 0 \in T
  <2>1. g[0] = <<>>
    BY <1>1 DEF Pushes
  <2> QED
    BY <2>1
<1>4. ASSUME NEW i \in Nat, i \in T
      PROVE  i + 1 \in T
  <2> SUFFICES ASSUME i + 1 <= Len(es)
               PROVE  \A k \in 1 .. Len(g[i + 1]) : ~IsCE(g[i + 1][k])
    OBVIOUS
  <2> DEFINE j == i + 1
  <2>1. \A k \in 1 .. Len(g[i]) : ~IsCE(g[i][k])
    BY <1>2, <1>4
  <2>2. j \in 1 .. Len(es) /\ j - 1 = i /\ i \in 0 .. Len(es)
    BY <1>2
  <2>3. g[j] = IF IsCE(es[j]) THEN g[i] ELSE Append(g[i], es[j])
    <3> HIDE DEF j
    <3> QED
      BY <1>1, <2>2 DEF Pushes
  <2>4. g[i] \in Seq(Susp)
    BY <1>1, <2>2 DEF Pushes
  <2> DEFINE s == g[i]
             x == es[j]
  <2>5. /\ Len(Append(s, x)) = Len(s) + 1 /\ Len(s) \in Nat
        /\ \A k \in 1 .. Len(s) : Append(s, x)[k] = s[k]
        /\ Append(s, x)[Len(s) + 1] = x
    BY <2>4
  <2> HIDE DEF s, x, j
  <2>6. CASE IsCE(x)
    BY <2>1, <2>3, <2>6 DEF s, x, j
  <2>7. CASE ~IsCE(x)
    <3>1. g[j] = Append(s, x)
      BY <2>3, <2>7 DEF s, x
    <3>2. \A k \in 1 .. Len(g[j]) : k \in 1 .. Len(s) \/ k = Len(s) + 1
      BY <2>5, <3>1
    <3>3. \A k \in 1 .. Len(g[j]) : ~IsCE(g[j][k])
      BY <2>1, <2>5, <2>7, <3>1, <3>2 DEF s
    <3> QED
      BY <3>3 DEF j
  <2> QED
    BY <2>6, <2>7
<1>5. Nat \subseteq T
  <2> HIDE DEF T
  <2> QED
    BY <1>3, <1>4, Induction
<1> QED
  BY <1>1, <1>2, <1>5 DEF CEs

(* Vec::remove: one element goes, the others keep their order. *)
LEMMA Removes ==
  ASSUME NEW S, NEW s \in Seq(S), NEW m \in 1 .. Len(s)
  PROVE  /\ RemoveAt(s, m) \in Seq(S) /\ Len(RemoveAt(s, m)) = Len(s) - 1
         /\ \A k \in 1 .. Len(s) - 1 : RemoveAt(s, m)[k] = IF k < m THEN s[k] ELSE s[k + 1]
<1> DEFINE n == Len(s)
           a == SubSeq(s, 1, m - 1)
           b == SubSeq(s, m + 1, n)
<1>1. n \in Nat /\ m \in 1 .. n
  OBVIOUS
<1>2. /\ a \in Seq(S) /\ Len(a) = m - 1
      /\ \A k \in 1 .. m - 1 : a[k] = s[k]
  <2>1. /\ 1 \in 1 .. n + 1 /\ m - 1 \in 1 - 1 .. n /\ m - 1 - 1 + 1 = m - 1
        /\ \A k \in 1 .. m - 1 : 1 + k - 1 = k
    BY <1>1
  <2> DEFINE c == m - 1
  <2>2. c \in Int
    BY <1>1
  <2> QED
    BY <1>1, <2>1
<1>3. /\ b \in Seq(S) /\ Len(b) = n - m
      /\ \A k \in 1 .. n - m : b[k] = s[m + k]
  BY <1>1
<1>4. RemoveAt(s, m) = a \o b
  BY DEF RemoveAt
<1> HIDE DEF a, b, n
<1>5. /\ a \o b \in Seq(S) /\ Len(a \o b) = n - 1
      /\ \A k \in 1 .. m - 1 : (a \o b)[k] = a[k]
      /\ \A k \in m .. n - 1 : (a \o b)[k] = b[k - (m - 1)]
  <2>1. /\ a \o b \in Seq(S) /\ Len(a \o b) = Len(a) + Len(b)
        /\ \A k \in 1 .. Len(a) + Len(b) :
             (a \o b)[k] = IF k <= Len(a) THEN a[k] ELSE b[k - Len(a)]
    BY <1>2, <1>3, ConcatProperties
  <2>2. /\ Len(a) = m - 1 /\ Len(a) + Len(b) = n - 1
        /\ \A k \in 1 .. m - 1 : k \in 1 .. n - 1 /\ k <= m - 1
        /\ \A k \in m .. n - 1 : k \in 1 .. n - 1 /\ ~(k <= m - 1)
    BY <1>1, <1>2, <1>3
  <2> QED
    BY <2>1, <2>2
<1>6. ASSUME NEW k \in 1 .. n - 1
      PROVE  (a \o b)[k] = IF k < m THEN s[k] ELSE s[k + 1]
  <2>1. CASE k < m
    <3>1. k \in 1 .. m - 1
      BY <1>1, <2>1
    <3> QED
      BY <1>2, <1>5, <2>1, <3>1
  <2>2. CASE ~(k < m)
    <3>1. k \in m .. n - 1 /\ k - (m - 1) \in 1 .. n - m /\ m + (k - (m - 1)) = k + 1
      BY <1>1, <2>2
    <3> QED
      BY <1>3, <1>5, <2>2, <3>1
  <2> QED
    BY <2>1, <2>2
<1> QED
  BY <1>4, <1>5, <1>6 DEF n

(* At most one continuation area, and where it is. *)
LEMMA OnlyCE ==
  ASSUME NEW es \in Seq(Susp), \A i, j \in CEs(es) : i = j
  PROVE  /\ CEs(es) = {} => NotCEs(es) = es
         /\ \A m \in CEs(es) :
              /\ m \in 1 .. Len(es) /\ es[m] \in Areas
              /\ Min(CEs(es)) = m /\ Max(CEs(es)) = m
              /\ NotCEs(es) = RemoveAt(es, m)
<1> DEFINE n == Len(es)
<1>1. n \in Nat /\ NotCEs(es) \in Seq(Susp)
  BY NotCEsType
<1>2. ASSUME CEs(es) = {}
      PROVE  NotCEs(es) = es
  <2> DEFINE m == n + 1
  <2>1. m \in 1 .. n + 1 /\ \A i \in 1 .. n : IsCE(es[i]) <=> i = m
    BY <1>1, <1>2 DEF CEs
  <2>2. ~(m <= n)
    BY <1>1
  <2> HIDE DEF m
  <2>3. Len(NotCEs(es)) = n /\ \A k \in 1 .. n : NotCEs(es)[k] = IF k < m THEN es[k] ELSE es[k + 1]
    BY <2>1, <2>2, NotCEsAt
  <2>4. \A k \in 1 .. n : k < m
    BY <1>1 DEF m
  <2> QED
    BY <1>1, <2>3, <2>4, SeqEqual
<1>3. ASSUME NEW m \in CEs(es)
      PROVE  /\ m \in 1 .. n /\ es[m] \in Areas
             /\ Min(CEs(es)) = m /\ Max(CEs(es)) = m
             /\ NotCEs(es) = RemoveAt(es, m)
  <2>1. m \in 1 .. n /\ IsCE(es[m]) /\ es[m] \in Susp
    BY <1>3 DEF CEs
  <2>2. CEs(es) \subseteq 0 .. n /\ CEs(es) # {}
    BY <1>1, <1>3 DEF CEs
  <2>3. Min(CEs(es)) = m /\ Max(CEs(es)) = m
    BY <1>1, <1>3, <2>2, MinIndex, MaxIndex
  <2>4. m \in 1 .. n + 1 /\ \A i \in 1 .. n : IsCE(es[i]) <=> i = m
    BY <1>1, <1>3, <2>1 DEF CEs
  <2>5. /\ Len(NotCEs(es)) = n - 1
        /\ \A k \in 1 .. Len(NotCEs(es)) : NotCEs(es)[k] = IF k < m THEN es[k] ELSE es[k + 1]
    <3>1. m <= n
      BY <1>1, <2>1
    <3> QED
      BY <2>4, <3>1, NotCEsAt
  <2>6. RemoveAt(es, m) \in Seq(Susp) /\ Len(RemoveAt(es, m)) = n - 1
    BY <1>1, <2>1, Removes
  <2>7. ASSUME NEW k \in 1 .. n - 1
        PROVE  RemoveAt(es, m)[k] = IF k < m THEN es[k] ELSE es[k + 1]
    BY <1>1, <2>1, <2>7, Removes
  <2>8. NotCEs(es) = RemoveAt(es, m)
    BY <1>1, <2>5, <2>6, <2>7, SeqEqual
  <2> QED
    BY <2>1, <2>3, <2>8 DEF Areas
<1> QED
  BY <1>2, <1>3

(* Where the entries of a record or an area go on; NoCont if they do not. *)
GoesOn(es) == IF CEs(es) = {} THEN NoCont ELSE es[Min(CEs(es))]

(* The entries an area is joined to keep their order, and the one area the *)
(* chain goes on in is followed next.                                      *)
LEMMA AppendsArea ==
  ASSUME NEW susp \in Seq(Susp), NEW es \in Seq(Susp), CEs(susp) = {},
         \A i, j \in CEs(es) : i = j
  PROVE  /\ AppendArea(susp, es).susp = susp \o NotCEs(es)
         /\ AppendArea(susp, es).cont = GoesOn(es)
<1> DEFINE all == susp \o es
           p == Len(susp)
           n == Len(es)
<1>1. /\ p \in Nat /\ n \in Nat /\ Len(all) = p + n /\ all \in Seq(Susp)
      /\ \A k \in 1 .. p : all[k] = susp[k]
      /\ \A k \in 1 .. n : all[p + k] = es[k]
  OBVIOUS
<1>2. \A k \in 1 .. p : ~IsCE(susp[k])
  BY DEF CEs
<1> HIDE DEF all
<1>3. CEs(all) = {p + k : k \in CEs(es)}
  <2>1. ASSUME NEW k \in CEs(all)
        PROVE  k - p \in CEs(es) /\ k = p + (k - p)
    <3>1. k \in 1 .. p + n /\ IsCE(all[k])
      BY <1>1 DEF CEs
    <3>2. k > p
      BY <1>1, <1>2, <3>1
    <3>3. k - p \in 1 .. n /\ k = p + (k - p)
      BY <1>1, <3>1, <3>2
    <3> QED
      BY <1>1, <3>1, <3>3 DEF CEs
  <2>2. ASSUME NEW k \in CEs(es)
        PROVE  p + k \in CEs(all)
    <3>1. k \in 1 .. n /\ IsCE(es[k])
      BY DEF CEs
    <3>2. p + k \in 1 .. p + n /\ all[p + k] = es[k]
      BY <1>1, <3>1
    <3> QED
      BY <1>1, <3>1, <3>2 DEF CEs
  <2> QED
    BY <2>1, <2>2
<1>4. CASE CEs(es) = {}
  <2>1. CEs(all) = {} /\ NotCEs(es) = es
    BY <1>3, <1>4, OnlyCE
  <2> QED
    BY <1>4, <2>1 DEF AppendArea, GoesOn, all
<1>5. CASE CEs(es) # {}
  <2>1. PICK m : m \in CEs(es)
    BY <1>5
  <2>2. /\ m \in 1 .. n /\ Min(CEs(es)) = m /\ NotCEs(es) = RemoveAt(es, m)
    BY <2>1, OnlyCE
  <2>3. CEs(all) = {p + m}
    BY <1>3, <2>1
  <2>4. Min(CEs(all)) = p + m
    <3>1. p + m \in 0 .. p + n /\ p + n \in Nat
      BY <1>1, <2>2
    <3>2. Min(CEs(all)) \in CEs(all)
      BY <2>3, <3>1, MinIndex
    <3> QED
      BY <2>3, <3>2
  <2>5. AppendArea(susp, es) = [susp |-> RemoveAt(all, p + m), cont |-> all[p + m]]
    BY <2>3, <2>4 DEF AppendArea, all
  <2>6. RemoveAt(all, p + m) = susp \o RemoveAt(es, m)
    <3> DEFINE q == p + m
               x == RemoveAt(all, q)
               z == RemoveAt(es, m)
               y == susp \o z
    <3>0. q \in 1 .. Len(all) /\ m \in 1 .. n
      BY <1>1, <2>2
    <3>1. /\ x \in Seq(Susp) /\ Len(x) = p + n - 1
          /\ \A k \in 1 .. p + n - 1 : x[k] = IF k < q THEN all[k] ELSE all[k + 1]
      <4>1. /\ x \in Seq(Susp) /\ Len(x) = Len(all) - 1
            /\ \A k \in 1 .. Len(all) - 1 : x[k] = IF k < q THEN all[k] ELSE all[k + 1]
        <5> HIDE DEF q
        <5> QED
          BY <1>1, <3>0, Removes
      <4> QED
        BY <1>1, <4>1
    <3>2. /\ z \in Seq(Susp) /\ Len(z) = n - 1
          /\ \A k \in 1 .. n - 1 : z[k] = IF k < m THEN es[k] ELSE es[k + 1]
      BY <3>0, Removes
    <3> HIDE DEF z
    <3>3. /\ y \in Seq(Susp) /\ Len(y) = p + n - 1
          /\ \A k \in 1 .. p : y[k] = susp[k]
          /\ \A k \in 1 .. n - 1 : y[p + k] = z[k]
      <4>1. /\ y \in Seq(Susp) /\ Len(y) = p + Len(z)
            /\ \A k \in 1 .. p + Len(z) : y[k] = IF k <= p THEN susp[k] ELSE z[k - p]
        BY <3>2, ConcatProperties
      <4>2. /\ p + Len(z) = p + n - 1
            /\ \A k \in 1 .. p : k \in 1 .. p + n - 1 /\ k <= p
            /\ \A k \in 1 .. n - 1 : /\ p + k \in 1 .. p + n - 1 /\ ~(p + k <= p)
                                     /\ (p + k) - p = k
        BY <1>1, <2>2, <3>2
      <4> QED
        BY <4>1, <4>2
    <3> HIDE DEF x, y
    <3>6. ASSUME NEW k \in 1 .. p + n - 1
          PROVE  x[k] = y[k]
      <4>1. CASE k <= p
        <5>1. y[k] = susp[k] /\ k \in 1 .. p /\ k < p + m
          BY <1>1, <2>2, <3>3, <4>1
        <5> QED
          BY <1>1, <3>1, <5>1
      <4>2. CASE k > p
        <5> DEFINE j == k - p
        <5>1. j \in 1 .. n - 1 /\ k = p + j
          BY <1>1, <4>2
        <5>2. y[k] = z[j]
          BY <3>3, <5>1
        <5> HIDE DEF j
        <5>3. y[k] = IF j < m THEN es[j] ELSE es[j + 1]
          BY <3>2, <5>1, <5>2
        <5>4. all[k] = es[j] /\ all[k + 1] = es[j + 1]
          <6>1. j \in 1 .. n /\ j + 1 \in 1 .. n /\ k + 1 = p + (j + 1)
            BY <1>1, <5>1
          <6> QED
            BY <1>1, <5>1, <6>1
        <5>5. k < q <=> j < m
          BY <1>1, <2>2, <5>1
        <5> QED
          BY <3>1, <5>3, <5>4, <5>5
      <4> QED
        BY <1>1, <4>1, <4>2
    <3>7. x = y
      BY <1>1, <3>1, <3>3, <3>6, SeqEqual
    <3> QED
      BY <3>7 DEF x, y, z
  <2>7. all[p + m] = es[m]
    BY <1>1, <2>2
  <2> QED
    BY <1>5, <2>2, <2>5, <2>6, <2>7 DEF GoesOn
<1> QED
  BY <1>4, <1>5

-----------------------------------------------------------------------------
(* The chain of continuation areas *)

(* The entries of an area are entries of the image. *)
LEMMA EntriesAtType ==
  ASSUME AreasWellFormed, NEW ce \in Areas
  PROVE  /\ EntriesAt(ce) \in Seq(Susp) /\ Len(EntriesAt(ce)) = ce.length
         /\ ce.length \in 0 .. BLOCK_SIZE /\ ce.loc \in Nat /\ SeekPos(ce.loc) \in Nat
         /\ \A i \in 1 .. ce.length :
              EntriesAt(ce)[i] = SuspEntries[Image[SeekPos(ce.loc) + (i - 1)]]
         /\ \A i, j \in CEs(EntriesAt(ce)) : i = j
<1> DEFINE n == ce.length
           at == SeekPos(ce.loc)
<1>1. ce \in Susp /\ IsCE(ce)
  BY DEF Areas
<1>2. n \in Nat /\ ce.loc \in Nat /\ BLOCK_SIZE \in Nat
  BY <1>1, DirectoryAssumption, DeviceAssumption DEF IsCE
<1>3. /\ ce.offset = 0 /\ n <= BLOCK_SIZE
      /\ \A i \in 0 .. n - 1 : Image[at + i] \in DOMAIN SuspEntries
      /\ \A i, j \in CEs(EntriesAt(ce)) : i = j
  BY DEF AreasWellFormed
<1>4. at \in Nat
  <2>1. \A a, c \in Nat : a * c \in Nat
    OBVIOUS
  <2> QED
    BY <1>2, <2>1 DEF SeekPos
<1>5. EntriesAt(ce) = [i \in 1 .. n |-> SuspEntries[Image[at + 0 + i - 1]]]
  BY <1>3 DEF EntriesAt
<1> HIDE DEF n, at
<1>6. ASSUME NEW i \in 1 .. n
      PROVE  at + 0 + i - 1 = at + (i - 1) /\ i - 1 \in 0 .. n - 1
  BY <1>2, <1>4 DEF n
<1>7. \A i \in 1 .. n : EntriesAt(ce)[i] = SuspEntries[Image[at + (i - 1)]]
  BY <1>5, <1>6
<1>8. \A i \in 1 .. n : SuspEntries[Image[at + (i - 1)]] \in Susp
  BY <1>3, <1>6 DEF Susp, Range
<1>9. EntriesAt(ce) \in [1 .. n -> Susp]
  BY <1>5, <1>6, <1>8
<1>10. EntriesAt(ce) \in Seq(Susp) /\ Len(EntriesAt(ce)) = n
  <2> DEFINE es == EntriesAt(ce)
  <2>1. es \in [1 .. n -> Susp] /\ n \in Nat
    BY <1>2, <1>9
  <2> HIDE DEF es
  <2>2. es \in Seq(Susp)
    BY <2>1, SeqDef
  <2>3. DOMAIN es = 1 .. n /\ DOMAIN es = 1 .. Len(es) /\ Len(es) \in Nat
    BY <2>1, <2>2, LenProperties
  <2>4. Len(es) = n
    BY <2>1, <2>3
  <2> QED
    BY <2>2, <2>4 DEF es
<1> QED
  BY <1>2, <1>3, <1>4, <1>7, <1>10 DEF n, at

(* Joined looks only at the area the entries go on in. *)
LEMMA JoinedAgrees ==
  ASSUME NEW es, NEW f, NEW g, CEs(es) # {} => f[es[Min(CEs(es))]] = g[es[Min(CEs(es))]]
  PROVE  Joined(es, f) = Joined(es, g)
BY DEF Joined

(* An area goes on, if it does, in one with a smaller number. *)
LEMMA GoesDown ==
  ASSUME AreasWellFormed, NEW depth,
         \A ce \in Areas : \A next \in Goes(EntriesAt(ce)) : depth[next] < depth[ce],
         NEW ce \in Areas, CEs(EntriesAt(ce)) # {}
  PROVE  LET next == EntriesAt(ce)[Min(CEs(EntriesAt(ce)))]
         IN  next \in Areas /\ depth[next] < depth[ce]
<1> DEFINE es == EntriesAt(ce)
<1>1. es \in Seq(Susp) /\ \A i, j \in CEs(es) : i = j
  BY EntriesAtType
<1>2. PICK m : m \in CEs(es)
  OBVIOUS
<1> HIDE DEF es
<1>3. Min(CEs(es)) = m /\ es[m] \in Areas
  BY <1>1, <1>2, OnlyCE
<1>4. es[m] \in Goes(es)
  BY <1>2 DEF Goes
<1> QED
  BY <1>3, <1>4 DEF es

(* Since no chain is a cycle, there is what Area is defined to be. *)
LEMMA AreaIsJoined ==
  ASSUME AreasWellFormed
  PROVE  \A ce \in Areas : Area[ce] = Joined(EntriesAt(ce), Area)
<1> DEFINE N == Cardinality(Areas)
<1>1. N \in Nat
  BY FS_CardinalityType DEF AreasWellFormed, WellLinked
<1>2. PICK depth \in [Areas -> 0 .. N] :
        \A ce \in Areas : \A next \in Goes(EntriesAt(ce)) : depth[next] < depth[ce]
  BY DEF AreasWellFormed, WellLinked
<1> HIDE DEF N
<1> DEFINE Upto(f, n) ==
             \A ce \in Areas : depth[ce] < n => f[ce] = Joined(EntriesAt(ce), f)
           T == {n \in Nat : \E f : Upto(f, n)}
<1>3. 0 \in T
  <2>1. \A ce \in Areas : ~(depth[ce] < 0)
    BY <1>1, <1>2
  <2> QED
    BY <2>1
<1>4. ASSUME NEW n \in Nat, n \in T
      PROVE  n + 1 \in T
  <2>1. PICK f : Upto(f, n)
    BY <1>4
  <2> DEFINE g == [ce \in Areas |-> IF depth[ce] < n THEN f[ce] ELSE Joined(EntriesAt(ce), f)]
  <2>2. \A ce \in Areas : g[ce] = IF depth[ce] < n THEN f[ce] ELSE Joined(EntriesAt(ce), f)
    OBVIOUS
  <2> HIDE DEF g
  <2>3. ASSUME NEW ce \in Areas, depth[ce] < n + 1
        PROVE  g[ce] = Joined(EntriesAt(ce), g)
    <3> DEFINE es == EntriesAt(ce)
    <3>1. g[ce] = Joined(es, f)
      BY <2>1, <2>2
    <3>2. CEs(es) # {} => f[es[Min(CEs(es))]] = g[es[Min(CEs(es))]]
      <4> SUFFICES ASSUME CEs(es) # {}
                   PROVE  f[es[Min(CEs(es))]] = g[es[Min(CEs(es))]]
        OBVIOUS
      <4> DEFINE next == es[Min(CEs(es))]
      <4>1. next \in Areas /\ depth[next] < depth[ce]
        BY <1>2, GoesDown
      <4> HIDE DEF next
      <4>2. depth[next] < n
        BY <1>1, <1>2, <2>3, <4>1
      <4>3. f[next] = g[next]
        BY <2>2, <4>1, <4>2
      <4> QED
        BY <4>3 DEF next
    <3> HIDE DEF es
    <3>3. Joined(es, f) = Joined(es, g)
      BY <3>2, JoinedAgrees
    <3> QED
      BY <3>1, <3>3 DEF es
  <2>4. Upto(g, n + 1)
    BY <2>3
  <2> QED
    BY <2>4
<1>5. Nat \subseteq T
  <2> HIDE DEF T
  <2> QED
    BY <1>3, <1>4, Induction
<1>6. PICK f : Upto(f, N + 1)
  BY <1>1, <1>5
<1>7. \A ce \in Areas : f[ce] = Joined(EntriesAt(ce), f)
  BY <1>1, <1>2, <1>6
<1> DEFINE Round(g) == [ce \in Areas |-> Joined(EntriesAt(ce), g)]
           h == [ce \in Areas |-> f[ce]]
<1>8. h = Round(h)
  <2>1. ASSUME NEW ce \in Areas
        PROVE  Joined(EntriesAt(ce), f) = Joined(EntriesAt(ce), h)
    <3> DEFINE es == EntriesAt(ce)
    <3>1. CEs(es) # {} => es[Min(CEs(es))] \in Areas
      BY <1>2, GoesDown
    <3>2. CEs(es) # {} => f[es[Min(CEs(es))]] = h[es[Min(CEs(es))]]
      BY <3>1
    <3> HIDE DEF es, h
    <3>3. Joined(es, f) = Joined(es, h)
      BY <3>2, JoinedAgrees
    <3> QED
      BY <3>3 DEF es
  <2>2. \A ce \in Areas : f[ce] = Joined(EntriesAt(ce), h)
    BY <1>7, <2>1
  <2>3. Round(h) = [ce \in Areas |-> f[ce]]
    <3> HIDE DEF h
    <3> QED
      BY <2>2
  <2> QED
    BY <2>3
<1>9. Area = CHOOSE g : g = Round(g)
  BY DEF Area
<1>10. Area = Round(Area)
  <2> HIDE DEF Round, h
  <2> QED
    BY <1>8, <1>9
<1> QED
  BY <1>10

(* The entries of a chain are entries of the image. *)
LEMMA AreaType ==
  ASSUME AreasWellFormed
  PROVE  \A ce \in Areas : Area[ce] \in Seq(Susp)
<1> DEFINE N == Cardinality(Areas)
<1>1. N \in Nat
  BY FS_CardinalityType DEF AreasWellFormed, WellLinked
<1>2. PICK depth \in [Areas -> 0 .. N] :
        \A ce \in Areas : \A next \in Goes(EntriesAt(ce)) : depth[next] < depth[ce]
  BY DEF AreasWellFormed, WellLinked
<1> HIDE DEF N
<1> DEFINE T == {n \in Nat : \A ce \in Areas : depth[ce] < n => Area[ce] \in Seq(Susp)}
<1>3. 0 \in T
  <2>1. \A ce \in Areas : ~(depth[ce] < 0)
    BY <1>1, <1>2
  <2> QED
    BY <2>1
<1>4. ASSUME NEW n \in Nat, n \in T
      PROVE  n + 1 \in T
  <2> SUFFICES ASSUME NEW ce \in Areas, depth[ce] < n + 1
               PROVE  Area[ce] \in Seq(Susp)
    OBVIOUS
  <2> DEFINE es == EntriesAt(ce)
             next == es[Min(CEs(es))]
  <2>1. Area[ce] = Joined(es, Area)
    BY AreaIsJoined
  <2>2. NotCEs(es) \in Seq(Susp)
    <3>1. es \in Seq(Susp)
      BY EntriesAtType
    <3> HIDE DEF es
    <3> QED
      BY <3>1, NotCEsType
  <2>3. CEs(es) # {} => next \in Areas /\ depth[next] < depth[ce]
    BY <1>2, GoesDown
  <2> HIDE DEF es, next
  <2>4. CEs(es) # {} => Area[next] \in Seq(Susp)
    <3>1. SUFFICES ASSUME CEs(es) # {}
                   PROVE  Area[next] \in Seq(Susp)
      OBVIOUS
    <3>2. next \in Areas /\ depth[next] < n
      BY <1>1, <1>2, <2>3, <3>1
    <3> QED
      BY <1>4, <3>2
  <2>5. Joined(es, Area) = NotCEs(es) \o (IF CEs(es) = {} THEN <<>> ELSE Area[next])
    BY DEF Joined, next
  <2>6. (IF CEs(es) = {} THEN <<>> ELSE Area[next]) \in Seq(Susp)
    BY <2>4
  <2> DEFINE rest == IF CEs(es) = {} THEN <<>> ELSE Area[next]
  <2> HIDE DEF rest
  <2>7. NotCEs(es) \o rest \in Seq(Susp)
    BY <2>2, <2>6, ConcatProperties DEF rest
  <2> QED
    BY <2>1, <2>5, <2>7 DEF rest
<1>5. Nat \subseteq T
  <2> HIDE DEF T
  <2> QED
    BY <1>3, <1>4, Induction
<1>6. ASSUME NEW ce \in Areas
      PROVE  Area[ce] \in Seq(Susp)
  <2>1. N + 1 \in T /\ depth[ce] < N + 1
    BY <1>1, <1>2, <1>5
  <2> QED
    BY <2>1
<1> QED
  BY <1>6

(* What a record or an area leaves to be followed. *)
LEMMA GoesOnType ==
  ASSUME AreasWellFormed, NEW es \in Seq(Susp), \A i, j \in CEs(es) : i = j
  PROVE  /\ GoesOn(es) \in Areas \cup {NoCont} /\ Left(GoesOn(es)) \in Seq(Susp)
         /\ Joined(es, Area) = NotCEs(es) \o Left(GoesOn(es))
         /\ Joined(es, Area) \in Seq(Susp)
         /\ LastCE(es) = GoesOn(es)
<1>1. NotCEs(es) \in Seq(Susp)
  BY NotCEsType
<1>2. CASE CEs(es) = {}
  <2>1. GoesOn(es) = NoCont /\ LastCE(es) = NoCont /\ Joined(es, Area) = NotCEs(es) \o <<>>
    BY <1>2 DEF GoesOn, LastCE, Joined
  <2>2. Left(NoCont) = <<>> /\ <<>> \in Seq(Susp)
    BY DEF Left
  <2>3. NotCEs(es) \o <<>> \in Seq(Susp)
    BY <1>1, <2>2, ConcatProperties
  <2> QED
    BY <2>1, <2>2, <2>3
<1>3. CASE CEs(es) # {}
  <2>1. PICK m : m \in CEs(es)
    BY <1>3
  <2>2. es[m] \in Areas /\ Min(CEs(es)) = m /\ Max(CEs(es)) = m
    BY <2>1, OnlyCE
  <2>3. GoesOn(es) = es[m] /\ LastCE(es) = es[m] /\ Joined(es, Area) = NotCEs(es) \o Area[es[m]]
    BY <1>3, <2>2 DEF GoesOn, LastCE, Joined
  <2>4. es[m] # NoCont
    <3>1. es[m].t = "CE" /\ NoCont.t = "none"
      BY <2>2 DEF Areas, IsCE, NoCont
    <3> QED
      BY <3>1
  <2>5. Left(es[m]) = Area[es[m]] /\ Area[es[m]] \in Seq(Susp)
    BY <2>2, <2>4, AreaType DEF Left
  <2> DEFINE a == Area[es[m]]
  <2>6. NotCEs(es) \o a \in Seq(Susp)
    <3> HIDE DEF a
    <3> QED
      BY <1>1, <2>5, ConcatProperties DEF a
  <2> QED
    BY <2>2, <2>3, <2>5, <2>6
<1> QED
  BY <1>2, <1>3

(* The entries recorded for a record. *)
LEMMA FullSuspType ==
  ASSUME AreasWellFormed, NEW rec \in DOMAIN Records
  PROVE  LET own == Records[rec].susp
         IN  /\ own \in Seq(Susp) /\ \A i, j \in CEs(own) : i = j
             /\ FullSusp(rec) \in Seq(Susp)
             /\ FullSusp(rec) = NotCEs(own) \o Left(LastCE(own))
<1> DEFINE own == Records[rec].susp
<1>1. own \in Seq(Susp) /\ \A i, j \in CEs(own) : i = j
  BY DirectoryAssumption DEF AreasWellFormed
<1>2. FullSusp(rec) = Joined(own, Area)
  BY DEF FullSusp
<1> HIDE DEF own
<1>3. FullSusp(rec) \in Seq(Susp) /\ FullSusp(rec) = NotCEs(own) \o Left(LastCE(own))
  BY <1>1, <1>2, GoesOnType
<1> QED
  BY <1>1, <1>3 DEF own

(* A read that does not fall short gets all entries of an area. *)
LEMMA ReadsArea ==
  ASSUME AreasWellFormed, "short" \notin Faults, NEW ce \in Areas,
         NEW n \in 0 .. BLOCK_SIZE, ReadAtOk(ce.loc, n)
  PROVE  AreaEntries(ReadInto(NewBlockBuffer, n), ce) = EntriesAt(ce)
<1> DEFINE len == ce.length
           at == SeekPos(ce.loc)
           b == ReadInto(NewBlockBuffer, n)
<1>1. BLOCK_SIZE \in Nat \ {0} /\ ImageLen \in Nat
  BY DeviceAssumption
<1>2. /\ len \in 0 .. BLOCK_SIZE /\ at \in Nat /\ EntriesAt(ce) \in Seq(Susp)
      /\ Len(EntriesAt(ce)) = len
      /\ \A i \in 1 .. len : EntriesAt(ce)[i] = SuspEntries[Image[at + (i - 1)]]
  BY EntriesAtType
<1>3. /\ at + len <= ImageLen
      /\ \A i \in 0 .. len - 1 : Image[at + i] \in DOMAIN SuspEntries
  BY DEF AreasWellFormed
<1>4. n = Available(at)
  BY DEF ReadAtOk, ReadOk
<1>5. AreaEntries(b, ce) \in Seq(Susp)
  <2>1. ce \in Susp /\ IsCE(ce)
    BY DEF Areas
  <2> HIDE DEF b
  <2> QED
    BY <2>1, AreaEntriesType
<1> DEFINE upto == {i \in 0 .. len : \A j \in 0 .. i - 1 : b[j] \in DOMAIN SuspEntries}
           end == Max(upto)
<1>6. AreaEntries(b, ce) = [i \in 1 .. end - 0 |-> SuspEntries[b[0 + i - 1]]]
  BY DEF AreaEntries, SystemUseEntries
<1>7. \A j \in 0 .. BLOCK_SIZE - 1 : b[j] = IF j < n THEN Image[at + j] ELSE NewBlockBuffer[j]
  <2> DEFINE l == ce.loc
  <2>1. l \in Nat /\ ReadAtOk(l, n)
    BY DirectoryAssumption DEF Areas, IsCE
  <2> HIDE DEF l
  <2>2. ReadInto(NewBlockBuffer, n) = Fill(NewBlockBuffer, SeekPos(l), n)
    BY <2>1, ReadIntoIs
  <2> QED
    BY <2>2 DEF Fill, l
<1> HIDE DEF len, at, b
<1>8. len <= n
  BY <1>1, <1>2, <1>3, <1>4 DEF Available
<1>9. \A j \in 0 .. len - 1 : b[j] = Image[at + j]
  BY <1>1, <1>2, <1>7, <1>8
<1>10. len \in upto /\ upto \subseteq 0 .. len /\ len \in Nat
  <2>1. len \in Nat /\ len \in 0 .. len
    BY <1>1, <1>2
  <2>2. \A j \in 0 .. len - 1 : b[j] \in DOMAIN SuspEntries
    BY <1>3, <1>9 DEF at, len
  <2> QED
    BY <2>1, <2>2
<1>11. end = len
  <2> HIDE DEF upto
  <2>1. upto \in SUBSET Nat
    BY <1>10
  <2>2. end \in upto /\ \A j \in upto : j <= end
    BY <1>10, <2>1, MaxIndex
  <2>3. len <= end /\ end \in 0 .. len
    BY <1>10, <2>2
  <2> QED
    BY <1>10, <2>3
<1> HIDE DEF end
<1>12. AreaEntries(b, ce) = [i \in 1 .. len |-> SuspEntries[b[0 + i - 1]]]
  <2>1. end - 0 = len
    BY <1>10, <1>11
  <2> QED
    BY <1>6, <2>1
<1>13. ASSUME NEW i \in 1 .. len
       PROVE  AreaEntries(b, ce)[i] = EntriesAt(ce)[i]
  <2>1. 0 + i - 1 = i - 1 /\ i - 1 \in 0 .. len - 1
    BY <1>10
  <2>2. AreaEntries(b, ce)[i] = SuspEntries[b[i - 1]]
    BY <1>12, <2>1
  <2>3. b[i - 1] = Image[at + (i - 1)]
    BY <1>9, <2>1
  <2>4. EntriesAt(ce)[i] = SuspEntries[Image[at + (i - 1)]]
    BY <1>2
  <2> QED
    BY <2>2, <2>3, <2>4
<1> DEFINE es == AreaEntries(b, ce)
<1>14. Len(es) = len
  <2>1. DOMAIN es = 1 .. len
    BY <1>12
  <2> HIDE DEF es
  <2>2. DOMAIN es = 1 .. Len(es) /\ Len(es) \in Nat
    BY <1>5, LenProperties DEF es
  <2> QED
    BY <1>10, <2>1, <2>2
<1> HIDE DEF es
<1>15. es = EntriesAt(ce)
  BY <1>2, <1>5, <1>13, <1>14, SeqEqual DEF es
<1> QED
  BY <1>15 DEF es, b, at

(* Following an area moves its entries from what is left to what has been  *)
(* read.                                                                   *)
LEMMA FollowsArea ==
  ASSUME AreasWellFormed, NEW susp \in Seq(Susp), CEs(susp) = {}, NEW ce \in Areas
  PROVE  LET next == AppendArea(susp, EntriesAt(ce))
         IN  CEs(next.susp) = {} /\ next.susp \o Left(next.cont) = susp \o Left(ce)
<1> DEFINE es == EntriesAt(ce)
           s == NotCEs(es)
           rest == Left(GoesOn(es))
           next == AppendArea(susp, es)
<1>1. es \in Seq(Susp) /\ \A i, j \in CEs(es) : i = j
  BY EntriesAtType
<1>2. Area[ce] = Joined(es, Area)
  BY AreaIsJoined
<1>3. Left(ce) = Area[ce]
  <2>1. ce.t = "CE" /\ NoCont.t = "none"
    BY DEF Areas, IsCE, NoCont
  <2> QED
    BY <2>1 DEF Left
<1> HIDE DEF es
<1>4. Joined(es, Area) = s \o rest /\ rest \in Seq(Susp)
  BY <1>1, GoesOnType
<1>5. s \in Seq(Susp) /\ CEs(s) = {}
  BY <1>1, NotCEsType, NotCEsHasNone
<1>6. next.susp = susp \o s /\ Left(next.cont) = rest
  BY <1>1, AppendsArea
<1> HIDE DEF s, rest, next
<1>7. (susp \o s) \o rest = susp \o (s \o rest)
  BY <1>4, <1>5, ConcatAssociative
<1>8. CEs(susp \o s) = {}
  <2>1. /\ Len(susp \o s) = Len(susp) + Len(s)
        /\ \A k \in 1 .. Len(susp) + Len(s) :
             (susp \o s)[k] = IF k <= Len(susp) THEN susp[k] ELSE s[k - Len(susp)]
    BY <1>5, ConcatProperties
  <2>2. (\A k \in 1 .. Len(susp) : ~IsCE(susp[k])) /\ (\A k \in 1 .. Len(s) : ~IsCE(s[k]))
    BY <1>5 DEF CEs
  <2>3. Len(susp) \in Nat /\ Len(s) \in Nat
    BY <1>5
  <2>4. ASSUME NEW k \in 1 .. Len(susp) + Len(s)
        PROVE  ~IsCE((susp \o s)[k])
    <3>1. CASE k <= Len(susp)
      <4>1. k \in 1 .. Len(susp)
        BY <2>3, <3>1
      <4> QED
        BY <2>1, <2>2, <3>1, <4>1
    <3>2. CASE ~(k <= Len(susp))
      <4>1. k - Len(susp) \in 1 .. Len(s)
        BY <2>3, <3>2
      <4> QED
        BY <2>1, <2>2, <3>2, <4>1
    <3> QED
      BY <3>1, <3>2
  <2> QED
    BY <2>1, <2>4 DEF CEs
<1> QED
  BY <1>2, <1>3, <1>4, <1>6, <1>7, <1>8 DEF next, es

-----------------------------------------------------------------------------
(* The entries of a call *)

(* An entry that is returned has all entries of its record. *)
LEMMA EntryIsComplete ==
  ASSUME TypeInv, SuspInv, pc = "cont", call.cont = NoCont
  PROVE  call.susp = FullSusp(call.rec)
<1>1. call.susp \in Seq(Susp)
  BY DEF TypeInv, CallRecord
<1>2. call.susp \o <<>> = FullSusp(call.rec)
  BY DEF SuspInv, Left
<1> DEFINE s == call.susp
<1>3. s \o <<>> = s
  <2> HIDE DEF s
  <2> QED
    BY <1>1, ConcatEmptySeq DEF s
<1> QED
  BY <1>2, <1>3

(* A record is parsed: its own entries are read, its chain is left. *)
LEMMA ParseSuspInv ==
  ASSUME AreasWellFormed, TypeInv, SuspInv, Parse
  PROVE  SuspInv'
<1> DEFINE c == RecordCell
           own == Records[RecordCell].susp
           s == NotCEs(own)
           a == LastCE(own)
<1>1. c \in DOMAIN Records /\ c \in Cell
  BY DirectoryAssumption DEF Parse, Parses
<1>2. /\ own \in Seq(Susp) /\ \A i, j \in CEs(own) : i = j
      /\ FullSusp(c) = s \o Left(a)
  BY <1>1, FullSuspType
<1>3. s \in Seq(Susp) /\ a \in Susp \cup {NoCont} /\ CEs(s) = {}
  <2> HIDE DEF own
  <2> QED
    BY <1>2, NotCEsType, LastCEType, NotCEsHasNone
<1>4. call' = [call EXCEPT !.rec = c, !.susp = s, !.cont = a] /\ call \in CallRecord
  BY DEF Parse, TypeInv
<1>5. pc' = "cont" /\ reply' = reply
  BY DEF Parse
<1> HIDE DEF c, own, s, a
<1>6. call'.rec = c /\ call'.susp = s /\ call'.cont = a
  BY <1>1, <1>3, <1>4, CallParses, Zenon
<1>7. SuspComplete'
  BY <1>5 DEF SuspInv, SuspComplete
<1> QED
  BY <1>2, <1>3, <1>5, <1>6, <1>7 DEF SuspInv

(* An area is followed, or the call fails. *)
LEMMA ContinueSuspInv ==
  ASSUME AreasWellFormed, "short" \notin Faults, TypeInv, SuspInv, Continue
  PROVE  SuspInv' \/ FailHere
<1> DEFINE ce == call.cont
<1>1. PICK n \in 0 .. BLOCK_SIZE :
        LET b == ReadInto(NewBlockBuffer, n)
            es == AreaEntries(b, ce)
            next == AppendArea(call.susp, es)
        IN  /\ ReadAtOk(ce.loc, n)
            /\ \/ /\ es # <<>>
                  /\ call' = [call EXCEPT !.susp = next.susp, !.cont = next.cont]
                  /\ UNCHANGED <<walkVars, pc, reply>>
               \/ es = <<>> /\ FailHere
  BY DEF Continue
<1>2. pc = "cont" /\ call \in CallRecord /\ call.susp \in Seq(Susp)
  BY DEF Continue, TypeInv, CallRecord
<1>3. ce \in Areas /\ ReadAtOk(ce.loc, n)
  BY <1>1, <1>2 DEF Continue, TypeInv, TypeOK, CallRecord, Areas
<1>4. AreaEntries(ReadInto(NewBlockBuffer, n), ce) = EntriesAt(ce)
  BY <1>3, ReadsArea
<1> DEFINE next == AppendArea(call.susp, EntriesAt(ce))
           s == next.susp
           a == next.cont
<1>5. \/ /\ call' = [call EXCEPT !.susp = s, !.cont = a]
         /\ UNCHANGED <<walkVars, pc, reply>>
      \/ FailHere
  BY <1>1, <1>4, Zenon
<1>6. CEs(s) = {} /\ s \o Left(a) = call.susp \o Left(ce)
  <2> DEFINE susp == call.susp
  <2>1. susp \in Seq(Susp) /\ CEs(susp) = {}
    BY <1>2 DEF SuspInv
  <2> HIDE DEF susp, ce
  <2>2. LET x == AppendArea(susp, EntriesAt(ce))
        IN  CEs(x.susp) = {} /\ x.susp \o Left(x.cont) = susp \o Left(ce)
    BY <1>3, <2>1, FollowsArea
  <2> QED
    BY <2>2 DEF susp, ce
<1>7. s \in Seq(Susp) /\ a \in Susp \cup {NoCont}
  <2> DEFINE es == EntriesAt(ce)
  <2>1. es \in Seq(Susp)
    BY <1>3, EntriesAtType
  <2> HIDE DEF es
  <2> QED
    BY <1>2, <2>1, AppendAreaType DEF es
<1>8. call.susp \o Left(ce) = FullSusp(call.rec)
  BY <1>2 DEF SuspInv
<1> HIDE DEF s, a
<1>9. ASSUME call' = [call EXCEPT !.susp = s, !.cont = a], UNCHANGED <<walkVars, pc, reply>>
      PROVE  SuspInv'
  <2>1. call'.rec = call.rec /\ call'.susp = s /\ call'.cont = a
    BY <1>2, <1>7, <1>9, CallContinues, Zenon
  <2>2. pc' = pc /\ reply' = reply
    BY <1>9
  <2>3. SuspComplete'
    BY <2>2 DEF SuspInv, SuspComplete
  <2> QED
    BY <1>2, <1>6, <1>8, <2>1, <2>2, <2>3 DEF SuspInv
<1> QED
  BY <1>5, <1>9, Zenon

(* Every step keeps read and left together complete. *)
LEMMA NextSuspInv ==
  ASSUME AreasWellFormed, "short" \notin Faults, TypeInv, SuspInv, [Next]_vars
  PROVE  SuspInv'
<1>1. ASSUME pc' \in {"idle", "load", "parse"}, reply'.res # "some" \/ reply' = reply
      PROVE  SuspInv'
  BY <1>1 DEF SuspInv, SuspComplete
<1>2. ASSUME NEW b, NEW num, Fail(b, num)
      PROVE  SuspInv'
  BY <1>1, <1>2 DEF Fail, FailWith, Return, Reply
<1>3. CASE LoadShort \/ LoadFails \/ ParseFails \/ ContinueFails \/ NameFails
  BY <1>2, <1>3 DEF LoadShort, LoadShortWith, LoadFails, ParseFails, ContinueFails, NameFails,
                    FailHere
<1>4. CASE Continue
  BY <1>2, <1>4, ContinueSuspInv DEF FailHere
<1>5. CASE LoadCached \/ LoadBlock
  BY <1>1, <1>5 DEF LoadCached, LoadBlock
<1>6. CASE Yield \/ FindReturns
  <2>1. pc = "cont" /\ call.cont = NoCont /\ pc' = "idle"
    BY <1>6 DEF Yield, FindReturns, FindEnds, Return, HasEntry
  <2>2. reply'.rec = call.rec /\ reply'.susp = call.susp
    BY <1>6 DEF Yield, FindReturns, FindEnds, Return, Reply
  <2>3. call.susp = FullSusp(call.rec)
    BY <2>1, EntryIsComplete
  <2> QED
    BY <2>1, <2>2, <2>3 DEF SuspInv, SuspComplete
<1>7. CASE FindSelfReturns
  <2>1. pc' = "idle" /\ reply'.offset = None
    BY <1>7 DEF FindSelfReturns, Reply, SuspInv
  <2> QED
    BY <2>1 DEF SuspInv, SuspComplete
<1>8. CASE FindDescends \/ FindGoesOn
  BY <1>1, <1>8 DEF FindDescends, FindGoesOn, FindEnds, Return, Reply
<1>9. ASSUME NEW v \in Iterators, NEW d,
             NextCall(v) \/ NextNone(v) \/ Resume(v) \/ Contents(v, d)
      PROVE  SuspInv'
  BY <1>1, <1>9 DEF NextCall, NextNone, Resume, Contents, NoReply, NoEntry
<1>10. ASSUME NEW d, NEW path, StartFind(d, path)
       PROVE  SuspInv'
  BY <1>1, <1>10 DEF StartFind, NoReply, NoEntry
<1>11. ASSUME NEW d, NEW path, FindSelf(d, path)
       PROVE  SuspInv'
  <2>1. pc' = "self" /\ call'.offset = None /\ call'.op = "find" /\ reply'.res = "none"
    BY <1>11 DEF FindSelf, NewCall, NoReply, NoEntry
  <2> QED
    BY <2>1 DEF SuspInv, SuspComplete
<1>12. CASE UNCHANGED vars
  BY <1>12 DEF vars, SuspInv, SuspComplete
<1> QED
  BY <1>3, <1>4, <1>5, <1>6, <1>7, <1>8, <1>9, <1>10, <1>11, <1>12, ParseSuspInv
     DEF Next, Step, FindCall, FindRecursive

LEMMA InitSuspInv == Init => SuspInv
BY DEF Init, SuspInv, SuspComplete, NoReply, NoEntry

(* On an image whose continuation areas are well formed, and as long as no *)
(* read falls short, an entry that is returned has all System Use entries  *)
(* of its record and of its chain of areas, in the order recorded,         *)
(* whatever reads failed before (the continuation loop of read_entry_at).  *)
THEOREM EntriesComplete ==
  ASSUME AreasWellFormed, "short" \notin Faults
  PROVE  Spec => []SuspComplete
<1>1. TypeInv /\ SuspInv /\ [Next]_vars => SuspInv'
  BY NextSuspInv
<1>2. SuspInv => SuspComplete
  BY DEF SuspInv
<1> QED
  BY <1>1, <1>2, InitTypeInv, NextTypeInv, InitSuspInv, PTL DEF Spec

-----------------------------------------------------------------------------
(* Where a path leads *)

AllPaths == {<<>>} \cup {<<name>> : name \in Names} \cup Paths
Start(from) == [dir |-> from, offset |-> None, is |-> {from}]

(* Paths are finite. *)
LEMMA PathLen ==
  ASSUME NEW path \in AllPaths
  PROVE  Len(path) \in Nat
BY DirectoryAssumption DEF AllPaths

(* Located takes one segment after the other. *)
LEMMA LocatedUnfolds ==
  ASSUME NEW from, NEW path \in AllPaths
  PROVE  LET at == Located(from, path)
         IN  /\ at[0] = Start(from)
             /\ \A k \in 1 .. Len(path) : at[k] = LocateNext(at[k - 1], path[k])
<1> DEFINE N == Len(path)
           Leads(g, n) == /\ g[0] = Start(from)
                          /\ \A k \in 1 .. n : g[k] = LocateNext(g[k - 1], path[k])
           T == {n \in Nat : \E g : Leads(g, n)}
<1>1. N \in Nat
  BY PathLen
<1>2. 0 \in T
  <2> DEFINE g == [k \in 0 .. 0 |-> Start(from)]
  <2>1. Leads(g, 0)
    OBVIOUS
  <2> QED
    BY <2>1
<1>3. ASSUME NEW n \in Nat, n \in T
      PROVE  n + 1 \in T
  <2>1. PICK g : Leads(g, n)
    BY <1>3
  <2> DEFINE x == LocateNext(g[n], path[n + 1])
             h == [k \in 0 .. n + 1 |-> IF k <= n THEN g[k] ELSE x]
  <2>2. (\A k \in 0 .. n : h[k] = g[k]) /\ h[n + 1] = x
    OBVIOUS
  <2> HIDE DEF h
  <2>3. ASSUME NEW k \in 1 .. n + 1
        PROVE  h[k] = LocateNext(h[k - 1], path[k])
    <3>1. CASE k \in 1 .. n
      <4>1. h[k] = g[k] /\ h[k - 1] = g[k - 1]
        BY <2>2, <3>1
      <4> QED
        BY <2>1, <3>1, <4>1
    <3>2. CASE k = n + 1
      <4>1. h[k] = x /\ h[k - 1] = g[n]
        BY <2>2, <3>2
      <4> QED
        BY <3>2, <4>1
    <3> QED
      BY <3>1, <3>2
  <2>4. Leads(h, n + 1)
    BY <2>1, <2>2, <2>3
  <2> QED
    BY <2>4
<1>4. Nat \subseteq T
  <2> HIDE DEF T
  <2> QED
    BY <1>2, <1>3, Induction
<1>5. PICK f : Leads(f, N)
  BY <1>1, <1>4
<1> DEFINE Round(g) ==
             [k \in 0 .. N |-> IF k = 0 THEN Start(from) ELSE LocateNext(g[k - 1], path[k])]
           h == [k \in 0 .. N |-> f[k]]
<1>6. h = Round(h)
  <2>1. ASSUME NEW k \in 0 .. N
        PROVE  f[k] = IF k = 0 THEN Start(from) ELSE LocateNext(h[k - 1], path[k])
    <3>1. CASE k = 0
      BY <1>5, <3>1
    <3>2. CASE k # 0
      <4>1. k \in 1 .. N /\ k - 1 \in 0 .. N
        BY <1>1, <3>2
      <4>2. h[k - 1] = f[k - 1]
        BY <4>1
      <4> HIDE DEF h
      <4> QED
        BY <1>5, <3>2, <4>1, <4>2
    <3> QED
      BY <3>1, <3>2
  <2>2. Round(h) = [k \in 0 .. N |-> f[k]]
    <3> HIDE DEF h
    <3> QED
      BY <2>1
  <2> QED
    BY <2>2
<1> DEFINE at == Located(from, path)
<1>7. at = CHOOSE g : g = Round(g)
  BY DEF Located, Start
<1>8. at = Round(at)
  <2> HIDE DEF Round, h
  <2> QED
    BY <1>6, <1>7
<1> HIDE DEF at
<1>9. \A k \in 0 .. N : at[k] = IF k = 0 THEN Start(from) ELSE LocateNext(at[k - 1], path[k])
  <2> DEFINE r == Round(at)
  <2>1. \A k \in 0 .. N : r[k] = IF k = 0 THEN Start(from) ELSE LocateNext(at[k - 1], path[k])
    OBVIOUS
  <2> HIDE DEF r
  <2> QED
    BY <1>8, <2>1 DEF r
<1>10. 0 \in 0 .. N /\ \A k \in 1 .. N : k \in 0 .. N /\ k # 0
  BY <1>1
<1>11. at[0] = Start(from) /\ \A k \in 1 .. N : at[k] = LocateNext(at[k - 1], path[k])
  BY <1>9, <1>10
<1> QED
  BY <1>11 DEF at

(* Segments that change nothing lead nowhere else. *)
LEMMA LocatedStays ==
  ASSUME NEW from, NEW path \in AllPaths, NEW i \in 0 .. Len(path), NEW j \in i .. Len(path),
         \A k \in i + 1 .. j :
           LocateNext(Located(from, path)[i], path[k]) = Located(from, path)[i]
  PROVE  Located(from, path)[j] = Located(from, path)[i]
<1> DEFINE N == Len(path)
           at == Located(from, path)
           x == at[i]
           T == {n \in Nat : i + n <= j => at[i + n] = x}
<1>1. N \in Nat /\ i \in Nat /\ j \in Nat /\ j <= N
  BY PathLen
<1>2. \A k \in 1 .. N : at[k] = LocateNext(at[k - 1], path[k])
  BY LocatedUnfolds
<1>3. \A k \in i + 1 .. j : LocateNext(x, path[k]) = x
  OBVIOUS
<1>4. x = at[i]
  OBVIOUS
<1> HIDE DEF at, x, N
<1>5. 0 \in T
  BY <1>1, <1>4
<1>6. ASSUME NEW n \in Nat, n \in T
      PROVE  n + 1 \in T
  <2> SUFFICES ASSUME i + (n + 1) <= j
               PROVE  at[i + (n + 1)] = x
    OBVIOUS
  <2> DEFINE k == i + (n + 1)
  <2>1. k \in 1 .. N /\ k \in i + 1 .. j /\ k - 1 = i + n /\ i + n <= j
    BY <1>1
  <2>2. at[k - 1] = x
    BY <1>6, <2>1
  <2> HIDE DEF k
  <2> QED
    BY <1>2, <1>3, <2>1, <2>2 DEF k
<1>7. Nat \subseteq T
  <2> HIDE DEF T
  <2> QED
    BY <1>5, <1>6, Induction
<1>8. j - i \in Nat /\ i + (j - i) = j /\ i + (j - i) <= j
  BY <1>1
<1>9. at[j] = x
  BY <1>7, <1>8
<1> QED
  BY <1>9 DEF at, x

(* Blank segments change nothing, and nothing is found behind Nowhere. *)
LEMMA BlankStays ==
  ASSUME NEW from, NEW path \in AllPaths, NEW i \in 0 .. Len(path), NEW j \in i .. Len(path),
         \A k \in i + 1 .. j : path[k] = <<>>
  PROVE  Located(from, path)[j] = Located(from, path)[i]
<1>1. \A k \in i + 1 .. j : LocateNext(Located(from, path)[i], path[k]) = Located(from, path)[i]
  BY DEF LocateNext
<1> QED
  BY <1>1, LocatedStays

LEMMA NowhereStays ==
  ASSUME NEW from, NEW path \in AllPaths, NEW i \in 0 .. Len(path),
         Located(from, path)[i] = Nowhere
  PROVE  Locate(from, path) = Nowhere
<1>1. Len(path) \in i .. Len(path)
  BY PathLen
<1>2. \A name : LocateNext(Nowhere, name) = Nowhere
  BY DEF LocateNext, Nowhere
<1> QED
  BY <1>1, <1>2, LocatedStays DEF Locate

(* The next segment that is not blank is looked for where the one before   *)
(* leads to; without one the path has been followed to its end.            *)
LEMMA NextSegment ==
  ASSUME NEW from, NEW path \in AllPaths, NEW i \in 0 .. Len(path)
  PROVE  LET at == Located(from, path)
             next == Min(Rest(path, i + 1))
         IN  IF Rest(path, i + 1) = {} THEN Locate(from, path) = at[i]
             ELSE /\ next \in Rest(path, 1) /\ next \in i + 1 .. Len(path)
                  /\ next - 1 \in i .. Len(path) /\ path[next] # <<>>
                  /\ at[next - 1] = at[i] /\ at[next] = LocateNext(at[i], path[next])
<1> DEFINE N == Len(path)
           at == Located(from, path)
           next == Min(Rest(path, i + 1))
<1>1. N \in Nat /\ i \in Nat /\ i + 1 \in Nat /\ i <= N
  BY PathLen
<1>2. CASE Rest(path, i + 1) = {}
  <2>1. \A k \in i + 1 .. N : path[k] = <<>>
    BY <1>2 DEF Rest
  <2>2. N \in i .. N
    BY <1>1
  <2>3. at[N] = at[i]
    BY <2>1, <2>2, BlankStays
  <2> QED
    BY <1>2, <2>3 DEF Locate
<1>3. CASE Rest(path, i + 1) # {}
  <2>1. /\ next \in Nat /\ next \in Rest(path, i + 1)
        /\ \A k \in Rest(path, i + 1) : next <= k
    BY <1>1, <1>3, RestIndex DEF AllPaths
  <2> HIDE DEF next
  <2>2. next \in i + 1 .. N /\ path[next] # <<>>
    BY <2>1 DEF Rest
  <2>3. next \in Rest(path, 1) /\ next \in 1 .. N /\ next - 1 \in i .. N
    BY <1>1, <2>2 DEF Rest
  <2>4. ASSUME NEW k \in i + 1 .. next - 1
        PROVE  path[k] = <<>>
    <3>1. k \in i + 1 .. N /\ ~(next <= k)
      BY <1>1, <2>2
    <3> QED
      BY <2>1, <3>1 DEF Rest
  <2> DEFINE j == next - 1
  <2>5. at[j] = at[i]
    <3>1. j \in i .. N /\ \A k \in i + 1 .. j : path[k] = <<>>
      BY <2>3, <2>4
    <3> HIDE DEF j
    <3> QED
      BY <3>1, BlankStays
  <2>6. at[next] = LocateNext(at[next - 1], path[next])
    BY <2>3, LocatedUnfolds
  <2> QED
    BY <1>3, <2>2, <2>3, <2>5, <2>6 DEF next
<1> QED
  BY <1>2, <1>3

-----------------------------------------------------------------------------
(* What a find returns *)

(* find compares a record as the image has it. *)
LEMMA MatchIsThere ==
  ASSUME AllWellFormed, TypeInv, BlockCoherent, ListInv, SuspInv, pc = "cont", call.cont = NoCont
  PROVE  /\ call.offset \in RecordOffsets(dir[W])
         /\ call.rec = Image[SeekPos(dir[W].loc) + call.offset]
         /\ call.susp = FullSusp(call.rec)
         /\ call.offset \in Matches(dir[W], Wanted) <=> FindMatches
<1> DEFINE d == dir[W]
           o == call.offset
<1>1. pc \in Running
  BY DEF Running
<1>2. W \in Walks /\ d \in Directories /\ o \in Nat
  BY <1>1, CallIsAt
<1>3. IsRecord(d, o) /\ call.rec = Image[SeekPos(d.loc) + o]
  BY RecordIsThere
<1>4. call.susp = FullSusp(call.rec)
  BY EntryIsComplete
<1>5. o < BlockCount(d) * BLOCK_SIZE
  <2>1. o = next_offset[W] /\ o # None
    BY <1>1, <1>2 DEF ListInv, CallInv, None
  <2> QED
    BY <1>2, <2>1 DEF ListInv
<1>6. o \in RecordOffsets(d)
  <2>1. WellFormed(d)
    BY <1>2 DEF AllWellFormed
  <2> HIDE DEF d, o
  <2> QED
    BY <1>2, <1>3, <1>5, <2>1, AfterRecord
<1>7. o \in Matches(d, Wanted) <=> FindMatches
  BY <1>3, <1>4, <1>6 DEF Matches, FindMatches, Rec
<1> QED
  BY <1>3, <1>4, <1>6, <1>7

(* The segment a find looks for is in the directory it walks. *)
LEMMA LooksIn ==
  ASSUME TypeInv, FindInv, pc \in Running, call.op = "find"
  PROVE  /\ call.path \in AllPaths /\ call.i \in 1 .. Len(call.path) /\ Len(call.path) \in Nat
         /\ call.from \in Directories
         /\ Located(call.from, call.path)[call.i] = LocateIn(dir[W], Wanted)
<1> DEFINE path == call.path
           from == call.from
           i == call.i
           at == Located(from, path)
<1>1. path \in AllPaths /\ from \in Directories
  BY DEF TypeInv, CallRecord, AllPaths
<1>2. Len(path) \in Nat
  BY <1>1, PathLen
<1>3. i \in Rest(path, 1) /\ at[i - 1].is = {dir[W]}
  BY DEF FindInv
<1>4. i \in 1 .. Len(path) /\ Wanted = path[i] /\ Wanted # <<>>
  BY <1>3 DEF Rest, Wanted
<1>5. at[i] = LocateNext(at[i - 1], path[i])
  <2> HIDE DEF path, from, i
  <2> QED
    BY <1>1, <1>4, LocatedUnfolds
<1>6. (CHOOSE d \in {dir[W]} : TRUE) = dir[W]
  OBVIOUS
<1> HIDE DEF at
<1>7. LocateNext(at[i - 1], Wanted) = LocateIn(dir[W], Wanted)
  BY <1>3, <1>4, <1>6 DEF LocateNext
<1> QED
  BY <1>1, <1>2, <1>4, <1>5, <1>7 DEF at

(* The first record that matches is what its segment leads to. *)
LEMMA FindFinds ==
  ASSUME AllWellFormed, TypeInv, BlockCoherent, ListInv, SuspInv, FindInv,
         HasEntry, call.op = "find", FindMatches
  PROVE  Located(call.from, call.path)[call.i]
           = [dir |-> dir[W], offset |-> call.offset, is |-> EntryDir(call.rec, call.susp)]
<1> DEFINE d == dir[W]
           o == call.offset
           M == Matches(d, Wanted)
<1>1. pc = "cont" /\ call.cont = NoCont /\ pc \in Running
  BY DEF HasEntry, Running
<1>2. /\ o \in RecordOffsets(d) /\ call.rec = Image[SeekPos(d.loc) + o]
      /\ call.susp = FullSusp(call.rec) /\ o \in M
  BY <1>1, MatchIsThere
<1>3. \A x \in M : o <= x
  BY <1>1 DEF FindInv
<1>4. M \subseteq Int
  BY DEF Matches, RecordOffsets
<1>5. (CHOOSE x \in M : \A other \in M : x <= other) = o
  <2> HIDE DEF M, o
  <2>1. \A x \in M : (\A other \in M : x <= other) => x = o
    BY <1>2, <1>3, <1>4
  <2> QED
    BY <1>2, <1>3, <2>1
<1>6. M # {}
  BY <1>2
<1>7. LocateIn(d, Wanted) = [dir |-> d, offset |-> o, is |-> EntryDir(call.rec, call.susp)]
  BY <1>2, <1>5, <1>6, Zenon DEF LocateIn
<1> QED
  BY <1>1, <1>7, LooksIn

(* Behind a record that does not match the walk goes on to the next, and   *)
(* where there is none the path leads nowhere.                             *)
LEMMA FindPasses ==
  ASSUME AllWellFormed, TypeInv, BlockCoherent, ListInv, SuspInv, FindInv,
         HasEntry, call.op = "find", ~FindMatches
  PROVE  /\ NextOffset = None => Locate(call.from, call.path) = Nowhere
         /\ NextOffset # None => \A x \in Matches(dir[W], Wanted) : NextOffset <= x
<1> DEFINE d == dir[W]
           o == call.offset
           M == Matches(d, Wanted)
           next == NextOffset
           RO == RecordOffsets(d)
<1>1. pc = "cont" /\ call.cont = NoCont /\ pc \in Running
  BY DEF HasEntry, Running
<1>2. o \notin M
  BY <1>1, MatchIsThere
<1>3. \A x \in M : o <= x /\ x \in RO /\ x \in Int
  BY <1>1 DEF FindInv, Matches, RecordOffsets
<1>4. {x \in RO : next = None \/ x < next} = {x \in RO : x < o} \cup {o}
  BY <1>1, NextIsNext
<1>5. next \in Nat \cup {None} /\ o \in Nat
  BY <1>1, NextOffsetType, CallIsAt
<1> HIDE DEF M, o, next, RO
<1>6. ASSUME NEW x \in M
      PROVE  next # None /\ next <= x
  <2>1. ~(x < o) /\ x # o
    BY <1>2, <1>3, <1>5
  <2>2. x \notin {y \in RO : next = None \/ y < next}
    BY <1>4, <2>1
  <2> QED
    BY <1>3, <1>5, <2>2 DEF None
<1>7. ASSUME next = None
      PROVE  Locate(call.from, call.path) = Nowhere
  <2> DEFINE path == call.path
             from == call.from
             i == call.i
  <2>1. LocateIn(d, Wanted) = Nowhere
    BY <1>6, <1>7 DEF LocateIn, M
  <2>2. path \in AllPaths /\ i \in 0 .. Len(path) /\ Located(from, path)[i] = Nowhere
    BY <1>1, <2>1, LooksIn
  <2> HIDE DEF path, from, i
  <2>3. Locate(from, path) = Nowhere
    BY <2>2, NowhereStays
  <2> QED
    BY <2>3 DEF path, from
<1> QED
  BY <1>6, <1>7 DEF next, M

(* The record of the last segment is where the path leads; that of one     *)
(* before it leads on from there, or nowhere if it is no directory.        *)
LEMMA FindFollows ==
  ASSUME AllWellFormed, TypeInv, BlockCoherent, ListInv, SuspInv, FindInv,
         HasEntry, call.op = "find", FindMatches
  PROVE  LET at == Located(call.from, call.path)
             found == EntryDir(call.rec, call.susp)
         IN  /\ Further = {} =>
                  Locate(call.from, call.path)
                    = [dir |-> dir[W], offset |-> call.offset, is |-> found]
             /\ Further # {} /\ found = {} => Locate(call.from, call.path) = Nowhere
             /\ Further # {} => \A d \in found : /\ Min(Further) \in Rest(call.path, 1)
                                                 /\ at[Min(Further) - 1].is = {d}
<1> DEFINE path == call.path
           from == call.from
           i == call.i
           at == Located(from, path)
           found == EntryDir(call.rec, call.susp)
           here == [dir |-> dir[W], offset |-> call.offset, is |-> found]
           next == Min(Further)
<1>1. pc \in Running
  BY DEF HasEntry, Running
<1>2. path \in AllPaths /\ i \in 0 .. Len(path)
  BY <1>1, LooksIn
<1>3. at[i] = here
  BY FindFinds
<1>4. here.is = found
  OBVIOUS
<1>5. Further = Rest(path, i + 1) /\ next = Min(Rest(path, i + 1))
  BY DEF Further
<1> HIDE DEF path, from, i, here, next
<1>6. IF Rest(path, i + 1) = {} THEN Locate(from, path) = at[i]
      ELSE /\ next \in Rest(path, 1) /\ next \in i + 1 .. Len(path)
           /\ next - 1 \in i .. Len(path) /\ path[next] # <<>>
           /\ at[next - 1] = at[i] /\ at[next] = LocateNext(at[i], path[next])
  BY <1>2, <1>5, NextSegment
<1>7. \A d \in found : found = {d}
  BY DEF EntryDir
<1>8. ASSUME Further # {}, found = {}
      PROVE  Locate(from, path) = Nowhere
  <2>1. at[next] = Nowhere
    BY <1>3, <1>4, <1>5, <1>6, <1>8 DEF LocateNext
  <2>2. next \in 0 .. Len(path)
    BY <1>2, <1>5, <1>6, <1>8
  <2> QED
    BY <1>2, <2>1, <2>2, NowhereStays
<1> HIDE DEF at, found
<1>9. Further = {} => Locate(from, path) = here
  BY <1>3, <1>5, <1>6
<1>10. Further # {} => next \in Rest(path, 1) /\ \A d \in found : at[next - 1].is = {d}
  BY <1>3, <1>4, <1>5, <1>6, <1>7
<1> QED
  BY <1>8, <1>9, <1>10 DEF path, from, i, at, found, here, next

(* A path without a segment leads to the directory itself. *)
LEMMA LocateSelf ==
  ASSUME NEW from, NEW path \in AllPaths, Rest(path, 1) = {}
  PROVE  Locate(from, path) = Start(from)
<1>1. 0 \in 0 .. Len(path) /\ Rest(path, 0 + 1) = {}
  BY PathLen
<1>2. Locate(from, path) = Located(from, path)[0]
  BY <1>1, NextSegment
<1> QED
  BY <1>2, LocatedUnfolds

(* A find begins with its first segment. *)
LEMMA FindBegins ==
  ASSUME NEW from, NEW path \in AllPaths, Rest(path, 1) # {}
  PROVE  /\ Min(Rest(path, 1)) \in Rest(path, 1)
         /\ Located(from, path)[Min(Rest(path, 1)) - 1].is = {from}
<1> DEFINE next == Min(Rest(path, 1))
           at == Located(from, path)
<1>1. 0 \in 0 .. Len(path) /\ 0 + 1 = 1
  BY PathLen
<1>2. next \in Rest(path, 1) /\ at[next - 1] = at[0]
  <2>1. LET x == Min(Rest(path, 0 + 1))
        IN  IF Rest(path, 0 + 1) = {} THEN Locate(from, path) = at[0]
            ELSE x \in Rest(path, 1) /\ at[x - 1] = at[0]
    BY <1>1, NextSegment
  <2> QED
    BY <1>1, <2>1
<1>3. at[0].is = {from}
  <2>1. at[0] = Start(from)
    BY LocatedUnfolds
  <2> QED
    BY <2>1 DEF Start
<1> QED
  BY <1>2, <1>3

(* The next find at or behind a place, in the directory it is led to. *)
LEMMA FindStarts ==
  ASSUME NEW d \in Directories, TypeInv, FindIsRight', pc' = "load", call'.w = Finder,
         NewIterator(Finder, d), call'.offset = 0, call'.i \in Rest(call'.path, 1),
         Located(call'.from, call'.path)[call'.i - 1].is = {d}
  PROVE  FindInv'
<1>1. dir' = [dir EXCEPT ![Finder] = d] /\ Finder \in Walks /\ dir \in [Walks -> Directories]
  BY DEF NewIterator, Walks, TypeInv, TypeOK
<1>2. dir'[W'] = d
  BY <1>1 DEF W
<1>3. \A x \in Matches(d, Wanted') : 0 <= x
  <2>1. d.len \in Nat
    BY DirectoryAssumption
  <2> QED
    BY <2>1 DEF Matches, RecordOffsets
<1> QED
  BY <1>2, <1>3 DEF FindInv

(* A find goes on in the same directory. *)
LEMMA FindMoves ==
  ASSUME FindInv, FindIsRight', pc \in Running, pc' \in Running, dir' = dir,
         call'.op = call.op, call'.w = call.w, call'.from = call.from,
         call'.path = call.path, call'.i = call.i,
         call.op = "find" => \A x \in Matches(dir[W], Wanted) : call'.offset <= x
  PROVE  FindInv'
<1>1. W' = W /\ Wanted' = Wanted /\ pc' # "self"
  BY DEF W, Wanted, Running
<1> QED
  BY <1>1 DEF FindInv

(* A find has an entry: it returns, descends or goes on. *)
LEMMA EntryFindInv ==
  ASSUME AllWellFormed, TypeInv, BlockCoherent, ListInv, SuspInv, FindInv,
         FindReturns \/ FindDescends \/ FindGoesOn
  PROVE  FindInv'
<1> DEFINE found == EntryDir(call.rec, call.susp)
           at == Locate(call.from, call.path)
<1>1. HasEntry /\ call.op = "find" /\ pc = "cont" /\ pc \in Running
  BY DEF FindReturns, FindDescends, FindGoesOn, HasEntry, Running
<1>2. call \in CallRecord /\ call.offset \in Nat /\ call.w = Finder
  BY <1>1 DEF TypeInv
<1>3. ASSUME NEW res, FindEnds(res), FindIsRight'
      PROVE  FindInv'
  BY <1>3 DEF FindEnds, Return, FindInv, Running
<1>4. ASSUME FindEnds("none"), at = Nowhere
      PROVE  FindIsRight'
  <2>1. reply'.from = call.from /\ reply'.path = call.path /\ reply'.res = "none"
    BY <1>4 DEF FindEnds, Return, Reply
  <2>2. Locate(reply'.from, reply'.path) = Nowhere
    BY <1>4, <2>1
  <2> QED
    BY <2>1, <2>2 DEF FindIsRight
<1>5. ASSUME reply' = reply
      PROVE  FindIsRight'
  BY <1>5 DEF FindInv, FindIsRight
<1>6. CASE FindReturns
  <2>1. FindMatches /\ Further = {} /\ FindEnds("some")
    BY <1>6 DEF FindReturns
  <2>2. at = [dir |-> dir[W], offset |-> call.offset, is |-> found]
    BY <1>1, <2>1, FindFollows
  <2>3. /\ reply'.from = call.from /\ reply'.path = call.path /\ reply'.res = "some"
        /\ reply'.dir = dir[W] /\ reply'.offset = call.offset
    BY <2>1 DEF FindEnds, Return, Reply
  <2>4. at.dir = dir[W] /\ at.offset = call.offset /\ Nowhere.offset = None
    BY <2>2 DEF Nowhere
  <2>5. at # Nowhere
    BY <1>2, <2>4 DEF None
  <2>6. Locate(reply'.from, reply'.path) = at
    BY <2>3
  <2> HIDE DEF at
  <2>7. FindIsRight'
    BY <2>3, <2>4, <2>5, <2>6 DEF FindIsRight
  <2> QED
    BY <1>3, <2>1, <2>7
<1>7. ASSUME NEW d \in found, FindMatches, Further # {}, NewIterator(Finder, d), pc' = "load",
             call' = [call EXCEPT !.i = Min(Further), !.offset = 0], reply' = reply
      PROVE  FindInv'
  <2> DEFINE i == Min(Further)
  <2>1. i \in Rest(call.path, 1) /\ Located(call.from, call.path)[i - 1].is = {d}
    BY <1>1, <1>7, FindFollows
  <2>2. i \in Nat
    BY <2>1 DEF Rest
  <2>3. call' = [call EXCEPT !.i = i, !.offset = 0]
    BY <1>7
  <2>4. d \in Directories
    <3>1. call.rec \in DOMAIN Records /\ call.susp \in Seq(Susp)
      BY <1>1 DEF TypeInv, CallRecord
    <3> QED
      BY <1>7, <3>1, EntryDirType
  <2> HIDE DEF i
  <2>5. /\ call'.w = call.w /\ call'.offset = 0
        /\ call'.from = call.from /\ call'.path = call.path /\ call'.i = i
    BY <1>2, <2>2, <2>3, CallDescends, Zenon
  <2>6. pc' = "load" /\ NewIterator(Finder, d)
    BY <1>7
  <2> QED
    BY <1>2, <1>5, <1>7, <2>1, <2>4, <2>5, <2>6, FindStarts
<1>8. ASSUME NextOffset # None, ~FindMatches, Advance, pc' = "load",
             call' = [call EXCEPT !.offset = NextOffset], reply' = reply
      PROVE  FindInv'
  <2> DEFINE o == NextOffset
  <2>1. o \in Nat \cup {None}
    BY <1>1, NextOffsetType
  <2>2. \A x \in Matches(dir[W], Wanted) : o <= x
    BY <1>1, <1>8, FindPasses
  <2>3. call' = [call EXCEPT !.offset = o]
    BY <1>8
  <2> HIDE DEF o
  <2>4. /\ call'.op = call.op /\ call'.w = call.w /\ call'.offset = o
        /\ call'.from = call.from /\ call'.path = call.path /\ call'.i = call.i
    BY <1>2, <2>1, <2>3, CallAdvances, Zenon
  <2>5. pc' \in Running /\ dir' = dir
    BY <1>8 DEF Advance, Running
  <2>6. FindIsRight'
    BY <1>5, <1>8
  <2> QED
    BY <1>1, <2>2, <2>4, <2>5, <2>6, FindMoves
<1>9. CASE FindDescends
  <2>1. FindMatches /\ Further # {}
    BY <1>9 DEF FindDescends
  <2>2. found = {} => at = Nowhere
    BY <1>1, <2>1, FindFollows
  <2>3. CASE found = {} /\ FindEnds("none")
    BY <1>3, <1>4, <2>2, <2>3
  <2> HIDE DEF at
  <2> QED
    BY <1>7, <1>9, <2>1, <2>3, Zenon DEF FindDescends
<1>10. CASE FindGoesOn
  <2>1. ~FindMatches
    BY <1>10 DEF FindGoesOn
  <2>2. NextOffset = None => at = Nowhere
    BY <1>1, <2>1, FindPasses
  <2>3. CASE NextOffset = None /\ FindEnds("none")
    BY <1>3, <1>4, <2>2, <2>3
  <2> HIDE DEF at
  <2> QED
    BY <1>8, <1>10, <2>1, <2>3, Zenon DEF FindGoesOn
<1> QED
  BY <1>6, <1>9, <1>10

(* A call of find or find_recursive begins. *)
LEMMA BeginFindInv ==
  ASSUME TypeInv, NEW d \in dirs, NEW path \in AllPaths,
         FindSelf(d, path) \/ (StartFind(d, path) /\ Rest(path, 1) # {})
  PROVE  FindInv'
<1>1. reply' = NoReply
  BY DEF FindSelf, StartFind
<1>2. FindIsRight'
  BY <1>1 DEF FindIsRight, NoReply, NoEntry
<1>3. CASE FindSelf(d, path)
  <2>1. pc' = "self" /\ call'.path = path /\ Rest(path, 1) = {}
    BY <1>3 DEF FindSelf, NewCall
  <2> QED
    BY <1>2, <2>1 DEF FindInv, Running
<1>4. CASE StartFind(d, path) /\ Rest(path, 1) # {}
  <2> DEFINE i == Min(Rest(path, 1))
  <2>1. i \in Rest(path, 1) /\ Located(d, path)[i - 1].is = {d}
    BY <1>4, FindBegins
  <2> HIDE DEF i
  <2>2. /\ pc' = "load" /\ NewIterator(Finder, d)
        /\ call'.w = Finder /\ call'.offset = 0 /\ call'.i = i
        /\ call'.from = d /\ call'.path = path
    BY <1>4 DEF StartFind, NewCall, i
  <2>3. d \in Directories
    BY DEF TypeInv, TypeOK
  <2> QED
    BY <1>2, <2>1, <2>2, <2>3, FindStarts
<1> QED
  BY <1>3, <1>4

(* Every step keeps a find on its way. *)
LEMMA NextFindInv ==
  ASSUME AllWellFormed, TypeInv, BlockCoherent, ListInv, SuspInv, FindInv, [Next]_vars
  PROVE  FindInv'
<1>1. ASSUME reply' = reply \/ reply'.op # "find" \/ reply'.res = "err"
      PROVE  FindIsRight'
  BY <1>1 DEF FindInv, FindIsRight
<1>2. ASSUME pc' = "idle", reply' = reply \/ reply'.op # "find" \/ reply'.res = "err"
      PROVE  FindInv'
  BY <1>1, <1>2 DEF FindInv, Running
<1>3. ASSUME pc \in Running, pc' \in Running, dir' = dir, reply' = reply,
             call'.op = call.op, call'.w = call.w, call'.from = call.from,
             call'.path = call.path, call'.i = call.i, call'.offset = call.offset
      PROVE  FindInv'
  <2>1. FindIsRight'
    BY <1>1, <1>3
  <2>2. call.op = "find" => \A x \in Matches(dir[W], Wanted) : call'.offset <= x
    BY <1>3 DEF FindInv
  <2> QED
    BY <1>3, <2>1, <2>2, FindMoves
<1>4. ASSUME NEW b, NEW num, Fail(b, num)
      PROVE  FindInv'
  BY <1>2, <1>4 DEF Fail, FailWith, Return, Reply
<1>5. CASE LoadShort \/ LoadFails \/ ParseFails \/ ContinueFails \/ NameFails
  BY <1>4, <1>5 DEF LoadShort, LoadShortWith, LoadFails, ParseFails, ContinueFails, NameFails,
                    FailHere
<1>6. CASE LoadCached \/ LoadBlock
  <2>1. /\ pc \in Running /\ pc' \in Running /\ dir' = dir /\ reply' = reply /\ call' = call
    BY <1>6 DEF LoadCached, LoadBlock, Running, walkVars
  <2> QED
    BY <1>3, <2>1
<1>7. call \in CallRecord
  BY DEF TypeInv
<1>8. CASE Parse
  <2> DEFINE c == RecordCell
             s == NotCEs(Records[RecordCell].susp)
             a == LastCE(Records[RecordCell].susp)
  <2>1. c \in Cell /\ Records[c].susp \in Seq(Susp)
    BY <1>8, DirectoryAssumption DEF Parse, Parses
  <2>2. s \in Seq(Susp) /\ a \in Susp \cup {NoCont}
    BY <2>1, NotCEsType, LastCEType
  <2>3. call' = [call EXCEPT !.rec = c, !.susp = s, !.cont = a]
    BY <1>8 DEF Parse
  <2> HIDE DEF c, s, a
  <2>4. /\ call'.op = call.op /\ call'.w = call.w /\ call'.offset = call.offset
        /\ call'.from = call.from /\ call'.path = call.path /\ call'.i = call.i
    BY <1>7, <2>1, <2>2, <2>3, CallParses, Zenon
  <2>5. pc \in Running /\ pc' \in Running /\ dir' = dir /\ reply' = reply
    BY <1>8 DEF Parse, Running, walkVars
  <2> QED
    BY <1>3, <2>4, <2>5
<1>9. ASSUME NEW s, NEW a, call' = [call EXCEPT !.susp = s, !.cont = a], pc = "cont",
             UNCHANGED <<walkVars, pc, reply>>
      PROVE  FindInv'
  <2>1. /\ call'.op = call.op /\ call'.w = call.w /\ call'.offset = call.offset
        /\ call'.from = call.from /\ call'.path = call.path /\ call'.i = call.i
    BY <1>7, <1>9, Zenon DEF CallRecord
  <2>2. pc \in Running /\ pc' \in Running /\ dir' = dir /\ reply' = reply
    BY <1>9 DEF Running, walkVars
  <2> QED
    BY <1>3, <2>1, <2>2
<1>10. CASE Continue
  BY <1>4, <1>9, <1>10, Zenon DEF Continue, FailHere
<1>11. CASE Yield
  BY <1>2, <1>11 DEF Yield, Return, Reply
<1>12. CASE FindSelfReturns
  <2> DEFINE path == call.path
             from == call.from
  <2>1. /\ pc = "self" /\ pc' = "idle" /\ reply'.from = from /\ reply'.path = path
        /\ reply'.res = "some" /\ reply'.dir = from /\ reply'.offset = None
    BY <1>12 DEF FindSelfReturns, Reply, SuspInv
  <2>2. path \in AllPaths /\ Rest(path, 1) = {}
    BY <1>7, <2>1 DEF FindInv, CallRecord, AllPaths
  <2>3. Locate(from, path) = Start(from)
    BY <2>2, LocateSelf
  <2>4. /\ Start(from).dir = from /\ Start(from).offset = None
        /\ Start(from).is = {from} /\ Nowhere.is = {}
    BY DEF Start, Nowhere
  <2>5. Start(from) # Nowhere
    BY <2>4
  <2> HIDE DEF path, from
  <2>6. FindIsRight'
    BY <2>1, <2>3, <2>4, <2>5 DEF FindIsRight
  <2> QED
    BY <2>1, <2>6 DEF FindInv, Running
<1>13. ASSUME NEW v \in Iterators, NEW d, NextNone(v) \/ Resume(v) \/ Contents(v, d)
       PROVE  FindInv'
  BY <1>2, <1>13 DEF NextNone, Resume, Contents, NoReply, NoEntry
<1>14. ASSUME NEW v \in Iterators, NextCall(v)
       PROVE  FindInv'
  <2>1. call'.op = "next" /\ pc' = "load" /\ reply'.op = "none"
    BY <1>14 DEF NextCall, NewCall, NoReply, NoEntry
  <2> QED
    BY <1>1, <2>1 DEF FindInv
<1>15. ASSUME NEW d \in dirs, NEW name \in Names, FindCall(d, name)
       PROVE  FindInv'
  <2> DEFINE path == <<name>>
  <2>1. path \in AllPaths /\ Rest(path, 1) # {} /\ StartFind(d, path)
    BY <1>15, NameIsPath DEF FindCall, AllPaths
  <2> HIDE DEF path
  <2> QED
    BY <2>1, BeginFindInv
<1>16. ASSUME NEW d \in dirs, NEW path \in Paths, FindRecursive(d, path) \/ FindSelf(d, path)
       PROVE  FindInv'
  BY <1>16, BeginFindInv DEF FindRecursive, AllPaths
<1>17. CASE UNCHANGED vars
  BY <1>17 DEF vars, walkVars, FindInv, FindIsRight, W, Wanted
<1> QED
  BY <1>5, <1>6, <1>8, <1>10, <1>11, <1>12, <1>13, <1>14, <1>15, <1>16, <1>17, EntryFindInv
     DEF Next, Step

(* All that is known of the state. *)
Known == TypeInv /\ BlockCoherent /\ ListInv /\ SuspInv /\ FindInv

LEMMA AlwaysKnown ==
  ASSUME AllWellFormed, AreasWellFormed, "short" \notin Faults
  PROVE  Spec => []Known
<1>1. Init => Known
  <2>1. Init => BlockCoherent
    BY DEF Init, BlockCoherent
  <2>2. Init => FindInv
    BY DEF Init, FindInv, FindIsRight, NoReply, NoEntry, Running
  <2> QED
    BY <2>1, <2>2, InitTypeInv, InitListInv, InitSuspInv DEF Known
<1>2. Known /\ [Next]_vars => Known'
  <2> SUFFICES ASSUME Known, [Next]_vars
               PROVE  Known'
    OBVIOUS
  <2>1. TypeInv /\ BlockCoherent /\ ListInv /\ SuspInv /\ FindInv
    BY DEF Known
  <2>2. TypeInv'
    BY <2>1, NextTypeInv
  <2>3. BlockCoherent'
    BY <2>1, NextBlockStep, BlockStepCoherent
  <2>4. ListInv' /\ SuspInv' /\ FindInv'
    BY <2>1, NextListInv, NextSuspInv, NextFindInv
  <2> QED
    BY <2>2, <2>3, <2>4 DEF Known
<1> QED
  BY <1>1, <1>2, PTL DEF Spec

(* On a well-formed image, as long as no read falls short, find and        *)
(* find_recursive return the entry their path leads to, and none only when *)
(* it leads nowhere, for every path and whatever reads failed in earlier   *)
(* calls (ISODirectory::find, find_recursive).                             *)
THEOREM FindsWhatIsThere ==
  ASSUME AllWellFormed, AreasWellFormed, "short" \notin Faults
  PROVE  Spec => []FindIsRight
<1>1. Spec => []Known
  BY AlwaysKnown
<1>2. Known => FindIsRight
  BY DEF Known, FindInv
<1> QED
  BY <1>1, <1>2, PTL

-----------------------------------------------------------------------------
(* The walks are directory streams *)

(* A call that runs is a next or a find, and one that does not is none. *)
LEMMA Asking ==
  /\ pc = "idle" => StreamAsked = Stream!Nothing
  /\ pc # "idle" /\ call.op = "next" => StreamAsked = Stream!AskNext(call.w)
  /\ pc # "idle" /\ call.op = "find" => StreamAsked = Stream!AskFind(call.from, call.path)
BY DEF StreamAsked, Stream!Nothing, Stream!AskNext, Stream!AskFind

(* What is not seen of a step: that the walk of a find begins anew or goes *)
(* on.                                                                     *)
LEMMA OthersStay ==
  ASSUME TypeInv, ListInv,
         \/ UNCHANGED <<dir, listed>>
         \/ \E d : NewIterator(Finder, d)
         \/ Advance /\ W = Finder
  PROVE  StreamDir' = StreamDir /\ StreamYielded' = StreamYielded
<1>1. /\ dir \in [Walks -> Directories] /\ listed \in [Walks -> SUBSET Int]
      /\ \A w \in Iterators : w \in Walks /\ w # Finder
  BY DirectoryAssumption DEF TypeInv, TypeOK, ListInv, Walks
<1>2. \A w \in Iterators : dir'[w] = dir[w] /\ listed'[w] = listed[w]
  BY <1>1 DEF NewIterator, Advance
<1> QED
  BY <1>2 DEF StreamDir, StreamYielded

(* The walks begin as streams do. *)
LEMMA InitIsStreamInit == Init => Stream!Init
<1> SUFFICES ASSUME Init
             PROVE  Stream!Init
  OBVIOUS
<1>1. StreamDir = [w \in Iterators |-> Root] /\ StreamYielded = [w \in Iterators |-> {}]
  BY DEF Init, StreamDir, StreamYielded, Walks
<1>2. StreamAsked = Stream!Nothing
  BY Asking DEF Init
<1>3. StreamAnswer = Stream!NoEntry
  BY DEF Init, StreamAnswer, NoReply, NoEntry, Stream!NoEntry
<1> QED
  BY <1>1, <1>2, <1>3 DEF Stream!Init

(* A call that fails. *)
LEMMA FailIsFail ==
  ASSUME TypeInv, ListInv, pc \in Running, NEW b, NEW num, Fail(b, num)
  PROVE  Stream!Next
<1>1. pc # "idle" /\ call.op \in {"next", "find"} /\ pc' = "idle" /\ reply'.res = "err"
  BY DEF TypeInv, Running, Fail, FailWith, Return, Reply
<1>2. StreamDir' = StreamDir /\ StreamYielded' = StreamYielded
  BY OthersStay DEF Fail, FailWith
<1>3. StreamAsked # Stream!Nothing /\ StreamAsked' = Stream!Nothing
  BY <1>1 DEF StreamAsked, Stream!Nothing
<1>4. StreamAnswer' = Stream!Error
  BY <1>1 DEF StreamAnswer, Stream!Error
<1> QED
  BY <1>2, <1>3, <1>4 DEF Stream!Next, Stream!Fail

(* A find that returns what its path leads to. *)
LEMMA FindIsFind ==
  ASSUME TypeInv, ListInv, pc # "idle", call.op = "find", pc' = "idle",
         UNCHANGED <<dir, listed>> \/ NewIterator(Finder, Root), FindIsRight',
         reply'.op = "find", reply'.from = call.from, reply'.path = call.path,
         reply'.res \in {"some", "none"}
  PROVE  Stream!Next
<1> DEFINE at == Locate(call.from, call.path)
<1>1. StreamDir' = StreamDir /\ StreamYielded' = StreamYielded
  BY OthersStay
<1>2. /\ StreamAsked.op = "find" /\ StreamAsked.from = call.from /\ StreamAsked.path = call.path
      /\ StreamAsked' = Stream!Nothing
  BY DEF StreamAsked, Stream!Nothing
<1>3. /\ reply'.res = "some" => at # Nowhere /\ reply'.dir = at.dir /\ reply'.offset = at.offset
      /\ reply'.res = "none" => at = Nowhere
  BY DEF FindIsRight
<1>4. StreamAnswer' = IF at = Nowhere THEN Stream!NoEntry ELSE Stream!Entry(Stream!Place(at))
  <2> HIDE DEF at
  <2> QED
    BY <1>3 DEF StreamAnswer, Place, Stream!NoEntry, Stream!Entry, Stream!Place
<1> QED
  BY <1>1, <1>2, <1>4 DEF Stream!Next, Stream!Find

(* A record that is yielded is the first of those left. *)
LEMMA YieldIsYield ==
  ASSUME AllWellFormed, TypeInv, BlockCoherent, ListInv, SuspInv, Yield
  PROVE  Stream!Next
<1> DEFINE o == call.offset
           w == call.w
           RO == RecordOffsets(dir[w])
<1>1. pc = "cont" /\ pc \in Running /\ call.cont = NoCont /\ call.op = "next" /\ pc' = "idle"
  BY DEF Yield, HasEntry, Running, Return
<1>2. w \in Iterators /\ w \in Walks /\ W = w /\ o \in Nat /\ o = next_offset[w]
  BY <1>1 DEF TypeInv, W, Walks, ListInv, CallInv
<1>3. o \in RO
  BY <1>1, <1>2, MatchIsThere
<1>4. listed[w] = {x \in RO : x < o} /\ RO \subseteq Int
  BY <1>2 DEF ListInv, ListedExactly, None, RecordOffsets
<1>5. /\ listed' = [listed EXCEPT ![w] = @ \cup {o}] /\ dir' = dir
      /\ reply'.res = "some" /\ reply'.dir = dir[w] /\ reply'.offset = o
  BY <1>2 DEF Yield, Advance, Return, Reply
<1>6. listed \in [Walks -> SUBSET Int]
  BY DEF ListInv
<1> HIDE DEF o, w, RO
<1>7. StreamDir[w] = dir[w] /\ StreamYielded[w] = listed[w]
  BY <1>2 DEF StreamDir, StreamYielded
<1>8. Stream!Left(w) = {x \in RO : ~(x < o)}
  BY <1>4, <1>7 DEF Stream!Left, RO
<1>9. o \in Stream!Left(w) /\ \A other \in Stream!Left(w) : o <= other
  <2> DEFINE rest == {x \in RO : ~(x < o)}
  <2>1. o \in Int /\ \A x \in RO : x \in Int
    BY <1>2, <1>4 DEF o
  <2>2. ~(o < o) /\ \A x \in RO : ~(x < o) => o <= x
    BY <2>1
  <2>3. o \in rest /\ \A x \in rest : o <= x
    BY <1>3, <2>2 DEF o, RO
  <2> HIDE DEF rest
  <2> QED
    BY <1>8, <2>3 DEF rest
<1>10. StreamYielded' = [StreamYielded EXCEPT ![w] = @ \cup {o}]
  <2>1. \A v \in Iterators : v \in Walks
    BY DEF Walks
  <2>2. \A v \in Iterators : listed'[v] = IF v = w THEN listed[v] \cup {o} ELSE listed[v]
    BY <1>5, <1>6, <2>1
  <2> QED
    BY <1>2, <2>2 DEF StreamYielded
<1>11. StreamAnswer' = Stream!Entry([dir |-> StreamDir[w], offset |-> o])
  BY <1>5, <1>7 DEF StreamAnswer, Stream!Entry, Place
<1>12. StreamAsked = Stream!AskNext(w) /\ StreamAsked' = Stream!Nothing
  BY <1>1 DEF StreamAsked, Stream!AskNext, Stream!Nothing, w
<1>13. StreamDir' = StreamDir
  BY <1>5 DEF StreamDir
<1>14. Stream!Yield(w)
  BY <1>9, <1>10, <1>11, <1>12, <1>13 DEF Stream!Yield
<1> QED
  BY <1>2, <1>14 DEF Stream!Next

(* A call begins. *)
LEMMA BeginIsCall ==
  ASSUME TypeInv, ListInv, pc = "idle", pc' # "idle", reply' = NoReply,
         UNCHANGED <<dir, listed>> \/ \E d : NewIterator(Finder, d),
         call'.op = "find" \/ (call'.op = "next" /\ call'.w \in Iterators)
  PROVE  Stream!Next
<1>1. StreamDir' = StreamDir /\ StreamYielded' = StreamYielded
  BY OthersStay
<1>2. StreamAsked = Stream!Nothing
  BY Asking
<1>3. StreamAnswer' = Stream!NoEntry
  BY DEF StreamAnswer, NoReply, NoEntry, Stream!NoEntry
<1>4. CASE call'.op = "next" /\ call'.w \in Iterators
  <2>1. StreamAsked' = Stream!AskNext(call'.w)
    BY <1>4 DEF StreamAsked, Stream!AskNext
  <2> QED
    BY <1>1, <1>2, <1>3, <1>4, <2>1 DEF Stream!Next, Stream!Call
<1>5. CASE call'.op = "find"
  <2>1. StreamAsked' = Stream!AskFind(call'.from, call'.path)
    BY <1>5 DEF StreamAsked, Stream!AskFind
  <2>2. StreamAsked'.op = "find" /\ StreamAsked'.from = call'.from /\ StreamAsked'.path = call'.path
    BY <2>1 DEF Stream!AskFind
  <2>3. StreamAsked' = Stream!AskFind(StreamAsked'.from, StreamAsked'.path)
    BY <2>1, <2>2
  <2> QED
    BY <1>1, <1>2, <1>3, <2>2, <2>3 DEF Stream!Next, Stream!Call
<1> QED
  BY <1>4, <1>5

(* Every step of the walks is a step of the streams, or not seen. *)
LEMMA StepIsStreamStep ==
  ASSUME AllWellFormed, TypeInv, BlockCoherent, ListInv, SuspInv, FindIsRight', [Next]_vars
  PROVE  [Stream!Next]_(Stream!streamVars)
<1> DEFINE Same == UNCHANGED <<StreamDir, StreamYielded, StreamAsked, StreamAnswer>>
<1> SUFFICES Stream!Next \/ Same
  BY DEF Stream!streamVars
<1> DEFINE Goal == Stream!Next \/ Same
<1>1. ASSUME UNCHANGED <<dir, listed, pc, call, reply>>
      PROVE  Same
  BY <1>1 DEF StreamDir, StreamYielded, StreamAsked, StreamAnswer, Place
<1>2. ASSUME pc \in Running, pc' \in Running, reply' = reply,
             call'.op = call.op, call'.w = call.w, call'.from = call.from, call'.path = call.path,
             \/ UNCHANGED <<dir, listed>>
             \/ \E d : NewIterator(Finder, d)
             \/ Advance /\ W = Finder
      PROVE  Same
  <2>1. StreamDir' = StreamDir /\ StreamYielded' = StreamYielded
    BY <1>2, OthersStay
  <2>2. pc # "idle" /\ pc' # "idle"
    BY <1>2 DEF Running
  <2>3. StreamAsked' = StreamAsked
    BY <1>2, <2>2 DEF StreamAsked
  <2>4. StreamAnswer' = StreamAnswer
    BY <1>2 DEF StreamAnswer, Place
  <2> QED
    BY <2>1, <2>3, <2>4
<1>3. call \in CallRecord
  BY DEF TypeInv
<1> HIDE DEF Same
<1>4. CASE LoadShort \/ LoadFails \/ ParseFails \/ ContinueFails \/ NameFails
  <2>1. pc \in Running /\ \E b, num : Fail(b, num)
    BY <1>4 DEF LoadShort, LoadShortWith, LoadFails, ParseFails, ContinueFails, NameFails,
                FailHere, Running
  <2> QED
    BY <2>1, FailIsFail
<1>5. CASE LoadCached \/ LoadBlock
  <2>1. pc \in Running /\ pc' \in Running /\ UNCHANGED <<reply, call, dir, listed>>
    BY <1>5 DEF LoadCached, LoadBlock, walkVars, Running
  <2> QED
    BY <1>2, <2>1
<1>6. CASE Parse
  <2> DEFINE c == RecordCell
             s == NotCEs(Records[RecordCell].susp)
             a == LastCE(Records[RecordCell].susp)
  <2>1. call' = [call EXCEPT !.rec = c, !.susp = s, !.cont = a]
    BY <1>6 DEF Parse
  <2> HIDE DEF c, s, a
  <2>2. /\ call'.op = call.op /\ call'.w = call.w /\ call'.from = call.from
        /\ call'.path = call.path
    BY <1>3, <2>1, Zenon DEF CallRecord
  <2>3. pc \in Running /\ pc' \in Running /\ UNCHANGED <<reply, dir, listed>>
    BY <1>6 DEF Parse, walkVars, Running
  <2> QED
    BY <1>2, <2>2, <2>3
<1>7. ASSUME NEW s, NEW a, call' = [call EXCEPT !.susp = s, !.cont = a], pc = "cont",
             UNCHANGED <<walkVars, pc, reply>>
      PROVE  Goal
  <2>1. /\ call'.op = call.op /\ call'.w = call.w /\ call'.from = call.from
        /\ call'.path = call.path
    BY <1>3, <1>7, Zenon DEF CallRecord
  <2>2. pc \in Running /\ pc' \in Running /\ UNCHANGED <<reply, dir, listed>>
    BY <1>7 DEF walkVars, Running
  <2> QED
    BY <1>2, <2>1, <2>2
<1>8. ASSUME pc = "cont", FailHere
      PROVE  Goal
  BY <1>8, FailIsFail DEF FailHere, Running
<1>9. CASE Continue
  <2> HIDE DEF Goal
  <2> SUFFICES Goal
    BY DEF Goal
  <2> QED
    BY <1>7, <1>8, <1>9, Zenon DEF Continue
<1>10. CASE Yield
  BY <1>10, YieldIsYield
<1>11. ASSUME NEW res \in {"some", "none"}, pc = "cont", call.op = "find", FindEnds(res)
       PROVE  Goal
  <2>1. /\ pc # "idle" /\ pc' = "idle" /\ NewIterator(Finder, Root) /\ reply'.op = "find"
        /\ reply'.from = call.from /\ reply'.path = call.path /\ reply'.res = res
    BY <1>11 DEF FindEnds, Return, Reply
  <2> QED
    BY <1>11, <2>1, FindIsFind
<1>12. CASE FindReturns
  BY <1>11, <1>12 DEF FindReturns, HasEntry
<1>13. CASE FindSelfReturns
  <2>1. /\ pc = "self" /\ pc' = "idle" /\ UNCHANGED <<dir, listed>>
        /\ reply'.op = call.op /\ reply'.from = call.from /\ reply'.path = call.path
        /\ reply'.res = "some"
    BY <1>13 DEF FindSelfReturns, Reply, walkVars
  <2>2. call.op = "find"
    BY <2>1 DEF SuspInv
  <2> QED
    BY <2>1, <2>2, FindIsFind
<1>14. ASSUME pc = "cont", call.op = "find", NEW d, NewIterator(Finder, d), pc' = "load",
              call' = [call EXCEPT !.i = Min(Further), !.offset = 0], reply' = reply
       PROVE  Goal
  <2>1. /\ call'.op = call.op /\ call'.w = call.w /\ call'.from = call.from
        /\ call'.path = call.path
    BY <1>3, <1>14, Zenon DEF CallRecord
  <2>2. pc \in Running /\ pc' \in Running /\ reply' = reply /\ NewIterator(Finder, d)
    BY <1>14 DEF Running
  <2> QED
    BY <1>2, <2>1, <2>2
<1>15. ASSUME pc = "cont", call.op = "find", Advance, pc' = "load",
              call' = [call EXCEPT !.offset = NextOffset], reply' = reply
       PROVE  Goal
  <2>1. /\ call'.op = call.op /\ call'.w = call.w /\ call'.from = call.from
        /\ call'.path = call.path
    BY <1>3, <1>15, Zenon DEF CallRecord
  <2>2. pc \in Running /\ pc' \in Running /\ reply' = reply /\ Advance /\ W = Finder
    BY <1>15 DEF Running, TypeInv, W
  <2> QED
    BY <1>2, <2>1, <2>2
<1>16. CASE FindDescends
  <2> HIDE DEF Goal
  <2> SUFFICES Goal
    BY DEF Goal
  <2> QED
    BY <1>11, <1>14, <1>16, Zenon DEF FindDescends, HasEntry
<1>17. CASE FindGoesOn
  <2> HIDE DEF Goal
  <2> SUFFICES Goal
    BY DEF Goal
  <2> QED
    BY <1>11, <1>15, <1>17, Zenon DEF FindGoesOn, HasEntry
<1>18. ASSUME NEW w \in Iterators, NextCall(w)
       PROVE  Goal
  <2>1. /\ pc = "idle" /\ pc' # "idle" /\ reply' = NoReply /\ UNCHANGED <<dir, listed>>
        /\ call'.op = "next" /\ call'.w = w
    BY <1>18 DEF NextCall, NewCall, walkVars
  <2> QED
    BY <2>1, BeginIsCall
<1>19. ASSUME NEW d, NEW path, StartFind(d, path) \/ FindSelf(d, path)
       PROVE  Goal
  <2>1. /\ pc = "idle" /\ pc' # "idle" /\ reply' = NoReply /\ call'.op = "find"
        /\ UNCHANGED <<dir, listed>> \/ NewIterator(Finder, d)
    BY <1>19 DEF StartFind, FindSelf, NewCall, walkVars
  <2> QED
    BY <2>1, BeginIsCall
<1>20. ASSUME NEW w \in Iterators, NextNone(w)
       PROVE  Goal
  <2>1. /\ pc = "idle" /\ next_offset[w] = None /\ reply'.res = "none"
        /\ UNCHANGED <<dir, listed, pc, call>>
    BY <1>20 DEF NextNone, NoEntry, walkVars
  <2>2. w \in Walks
    BY DEF Walks
  <2>3. listed[w] = RecordOffsets(dir[w])
    BY <2>1, <2>2 DEF ListInv, ListedExactly
  <2>4. Stream!Left(w) = {}
    BY <2>3 DEF Stream!Left, StreamDir, StreamYielded
  <2>5. StreamAsked = Stream!Nothing
    BY <2>1, Asking
  <2>6. StreamAnswer' = Stream!NoEntry
    BY <2>1 DEF StreamAnswer, Stream!NoEntry
  <2>7. UNCHANGED <<StreamDir, StreamYielded, StreamAsked>>
    BY <2>1 DEF StreamDir, StreamYielded, StreamAsked
  <2>8. Stream!End(w)
    BY <2>4, <2>5, <2>6, <2>7 DEF Stream!End
  <2> QED
    BY <2>8 DEF Stream!Next
<1>21. ASSUME NEW w \in Iterators, Resume(w)
       PROVE  Goal
  <2>1. UNCHANGED <<dir, listed, pc, call, reply>>
    BY <1>21 DEF Resume
  <2> QED
    BY <1>1, <2>1
<1>22. ASSUME NEW w \in Iterators, NEW d, Contents(w, d)
       PROVE  Goal
  <2>1. /\ pc = "idle" /\ NewIterator(w, d) /\ reply' = NoReply /\ UNCHANGED <<pc, call>>
    BY <1>22 DEF Contents
  <2>2. /\ dir \in [Walks -> Directories] /\ listed \in [Walks -> SUBSET Int]
        /\ \A v \in Iterators : v \in Walks
    BY DEF TypeInv, TypeOK, ListInv, Walks
  <2>3. \A v \in Iterators : /\ dir'[v] = IF v = w THEN d ELSE dir[v]
                             /\ listed'[v] = IF v = w THEN {} ELSE listed[v]
    BY <2>1, <2>2 DEF NewIterator
  <2>4. StreamDir' = [StreamDir EXCEPT ![w] = StreamDir'[w]]
    BY <2>3 DEF StreamDir
  <2>5. StreamYielded' = [StreamYielded EXCEPT ![w] = {}]
    BY <2>3 DEF StreamYielded
  <2>6. StreamAsked = Stream!Nothing /\ StreamAsked' = StreamAsked
    BY <2>1, Asking DEF StreamAsked
  <2>7. StreamAnswer' = Stream!NoEntry
    BY <2>1 DEF StreamAnswer, NoReply, NoEntry, Stream!NoEntry
  <2>8. Stream!Contents(w)
    BY <2>4, <2>5, <2>6, <2>7 DEF Stream!Contents
  <2> QED
    BY <2>8 DEF Stream!Next
<1>23. CASE UNCHANGED vars
  <2>1. UNCHANGED <<dir, listed, pc, call, reply>>
    BY <1>23 DEF vars, walkVars
  <2> QED
    BY <1>1, <2>1
<1> QED
  BY <1>4, <1>5, <1>6, <1>9, <1>10, <1>12, <1>13, <1>16, <1>17, <1>18, <1>19, <1>20, <1>21,
     <1>22, <1>23 DEF Next, Step, FindCall, FindRecursive

(* On a well-formed image, as long as no read falls short, the walks are   *)
(* directory streams: every next hands out the first record that is left   *)
(* or says that there is none, every find answers with what its path leads *)
(* to, or the call fails and nothing is lost, although walks share the     *)
(* image's position and each reads blocks through a cache of its own.      *)
THEOREM ImplementsDirectoryStream ==
  ASSUME AllWellFormed, AreasWellFormed, "short" \notin Faults
  PROVE  Spec => StreamSpec
<1>1. Spec => []Known
  BY AlwaysKnown
<1>2. Known /\ Known' /\ [Next]_vars => [Stream!Next]_(Stream!streamVars)
  <2> SUFFICES ASSUME Known, Known', [Next]_vars
               PROVE  [Stream!Next]_(Stream!streamVars)
    OBVIOUS
  <2>1. TypeInv /\ BlockCoherent /\ ListInv /\ SuspInv
    BY DEF Known
  <2>2. FindIsRight'
    BY DEF Known, FindInv
  <2> QED
    BY <2>1, <2>2, StepIsStreamStep
<1> QED
  BY <1>1, <1>2, InitIsStreamInit, PTL DEF Spec, StreamSpec, Stream!Spec

=============================================================================
