--------------------------- MODULE EntryMetaProofs ---------------------------
(***************************************************************************)
(* What EntryMeta says of a record, proved for every record and every      *)
(* System Use area: the invariant is that each entry is parsed from the    *)
(* one recorded at its place; the rest are facts about that state.         *)
(***************************************************************************)
EXTENDS EntryMeta, NatLemmas, SequenceTheorems, FiniteSetTheorems

-----------------------------------------------------------------------------
(* The entries *)

(* An entry is of the kind its signature says. *)
LEMMA Kinds ==
  ASSUME NEW e \in RawEntries
  PROVE  /\ e.t \in {"NM", "SL", "TF", "PX", "ER", "RE", "CL"}
         /\ e.t = "NM" => e \in NameEntries
         /\ e.t = "SL" => e \in LinkEntries
         /\ e.t = "TF" => e \in TimeEntries
         /\ e.t = "PX" => e \in ModeEntries
<1>1. e \in NameEntries \/ e \in LinkEntries \/ e \in TimeEntries \/ e \in ModeEntries
      \/ e \in OtherEntries
  BY MetaAssumption
<1>2. e \in NameEntries => e.t = "NM"
  BY DEF NameEntries
<1>3. e \in LinkEntries => e.t = "SL"
  BY DEF LinkEntries
<1>4. e \in TimeEntries => e.t = "TF"
  BY DEF TimeEntries
<1>5. e \in ModeEntries => e.t = "PX"
  BY DEF ModeEntries
<1>6. e \in OtherEntries => e.t \in {"ER", "RE", "CL"}
  BY DEF OtherEntries
<1> QED
  BY <1>1, <1>2, <1>3, <1>4, <1>5, <1>6

(* What is made of an entry of each kind. *)
LEMMA ParseKinds ==
  ASSUME NEW e
  PROVE  /\ e.t = "PX" => ParseSusp(e) = PosixAttributes(e)
         /\ e.t = "TF" /\ e.times # <<>> =>
              ParseSusp(e) = [t |-> "TF", time |-> PosixTimestamp(e.flags, DateTimes(e))]
         /\ e.t = "TF" /\ e.times = <<>> => ParseSusp(e) = Unknown
         /\ e.t = "SL" /\ e.records = <<>> => ParseSusp(e) = Unknown
         /\ e.t = "SL" /\ e.records # <<>> => ParseSusp(e) = e
         /\ e.t = "NM" /\ ~e.utf8 => ParseSusp(e) = Unknown
         /\ e.t = "NM" /\ e.utf8 => ParseSusp(e) = e
         /\ e.t = "ER" /\ e.ids = <<>> => ParseSusp(e) = Unknown
         /\ e.t = "ER" /\ e.ids # <<>> => ParseSusp(e) =
              [t |-> "ER", extensions |-> {SuspExtension(id) : id \in Range(e.ids)}]
         /\ e.t \in {"RE", "CL"} => ParseSusp(e) = e
<1>1. e.t = "PX" => ParseSusp(e) = PosixAttributes(e)
  BY Zenon DEF ParseSusp
<1>2. e.t = "TF" /\ e.times # <<>> =>
        ParseSusp(e) = [t |-> "TF", time |-> PosixTimestamp(e.flags, DateTimes(e))]
  BY Zenon DEF ParseSusp
<1>3. e.t = "TF" /\ e.times = <<>> => ParseSusp(e) = Unknown
  BY Zenon DEF ParseSusp
<1>4. e.t = "SL" /\ e.records = <<>> => ParseSusp(e) = Unknown
  BY Zenon DEF ParseSusp
<1>5. e.t = "SL" /\ e.records # <<>> => ParseSusp(e) = e
  BY Zenon DEF ParseSusp
<1>6. e.t = "NM" /\ ~e.utf8 => ParseSusp(e) = Unknown
  BY Zenon DEF ParseSusp
<1>7. e.t = "NM" /\ e.utf8 => ParseSusp(e) = e
  BY Zenon DEF ParseSusp
<1>8. e.t = "ER" /\ e.ids # <<>> => ParseSusp(e) =
        [t |-> "ER", extensions |-> {SuspExtension(id) : id \in Range(e.ids)}]
  BY Zenon DEF ParseSusp
<1>9. e.t = "ER" /\ e.ids = <<>> => ParseSusp(e) = Unknown
  BY Zenon DEF ParseSusp
<1>10. e.t \in {"RE", "CL"} => ParseSusp(e) = e
  BY Zenon DEF ParseSusp
<1> QED
  BY <1>1, <1>2, <1>3, <1>4, <1>5, <1>6, <1>7, <1>8, <1>9, <1>10

-----------------------------------------------------------------------------
(* The invariant *)

(* Each entry is parsed from the one recorded at its place. *)
Parsed ==
  /\ header \in Headers
  /\ raw \in Seq(RawEntries)
  /\ susp \in Seq({ParseSusp(e) : e \in RawEntries})
  /\ Len(susp) = Len(raw)
  /\ \A i \in 1 .. Len(raw) : susp[i] = ParseSusp(raw[i])

(* It holds before anything is read, *)
LEMMA InitParsed == Init => Parsed
<1> SUFFICES ASSUME Init
             PROVE  Parsed
  OBVIOUS
<1> QED
  BY DEF Init, Parsed

(* every entry that is read keeps it, *)
LEMMA NextParsed == Parsed /\ [Next]_vars => Parsed'
<1> SUFFICES ASSUME Parsed, [Next]_vars
             PROVE  Parsed'
  OBVIOUS
<1>1. CASE UNCHANGED vars
  BY <1>1 DEF Parsed, vars
<1>2. ASSUME NEW e \in RawEntries, SystemUseEntry(e)
      PROVE  Parsed'
  <2> DEFINE S == {ParseSusp(d) : d \in RawEntries}
             p == ParseSusp(e)
  <2>1. p \in S
    OBVIOUS
  <2>2. /\ raw' = Append(raw, e) /\ susp' = Append(susp, p) /\ header' = header
    BY <1>2 DEF SystemUseEntry
  <2>3. /\ raw \in Seq(RawEntries) /\ susp \in Seq(S) /\ Len(susp) = Len(raw)
        /\ header \in Headers
    BY DEF Parsed
  <2>4. \A i \in 1 .. Len(raw) : susp[i] = ParseSusp(raw[i])
    BY DEF Parsed
  <2> HIDE DEF S
  <2>5. /\ raw' \in Seq(RawEntries) /\ Len(raw') = Len(raw) + 1 /\ Len(raw) \in Nat
        /\ raw'[Len(raw) + 1] = e
        /\ \A i \in 1 .. Len(raw) : raw'[i] = raw[i]
    BY <2>2, <2>3
  <2>6. /\ susp' \in Seq(S) /\ Len(susp') = Len(raw) + 1
        /\ susp'[Len(raw) + 1] = p
        /\ \A i \in 1 .. Len(raw) : susp'[i] = susp[i]
    <3> HIDE DEF p
    <3> QED
      BY <2>1, <2>2, <2>3
  <2>7. \A i \in 1 .. Len(raw') : susp'[i] = ParseSusp(raw'[i])
    <3>1. SUFFICES ASSUME NEW i \in 1 .. Len(raw')
                   PROVE  susp'[i] = ParseSusp(raw'[i])
      OBVIOUS
    <3>2. i \in 1 .. Len(raw) \/ i = Len(raw) + 1
      BY <2>5
    <3> QED
      BY <2>4, <2>5, <2>6, <3>2
  <2> QED
    BY <2>2, <2>3, <2>5, <2>6, <2>7 DEF Parsed, S
<1> QED
  BY <1>1, <1>2 DEF Next

(* and so it always holds. *)
LEMMA AlwaysParsed == Spec => []Parsed
BY InitParsed, NextParsed, PTL DEF Spec

(* An entry and what it was parsed to. *)
LEMMA ParsedAt ==
  ASSUME Parsed, NEW i \in 1 .. Len(susp)
  PROVE  /\ Len(susp) \in Nat /\ Len(susp) = Len(raw)
         /\ raw[i] \in RawEntries
         /\ susp[i] = ParseSusp(raw[i])
BY DEF Parsed

(* Where the entries of a kind are. *)
LEMMA PlacesOfKind ==
  ASSUME Parsed
  PROVE  /\ Entries("PX") = {i \in 1 .. Len(raw) : raw[i].t = "PX"}
         /\ Entries("NM") = {i \in 1 .. Len(raw) : raw[i].t = "NM" /\ raw[i].utf8}
         /\ Entries("SL") = {i \in 1 .. Len(raw) : raw[i].t = "SL" /\ raw[i].records # <<>>}
         /\ Entries("TF") = {i \in 1 .. Len(raw) : raw[i].t = "TF" /\ raw[i].times # <<>>}
<1>1. ASSUME NEW i \in 1 .. Len(raw)
      PROVE  /\ susp[i].t = "PX" <=> raw[i].t = "PX"
             /\ susp[i].t = "NM" <=> raw[i].t = "NM" /\ raw[i].utf8
             /\ susp[i].t = "SL" <=> raw[i].t = "SL" /\ raw[i].records # <<>>
             /\ susp[i].t = "TF" <=> raw[i].t = "TF" /\ raw[i].times # <<>>
  <2> DEFINE e == raw[i]
  <2>1. Len(susp) = Len(raw) /\ i \in 1 .. Len(susp)
    BY DEF Parsed
  <2>2. susp[i] = ParseSusp(e) /\ e \in RawEntries
    BY <2>1, ParsedAt
  <2> HIDE DEF e
  <2>3. e.t \in {"NM", "SL", "TF", "PX", "ER", "RE", "CL"}
    BY <2>2, Kinds
  <2>4. Unknown.t = "unknown" /\ PosixAttributes(e).t = "PX"
    BY DEF Unknown, PosixAttributes
  <2>5. /\ e.t = "PX" => ParseSusp(e) = PosixAttributes(e)
        /\ e.t = "TF" /\ e.times # <<>> => ParseSusp(e).t = "TF"
        /\ e.t = "TF" /\ e.times = <<>> => ParseSusp(e) = Unknown
        /\ e.t = "SL" /\ e.records = <<>> => ParseSusp(e) = Unknown
        /\ e.t = "SL" /\ e.records # <<>> => ParseSusp(e) = e
        /\ e.t = "NM" /\ ~e.utf8 => ParseSusp(e) = Unknown
        /\ e.t = "NM" /\ e.utf8 => ParseSusp(e) = e
        /\ e.t = "ER" => ParseSusp(e) = Unknown \/ ParseSusp(e).t = "ER"
        /\ e.t \in {"RE", "CL"} => ParseSusp(e) = e
    BY ParseKinds
  <2> DEFINE p == ParseSusp(e)
  <2> HIDE DEF p
  <2>6. /\ p.t = "PX" <=> e.t = "PX"
        /\ p.t = "NM" <=> e.t = "NM" /\ e.utf8
        /\ p.t = "SL" <=> e.t = "SL" /\ e.records # <<>>
        /\ p.t = "TF" <=> e.t = "TF" /\ e.times # <<>>
    BY <2>3, <2>4, <2>5 DEF p
  <2> QED
    BY <2>2, <2>6 DEF e, p
<1>2. Len(susp) = Len(raw)
  BY DEF Parsed
<1> QED
  BY <1>1, <1>2 DEF Entries

-----------------------------------------------------------------------------
(* The mode *)

(* The attributes are those of the first PX entry, with the bits that have *)
(* a name.                                                                 *)
LEMMA FirstMode ==
  ASSUME Parsed, Modes # {}
  PROVE  /\ raw[Min(Modes)] \in ModeEntries
         /\ Attributes # None
         /\ Attributes.mode = raw[Min(Modes)].mode \cap (0 .. 15)
<1> DEFINE k == Min(Modes)
           e == raw[k]
<1>1. Entries("PX") = Modes
  BY PlacesOfKind DEF Modes
<1>2. Len(raw) \in Nat /\ Len(susp) = Len(raw) /\ Modes \subseteq 0 .. Len(raw)
  BY DEF Parsed, Modes
<1>3. k \in Modes
  BY <1>2, MinIndex
<1> HIDE DEF k
<1>4. k \in 1 .. Len(susp) /\ e.t = "PX"
  BY <1>2, <1>3 DEF Modes
<1>5. e \in RawEntries /\ susp[k] = ParseSusp(e)
  BY <1>4, ParsedAt
<1> HIDE DEF e
<1>6. e \in ModeEntries /\ ParseSusp(e) = PosixAttributes(e)
  BY <1>4, <1>5, Kinds, ParseKinds
<1>7. Attributes = PosixAttributes(e)
  BY <1>1, <1>5, <1>6 DEF Attributes, First, k
<1>8. PosixAttributes(e) \in ModeEntries /\ PosixAttributes(e).mode = e.mode \cap (0 .. 15)
  BY <1>6 DEF ModeEntries, PosixAttributes
<1> QED
  BY <1>6, <1>7, <1>8, MetaAssumption DEF e, k

(* The least number with a property is the one before which none has it. *)
LEMMA MinIs ==
  ASSUME NEW n \in Nat, NEW T, T \subseteq 1 .. n, NEW k \in T, \A j \in T : k <= j
  PROVE  Min(T) = k
<1>1. T \subseteq 0 .. n /\ T # {}
  OBVIOUS
<1>2. Min(T) \in T /\ \A j \in T : Min(T) <= j
  BY <1>1, MinIndex
<1> DEFINE m == Min(T)
<1>3. m \in T /\ m <= k /\ k <= m
  BY <1>2
<1> HIDE DEF m
<1>4. m = k
  BY <1>3
<1> QED
  BY <1>4 DEF m

(* The letter of each file type: of the types that share its bits the one  *)
(* that is tried first.                                                    *)
LEMMA LetterOfType ==
  ASSUME NEW m, NEW type \in FileTypes, m \cap S_IFMT = type[2]
  PROVE  TypeLetter(m) = type[1] /\ (S_IFLNK \subseteq m <=> type[1] = "l")
<1> DEFINE fits == {i \in 1 .. Len(Types) : Types[i].bits \subseteq m}
<1>1. Len(Types) = 7
  BY DEF Types
<1>2. /\ Types[1].bits = {15, 14} /\ Types[2].bits = {15, 13} /\ Types[3].bits = {15}
      /\ Types[4].bits = {14, 13} /\ Types[5].bits = {14} /\ Types[6].bits = {13}
      /\ Types[7].bits = {12}
  BY DEF Types, S_IFLNK
<1>3. /\ Types[1].letter = "s" /\ Types[2].letter = "l" /\ Types[3].letter = "-"
      /\ Types[4].letter = "b" /\ Types[5].letter = "d" /\ Types[6].letter = "c"
      /\ Types[7].letter = "p"
  BY DEF Types
<1>4. /\ 1 \in fits <=> 15 \in m /\ 14 \in m
      /\ 2 \in fits <=> 15 \in m /\ 13 \in m
      /\ 3 \in fits <=> 15 \in m
      /\ 4 \in fits <=> 14 \in m /\ 13 \in m
      /\ 5 \in fits <=> 14 \in m
      /\ 6 \in fits <=> 13 \in m
      /\ 7 \in fits <=> 12 \in m
  BY <1>1, <1>2
<1>5. fits \subseteq 1 .. 7
  BY <1>1
<1>6. TypeLetter(m) = IF fits = {} THEN "?" ELSE Types[Min(fits)].letter
  BY DEF TypeLetter
<1> HIDE DEF fits
<1>7. \A k \in 1 .. 7 : k \in fits /\ (\A j \in fits : k <= j) => Min(fits) = k
  BY <1>5, MinIs
<1>8. S_IFLNK \subseteq m <=> 15 \in m /\ 13 \in m
  BY DEF S_IFLNK
<1>9. \A b \in {12, 13, 14, 15} : b \in m <=> b \in type[2]
  BY DEF S_IFMT
<1>10. \A i \in fits : i = 1 \/ i = 2 \/ i = 3 \/ i = 4 \/ i = 5 \/ i = 6 \/ i = 7
  BY <1>5
<1>11. ASSUME NEW k \in 1 .. 7, k \in fits, \A j \in 1 .. 7 : j < k => j \notin fits
       PROVE  TypeLetter(m) = Types[k].letter
  <2>1. \A j \in fits : k <= j
    BY <1>5, <1>11
  <2> QED
    BY <1>6, <1>7, <1>11, <2>1
<1>12. CASE type = <<"s", {15, 14}>>
  BY <1>3, <1>4, <1>8, <1>9, <1>11, <1>12
<1>13. CASE type = <<"l", {15, 13}>>
  <2>1. 15 \in m /\ 13 \in m /\ 14 \notin m /\ 12 \notin m
    BY <1>9, <1>13
  <2>2. 2 \in fits /\ \A j \in 1 .. 7 : j < 2 => j \notin fits
    BY <1>4, <2>1
  <2> QED
    BY <1>3, <1>8, <1>11, <1>13, <2>1, <2>2
<1>14. CASE type = <<"-", {15}>>
  <2>1. 15 \in m /\ 13 \notin m /\ 14 \notin m /\ 12 \notin m
    BY <1>9, <1>14
  <2>2. 3 \in fits /\ \A j \in 1 .. 7 : j < 3 => j \notin fits
    BY <1>4, <2>1
  <2> QED
    BY <1>3, <1>8, <1>11, <1>14, <2>1, <2>2
<1>15. CASE type = <<"b", {14, 13}>>
  <2>1. 15 \notin m /\ 13 \in m /\ 14 \in m /\ 12 \notin m
    BY <1>9, <1>15
  <2>2. 4 \in fits /\ \A j \in 1 .. 7 : j < 4 => j \notin fits
    BY <1>4, <2>1
  <2> QED
    BY <1>3, <1>8, <1>11, <1>15, <2>1, <2>2
<1>16. CASE type = <<"d", {14}>>
  <2>1. 15 \notin m /\ 13 \notin m /\ 14 \in m /\ 12 \notin m
    BY <1>9, <1>16
  <2>2. 5 \in fits /\ \A j \in 1 .. 7 : j < 5 => j \notin fits
    BY <1>4, <2>1
  <2> QED
    BY <1>3, <1>8, <1>11, <1>16, <2>1, <2>2
<1>17. CASE type = <<"c", {13}>>
  <2>1. 15 \notin m /\ 13 \in m /\ 14 \notin m /\ 12 \notin m
    BY <1>9, <1>17
  <2>2. 6 \in fits /\ \A j \in 1 .. 7 : j < 6 => j \notin fits
    BY <1>4, <2>1
  <2> QED
    BY <1>3, <1>8, <1>11, <1>17, <2>1, <2>2
<1>18. CASE type = <<"p", {12}>>
  <2>1. 15 \notin m /\ 13 \notin m /\ 14 \notin m /\ 12 \in m
    BY <1>9, <1>18
  <2>2. 7 \in fits /\ \A j \in 1 .. 7 : j < 7 => j \notin fits
    BY <1>4, <2>1
  <2> QED
    BY <1>3, <1>8, <1>11, <1>18, <2>1, <2>2
<1> QED
  BY <1>12, <1>13, <1>14, <1>15, <1>16, <1>17, <1>18 DEF FileTypes

(* What stands where in a concatenation. *)
LEMMA ConcatAt ==
  ASSUME NEW S, NEW s \in Seq(S), NEW u \in Seq(S)
  PROVE  /\ s \o u \in Seq(S)
         /\ Len(s) \in Nat /\ Len(u) \in Nat /\ Len(s \o u) = Len(s) + Len(u)
         /\ \A i \in 1 .. Len(s) : (s \o u)[i] = s[i]
         /\ \A i \in 1 .. Len(u) : (s \o u)[Len(s) + i] = u[i]
<1>1. Len(s) \in Nat /\ Len(u) \in Nat
  OBVIOUS
<1> DEFINE c == s \o u
<1>2. /\ c \in Seq(S) /\ Len(c) = Len(s) + Len(u)
      /\ \A i \in 1 .. Len(s) + Len(u) : c[i] = IF i <= Len(s) THEN s[i] ELSE u[i - Len(s)]
  BY ConcatProperties
<1> HIDE DEF c
<1>3. \A i \in 1 .. Len(s) : c[i] = s[i]
  BY <1>1, <1>2
<1>4. \A i \in 1 .. Len(u) : c[Len(s) + i] = u[i]
  <2>1. SUFFICES ASSUME NEW i \in 1 .. Len(u)
                 PROVE  c[Len(s) + i] = u[i]
    OBVIOUS
  <2>2. /\ Len(s) + i \in 1 .. Len(s) + Len(u) /\ ~(Len(s) + i <= Len(s))
        /\ (Len(s) + i) - Len(s) = i
    BY <1>1
  <2> QED
    BY <1>2, <2>2
<1> QED
  BY <1>1, <1>2, <1>3, <1>4 DEF c

(* The letters of a mode, one by one. *)
LEMMA DisplayLetters ==
  ASSUME NEW m
  PROVE  /\ Display(m)[1] = TypeLetter(m)
         /\ \A i \in 1 .. 3 : /\ Display(m)[i + 1] = Letters(m, 6, 11)[i]
                              /\ Display(m)[i + 4] = Letters(m, 3, 10)[i]
                              /\ Display(m)[i + 7] = Letters(m, 0, -1)[i]
<1> DEFINE S == {TypeLetter(m), "r", "w", "x", "-", "s", "S"}
           a == <<TypeLetter(m)>>
           b == Letters(m, 6, 11)
           c == Letters(m, 3, 10)
           d == Letters(m, 0, -1)
<1>1. a \in Seq(S) /\ Len(a) = 1 /\ a[1] = TypeLetter(m)
  OBVIOUS
<1>2. \A low, set : Letters(m, low, set) \in Seq(S) /\ Len(Letters(m, low, set)) = 3
  BY DEF Letters
<1>3. Display(m) = a \o b \o c \o d
  BY DEF Display
<1>4. b \in Seq(S) /\ c \in Seq(S) /\ d \in Seq(S) /\ Len(b) = 3 /\ Len(c) = 3 /\ Len(d) = 3
  BY <1>2
<1> HIDE DEF S, a, b, c, d
<1> DEFINE ab == a \o b
<1>5. /\ ab \in Seq(S) /\ Len(ab) = 4 /\ ab[1] = a[1]
      /\ ab[2] = b[1] /\ ab[3] = b[2] /\ ab[4] = b[3]
  <2>1. a \in Seq(S) /\ b \in Seq(S)
    BY <1>1, <1>4
  <2>2. /\ ab \in Seq(S) /\ Len(ab) = Len(a) + Len(b)
        /\ \A i \in 1 .. Len(a) : ab[i] = a[i]
        /\ \A i \in 1 .. Len(b) : ab[Len(a) + i] = b[i]
    BY <2>1, ConcatAt
  <2> HIDE DEF ab
  <2> QED
    BY <1>1, <1>4, <2>2
<1> DEFINE abc == ab \o c
<1>6. /\ abc \in Seq(S) /\ Len(abc) = 7
      /\ \A i \in 1 .. 4 : abc[i] = ab[i]
      /\ abc[5] = c[1] /\ abc[6] = c[2] /\ abc[7] = c[3]
  <2> HIDE DEF ab
  <2>1. ab \in Seq(S) /\ c \in Seq(S)
    BY <1>4, <1>5
  <2>2. /\ abc \in Seq(S) /\ Len(abc) = Len(ab) + Len(c)
        /\ \A i \in 1 .. Len(ab) : abc[i] = ab[i]
        /\ \A i \in 1 .. Len(c) : abc[Len(ab) + i] = c[i]
    BY <2>1, ConcatAt
  <2> HIDE DEF abc
  <2> QED
    BY <1>4, <1>5, <2>2
<1> DEFINE text == abc \o d
<1>7. /\ \A i \in 1 .. 7 : text[i] = abc[i]
      /\ text[8] = d[1] /\ text[9] = d[2] /\ text[10] = d[3]
  <2> HIDE DEF abc
  <2>1. abc \in Seq(S) /\ d \in Seq(S)
    BY <1>4, <1>6
  <2>2. /\ text \in Seq(S) /\ Len(text) = Len(abc) + Len(d)
        /\ \A i \in 1 .. Len(abc) : text[i] = abc[i]
        /\ \A i \in 1 .. Len(d) : text[Len(abc) + i] = d[i]
    BY <2>1, ConcatAt
  <2> HIDE DEF text
  <2> QED
    BY <1>4, <1>6, <2>2
<1>8. Display(m) = text
  BY <1>3
<1> HIDE DEF ab, abc, text
<1>9. /\ text[1] = a[1]
      /\ text[2] = b[1] /\ text[3] = b[2] /\ text[4] = b[3]
      /\ text[5] = c[1] /\ text[6] = c[2] /\ text[7] = c[3]
      /\ text[8] = d[1] /\ text[9] = d[2] /\ text[10] = d[3]
  BY <1>5, <1>6, <1>7
<1>10. \A i \in 1 .. 3 : text[i + 1] = b[i] /\ text[i + 4] = c[i] /\ text[i + 7] = d[i]
  BY <1>9
<1> QED
  BY <1>1, <1>8, <1>9, <1>10 DEF b, c, d

(* A letter is there exactly if its bit, or the one that sets the id, is. *)
LEMMA LettersOf ==
  ASSUME NEW m, NEW low \in Nat, NEW set
  PROVE  /\ Letters(m, low, set)[1] = IF low + 2 \in m THEN "r" ELSE "-"
         /\ Letters(m, low, set)[2] = IF low + 1 \in m THEN "w" ELSE "-"
         /\ set \in m => Letters(m, low, set)[3] \in {"s", "S"}
         /\ set \notin m => Letters(m, low, set)[3] = IF low \in m THEN "x" ELSE "-"
BY DEF Letters

(* A state in which the entries are those recorded has the mode right. *)
LEMMA ParsedMode == Parsed => ModeIsRight
<1> SUFFICES ASSUME Parsed, Modes # {}
             PROVE  ModeIsRight
  BY DEF ModeIsRight
<1> DEFINE mode == raw[Min(Modes)].mode
           m == Attributes.mode
           text == Display(m)
<1>1. mode \subseteq Nat /\ Attributes # None /\ m = mode \cap (0 .. 15)
  BY FirstMode DEF ModeEntries
<1> HIDE DEF mode, m
<1>2. m \cap S_IFMT = mode \cap S_IFMT
  BY <1>1 DEF S_IFMT
<1>3. \A b \in 0 .. 15 : b \in m <=> b \in mode
  BY <1>1
<1>4. -1 \notin m
  BY <1>1
<1>5. /\ text[1] = TypeLetter(m)
      /\ \A i \in 1 .. 3 : /\ text[i + 1] = Letters(m, 6, 11)[i]
                           /\ text[i + 4] = Letters(m, 3, 10)[i]
                           /\ text[i + 7] = Letters(m, 0, -1)[i]
  BY DisplayLetters
<1> HIDE DEF text
<1>6. /\ text[2] = IF 8 \in m THEN "r" ELSE "-"
      /\ text[3] = IF 7 \in m THEN "w" ELSE "-"
      /\ 11 \in m => text[4] \in {"s", "S"}
      /\ 11 \notin m => text[4] = IF 6 \in m THEN "x" ELSE "-"
      /\ text[5] = IF 5 \in m THEN "r" ELSE "-"
      /\ text[6] = IF 4 \in m THEN "w" ELSE "-"
      /\ 10 \in m => text[7] \in {"s", "S"}
      /\ 10 \notin m => text[7] = IF 3 \in m THEN "x" ELSE "-"
      /\ text[8] = IF 2 \in m THEN "r" ELSE "-"
      /\ text[9] = IF 1 \in m THEN "w" ELSE "-"
      /\ text[10] = IF 0 \in m THEN "x" ELSE "-"
  <2>1. /\ text[2] = Letters(m, 6, 11)[1] /\ text[3] = Letters(m, 6, 11)[2]
        /\ text[4] = Letters(m, 6, 11)[3] /\ text[5] = Letters(m, 3, 10)[1]
        /\ text[6] = Letters(m, 3, 10)[2] /\ text[7] = Letters(m, 3, 10)[3]
        /\ text[8] = Letters(m, 0, -1)[1] /\ text[9] = Letters(m, 0, -1)[2]
        /\ text[10] = Letters(m, 0, -1)[3]
    BY <1>5
  <2>2. \A low \in Nat : \A set :
          /\ Letters(m, low, set)[1] = IF low + 2 \in m THEN "r" ELSE "-"
          /\ Letters(m, low, set)[2] = IF low + 1 \in m THEN "w" ELSE "-"
          /\ set \in m => Letters(m, low, set)[3] \in {"s", "S"}
          /\ set \notin m => Letters(m, low, set)[3] = IF low \in m THEN "x" ELSE "-"
    BY LettersOf
  <2>3. /\ Letters(m, 6, 11)[1] = IF 8 \in m THEN "r" ELSE "-"
        /\ Letters(m, 6, 11)[2] = IF 7 \in m THEN "w" ELSE "-"
        /\ 11 \in m => Letters(m, 6, 11)[3] \in {"s", "S"}
        /\ 11 \notin m => Letters(m, 6, 11)[3] = IF 6 \in m THEN "x" ELSE "-"
    BY <2>2
  <2>4. /\ Letters(m, 3, 10)[1] = IF 5 \in m THEN "r" ELSE "-"
        /\ Letters(m, 3, 10)[2] = IF 4 \in m THEN "w" ELSE "-"
        /\ 10 \in m => Letters(m, 3, 10)[3] \in {"s", "S"}
        /\ 10 \notin m => Letters(m, 3, 10)[3] = IF 3 \in m THEN "x" ELSE "-"
    BY <2>2
  <2>5. /\ Letters(m, 0, -1)[1] = IF 2 \in m THEN "r" ELSE "-"
        /\ Letters(m, 0, -1)[2] = IF 1 \in m THEN "w" ELSE "-"
        /\ -1 \in m => Letters(m, 0, -1)[3] \in {"s", "S"}
        /\ -1 \notin m => Letters(m, 0, -1)[3] = IF 0 \in m THEN "x" ELSE "-"
    BY <2>2
  <2> QED
    BY <1>4, <2>1, <2>3, <2>4, <2>5
<1>7. \A i \in 1 .. 9 : LetterIsRight(text[i + 1], i, mode)
  <2>1. /\ \A i \in 1 .. 9 : 9 - i \in m <=> 9 - i \in mode
        /\ 10 \in m <=> 10 \in mode
        /\ 11 \in m <=> 11 \in mode
    BY <1>3
  <2>2. \A i \in 1 .. 9 : LetterIsRight(text[i + 1], i, m)
    <3>1. SUFFICES ASSUME NEW i \in 1 .. 9
                   PROVE  LetterIsRight(text[i + 1], i, m)
      OBVIOUS
    <3>2. i = 1 \/ i = 2 \/ i = 3 \/ i = 4 \/ i = 5 \/ i = 6 \/ i = 7 \/ i = 8 \/ i = 9
      OBVIOUS
    <3> QED
      BY <1>6, <3>2 DEF LetterIsRight, SetsId
  <2>3. 9 \in m <=> 9 \in mode
    BY <1>3
  <2> QED
    BY <2>1, <2>2, <2>3 DEF LetterIsRight, SetsId
<1>8. FileAttr.perm \cap (0 .. 8) = mode \cap (0 .. 8)
  <2>1. FileAttr.perm = Permissions(m)
    BY <1>1 DEF FileAttr, m
  <2> QED
    BY <1>3, <2>1 DEF Permissions, ALL_PERMISSIONS
<1>9. ASSUME NEW type \in FileTypes, mode \cap S_IFMT = type[2]
      PROVE  text[1] = type[1] /\ IsSymlink = (type[1] = "l")
  <2>1. TypeLetter(m) = type[1] /\ (S_IFLNK \subseteq m <=> type[1] = "l")
    BY <1>2, <1>9, LetterOfType
  <2>2. IsSymlink <=> S_IFLNK \subseteq m
    BY <1>1 DEF IsSymlink, m
  <2> QED
    BY <1>5, <2>1, <2>2 DEF IsSymlink
<1> QED
  BY <1>7, <1>8, <1>9 DEF ModeIsRight, text, m, mode

(* For every mode and every area: an entry is a link exactly if its PX     *)
(* entry has that type, Display writes the letters of the recorded mode,   *)
(* and get_fileattr reports its permissions (PosixFileMode,                *)
(* DirectoryEntry::new).                                                   *)
THEOREM ModeRight == Spec => []ModeIsRight
BY AlwaysParsed, ParsedMode, PTL

-----------------------------------------------------------------------------
(* The times *)

(* Values a time may have when those of the entries are merged. *)
Merged == {None} \cup {susp[i].time[f] : i \in 1 .. Len(susp), f \in Range(Fields)}

(* The times are merged entry by entry. *)
LEMMA TimestampsUnfold ==
  ASSUME Parsed
  PROVE  /\ TimestampsUpTo \in [0 .. Len(susp) -> [Range(Fields) -> Merged]]
         /\ TimestampsUpTo[0] = NoTimes
         /\ \A i \in 1 .. Len(susp) : TimestampsUpTo[i] =
              IF i \notin Entries("TF") THEN TimestampsUpTo[i - 1]
              ELSE MergeTimes(TimestampsUpTo[i - 1], susp[i].time)
<1> DEFINE n == Len(susp)
           S == [Range(Fields) -> Merged]
           b == NoTimes
           Step(v, i) == IF i \notin Entries("TF") THEN v ELSE MergeTimes(v, susp[i].time)
           G == [i \in 1 .. n |-> [v \in S |-> Step(v, i)]]
           Round(g) == [i \in 0 .. n |-> IF i = 0 THEN b ELSE Step(g[i - 1], i)]
           F == TimestampsUpTo
<1>1. n \in Nat /\ b \in S
  BY DEF Parsed, NoTimes, Merged
<1>2. \A i \in 1 .. n : \A v \in S : Step(v, i) \in S
  <2>1. SUFFICES ASSUME NEW i \in 1 .. n, NEW v \in S
                 PROVE  MergeTimes(v, susp[i].time) \in S
    OBVIOUS
  <2>2. \A f \in Range(Fields) : v[f] \in Merged /\ susp[i].time[f] \in Merged
    BY DEF Merged
  <2> QED
    BY <2>2 DEF MergeTimes
<1>3. F = CHOOSE g : g = Round(g)
  BY DEF TimestampsUpTo
<1> HIDE DEF n, S, b, Step, F
<1>4. \E g : g = Round(g)
  <2>1. G \in [1 .. n -> [S -> S]]
    BY <1>2
  <2>2. PICK f : IsRecursive(f, n, S, b, G)
    <3> HIDE DEF G
    <3> QED
      BY <1>1, <2>1, Recursion
  <2>3. f \in [0 .. n -> S] /\ f[0] = b /\ \A i \in 1 .. n : f[i] = Step(f[i - 1], i)
    <3>1. f \in [0 .. n -> S] /\ f[0] = b /\ \A i \in 1 .. n : f[i] = G[i][f[i - 1]]
      BY <2>2 DEF IsRecursive
    <3>2. \A i \in 1 .. n : i - 1 \in 0 .. n /\ f[i - 1] \in S
      BY <1>1, <3>1
    <3>3. \A i \in 1 .. n : \A v \in S : G[i][v] = Step(v, i)
      OBVIOUS
    <3> HIDE DEF G
    <3> QED
      BY <3>1, <3>2, <3>3
  <2>4. f = [i \in 0 .. n |-> IF i = 0 THEN b ELSE Step(f[i - 1], i)]
    <3>1. \A i \in 0 .. n : f[i] = IF i = 0 THEN b ELSE Step(f[i - 1], i)
      BY <1>1, <2>3
    <3> QED
      BY <2>3, <3>1
  <2> QED
    BY <2>4
<1>5. F = [i \in 0 .. n |-> IF i = 0 THEN b ELSE Step(F[i - 1], i)]
  <2>1. F = Round(F)
    <3> HIDE DEF Round
    <3> QED
      BY <1>3, <1>4
  <2> QED
    BY <2>1
<1>6. F[0] = b /\ \A i \in 1 .. n : F[i] = Step(F[i - 1], i)
  BY <1>1, <1>5
<1>7. F \in [0 .. n -> S]
  <2> DEFINE T == {i \in 0 .. n : F[i] \in S}
  <2>1. 0 \in T
    BY <1>1, <1>6
  <2>2. \A i \in 1 .. n : i - 1 \in T => i \in T
    BY <1>1, <1>2, <1>6
  <2>3. 0 .. n \subseteq T
    <3> HIDE DEF T
    <3> QED
      BY <1>1, <2>1, <2>2, UpTo
  <2>4. \A i \in 0 .. n : F[i] \in S
    BY <2>3
  <2> QED
    BY <1>5, <2>4
<1> QED
  BY <1>6, <1>7 DEF n, S, b, Step, F

(* The place of a field, and how many times come before its own. *)
LEMMA FieldOrder ==
  ASSUME NEW f \in Range(Fields)
  PROVE  Order(f) \in 1 .. 7 /\ Fields[Order(f)] = f /\ Len(Fields) = 7
<1>1. Len(Fields) = 7 /\ DOMAIN Fields = 1 .. 7
  BY DEF Fields
<1>2. \E i \in 1 .. Len(Fields) : Fields[i] = f
  BY <1>1 DEF Range
<1> QED
  BY <1>1, <1>2 DEF Order

(* The fields that are kept are fields. *)
LEMMA KeptFields == Kept \subseteq Range(Fields)
<1>1. /\ DOMAIN Fields = 1 .. 7 /\ Fields[1] = "creation" /\ Fields[2] = "modify"
      /\ Fields[3] = "access" /\ Fields[4] = "attributes"
  BY DEF Fields
<1>2. 1 \in 1 .. 7 /\ 2 \in 1 .. 7 /\ 3 \in 1 .. 7 /\ 4 \in 1 .. 7
  OBVIOUS
<1>3. \A i \in 1 .. 7 : Fields[i] \in Range(Fields)
  BY <1>1 DEF Range
<1>4. \A f \in Kept : f = Fields[1] \/ f = Fields[2] \/ f = Fields[3] \/ f = Fields[4]
  BY <1>1 DEF Kept
<1> QED
  BY <1>2, <1>3, <1>4

(* The time of a field stands behind those of the fields before it. *)
LEMMA NthIsNext ==
  ASSUME NEW f \in Range(Fields), NEW flags, f \in flags
  PROVE  /\ Cardinality(Before(f, flags)) \in Nat
         /\ Nth(f, flags) = Cardinality(Before(f, flags)) + 1
<1> DEFINE k == Order(f)
           B == Before(f, flags)
<1>1. k \in 1 .. 7 /\ Fields[k] = f
  BY FieldOrder
<1>2. IsFiniteSet(B) /\ Cardinality(B) \in Nat
  <2>1. IsFiniteSet(1 .. k - 1)
    BY <1>1, FS_Interval
  <2>2. B \in SUBSET (1 .. k - 1)
    BY DEF Before
  <2> HIDE DEF B
  <2> QED
    BY <2>1, <2>2, FS_Subset, FS_CardinalityType
<1>3. {i \in 1 .. k : Fields[i] \in flags} = B \cup {k}
  BY <1>1 DEF Before
<1>4. k \notin B
  BY <1>1 DEF Before
<1> HIDE DEF B
<1>5. Cardinality(B \cup {k}) = Cardinality(B) + 1
  BY <1>2, <1>4, FS_AddElement
<1> QED
  BY <1>2, <1>3, <1>5 DEF Nth, B

(* A day has so many seconds. *)
LEMMA DaySeconds == DAY \in Nat
BY DEF DAY

(* A number of seconds in days. *)
LEMMA DayDivision ==
  /\ \A x \in Int : /\ x \div DAY \in Int /\ x % DAY \in Int
                    /\ 0 <= x % DAY /\ x % DAY <= DAY - 1
                    /\ x = (DAY * (x \div DAY)) + (x % DAY)
  /\ \A y, p, z \in Int :
       0 <= z /\ z <= DAY - 1 /\ y = (DAY * p) + z => y \div DAY = p /\ y % DAY = z
<1>1. \A x \in Int : /\ x \div 86400 \in Int /\ x % 86400 \in Int
                    /\ 0 <= x % 86400 /\ x % 86400 <= 86400 - 1
  OBVIOUS
<1>2. \A x \in Int : x = (86400 * (x \div 86400)) + (x % 86400)
  OBVIOUS
<1>3. \A y, p, z \in Int :
        0 <= z /\ z <= 86400 - 1 /\ y = (86400 * p) + z => y \div 86400 = p /\ y % 86400 = z
  OBVIOUS
<1>4. \A x \in Int : /\ x \div DAY \in Int /\ x % DAY \in Int
                    /\ 0 <= x % DAY /\ x % DAY <= DAY - 1
                    /\ x = (DAY * (x \div DAY)) + (x % DAY)
  BY <1>1, <1>2 DEF DAY
<1>5. \A y, p, z \in Int :
        0 <= z /\ z <= DAY - 1 /\ y = (DAY * p) + z => y \div DAY = p /\ y % DAY = z
  BY <1>3 DEF DAY
<1> QED
  BY <1>4, <1>5

(* Seconds added and taken away again. *)
LEMMA LaterBack ==
  ASSUME NEW d \in Int, NEW s \in 0 .. DAY - 1, NEW o \in Nat
  PROVE  /\ Later(<<d, s>>, -o) \in Instants
         /\ Later(Later(<<d, s>>, -o), o) = <<d, s>>
<1> DEFINE x == s - o
           q == x \div DAY
           r == x % DAY
           y == r + o
<1>1. DAY \in Nat /\ s \in Int /\ 0 <= s /\ s <= DAY - 1 /\ x \in Int
  <2> HIDE DEF q, r, y
  <2> QED
    BY DaySeconds
<1>2. q \in Int /\ r \in Int /\ 0 <= r /\ r <= DAY - 1 /\ x = (DAY * q) + r
  <2> HIDE DEF x
  <2> QED
    BY <1>1, DayDivision, Zenon
<1>3. Later(<<d, s>>, -o) = <<d + q, r>>
  <2>1. s + (-o) = x
    BY <1>1
  <2> QED
    BY <2>1 DEF Later
<1>4. y \in Int /\ -q \in Int
  BY <1>2
<1> HIDE DEF q, r
<1>5. y = (DAY * (-q)) + s
  <2>1. DAY * (-q) = -(DAY * q) /\ DAY * q \in Int
    BY <1>1, <1>2
  <2> QED
    BY <1>1, <1>2, <2>1
<1> HIDE DEF y, x
<1>6. y \div DAY = -q /\ y % DAY = s
  BY <1>1, <1>4, <1>5, DayDivision
<1>7. Later(<<d + q, r>>, o) = <<(d + q) + (y \div DAY), y % DAY>>
  BY DEF Later, y
<1>8. (d + q) + (-q) = d
  BY <1>2
<1> QED
  BY <1>2, <1>3, <1>6, <1>7, <1>8 DEF Instants

(* A recorded time is read as an instant, and as the right one. *)
LEMMA TimeIsRead ==
  ASSUME NEW t \in RecordedTimes
  PROVE  DateTime(t) \in Instants /\ DateTime(t) # None /\ IsTime(DateTime(t), t)
<1> DEFINE u == UnzonedDateTime(t)
           o == UtcOffset(t.gmt)
<1>1. /\ t.gmt \in 0 .. 255 /\ t.day \in Int \cup {None}
      /\ t.sec \in (0 .. DAY - 1) \cup {None}
  BY DEF RecordedTimes
<1>2. o \in Nat /\ (East(t) => o = t.gmt * 900)
  BY <1>1 DEF UtcOffset, East
<1>3. DAY = 86400
  BY DEF DAY
<1>4. u[1] \in Int /\ u[2] \in 0 .. DAY - 1
  <2>1. /\ u[1] = IF t.day = None THEN YearZero ELSE t.day
        /\ u[2] = IF t.sec = None THEN 0 ELSE t.sec
    BY DEF UnzonedDateTime
  <2>2. YearZero \in Int /\ 0 \in 0 .. DAY - 1
    BY <1>3 DEF YearZero
  <2> HIDE DEF u
  <2> QED
    BY <1>1, <2>1, <2>2
<1>5. u = <<u[1], u[2]>>
  BY DEF UnzonedDateTime
<1>6. DateTime(t) = Later(u, -o)
  BY DEF DateTime
<1>7. t.day # None /\ t.sec # None => u[1] = t.day /\ u[2] = t.sec
  BY DEF UnzonedDateTime
<1> HIDE DEF u, o
<1>8. Later(u, -o) \in Instants /\ Later(Later(u, -o), o) = u
  BY <1>2, <1>4, <1>5, LaterBack
<1>9. IsTime(DateTime(t), t)
  BY <1>2, <1>5, <1>6, <1>7, <1>8 DEF IsTime
<1> QED
  BY <1>6, <1>8, <1>9, MetaAssumption

(* A TF entry has a time for a field exactly if one is recorded for it,    *)
(* and then that one; of an entry in the long form it may have any.        *)
LEMMA ParsedTime ==
  ASSUME Parsed, NEW k \in 1 .. Len(raw), NEW f \in Range(Fields)
  PROVE  /\ k \in Entries("TF") /\ susp[k].time[f] # None => k \in Having(f)
         /\ k \in Having(f) /\ ~raw[k].long =>
              LET t == raw[k].times[Cardinality(Before(f, raw[k].flags)) + 1]
              IN  /\ t \in RecordedTimes /\ k \in Entries("TF")
                  /\ susp[k].time[f] = DateTime(t) /\ susp[k].time[f] # None
<1> DEFINE e == raw[k]
           c == Cardinality(Before(f, e.flags))
<1>1. Len(susp) = Len(raw) /\ k \in 1 .. Len(susp)
  BY DEF Parsed
<1>2. e \in RawEntries /\ susp[k] = ParseSusp(e)
  BY <1>1, ParsedAt
<1>3. k \in Entries("TF") <=> e.t = "TF" /\ e.times # <<>>
  BY PlacesOfKind
<1>4. k \in Having(f) <=> e.t = "TF" /\ f \in e.flags /\ (e.long \/ c < Len(e.times))
  BY DEF Having
<1>5. ASSUME e.t = "TF", ~e.long
      PROVE  /\ e.times \in Seq(RecordedTimes) /\ Len(e.times) \in Nat
             /\ Len(DateTimes(e)) = Len(e.times)
             /\ \A i \in 1 .. Len(e.times) : DateTimes(e)[i] = DateTime(e.times[i])
  <2>1. e.times \in Seq(RecordedTimes)
    BY <1>2, <1>5, Kinds DEF TimeEntries
  <2>2. DateTimes(e) = [i \in 1 .. Len(e.times) |-> DateTime(e.times[i])]
    BY <1>5 DEF DateTimes
  <2> HIDE DEF e
  <2>3. Len(e.times) \in Nat
    BY <2>1
  <2> QED
    BY <2>1, <2>2, <2>3
<1>6. ASSUME e.t = "TF", e.times # <<>>
      PROVE  /\ susp[k].time[f] # None => f \in e.flags /\ Nth(f, e.flags) <= Len(DateTimes(e))
             /\ f \in e.flags /\ Nth(f, e.flags) <= Len(DateTimes(e)) =>
                  susp[k].time[f] = DateTimes(e)[Nth(f, e.flags)]
  <2>1. susp[k].time = PosixTimestamp(e.flags, DateTimes(e))
    BY <1>2, <1>6, ParseKinds
  <2> HIDE DEF e
  <2> QED
    BY <2>1 DEF PosixTimestamp
<1>7. f \in e.flags => c \in Nat /\ Nth(f, e.flags) = c + 1
  BY NthIsNext
<1>8. ASSUME k \in Entries("TF"), susp[k].time[f] # None
      PROVE  k \in Having(f)
  <2>1. e.t = "TF" /\ f \in e.flags /\ Nth(f, e.flags) <= Len(DateTimes(e))
    BY <1>3, <1>6, <1>8
  <2>2. CASE e.long
    BY <1>4, <2>1, <2>2
  <2>3. CASE ~e.long
    <3>1. Len(DateTimes(e)) = Len(e.times) /\ Len(e.times) \in Nat
      BY <1>5, <2>1, <2>3
    <3>2. c < Len(e.times)
      <4> HIDE DEF e, c
      <4> QED
        BY <1>7, <2>1, <3>1
    <3> QED
      BY <1>4, <2>1, <3>2
  <2> QED
    BY <2>2, <2>3
<1>9. ASSUME k \in Having(f), ~e.long
      PROVE  /\ e.times[c + 1] \in RecordedTimes /\ k \in Entries("TF")
             /\ susp[k].time[f] = DateTime(e.times[c + 1]) /\ susp[k].time[f] # None
  <2>1. e.t = "TF" /\ f \in e.flags /\ c < Len(e.times)
    BY <1>4, <1>9
  <2>2. /\ e.times \in Seq(RecordedTimes) /\ Len(e.times) \in Nat
        /\ Len(DateTimes(e)) = Len(e.times)
        /\ \A i \in 1 .. Len(e.times) : DateTimes(e)[i] = DateTime(e.times[i])
    BY <1>5, <1>9, <2>1
  <2>3. c \in Nat /\ Nth(f, e.flags) = c + 1
    BY <1>7, <2>1
  <2> HIDE DEF e, c
  <2>4. c + 1 \in 1 .. Len(e.times) /\ e.times # <<>>
    BY <2>1, <2>2, <2>3
  <2>5. e.times[c + 1] \in RecordedTimes
    BY <2>2, <2>4
  <2>6. susp[k].time[f] = DateTime(e.times[c + 1])
    BY <1>6, <2>1, <2>2, <2>3, <2>4
  <2>7. DateTime(e.times[c + 1]) # None
    BY <2>5, TimeIsRead
  <2> QED
    BY <1>3, <2>1, <2>4, <2>5, <2>6, <2>7
<1> QED
  BY <1>8, <1>9

(* The entries that have a time for a field. *)
Timed(f, n) == {k \in 1 .. n : k \in Entries("TF") /\ susp[k].time[f] # None}

(* A time that was merged is that of the last entry that has one. *)
LEMMA LastTime ==
  ASSUME Parsed, NEW f \in Kept
  PROVE  /\ Timed(f, Len(susp)) = {} => Timestamps[f] = None
         /\ Timed(f, Len(susp)) # {} =>
              Timestamps[f] = susp[Max(Timed(f, Len(susp)))].time[f]
<1> DEFINE n == Len(susp)
           At(i) == TimestampsUpTo[i][f]
           Right(i) == /\ \A k \in Timed(f, i) : \E j \in Timed(f, i) :
                              k <= j /\ At(i) = susp[j].time[f] /\ \A l \in Timed(f, i) : l <= j
                       /\ Timed(f, i) = {} => At(i) = None
           T == {i \in 0 .. n : Right(i)}
<1>1. n \in Nat /\ f \in Range(Fields)
  BY KeptFields DEF Parsed
<1>2. /\ At(0) = None
      /\ \A i \in 1 .. n :
           At(i) = IF i \in Entries("TF") /\ susp[i].time[f] # None THEN susp[i].time[f]
                   ELSE At(i - 1)
  <2>1. NoTimes[f] = None
    BY <1>1 DEF NoTimes
  <2>2. \A acc, new : MergeTimes(acc, new)[f] = IF new[f] # None THEN new[f] ELSE acc[f]
    BY <1>1 DEF MergeTimes
  <2> QED
    BY <2>1, <2>2, TimestampsUnfold
<1> HIDE DEF At
<1>3. 0 \in T
  <2>1. Timed(f, 0) = {}
    BY DEF Timed
  <2> QED
    BY <1>1, <1>2, <2>1
<1>4. ASSUME NEW i \in 1 .. n, i - 1 \in T
      PROVE  i \in T
  <2>1. Right(i - 1) /\ i \in 0 .. n
    BY <1>1, <1>4
  <2>2. CASE i \in Entries("TF") /\ susp[i].time[f] # None
    <3>1. i \in Timed(f, i) /\ \A l \in Timed(f, i) : l <= i
      BY <2>2 DEF Timed
    <3>2. At(i) = susp[i].time[f]
      BY <1>2, <2>2
    <3> QED
      BY <2>1, <3>1, <3>2
  <2>3. CASE ~(i \in Entries("TF") /\ susp[i].time[f] # None)
    <3>1. Timed(f, i) = Timed(f, i - 1)
      BY <2>3 DEF Timed
    <3>2. At(i) = At(i - 1)
      BY <1>2, <2>3
    <3> QED
      BY <2>1, <3>1, <3>2
  <2> QED
    BY <2>2, <2>3
<1>5. 0 .. n \subseteq T
  <2> HIDE DEF T
  <2> QED
    BY <1>1, <1>3, <1>4, UpTo
<1>6. Right(n)
  BY <1>1, <1>5
<1>7. Timestamps[f] = At(n)
  BY DEF Timestamps, At
<1> DEFINE D == Timed(f, n)
<1>8. ASSUME D # {}
      PROVE  At(n) = susp[Max(D)].time[f]
  <2>1. D \subseteq 0 .. n
    BY <1>1 DEF Timed
  <2>2. PICK j \in D : At(n) = susp[j].time[f] /\ \A l \in D : l <= j
    BY <1>6, <1>8
  <2> HIDE DEF D
  <2> DEFINE m == Max(D)
  <2>3. m \in D /\ \A l \in D : l <= m
    BY <1>1, <1>8, <2>1, MaxIndex
  <2> HIDE DEF m
  <2>4. m = j
    BY <1>1, <2>1, <2>2, <2>3
  <2> QED
    BY <2>2, <2>4 DEF m
<1> QED
  BY <1>6, <1>7, <1>8

(* The greatest element of a set is that of a part of it that has it. *)
LEMMA SameMax ==
  ASSUME NEW n \in Nat, NEW A, NEW B, A \subseteq 0 .. n, B \subseteq A, B # {}, Max(A) \in B
  PROVE  Max(B) = Max(A)
<1> DEFINE a == Max(A)
           b == Max(B)
<1>1. B \subseteq 0 .. n /\ A # {}
  OBVIOUS
<1>2. a \in A /\ \A j \in A : j <= a
  BY <1>1, MaxIndex
<1>3. b \in B /\ \A j \in B : j <= b
  BY <1>1, MaxIndex
<1>4. a \in B
  OBVIOUS
<1> HIDE DEF a, b
<1>5. a = b
  BY <1>1, <1>2, <1>3, <1>4
<1> QED
  BY <1>5 DEF a, b

(* The time that is reported for a field is the one recorded. *)
LEMMA TimeReported ==
  ASSUME Parsed, NEW f \in Kept, Having(f) = {} \/ ~LastHaving(f).long
  PROVE  IsTime(Time(f), Recorded(f))
<1> DEFINE n == Len(susp)
           H == Having(f)
           D == Timed(f, n)
           k == Max(H)
<1>1. n \in Nat /\ n = Len(raw) /\ f \in Range(Fields) /\ header \in Headers
  BY KeptFields DEF Parsed
<1>2. H \subseteq 0 .. n
  BY <1>1 DEF Having
<1>3. D \subseteq H
  BY <1>1, ParsedTime DEF Timed
<1>4. CASE H = {}
  <2>1. Timestamps[f] = None
    BY <1>3, <1>4, LastTime
  <2>2. header.time \in RecordedTimes
    BY <1>1, HeaderAssumption
  <2>3. Time(f) = DateTime(header.time) /\ Recorded(f) = header.time
    BY <1>4, <2>1 DEF Time, Recorded
  <2> QED
    BY <2>2, <2>3, TimeIsRead
<1>5. CASE H # {}
  <2> DEFINE t == raw[k].times[Cardinality(Before(f, raw[k].flags)) + 1]
  <2>1. k \in H
    BY <1>1, <1>2, <1>5, MaxIndex
  <2>2. k \in 1 .. Len(raw) /\ ~raw[k].long
    BY <1>5, <2>1 DEF Having, LastHaving
  <2>3. /\ t \in RecordedTimes /\ k \in Entries("TF")
        /\ susp[k].time[f] = DateTime(t) /\ susp[k].time[f] # None
    <3> HIDE DEF k
    <3> QED
      BY <1>1, <2>1, <2>2, ParsedTime DEF k
  <2>4. k \in D
    BY <1>1, <2>2, <2>3 DEF Timed
  <2>5. Max(D) = k
    <3> HIDE DEF D, H
    <3> QED
      BY <1>1, <1>2, <1>3, <2>4, SameMax
  <2>6. Timestamps[f] = DateTime(t)
    BY <2>3, <2>4, <2>5, LastTime
  <2>7. Recorded(f) = t
    BY <1>5 DEF Recorded, LastHaving
  <2>8. Time(f) = DateTime(t)
    BY <2>3, <2>6 DEF Time
  <2> HIDE DEF t
  <2> QED
    BY <2>3, <2>7, <2>8, TimeIsRead
<1> QED
  BY <1>4, <1>5

(* The times, in a state that is parsed. *)
LEMMA ParsedTimes == Parsed => TimesAreRight
<1> SUFFICES ASSUME Parsed, NEW f \in Kept, Having(f) = {} \/ ~LastHaving(f).long
             PROVE  IsTime([access |-> FileAttr.atime, modify |-> FileAttr.mtime,
                            attributes |-> FileAttr.ctime, creation |-> FileAttr.crtime][f],
                           Recorded(f))
  BY DEF TimesAreRight
<1>1. /\ FileAttr.atime = Time("access") /\ FileAttr.mtime = Time("modify")
      /\ FileAttr.ctime = Time("attributes") /\ FileAttr.crtime = Time("creation")
  BY DEF FileAttr
<1>2. [access |-> FileAttr.atime, modify |-> FileAttr.mtime,
       attributes |-> FileAttr.ctime, creation |-> FileAttr.crtime][f] = Time(f)
  BY <1>1 DEF Kept
<1> QED
  BY <1>2, TimeReported

(* For every record and every area: each time get_fileattr reports is the  *)
(* instant recorded by the last TF entry that has one for it, or by the    *)
(* record (date_time, PosixTimestamp::parse_data, the fold of the TF       *)
(* entries, the accessors of ExtraAttributes).                             *)
THEOREM TimesRight == Spec => []TimesAreRight
BY AlwaysParsed, ParsedTimes, PTL

-----------------------------------------------------------------------------
(* The name *)

(* What is made of the pieces of a name so far. *)
NameState == [name : Text \cup {None}, ended : BOOLEAN]
Utf8 == \A k \in 1 .. Len(raw) : raw[k].t = "NM" => raw[k].utf8

(* The pieces are text. *)
LEMMA Pieces ==
  ASSUME Parsed
  PROVE  /\ \A i \in 1 .. Len(raw) :
              raw[i].t = "NM" => raw[i].name \in Text /\ raw[i].continue \in BOOLEAN
         /\ \A i \in Entries("NM") : i \in 1 .. Len(raw) /\ raw[i].t = "NM" /\ susp[i] = raw[i]
<1>1. \A i \in 1 .. Len(raw) :
        raw[i].t = "NM" => raw[i].name \in Text /\ raw[i].continue \in BOOLEAN
  <2>1. \A i \in 1 .. Len(raw) : raw[i] \in RawEntries
    BY DEF Parsed
  <2> QED
    BY <2>1, Kinds DEF NameEntries
<1>2. ASSUME NEW i \in Entries("NM")
      PROVE  i \in 1 .. Len(raw) /\ raw[i].t = "NM" /\ susp[i] = raw[i]
  <2>1. i \in 1 .. Len(raw) /\ raw[i].t = "NM" /\ raw[i].utf8
    BY PlacesOfKind
  <2>2. susp[i] = ParseSusp(raw[i])
    BY <2>1 DEF Parsed
  <2> QED
    BY <2>1, <2>2, ParseKinds
<1> QED
  BY <1>1, <1>2

(* The alternate name is put together piece by piece. *)
LEMMA AltNameUnfold ==
  ASSUME Parsed
  PROVE  /\ AltNameUpTo \in [0 .. Len(susp) -> (Text \cup {None})]
         /\ AltNameUpTo[0] = None
         /\ \A i \in 1 .. Len(susp) : AltNameUpTo[i] =
              IF i \notin TakeWhileInclusive("NM") THEN AltNameUpTo[i - 1]
              ELSE UnwrapOrDefault(AltNameUpTo[i - 1]) \o susp[i].name
<1> DEFINE n == Len(susp)
           S == (Text \cup {None})
           b == None
           Step(v, i) == IF i \notin TakeWhileInclusive("NM") THEN v
                         ELSE UnwrapOrDefault(v) \o susp[i].name
           G == [i \in 1 .. n |-> [v \in S |-> Step(v, i)]]
           Round(g) == [i \in 0 .. n |-> IF i = 0 THEN b ELSE Step(g[i - 1], i)]
           F == AltNameUpTo
<1>1. n \in Nat /\ b \in S
  BY DEF Parsed
<1>2. \A i \in 1 .. n : \A v \in S : Step(v, i) \in S
  <2>1. SUFFICES ASSUME NEW i \in 1 .. n, NEW v \in S, i \in TakeWhileInclusive("NM")
                 PROVE  UnwrapOrDefault(v) \o susp[i].name \in Text
    OBVIOUS
  <2>2. susp[i].name \in Seq(Tokens)
    BY <2>1, Pieces DEF TakeWhileInclusive, Text
  <2>3. UnwrapOrDefault(v) \in Seq(Tokens)
    <3>1. v = None \/ v \in Seq(Tokens)
      BY DEF Text
    <3>2. v = None => UnwrapOrDefault(v) = <<>>
      BY DEF UnwrapOrDefault
    <3>3. v # None => UnwrapOrDefault(v) = v
      BY DEF UnwrapOrDefault
    <3>4. <<>> \in Seq(Tokens)
      BY EmptySeq
    <3> QED
      BY <3>1, <3>2, <3>3, <3>4, Zenon
  <2> DEFINE a == UnwrapOrDefault(v)
             c == susp[i].name
  <2> HIDE DEF a, c
  <2>4. a \o c \in Seq(Tokens)
    BY <2>2, <2>3, ConcatProperties DEF a, c
  <2> QED
    BY <2>4 DEF Text, a, c
<1>3. F = CHOOSE g : g = Round(g)
  BY DEF AltNameUpTo
<1> HIDE DEF n, S, b, Step, F
<1>4. \E g : g = Round(g)
  <2>1. G \in [1 .. n -> [S -> S]]
    BY <1>2
  <2>2. PICK f : IsRecursive(f, n, S, b, G)
    <3> HIDE DEF G
    <3> QED
      BY <1>1, <2>1, Recursion
  <2>3. f \in [0 .. n -> S] /\ f[0] = b /\ \A i \in 1 .. n : f[i] = Step(f[i - 1], i)
    <3>1. f \in [0 .. n -> S] /\ f[0] = b /\ \A i \in 1 .. n : f[i] = G[i][f[i - 1]]
      BY <2>2 DEF IsRecursive
    <3>2. \A i \in 1 .. n : i - 1 \in 0 .. n /\ f[i - 1] \in S
      BY <1>1, <3>1
    <3>3. \A i \in 1 .. n : \A v \in S : G[i][v] = Step(v, i)
      OBVIOUS
    <3> HIDE DEF G
    <3> QED
      BY <3>1, <3>2, <3>3
  <2>4. f = [i \in 0 .. n |-> IF i = 0 THEN b ELSE Step(f[i - 1], i)]
    <3>1. \A i \in 0 .. n : f[i] = IF i = 0 THEN b ELSE Step(f[i - 1], i)
      BY <1>1, <2>3
    <3> QED
      BY <2>3, <3>1
  <2> QED
    BY <2>4
<1>5. F = [i \in 0 .. n |-> IF i = 0 THEN b ELSE Step(F[i - 1], i)]
  <2>1. F = Round(F)
    <3> HIDE DEF Round
    <3> QED
      BY <1>3, <1>4
  <2> QED
    BY <2>1
<1>6. F[0] = b /\ \A i \in 1 .. n : F[i] = Step(F[i - 1], i)
  BY <1>1, <1>5
<1>7. F \in [0 .. n -> S]
  <2> DEFINE T == {i \in 0 .. n : F[i] \in S}
  <2>1. 0 \in T
    BY <1>1, <1>6
  <2>2. \A i \in 1 .. n : i - 1 \in T => i \in T
    BY <1>1, <1>2, <1>6
  <2>3. 0 .. n \subseteq T
    <3> HIDE DEF T
    <3> QED
      BY <1>1, <2>1, <2>2, UpTo
  <2>4. \A i \in 0 .. n : F[i] \in S
    BY <2>3
  <2> QED
    BY <1>5, <2>4
<1> QED
  BY <1>6, <1>7 DEF n, S, b, Step, F

(* So is the one that is recorded. *)
LEMMA RecordedUnfold ==
  ASSUME Parsed
  PROVE  /\ RecordedUpTo \in [0 .. Len(raw) -> NameState]
         /\ RecordedUpTo[0] = [name |-> None, ended |-> FALSE]
         /\ \A i \in 1 .. Len(raw) : RecordedUpTo[i] =
              IF raw[i].t # "NM" \/ RecordedUpTo[i - 1].ended THEN RecordedUpTo[i - 1]
              ELSE [name |-> IF RecordedUpTo[i - 1].name = None THEN raw[i].name
                             ELSE RecordedUpTo[i - 1].name \o raw[i].name,
                    ended |-> ~raw[i].continue]
<1> DEFINE n == Len(raw)
           S == NameState
           b == [name |-> None, ended |-> FALSE]
           Step(v, i) == IF raw[i].t # "NM" \/ v.ended THEN v
             ELSE [name |-> IF v.name = None THEN raw[i].name ELSE v.name \o raw[i].name,
                   ended |-> ~raw[i].continue]
           G == [i \in 1 .. n |-> [v \in S |-> Step(v, i)]]
           Round(g) == [i \in 0 .. n |-> IF i = 0 THEN b ELSE Step(g[i - 1], i)]
           F == RecordedUpTo
<1>1. n \in Nat /\ b \in S
  BY DEF Parsed, NameState
<1>2. \A i \in 1 .. n : \A v \in S : Step(v, i) \in S
  <2>1. SUFFICES ASSUME NEW i \in 1 .. n, NEW v \in S, raw[i].t = "NM"
                 PROVE  [name |-> IF v.name = None THEN raw[i].name ELSE v.name \o raw[i].name,
                         ended |-> ~raw[i].continue] \in S
    OBVIOUS
  <2> DEFINE a == v.name
             c == raw[i].name
  <2>2. c \in Seq(Tokens) /\ raw[i].continue \in BOOLEAN
    BY <2>1, Pieces DEF Text
  <2>3. a = None \/ a \in Seq(Tokens)
    BY DEF NameState, Text
  <2> HIDE DEF a, c
  <2>4. a # None => a \o c \in Seq(Tokens)
    BY <2>2, <2>3, ConcatProperties
  <2>5. (IF a = None THEN c ELSE a \o c) \in Text
    BY <2>2, <2>4 DEF Text
  <2> QED
    BY <2>2, <2>5 DEF NameState, a, c
<1>3. F = CHOOSE g : g = Round(g)
  BY DEF RecordedUpTo
<1> HIDE DEF n, S, b, Step, F
<1>4. \E g : g = Round(g)
  <2>1. G \in [1 .. n -> [S -> S]]
    BY <1>2
  <2>2. PICK f : IsRecursive(f, n, S, b, G)
    <3> HIDE DEF G
    <3> QED
      BY <1>1, <2>1, Recursion
  <2>3. f \in [0 .. n -> S] /\ f[0] = b /\ \A i \in 1 .. n : f[i] = Step(f[i - 1], i)
    <3>1. f \in [0 .. n -> S] /\ f[0] = b /\ \A i \in 1 .. n : f[i] = G[i][f[i - 1]]
      BY <2>2 DEF IsRecursive
    <3>2. \A i \in 1 .. n : i - 1 \in 0 .. n /\ f[i - 1] \in S
      BY <1>1, <3>1
    <3>3. \A i \in 1 .. n : \A v \in S : G[i][v] = Step(v, i)
      OBVIOUS
    <3> HIDE DEF G
    <3> QED
      BY <3>1, <3>2, <3>3
  <2>4. f = [i \in 0 .. n |-> IF i = 0 THEN b ELSE Step(f[i - 1], i)]
    <3>1. \A i \in 0 .. n : f[i] = IF i = 0 THEN b ELSE Step(f[i - 1], i)
      BY <1>1, <2>3
    <3> QED
      BY <2>3, <3>1
  <2> QED
    BY <2>4
<1>5. F = [i \in 0 .. n |-> IF i = 0 THEN b ELSE Step(F[i - 1], i)]
  <2>1. F = Round(F)
    <3> HIDE DEF Round
    <3> QED
      BY <1>3, <1>4
  <2> QED
    BY <2>1
<1>6. F[0] = b /\ \A i \in 1 .. n : F[i] = Step(F[i - 1], i)
  BY <1>1, <1>5
<1>7. F \in [0 .. n -> S]
  <2> DEFINE T == {i \in 0 .. n : F[i] \in S}
  <2>1. 0 \in T
    BY <1>1, <1>6
  <2>2. \A i \in 1 .. n : i - 1 \in T => i \in T
    BY <1>1, <1>2, <1>6
  <2>3. 0 .. n \subseteq T
    <3> HIDE DEF T
    <3> QED
      BY <1>1, <2>1, <2>2, UpTo
  <2>4. \A i \in 0 .. n : F[i] \in S
    BY <2>3
  <2> QED
    BY <1>5, <2>4
<1> QED
  BY <1>6, <1>7 DEF n, S, b, Step, F

(* Where every piece is UTF-8 they are the same. *)
LEMMA NameIsRecorded ==
  ASSUME Parsed, Utf8
  PROVE  AltName = RecordedName /\ AltName \in Text \cup {None}
<1> DEFINE n == Len(susp)
           R == RecordedUpTo
           Same(i) == /\ R[i].name = AltNameUpTo[i]
                      /\ R[i].ended <=> \E j \in Entries("NM") : j <= i /\ ~susp[j].continue
           T == {i \in 0 .. n : Same(i)}
<1>1. n \in Nat /\ n = Len(raw)
  BY DEF Parsed
<1>2. Entries("NM") = {i \in 1 .. n : raw[i].t = "NM"}
  BY <1>1, PlacesOfKind DEF Utf8
<1>3. \A i \in Entries("NM") :
        susp[i] = raw[i] /\ raw[i].name \in Text /\ raw[i].continue \in BOOLEAN
  BY <1>1, <1>2, Pieces
<1>4. /\ R \in [0 .. n -> NameState] /\ R[0] = [name |-> None, ended |-> FALSE]
      /\ \A i \in 1 .. n : R[i] =
           IF raw[i].t # "NM" \/ R[i - 1].ended THEN R[i - 1]
           ELSE [name |-> IF R[i - 1].name = None THEN raw[i].name
                          ELSE R[i - 1].name \o raw[i].name,
                 ended |-> ~raw[i].continue]
  BY <1>1, RecordedUnfold
<1> DEFINE A == AltNameUpTo
<1>5. /\ A \in [0 .. n -> Text \cup {None}] /\ A[0] = None
      /\ \A i \in 1 .. n : A[i] =
           IF i \notin TakeWhileInclusive("NM") THEN A[i - 1]
           ELSE UnwrapOrDefault(A[i - 1]) \o susp[i].name
  BY AltNameUnfold
<1> HIDE DEF R, A
<1>6. 0 \in T
  <2>1. \A j \in Entries("NM") : ~(j <= 0)
    BY <1>2
  <2>2. Same(0)
    BY <1>4, <1>5, <2>1 DEF A
  <2> QED
    BY <1>1, <2>2
<1>7. ASSUME NEW i \in 1 .. n, i - 1 \in T
      PROVE  i \in T
  <2>1. /\ R[i - 1].name = A[i - 1]
        /\ R[i - 1].ended <=> \E j \in Entries("NM") : j <= i - 1 /\ ~susp[j].continue
    BY <1>7 DEF A
  <2>2. i \in 0 .. n /\ i - 1 \in 0 .. n
    BY <1>1
  <2>3. \A j \in Entries("NM") : j \in 1 .. n /\ (j <= i <=> j <= i - 1 \/ j = i)
    BY <1>1, <1>2
  <2>4. CASE i \notin Entries("NM")
    <3>1. i \notin TakeWhileInclusive("NM") /\ raw[i].t # "NM"
      BY <1>2, <2>4 DEF TakeWhileInclusive
    <3>2. R[i] = R[i - 1] /\ A[i] = A[i - 1]
      BY <1>4, <1>5, <3>1
    <3>3. Same(i)
      BY <2>1, <2>3, <2>4, <3>2 DEF A
    <3> QED
      BY <2>2, <3>3
  <2>5. CASE i \in Entries("NM")
    <3>1. raw[i].t = "NM" /\ susp[i] = raw[i] /\ raw[i].name \in Text
      BY <1>2, <1>3, <2>5
    <3>2. i \in TakeWhileInclusive("NM") <=> ~R[i - 1].ended
      <4>1. i \in TakeWhileInclusive("NM") <=>
              \A j \in Entries("NM") : j < i => susp[j].continue
        BY <2>5 DEF TakeWhileInclusive
      <4>2. \A j \in Entries("NM") : j < i <=> j <= i - 1
        BY <2>3
      <4> QED
        BY <2>1, <4>1, <4>2
    <3>3. CASE R[i - 1].ended
      <4>1. R[i] = R[i - 1] /\ A[i] = A[i - 1]
        BY <1>4, <1>5, <3>2, <3>3
      <4>2. \E j \in Entries("NM") : j <= i /\ ~susp[j].continue
        BY <2>1, <2>3, <3>3
      <4>3. Same(i)
        BY <2>1, <3>3, <4>1, <4>2 DEF A
      <4> QED
        BY <2>2, <4>3
    <3>4. CASE ~R[i - 1].ended
      <4> DEFINE a == A[i - 1]
                 c == raw[i].name
      <4>1. A[i] = UnwrapOrDefault(a) \o c
        BY <1>5, <3>1, <3>2, <3>4
      <4>2. R[i].name = (IF a = None THEN c ELSE a \o c) /\ R[i].ended = ~raw[i].continue
        <5> DEFINE N == IF a = None THEN c ELSE a \o c
                   E == ~raw[i].continue
        <5>1. R[i] = [name |-> N, ended |-> E]
          BY <1>4, <2>1, <3>1, <3>4
        <5> HIDE DEF N, E
        <5>2. R[i].name = N /\ R[i].ended = E
          BY <5>1
        <5> QED
          BY <5>2 DEF N, E
      <4>3. c \in Seq(Tokens)
        BY <3>1 DEF Text
      <4> HIDE DEF a, c
      <4>4. <<>> \o c = c
        BY <4>3, ConcatEmptySeq
      <4>5. R[i].name = A[i]
        <5>1. a = None => UnwrapOrDefault(a) = <<>>
          BY DEF UnwrapOrDefault
        <5>2. a # None => UnwrapOrDefault(a) = a
          BY DEF UnwrapOrDefault
        <5> QED
          BY <4>1, <4>2, <4>4, <5>1, <5>2
      <4>6. R[i].ended <=> \E j \in Entries("NM") : j <= i /\ ~susp[j].continue
        BY <1>3, <2>1, <2>3, <2>5, <3>1, <3>4, <4>2
      <4>7. Same(i)
        BY <4>5, <4>6 DEF A
      <4> QED
        BY <2>2, <4>7
    <3> QED
      BY <3>3, <3>4
  <2> QED
    BY <2>4, <2>5
<1>8. 0 .. n \subseteq T
  <2> HIDE DEF T
  <2> QED
    BY <1>1, <1>6, <1>7, UpTo
<1>9. Same(n) /\ n \in 0 .. n
  BY <1>1, <1>8
<1> QED
  BY <1>1, <1>5, <1>9 DEF AltName, RecordedName, R, A

(* A piece of a sequence that was put in front of another. *)
LEMMA SubSeqOfPrefix ==
  ASSUME NEW S, NEW s \in Seq(S), NEW u \in Seq(S)
  PROVE  SubSeq(s \o u, 1, Len(s)) = s
<1> DEFINE c == s \o u
           n == Len(s)
           p == SubSeq(c, 1, n)
<1>1. c \in Seq(S) /\ n \in Nat /\ \A i \in 1 .. n : c[i] = s[i]
  BY ConcatAt
<1>2. n \in Int /\ \A i \in 1 .. n : s[i] \in S
  BY <1>1
<1> HIDE DEF c, n
<1>3. \A i \in 1 .. n : c[i] \in S
  BY <1>1, <1>2
<1>4. /\ p \in Seq(S) /\ Len(p) = (IF 1 <= n THEN n - 1 + 1 ELSE 0)
      /\ \A i \in 1 .. n - 1 + 1 : p[i] = c[1 + i - 1]
  BY <1>2, <1>3, SubSeqProperties
<1> HIDE DEF p
<1>5. Len(p) = n
  BY <1>1, <1>4
<1>6. \A i \in 1 .. n : p[i] = s[i]
  <2>1. SUFFICES ASSUME NEW i \in 1 .. n
                 PROVE  p[i] = s[i]
    OBVIOUS
  <2>2. i \in 1 .. n - 1 + 1 /\ 1 + i - 1 = i
    BY <1>1
  <2> QED
    BY <1>1, <1>4, <2>2
<1>7. p = s
  BY <1>4, <1>5, <1>6, SeqEqual DEF n
<1> QED
  BY <1>7 DEF p, c, n

(* The tokens of an identifier, its parts, and the version behind it. *)
Semi == ";"
Unversioned == Tokens \ {Semi}
IsId(id, base, ext) == id = base \o <<".">> \o ext \/ (ext = <<>> /\ id = base)
Versioned(name, id, v) == name = id \o <<Semi, v>>
Shown(base, ext) == base \o (IF ext = <<>> THEN <<>> ELSE <<".">> \o ext)
Semicolons(name) == {i \in 1 .. Len(name) : name[i] = Semi}
Version(name) == SubSeq(name, Max(Semicolons(name)) + 1, Len(name))

(* How these sets of tokens lie in each other. *)
LEMMA PlainTokens ==
  /\ Plain \subseteq Unversioned /\ Unversioned \subseteq Tokens
  /\ "." \in Unversioned /\ "." \notin Plain /\ Semi \in Tokens /\ Semi \notin Unversioned
  /\ Numbers \subseteq Unversioned
<1>1. "." \in Tokens /\ ";" \in Tokens /\ Numbers \subseteq Plain
  BY Zenon, MetaAssumption
<1>2. "." # ";"
  BY Zenon
<1> QED
  BY <1>1, <1>2, Zenon DEF Plain, Unversioned, Semi

(* The name of a file without the dot of an empty extension. *)
LEMMA DotIsCut ==
  ASSUME NEW base \in Seq(Plain), NEW ext \in Seq(Plain), NEW id, IsId(id, base, ext)
  PROVE  id \in Seq(Unversioned) /\ WithoutDot(id) = Shown(base, ext)
<1> DEFINE P == Plain
           Q == Unversioned
           dot == <<".">>
           bd == base \o dot
<1>1. /\ base \in Seq(P) /\ ext \in Seq(P)
      /\ P \subseteq Q /\ "." \in Q /\ "." \notin P
  BY PlainTokens
<1>2. base \in Seq(Q) /\ ext \in Seq(Q) /\ dot \in Seq(Q) /\ Len(dot) = 1 /\ dot[1] = "."
  <2>1. base \in Seq(Q) /\ ext \in Seq(Q)
    BY <1>1, SeqMonotonic
  <2> QED
    BY <1>1, <2>1
<1>3. /\ Len(base) \in Nat /\ Len(ext) \in Nat
      /\ base # <<>> => Len(base) >= 1 /\ base[Len(base)] # "."
      /\ ext # <<>> => Len(ext) >= 1 /\ ext[Len(ext)] # "."
  <2>1. \A s \in Seq(P) : Len(s) \in Nat /\ (s # <<>> => Len(s) >= 1)
    BY EmptySeq
  <2>2. \A s \in Seq(P) : \A i \in 1 .. Len(s) : s[i] \in P
    BY ElementOfSeq
  <2>3. \A s \in Seq(P) : s # <<>> => s[Len(s)] \in P
    BY <2>1, <2>2
  <2> QED
    BY <1>1, <2>1, <2>3
<1> HIDE DEF P, Q, dot
<1>4. /\ bd \in Seq(Q) /\ Len(bd) = Len(base) + 1 /\ bd[Len(base) + 1] = "."
  <2>1. /\ bd \in Seq(Q) /\ Len(bd) = Len(base) + Len(dot)
        /\ \A i \in 1 .. Len(dot) : bd[Len(base) + i] = dot[i]
    <3>1. base \in Seq(Q) /\ dot \in Seq(Q)
      BY <1>2
    <3> QED
      BY <3>1, ConcatAt
  <2> HIDE DEF bd
  <2> QED
    BY <1>2, <2>1
<1>5. base \o <<>> = base /\ bd \o <<>> = bd
  <2> HIDE DEF bd
  <2> QED
    BY <1>2, <1>4, ConcatEmptySeq
<1>6. CASE ext = <<>> /\ id = base
  <2>1. WithoutDot(id) = base
    BY <1>3, <1>6 DEF WithoutDot
  <2> QED
    BY <1>2, <1>5, <1>6, <2>1 DEF Q, Shown
<1>7. CASE ext = <<>> /\ id = bd \o ext
  <2>1. id = bd
    BY <1>5, <1>7
  <2>2. SubSeq(bd, 1, Len(base)) = base
    BY <1>2, SubSeqOfPrefix
  <2> HIDE DEF bd
  <2>3. bd # <<>> /\ Len(bd) - 1 = Len(base) /\ bd[Len(bd)] = "."
    BY <1>3, <1>4
  <2>4. WithoutDot(bd) = base
    BY <2>2, <2>3 DEF WithoutDot
  <2> QED
    BY <1>4, <1>5, <1>7, <2>1, <2>4 DEF Q, Shown
<1>8. CASE ext # <<>> /\ id = bd \o ext
  <2>1. bd \o ext = base \o (dot \o ext)
    BY <1>2, ConcatAssociative
  <2> HIDE DEF bd
  <2>2. /\ id \in Seq(Q) /\ Len(id) = Len(bd) + Len(ext)
        /\ \A i \in 1 .. Len(ext) : id[Len(bd) + i] = ext[i]
    <3>1. bd \in Seq(Q) /\ ext \in Seq(Q)
      BY <1>2, <1>4
    <3> QED
      BY <1>8, <3>1, ConcatAt
  <2>3. id[Len(id)] # "."
    BY <1>3, <1>4, <1>8, <2>2
  <2>4. WithoutDot(id) = id
    BY <2>3 DEF WithoutDot
  <2> QED
    BY <1>8, <2>1, <2>2, <2>4 DEF Q, dot, Shown
<1> QED
  BY <1>6, <1>7, <1>8 DEF bd, dot, IsId

(* The version after the last semicolon. *)
LEMMA VersionIsCut ==
  ASSUME NEW id \in Seq(Unversioned), NEW v \in Unversioned,
         NEW name, Versioned(name, id, v)
  PROVE  /\ Semicolons(name) # {}
         /\ Len(Version(name)) = 1 /\ Version(name)[1] = v
         /\ SubSeq(name, 1, Max(Semicolons(name)) - 1) = id
<1> DEFINE k == Len(id)
           tail == <<Semi, v>>
           semis == {i \in 1 .. Len(name) : name[i] = Semi}
           idx == Max(semis)
           version == SubSeq(name, idx + 1, Len(name))
           S == Tokens
           Q == Unversioned
<1>1. Q \subseteq S /\ Semi \in S /\ Semi \notin Q /\ id \in Seq(Q) /\ v \in Q
  BY PlainTokens
<1> HIDE DEF S, Q
<1>2. id \in Seq(S) /\ \A i \in 1 .. Len(id) : id[i] # Semi
  <2>1. id \in Seq(S)
    BY <1>1, SeqMonotonic
  <2>2. \A i \in 1 .. Len(id) : id[i] \in Q
    BY <1>1, ElementOfSeq
  <2> QED
    BY <1>1, <2>1, <2>2
<1>3. tail \in Seq(S) /\ Len(tail) = 2 /\ tail[1] = Semi /\ tail[2] = v /\ v # Semi
  BY <1>1
<1> HIDE DEF tail
<1>4. /\ name \in Seq(S) /\ k \in Nat /\ Len(name) = k + 2
      /\ \A i \in 1 .. k : name[i] # Semi
      /\ name[k + 1] = Semi /\ name[k + 2] = v
  <2>1. /\ name \in Seq(S) /\ k \in Nat /\ Len(name) = k + Len(tail)
        /\ \A i \in 1 .. k : name[i] = id[i]
        /\ \A i \in 1 .. Len(tail) : name[k + i] = tail[i]
    <3>1. id \in Seq(S) /\ tail \in Seq(S)
      BY <1>2, <1>3
    <3> QED
      BY <3>1, ConcatAt DEF tail, Versioned
  <2> QED
    BY <1>2, <1>3, <2>1
<1>5. SubSeq(name, 1, k) = id
  BY <1>2, <1>3, SubSeqOfPrefix DEF tail, Versioned
<1> HIDE DEF k
<1>6. semis = {k + 1}
  <2>1. \A i \in 1 .. k + 2 : i \in 1 .. k \/ i = k + 1 \/ i = k + 2
    BY <1>4
  <2>2. k + 1 \in 1 .. k + 2
    BY <1>4
  <2> QED
    BY <1>3, <1>4, <2>1, <2>2
<1>7. idx = k + 1
  <2>1. semis \subseteq 0 .. k + 1 /\ k + 1 \in Nat /\ semis # {}
    BY <1>4, <1>6
  <2> HIDE DEF semis
  <2>2. idx \in semis
    BY <2>1, MaxIndex
  <2> QED
    BY <1>6, <2>2
<1> HIDE DEF idx, semis
<1>8. idx - 1 = k
  BY <1>4, <1>7
<1>9. Len(version) = 1 /\ version[1] = v
  <2> DEFINE m == k + 2
             w == SubSeq(name, m, m)
  <2>1. m \in Int /\ \A i \in m .. m : name[i] \in S
    <3>1. m \in Int /\ name[m] \in S
      BY <1>1, <1>4
    <3> HIDE DEF m
    <3> QED
      BY <3>1
  <2> HIDE DEF m
  <2>2. /\ Len(w) = (IF m <= m THEN m - m + 1 ELSE 0)
        /\ \A i \in 1 .. m - m + 1 : w[i] = name[m + i - 1]
    BY <2>1, SubSeqProperties
  <2> HIDE DEF w
  <2>3. Len(w) = 1 /\ w[1] = v
    <3>1. 1 \in 1 .. m - m + 1 /\ m + 1 - 1 = m
      BY <2>1
    <3> QED
      BY <1>4, <2>1, <2>2, <3>1 DEF m
  <2>4. version = w
    <3>1. idx + 1 = k + 2
      BY <1>4, <1>7
    <3> QED
      BY <1>4, <3>1 DEF w, m
  <2> HIDE DEF version
  <2> QED
    BY <2>3, <2>4
<1>10. semis # {}
  BY <1>6
<1> QED
  BY <1>5, <1>8, <1>9, <1>10 DEF Semicolons, Version, semis, idx

(* What ISOFile::new makes of a name. *)
LEMMA FileNewOf ==
  /\ Semicolons(Named) = {} => FileNew = Built("ok", EntryType, WithoutDot(Named), "1")
  /\ Semicolons(Named) # {} /\ Len(Version(Named)) = 1 /\ Version(Named)[1] \in Numbers =>
       FileNew = Built("ok", EntryType,
                       WithoutDot(SubSeq(Named, 1, Max(Semicolons(Named)) - 1)),
                       Version(Named)[1])
BY Zenon DEF FileNew, Semicolons, Version, Semi

(* The name of a file is the one recorded. *)
LEMMA FileNamed ==
  ASSUME Parsed, ~header.dir, Utf8, PlainName(RecordedName)
  PROVE  /\ FileNew.res = "ok"
         /\ FileNew.identifier =
              IF RecordedName # None THEN RecordedName
              ELSE header.base \o (IF header.extension = <<>> THEN <<>>
                                   ELSE <<".">> \o header.extension)
         /\ RecordedName = None => FileNew.version = header.version
<1> DEFINE name == RecordedName
<1>1. AltName = name /\ name \in Text \cup {None}
  BY NameIsRecorded
<1>2. CASE name # None
  <2>1. Named = name
    BY <1>1, <1>2 DEF Named
  <2>2. /\ \A i \in 1 .. Len(name) : name[i] # Semi
        /\ name # <<>> => name[Len(name)] # "."
    BY <1>2, Zenon DEF PlainName, Semi
  <2>3. Semicolons(Named) = {}
    BY <2>1, <2>2, Zenon DEF Semicolons
  <2>4. FileNew = Built("ok", EntryType, WithoutDot(name), "1")
    BY <2>1, <2>3, FileNewOf
  <2>5. WithoutDot(name) = name
    BY <2>2, Zenon DEF WithoutDot
  <2> HIDE DEF name
  <2> QED
    BY <1>2, <2>4, <2>5 DEF Built, name
<1>3. CASE name = None
  <2> DEFINE h == header
             base == h.base
             ext == h.extension
             number == h.version
  <2>1. Named = h.name
    BY <1>1, <1>3 DEF Named
  <2>2. h \in Headers
    BY DEF Parsed
  <2>3. /\ base \in Seq(Plain) /\ ext \in Seq(Plain) /\ number \in Numbers
        /\ Identifies(h.name, h)
    BY <2>2, HeaderAssumption, Zenon
  <2>4. number \in Unversioned
    BY <2>3, PlainTokens
  <2>5. \E id, version :
          /\ h.name = id \o version
          /\ IsId(id, base, ext)
          /\ version = <<Semi, number>> \/ (number = "1" /\ version = <<>>)
    <3> DEFINE A == {base \o <<".">> \o ext} \cup (IF ext = <<>> THEN {base} ELSE {})
               B == {<<";", number>>} \cup (IF number = "1" THEN {<<>>} ELSE {})
    <3>1. \E id \in A : \E version \in B : h.name = id \o version
      BY <2>3, Zenon DEF Identifies
    <3>2. \A id \in A : IsId(id, base, ext)
      BY Zenon DEF IsId
    <3>3. \A version \in B : version = <<Semi, number>> \/ (number = "1" /\ version = <<>>)
      BY Zenon DEF Semi
    <3> HIDE DEF A, B
    <3> QED
      BY <3>1, <3>2, <3>3, Zenon
  <2>6. PICK id, version :
          /\ h.name = id \o version
          /\ IsId(id, base, ext)
          /\ version = <<Semi, number>> \/ (number = "1" /\ version = <<>>)
    BY <2>5, Zenon
  <2>7. Shown(base, ext) = header.base \o (IF header.extension = <<>> THEN <<>>
                                           ELSE <<".">> \o header.extension)
    BY Zenon DEF Shown
  <2> HIDE DEF base, ext, number
  <2>8. id \in Seq(Unversioned) /\ WithoutDot(id) = Shown(base, ext)
    BY <2>3, <2>6, DotIsCut
  <2>9. FileNew = Built("ok", EntryType, Shown(base, ext), number)
    <3>1. CASE version = <<Semi, number>>
      <4>1. Named = id \o <<Semi, number>>
        BY <2>1, <2>6, <3>1
      <4>2. /\ Semicolons(Named) # {}
            /\ Len(Version(Named)) = 1 /\ Version(Named)[1] = number
            /\ SubSeq(Named, 1, Max(Semicolons(Named)) - 1) = id
        <5>1. Versioned(Named, id, number)
          BY <4>1, Zenon DEF Versioned
        <5> QED
          BY <2>4, <2>8, <5>1, VersionIsCut
      <4> QED
        BY <2>3, <2>8, <4>2, FileNewOf
    <3>2. CASE number = "1" /\ version = <<>>
      <4>1. Named = id
        BY <2>1, <2>6, <2>8, <3>2, ConcatEmptySeq
      <4>2. \A i \in 1 .. Len(id) : id[i] \in Unversioned
        BY <2>8, ElementOfSeq
      <4>3. Semicolons(Named) = {}
        BY <4>1, <4>2, PlainTokens DEF Semicolons
      <4> QED
        BY <2>8, <3>2, <4>1, <4>3, FileNewOf
    <3> QED
      BY <2>6, <3>1, <3>2
  <2> QED
    BY <1>3, <2>7, <2>9 DEF Built, number
<1> QED
  BY <1>2, <1>3

(* The name, in a state that is parsed. *)
LEMMA ParsedName == Parsed => NameIsRight
<1> SUFFICES ASSUME Parsed, ~header.dir, PlainName(RecordedName), Utf8
             PROVE  /\ Entry.res # "err"
                    /\ Entry.identifier =
                         IF RecordedName # None THEN RecordedName
                         ELSE header.base \o (IF header.extension = <<>> THEN <<>>
                                              ELSE <<".">> \o header.extension)
                    /\ RecordedName = None => Entry.version = header.version
  BY Zenon DEF NameIsRight, Utf8
<1>1. EntryNew = FileNew
  BY DEF EntryNew
<1>2. /\ Entry.res # "err" /\ Entry.identifier = FileNew.identifier
      /\ Entry.version = FileNew.version
  <2>1. FileNew.res = "ok"
    BY FileNamed
  <2> QED
    BY <1>1, <2>1 DEF Entry, Built
<1> QED
  BY <1>2, FileNamed

(* For every record and every area: a file has the name it was recorded    *)
(* under, its alternate name in any number of pieces or its identifier     *)
(* without version and dot (read_entry_at, ISOFile::new, Symlink::new).    *)
THEOREM NameRight == Spec => []NameIsRight
BY AlwaysParsed, ParsedName, PTL

-----------------------------------------------------------------------------
(* The target of a link *)

(* A directory, and what has been read of a path. *)
Dirs == Seq(Text \cup {<<"c1">>, <<"c2">>})
ReadState == [dir : Dirs, name : Text]
ReadStart(from, path) == [dir |-> IF Absolute(path) THEN <<>> ELSE from, name |-> <<>>]
ReadNext(v, c) ==
  IF c # "/" THEN [dir |-> v.dir, name |-> Append(v.name, c)]
  ELSE [dir |-> StepTo(v.dir, v.name), name |-> <<>>]

(* What is text, and text behind text. *)
LEMMA TextFacts ==
  /\ <<>> \in Text /\ <<"/">> \in Text /\ <<>> \in Dirs
  /\ \A s \in Text : Len(s) \in Nat /\ (s # <<>> => Len(s) >= 1)
  /\ \A s, u \in Text : s \o u \in Text
<1>1. "/" \in Tokens
  BY MetaAssumption, Zenon
<1>2. <<>> \in Text /\ <<"/">> \in Text
  BY <1>1 DEF Text
<1>3. <<>> \in Dirs
  BY EmptySeq DEF Dirs
<1>4. \A s \in Text : Len(s) \in Nat /\ (s # <<>> => Len(s) >= 1)
  BY EmptySeq DEF Text
<1>5. \A s, u \in Text : s \o u \in Text
  BY ConcatProperties DEF Text
<1> QED
  BY <1>2, <1>3, <1>4, <1>5

(* One step of a walk. *)
LEMMA StepToDir ==
  ASSUME NEW at \in Dirs, NEW name \in Text
  PROVE  StepTo(at, name) \in Dirs /\ StepTo(at, <<>>) = at /\ StepTo(at, <<".">>) = at
<1> DEFINE N == Text \cup {<<"c1">>, <<"c2">>}
<1>1. at \in Seq(N) /\ name \in N
  BY DEF Dirs
<1>2. StepTo(at, <<>>) = at /\ StepTo(at, <<".">>) = at
  BY DEF StepTo
<1>3. Append(at, name) \in Seq(N)
  <2> HIDE DEF N
  <2> QED
    BY <1>1
<1>4. at # <<>> => SubSeq(at, 1, Len(at) - 1) \in Seq(N)
  <2> HIDE DEF N
  <2>1. Len(at) \in Nat /\ Len(at) - 1 \in Int /\ \A i \in 1 .. Len(at) - 1 : at[i] \in N
    BY <1>1
  <2> QED
    BY <2>1, SubSeqProperties
<1> HIDE DEF N
<1>5. \/ StepTo(at, name) \in {at, Append(at, name)}
      \/ at # <<>> /\ StepTo(at, name) = SubSeq(at, 1, Len(at) - 1)
  BY DEF StepTo
<1>6. StepTo(at, name) \in Seq(N)
  BY <1>1, <1>3, <1>4, <1>5
<1> QED
  BY <1>2, <1>6 DEF N, Dirs

(* A joined path is text. *)
LEMMA JoinText ==
  ASSUME NEW path \in Text, NEW part \in Text
  PROVE  Join(path, part) \in Text
<1>1. path \o part \in Text
  BY TextFacts
<1>2. path \o <<"/">> \in Text
  BY TextFacts
<1> DEFINE p == path \o <<"/">>
<1> HIDE DEF p
<1>3. p \o part \in Text
  BY <1>2, TextFacts DEF p
<1> QED
  BY <1>1, <1>3 DEF Join, p

(* A path is read token by token. *)
LEMMA ReadingUnfold ==
  ASSUME NEW from \in Dirs, NEW path \in Text
  PROVE  /\ Reading(from, path) \in [0 .. Len(path) -> ReadState]
         /\ Reading(from, path)[0] = ReadStart(from, path)
         /\ \A i \in 1 .. Len(path) :
              Reading(from, path)[i] = ReadNext(Reading(from, path)[i - 1], path[i])
<1> DEFINE n == Len(path)
           S == ReadState
           b == ReadStart(from, path)
           Step(v, i) == ReadNext(v, path[i])
           G == [i \in 1 .. n |-> [v \in S |-> Step(v, i)]]
           Round(g) == [i \in 0 .. n |-> IF i = 0 THEN b ELSE Step(g[i - 1], i)]
           F == Reading(from, path)
<1>1. n \in Nat /\ b \in S
  <2>1. (IF Absolute(path) THEN <<>> ELSE from) \in Dirs
    BY TextFacts
  <2> QED
    BY <2>1, TextFacts DEF ReadState, ReadStart
<1>2. \A i \in 1 .. n : \A v \in S : Step(v, i) \in S
  <2>1. SUFFICES ASSUME NEW i \in 1 .. n, NEW v \in S
                 PROVE  Step(v, i) \in S
    OBVIOUS
  <2>2. v.dir \in Dirs /\ v.name \in Text
    BY DEF ReadState
  <2>3. path[i] \in Tokens
    BY DEF Text
  <2>4. Append(v.name, path[i]) \in Text
    BY <2>2, <2>3 DEF Text
  <2>5. StepTo(v.dir, v.name) \in Dirs
    BY <2>2, StepToDir
  <2> QED
    BY <2>2, <2>4, <2>5, TextFacts DEF ReadState, ReadNext
<1>3. F = CHOOSE g : g = Round(g)
  BY DEF Reading, ReadNext, ReadStart
<1> HIDE DEF n, S, b, Step, F
<1>4. \E g : g = Round(g)
  <2>1. G \in [1 .. n -> [S -> S]]
    BY <1>2
  <2>2. PICK f : IsRecursive(f, n, S, b, G)
    <3> HIDE DEF G
    <3> QED
      BY <1>1, <2>1, Recursion
  <2>3. f \in [0 .. n -> S] /\ f[0] = b /\ \A i \in 1 .. n : f[i] = Step(f[i - 1], i)
    <3>1. f \in [0 .. n -> S] /\ f[0] = b /\ \A i \in 1 .. n : f[i] = G[i][f[i - 1]]
      BY <2>2 DEF IsRecursive
    <3>2. \A i \in 1 .. n : i - 1 \in 0 .. n /\ f[i - 1] \in S
      BY <1>1, <3>1
    <3>3. \A i \in 1 .. n : \A v \in S : G[i][v] = Step(v, i)
      OBVIOUS
    <3> HIDE DEF G
    <3> QED
      BY <3>1, <3>2, <3>3
  <2>4. f = [i \in 0 .. n |-> IF i = 0 THEN b ELSE Step(f[i - 1], i)]
    <3>1. \A i \in 0 .. n : f[i] = IF i = 0 THEN b ELSE Step(f[i - 1], i)
      BY <1>1, <2>3
    <3> QED
      BY <2>3, <3>1
  <2> QED
    BY <2>4
<1>5. F = [i \in 0 .. n |-> IF i = 0 THEN b ELSE Step(F[i - 1], i)]
  <2>1. F = Round(F)
    <3> HIDE DEF Round
    <3> QED
      BY <1>3, <1>4
  <2> QED
    BY <2>1
<1>6. F[0] = b /\ \A i \in 1 .. n : F[i] = Step(F[i - 1], i)
  BY <1>1, <1>5
<1>7. F \in [0 .. n -> S]
  <2> DEFINE T == {i \in 0 .. n : F[i] \in S}
  <2>1. 0 \in T
    BY <1>1, <1>6
  <2>2. \A i \in 1 .. n : i - 1 \in T => i \in T
    BY <1>1, <1>2, <1>6
  <2>3. 0 .. n \subseteq T
    <3> HIDE DEF T
    <3> QED
      BY <1>1, <2>1, <2>2, UpTo
  <2>4. \A i \in 0 .. n : F[i] \in S
    BY <2>3
  <2> QED
    BY <1>5, <2>4
<1> QED
  BY <1>6, <1>7 DEF n, S, b, Step, F

(* A path with another one behind it; one that has ended its last name. *)
IsConcat(r, p, q) == r = p \o q
Ends(from, p, d) == Reading(from, p)[Len(p)] = [dir |-> d, name |-> <<>>]

(* The first of two paths is read as if it stood alone. *)
LEMMA ReadPrefix ==
  ASSUME NEW from \in Dirs, NEW p \in Text, p # <<>>, NEW q \in Text, NEW r, IsConcat(r, p, q)
  PROVE  \A i \in 0 .. Len(p) : Reading(from, r)[i] = Reading(from, p)[i]
<1> DEFINE F == Reading(from, r)
           G == Reading(from, p)
           n == Len(p)
           T == {i \in 0 .. n : F[i] = G[i]}
<1>1. r \in Text /\ n \in Nat /\ n >= 1 /\ Len(q) \in Nat
  BY TextFacts DEF IsConcat
<1>2. Len(r) = n + Len(q) /\ \A i \in 1 .. n : r[i] = p[i]
  BY ConcatAt DEF Text, IsConcat
<1>3. ReadStart(from, r) = ReadStart(from, p)
  <2>1. r # <<>> /\ r[1] = p[1]
    BY <1>1, <1>2, TextFacts
  <2>2. Absolute(r) <=> Absolute(p)
    <3>1. Head(r) = r[1] /\ Head(p) = p[1]
      BY <1>1, <2>1 DEF Text
    <3> QED
      BY <2>1, <3>1 DEF Absolute
  <2> QED
    BY <2>2 DEF ReadStart
<1>4. F[0] = ReadStart(from, r) /\ \A i \in 1 .. Len(r) : F[i] = ReadNext(F[i - 1], r[i])
  BY <1>1, ReadingUnfold
<1>5. G[0] = ReadStart(from, p) /\ \A i \in 1 .. n : G[i] = ReadNext(G[i - 1], p[i])
  BY ReadingUnfold
<1> HIDE DEF F, G, n
<1>6. 0 \in T
  BY <1>1, <1>3, <1>4, <1>5
<1>7. ASSUME NEW i \in 1 .. n, i - 1 \in T
      PROVE  i \in T
  <2>1. i \in 1 .. Len(r) /\ i \in 0 .. n
    BY <1>1, <1>2
  <2>2. F[i - 1] = G[i - 1]
    BY <1>7
  <2>3. F[i] = G[i]
    BY <1>2, <1>4, <1>5, <2>1, <2>2
  <2> QED
    BY <2>1, <2>3
<1>8. 0 .. n \subseteq T
  <2> HIDE DEF T
  <2> QED
    BY <1>1, <1>6, <1>7, UpTo
<1> QED
  BY <1>8 DEF F, G, n

(* If the first ends a name, the other is read from where it leads. *)
LEMMA ReadSuffix ==
  ASSUME NEW from \in Dirs, NEW p \in Text, p # <<>>, NEW q \in Text, NEW r, IsConcat(r, p, q),
         NEW d \in Dirs, Ends(from, p, d),
         ~Absolute(q)
  PROVE  \A i \in 0 .. Len(q) : Reading(from, r)[Len(p) + i] = Reading(d, q)[i]
<1> DEFINE F == Reading(from, r)
           G == Reading(d, q)
           n == Len(p)
           m == Len(q)
           T == {i \in 0 .. m : F[n + i] = G[i]}
<1>1. r \in Text /\ n \in Nat /\ n >= 1 /\ m \in Nat
  BY TextFacts DEF IsConcat
<1>2. Len(r) = n + m /\ \A i \in 1 .. m : r[n + i] = q[i]
  BY ConcatAt DEF Text, IsConcat
<1>3. F[n] = [dir |-> d, name |-> <<>>]
  <2>1. \A i \in 0 .. Len(p) : Reading(from, r)[i] = Reading(from, p)[i]
    BY ReadPrefix
  <2>2. Len(p) \in 0 .. Len(p)
    BY <1>1
  <2>3. F[n] = Reading(from, p)[n]
    BY <2>1, <2>2, Zenon
  <2> QED
    BY <2>3 DEF Ends
<1>4. ReadStart(d, q) = [dir |-> d, name |-> <<>>]
  BY DEF ReadStart
<1>5. \A i \in 1 .. Len(r) : F[i] = ReadNext(F[i - 1], r[i])
  BY <1>1, ReadingUnfold
<1>6. G[0] = ReadStart(d, q) /\ \A i \in 1 .. m : G[i] = ReadNext(G[i - 1], q[i])
  BY ReadingUnfold
<1> HIDE DEF F, G, n, m
<1>7. 0 \in T
  <2>1. n + 0 = n
    BY <1>1
  <2> QED
    BY <1>1, <1>3, <1>4, <1>6, <2>1
<1>8. ASSUME NEW i \in 1 .. m, i - 1 \in T
      PROVE  i \in T
  <2>1. n + i \in 1 .. Len(r) /\ i \in 0 .. m /\ n + (i - 1) = (n + i) - 1
    BY <1>1, <1>2
  <2>2. F[(n + i) - 1] = G[i - 1]
    BY <1>8, <2>1
  <2>3. F[n + i] = G[i]
    BY <1>2, <1>5, <1>6, <2>1, <2>2
  <2> QED
    BY <2>1, <2>3
<1>9. 0 .. m \subseteq T
  <2> HIDE DEF T
  <2> QED
    BY <1>1, <1>7, <1>8, UpTo
<1> QED
  BY <1>9 DEF F, G, n, m

(* An absolute path leads to the same place from everywhere. *)
LEMMA ReadAbsolute ==
  ASSUME NEW from \in Dirs, NEW to \in Dirs, NEW q \in Text, Absolute(q)
  PROVE  WalkText(from, q) = WalkText(to, q)
<1> DEFINE F == Reading(from, q)
           G == Reading(to, q)
           n == Len(q)
           T == {i \in 0 .. n : F[i] = G[i]}
<1>1. n \in Nat
  BY TextFacts
<1>2. ReadStart(from, q) = ReadStart(to, q)
  BY DEF ReadStart
<1>3. F[0] = ReadStart(from, q) /\ \A i \in 1 .. n : F[i] = ReadNext(F[i - 1], q[i])
  BY ReadingUnfold
<1>4. G[0] = ReadStart(to, q) /\ \A i \in 1 .. n : G[i] = ReadNext(G[i - 1], q[i])
  BY ReadingUnfold
<1> HIDE DEF F, G, n
<1>5. 0 \in T
  BY <1>1, <1>2, <1>3, <1>4
<1>6. ASSUME NEW i \in 1 .. n, i - 1 \in T
      PROVE  i \in T
  BY <1>1, <1>3, <1>4, <1>6
<1>7. 0 .. n \subseteq T
  <2> HIDE DEF T
  <2> QED
    BY <1>1, <1>5, <1>6, UpTo
<1>8. F[n] = G[n]
  BY <1>1, <1>7
<1> QED
  BY <1>8 DEF WalkText, F, G, n

(* A path leads to a directory, the empty one nowhere else. *)
LEMMA WalkTyped ==
  ASSUME NEW from \in Dirs, NEW p \in Text
  PROVE  /\ WalkText(from, p) \in Dirs
         /\ Reading(from, p)[Len(p)] \in ReadState
         /\ WalkText(from, <<>>) = from
<1>1. Len(p) \in Nat
  BY TextFacts
<1>2. Reading(from, p)[Len(p)] \in ReadState
  BY <1>1, ReadingUnfold
<1>3. WalkText(from, p) \in Dirs
  BY <1>2, StepToDir DEF WalkText, ReadState
<1>4. WalkText(from, <<>>) = from
  <2>1. Len(<<>>) = 0 /\ ~Absolute(<<>>)
    BY DEF Absolute
  <2>2. Reading(from, <<>>)[0] = ReadStart(from, <<>>)
    BY TextFacts, ReadingUnfold
  <2>3. ReadStart(from, <<>>).dir = from /\ ReadStart(from, <<>>).name = <<>>
    BY <2>1 DEF ReadStart
  <2> QED
    BY <2>1, <2>2, <2>3, StepToDir, TextFacts DEF WalkText
<1> QED
  BY <1>2, <1>3, <1>4

(* Where a path that ends a name leads, and one behind it. *)
LEMMA WalkOn ==
  ASSUME NEW from \in Dirs, NEW p \in Text, p # <<>>, NEW q \in Text, ~Absolute(q),
         NEW d \in Dirs, Ends(from, p, d)
  PROVE  WalkText(from, p \o q) = WalkText(d, q)
<1> DEFINE r == p \o q
<1>1. Len(p) \in Nat /\ Len(q) \in Nat /\ Len(r) = Len(p) + Len(q)
  BY ConcatAt, TextFacts DEF Text
<1> HIDE DEF r
<1>2. Reading(from, r)[Len(p) + Len(q)] = Reading(d, q)[Len(q)]
  <2>1. \A i \in 0 .. Len(q) : Reading(from, r)[Len(p) + i] = Reading(d, q)[i]
    <3>1. IsConcat(r, p, q)
      BY DEF IsConcat, r
    <3> QED
      BY <3>1, ReadSuffix
  <2>2. Len(q) \in 0 .. Len(q)
    BY <1>1
  <2> QED
    BY <2>1, <2>2
<1> QED
  BY <1>1, <1>2 DEF WalkText, r

(* A joined path leads to where the second leads from where the first does *)
LEMMA WalkJoin ==
  ASSUME NEW from \in Dirs, NEW p \in Text, NEW q \in Text
  PROVE  WalkText(from, Join(p, q)) = WalkText(WalkText(from, p), q)
<1> DEFINE d == WalkText(from, p)
           last == Reading(from, p)[Len(p)]
<1>1. d \in Dirs /\ last \in ReadState /\ WalkText(from, <<>>) = from /\ Len(p) \in Nat
  BY WalkTyped, TextFacts
<1>2. CASE Absolute(q)
  <2>1. Join(p, q) = q
    BY <1>2 DEF Join
  <2> HIDE DEF d
  <2> QED
    BY <1>1, <1>2, <2>1, ReadAbsolute DEF d
<1>3. CASE ~Absolute(q) /\ p = <<>>
  <2>1. Join(p, q) = <<>> \o q
    BY <1>3 DEF Join
  <2>2. <<>> \o q = q
    BY ConcatEmptySeq DEF Text
  <2> QED
    BY <1>1, <1>3, <2>1, <2>2
<1>4. CASE ~Absolute(q) /\ p # <<>> /\ p[Len(p)] = "/"
  <2>1. Join(p, q) = p \o q
    BY <1>4 DEF Join
  <2>2. Len(p) >= 1 /\ Len(p) \in 1 .. Len(p)
    BY <1>4, TextFacts
  <2> DEFINE before == Reading(from, p)[Len(p) - 1]
  <2>3. last = ReadNext(before, "/")
    BY <1>4, <2>2, ReadingUnfold
  <2>4. before \in ReadState
    <3>1. Len(p) - 1 \in 0 .. Len(p)
      BY <1>1, <2>2
    <3> QED
      BY <3>1, ReadingUnfold
  <2> DEFINE e == StepTo(before.dir, before.name)
  <2>5. e \in Dirs
    BY <2>4, StepToDir DEF ReadState
  <2>6. last = [dir |-> e, name |-> <<>>]
    BY <2>3 DEF ReadNext
  <2> HIDE DEF e
  <2>7. d = e
    BY <2>5, <2>6, StepToDir, TextFacts DEF WalkText
  <2>8. WalkText(from, p \o q) = WalkText(e, q)
    <3>1. Ends(from, p, e)
      BY <2>6 DEF Ends
    <3> QED
      BY <1>4, <2>5, <3>1, WalkOn
  <2> QED
    BY <2>1, <2>7, <2>8
<1>5. CASE ~Absolute(q) /\ p # <<>> /\ p[Len(p)] # "/"
  <2> DEFINE s == p \o <<"/">>
             n == Len(p)
  <2>1. Join(p, q) = s \o q
    BY <1>5 DEF Join
  <2>2. s \in Text /\ Len(s) = n + 1 /\ s[n + 1] = "/"
    <3>1. <<"/">> \in Seq(Tokens) /\ Len(<<"/">>) = 1 /\ <<"/">>[1] = "/"
      BY TextFacts DEF Text
    <3> DEFINE slash == <<"/">>
    <3> HIDE DEF slash
    <3>2. /\ p \o slash \in Seq(Tokens) /\ Len(p \o slash) = n + Len(slash)
          /\ \A i \in 1 .. Len(slash) : (p \o slash)[n + i] = slash[i]
      BY <3>1, ConcatAt DEF Text, slash
    <3> QED
      BY <3>1, <3>2 DEF Text, slash
  <2>3. \A i \in 0 .. n : Reading(from, s)[i] = Reading(from, p)[i]
    <3>1. <<"/">> \in Text
      BY TextFacts
    <3>2. IsConcat(s, p, <<"/">>)
      BY DEF IsConcat
    <3>3. p # <<>>
      BY <1>5
    <3> HIDE DEF s
    <3>4. \A i \in 0 .. Len(p) : Reading(from, s)[i] = Reading(from, p)[i]
      BY <3>1, <3>2, <3>3, ReadPrefix
    <3> QED
      BY <3>4
  <2> HIDE DEF s
  <2>4. Reading(from, s)[n + 1] = ReadNext(Reading(from, s)[(n + 1) - 1], s[n + 1])
    <3>1. n + 1 \in 1 .. Len(s)
      BY <1>1, <2>2
    <3> QED
      BY <2>2, <3>1, ReadingUnfold
  <2>5. (n + 1) - 1 = n /\ n \in 0 .. n
    BY <1>1
  <2>6. Reading(from, s)[Len(s)] = [dir |-> d, name |-> <<>>]
    <3>1. Reading(from, s)[n + 1] = ReadNext(last, "/")
      BY <2>2, <2>3, <2>4, <2>5
    <3>2. ReadNext(last, "/") = [dir |-> d, name |-> <<>>]
      BY DEF ReadNext, WalkText
    <3> QED
      BY <2>2, <3>1, <3>2
  <2>7. s # <<>>
    BY <1>1, <2>2
  <2> HIDE DEF d
  <2>8. WalkText(from, s \o q) = WalkText(d, q)
    <3>1. Ends(from, s, d)
      BY <2>6 DEF Ends
    <3> QED
      BY <1>1, <1>5, <2>2, <2>7, <3>1, WalkOn
  <2> QED
    BY <2>1, <2>8 DEF d
<1> QED
  BY <1>2, <1>3, <1>4, <1>5

(* A name is one step. *)
LEMMA WalkName ==
  ASSUME NEW at \in Dirs, NEW t \in Seq(Tokens \ {"/"})
  PROVE  t \in Text /\ WalkText(at, t) = StepTo(at, t)
<1> DEFINE F == Reading(at, t)
           n == Len(t)
           T == {i \in 0 .. n : /\ F[i].dir = at /\ Len(F[i].name) = i
                                /\ \A j \in 1 .. i : F[i].name[j] = t[j]}
<1>1. n \in Nat /\ \A i \in 1 .. n : t[i] \in Tokens \ {"/"}
  BY ElementOfSeq
<1>2. t \in Text
  BY <1>1 DEF Text
<1>3. ReadStart(at, t) = [dir |-> at, name |-> <<>>]
  <2>1. t # <<>> => Head(t) \in Tokens \ {"/"}
    BY HeadTailProperties
  <2> QED
    BY <2>1 DEF ReadStart, Absolute
<1>4. /\ F \in [0 .. n -> ReadState] /\ F[0] = ReadStart(at, t)
      /\ \A i \in 1 .. n : F[i] = ReadNext(F[i - 1], t[i])
  BY <1>2, ReadingUnfold
<1> HIDE DEF F, n
<1>5. 0 \in T
  BY <1>1, <1>3, <1>4
<1>6. ASSUME NEW i \in 1 .. n, i - 1 \in T
      PROVE  i \in T
  <2> DEFINE name == F[i - 1].name
  <2>1. /\ F[i - 1].dir = at /\ Len(name) = i - 1
        /\ \A j \in 1 .. i - 1 : name[j] = t[j]
    BY <1>6
  <2>2. i - 1 \in 0 .. n /\ i \in 0 .. n
    BY <1>1
  <2>3. name \in Seq(Tokens)
    BY <1>4, <2>2 DEF ReadState, Text
  <2>4. t[i] \in Tokens /\ t[i] # "/"
    BY <1>1
  <2> HIDE DEF name
  <2>5. F[i] = [dir |-> at, name |-> Append(name, t[i])]
    BY <1>4, <2>1, <2>4 DEF ReadNext, name
  <2> DEFINE longer == Append(name, t[i])
  <2>6. /\ Len(longer) = i /\ longer[i] = t[i]
        /\ \A j \in 1 .. i - 1 : longer[j] = name[j]
    <3>1. Len(name) + 1 = i
      BY <1>1, <2>1
    <3> QED
      BY <2>1, <2>3, <2>4, <3>1, AppendProperties
  <2> HIDE DEF longer
  <2>7. \A j \in 1 .. i : longer[j] = t[j]
    BY <1>1, <2>1, <2>6
  <2>8. F[i].dir = at /\ F[i].name = longer
    BY <2>5 DEF longer
  <2> QED
    BY <2>2, <2>6, <2>7, <2>8
<1>7. 0 .. n \subseteq T
  <2> HIDE DEF T
  <2> QED
    BY <1>1, <1>5, <1>6, UpTo
<1>8. F[n].dir = at /\ F[n].name = t
  <2> DEFINE name == F[n].name
  <2>1. n \in 0 .. n
    BY <1>1
  <2>2. F[n].dir = at /\ Len(name) = n /\ \A j \in 1 .. n : name[j] = t[j]
    BY <1>7, <2>1
  <2>3. name \in Seq(Tokens) /\ t \in Seq(Tokens)
    BY <1>2, <1>4, <2>1 DEF ReadState, Text
  <2> HIDE DEF name
  <2>4. name = t
    BY <2>2, <2>3, SeqEqual DEF n
  <2> QED
    BY <2>2, <2>4 DEF name
<1> QED
  BY <1>2, <1>8 DEF WalkText, F, n

(* The path of a component record leads to where the record does. *)
LEMMA WalkComponent ==
  ASSUME NEW at \in Dirs, NEW c \in Components
  PROVE  /\ Component(c) \in Text
         /\ WalkText(at, Component(c)) = WalkRecord(at, c)
<1>1. /\ c.text \in Seq(Tokens \ {"/"}) /\ ~({"CURRENT", "PARENT"} \subseteq c.flags)
  BY DEF Components
<1>2. <<".">> \in Seq(Tokens \ {"/"}) /\ <<"..">> \in Seq(Tokens \ {"/"})
  <2>1. "." \in Tokens /\ ".." \in Tokens
    BY MetaAssumption, Zenon
  <2> QED
    BY <2>1
<1>3. CASE "ROOT" \in c.flags
  <2>1. Component(c) = <<"/">> /\ WalkRecord(at, c) = <<>>
    BY <1>3 DEF Component, WalkRecord
  <2> DEFINE p == <<"/">>
             F == Reading(at, p)
  <2>2. p \in Text /\ Len(p) = 1 /\ p[1] = "/" /\ Absolute(p)
    BY TextFacts DEF Absolute
  <2>3. F[0] = ReadStart(at, p) /\ F[1] = ReadNext(F[0], p[1])
    <3>1. 1 \in 1 .. Len(p) /\ 1 - 1 = 0
      BY <2>2
    <3> HIDE DEF p
    <3> QED
      BY <2>2, <3>1, ReadingUnfold
  <2>4. F[0] = [dir |-> <<>>, name |-> <<>>]
    BY <2>2, <2>3 DEF ReadStart
  <2>5. StepTo(<<>>, <<>>) = <<>>
    BY StepToDir, TextFacts
  <2>6. F[1] = [dir |-> <<>>, name |-> <<>>]
    BY <2>2, <2>3, <2>4, <2>5 DEF ReadNext
  <2>7. WalkText(at, p) = <<>>
    BY <2>2, <2>5, <2>6 DEF WalkText
  <2> QED
    BY <2>1, <2>2, <2>7
<1>4. CASE "ROOT" \notin c.flags /\ "CURRENT" \in c.flags
  <2>1. Component(c) = <<".">> /\ WalkRecord(at, c) = at
    BY <1>1, <1>4 DEF Component, WalkRecord
  <2>2. StepTo(at, <<".">>) = at
    BY StepToDir, TextFacts
  <2> QED
    BY <1>2, <2>1, <2>2, WalkName
<1>5. CASE "ROOT" \notin c.flags /\ "CURRENT" \notin c.flags /\ "PARENT" \in c.flags
  <2>1. Component(c) = <<"..">> /\ WalkRecord(at, c) = StepTo(at, <<"..">>)
    BY <1>5 DEF Component, WalkRecord
  <2> QED
    BY <1>2, <2>1, WalkName
<1>6. CASE "ROOT" \notin c.flags /\ "CURRENT" \notin c.flags /\ "PARENT" \notin c.flags
  <2>1. Component(c) = c.text /\ WalkRecord(at, c) = StepTo(at, c.text)
    BY <1>6 DEF Component, WalkRecord
  <2> QED
    BY <1>1, <2>1, WalkName
<1> QED
  BY <1>3, <1>4, <1>5, <1>6

(* The path of an SL entry is joined component by component. *)
LEMMA JoinedUnfold ==
  ASSUME NEW records \in Seq(Components)
  PROVE  /\ Joined(records) \in [0 .. Len(records) -> Text]
         /\ Joined(records)[0] = <<>>
         /\ \A i \in 1 .. Len(records) :
              Joined(records)[i] = Join(Joined(records)[i - 1], Component(records[i]))
<1> DEFINE n == Len(records)
           S == Text
           b == <<>>
           Step(v, i) == Join(v, Component(records[i]))
           G == [i \in 1 .. n |-> [v \in S |-> Step(v, i)]]
           Round(g) == [i \in 0 .. n |-> IF i = 0 THEN b ELSE Step(g[i - 1], i)]
           F == Joined(records)
<1>1. n \in Nat /\ b \in S
  BY TextFacts
<1>2. \A i \in 1 .. n : \A v \in S : Step(v, i) \in S
  <2>1. SUFFICES ASSUME NEW i \in 1 .. n, NEW v \in S
                 PROVE  Step(v, i) \in S
    OBVIOUS
  <2>2. Component(records[i]) \in Text
    BY TextFacts, WalkComponent
  <2> QED
    BY <2>2, JoinText
<1>3. F = CHOOSE g : g = Round(g)
  BY DEF Joined
<1> HIDE DEF n, S, b, Step, F
<1>4. \E g : g = Round(g)
  <2>1. G \in [1 .. n -> [S -> S]]
    BY <1>2
  <2>2. PICK f : IsRecursive(f, n, S, b, G)
    <3> HIDE DEF G
    <3> QED
      BY <1>1, <2>1, Recursion
  <2>3. f \in [0 .. n -> S] /\ f[0] = b /\ \A i \in 1 .. n : f[i] = Step(f[i - 1], i)
    <3>1. f \in [0 .. n -> S] /\ f[0] = b /\ \A i \in 1 .. n : f[i] = G[i][f[i - 1]]
      BY <2>2 DEF IsRecursive
    <3>2. \A i \in 1 .. n : i - 1 \in 0 .. n /\ f[i - 1] \in S
      BY <1>1, <3>1
    <3>3. \A i \in 1 .. n : \A v \in S : G[i][v] = Step(v, i)
      OBVIOUS
    <3> HIDE DEF G
    <3> QED
      BY <3>1, <3>2, <3>3
  <2>4. f = [i \in 0 .. n |-> IF i = 0 THEN b ELSE Step(f[i - 1], i)]
    <3>1. \A i \in 0 .. n : f[i] = IF i = 0 THEN b ELSE Step(f[i - 1], i)
      BY <1>1, <2>3
    <3> QED
      BY <2>3, <3>1
  <2> QED
    BY <2>4
<1>5. F = [i \in 0 .. n |-> IF i = 0 THEN b ELSE Step(F[i - 1], i)]
  <2>1. F = Round(F)
    <3> HIDE DEF Round
    <3> QED
      BY <1>3, <1>4
  <2> QED
    BY <2>1
<1>6. F[0] = b /\ \A i \in 1 .. n : F[i] = Step(F[i - 1], i)
  BY <1>1, <1>5
<1>7. F \in [0 .. n -> S]
  <2> DEFINE T == {i \in 0 .. n : F[i] \in S}
  <2>1. 0 \in T
    BY <1>1, <1>6
  <2>2. \A i \in 1 .. n : i - 1 \in T => i \in T
    BY <1>1, <1>2, <1>6
  <2>3. 0 .. n \subseteq T
    <3> HIDE DEF T
    <3> QED
      BY <1>1, <2>1, <2>2, UpTo
  <2>4. \A i \in 0 .. n : F[i] \in S
    BY <2>3
  <2> QED
    BY <1>5, <2>4
<1> QED
  BY <1>6, <1>7 DEF n, S, b, Step, F

(* Its records lead on one by one. *)
LEMMA WalkRecordsUnfold ==
  ASSUME NEW from \in Dirs, NEW records \in Seq(Components)
  PROVE  /\ WalkRecords(from, records) \in [0 .. Len(records) -> Dirs]
         /\ WalkRecords(from, records)[0] = from
         /\ \A i \in 1 .. Len(records) :
              WalkRecords(from, records)[i] = WalkRecord(WalkRecords(from, records)[i - 1], records[i])
<1> DEFINE n == Len(records)
           S == Dirs
           b == from
           Step(v, i) == WalkRecord(v, records[i])
           G == [i \in 1 .. n |-> [v \in S |-> Step(v, i)]]
           Round(g) == [i \in 0 .. n |-> IF i = 0 THEN b ELSE Step(g[i - 1], i)]
           F == WalkRecords(from, records)
<1>1. n \in Nat /\ b \in S
  OBVIOUS
<1>2. \A i \in 1 .. n : \A v \in S : Step(v, i) \in S
  <2>1. SUFFICES ASSUME NEW i \in 1 .. n, NEW v \in S
                 PROVE  Step(v, i) \in S
    OBVIOUS
  <2>2. Component(records[i]) \in Text /\ Step(v, i) = WalkText(v, Component(records[i]))
    BY WalkComponent
  <2> QED
    BY <2>2, WalkTyped
<1>3. F = CHOOSE g : g = Round(g)
  BY DEF WalkRecords
<1> HIDE DEF n, S, b, Step, F
<1>4. \E g : g = Round(g)
  <2>1. G \in [1 .. n -> [S -> S]]
    BY <1>2
  <2>2. PICK f : IsRecursive(f, n, S, b, G)
    <3> HIDE DEF G
    <3> QED
      BY <1>1, <2>1, Recursion
  <2>3. f \in [0 .. n -> S] /\ f[0] = b /\ \A i \in 1 .. n : f[i] = Step(f[i - 1], i)
    <3>1. f \in [0 .. n -> S] /\ f[0] = b /\ \A i \in 1 .. n : f[i] = G[i][f[i - 1]]
      BY <2>2 DEF IsRecursive
    <3>2. \A i \in 1 .. n : i - 1 \in 0 .. n /\ f[i - 1] \in S
      BY <1>1, <3>1
    <3>3. \A i \in 1 .. n : \A v \in S : G[i][v] = Step(v, i)
      OBVIOUS
    <3> HIDE DEF G
    <3> QED
      BY <3>1, <3>2, <3>3
  <2>4. f = [i \in 0 .. n |-> IF i = 0 THEN b ELSE Step(f[i - 1], i)]
    <3>1. \A i \in 0 .. n : f[i] = IF i = 0 THEN b ELSE Step(f[i - 1], i)
      BY <1>1, <2>3
    <3> QED
      BY <2>3, <3>1
  <2> QED
    BY <2>4
<1>5. F = [i \in 0 .. n |-> IF i = 0 THEN b ELSE Step(F[i - 1], i)]
  <2>1. F = Round(F)
    <3> HIDE DEF Round
    <3> QED
      BY <1>3, <1>4
  <2> QED
    BY <2>1
<1>6. F[0] = b /\ \A i \in 1 .. n : F[i] = Step(F[i - 1], i)
  BY <1>1, <1>5
<1>7. F \in [0 .. n -> S]
  <2> DEFINE T == {i \in 0 .. n : F[i] \in S}
  <2>1. 0 \in T
    BY <1>1, <1>6
  <2>2. \A i \in 1 .. n : i - 1 \in T => i \in T
    BY <1>1, <1>2, <1>6
  <2>3. 0 .. n \subseteq T
    <3> HIDE DEF T
    <3> QED
      BY <1>1, <2>1, <2>2, UpTo
  <2>4. \A i \in 0 .. n : F[i] \in S
    BY <2>3
  <2> QED
    BY <1>5, <2>4
<1> QED
  BY <1>6, <1>7 DEF n, S, b, Step, F

(* They lead to the same place. *)
LEMMA WalkLinkPath ==
  ASSUME NEW from \in Dirs, NEW records \in Seq(Components)
  PROVE  LET n == Len(records)
         IN  /\ Joined(records)[n] \in Text
             /\ WalkRecords(from, records)[n] \in Dirs
             /\ WalkText(from, Joined(records)[n]) = WalkRecords(from, records)[n]
<1> DEFINE n == Len(records)
           J == Joined(records)
           W == WalkRecords(from, records)
           T == {i \in 0 .. n : WalkText(from, J[i]) = W[i]}
<1>1. n \in Nat /\ \A i \in 1 .. n : records[i] \in Components
  BY ElementOfSeq
<1>2. /\ J \in [0 .. n -> Text] /\ J[0] = <<>>
      /\ \A i \in 1 .. n : J[i] = Join(J[i - 1], Component(records[i]))
  BY JoinedUnfold
<1>3. /\ W \in [0 .. n -> Dirs] /\ W[0] = from
      /\ \A i \in 1 .. n : W[i] = WalkRecord(W[i - 1], records[i])
  BY WalkRecordsUnfold
<1> HIDE DEF n, J, W
<1>4. 0 \in T
  BY <1>1, <1>2, <1>3, WalkTyped, TextFacts
<1>5. ASSUME NEW i \in 1 .. n, i - 1 \in T
      PROVE  i \in T
  <2> DEFINE p == J[i - 1]
             c == records[i]
             q == Component(c)
  <2>1. i \in 0 .. n /\ i - 1 \in 0 .. n
    BY <1>1
  <2>2. p \in Text /\ W[i - 1] \in Dirs /\ c \in Components
    BY <1>1, <1>2, <1>3, <2>1
  <2>3. WalkText(from, p) = W[i - 1]
    BY <1>5
  <2>4. J[i] = Join(p, q) /\ W[i] = WalkRecord(W[i - 1], c)
    BY <1>2, <1>3
  <2> HIDE DEF p, c
  <2>5. q \in Text /\ WalkText(W[i - 1], q) = WalkRecord(W[i - 1], c)
    BY <2>2, WalkComponent
  <2> HIDE DEF q
  <2>6. WalkText(from, Join(p, q)) = WalkText(WalkText(from, p), q)
    BY <2>2, <2>5, WalkJoin
  <2>7. WalkText(from, J[i]) = W[i]
    BY <2>3, <2>4, <2>5, <2>6
  <2> QED
    BY <2>1, <2>7
<1>6. 0 .. n \subseteq T
  <2> HIDE DEF T
  <2> QED
    BY <1>1, <1>4, <1>5, UpTo
<1>7. n \in 0 .. n
  BY <1>1
<1>8. J[n] \in Text /\ W[n] \in Dirs /\ WalkText(from, J[n]) = W[n]
  BY <1>2, <1>3, <1>6, <1>7
<1> QED
  BY <1>8 DEF J, W, n

(* The entries of a link. *)
LEMMA LinkEntry ==
  ASSUME Parsed, NEW i \in Links
  PROVE  /\ Links = Entries("SL") /\ i \in 1 .. Len(raw) /\ susp[i] = raw[i]
         /\ raw[i].records \in Seq(Components)
         /\ raw[i].continue \in BOOLEAN
<1>1. Links = Entries("SL") /\ i \in 1 .. Len(raw) /\ raw[i].t = "SL" /\ raw[i].records # <<>>
  BY PlacesOfKind DEF Links
<1>2. raw[i] \in RawEntries /\ susp[i] = ParseSusp(raw[i])
  BY <1>1 DEF Parsed
<1>3. raw[i] \in LinkEntries
  BY <1>1, <1>2, Kinds
<1>4. susp[i] = raw[i]
  BY <1>1, <1>2, ParseKinds
<1> QED
  BY <1>1, <1>3, <1>4 DEF LinkEntries

(* Those that count: up to the first that is not continued. *)
Taken == {i \in Links : \A j \in Links : j < i => raw[j].continue}

(* They are the entries the code takes. *)
LEMMA TakenLinks ==
  ASSUME Parsed
  PROVE  TakeWhileInclusive("SL") = Taken
<1>1. Links = Entries("SL")
  BY PlacesOfKind DEF Links
<1>2. \A j \in Links : susp[j].continue = raw[j].continue
  BY LinkEntry
<1> QED
  BY <1>1, <1>2 DEF TakeWhileInclusive, Taken

(* A default is text, too. *)
LEMMA TextOrNone ==
  ASSUME NEW v \in Text \cup {None}
  PROVE  UnwrapOrDefault(v) \in Text
<1>1. v = None => UnwrapOrDefault(v) = <<>>
  BY DEF UnwrapOrDefault
<1>2. v # None => UnwrapOrDefault(v) = v /\ v \in Text
  BY DEF UnwrapOrDefault
<1> QED
  BY <1>1, <1>2, TextFacts

(* The target is joined entry by entry. *)
LEMMA TargetUnfold ==
  ASSUME Parsed
  PROVE  /\ TargetUpTo(Taken) \in [0 .. Len(susp) -> (Text \cup {None})]
         /\ TargetUpTo(Taken)[0] = None
         /\ \A i \in 1 .. Len(susp) : TargetUpTo(Taken)[i] =
              IF i \notin Taken THEN TargetUpTo(Taken)[i - 1]
              ELSE Join(UnwrapOrDefault(TargetUpTo(Taken)[i - 1]), LinkPath(susp[i]))
<1> DEFINE n == Len(susp)
           S == (Text \cup {None})
           b == None
           Step(v, i) == IF i \notin Taken THEN v
                       ELSE Join(UnwrapOrDefault(v), LinkPath(susp[i]))
           G == [i \in 1 .. n |-> [v \in S |-> Step(v, i)]]
           Round(g) == [i \in 0 .. n |-> IF i = 0 THEN b ELSE Step(g[i - 1], i)]
           F == TargetUpTo(Taken)
<1>1. n \in Nat /\ b \in S
  BY DEF Parsed
<1>2. \A i \in 1 .. n : \A v \in S : Step(v, i) \in S
  <2>1. SUFFICES ASSUME NEW i \in 1 .. n, NEW v \in S, i \in Taken
                 PROVE  Join(UnwrapOrDefault(v), LinkPath(susp[i])) \in Text
    OBVIOUS
  <2>2. i \in Links
    BY <2>1 DEF Taken
  <2>3. susp[i].records \in Seq(Components)
    BY <2>2, LinkEntry
  <2>4. LinkPath(susp[i]) \in Text
    BY <2>3, TextFacts, WalkLinkPath DEF LinkPath
  <2>5. UnwrapOrDefault(v) \in Text
    BY TextOrNone
  <2> QED
    BY <2>4, <2>5, JoinText
<1>3. F = CHOOSE g : g = Round(g)
  BY DEF TargetUpTo
<1> HIDE DEF n, S, b, Step, F
<1>4. \E g : g = Round(g)
  <2>1. G \in [1 .. n -> [S -> S]]
    BY <1>2
  <2>2. PICK f : IsRecursive(f, n, S, b, G)
    <3> HIDE DEF G
    <3> QED
      BY <1>1, <2>1, Recursion
  <2>3. f \in [0 .. n -> S] /\ f[0] = b /\ \A i \in 1 .. n : f[i] = Step(f[i - 1], i)
    <3>1. f \in [0 .. n -> S] /\ f[0] = b /\ \A i \in 1 .. n : f[i] = G[i][f[i - 1]]
      BY <2>2 DEF IsRecursive
    <3>2. \A i \in 1 .. n : i - 1 \in 0 .. n /\ f[i - 1] \in S
      BY <1>1, <3>1
    <3>3. \A i \in 1 .. n : \A v \in S : G[i][v] = Step(v, i)
      OBVIOUS
    <3> HIDE DEF G
    <3> QED
      BY <3>1, <3>2, <3>3
  <2>4. f = [i \in 0 .. n |-> IF i = 0 THEN b ELSE Step(f[i - 1], i)]
    <3>1. \A i \in 0 .. n : f[i] = IF i = 0 THEN b ELSE Step(f[i - 1], i)
      BY <1>1, <2>3
    <3> QED
      BY <2>3, <3>1
  <2> QED
    BY <2>4
<1>5. F = [i \in 0 .. n |-> IF i = 0 THEN b ELSE Step(F[i - 1], i)]
  <2>1. F = Round(F)
    <3> HIDE DEF Round
    <3> QED
      BY <1>3, <1>4
  <2> QED
    BY <2>1
<1>6. F[0] = b /\ \A i \in 1 .. n : F[i] = Step(F[i - 1], i)
  BY <1>1, <1>5
<1>7. F \in [0 .. n -> S]
  <2> DEFINE T == {i \in 0 .. n : F[i] \in S}
  <2>1. 0 \in T
    BY <1>1, <1>6
  <2>2. \A i \in 1 .. n : i - 1 \in T => i \in T
    BY <1>1, <1>2, <1>6
  <2>3. 0 .. n \subseteq T
    <3> HIDE DEF T
    <3> QED
      BY <1>1, <2>1, <2>2, UpTo
  <2>4. \A i \in 0 .. n : F[i] \in S
    BY <2>3
  <2> QED
    BY <1>5, <2>4
<1> QED
  BY <1>6, <1>7 DEF n, S, b, Step, F

(* The entries lead on one by one. *)
LEMMA WalkLinksUnfold ==
  ASSUME Parsed, NEW from \in Dirs
  PROVE  /\ WalkLinks(from) \in [0 .. Len(raw) -> Dirs]
         /\ WalkLinks(from)[0] = from
         /\ \A i \in 1 .. Len(raw) : WalkLinks(from)[i] =
              IF i \in Taken
              THEN WalkRecords(WalkLinks(from)[i - 1], raw[i].records)[Len(raw[i].records)]
              ELSE WalkLinks(from)[i - 1]
<1> DEFINE n == Len(raw)
           S == Dirs
           b == from
           Step(v, i) == IF i \in Taken
                       THEN WalkRecords(v, raw[i].records)[Len(raw[i].records)]
                       ELSE v
           G == [i \in 1 .. n |-> [v \in S |-> Step(v, i)]]
           Round(g) == [i \in 0 .. n |-> IF i = 0 THEN b ELSE Step(g[i - 1], i)]
           F == WalkLinks(from)
<1>1. n \in Nat /\ b \in S
  BY DEF Parsed
<1>2. \A i \in 1 .. n : \A v \in S : Step(v, i) \in S
  <2>1. SUFFICES ASSUME NEW i \in 1 .. n, NEW v \in S, i \in Taken
                 PROVE  WalkRecords(v, raw[i].records)[Len(raw[i].records)] \in Dirs
    OBVIOUS
  <2>2. i \in Links
    BY <2>1 DEF Taken
  <2>3. raw[i].records \in Seq(Components)
    BY <2>2, LinkEntry
  <2> QED
    BY <2>3, WalkLinkPath
<1>3. F = CHOOSE g : g = Round(g)
  BY DEF WalkLinks, Taken
<1> HIDE DEF n, S, b, Step, F
<1>4. \E g : g = Round(g)
  <2>1. G \in [1 .. n -> [S -> S]]
    BY <1>2
  <2>2. PICK f : IsRecursive(f, n, S, b, G)
    <3> HIDE DEF G
    <3> QED
      BY <1>1, <2>1, Recursion
  <2>3. f \in [0 .. n -> S] /\ f[0] = b /\ \A i \in 1 .. n : f[i] = Step(f[i - 1], i)
    <3>1. f \in [0 .. n -> S] /\ f[0] = b /\ \A i \in 1 .. n : f[i] = G[i][f[i - 1]]
      BY <2>2 DEF IsRecursive
    <3>2. \A i \in 1 .. n : i - 1 \in 0 .. n /\ f[i - 1] \in S
      BY <1>1, <3>1
    <3>3. \A i \in 1 .. n : \A v \in S : G[i][v] = Step(v, i)
      OBVIOUS
    <3> HIDE DEF G
    <3> QED
      BY <3>1, <3>2, <3>3
  <2>4. f = [i \in 0 .. n |-> IF i = 0 THEN b ELSE Step(f[i - 1], i)]
    <3>1. \A i \in 0 .. n : f[i] = IF i = 0 THEN b ELSE Step(f[i - 1], i)
      BY <1>1, <2>3
    <3> QED
      BY <2>3, <3>1
  <2> QED
    BY <2>4
<1>5. F = [i \in 0 .. n |-> IF i = 0 THEN b ELSE Step(F[i - 1], i)]
  <2>1. F = Round(F)
    <3> HIDE DEF Round
    <3> QED
      BY <1>3, <1>4
  <2> QED
    BY <2>1
<1>6. F[0] = b /\ \A i \in 1 .. n : F[i] = Step(F[i - 1], i)
  BY <1>1, <1>5
<1>7. F \in [0 .. n -> S]
  <2> DEFINE T == {i \in 0 .. n : F[i] \in S}
  <2>1. 0 \in T
    BY <1>1, <1>6
  <2>2. \A i \in 1 .. n : i - 1 \in T => i \in T
    BY <1>1, <1>2, <1>6
  <2>3. 0 .. n \subseteq T
    <3> HIDE DEF T
    <3> QED
      BY <1>1, <2>1, <2>2, UpTo
  <2>4. \A i \in 0 .. n : F[i] \in S
    BY <2>3
  <2> QED
    BY <1>5, <2>4
<1> QED
  BY <1>6, <1>7 DEF n, S, b, Step, F

(* They lead to the same place. *)
LEMMA TargetWalk ==
  ASSUME Parsed, NEW from \in Dirs
  PROVE  LET target == TargetUpTo(Taken)[Len(susp)]
         IN  /\ WalkText(from, UnwrapOrDefault(target)) = WalkLinks(from)[Len(raw)]
             /\ Links # {} => target # None
<1> DEFINE n == Len(susp)
           A == TargetUpTo(Taken)
           W == WalkLinks(from)
           Same(i) == /\ WalkText(from, UnwrapOrDefault(A[i])) = W[i]
                      /\ (\E j \in Taken : j <= i) => A[i] # None
           T == {i \in 0 .. n : Same(i)}
<1>1. n \in Nat /\ n = Len(raw)
  BY DEF Parsed
<1>2. /\ A \in [0 .. n -> Text \cup {None}] /\ A[0] = None
      /\ \A i \in 1 .. n : A[i] =
           IF i \notin Taken THEN A[i - 1]
           ELSE Join(UnwrapOrDefault(A[i - 1]), LinkPath(susp[i]))
  BY TargetUnfold
<1>3. /\ W \in [0 .. n -> Dirs] /\ W[0] = from
      /\ \A i \in 1 .. n : W[i] =
           IF i \in Taken THEN WalkRecords(W[i - 1], raw[i].records)[Len(raw[i].records)]
           ELSE W[i - 1]
  BY <1>1, WalkLinksUnfold
<1>4. Taken \subseteq Links /\ Links \subseteq 1 .. n
  BY <1>1 DEF Taken, Links
<1> HIDE DEF n, A, W
<1>5. 0 \in T
  <2>1. UnwrapOrDefault(A[0]) = <<>>
    BY <1>2 DEF UnwrapOrDefault
  <2>2. WalkText(from, <<>>) = from
    BY WalkTyped, TextFacts
  <2>3. \A j \in Taken : ~(j <= 0)
    BY <1>4
  <2>4. Same(0)
    BY <1>3, <2>1, <2>2, <2>3
  <2> QED
    BY <1>1, <2>4
<1>6. ASSUME NEW i \in 1 .. n, i - 1 \in T
      PROVE  i \in T
  <2>1. Same(i - 1)
    BY <1>6
  <2>2. i \in 0 .. n /\ i - 1 \in 0 .. n
    BY <1>1
  <2>3. CASE i \notin Taken
    <3>1. A[i] = A[i - 1] /\ W[i] = W[i - 1]
      BY <1>2, <1>3, <2>3
    <3>2. \A j \in Taken : j <= i => j <= i - 1
      BY <1>4, <2>3
    <3>3. Same(i)
      BY <2>1, <3>1, <3>2
    <3> QED
      BY <2>2, <3>3
  <2>4. CASE i \in Taken
    <3> DEFINE p == UnwrapOrDefault(A[i - 1])
               records == raw[i].records
               q == LinkPath(susp[i])
               w == W[i - 1]
    <3>1. records \in Seq(Components) /\ susp[i] = raw[i]
      BY <1>4, <2>4, LinkEntry
    <3>2. p \in Text /\ w \in Dirs /\ WalkText(from, p) = w
      <4>1. A[i - 1] \in Text \cup {None} /\ W[i - 1] \in Dirs
        BY <1>2, <1>3, <2>2
      <4>2. p \in Text
        BY <4>1, TextOrNone
      <4> QED
        BY <2>1, <4>1, <4>2
    <3>3. q = Joined(records)[Len(records)]
      BY <3>1 DEF LinkPath
    <3>4. A[i] = Join(p, q) /\ W[i] = WalkRecords(w, records)[Len(records)]
      BY <1>2, <1>3, <2>4
    <3> HIDE DEF p, records, q, w
    <3>5. q \in Text /\ WalkText(w, q) = WalkRecords(w, records)[Len(records)]
      BY <3>1, <3>2, <3>3, WalkLinkPath
    <3>6. WalkText(from, Join(p, q)) = WalkText(w, q) /\ Join(p, q) \in Text
      BY <3>2, <3>5, WalkJoin, JoinText
    <3>7. A[i] \in Text /\ A[i] # None
      BY <3>4, <3>6, MetaAssumption
    <3>8. UnwrapOrDefault(A[i]) = A[i]
      BY <3>7 DEF UnwrapOrDefault
    <3>9. Same(i)
      BY <3>4, <3>5, <3>6, <3>7, <3>8
    <3> QED
      BY <2>2, <3>9
  <2> QED
    BY <2>3, <2>4
<1>7. 0 .. n \subseteq T
  <2> HIDE DEF T
  <2> QED
    BY <1>1, <1>5, <1>6, UpTo
<1>8. Same(n)
  BY <1>1, <1>7
<1>9. Links # {} => \E j \in Taken : j <= n
  <2>1. SUFFICES ASSUME Links # {}
                 PROVE  \E j \in Taken : j <= n
    OBVIOUS
  <2> DEFINE k == Min(Links)
  <2>2. k \in Links /\ \A j \in Links : k <= j
    <3>1. Links \subseteq 0 .. n
      BY <1>1, <1>4
    <3> QED
      BY <1>1, <2>1, <3>1, MinIndex
  <2> HIDE DEF k
  <2>3. \A j \in Links : ~(j < k)
    BY <1>1, <1>4, <2>2
  <2>4. k \in Taken /\ k <= n
    BY <1>1, <1>4, <2>2, <2>3 DEF Taken
  <2> QED
    BY <2>4
<1> QED
  BY <1>1, <1>8, <1>9 DEF A, W, n

(* The target, in a state that is parsed. *)
LEMMA ParsedTarget == Parsed => TargetLeadsThere
<1> SUFFICES ASSUME Parsed, Links # {}
             PROVE  /\ SymlinkTarget # None
                    /\ WalkText(Cwd, SymlinkTarget) = WalkLinks(Cwd)[Len(raw)]
  BY DEF TargetLeadsThere
<1>1. Cwd \in Dirs
  BY DEF Cwd, Dirs
<1>2. SymlinkTarget = TargetUpTo(Taken)[Len(susp)]
  BY TakenLinks DEF SymlinkTarget
<1>3. /\ WalkText(Cwd, UnwrapOrDefault(SymlinkTarget)) = WalkLinks(Cwd)[Len(raw)]
      /\ SymlinkTarget # None
  BY <1>1, <1>2, TargetWalk
<1> QED
  BY <1>3 DEF UnwrapOrDefault

(* For every record and every area: the target of a symbolic link leads to *)
(* where its component records lead, over however many SL entries they are *)
(* spread (symlink_target in read_entry_at, Path::join).                   *)
THEOREM TargetRight == Spec => []TargetLeadsThere
BY AlwaysParsed, ParsedTarget, PTL

=============================================================================
