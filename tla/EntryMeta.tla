------------------------------ MODULE EntryMeta ------------------------------
(***************************************************************************)
(* What read_entry_at makes of one directory record: the System Use        *)
(* entries parsed from it (system_use_entries), the ExtraMeta folded from  *)
(* them, the entry DirectoryEntry::new builds with its identifier, and the *)
(* attributes the FUSE daemon derives from it.  The state is a record      *)
(* whose System Use area is read entry by entry; everything else is a      *)
(* function of what has been read.                                         *)
(*                                                                         *)
(* Text (a name, a path) is a sequence of tokens: "/", ".", ";" and        *)
(* whatever stands between them.  A recorded time has the day its date     *)
(* names (from any first day), the second of that day, each None if it is  *)
(* no legal one, and the byte that gives its zone.  The day a date names   *)
(* is found with January for a month that there is not, and is None if it  *)
(* is refused even so.  A mode is the set of its bits.                     *)
(***************************************************************************)
EXTENDS Integers, Sequences, FiniteSets, SequencesExt

CONSTANTS
  BLOCK_SIZE,  \* bytes in a block
  U32_SIZE,    \* 2^32: lengths are u32 and their sums wrap
  Headers,     \* the record headers: flags, name, length, time
  RawEntries,  \* the System Use entries an area may hold
  MaxEntries,  \* bound: entries in one area
  Tokens,      \* what text is made of
  Numbers,     \* the tokens u16::from_str accepts
  None         \* Option::None

DAY == 86400         \* seconds

Text == Seq(Tokens)
RecordedTimes ==
  [day : Int \cup {None}, sec : (0 .. DAY - 1) \cup {None}, gmt : 0 .. 255]
Instants == Int \X Int

Fields == <<"creation", "modify", "access", "attributes", "backup",
            "expiration", "effective">>

(* The entries of an area, as they are recorded.  The text of a component  *)
(* of a link is one name, in UTF-8 (one that is not would cut the records  *)
(* after it); its CONTINUE flag is not covered.                            *)
Components ==
  {c \in [flags : SUBSET {"ROOT", "CURRENT", "PARENT"}, text : Seq(Tokens \ {"/"})] :
     ~({"CURRENT", "PARENT"} \subseteq c.flags)}
NameEntries == [t : {"NM"}, name : Text, continue : BOOLEAN, utf8 : BOOLEAN]
LinkEntries == [t : {"SL"}, records : Seq(Components), continue : BOOLEAN]
TimeEntries ==
  [t : {"TF"}, flags : SUBSET Range(Fields), times : Seq(RecordedTimes), long : BOOLEAN]
ModeEntries == [t : {"PX"}, mode : SUBSET Nat, uid : Nat, gid : Nat]
OtherEntries == [t : {"ER"}, ids : Seq(Tokens)] \cup [t : {"RE", "CL"}]

(* A file with that name, extension and version has that identifier: the   *)
(* dot may be left out with an empty extension, the version if it is 1.    *)
Plain == Tokens \ {".", ";"}
Identifies(name, h) ==
  \E id \in {h.base \o <<".">> \o h.extension} \cup
            (IF h.extension = <<>> THEN {h.base} ELSE {}) :
  \E version \in {<<";", h.version>>} \cup (IF h.version = "1" THEN {<<>>} ELSE {}) :
    name = id \o version

ASSUME MetaAssumption ==
  /\ BLOCK_SIZE \in Nat \ {0} /\ U32_SIZE \in Nat \ {0}
  /\ MaxEntries \in Nat
  /\ {"/", ".", "..", ";"} \subseteq Tokens /\ Numbers \subseteq Plain
  /\ RawEntries \subseteq
       NameEntries \cup LinkEntries \cup TimeEntries \cup ModeEntries \cup OtherEntries
  /\ None \notin Text \cup Instants \cup ModeEntries \cup OtherEntries

ASSUME HeaderAssumption ==
  \A h \in Headers :
    /\ h.len \in 0 .. U32_SIZE - 1 /\ h.time \in RecordedTimes
    /\ h.dir \in BOOLEAN /\ h.name \in Text
    /\ ~h.dir => /\ h.base \in Seq(Plain) /\ h.extension \in Seq(Plain)
                 /\ h.version \in Numbers /\ Identifies(h.name, h)

VARIABLES
  header,      \* the DirectoryEntryHeader, and the identifier behind it
  raw,         \* the entries of the area that have been read
  susp         \* what they were parsed to

vars == <<header, raw, susp>>

-----------------------------------------------------------------------------
(* date_time *)

YearZero == -693961  \* the day a date that is illegal is taken for

(* A day and second, so many seconds later. *)
Later(at, seconds) ==
  <<at[1] + ((at[2] + seconds) \div DAY), (at[2] + seconds) % DAY>>

(* The zone is so many quarters of an hour east, an unsigned byte; more    *)
(* than UtcOffset can hold is UTC.                                         *)
UtcOffset(gmt) == IF gmt * 900 < 26 * 3600 THEN gmt * 900 ELSE 0

(* An OffsetDateTime, as the instant it is: UTC.  A date or a time of day  *)
(* that is refused is replaced on its own.                                 *)
UnzonedDateTime(t) ==
  <<IF t.day = None THEN YearZero ELSE t.day, IF t.sec = None THEN 0 ELSE t.sec>>
DateTime(t) == Later(UnzonedDateTime(t), -UtcOffset(t.gmt))

-----------------------------------------------------------------------------
(* system_use_entries *)

(* many1(date_time): seven bytes each.  LONG_FORM is not looked at: the    *)
(* seventeen bytes of a long time are taken for two short ones and a part  *)
(* of a third.                                                             *)
Garbled == [day |-> None, sec |-> None, gmt |-> 0]
DateTimes(e) ==
  LET short == IF e.long THEN [i \in 1 .. (17 * Len(e.times)) \div 7 |-> Garbled]
               ELSE e.times
  IN  [i \in 1 .. Len(short) |-> DateTime(short[i])]

(* Each flag takes the next time, in the order of Fields. *)
Order(f) == CHOOSE i \in 1 .. Len(Fields) : Fields[i] = f
Nth(f, flags) == Cardinality({i \in 1 .. Order(f) : Fields[i] \in flags})
PosixTimestamp(flags, times) ==
  [f \in Range(Fields) |->
     IF f \in flags /\ Nth(f, flags) <= Len(times) THEN times[Nth(f, flags)] ELSE None]

(* susp_extension; any other identifier is unimplemented!(). *)
SuspExtension(id) ==
  CASE id = "RRIP_1991A" -> "RockRidge1_09"
    [] id \in {"IEEE_P1282", "IEEE_1282"} -> "RockRidge1_12"

(* Of a mode the bits that have a name are kept. *)
PosixAttributes(e) ==
  [t |-> "PX", mode |-> e.mode \cap (0 .. 15), uid |-> e.uid, gid |-> e.gid]

(* An entry whose data does not parse is still an Unknown one: a TF        *)
(* without times, an SL without component records, a name that is not      *)
(* UTF-8, an ER without extensions.                                        *)
Unknown == [t |-> "unknown"]
ParseSusp(e) ==
  CASE e.t = "TF" /\ e.times # <<>> ->
         [t |-> "TF", time |-> PosixTimestamp(e.flags, DateTimes(e))]
    [] e.t = "TF" /\ e.times = <<>> -> Unknown
    [] e.t = "SL" /\ e.records = <<>> -> Unknown
    [] e.t = "NM" /\ ~e.utf8 -> Unknown
    [] e.t = "PX" -> PosixAttributes(e)
    [] e.t = "ER" /\ e.ids = <<>> -> Unknown
    [] e.t = "ER" /\ e.ids # <<>> ->
         [t |-> "ER", extensions |-> {SuspExtension(id) : id \in Range(e.ids)}]
    [] OTHER -> e

Init == header \in Headers /\ raw = <<>> /\ susp = <<>>

SystemUseEntry(e) ==
  /\ Len(raw) < MaxEntries
  /\ raw' = Append(raw, e)
  /\ susp' = Append(susp, ParseSusp(e))
  /\ UNCHANGED header

Next == \E e \in RawEntries : SystemUseEntry(e)

Spec == Init /\ [][Next]_vars

-----------------------------------------------------------------------------
(* ExtraMeta *)

(* The entries of a type, by their places; the first one. *)
Entries(t) == {i \in 1 .. Len(susp) : susp[i].t = t}
First(t) == IF Entries(t) = {} THEN None ELSE susp[Min(Entries(t))]

(* take_while_inclusive: up to the first entry that is not continued. *)
TakeWhile(t) == {i \in Entries(t) : \A j \in Entries(t) : j <= i => susp[j].continue}
TakeWhileInclusive(t) ==
  {i \in Entries(t) : \A j \in Entries(t) : j < i => susp[j].continue}

UnwrapOrDefault(text) == IF text = None THEN <<>> ELSE text

AltNameUpTo[i \in 0 .. Len(susp)] ==
  IF i = 0 THEN None
  ELSE IF i \notin TakeWhileInclusive("NM") THEN AltNameUpTo[i - 1]
  ELSE UnwrapOrDefault(AltNameUpTo[i - 1]) \o susp[i].name
AltName == AltNameUpTo[Len(susp)]

(* PathBuf::join: an absolute path replaces what it is joined to. *)
Absolute(path) == path # <<>> /\ Head(path) = "/"
Join(path, part) ==
  IF Absolute(part) THEN part
  ELSE IF path = <<>> \/ path[Len(path)] = "/" THEN path \o part
  ELSE path \o <<"/">> \o part

(* The path of a component.  Its CONTINUE flag is not looked at. *)
Component(c) ==
  IF "ROOT" \in c.flags THEN <<"/">>
  ELSE IF "CURRENT" \in c.flags THEN <<".">>
  ELSE IF "PARENT" \in c.flags THEN <<"..">>
  ELSE c.text

(* The path of an SL entry: its components, joined. *)
Joined(records) ==
  LET path[i \in 0 .. Len(records)] ==
        IF i = 0 THEN <<>> ELSE Join(path[i - 1], Component(records[i]))
  IN  path
LinkPath(sl) == Joined(sl.records)[Len(sl.records)]

(* The target is joined from the paths of the entries that are taken. *)
TargetUpTo(taken) ==
  LET target[i \in 0 .. Len(susp)] ==
        IF i = 0 THEN None
        ELSE IF i \notin taken THEN target[i - 1]
        ELSE Join(UnwrapOrDefault(target[i - 1]), LinkPath(susp[i]))
  IN  target
SymlinkTargetShort == TargetUpTo(TakeWhile("SL"))[Len(susp)]
SymlinkTarget == TargetUpTo(TakeWhileInclusive("SL"))[Len(susp)]

(* The times of all TF entries; a later one overrides.  Those after        *)
(* "attributes" are not carried over.                                      *)
Kept == {"creation", "modify", "access", "attributes"}
NoTimes == [f \in Range(Fields) |-> None]
MergeFirst(acc, new) ==
  [f \in Range(Fields) |-> IF f \in Kept /\ acc[f] = None THEN new[f] ELSE acc[f]]
MergeTimes(acc, new) ==
  [f \in Range(Fields) |-> IF f \in Kept /\ new[f] # None THEN new[f] ELSE acc[f]]
TimestampsUpTo[i \in 0 .. Len(susp)] ==
  IF i = 0 THEN NoTimes
  ELSE IF i \notin Entries("TF") THEN TimestampsUpTo[i - 1]
  ELSE MergeTimes(TimestampsUpTo[i - 1], susp[i].time)
Timestamps == TimestampsUpTo[Len(susp)]

Attributes == First("PX")
Extensions == IF First("ER") = None THEN {} ELSE First("ER").extensions
IsRockRidge == Extensions \cap {"RockRidge1_09", "RockRidge1_12"} # {}
Relocated == Entries("RE") # {}
ChildLink == First("CL")

(* access_time, create_time, ..., backup_time: the time of the record when *)
(* there is none of that kind.                                             *)
Time(f) == IF Timestamps[f] = None THEN DateTime(header.time) ELSE Timestamps[f]

(* PosixFileMode: the bits of the file types, in the order they are tried, *)
(* and the letter Display writes for each.  It writes "?" for any other    *)
(* type if it is built without the feature "assertions", and is            *)
(* unimplemented!() with it.                                               *)
S_IFLNK == {15, 13}
TypesByLetter == << [bits |-> {14}, letter |-> "d"], [bits |-> {14, 13}, letter |-> "b"],
                    [bits |-> {13}, letter |-> "c"], [bits |-> {12}, letter |-> "p"],
                    [bits |-> S_IFLNK, letter |-> "l"],
                    [bits |-> {15, 14}, letter |-> "s"], [bits |-> {15}, letter |-> "-"] >>
Types == << [bits |-> {15, 14}, letter |-> "s"], [bits |-> S_IFLNK, letter |-> "l"],
            [bits |-> {15}, letter |-> "-"], [bits |-> {14, 13}, letter |-> "b"],
            [bits |-> {14}, letter |-> "d"], [bits |-> {13}, letter |-> "c"],
            [bits |-> {12}, letter |-> "p"] >>
TypeLetter(mode) ==
  LET fits == {i \in 1 .. Len(Types) : Types[i].bits \subseteq mode}
  IN  IF fits = {} THEN "?" ELSE Types[Min(fits)].letter

(* The three letters of a class of users: its lowest bit and the bit that  *)
(* sets the id (none for the world: the sticky bit is not shown).          *)
Letters(mode, low, set) ==
  <<IF low + 2 \in mode THEN "r" ELSE "-",
    IF low + 1 \in mode THEN "w" ELSE "-",
    IF low \in mode THEN (IF set \in mode THEN "S" ELSE "x")
    ELSE IF set \in mode THEN "s" ELSE "-">>
Display(mode) ==
  <<TypeLetter(mode)>> \o Letters(mode, 6, 11) \o Letters(mode, 3, 10) \o
    Letters(mode, 0, -1)

(* u16::from(mode); the sticky bit is not among the permissions. *)
ALL_PERMISSIONS == (0 .. 8) \cup {10, 11}
Permissions(mode) == mode \cap ALL_PERMISSIONS

-----------------------------------------------------------------------------
(* DirectoryEntry::new *)

IsSymlink == Attributes # None /\ S_IFLNK \subseteq Attributes.mode
EntryType == IF header.dir THEN "dir" ELSE IF IsSymlink THEN "symlink" ELSE "file"

Named == IF AltName = None THEN header.name ELSE AltName

Built(res, type, id, version) ==
  [res |-> res, type |-> type, identifier |-> id, version |-> version]

DirectoryNew ==
  Built("ok", "dir",
        CASE Named = <<"\\0">> -> <<".">> [] Named = <<"\\1">> -> <<"..">>
          [] OTHER -> Named,
        None)

(* Files and symbolic links: the version after the last ";", and no "." at *)
(* the end of what is left.                                                *)
KeepDot(id) == id
WithoutDot(id) ==
  IF id # <<>> /\ id[Len(id)] = "." THEN SubSeq(id, 1, Len(id) - 1) ELSE id
FileNew ==
  LET semis == {i \in 1 .. Len(Named) : Named[i] = ";"}
      idx == Max(semis)
      version == SubSeq(Named, idx + 1, Len(Named))
  IN  IF semis = {} THEN Built("ok", EntryType, WithoutDot(Named), "1")
      ELSE IF Len(version) = 1 /\ version[1] \in Numbers
      THEN Built("ok", EntryType, WithoutDot(SubSeq(Named, 1, idx - 1)), version[1])
      ELSE Built("err", EntryType, <<>>, None)

(* A child link turns a file entry into a directory; on any other entry it *)
(* is unimplemented!().                                                    *)
EntryNew == IF header.dir THEN DirectoryNew ELSE FileNew
Entry ==
  IF ChildLink = None \/ EntryNew.res = "err" THEN EntryNew
  ELSE Built(IF EntryNew.type = "file" THEN "ok" ELSE "panic", "dir",
             EntryNew.identifier, EntryNew.version)

(* get_fileattr; the sum is a u32.  Permission bits: 0555 and 0444 when    *)
(* there are no attributes.                                                *)
ExtentLength == IF ChildLink = None THEN header.len ELSE BLOCK_SIZE
FileAttr ==
  [size |-> ExtentLength,
   blocks |-> ((ExtentLength + BLOCK_SIZE - 1) % U32_SIZE) \div BLOCK_SIZE,
   atime |-> Time("access"), mtime |-> Time("modify"),
   ctime |-> Time("attributes"), crtime |-> Time("creation"),
   uid |-> IF Attributes = None THEN "geteuid" ELSE Attributes.uid,
   gid |-> IF Attributes = None THEN "getegid" ELSE Attributes.gid,
   perm |-> IF Attributes # None THEN Permissions(Attributes.mode)
            ELSE IF Entry.type = "dir" THEN {8, 6, 5, 3, 2, 0} ELSE {8, 5, 2}]

-----------------------------------------------------------------------------
(* Properties *)

(* Where a path leads from a directory, which is the sequence of the names *)
(* that lead to it from the root: the directory the first tokens lead to,  *)
(* and the name that has been read since the last "/".                     *)
StepTo(at, name) ==
  IF name \in {<<>>, <<".">>} THEN at
  ELSE IF name # <<"..">> THEN Append(at, name)
  ELSE IF at = <<>> THEN at ELSE SubSeq(at, 1, Len(at) - 1)

Reading(from, path) ==
  LET at[i \in 0 .. Len(path)] ==
        IF i = 0 THEN [dir |-> IF Absolute(path) THEN <<>> ELSE from, name |-> <<>>]
        ELSE IF path[i] # "/"
        THEN [dir |-> at[i - 1].dir, name |-> Append(at[i - 1].name, path[i])]
        ELSE [dir |-> StepTo(at[i - 1].dir, at[i - 1].name), name |-> <<>>]
  IN  at
WalkText(from, path) ==
  LET end == Reading(from, path)[Len(path)] IN StepTo(end.dir, end.name)

(* The same for the component records of an SL entry, and for those of the *)
(* entries up to the first that is not continued.                          *)
WalkRecord(at, c) ==
  IF "ROOT" \in c.flags THEN <<>>
  ELSE IF "PARENT" \in c.flags THEN StepTo(at, <<"..">>)
  ELSE IF "CURRENT" \in c.flags THEN at ELSE StepTo(at, c.text)
WalkRecords(from, records) ==
  LET at[i \in 0 .. Len(records)] ==
        IF i = 0 THEN from ELSE WalkRecord(at[i - 1], records[i])
  IN  at
Links == {i \in 1 .. Len(raw) : raw[i].t = "SL" /\ raw[i].records # <<>>}
WalkLinks(from) ==
  LET at[i \in 0 .. Len(raw)] ==
        IF i = 0 THEN from
        ELSE IF i \in Links /\ \A j \in Links : j < i => raw[j].continue
        THEN WalkRecords(at[i - 1], raw[i].records)[Len(raw[i].records)]
        ELSE at[i - 1]
  IN  at

(* The target of a symbolic link leads to where its component records      *)
(* lead, over however many SL entries they are spread (symlink_target).    *)
(* From a directory two levels down: two steps up can be told apart.       *)
(* Components flagged CONTINUE are left out: the code does not join them.  *)
Cwd == << <<"c1">>, <<"c2">> >>
TargetLeadsThere ==
  Links # {} => /\ SymlinkTarget # None
                /\ WalkText(Cwd, SymlinkTarget) = WalkLinks(Cwd)[Len(raw)]

(* The alternate name that is recorded: the pieces up to the first that is *)
(* not continued, or None.                                                 *)
RecordedUpTo[i \in 0 .. Len(raw)] ==
  IF i = 0 THEN [name |-> None, ended |-> FALSE]
  ELSE IF raw[i].t # "NM" \/ RecordedUpTo[i - 1].ended THEN RecordedUpTo[i - 1]
  ELSE [name |-> IF RecordedUpTo[i - 1].name = None THEN raw[i].name
                 ELSE RecordedUpTo[i - 1].name \o raw[i].name,
        ended |-> ~raw[i].continue]
RecordedName == RecordedUpTo[Len(raw)].name
PlainName(name) ==
  name # None => /\ \A i \in 1 .. Len(name) : name[i] # ";"
                 /\ name # <<>> => name[Len(name)] # "."

(* The name of a file is the one it was recorded under: its alternate name *)
(* if it has one, in as many pieces as it comes, else the name and         *)
(* extension of its identifier without the version and without the dot of  *)
(* an empty extension (read_entry_at, ISOFile::new, Symlink::new).  An     *)
(* alternate name that has a ";" or ends in a dot is cut by the same       *)
(* rules, a piece that is not UTF-8 is dropped: not covered.               *)
NameIsRight ==
  LET all_utf8 == \A k \in 1 .. Len(raw) : raw[k].t = "NM" => raw[k].utf8
  IN  ~header.dir /\ PlainName(RecordedName) /\ all_utf8 =>
        /\ Entry.res # "err"
        /\ Entry.identifier =
             IF RecordedName # None THEN RecordedName
             ELSE header.base \o (IF header.extension = <<>> THEN <<>>
                                  ELSE <<".">> \o header.extension)
        /\ RecordedName = None => Entry.version = header.version

(* The times recorded for the fields before a field; the last TF entry     *)
(* that has a time for it (one in the long form: its flag), and that time. *)
Before(f, flags) == {i \in 1 .. Order(f) - 1 : Fields[i] \in flags}
Having(f) ==
  {k \in 1 .. Len(raw) :
     /\ raw[k].t = "TF" /\ f \in raw[k].flags
     /\ raw[k].long \/ Cardinality(Before(f, raw[k].flags)) < Len(raw[k].times)}
LastHaving(f) == raw[Max(Having(f))]
Recorded(f) ==
  IF Having(f) = {} THEN header.time
  ELSE LastHaving(f).times[Cardinality(Before(f, LastHaving(f).flags)) + 1]

(* An instant is the recorded time: in its zone it shows the recorded day  *)
(* and second.  Zones west of Greenwich are not covered: their byte is     *)
(* negative, and read as unsigned.  None is as far as 26 hours east.       *)
East(t) == t.gmt < 26 * 4
IsTime(at, t) ==
  East(t) /\ t.day # None /\ t.sec # None => Later(at, t.gmt * 900) = <<t.day, t.sec>>

(* The times the daemon reports are the instants the last TF entry that    *)
(* has one gives, or the record's own if none does; an entry in the        *)
(* seventeen-byte form, whose times are misread, spoils no others          *)
(* (date_time, PosixTimestamp::parse_data, the fold of the TF entries, the *)
(* accessors of ExtraAttributes and get_fileattr).                         *)
TimesAreRight ==
  LET reported == [access |-> FileAttr.atime, modify |-> FileAttr.mtime,
                   attributes |-> FileAttr.ctime, creation |-> FileAttr.crtime]
  IN  \A f \in Kept :
        Having(f) = {} \/ ~LastHaving(f).long => IsTime(reported[f], Recorded(f))

(* backup_time, expire_time and effective_time return the time of that     *)
(* kind "if available", like the accessors the daemon uses.                *)
OtherTimesAreRight ==
  \A f \in {"backup", "expiration", "effective"} :
    Having(f) = {} \/ ~LastHaving(f).long => IsTime(Time(f), Recorded(f))

(* The i-th letter after that of the type is the one ls writes: the letter *)
(* of the permission or "-", and an "s" where the id is set.  Its case is  *)
(* left open (the code has it the other way round), and so is the last     *)
(* letter of a mode with the sticky bit (a "t" there is never written).    *)
SetsId(i, mode) == (i = 3 /\ 11 \in mode) \/ (i = 6 /\ 10 \in mode)
LetterIsRight(letter, i, mode) ==
  \/ SetsId(i, mode) /\ letter \in {"s", "S"}
  \/ i = 9 /\ 9 \in mode
  \/ /\ ~SetsId(i, mode)
     /\ letter = IF 9 - i \in mode
                 THEN <<"r", "w", "x", "r", "w", "x", "r", "w", "x">>[i] ELSE "-"

(* For each file type POSIX knows, by the value of the four bits that hold *)
(* it, an entry is a link exactly if that is its type, and the mode is     *)
(* written as ls writes it, with the two exceptions of LetterIsRight; the  *)
(* permissions the kernel checks are those that are recorded               *)
(* (PosixFileMode, whose types share bits, DirectoryEntry::new and         *)
(* get_fileattr).                                                          *)
S_IFMT == 12 .. 15
FileTypes == {
  <<"s", {15, 14}>>, <<"l", {15, 13}>>, <<"-", {15}>>, <<"b", {14, 13}>>,
  <<"d", {14}>>, <<"c", {13}>>, <<"p", {12}>>}
Modes == {i \in 1 .. Len(raw) : raw[i].t = "PX"}
ModeIsRight ==
  LET mode == raw[Min(Modes)].mode
      text == Display(Attributes.mode)
  IN  Modes # {} =>
        \A type \in FileTypes :
          mode \cap S_IFMT = type[2] =>
            /\ text[1] = type[1]
            /\ IsSymlink = (type[1] = "l")
            /\ \A i \in 1 .. 9 : LetterIsRight(text[i + 1], i, mode)
            /\ FileAttr.perm \cap (0 .. 8) = mode \cap (0 .. 8)

=============================================================================
