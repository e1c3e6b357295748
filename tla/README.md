# Verification of cdfs and cdfs-fuse

TLA+ models of the ISO 9660 library `cdfs` (`src/cdfs`) and of the FUSE daemon
built on it (`src/cdfs-fuse`), model-checked with TLC on small instances. The
invariants and refinements those runs check are also proved with TLAPS, for all
instances. `PROJECT.json` maps
every definition to the source lines it models and lists components, runs,
mutants, hazards, findings and theorems.

## The system

| Component | State | Operations | Source |
|---|---|---|---|
| Image access | one reader `T` with one file position, shared through `Rc<RefCell<T>>` | `read_at`: seek, then one `read` | `fileref.rs`, `lib.rs` |
| File reader | per reader: cached block, its LBA, position | `ISOFile::read`, `Read::read`, `Seek::seek` | `isofile.rs` |
| Directory walk | per walk: cached block, its number, offset of the next record | `read_entry_at`, `contents`, `next`, `find`, `find_recursive` | `isodirectory.rs`, `parse/directory_entry.rs` |
| Entry metadata | what is parsed from one record and its System Use entries | `system_use_entries`, `ExtraMeta`, constructors of entries, `get_fileattr` | `susp.rs`, `extra_meta.rs`, `isodirectory.rs`, `isofile.rs`, `symlink.rs` |
| Volume | primary root, supplementary root | `ISO9660::new`, `root`, `root_at`, `is_rr`, `open`; the decisions of `ISOFuse::new` | `lib.rs`, `volume_descriptor.rs` |
| FUSE daemon | table of inodes, tables of open files and directories, three counters | `lookup`, `forget`, `getattr`, `getxattr`, `readlink`, `open`, `read`, `release`, `opendir`, `readdir`, `releasedir` | `cdfs_fuse.rs` |
| Conversions | none | numbers, dates, text, mode display | `parse/*` |

**Interaction.** Every file, directory, reader and iterator of an `ISO9660`
holds the same `FileRef`. There is no locking and no concurrency inside the
library: `Rc` keeps all of it on one thread, so a call runs to its end before
the next starts. What interleaves is *calls*: reads of several readers, steps of
several walks and lookups, all moving one file position. `find` drives a walk of
its own; `find_recursive` and `open` drive a `find` per path segment; a mount
probes both hierarchies and chooses one and a way to number its inodes; the
daemon then drives `find`, `read_entry_at` and readers, one request at a time, while the kernel on the other
side keeps references to inode numbers and handles and lets FORGETs travel
independently of lookups.

**What is hard.**

* A read may fail or fall short at any point of a call made of several reads.
  Caches, offsets and positions must then be what the next call expects.
* Block arithmetic: records that end exactly at a block end, the last 33 bytes,
  the end of a file inside a block, positions near the limits of `i64`, sums in
  `u32`.
* A record's System Use entries are spread over a chain of continuation areas,
  and names, links and timestamps over several entries, whose order matters.
* File types share bits in a POSIX mode, and a date carries a signed offset in
  quarters of an hour: both are easily read wrong for some values only.
* The kernel's view of inodes and handles against the daemon's tables: late
  FORGETs, counters at their limit, listings resumed at an offset.

**What makes each part correct.** A reader is a byte stream over its file, and a
failed call moves nothing. A walk yields every record once, whatever fails in
between, and `find` says "there is none" only when there is none. An entry has
the name, link target, times and mode its record and System Use entries give. A
volume is accepted exactly when its descriptors allow it; an error is never taken
for a missing entry; a mount numbers inodes by serial numbers only if the
hierarchy it shows has them. A node or handle the kernel holds always means what it meant when
it was handed out; a listing is exact however it is cut.

## Modules

| Module | Models | Notes |
|---|---|---|
| `IsoDevice` | the shared image | `ReadAtOk`, `ReadAtErr`; extended by the three modules that read it |
| `ByteStream` | abstract: what a reader promises | position, data and refusal of each call |
| `FileReader` | `ISOFileReader` | the `read` loop is one step per block |
| `DirectoryStream` | abstract: what walks and finds promise | records yielded, answers of `find` |
| `IsoDirectory` | `read_entry_at`, iterator, `find`, `find_recursive` | one step per block load, parse, continuation area, yield |
| `EntryMeta` | one record: metadata, name, type, mode, times, attributes | a function of the System Use entries read so far; a time is a day and a second, a mode a set of bits |
| `Volume` | `ISO9660` | descriptor parsing and scan, choice of hierarchy, path lookup, mount |
| `IsoFuse` | the daemon, and the kernel it serves (external) | `readdir` is one step per record; the kernel keeps, with each node it holds, the entry of the first lookup |
| `MC*` | the instances TLC checks | |
| `FileReaderProofs`, `IsoDirectoryProofs`, `DirectoryStreamProofs`, `EntryMetaProofs`, `VolumeProofs`, `IsoFuseProofs` | | theorems about the modules they are named for; `DirectoryStreamProofs` continues `IsoDirectoryProofs` |
| `IsoDeviceProofs`, `NatLemmas` | | lemmas they share: reads and blocks; least and greatest elements, induction, recursion |

**State and actions.** Variables keep the names of the struct fields they stand
for (`buf`, `buf_lba`, `seek`; `block`, `block_num`, `next_offset`; `inodes`,
`inode_number`, `open_files`, ...). A call that reads the image several times has
a program counter `pc` and its locals in `call` (`rd` for `readdir`); a call
starts only when `pc = "idle"`. `reply` is the last result, cleared when the next
call begins; the walk of a `find` is dropped when the `find` returns. `listed` (a
walk's yielded offsets) is a history variable. Errors are told apart from results, not
from each other, except in the daemon where the errno is kept.

**Faults.** `read_at` either returns all that is there (less than a block at the
end of the image), or, while `faults < MaxFaults`, fewer bytes (`"short"`) or an
error (`"error"`). An error leaves the buffer alone, as `std::io::Read` asks, and
the position before or after the seek. The bytes a read delivers are those the
shared position has just passed (`ReadInto`), not those at the block the caller
named: without the seek (`ReadAtOkUnsought`) it delivers what some other call has
left the position at, and `ReadsTheFile`, `BlockCoherent`, `ListedExactly`,
`ScanIsRight` and both `StreamSpec`s are violated.

**Data.** A byte of the image is a cell. `FileReader` gives every byte its own
value. In `IsoDirectory` a cell begins a record or is a System Use entry, which
`Records` and `SuspEntries` describe; the bytes inside are one filler value, and
a System Use entry of a continuation area takes one cell. In `Volume` a cell
begins a descriptor, whose fields `Descriptors` gives. Text is a sequence of tokens.

**Widths.** `seek` sums wrap at `I64_MAX`, block counts at `U32_SIZE`, the
daemon's counters at `U64_MAX`, as in a release build (a debug build panics where
these wrap).

**Composition.** `FileReader`, `IsoDirectory` and `Volume` extend `IsoDevice`.
Two abstract specifications separate the layers. `FileReader` implements
`ByteStream` and `IsoDirectory` implements `DirectoryStream` (both checked as
`StreamSpec` and proved): a walk yields each record of its
directory once and in order, a `find` answers with the record the name or path
leads to or with none when there is none, and any call may fail without an
effect. The layers above use only that: `Volume` takes the result of `find` as a lookup in a table, `IsoFuse` a
directory as the sequence of its entries and a reader as its file. The two ways of
numbering inodes between which `IsoFuse` starts (`inode_autogenerated`) are those
that a mount in `Volume` decides between (`InodeAutogenerated`).

## Runs

Each property of a passing run has a mutant in `PROJECT.json`, a plausible bug
in one mapped definition under which TLC finds the property violated.

| Run | Instance | Shows |
|---|---|---|
| `file_reader` | two files (4 and 2 bytes) in blocks of 3, reads up to 4 bytes, `I64_MAX` 7, one failing read | `ReadsTheFile`: every byte returned is the file's byte. `StreamSpec`: the readers implement `ByteStream`, position and refused seeks included. `ReadsReturn`: the loop ends |
| `file_reader_short` | the same with a short read | violated: stale cache bytes returned as file data |
| `directory_walk` | three directories in blocks of 6, an iterator, `find` and `find_recursive`, one failed or short read | `BlockCoherent`: a block taken for cached is that block. `ListedExactly`: each walk has yielded exactly the records before its offset, all of them at the end. `StreamSpec`: `DirectoryStream` is implemented |
| `directory_find` | four names and five paths from every reachable directory, two failed reads | `FindIsRight`: the answer is where the name or path leads. `SuspComplete`: the entries of the whole chain of continuation areas, in order. `CallsReturn` |
| `continuation_offset` | a continuation area that starts inside its block | `SuspComplete` violated |
| `fuse_nodes` | generated and serial inode numbers, a hard link, an associated file, `U64_MAX` 6, two open files, late FORGETs, one I/O error | `NodesStable`: a node the kernel holds stays the object that was first looked up, and with generated numbers stays in the table. `HandlesStable`. Both up to the exhaustion of the counters |
| `fuse_listing` | both ways of numbering, one open directory, `U64_MAX` 7, replies cut anywhere, one I/O error | `ListingExact`, `NodesStable`, `HandlesStable`, `ReadDirReturns` |
| `fuse_serial_forget` | serial numbers, with a FORGET served late | `NodesKept` violated |
| `volume` | thirteen volumes, well formed and not, six paths, two failed or short reads | `ScanIsRight`, `OpenIsRightInRoot`, `MountIsRight`, `CallsReturn` |
| `volume_open` | the same | `OpenIsRight` violated: an I/O error changes the hierarchy |
| `entry_meta` | six records, all areas of up to three of 26 entries | `TargetLeadsThere`: a link's target leads to where its component records lead. `NameIsRight`: a file has the name it was recorded under. `TimesAreRight`: the times reported are the instants recorded. `ModeIsRight`: type, mode text and permissions are those recorded |
| `entry_times` | the same, areas of one entry | `OtherTimesAreRight` violated |

**Why the bounds are enough.** The file instance has a file of one whole and one
partial block and a read longer than a block, so every combination of start, end
and cache hit of the loop occurs; `I64_MAX` 7 lets all sums wrap. The directory
instance has a block filled to its last byte, a block ending one byte short of a
record, a block ending in zeros, records that do not parse or whose name is
refused, an associated file, a child link, and a chain of three areas with a CE
entry in the middle of one; the paths go through a directory, through a child
link, below a file and nowhere, with empty segments. One fault can strike each of
the reads, and walks go on afterwards. In the daemon runs every counter reaches
its limit, a node is looked up again while its FORGET is on the way, two names
have one serial number, and two handles are open while one is released. The
volume instance has each kind of descriptor in each order that the scan treats
differently, and each reason for which a descriptor does not parse. Entries
interact pairwise (the first that is not continued, the last that overrides), so
three entries in an area cover an interaction and a bystander; the modes include
the types whose bits contain another type's, ids that are set and a sticky bit, the times both signs of the offset,
midnight, fields that do not parse, and a flag without a time.

**Deadlock** is checked except in the runs of `Volume` (a refused volume has no further
operation) and in the runs of `EntryMeta` (an area ends).

**Fairness.** `FairSpec` is weak fairness of the steps of the running call, in
the form `WF_vars(Step /\ UNCHANGED faults)`: a thread inside a call is not
stopped for ever and a read of the image returns. It forces no fault, and no new
call of a client or of the kernel.

## Proofs

All theorems hold for every value of the constants that the named `ASSUME`s allow
(`DeviceAssumption`, `ReaderAssumption`, `DirectoryAssumption`,
`MetaAssumption`, `HeaderAssumption`, `VolumeAssumption`, `FuseAssumption`; TLC evaluates them in the runs) and for any
number of faults (`MaxFaults` is any number). Further hypotheses are stated in the
theorem.

| Theorem | Hypotheses | Establishes |
|---|---|---|
| `FileReaderProofs!TypeCorrect` | | `TypeOK` |
| `FileReaderProofs!ReadsCorrect` | `Intact` | `ReadsTheFile` |
| `FileReaderProofs!ImplementsByteStream` | `Intact` | `StreamSpec` |
| `IsoDirectoryProofs!TypeCorrect` | | `TypeOK` |
| `IsoDirectoryProofs!BlocksCoherent` | | `BlockCoherent` |
| `IsoDirectoryProofs!WalksListExactly` | `AllWellFormed` | `ListedExactly` |
| `DirectoryStreamProofs!EntriesComplete` | `AreasWellFormed`, no short reads | `SuspComplete` |
| `DirectoryStreamProofs!FindsWhatIsThere` | both, no short reads | `FindIsRight` |
| `DirectoryStreamProofs!ImplementsDirectoryStream` | both, no short reads | `StreamSpec` |
| `EntryMetaProofs!TargetRight` | | `TargetLeadsThere` |
| `EntryMetaProofs!NameRight` | | `NameIsRight` |
| `EntryMetaProofs!TimesRight` | | `TimesAreRight` |
| `EntryMetaProofs!ModeRight` | | `ModeIsRight` |
| `VolumeProofs!TypeCorrect` | | `TypeOK` |
| `VolumeProofs!ScanCorrect` | | `ScanIsRight` |
| `VolumeProofs!MountCorrect` | | `MountIsRight` |
| `VolumeProofs!OpenCorrectInRoot` | | `OpenIsRightInRoot` |
| `IsoFuseProofs!TypeCorrect` | | `TypeOK` |
| `IsoFuseProofs!NodesAreStable` | | `NodesStable` |
| `IsoFuseProofs!HandlesAreStable` | | `HandlesStable` |
| `IsoFuseProofs!ListingIsExact` | | `ListingExact` |

**The hypotheses.** `Intact`: the image holds every block of every file and no
read falls short; `file_reader_short` shows `ReadsTheFile` false without it.
`AllWellFormed`: in every directory the records have the least length, lie in
their blocks and do not overlap, and a zero byte ends a block. `AreasWellFormed`:
continuation areas begin at the start of a block, are filled with entries, and are
linked without forks or cycles; `continuation_offset` shows `SuspComplete` false
without it. `MCIsoDirectory` has TLC evaluate both on the instance of the passing
runs, so they can be met. The three theorems without short reads need that because
the count of the read of a continuation area is ignored (see *Not modelled*). A
directory behind a child link is, for all of them, the one block the code takes it
for.

What the named assumptions say of images: the names `find` is called with are not
empty; every directory listed by the daemon has a record (its "."), and entries
with the same serial number are the same object when inodes are numbered that
way; the roots that descriptors give are directories; the identifier of a file is
its name, a dot, its extension and a version, of which the dot may be missing
without an extension and the version if it is 1 (`Identifies`); a component of a
link is one name, and not both `.` and `..`. The System Use entries of an area may
be any, in any number and order. The walks of a volume's tree
in `Volume` and of the daemon's listings rest on `DirectoryStream`, which
`IsoDirectory` is proved to implement.

**The file reader.** `TypeOK` is not inductive: that the chunk a step copies fits
in the caller's buffer and in the file needs `CallInBounds` (the bytes done never
exceed the request, and a read that has copied anything has not passed the end of
the file). `ReadsTheFile` speaks of the reply only; what carries it is `Safe`:
`CacheCoherent` (a cache that claims a block holds it), `CopiedSoFar` (what a
running read has copied is the file's) and `ReadsTheFile` itself. For the
refinement, `ReadReturns` is the abstract `Read`, `ReadFails` the abstract `Fail`, a
seek the abstract `Seek` (a wrapped sum is negative, hence refused: `I64Wraps`),
and all other steps stutter.

**The directory walks.** `TypeInv` adds to `TypeOK` what the locals of a call are.
Every step does one of three things to the block of a walk (`BlockStep`: nothing,
the block just read, none), which gives `BlockCoherent`, and one of three things to
its list (`WalkStep`: nothing, a fresh walk, the record of the running call).
`ListedExactly` needs `ListInv`: a walk's offset is in a block of its directory,
and `CallInv`: the running call is at its walk's offset, has that block, and has
the record at that place. The arithmetic is in `AfterRecord` and `NextIsNext`:
between a record and the offset `read_entry_at` returns with it there is no other,
also at the end of a block.

`SuspComplete` is carried by `SuspInv`: what a call has read and what is left of
the chain are together what is recorded. That a step keeps this is `ReadsArea`
(the entries of a buffer are those of the area), `AppendsArea` (the first CE entry
is taken out and nothing else moves) and `AreaIsJoined` (the recursive definition
of a chain's entries can be unfolded, by induction over the depth that
`AreasWellFormed` gives an area). `FindIsRight` is carried by `FindInv`: the walk of
a find is in the directory its earlier segments lead to, and has passed no record
that matches. `LocatedUnfolds`, `BlankStays` and `NowhereStays` are what it needs of
the definition of where a path leads. For the refinement, `Yield`, `NextNone`,
`Contents` and the failures are the abstract actions of those names, a call that
begins is `Call`, a find that ends is `Find`; loading, parsing, continuing,
descending, going on and resuming are not seen.

**The metadata.** The inductive invariant is `Parsed`: each entry of `susp` is what
`ParseSusp` makes of the entry recorded at its place. The four properties are facts
about such a state, each an induction over the entries of the area. *Target*:
`WalkJoin` says that a joined path leads to where the second part leads from where
the first does, in all cases of `Path::join` (absolute part, empty path, path that
ends in a separator, separator added); it rests on `ReadPrefix` and `ReadSuffix`,
how a path is read that is the first or second half of a longer one.
`WalkComponent` is the single component, `WalkLinkPath` an SL entry, `TargetWalk`
all entries. *Name*: `NameIsRecorded` shows the pieces put together to be those up
to the first that is not continued, `VersionIsCut` and `DotIsCut` that only the
version and the dot of an empty extension are cut. *Times*: `NthIsNext` matches
flags and times, `LaterBack` shows that adding the offset back to the instant gives
the recorded day and second, across midnight, and `LastTime` that the merged time
is that of the last entry that has one. *Mode*: `LetterOfType` goes through the
types in the order they are tried, `DisplayLetters` and `LettersOf` give the nine
letters after it one by one.

The proof corrected the properties it is about in two places where TLC's instances
had not reached: an offset of 26 hours or more east, which no zone has, is taken
for UTC (`East` had included it), and a TF entry with more flags than times leaves
the time to an earlier entry (`Having` now says so, and the run has such an entry).

**The volume.** `ScanInv`: before the descriptor the scan is at all are legal, none
ends the volume, and the roots are the last given. `MountInv`: until a probe fails
the root a mount goes on with is the right one. `OpenInv`: the segments passed lead
from the root to the entry found, and every way along the whole path comes by that
entry. `OpenIsRightInRoot` and `MountIsRight` are stated by the existence of such a
way and without recursion.

**The daemon.** Each action is first shown to have one of fifteen effects
(`Effect`), and each invariant to be kept by each effect. `NodesInv`: with generated
numbers every number in the table, held by the kernel or in a FORGET under way is
below its counter and what the kernel holds is in the table; with serial numbers
every node is its own serial number; the root stays; table and kernel agree. A
lookup leaves the entry of a node that is held alone (`ReferencedKeeps`), so that
they agree is a fact about the daemon: with generated numbers a lookup never hits a
held node, with serial numbers it hits one only with a link to the same object.
`FilesInv` and `DirectoriesInv` are the same for handles. `ListingsInv`: what the
kernel has got is what there is to see before the offset it goes on from.
`ReplyInv`: with the reply under way it is what there is to see before the record
`readdir` is at, and before the offset of the last entry of the reply, from which
the kernel goes on if the buffer is full.

**Induction.** The induction theorems of the library take a predicate, which the
provers cannot instantiate. `NatLemmas!Induction` is about a set instead (it holds 0
and with each number the next), proved from the well-foundedness of the numbers;
with it the recursive functions `NotCEs`, `Area` and `Located` are shown to satisfy
their defining equations. `NatLemmas!Recursion` (a function that is given from one
number to the next exists) does the same for the functions of `EntryMeta`, in its
lemmas named `...Unfold`. Nothing depends on a bound on their arguments.

**Only model-checked.** All liveness (`ReadsReturn`, `CallsReturn`,
`ReadDirReturns`), which is out of the prover's reach, as is `ENABLED`. Every
invariant and both refinements of the passing runs are proved.

## Findings

Five runs are expected to end in a violation; `PROJECT.json` quotes the lines of
the repository they contradict.

* `file_reader_short`: `ISOFileReader::read` ignores the count `read_at` returns.
* `continuation_offset`: the offset of a CE entry is never used.
* `fuse_serial_forget`: `forget` ignores `nlookup`.
* `volume_open`: `is_rr` turns an I/O error into "no Rock Ridge".
* `entry_times`: the backup, expiration and effective times of a TF entry are
  parsed and dropped; their accessors return the time of the record.

Met while modelling, modelled as the code has it, and kept out of the passing
properties rather than given runs of their own:

* a directory behind a child link is taken to be one block long, and `lookup`
  finds relocated directories that `readdir` hides;
* the CONTINUE flag of a link component is ignored (`TargetLeadsThere` is stated
  for links without it);
* alternate names lose a final dot and a `;version`, and a piece that is not
  UTF-8 is dropped (`NameIsRight` is stated for names without);
* offsets west of Greenwich are read as unsigned, and long-form times as short
  ones (`TimesAreRight` is stated for offsets up to 26 hours east and short-form
  entries);
* an executable SUID or SGID file is shown with an `S`, which `ls` uses for one
  that is not executable (`ModeIsRight` leaves the case of that letter open), and
  the sticky bit is neither shown nor passed on to the kernel (`ModeIsRight` leaves
  the last letter of such a mode open);
* an enhanced descriptor (version 2), an unknown encoding, text that is not UTF-8
  or a blank date refuse the whole volume (`ScanIsRight` counts them as refusals);
* the block count of a file near 4 GiB wraps.

## Not modelled

* Panics on malformed input: a continuation area longer than a block, a System
  Use entry shorter than its header, an unknown ER identifier, a child link on an
  entry that is no file, a missing or a reserved (0, 1) serial number in
  serial-number mode.
* The feature `assertions`, which `cdfs/Cargo.toml` has on by default. The models
  are of the code without it. With it the program also panics on a continuation
  area whose read falls short (`isodirectory.rs:157`), a file that is recorded
  interleaved (`parse/directory_entry.rs:77`), UCS-2 text that is malformed
  (`parse/mod.rs:77`), a System Use entry of another version or length
  (`parse/susp.rs`), text in a link component that is a root, `.` or `..`
  (`isodirectory.rs:283`) and, when a mode is displayed, an unknown file type
  (`parse/susp.rs:511`). In each of these places the model goes on as the build
  without the feature does, so it has every behaviour of the default build up to
  the panic, and the safety results hold for both.
* An SL component that is not UTF-8, which cuts the components after it.
* A cyclic chain of continuation areas: the loop does not end and its list grows,
  so the state space is infinite. `CallsReturn` is about chains that end.
* A short read of a continuation area, which silently drops entries (without
  `assertions`), is an action of the model (`Continue`) but outside `SuspComplete` and `FindIsRight`, which are
  checked without short reads; `StreamSpec` is checked with them, on names that
  are not recorded in a continuation area.
* What UCS-2 text decodes to (only which text is refused), the calendar (the
  `time` crate's; a month that does not exist counts as January, so a recorded day
  is the day the date names then), and the dates of volume descriptors, which are parsed and never
  used. Numbers are stored in both byte orders; the model has which one counts.
* Files in several extents (MULTIEXTENT) and extended attribute records: the code
  reads the flag and the length and uses neither, so there is no behaviour to
  model.
* The string properties of the primary descriptor, which are field accesses, the
  command line, the error type, and the examples.

## State of the project

The code that has state or decides something is modelled, except for the points
above, and every safety invariant and both refinements are proved. What could be
added: `CallsReturn` with a measure in place of fairness (each step of a call
lowers it), which would be a safety property and in the prover's reach; and the
bytes of System Use entries, of which the models have only where one begins.
