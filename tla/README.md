# TLA+ models of vita-toolchain

vita-toolchain turns an ELF that `arm-vita-eabi-ld` has linked into an
executable the PlayStation Vita's loader accepts, and provides the tools
around that step: the databases of imported functions, the generator of stub
libraries, the packagers.  Every tool is a sequential program that runs once.
What is hard in them is not concurrency but *order and bookkeeping*: tables
that refer to each other by index, address or file offset are edited one after
the other, and each edit must be followed up everywhere.  These modules state
what must stay true through such sequences, and check or prove it.

Paths below are relative to the repository's `src/`.

## 1. The system

| Component | State it keeps | Operations | Hard part | What makes it correct |
|---|---|---|---|---|
| **vita-elf-create: load** (`vita-elf.c`) | `vita_elf_t`: stubs, symbols, relocation tables, segments, indices of stub sections | `vita_elf_load` and the loaders it calls, per section in file order; `lookup_stub_symbols`, `lookup_vstub_relas` | relocations are decoded from instruction fields; variable references are moved out of the tables | a decoded relocation means what the linker meant; every variable reference is recorded once |
| **vita-elf-create: imports** (`sce-elf.c` 435-531, `varray.c`) | sorted arrays of libraries and stubs | grouping by NID with sorted insertion | comparators that read different fields of an element | each stub is in its library once, sorted |
| **vita-elf-create: module info** (`sce-elf.c` 141-430, 537-1036) | sizes and addresses of the info's sections | `params_create`, `get_size`, `encode` | sizes computed in one walk, used in another | encode fills exactly what get_size reserved |
| **vita-elf-create: relocation output** (`sce-elf.c` 1050-1324) | relocation tables, segment sizes | `discard_invalid_relocs`, `write_module_info`, `write_rela_sections` | the entry segment grows between two uses of "is this address mapped" | the loader patches what the linker meant and nothing else |
| **vita-elf-create: stub rewriting** (`sce-elf.c` 1326-1453) | section headers, symbol table, `.shstrtab` | `rewrite_stubs`, `update_symtab_entries` | hand renumbering of every section index after each removal | an index never comes to name another section |
| **vita-elf-create: file layout** (`elf-utils.c`) | offsets of sections, segments, header table | `shift_contents`, `new_scn_with_name`, `new_scn_with_data` | insertions in the middle of a file under construction | ranges of the file stay disjoint, contents stay with their headers |
| **vita-elf-create: driver** (`vita-elf-create.c`) | the output file | `main`, `vita_elf_packing` | rewriting the output through a temporary file | an interrupted or failed run is noticed |
| **yamltree / yamltreeutil / yamlemitter** (`utils/`) | parser with one event of lookahead; the tree | `parse_yaml_stream`, iteration helpers | errors in the middle of nested nodes | the tree is the document, or an error is set |
| **export / import parsers** (`vita-export-parse.c`, `vita-import-parse.c`, `vita-import.c`) | export and import structures | a handler per key | the order of keys, defaults | the structure does not depend on the order of keys |
| **NID database, vita-libs-gen-2** | circular lists: firmware, module, library, entry; stub archives | callbacks per YAML key, `db_*`, generators | "current" pointers shared by files and keys | every entry ends in one archive |
| **vita-nid-check** | the same lists, a bypass list | callbacks, `_check_entry` | comparing with what has been read so far | acceptance does not depend on order; no duplicate passes |
| **fs_list** (`utils/fs_list.c`) | tree of directory entries | init, two traversals, free | freeing while traversing | each entry visited and freed once |
| **varray** (`utils/varray.c`) | growable array, optional constructors and comparators | push, insert, remove, sorted insert and search | failure in the middle of an insertion | order and contents are kept |
| **vita-libs-gen** (`vita-libs-gen.c`) | the imports read, a makefile | main, generators | files named by joining names | every entry ends in its archives, or nothing is written |
| **vita-make-fself** | offsets of a file under construction | main | alignment, zero sizes | every segment is where its info says |
| **vita-mksfoex** | tables of a param.sfo | main | - | tables and data agree |
| **vita-pack-vpk, vita-elf-export** | none to speak of | main | - | I/O |

The tools meet through files, and three compositions follow a file from one
component to the next: `ExportConfig` (libyaml's events, the tree, the
configuration), `StubArchives` (a directory, its list, the database, the stub
archives) and `Imports` (import files, stub archives, the linked ELF, the
module info, the output file, the packed file, the SELF).  Inside vita-elf-create the parts share one
`vita_elf_t`; `main()` (`vita-elf-create.c` 487-691) calls them in a fixed order:

    load (decode relocations, then move variable references)
      -> imports -> exports, params -> module_info_create -> get_size
      -> encode -> copy -> discard_invalid_relocs -> write_module_info
      -> write_rela_sections -> rewrite_stubs -> elf_update -> set_headers -> packing

`StubSections` and `Relocs` each look at one of these steps closely, with the
ELF as general as the step sees it; `ModuleInfo` and `Output` follow the whole
pipeline, with the ELF reduced to what the pipeline moves about.

The hazards of each part are listed, with their lines, in `PROJECT.json`.

## 2. Modules

### Stub sections: `StubSections`, `SectionGraph`

`StubSections` is `sce_elf_rewrite_stubs()`: one action per iteration of its two
loops.  The state is what the loops read and write: section headers (`shdrs`),
the `st_shndx` of each symbol (`symtab`), what `.shstrtab` holds at each offset
(`strings`), section bodies, `vstubs_va`, `e_shstrndx` and `ve->symtab_ndx`.  A
name is only its class (which prefix it has).  Each header carries its index in
the input as a field `id`, which the code does not have, so that a property
can say "the same section" across renumberings.

`StubElfOK` is the input: sections in file order, stub sections pushed in ascending
order by `vita_elf_load()`, and no reference to a section that is about to be
removed except from symbols.  `MCStubSections` enumerates every arrangement of
`MCLen` sections of six kinds: one symbol table, one `.shstrtab`, and any of text,
function stubs, variable stubs and relocations.

- `IndexFidelity`: every symbol, link, relocation target, `e_shstrndx`,
  `symtab_ndx` and the indices still in `vstubs_va` denote what they denoted.
- `FstubsRewritten`: when the function returns, exactly the function stubs have
  the stub body and the new name, wherever removals have moved them.
- `ImplementsSectionGraph`: `SectionGraph` is the specification without
  indices, a graph of named sections from which doomed ones are dropped; the
  renumbering implements it under the mapping from an index to the id there.

Two claims of the code's comments fail (section 5).

### Relocations: `Relocs`

`Relocs` follows a relocation from the REL table to `.sce.rel`, one action per
phase: `LoadRelTables`, `LookupVstubRelas` (per stub), `EncodeModuleInfo`,
`DiscardInvalidRelocs`, `WriteModuleInfo`, `WriteRelaSections`, with the error
exits of each.  Addresses are words modulo `H * H` with halves of `H` values, so
that MOVW and MOVT, wrap-around and the short form exist at small size.  The
instruction encodings are abstracted to what a field says (`FieldOf`): the
code's bit shuffling is not modelled, its masks, carries and modular
subtractions are.

An input relocation carries `ref`, the address the linker resolved it to, which
the code cannot see.  `LoaderSite` and `LoaderField` are the console's loader.
So `LoadedRight` closes the circle: for every displacement of the segments, what
the loader patches, and with what, is what the linker meant, moved along.

- `OnlyMappedPatched`: no relocation of the ELF patches an address that no
  segment of the input held, although the module info takes such addresses.
- `LoadedRight`, as above, for every type and symbol kind.
- `VstubsRecorded`: a stub's table has each reference to its variable with its
  site and addend, the place holds a null pointer meanwhile, and the reference
  is not in `.sce.rel` as well.
- `ModuleInfoRelocated`: every pointer of the module info is relocated.
- `SegmentsDisjoint`: the module info never grows into the next segment.

### Checking the NID database: `NidCheck`

`NidCheck` is vita-nid-check.  A database file is the sequence of its keys in
document order, and each callback is an action: it moves the "current" module
and library, which outlive a file, or adds an entry after `_check_entry()`.
`OpenFile` takes any file left, because `readdir()` promises no order.  Names are
numbers ordered as `strcmp()` orders them; NIDs, which no check reads, are left
out.  `late` is the one variable the code does not have: it remembers that a
library's privilege changed when the library already had entries.

- `EntriesSorted`, `LibraryNamesUnique`: what README.md and the comments ask of
  a library holds of the database at all times.
- `NoDuplicatedName`: one comparison of each new entry with those before it
  establishes the rule for the database as a whole, unless `late`.
- `RefusedForCause` is the other direction: a directory that keeps the rules,
  stated over the files without any order of reading (`CleanDirectory`), is
  never refused, and never ends in a null pointer.

### Export configuration: `YamlTree`, `ExportParse`, `ExportConfig`

`YamlTree` is `parse_yaml_stream()`: the recursion is a stack of frames, an
action takes one event of libyaml, and `peek_next_event()` looks at the one
after.  libyaml is external: it delivers a prefix of a well-formed stream and
may fail at any event.  `ExportParse` is `vita_exports_loads()`: one action per
handler, called for the keys in the order of the document, the default
configuration, and `vita_exports_free()`.  A hash is the sequence of what is
hashed; strings on the heap are the numbers of the keys that allocated them.
`ExportConfig` runs one after the other: the handlers may only start when the
parser has returned, and `RootOf` and `KeysOf` read the keys from its tree.

- `DocumentRead`: what the parser took is in the tree, in order and once, in
  every state in between; the handlers see the keys of the file.
- `NullForCause`: no tree without an error in the stream and a message for it.
- `NidsAsWritten`: the NIDs, computed as the keys come, are those of the document
  as a whole, if versions and syscall flags precede what depends on them; the
  property says for which orders this holds, and it does not for the others.
- `AllOrNothing`: a configuration is loaded whole or refused, and then for one of
  the listed reasons.  `AllFreed`: all that was allocated is freed, but for
  entry points given twice.

### Stub archives of a database: `FsList`, `LibsGen2`, `StubArchives`

`FsList` is `fs_list.c`: listing with `readdir()` in any order, and the two walks
by `child`, `next` and `parent`, the second of which frees the entry it leaves.
`LibsGen2` is vita-libs-gen-2 with the files in any order: it is the abstract
specification, callbacks for the keys of each file, grouping of libraries into
stubs, assembly files, the makefile.  `StubArchives` is `main()`: a file or a
listed directory, the walk whose callback reads a file, freeing, generating.

- `ImplementsLibsGen2`: `main()` implements `LibsGen2!Spec`: each file at most
  once, from beginning to end, nothing generated before the reading ends.
- `EveryEntryBuilt`: each entry ends in the archive that its file asks for,
  assembled with the version, NID and privilege of its library, whatever the
  order of the files; unless names clash (`Clashes`: two firmwares with one
  suffix, two entries with one file name).  A library without entries takes part in
  the clash of firmwares: its stub is an archive of the same name, made of nothing,
  and the later of the two assignments in the makefile is the one that counts.
- `BuiltUpToError`, `EveryFileRead`: reading stops at a failure, which `main()`
  ignores; then exactly what precedes it is built, and without one, everything.
- `ListWalked`, `FreedOnce`: what is listed is what is there, the directories
  opened are closed, the walks visit and free each entry once, children first.

### From import files to the SELF: `LibsGen`, `ModuleInfo`, `Output`, `MakeFself`, `Imports`

`LibsGen` is vita-libs-gen: import files key by key, then assembly files,
objects, archives, with creation of the n-th file failing.  `Imports` links some
of the objects in any order (external: the linker joins sections by name) and
hands the ELF to vita-elf-create.

`ModuleInfo` is vita-elf-create to the end of `sce_elf_module_info_encode()`:
one action per stub inserted, per export and import created and encoded.  The
encoded data are a sequence of 32-bit words at real offsets (a pair of 16-bit
fields is one word, and so is a string), with the structures of
`sce-elf-defs.h`; `VADDR`, `OFFSET`, `ADDRELA` are the macros of the code.  The
checks of the counters are there: `null` is encode returning NULL, `overrun` a
write behind a section, `crash` a null pointer followed.

`Output` takes it to the disk.  A file is its headers, where each section and
segment is; what a section holds is its id.  `elf_utils_shift_contents()` moves
offsets, a new section is an action, as is each operation of
`vita_elf_packing()` on the disk: `disk` says what the output and the temporary
file hold after each, so *the program may be taken to stop in any state*.  What
the code ignores may fail like everything else: `remove()` and `rename()` then leave the
disk as it is, and a stream whose `fclose()` fails leaves a file that is `"lost"`,
without the end of what was written.  `MakeFself` is vita-make-fself on what is then
there; of a lost file it makes a lost SELF, fails, or crashes.

- `EveryEntryBuilt`: all or nothing of the import files in the archives, as for
  `LibsGen2`.
- `ImportsRead`, `ExportsRead`: the system, which knows where the module info is
  and follows relocated pointers and nothing else, finds each stub in the table of
  its library, and each export at its symbol's address.
- `EntriesImported`: the same from end to end: what a file says of an entry that
  was linked is what the system finds.
- `EncodingFailsForCause`: `get_size()` counts what encode writes; else a segment
  is in the way, or a variable is imported twice.
- `FileLoads`: nothing in the ELF that is written overlaps, sections with contents are
  where their segment's offset says, the module info is at its address.  Its premises:
  `Regular`, the entry point is in the segment that encode has chosen, which is
  whole in the file (no .bss), with no contents starting in the padding of up to 3
  bytes behind it, and there is room for one more program header; and
  `EndsWithSection`, that segment ends with a section, as linkers leave it, and no
  other one lies across its end.
- `CopiesLoad`: the same of the packed file (`PackedLoads`: unless a segment has
  alignment 0, which puts it over the headers) and of the SELF (`SelfLoads`).
- `OutputSurvives`: whatever call fails while packing or making a SELF, and wherever
  the programs stop, the ELF or the packed file is there, under its name or the temporary
  one, except between `remove()` and closing the file that replaces it.  Status 0
  does *not* mean that the output is whole: the property is that there are only two other
  causes, a failed `rename()` (the packed file keeps its temporary name) and data lost in a call
  whose result is ignored.  A SELF is never made of anything but the ELF or the packed
  file under its own name, and never whole when that is not.

## 3. Runs

| Run | Instance | Result |
|---|---|---|
| `stub_sections` | all arrangements of five sections of six kinds (one symbol table, one `.shstrtab`), with symbols to each, an absolute symbol, links and targets | passes |
| `stub_reserved`, `stub_info` | the same, 4 sections | violated (5) |
| `relocs` | two segments; one fixed relocation and one of every type, at five places (mapped, unmapped, out of its section, skipped table), to every kind of symbol, addends around 0 and around the limits of the short form; no, one or two stubs, one without symbol; room and no room for the module info; no `module_start`; entry point in no segment | passes |
| `relocs_ignored`, `relocs_split` | the same; and with `module_start` and entry point in different segments | violated (5) |
| `nid_check` | two files of one library each, the same, another, or one of the same name in another module; up to two entries in one and in the other; privilege absent, before or after the entries; with and without a bypassed entry; and single directories with an error, without firmware, empty, with a bad bypass list, or with one library given twice and its privilege in between | passes |
| `nid_late`, `nid_bypass` | the same | violated (5) |
| `exports` | documents with up to three keys of a library in any order out of twelve, two keys around a library, every combination of missing and failing inputs; streams with values of depth two, each cut by an error at every event; about 109000 states | passes |
| `stub_archives` | two files of one library each, over names that join to the same name, seven firmwares, privilege before or after the entries, an error in the middle; every tree of 1-4 nodes with directories that cannot be opened and entries that cannot be looked at, every tree of 5 without failures; about 162000 states | passes |
| `imports` | files of one to three libraries with keys in various orders and given twice, two files, failing creation; up to three objects linked in any order; programs with one to three segments at, over and clear of the module info, symbol tables and configurations of every kind; files tight and not, with .bss, alignments 0, 1, 16, 4096 and 65536, packed and not, SELFs compressed and not; every failure while packing, those whose result is ignored included; about 162000 states | passes |

**Bounds.**  Five sections hold two stub sections to remove with something
before, between and after them, which is all `Renumber` tells apart; more is
covered by the proof.  Relocations do not interact except through the
segments, the image at one place, and the stubs: one arbitrary relocation beside a fixed
one shows every interaction of a pair.  `H = 16` makes words of 256 values:
the short form (-8 .. 7) is a proper part, halves carry, and the displacements
0, 12 and 232 include one that wraps and one that is not a multiple of 16.
The rules of the NID check relate two entries, so two libraries and two names
show every case; the theorems cover any number.

The limits of `exports` are `WORD` 16, `SHORT` 8 and `BYTE` 4 in place of 2^32,
2^16 and 2^8: values below, at and beyond each occur.  Three keys suffice for
an order between a version, a NID and a symbol.  In `stub_archives` two files
show what one leaves to the next; five nodes have a directory in a directory
with something on both sides.  In `imports` three stubs of one library give a
sorted insertion with neighbours on both sides, and the offsets and sizes are real
(a file header is 52 bytes, a module info 92).  Each
part of `Regular` fails somewhere in the instance and holds elsewhere, and so does
`EndsWithSection` for a regular program (a section across the segment's end).

**Fairness.**  `ExportConfig`, `StubArchives` and `Imports` assume weak fairness
of their whole next-state relation, nothing more: each program is a single
thread that blocks on nothing but files, and so runs on while it has a next
step.  Which step, where there is a choice (the order of `readdir()`, a failure,
the order of the link), is left open.  `Termination` says that the programs then
end: loops consume events, keys, entries or stubs, and the walks of `fs_list.c`
climb.  `StubSections`, `Relocs` and `NidCheck` assume no fairness and claim no
liveness: their loops run over tables of fixed length.

## 4. Proofs

Everything below is proved for every value of the constants that satisfies the
named assumptions, with tables, files and trees of any size.  Each proof finds an
invariant `IInv` with `Init => IInv` and `IInv /\ [Next]_vars => IInv'`, one lemma
per action; TLC has checked each `IInv` on the instances of section 3 first.
`ProofLemmas` has the lemmas they share: remainders modulo a word, rounding up,
the lists that joining, inserting, selecting and mapping make, and the least
number with a property, which stands in for induction.

**Stub sections** (`Elf_proofs`; `StubElfsAssumption`, `ReserveAssumption`):
`StubsTypeCorrect`, `IndicesFaithful` (`StubsSpec => []IndexFidelity`),
`FstubsRewrittenAlways`, and `ImplementsIdentity`, the refinement.  Besides
`StubsTypeOK` and `IndexFidelity`, `StubsIInv` says that ids are unique and section types
kept (`SectionsKept`; otherwise "the symbol's index is the removed one" would not
tell the removed section), and that `vstubs_va` is a prefix of what load pushed
(`PrefixKept`; being ascending, its remaining elements are below the index just
removed, which is why they need no renumbering and the code's inner loop over
later elements finds none).  `RemoveVstubIInv` is the step that matters.
`RewriteProgress` adds which stubs are done.  For the refinement each removal by
index is shown to be the removal of one node (`RemovalByIdentity`).

**Relocations** (`Elf_proofs`): all five properties.  `IInv` says what each
variable holds as a function of the input and of the step main() is at:
`RelasInv` each entry of the tables (what `FieldOf` decodes, NONE if a stub or the
filter has struck it out), `ImageInv` the fields (null where a stub has taken the
reference, with disjoint sites so that no field is read after another's is
cleared), `StubsInv` the stubs' tables, `ModInv` what encode has produced, `OutInv`
that the addresses written are those read.  The properties then follow from
`IInv` by arithmetic alone; `ReachRight` does it for each type, MOVW/MOVT with
their carries and the short form with its sign being the work.  Assumptions:
`ElfsAssumption` and `ConstantsAssumption` (words are two halves, a field of the short
form divides a word, a segment is displaced by an even number, so that a branch's
lowest bit survives).  `ElfOK` includes that segments do not overlap, as those of
thread-local data would, and that none lies below the first half, 64 KiB.
`SegmentsDisjoint`, `ModuleInfoRelocated` and `LoadedRight` are proved for
`EntryAgrees`: the entry point is in the segment that encode chooses, or in none.
That is a condition on the input, not an invariant: without it two of them are false,
which is what run `relocs_split` shows, and the programs of `relocs` satisfy it.

**NID database** (`NidCheck_proofs`; `DirsAssumption`, keys nested as the
mappings are): `TypeCorrect`, `Sorted`, `UniqueInLibrary`, `NoDuplicates` and
`RefusedForCauseAlways`.  `IInv` adds `TypesDisjoint` (no name is both a function and
a variable of one library; with ascending order it gives uniqueness) and
`BypassFirst` (the database is empty until the bypass list is complete, so that
what it excuses does not change under the entries).  `EntryIInv` is the step that
matters: `_check_entry()` looks at each pair once, from the side of the entry that
comes later.  For the other direction `ReadInv` ties the database to the files:
every entry in it stands in a file read so far, or before the key now read
(`Position`), under the library and with the privilege it has there.  The proof
found the property too strong: two libraries of one name share their
privilege, and an entry read before the second one's `kernel` key was compared
without it.  `CleanDirectory` now asks that the privilege precede the entry.

**Export configuration** (`ExportParse_proofs`; `ConfigsAssumption`,
`WidthAssumption`): `TypeCorrect` (whose definition is half of
`ExportConfig!TypesOK`), `AllOrNothingAlways`, `AllFreedAlways`,
`NidsAsWrittenAlways`.  `LibInv` says of the library being read, `ListInv` of those
appended, that their fields are the last values among the keys *so far*; the
NID is the hash those give, and each symbol's NID the one its key and the
version before it give.  When the mapping ends, "so far" is everything.
`HeapInv`: each string allocated is in one structure.

**Lists of files** (`FsList_proofs`, used by `StubArchives_proofs` for the
instance there): `ListWalkedAlways`, `FreedOnceAlways`.  A tree is given only by
its parents, so `IInv` speaks of the way from the root to the current entry
(`IsPath`) and of the order in which entries were made: a list goes from the newest to
the oldest, and in each directory on the way what is newer than the way's
entry is visited (or freed), what is older is not.  `CountInv`, on `nChild`, is what
makes the code's test for the last of a directory right.

**Stub archives** (`StubArchives_proofs`; `CasesAssumption`): `ImplementsReading`
(`MainSpec => ImplementsLibsGen2`), `EveryFileReadAlways`, `TypesOKAlways`,
`BuiltUpToErrorAlways` and `EveryEntryBuiltAlways`.  `ReadInv` adds to
the list's invariant that the files read are the files among the entries visited,
that nothing is generated before the walk has ended, and that an error ends it.
The last three are proved of `LibsGen2!Next`, which every step of main() is.
`GenInv` says that a key finds what it is about (`Behind`: after a module key the
current module is one, after a library key the current library), and that numbers
are in their lists; that the library to be grouped next exists is the least
number taken three times (`NextFacts`).  `ErrorInv` says that no file but the
current one has an error and has been opened, and that an entry has no error before it;
`MadeInv`, of the stubs written so far, that their files are there and that the
makefile has the files of a stub of that name, the only one if names are unique.
`EveryEntryBuilt` compares this with the files, read in any order.  `NumInv` numbers the
libraries: there is a function (`from`) that takes each to the library key it was
read at, one to one and onto the keys behind the reader (`Limits`), and a library
says what the keys of it that are behind the reader say (`UpTo`, `ValueIs`: the last of
several; `EntriesAre`: all), under the last module before it and the
firmware of its file (`LibraryIs`).  `Current` ties the reader's pointer to the last
library key of the file, which is why a key that adds to one library leaves the others alone.
`StubInv` says that the libraries of a stub ask for its firmware and name, that no
two stubs have both in common, and that all libraries are in one in the end.  An entry's
assembly file is then in its archive (`ArchiveMade`), and what is in any assembly file
comes from some entry that asks for that name (`AsmMeans`): without clashes, this one.

**Import files to SELF** (`Imports_proofs`; `CasesAssumption`):
`TablesTyped` (`ModuleInfo!TypeOK`), `EncodingCounted` (`EncodingFailsForCause`),
`OutputSurvivesAlways` and `CopiesLoadAlways` (`PackedLoads` and `SelfLoads`).
`DiskInv` says at each stage what may be in the output and the temporary file;
what makes it inductive is that the temporary file is never whole before
`fclose()` (its end is in the stream's buffer), that `remove()` is reached only
when every segment has been packed, that a failure of packing leaves the
output alone, and that what is made of a lost file is lost.  So after a failed
`rename()` the packed file is under the temporary name alone, or beside the ELF if `remove()`
failed as well.
For the copies the whole pipeline is followed.  `Pipeline` says of
the tables in memory that they are lists of what they should be, that sizes and
addresses are numbers, that finitely many relocations are recorded, and that each variable to be
imported has its stub (`VariablesFound`: `encode` looks for it and follows what it
finds).  `DestOK` says that the headers keep the segments of the ELF, with
their addresses, while names and sections are inserted and contents move, and that
`sce_elf_write_module_info()` has left `e_entry` at the end of the segment it
extended (`InfoPlaced`).  `PackOK` and `InfosOK` say that what is packed, or put
into the SELF, so far is aligned, each behind the one before and all
behind the headers; `NidOK` that the NID is put where `e_entry` says, in the
file that is read, packed or not.  The module info is no less than its structure and the
segments of a loaded ELF are at most four, so that the tables of a SELF end in its header
area: `TableFacts` does the arithmetic.

For the tables themselves, `TablesTyped` says that the arrays stay sorted, that no
section is filled beyond its size, and that what is relocated is a word that holds its
addend.  The binary search of `varray.c` is a recursive function; `SearchRuns` says
of its turns what can be said of each from the one before, and `IndexPlaced` that on
a sorted array of any length it finds the key, or its place.  That the array searched
is sorted by what the comparator reads needs the NIDs to be numbers, from the import
files (`ReadOK`) through the assembly files, objects and sections to the stubs
(`NidsOK`).  `SortedOK` adds to sortedness that each library has a stub that brought it
in, and that no stub but those `Lost` misses its table.  `DataInv` follows
encode: how much of each section is used, so that `SectionsApart`, on the prefix sums of
the sizes, keeps a write in one section off the words of the others, and a word
that has been relocated is not written again.  `Select`, `SumOf`, `First` and `++` of
`Lists` stand for operators of the libraries of which the prover has no
definitions; the lemmas on lists and loops come first in the module.

`EncodingCounted` compares two walks: `get_size()` over the libraries and stubs, and
`encode` over the libraries, each variable followed to its stub.  `Part` and `SumIn`
are sums of the first elements of a list and of those at some places; `CountOK`
says that what is used of each section is the part counted for the exports or imports
encoded so far, and of the relocation information the sum over the stubs `MatchedBy`
the libraries so far.  That each step adds to that sum what it writes needs
every library to be there once and, if no variable is imported twice, every variable
of a library too (`OnceOK`); that the sum is the whole in the end, that no
variable is lost.

**The file that is written** (`FileLayout_proofs`): `FileLoadsAlways`.  `LaidOK` says of
each stage of the writing (`LaidAt`) that the sections lie between the program headers and
the section headers and do not meet (`Layout`), with the names behind all
others as long as names are added (`NamesAt`); that each segment still has its sections at
their places (`FileCarried`), the extended one also the sections of the module info
written so far (`InfoCarried`), and from there on room for the rest (`Room`): what
is behind it has been moved away once, by the size of the whole; and that the last
section is the relocations', empty until they are written.  `NewSectionLayout`,
`WithDataLayout` and `MovedLayout` carry the layout through
`elf_utils_new_scn()`, the data of a section put where the contents behind are moved
from, and `elf_utils_shift_contents()`: the name, the data, the header table and the
next section are each moved exactly when what is put in is not behind them.
`LinkedLayout` is the start, the file as the linker leaves it, and `WriteInfoLaid` the
step where the segment grows.  `MemoryApart` is about memory: writing begins only where
the check found room (`RoomFound`).  The proof found the property false of files
that are odd but admitted by `FileOK`: where the segment ends with bytes that
are in no section, or another section or segment lies across its end, not all that is behind
is moved.  `EndsWithSection` is that premise, and a section is looked for where
it has contents.

Only model-checked, and why:

- `Termination` and everything under fairness: out of the prover's reach.
- `ExportConfig`'s `DocumentRead`, `NullForCause` and its half of `TypesOK`:
  `YamlTree` reads a stream with a recursive operator.
- `EveryEntryBuilt` of `Imports` (that of `LibsGen2` is proved): the same numbering of
  libraries would have to be carried through vita-libs-gen, which reads several
  documents and may fail between any two files it writes.
- `ImportsRead`, `ExportsRead` and `EntriesImported`: what was encoded is read
  back through two levels of pointers, after all that is encoded behind it.
  Next in the plan (section 6).

## 5. Where code and comments disagree

- `stub_reserved`: `update_symtab_entries()` (`sce-elf.c` 1349) also decrements
  the reserved indices `SHN_ABS` and `SHN_COMMON`.
- `stub_info`: the header loop (`sce-elf.c` 1433) decrements the `sh_info` of
  `.symtab`, the number of its local symbols.
- `relocs_ignored`: a variable stub to which no global symbol refers matches the
  relocations load had decided to ignore, NULL being equal to NULL
  (`vita-elf.c` 157, 401).
- `relocs_split`: encode and write choose the segment of the module info
  differently (`sce-elf.c` 669 and 1085).
- `nid_late`: entries are compared with the privilege their library has when
  they are read; a `kernel` key after the functions lets a duplicate pass
  (`vita-nid-check.c` 42, README.md 131).
- `nid_bypass`: a bypass list with an error counts as read
  (`vita-nid-bypass.c` 187, `vita-nid-check.c` 352).

Met while modelling, and excluded by a premise of a property or left as it is,
because no line of the repository says otherwise:

- More than one YAML document is refused while parsing; the checks of the number
  of documents (`yamltree.c` 341, `vita-export-parse.c` 631,
  `vita-import-parse.c` 301) are never reached.
- A number of more than 32 bits is cut before its limit is checked
  (`yamltreeutil.c` 77): 0x100000001 is a valid version.
- Two firmwares with the same suffix define one archive twice, and the entries of
  the first are lost (`vita-nid-db.c` 511).  The archive of a module or library
  named SceKernel is emptied by the makefile's variable of that name.
- A failure of `stat()` or in a file is ignored by vita-libs-gen-2, with status 0.
- The postfix of a second firmware is written over the first and may leave its
  tail; a second version is or-ed into the first (`vita-import-parse.c` 135, 248).
- A stub whose address equals the NID at its place in the sorted array is taken
  for a duplicate and lost (`sce-elf.c` 485).  The last stub of a library decides
  its flags.  Two variable stubs with one NID make encode fail or write behind
  its buffer.
- Symbols are found by name alone, the first in the table (`sce-elf.c` 105).  An
  address of 0 is not relocated.  Without `module_start` in a segment the import
  tables are cut off.  A `module_stop` in another segment gives -1.
- Without anything to export, `vita_elf_generate_exports()` follows a null pointer.
- `main()` does not test the result of encode (line 652), nor that of packing.
- Nobody looks at the results of `remove()`, `rename()` and `fclose()`
  (`vita-elf-create.c` 254-263, 670; `vita-make-fself.c` 377) and of some `fwrite()`
  and `fseek()` (`vita-make-fself.c` 268, 302-307): when the disk is full or a
  file cannot be renamed, the exit status is 0 and the output is missing, truncated or under the
  temporary name.  `OutputSurvives` says no more than that this is all that can happen.
- README.md 133 says of vita-nid-check that a directory cannot contain several
  firmwares; the code (`vita-nid-check.c` 172) files everything under one and does not
  read which it is.
- The module info is put at the end of its segment rounded up to 4 (`sce-elf.c` 1100),
  and only what starts behind that is moved: what is in the padding, or lies across the
  segment's end, is written over.
- The comment at `vita-elf-create.c` 209 says that only alignments from 0x10 to
  0x1000 are accepted; the code changes only larger ones.  vita-make-fself makes
  them 0x1000 where packing makes them 0x10.
- A segment without data in the file makes vita-make-fself fail without `-c`
  (line 339), with part of the SELF written.

## 6. Not modelled

- vita-mksfoex and vita-pack-vpk are one pass over their arguments, most of it
  parsing and printing; vita-elf-export and `yamlemitter.c` print a configuration.
- libelf, libyaml, libzip, zlib, the linker, `make` and the archiver: only what the
  code relies on, marked external.
- `sha256.c`, `getopt_long.c`, `strndup`, `endian-utils`: vendored or byte-level.
  The CMake macros only run the tools.  `psp2rela` is a submodule whose sources
  are not here.
- In the modelled tools: parsing of command lines, printing, failures of `malloc()`,
  freeing at the end of programs that exit
  (but for the export configuration and the list of files), the checks of the
  ELF's format on loading, unwinding tables and TLS of the module info, and the
  weak archives of vita-libs-gen-2, which mirror the others.

To prove next, of the pipeline from import files to the SELF: `ImportsRead` and
`ExportsRead`.

## 7. Running

    tlc -config MCStubSections.cfg MCStubSections
    tlc -config MCRelocs.cfg MCRelocs
    tlc -config MCNidCheck.cfg MCNidCheck
    tlc -config MCExportConfig.cfg MCExportConfig
    tlc -config MCStubArchives.cfg MCStubArchives
    tlc -config MCImports.cfg MCImports
    tlapm ProofLemmas.tla
    tlapm Elf_proofs.tla
    tlapm NidCheck_proofs.tla
    tlapm ExportParse_proofs.tla
    tlapm FsList_proofs.tla
    tlapm StubArchives_proofs.tla
    tlapm Imports_proofs.tla
    tlapm FileLayout_proofs.tla

The runs that must find a violation are `MCStubSections_reserved`,
`MCStubSections_info`, `MCRelocs_ignored`, `MCRelocs_split`, `MCNidCheck_late` and
`MCNidCheck_bypass` (section 5).
