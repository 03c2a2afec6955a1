------------------------------- MODULE Loader -------------------------------
(***************************************************************************)
(* From the pages of a slice to a memory ready to run: PageMap.dump writes *)
(* them (ckpt/parse.py), compress.py may pack them, and the loader cl      *)
(* (ckpt/main.c, cl.c) looks for a place of its own among them, moves      *)
(* there and maps them.  Addresses and sizes of mappings are pages,        *)
(* offsets and lengths in the dump are units, PageUnits of them to a page.  *)
(* A page's data is named by its number.                                   *)
(***************************************************************************)
EXTENDS Integers, Sequences, FiniteSets, SequencesExt, FiniteSetsExt

CONSTANTS
    Pn,                 \* page numbers of the address space
    PageUnits,           \* units in a page
    CfgSize, StackSize, \* sizeof(mmap_cfg) and CL_STACK_SIZE, in units
    ClPages,            \* pages of the loader's code
    ClBase, ClTop,      \* CL_BASE, CL_TOP
    BufSize,            \* CL_BUF_SIZE
    MaxRatio,           \* --max-ratio of compress.py, in percent
    MaxLength,          \* --max-length of compress.py
    Lengths, Shares,    \* what pages compress to, what neighbours save
    MaxImage            \* bound: pages of the slice

ASSUME LoaderAssumption ==
    /\ Pn \subseteq Nat /\ IsFiniteSet(Pn)
    /\ {PageUnits, CfgSize, StackSize, ClPages} \subseteq Nat \ {0}
    /\ {ClBase, ClTop, BufSize, MaxRatio, MaxLength} \subseteq Nat
    /\ ClBase .. ClTop - 1 \subseteq Pn
    /\ Lengths \subseteq Nat \ {0} /\ Shares \subseteq Nat
    /\ \A n \in Lengths, s \in Shares : s < n
    /\ MaxImage \in Nat

VARIABLES
    image,        \* the pages of the slice
    length, share,\* what fastlz makes of them
    phase,        \* which program is where
    unpacked,         \* pages compress.py has not looked at yet
    comp, uncomp, \* its chunks: sequences of pages
    cfg,          \* the .cfg file: announced number, lines, entry written
    dump,         \* the .dump file
    mcs,          \* mmap_cfgs still to map
    base,         \* found_base
    mem,          \* page number -> what is mapped there
    fault         \* a program was killed, or the kernel refused a mapping

given == <<image, length, share>>
packing == <<unpacked, comp, uncomp>>
files == <<cfg, dump>>
loading == <<mcs, base, mem>>
loaderVars == <<given, phase, packing, files, loading, fault>>

\* What a page can hold besides the data of a page of the slice: nothing,
\* what is no page's data, the loader's code, its configurations and stack.
Nothing == -1
Garbage == -2
Cl == -3
Mc == -4

NoFile == [num |-> 0, lines |-> <<>>, entry |-> FALSE]

LoaderInit ==
    /\ image \in {ps \in SUBSET Pn : Cardinality(ps) \in 1 .. MaxImage}
    /\ length \in [image -> Lengths] /\ share \in Shares
    /\ phase = "dump"
    /\ unpacked = <<>> /\ comp = <<>> /\ uncomp = <<>>
    /\ cfg = NoFile /\ dump = <<>>
    /\ mcs = <<>> /\ base = 0 /\ mem = [p \in Pn |-> Nothing]
    /\ fault = FALSE

----------------------------------------------------------------------------
\* fastlz: the compressed form of some pages is shorter when they are alike.
Length(ps) ==
    LET first[n \in 0 .. Len(ps)] ==  \* of the first n pages
            IF n = 0 THEN share ELSE first[n - 1] + length[ps[n]] - share
    IN  first[Len(ps)]

Compressed(ps) == [i \in 1 .. Length(ps) |->
    [zip |-> TRUE, of |-> ps, at |-> i]]

Decompressed(units, size) ==
    IF units # <<>> /\ units = Compressed(units[1].of)
                    /\ Len(units[1].of) <= size
    THEN units[1].of ELSE [i \in 1 .. size |-> Garbage]

\* PagesFor as they are.
Raw(ps) == [i \in 1 .. Len(ps) * PageUnits |->
    [zip |-> FALSE, of |-> <<ps[((i - 1) \div PageUnits) + 1]>>,
     at |-> ((i - 1) % PageUnits) + 1]]

\* A line of the configuration.
Line(ps, offset, len) ==
    [addr |-> ps[1], offset |-> offset, size |-> Len(ps), length |-> len]

\* Size and length of a line agree: the data is not compressed.
Plain(line) == line.length = line.size * PageUnits

----------------------------------------------------------------------------
\* The elements of a set in the order of their keys, which are different.
InOrder(S, key) ==
    [i \in 1 .. Cardinality(S) |->
        CHOOSE x \in S : Cardinality({y \in S : key[y] < key[x]}) = i - 1]

Sorted(ps) == InOrder(ps, [p \in ps |-> p])

\* Adds a page to the last chunk, or to a chunk of its own.
ExtendAcrossGaps(chunks, p, joins) ==
    IF chunks # <<>> /\ joins
    THEN [chunks EXCEPT ![Len(chunks)] = Append(@, p)]
    ELSE Append(chunks, <<p>>)

Extend(chunks, p, joins) ==
    IF chunks # <<>> /\ Last(chunks)[1] + Len(Last(chunks)) >= p /\ joins
    THEN [chunks EXCEPT ![Len(chunks)] = Append(@, p)]
    ELSE Append(chunks, <<p>>)

\* Appends a chunk to the two files.
Written(ps, units) ==
    /\ cfg' = [cfg EXCEPT !.lines = Append(@, Line(ps, Len(dump),
                                                  Len(units)))]
    /\ dump' = dump \o units

\* PageMap.dump: one line for each run of successive pages.  The dump is
\* complete before the entry is written; what parse.py leaves behind when it
\* is stopped is the matter of ParseJobs.
RunStarts == Sorted({p \in image : p - 1 \notin image})

RunFrom(p) == Cardinality({q \in image : q >= p /\ p .. q \subseteq image})

DumpPages ==
    /\ phase = "dump"
    /\ cfg' = [num |-> Len(RunStarts), entry |-> TRUE,
               lines |-> [i \in 1 .. Len(RunStarts) |->
                  [addr |-> RunStarts[i], size |-> RunFrom(RunStarts[i]),
                   offset |-> PageUnits *
                       Cardinality({q \in image : q < RunStarts[i]}),
                   length |-> PageUnits * RunFrom(RunStarts[i])]]]
    /\ dump' = Raw(Sorted(image))
    /\ phase' \in {"pack", "parse"}
    /\ unpacked' = IF phase' = "pack" THEN Sorted(image) ELSE <<>>
    /\ UNCHANGED <<given, comp, uncomp, loading, fault>>

\* compress.py: a page that compresses well joins its neighbours as long as
\* they stay short together; the others are freely coalesced.
PacksWell(p) == length[p] * 100 <= PageUnits * MaxRatio

JoinsAlways(p) == TRUE

JoinsLast(p) == Length(Append(Last(comp), p)) <= MaxLength

PackPage ==
    /\ phase = "pack" /\ unpacked # <<>>
    /\ unpacked' = Tail(unpacked)
    /\ LET p == Head(unpacked)
       IN  \/ /\ PacksWell(p)
              /\ comp' = Extend(comp, p, comp # <<>> /\ JoinsLast(p))
              /\ UNCHANGED uncomp
           \/ /\ ~PacksWell(p)
              /\ uncomp' = Extend(uncomp, p, TRUE)
              /\ UNCHANGED comp
    /\ UNCHANGED <<given, phase, files, loading, fault>>

OpenPacked ==
    /\ phase = "pack" /\ unpacked = <<>>
    /\ cfg' = [NoFile EXCEPT !.num = Len(comp) + Len(uncomp)] /\ dump' = <<>>
    /\ phase' = "write"
    /\ UNCHANGED <<given, packing, loading, fault>>

\* Uncompressed pages first, since they need to be page-aligned.
CompressedNext == uncomp = <<>>

WriteChunk ==
    /\ phase = "write" /\ comp \o uncomp # <<>>
    /\ LET ps == IF CompressedNext THEN comp[1] ELSE uncomp[1]
           units == IF CompressedNext THEN Compressed(ps) ELSE Raw(ps)
       IN  Written(ps, units)
    /\ IF CompressedNext
       THEN comp' = Tail(comp) /\ UNCHANGED uncomp
       ELSE uncomp' = Tail(uncomp) /\ UNCHANGED comp
    /\ UNCHANGED <<given, phase, unpacked, loading, fault>>

WriteEntry ==
    /\ phase = "write" /\ comp \o uncomp = <<>>
    /\ cfg' = [cfg EXCEPT !.entry = TRUE]
    /\ phase' = "close"
    /\ UNCHANGED <<given, packing, dump, loading, fault>>

ClosePacked ==
    /\ phase = "close" /\ phase' = "parse"
    /\ UNCHANGED <<given, packing, files, loading, fault>>

\* compress.py is killed before it has closed its files: of each of them a
\* part is on disk.  Whole pages are written at once, as long as nothing of
\* another size went before them.
KeptUnits ==
    {k \in 0 .. Len(dump) : \A i \in {j \in 1 .. Len(cfg.lines) :
                                         Plain(cfg.lines[j])} :
        k >= cfg.lines[i].offset + cfg.lines[i].length
            \/ k < cfg.lines[i].offset \/ k % PageUnits = 0}

KillPacker ==
    /\ phase \in {"write", "close"}
    /\ \E k \in 0 .. Len(cfg.lines), u \in KeptUnits :
          /\ cfg' = [num |-> cfg.num, lines |-> SubSeq(cfg.lines, 1, k),
                     entry |-> cfg.entry /\ k = Len(cfg.lines)]
          /\ dump' = SubSeq(dump, 1, u)
    /\ fault' = TRUE
    /\ phase' = "parse"
    /\ UNCHANGED <<given, packing, loading>>

----------------------------------------------------------------------------
\* main: the configurations and the entry must all be there.  They are sorted
\* to find a place for the loader, and sorted again to be mapped.
ParseOk == Len(cfg.lines) = cfg.num /\ cfg.entry

ByAddr(lines) ==
    InOrder(Range(lines), [line \in Range(lines) |-> line.addr])

ByOffset(lines) ==
    InOrder(Range(lines), [line \in Range(lines) |-> line.offset])

ParseCfgs ==
    /\ phase = "parse"
    /\ IF ParseOk THEN mcs' = ByAddr(cfg.lines) /\ phase' = "place"
                  ELSE phase' = "failed" /\ UNCHANGED mcs
    /\ UNCHANGED <<given, packing, files, base, mem, fault>>

\* ALIGN_PAGE, in pages.
PagesFor(units) == (units + PageUnits - 1) \div PageUnits

\* total_size: code, configurations and stack.
TotalPages == ClPages + PagesFor(cfg.num * CfgSize + StackSize)

Overlaps(b, line) ==
    b + TotalPages > line.addr /\ b < line.addr + line.size

Bump(lines) ==
    LET found[n \in 0 .. Len(lines)] ==  \* behind the first n lines
            IF n = 0 THEN ClBase
            ELSE LET b == found[n - 1]
                 IN  IF Overlaps(b, lines[n])
                     THEN lines[n].addr + lines[n].size ELSE b
    IN  found[Len(lines)]

FoundBaseInFileOrder == Bump(cfg.lines)

FoundBase == Bump(mcs)

MapLoader ==
    /\ phase = "place"
    /\ IF FoundBase + TotalPages <= ClTop
       THEN /\ base' = FoundBase
            /\ mem' = [p \in Pn |->
                          CASE p \in base' .. base' + ClPages - 1 -> Cl
                            [] p \in base' + ClPages ..
                                     base' + TotalPages - 1 -> Mc
                            [] OTHER -> mem[p]]
            /\ mcs' = ByOffset(mcs)
            /\ phase' = "map"
       ELSE phase' = "failed" /\ UNCHANGED loading
    /\ UNCHANGED <<given, packing, files, fault>>

----------------------------------------------------------------------------
\* map_pages, one configuration at a time.
MapAt(line, data) ==
    [p \in Pn |-> IF p \in line.addr .. line.addr + line.size - 1
                  THEN data[p - line.addr + 1] ELSE mem[p]]

\* lseek and read: a short read is a panic.
ReadsAnything(line) == TRUE

ReadsAll(line) == line.offset + line.length <= Len(dump)

\* The page of the dump at an offset; touching one behind its end is fatal.
PageAt(offset) ==
    LET units == SubSeq(dump, offset + 1, offset + PageUnits)
    IN  IF units = Raw(units[1].of) THEN units[1].of[1] ELSE Garbage

FilePages(line) ==
    [i \in 1 .. line.size |-> PageAt(line.offset + (i - 1) * PageUnits)]

\* As if the loop that touches the pages touched one more.
CanMapFileBeforeEnd(line) ==
    line.offset % PageUnits = 0 /\ line.offset + line.length < Len(dump)

\* mmap needs an aligned offset.
CanMapFile(line) ==
    line.offset % PageUnits = 0 /\ line.offset + line.length <= Len(dump)

MapFile ==
    /\ phase = "map" /\ mcs # <<>> /\ Plain(mcs[1])
    /\ IF CanMapFile(mcs[1])
       THEN /\ mem' = MapAt(mcs[1], FilePages(mcs[1]))
            /\ mcs' = Tail(mcs) /\ UNCHANGED phase
       ELSE phase' = "failed" /\ UNCHANGED <<mem, mcs>>
    /\ UNCHANGED <<given, packing, files, base, fault>>

ReadAt(line) == SubSeq(dump, line.offset + 1,
                       Min({line.offset + line.length, Len(dump)}))

\* A chunk that is longer than buf overwrites the stack.
AfterRead(line) == IF line.length <= BufSize THEN "map" ELSE "overrun"

MapCompressed ==
    /\ phase = "map" /\ mcs # <<>> /\ ~Plain(mcs[1])
    /\ IF ReadsAll(mcs[1])
       THEN /\ mem' = MapAt(mcs[1], Decompressed(ReadAt(mcs[1]),
                                                mcs[1].size))
            /\ mcs' = Tail(mcs) /\ phase' = AfterRead(mcs[1])
       ELSE phase' = "failed" /\ UNCHANGED <<mem, mcs>>
    /\ UNCHANGED <<given, packing, files, base, fault>>

\* The kernel refuses one of the mappings of main or of map_pages.
MmapFails ==
    /\ phase = "place" \/ (phase = "map" /\ mcs # <<>>)
    /\ phase' = "failed" /\ fault' = TRUE
    /\ UNCHANGED <<given, packing, files, loading>>

BeginExecution ==
    /\ phase = "map" /\ mcs = <<>>
    /\ phase' = "running"
    /\ UNCHANGED <<given, packing, files, loading, fault>>

Compress == PackPage \/ OpenPacked \/ WriteChunk \/ WriteEntry \/ ClosePacked

Load == ParseCfgs \/ MapLoader \/ MapFile \/ MapCompressed \/ BeginExecution

LoaderNext == DumpPages \/ Compress \/ KillPacker \/ Load \/ MmapFails

\* Each program runs on until it ends; being killed is nobody's duty.
LoaderSpec == LoaderInit /\ [][LoaderNext]_loaderVars /\ WF_loaderVars(DumpPages \/ Compress \/ Load)

----------------------------------------------------------------------------
LoaderPages ==
    IF phase \in {"map", "running"} THEN base .. base + TotalPages - 1 ELSE {}

\* Every page is in at most one chunk, chunks are runs of pages, and the
\* lines of the configuration never describe one page twice.
LoaderTypeOK ==
    /\ image \subseteq Pn /\ fault \in BOOLEAN
    /\ phase \in {"dump", "pack", "write", "close", "parse", "place", "map",
                  "running", "failed", "overrun"}
    /\ \A p \in Pn : mem[p] \in Pn \cup {Nothing, Cl, Mc}
    /\ \A i, j \in 1 .. Len(cfg.lines) :
          i # j => cfg.lines[i].addr + cfg.lines[i].size <= cfg.lines[j].addr
                   \/ cfg.lines[j].addr + cfg.lines[j].size
                          <= cfg.lines[i].addr

\* When the program starts, every page of the slice holds its own data,
\* through whichever files it came, also when compress.py was killed or a
\* mapping was refused on the way (map_pages in ckpt/cl.c).
LoadedIsImage ==
    phase = "running" => \A p \in image : mem[p] = p

\* While it maps the pages the loader never maps over its own code,
\* configurations or stack, and they are still there when the program runs,
\* for replay() uses them (found_base in ckpt/main.c).
LoaderKeepsItself ==
    /\ LoaderPages \subseteq ClBase .. ClTop - 1
    /\ \A p \in LoaderPages :
          mem[p] = IF p < base + ClPages THEN Cl ELSE Mc

\* No compressed chunk is longer than the buffer it is read into: that is
\* --max-ratio and --max-length of compress.py against CL_BUF_SIZE of cl.h.
ChunkFitsBuffer == phase # "overrun"

\* Room for the loader between CL_BASE and CL_TOP.
Room == \E b \in ClBase .. ClTop - TotalPages :
            (b .. b + TotalPages - 1) \cap image = {}

\* Without a fault the program is started, unless there is no room for the
\* loader among the pages (main in ckpt/main.c gives up only then).
LoadEnds ==
    <>(phase = "running" \/ fault \/ (phase = "failed" /\ ~Room))

\* The invariants of the way from the slice to memory together: mappings are
\* disjoint, the loader survives them, and chunks fit its buffer.
LoaderInv == LoaderTypeOK /\ LoaderKeepsItself /\ ChunkFitsBuffer
=============================================================================
