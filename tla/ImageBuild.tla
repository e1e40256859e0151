----------------------------- MODULE ImageBuild -----------------------------
(***************************************************************************)
(* Image::build, Image::loadExecutable and Image::writeElf of              *)
(* LinuxBootImageBuilder/Image.cpp, run once by main.cpp.                  *)
(*                                                                         *)
(* The builder lays a kernel, an initramfs and a device tree out behind an *)
(* allocation pointer in the growing vector m_image, optionally compresses *)
(* the vector, appends the relocated kickstart executable, fills the six   *)
(* image_info words at its start and writes everything as one ELF segment. *)
(*                                                                         *)
(* A vector is a size and a function from offsets to cells.  A cell says   *)
(* which input file, and which place of it, its contents were read from,   *)
(* so that "the bytes survive" can be stated.  One cell stands for one     *)
(* word: the code never looks inside one.                                  *)
(*                                                                         *)
(* Addresses are uint32_t.  U wraps them; `wrapped' remembers that some    *)
(* address did not fit.  A raw read or memcpy through vector.data() that   *)
(* leaves the vector, and the read of an empty optional, end the behaviour *)
(* in pc = "undefined".                                                    *)
(***************************************************************************)
EXTENDS Integers, Sequences, FiniteSets

CONSTANTS
  Space,        \* 2^32, the number of values of a uint32_t
  PageSize,     \* 4096
  KernelAlign,  \* 0x00200000
  FdtSlack,     \* the 8192 bytes added to the length of the DTB file
  InfoSize,     \* words of image_info at the start of the kickstart
  None,         \* an empty std::optional
  Blueprints    \* the command lines main() may be given

(***************************************************************************)
(* The inputs: ELF files as far as the loaders look at them, device trees  *)
(* as far as the builder does.                                             *)
(***************************************************************************)
\* A PT_LOAD program header; the loops skip the other types.
Segment == [paddr : Nat, memsz : Nat, filesz : Nat, offset : Nat]

RelocSection == [alloc : BOOLEAN,     \* its target section has SHF_ALLOC
                 sized : BOOLEAN,     \* sh_entsize and sh_size are right
                 entries : Seq([kind : {"abs", "pcrel", "other"}, offset : Nat])]

ElfFile == [valid : BOOLEAN, entry : Nat, segments : Seq(Segment),
            relocs : Seq(RelocSection)]

\* valid: fdt_open_into accepts it.  start, end: the initrd properties it
\* already has.  sound: the properties of /chosen can be walked.
DtbFile == [size : Nat, valid : BOOLEAN, chosen : {"absent", "sound", "corrupt"},
            start : Nat \cup {None}, end : Nat \cup {None}]

Blueprint == [imageBase : 0 .. Space - 1, compress : BOOLEAN,
              dtb : DtbFile \cup {None}, kernel : ElfFile \cup {None},
              initramfs : Nat \cup {None}, kickstart : ElfFile \cup {None}]

ASSUME SizeAssumption ==
  /\ Space \in Nat \ {0}
  /\ PageSize \in Nat \ {0}
  /\ KernelAlign \in Nat \ {0}
  /\ FdtSlack \in Nat \ {0}
  /\ InfoSize \in Nat \ {0}

ASSUME NoneAssumption ==
  None \notin Int /\ None \notin DtbFile /\ None \notin ElfFile

ASSUME BlueprintAssumption == Blueprints \subseteq Blueprint

(***************************************************************************)
(* 32-bit arithmetic.                                                      *)
(***************************************************************************)
InRange(x) == x \in 0 .. Space - 1

\* Mutant: addresses do not wrap.
U_Unbounded(x) == x

U(x) == IF InRange(x) THEN x ELSE x % Space

Larger(a, b) == IF a < b THEN b ELSE a

\* Mutant: rounded down, as without adding the alignment first.
AlignUp_MaskOnly(p, a) == p - (p % a)

\* Image::alignAllocationPointer, for an alignment that is a power of two.
AlignUp(p, a) == LET q == U(p + (a - 1)) IN q - (q % a)

AlignDown(p, a) == p - (p % a)

(***************************************************************************)
(* std::vector<uint8_t>.                                                   *)
(***************************************************************************)
Sources == {"zero", "kernel", "initramfs", "dtb", "packed", "kickstart", "info"}

\* adds: how many times a relocation has added the load address to the word.
Cell == [from : Sources, at : Nat, adds : Nat]

From(file, k) == [from |-> file, at |-> k, adds |-> 0]

Zero == From("zero", 0)

IsVector(v) == /\ v = [size |-> v.size, cell |-> v.cell]
               /\ v.size \in Nat
               /\ v.cell \in [0 .. v.size - 1 -> Cell]

Empty == [size |-> 0, cell |-> [k \in 0 .. 0 - 1 |-> Zero]]

\* Mutant: the vector is not resized.
Grow_Never(v, n) == v

\* if (v.size() < n) v.resize(n)
Grow(v, n) ==
  IF v.size < n
  THEN [size |-> n,
        cell |-> [k \in 0 .. n - 1 |-> IF k < v.size THEN v.cell[k] ELSE Zero]]
  ELSE v

Inside(v, at, n) == 0 <= at /\ at + n <= v.size

\* n words of `file', from place `off' on, to v.data() + at
Fill(v, at, n, file, off) ==
  [v EXCEPT !.cell =
     [k \in 0 .. v.size - 1 |->
        IF k \in at .. at + n - 1 THEN From(file, off + (k - at)) ELSE v.cell[k]]]

\* m_kickstart's words over m_image's
Overlay(v, at, w) ==
  [v EXCEPT !.cell =
     [k \in 0 .. v.size - 1 |->
        IF k \in at .. at + w.size - 1 THEN w.cell[k - at] ELSE v.cell[k]]]

-----------------------------------------------------------------------------
VARIABLES
  pc,          \* the stage of build() reached
  bp,          \* the blueprint
  alloc,       \* m_allocationPointer
  limit,       \* the local `limit' of build() and of loadExecutable()
  allocLimit,  \* the local `allocationLimit' of loadExecutable()
  next,        \* index of the loop over segments, or relocation sections
  image,       \* m_image
  fdt,         \* m_fdt: its totalsize and its two initrd properties
  delta,       \* m_kernelDelta
  initrdBase,  \* the local initramfsBase
  fdtBase,     \* m_fdtBase
  disp,        \* m_imageDisplacement
  rawSize,     \* the local uncompressedLength
  kick,        \* m_kickstart
  kickBase,    \* m_kickstartBase
  info,        \* the six words of image_info
  elf,         \* the file written by writeElf
  placed,      \* history: m_fdt as it was copied into the image
  payload,     \* history: m_image as it was when compression was decided
  wrapped      \* history: some address computation left 32 bits

vars == <<pc, bp, alloc, limit, allocLimit, next, image, fdt, delta, initrdBase, fdtBase,
          disp, rawSize, kick, kickBase, info, elf, placed, payload, wrapped>>

\* The variables by the part of the build that writes them.
layoutVars == <<bp, alloc, limit, next, image, delta, wrapped>>
kickVars == <<kick, kickBase, allocLimit>>
fdtVars == <<fdt, placed, fdtBase, initrdBase>>
packVars == <<disp, rawSize, payload>>
outVars == <<info, elf>>

Base == bp.imageBase

\* The file was named on the command line and passes its header check.
Usable(file) == file # None /\ file.valid

Reading == {"dtb", "kernel", "segments", "initramfs", "kickstart",
            "kickSegments", "relocs"}

Stages == Reading \cup {"chosen", "props", "fdt", "compress", "finish", "write"}

Ends == {"done", "failed", "aborted", "undefined"}

FdtState == [total : Nat, start : Nat \cup {None}, end : Nat \cup {None}]

NoFdt == [total |-> 0, start |-> None, end |-> None]

NoInfo == [dtb |-> 0, entry |-> 0, src |-> 0, dst |-> 0, srcLen |-> 0, dstLen |-> 0]

Init ==
  /\ pc = "dtb"
  /\ bp \in Blueprints
  /\ alloc = bp.imageBase
  /\ limit = 0 /\ allocLimit = 0 /\ next = 1
  /\ image = Empty /\ kick = Empty /\ payload = Empty
  /\ fdt = NoFdt /\ placed = NoFdt
  /\ delta = None
  /\ initrdBase = 0 /\ fdtBase = 0 /\ disp = 0 /\ rawSize = 0 /\ kickBase = 0
  /\ info = NoInfo
  /\ elf = None
  /\ wrapped = FALSE

\* Every address of the set was computed in 32 bits.
Note(addresses) == wrapped' = (wrapped \/ \E x \in addresses : ~InRange(x))

-----------------------------------------------------------------------------
(***************************************************************************)
(* The device tree and the kernel.                                         *)
(***************************************************************************)
ReadDtb ==
  /\ pc = "dtb"
  /\ Usable(bp.dtb)
  /\ fdt' = [total |-> bp.dtb.size + FdtSlack, start |-> bp.dtb.start, end |-> bp.dtb.end]
  /\ pc' = "kernel"
  /\ UNCHANGED <<layoutVars, placed, initrdBase, fdtBase, kickVars, packVars, outVars>>

OpenKernel ==
  /\ pc = "kernel"
  /\ Usable(bp.kernel)
  /\ alloc' = AlignUp(alloc, KernelAlign)
  /\ limit' = alloc'
  /\ next' = 1
  /\ pc' = "segments"
  /\ Note({alloc + KernelAlign - 1})
  /\ UNCHANGED <<bp, image, delta, fdtVars, kickVars, packVars, outVars>>

\* Mutant: the delta is computed anew for each segment.
DeltaFor_EverySegment(s) == alloc - AlignDown(s.paddr, KernelAlign)

\* Fixed by the first segment loaded, kept for the others.  The difference is
\* taken modulo 2^32 in the code; only its sum with an address is used.
DeltaFor(s) ==
  IF delta = None THEN alloc - AlignDown(s.paddr, KernelAlign) ELSE delta

LoadKernelSegment ==
  /\ pc = "segments" /\ next <= Len(bp.kernel.segments)
  /\ LET s == bp.kernel.segments[next]
         physaddr == U(s.paddr + DeltaFor(s))
         end == Larger(limit, U(physaddr + s.memsz))
         grown == Grow(image, U(end - Base))
     IN /\ delta' = DeltaFor(s)
        /\ limit' = end
        /\ image' = Fill(grown, physaddr - Base, s.filesz, "kernel", s.offset)
        /\ pc' = IF s.filesz = 0 \/ Inside(grown, physaddr - Base, s.filesz)
                 THEN "segments" ELSE "undefined"
        /\ Note({s.paddr + DeltaFor(s), physaddr + s.memsz})
  /\ next' = next + 1
  /\ UNCHANGED <<bp, alloc, fdtVars, kickVars, packVars, outVars>>

CloseKernel ==
  /\ pc = "segments" /\ next > Len(bp.kernel.segments)
  /\ alloc' = AlignUp(limit, PageSize)
  /\ pc' = "chosen"
  /\ Note({limit + PageSize - 1})
  /\ UNCHANGED <<bp, limit, next, image, delta, fdtVars, kickVars, packVars, outVars>>

(***************************************************************************)
(* The initramfs and the two properties of /chosen that point at it.  The  *)
(* properties are set one after the other; when the second cannot be set   *)
(* the first stays in m_fdt and the build fails.                           *)
(***************************************************************************)
FindChosen ==
  /\ pc = "chosen"
  /\ bp.dtb.chosen # "absent"
  /\ pc' = IF bp.initramfs # None THEN "initramfs" ELSE "props"
  /\ UNCHANGED <<layoutVars, fdtVars, kickVars, packVars, outVars>>

PlaceInitramfs ==
  /\ pc = "initramfs"
  /\ LET end == U(alloc + bp.initramfs)
         grown == Grow(image, U(end - Base))
     IN /\ limit' = end
        /\ image' = Fill(grown, alloc - Base, bp.initramfs, "initramfs", 0)
        /\ pc' = IF Inside(grown, alloc - Base, bp.initramfs) THEN "props" ELSE "undefined"
        /\ alloc' = AlignUp(end, PageSize)
        /\ Note({alloc + bp.initramfs, end + PageSize - 1})
  /\ initrdBase' = alloc
  /\ UNCHANGED <<bp, next, delta, fdt, placed, fdtBase, kickVars, packVars, outVars>>

\* Mutant: the end is the aligned allocation pointer.
WithInitrd_Aligned(f) == [f EXCEPT !.start = initrdBase, !.end = alloc]

WithInitrd(f) == [f EXCEPT !.start = initrdBase, !.end = U(initrdBase + bp.initramfs)]

\* Either call may report NOSPACE (the header may claim to be full) or a walk
\* that broke off.
SetInitrdProps ==
  /\ pc = "props" /\ bp.initramfs # None
  /\ \/ /\ fdt' = WithInitrd(fdt)
        /\ pc' = "fdt"
     \/ /\ fdt' \in {fdt, [WithInitrd(fdt) EXCEPT !.end = fdt.end]}
        /\ pc' = "failed"
  /\ UNCHANGED <<layoutVars, placed, initrdBase, fdtBase, kickVars, packVars, outVars>>

WithoutInitrd(f) == [f EXCEPT !.start = None, !.end = None]

\* The results of the two fdt_delprop calls are ignored.  In a node that cannot
\* be walked to its end each of them may have found its property or not.
DeleteInitrdProps ==
  /\ pc = "props" /\ bp.initramfs = None
  /\ fdt' \in IF bp.dtb.chosen = "sound"
             THEN {WithoutInitrd(fdt)}
             ELSE [total : {fdt.total}, start : {fdt.start, None}, end : {fdt.end, None}]
  /\ pc' = "fdt"
  /\ UNCHANGED <<layoutVars, placed, initrdBase, fdtBase, kickVars, packVars, outVars>>

PlaceFdt ==
  /\ pc = "fdt"
  /\ fdtBase' = alloc
  /\ LET end == U(alloc + fdt.total)
         grown == Grow(image, U(end - Base))
     IN /\ limit' = end
        /\ image' = Fill(grown, alloc - Base, fdt.total, "dtb", 0)
        /\ pc' = IF Inside(grown, alloc - Base, fdt.total) THEN "compress" ELSE "undefined"
        /\ alloc' = AlignUp(end, PageSize)
        /\ Note({alloc + fdt.total, end + PageSize - 1})
  /\ placed' = fdt
  /\ UNCHANGED <<bp, next, delta, fdt, initrdBase, kickVars, packVars, outVars>>

(***************************************************************************)
(* Compression.  The encoder returns 0 when its output does not fit in a   *)
(* buffer of the image's own size.                                         *)
(***************************************************************************)
\* Mutant: the size is rounded down.
DisplacementFor_RoundedDown(size) == (size \div PageSize) * PageSize

DisplacementFor(size) == U(((size + (PageSize - 1)) \div PageSize) * PageSize)

StoreImage ==
  /\ pc = "compress"
  /\ disp' = 0 /\ rawSize' = image.size /\ payload' = image
  /\ pc' = "kickstart"
  /\ UNCHANGED <<layoutVars, fdtVars, kickVars, outVars>>

PackImage ==
  /\ pc = "compress" /\ bp.compress
  /\ \E n \in 1 .. image.size :
       /\ image' = [size |-> n, cell |-> [k \in 0 .. n - 1 |-> From("packed", k)]]
       /\ disp' = DisplacementFor(image.size)
       /\ alloc' = AlignUp(U(U(Base + disp') + n), PageSize)
       /\ Note({image.size + PageSize - 1, Base + disp', U(Base + disp') + n,
                U(U(Base + disp') + n) + PageSize - 1})
  /\ rawSize' = image.size /\ payload' = image
  /\ pc' = "kickstart"
  /\ UNCHANGED <<bp, limit, next, delta, fdtVars, kickVars, outVars>>

(***************************************************************************)
(* loadExecutable: the kickstart is linked for 0 and loaded at alloc.      *)
(***************************************************************************)
OpenKickstart ==
  /\ pc = "kickstart"
  /\ Usable(bp.kickstart)
  /\ kickBase' = alloc /\ limit' = alloc /\ allocLimit' = alloc
  /\ next' = 1
  /\ pc' = "kickSegments"
  /\ UNCHANGED <<bp, alloc, image, delta, wrapped, kick, fdtVars, packVars, outVars>>

\* Mutant: memory beyond the file contents is forgotten.
MemoryEnd_FileOnly(s) == U(U(s.paddr + kickBase) + s.filesz)

MemoryEnd(s) == U(U(s.paddr + kickBase) + s.memsz)

\* allocationLimit is taken from `limit', not from its own last value.
LoadKickSegment ==
  /\ pc = "kickSegments" /\ next <= Len(bp.kickstart.segments)
  /\ LET s == bp.kickstart.segments[next]
         physaddr == U(s.paddr + kickBase)
         end == Larger(limit, U(physaddr + s.filesz))
         grown == Grow(kick, U(end - kickBase))
     IN /\ allocLimit' = Larger(limit, MemoryEnd(s))
        /\ limit' = end
        /\ kick' = Fill(grown, physaddr - kickBase, s.filesz, "kickstart", s.offset)
        /\ pc' = IF s.filesz = 0 \/ Inside(grown, physaddr - kickBase, s.filesz)
                 THEN "kickSegments" ELSE "undefined"
        /\ Note({s.paddr + kickBase, physaddr + s.memsz, physaddr + s.filesz})
  /\ next' = next + 1
  /\ UNCHANGED <<bp, alloc, image, delta, kickBase, fdtVars, packVars, outVars>>

CloseKickSegments ==
  /\ pc = "kickSegments" /\ next > Len(bp.kickstart.segments)
  /\ next' = 1
  /\ pc' = "relocs"
  /\ UNCHANGED <<bp, alloc, limit, image, delta, wrapped, fdtVars, kickVars,
                 packVars, outVars>>

\* A section whose target is not in memory is passed over.
Relevant(section) == IF section.alloc THEN section.entries ELSE <<>>

\* The entries processed before the first one of an unsupported type.
Processed(entries) ==
  {i \in DOMAIN entries : \A j \in 1 .. i : entries[j].kind # "other"}

\* Mutant: entries that do not relocate an absolute word count, too.
AbsoluteAt_AnyKind(entries, k) == {i \in Processed(entries) : entries[i].offset = k}

AbsoluteAt(entries, k) ==
  {i \in Processed(entries) : entries[i].kind = "abs" /\ entries[i].offset = k}

\* processImageRelocations on one section.
ApplyRelocs ==
  /\ pc = "relocs" /\ next <= Len(bp.kickstart.relocs)
  /\ bp.kickstart.relocs[next].alloc => bp.kickstart.relocs[next].sized
  /\ LET entries == Relevant(bp.kickstart.relocs[next])
         done == Processed(entries)
     IN /\ kick' = [kick EXCEPT !.cell =
                      [k \in 0 .. kick.size - 1 |->
                         [kick.cell[k] EXCEPT
                            !.adds = @ + Cardinality(AbsoluteAt(entries, k))]]]
        /\ pc' = IF \E i \in done : /\ entries[i].kind = "abs"
                                   /\ entries[i].offset >= kick.size
                 THEN "undefined"
                 ELSE IF done = DOMAIN entries THEN "relocs" ELSE "failed"
  /\ next' = next + 1
  /\ UNCHANGED <<bp, alloc, limit, image, delta, wrapped, kickBase, allocLimit, fdtVars,
                 packVars, outVars>>

CloseKickstart ==
  /\ pc = "relocs" /\ next > Len(bp.kickstart.relocs)
  /\ alloc' = allocLimit
  /\ pc' = "finish"
  /\ UNCHANGED <<bp, limit, next, image, delta, wrapped, fdtVars, kickVars,
                 packVars, outVars>>

-----------------------------------------------------------------------------
(***************************************************************************)
(* The contract with the kickstart, the last copy and the output file.     *)
(***************************************************************************)
ContractWords ==
  [dtb |-> fdtBase, entry |-> U(bp.kernel.entry + delta),
   src |-> U(Base + disp), dst |-> Base,
   srcLen |-> image.size, dstLen |-> rawSize]

WithInfo(v) == Fill(v, 0, InfoSize, "info", 0)

AppendKickstart ==
  /\ pc = "finish"
  /\ IF delta = None \/ kick.size < InfoSize
     THEN /\ pc' = "undefined"
          /\ UNCHANGED <<info, kick, image>>
     ELSE LET at == kickBase - disp - Base
              grown == Grow(image, U(alloc - disp - Base))
          IN /\ info' = ContractWords
             /\ kick' = WithInfo(kick)
             /\ image' = Overlay(grown, at, WithInfo(kick))
             /\ pc' = IF Inside(grown, at, kick.size) THEN "write" ELSE "undefined"
  /\ UNCHANGED <<bp, alloc, limit, next, delta, wrapped, kickBase, allocLimit, elf,
                 fdtVars, packVars>>

WriteElf ==
  /\ pc = "write"
  /\ elf' = [vaddr |-> U(Base + disp), size |-> image.size,
             entry |-> U(bp.kickstart.entry + kickBase)]
  /\ pc' = "done"
  /\ UNCHANGED <<layoutVars, info, fdtVars, kickVars, packVars>>

-----------------------------------------------------------------------------
(***************************************************************************)
(* Failure.  The streams throw on every short read; the checks throw on    *)
(* what they reject.  main() catches both and returns 1.  writeElf runs    *)
(* after the try block: what it throws ends the process.                   *)
(***************************************************************************)
Rejected ==
  \/ pc = "dtb" /\ ~Usable(bp.dtb)
  \/ pc = "kernel" /\ ~Usable(bp.kernel)
  \/ pc = "chosen" /\ bp.dtb.chosen = "absent"
  \/ pc = "kickstart" /\ ~Usable(bp.kickstart)

Throw ==
  /\ pc \in Reading \/ Rejected
  /\ pc' = "failed"
  /\ UNCHANGED <<layoutVars, fdtVars, kickVars, packVars, outVars>>

WriteError ==
  /\ pc = "write"
  /\ pc' = "aborted"
  /\ UNCHANGED <<layoutVars, fdtVars, kickVars, packVars, outVars>>

\* main() has returned or the process is gone.
Ended == pc \in Ends /\ UNCHANGED vars

Next ==
  \/ ReadDtb \/ OpenKernel \/ LoadKernelSegment \/ CloseKernel
  \/ FindChosen \/ PlaceInitramfs \/ SetInitrdProps \/ DeleteInitrdProps \/ PlaceFdt
  \/ StoreImage \/ PackImage
  \/ OpenKickstart \/ LoadKickSegment \/ CloseKickSegments
  \/ ApplyRelocs \/ CloseKickstart
  \/ AppendKickstart \/ WriteElf
  \/ Throw \/ WriteError \/ Ended

Spec == Init /\ [][Next]_vars

-----------------------------------------------------------------------------
(***************************************************************************)
(* Inputs that keep the promises of the ELF format the loaders rely on.    *)
(***************************************************************************)
FileEnd(s) == s.paddr + s.filesz

Sized(f) == /\ f.segments # <<>>
            /\ \A i \in DOMAIN f.segments : f.segments[i].filesz <= f.segments[i].memsz

GoodKernel(f) ==
  /\ Sized(f)
  /\ \A i \in DOMAIN f.segments :
       f.segments[i].paddr >= AlignDown(f.segments[1].paddr, KernelAlign)

GoodKickstart(f) ==
  /\ Sized(f)
  /\ \E i \in DOMAIN f.segments : FileEnd(f.segments[i]) >= InfoSize
  /\ \A r \in DOMAIN f.relocs : \A e \in DOMAIN f.relocs[r].entries :
       \E i \in DOMAIN f.segments :
         f.relocs[r].entries[e].offset < FileEnd(f.segments[i])

WellFormed ==
  /\ bp.kernel # None => GoodKernel(bp.kernel)
  /\ bp.kickstart # None => GoodKickstart(bp.kickstart)

Fits == WellFormed /\ ~wrapped

SegmentsOf(f) == {f.segments[i] : i \in DOMAIN f.segments}

\* No two of its segments claim the same memory.
Apart(f) ==
  \A i, j \in DOMAIN f.segments :
    LET s == f.segments[i]
        t == f.segments[j]
    IN i # j => s.paddr + s.memsz <= t.paddr \/ t.paddr + t.memsz <= s.paddr

-----------------------------------------------------------------------------
(***************************************************************************)
(* Properties.                                                             *)
(***************************************************************************)
\* The members of class Image and the locals of build() have their C++ types:
\* every address is a uint32_t, every vector defined up to its size.
TypeOK ==
  /\ pc \in Stages \cup Ends
  /\ bp \in Blueprints
  /\ alloc \in 0 .. Space - 1 /\ limit \in 0 .. Space - 1 /\ allocLimit \in 0 .. Space - 1
  /\ next \in Nat \ {0}
  /\ IsVector(image) /\ IsVector(kick) /\ IsVector(payload)
  /\ fdt \in FdtState /\ placed \in FdtState
  /\ delta \in Int \cup {None}
  /\ initrdBase \in 0 .. Space - 1 /\ fdtBase \in 0 .. Space - 1
  /\ disp \in 0 .. Space - 1 /\ kickBase \in 0 .. Space - 1
  /\ rawSize \in Nat
  /\ info \in [dtb : Nat, entry : Nat, src : Nat, dst : Nat, srcLen : Nat, dstLen : Nat]
  /\ elf \in {None} \cup [vaddr : Nat, size : Nat, entry : Nat]
  /\ wrapped \in BOOLEAN

\* With well-formed ELF files and a layout that fits in 32 bits, no read and no
\* memcpy through vector.data() leaves its vector, and *m_kernelDelta has a
\* value when the contract words are computed: every resize ran before, and was
\* large enough for, the raw access that follows it.
NoUndefined == Fits => pc # "undefined"

\* An initrd property the kernel finds in the placed device tree delimits the
\* initramfs of this build: without an initramfs, a device tree that came with
\* the properties of an earlier build leaves without them.
InitrdPropsHonest ==
  /\ Fits /\ elf # None /\ bp.dtb.chosen = "sound"
  => IF bp.initramfs = None
     THEN placed.start = None /\ placed.end = None
     ELSE /\ placed.end - placed.start = bp.initramfs
          /\ placed.start \in Base .. fdtBase /\ placed.end <= fdtBase

\* Two regions of addresses [from, from + size).
Disjoint(a, n, b, m) == n = 0 \/ m = 0 \/ a + n <= b \/ b + m <= a

\* While the kickstart decompresses, its source, its destination and its own
\* memory are three regions that do not meet, and what the ELF loader puts in
\* memory is exactly the source and the kickstart.
LayoutDisjoint ==
  Fits /\ elf # None =>
    /\ Disjoint(info.src, info.srcLen, kickBase, alloc - kickBase)
    /\ Disjoint(info.dst, info.dstLen, kickBase, alloc - kickBase)
    /\ disp # 0 => Disjoint(info.src, info.srcLen, info.dst, info.dstLen)
    /\ elf.vaddr <= info.src /\ info.src + info.srcLen <= elf.vaddr + elf.size
    /\ elf.vaddr <= kickBase /\ alloc = elf.vaddr + elf.size

\* The memory of every kickstart segment, its .bss (the stacks) included, is
\* part of the loaded segment when the last one listed is the highest one.
KickstartMemoryReserved ==
  /\ Fits /\ elf # None
  /\ \A s \in SegmentsOf(bp.kickstart) :
       LET last == bp.kickstart.segments[Len(bp.kickstart.segments)]
       IN s.paddr + s.memsz <= last.paddr + last.memsz
  => \A s \in SegmentsOf(bp.kickstart) :
       kickBase + s.paddr + s.memsz <= elf.vaddr + elf.size

\* Each absolute relocation of an allocated section has added the load address
\* once to its word, and no other word was touched: the kickstart, linked for
\* 0, runs at kickBase.
RelocatedOnce ==
  Fits /\ pc = "finish" =>
    LET Entries(r) == bp.kickstart.relocs[r].entries
        AbsAt(r, k) == {<<r, e>> : e \in {i \in DOMAIN Entries(r) :
                                 Entries(r)[i] = [kind |-> "abs", offset |-> k]}}
        sections == {r \in DOMAIN bp.kickstart.relocs : bp.kickstart.relocs[r].alloc}
    IN \A k \in 0 .. kick.size - 1 :
         kick.cell[k].adds = Cardinality(UNION {AbsAt(r, k) : r \in sections})

\* Once read, the bytes of a file are never overwritten by a later stage of the
\* build, except by the compressed form of all of them (or by an overlapping
\* segment of the same kernel).
PlacedStays ==
  [][pc # "segments" /\ Fits' /\ pc' # "undefined" /\ disp' = disp
     => \A k \in 0 .. image.size - 1 :
          image.cell[k] # Zero => k < image'.size /\ image'.cell[k] = image.cell[k]]_vars

=============================================================================
