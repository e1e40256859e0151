----------------------------- MODULE BootChain -----------------------------
(***************************************************************************)
(* The two halves together: the builder writes an ELF file, a boot loader  *)
(* puts its one segment in the memory of the board, the stub decompresses  *)
(* what it was told to and enters the kernel.  Here the stub is what it    *)
(* does to memory; its caches and its stack words are Kickstart's, the way *)
(* the decoder gets at its bytes is LzfseDecoder's.                        *)
(***************************************************************************)
EXTENDS ImageBuild

CONSTANTS
  ScratchGap,   \* the 65536 bytes between _end and the decoder's state
  ScratchSize,  \* the size of that state
  TableSize     \* the 16384 bytes of the MMU's translation table, and its alignment

\* The gap has room for the table, wherever its alignment puts it.
ASSUME ScratchAssumption ==
  /\ ScratchGap \in Nat /\ ScratchSize \in Nat
  /\ TableSize \in Nat \ {0} /\ 2 * TableSize - 1 <= ScratchGap

VARIABLES
  stage,   \* "off", "loaded", "decoding", "decoded", "kernel", "stopped" or "lost"
  mem,     \* the memory of the board, one cell for each address
  done,    \* the words the decoder has written
  packed   \* history: how many words the encoder wrote

boardVars == <<stage, mem, done>>
chainVars == <<vars, boardVars, packed>>

Junk == [from |-> "junk", at |-> 0, adds |-> 0]

With(m, region, cell(_)) == [a \in DOMAIN m |-> IF a \in region THEN cell(a) ELSE m[a]]

BootInit ==
  /\ Init
  /\ stage = "off" /\ mem = [a \in 0 .. -1 |-> Junk] /\ done = 0 /\ packed = 0

Build ==
  /\ Next
  /\ packed' = IF pc = "compress" THEN image'.size ELSE packed
  /\ UNCHANGED boardVars

\* Only images whose layout fits are followed onto the board.
LoadElf ==
  /\ stage = "off" /\ pc = "done" /\ Fits
  /\ mem' = [a \in 0 .. Space - 1 |->
               IF a \in elf.vaddr .. elf.vaddr + elf.size - 1
               THEN image.cell[a - elf.vaddr] ELSE Junk]
  /\ stage' = "loaded"
  /\ UNCHANGED <<vars, done, packed>>

\* Words of the stub that it finds, image_info among them, and words it writes.
StubThere == \A k \in 0 .. kick.size - 1 : mem[kickBase + k] = kick.cell[k]
Bss ==
  UNION {kickBase + s.paddr + s.filesz .. kickBase + s.paddr + s.memsz - 1 :
           s \in SegmentsOf(bp.kickstart)}

\* _end
StubEnd ==
  CHOOSE end \in {kickBase + s.paddr + s.memsz : s \in SegmentsOf(bp.kickstart)} :
    \A s \in SegmentsOf(bp.kickstart) : kickBase + s.paddr + s.memsz <= end
Scratch == StubEnd + ScratchGap .. StubEnd + ScratchGap + ScratchSize - 1

\* Mutant: the address is aligned downwards.
TableBase_Down == StubEnd - (StubEnd % TableSize)

\* The translation table lies at the first aligned address behind _end; the MMU reads
\* it until it is turned off.
TableBase == AlignUp(StubEnd, TableSize)
Table == TableBase .. TableBase + TableSize - 1
TableEntry(a) == [from |-> "table", at |-> a - TableBase, adds |-> 0]
TableThere == \A a \in Table : mem[a] = TableEntry(a)

\* From _start to the branch around decompress_lzfse: the stacks in .bss, the table.
EnterStub ==
  /\ stage = "loaded"
  /\ mem' = With(With(mem, Bss, LAMBDA a : Junk), Table, TableEntry)
  /\ stage' = IF ~StubThere THEN "lost" ELSE IF info.src = info.dst THEN "decoded" ELSE "decoding"
  /\ UNCHANGED <<vars, done, packed>>

\* Which source words the decoder still needs depends on the data: all of them
\* count as needed until it has ended.
SourceThere ==
  packed <= info.srcLen /\ \A k \in 0 .. packed - 1 : mem[info.src + k] = From("packed", k)

DecodeWord ==
  /\ stage = "decoding" /\ done < info.dstLen /\ done < payload.size
  /\ LET word == IF SourceThere THEN payload.cell[done] ELSE Junk
     IN mem' = With(With(mem, Scratch, LAMBDA a : Junk), {info.dst + done}, LAMBDA a : word)
  /\ done' = done + 1
  /\ UNCHANGED <<vars, stage, packed>>

\* A result other than the length it was told stops the stub at a breakpoint.
CheckLength ==
  /\ stage = "decoding" /\ (done = info.dstLen \/ done = payload.size)
  /\ stage' = IF SourceThere /\ done = info.dstLen THEN "decoded" ELSE "stopped"
  /\ UNCHANGED <<vars, mem, done, packed>>

\* What was overwritten stays overwritten: if stub and table are there when the MMU has
\* been turned off, they have been there all the time.
EnterKernel ==
  /\ stage = "decoded"
  /\ stage' = IF StubThere /\ TableThere THEN "kernel" ELSE "lost"
  /\ UNCHANGED <<vars, mem, done, packed>>

BootNext ==
  \/ Build \/ LoadElf
  \/ EnterStub \/ DecodeWord \/ CheckLength \/ EnterKernel

BootSpec == BootInit /\ [][BootNext]_chainVars
-----------------------------------------------------------------------------
(* Properties.                                                              *)

\* There is memory for the decoder's state and, in the gap in front of it, for the
\* translation table, which nobody reserves.
ScratchFits == StubEnd + ScratchGap + ScratchSize <= Space

\* The linker script puts .bss behind everything else: no word of the file lies
\* above a part of the memory that is not in the file.
BssLast ==
  \A s, t \in SegmentsOf(bp.kickstart) : s.memsz > s.filesz => FileEnd(t) <= FileEnd(s)

\* Every image that is built boots: the stub finds itself and its six words,
\* before and after it has decompressed, and its table, and is not stopped; the kernel finds
\* its segments moved by one delta, its entry point moved by the same, at the
\* address it is told the device tree as it was placed, and where that says the
\* initramfs.  Source, destination, stacks, table and decoder state share one memory.
BootSound ==
  stage # "off" /\ BssLast /\ ScratchFits =>
    /\ stage \notin {"lost", "stopped"}
    /\ stage = "kernel" /\ Apart(bp.kernel) =>
         /\ info.entry = U(bp.kernel.entry + delta) /\ delta % KernelAlign = 0
         /\ \A s \in SegmentsOf(bp.kernel) : \A k \in 0 .. s.memsz - 1 :
              mem[s.paddr + delta + k] = IF k < s.filesz THEN From("kernel", s.offset + k) ELSE Zero
         /\ \A k \in 0 .. placed.total - 1 : mem[info.dtb + k] = From("dtb", k)
         /\ bp.initramfs # None =>
              \A k \in 0 .. bp.initramfs - 1 : mem[placed.start + k] = From("initramfs", k)
=============================================================================
