--------------------------- MODULE BootChain_proofs ---------------------------
(***************************************************************************)
(* Proofs about ImageBuild and BootChain, for every size of the address    *)
(* space, pages, files, translation table and decoder state, and for every *)
(* blueprint.                                                              *)
(*                                                                         *)
(* The first half is about the builder alone: the layout and the loops say *)
(* where everything is, and on well-formed inputs a run matches the plan.  *)
(* The second half says what is there: first in the vector the builder     *)
(* fills, then in the memory of the board, and so what is built boots.     *)
(***************************************************************************)
EXTENDS BootChain, FiniteSetTheorems, DataLemmas

-----------------------------------------------------------------------------
(***************************************************************************)
(* 32-bit arithmetic.                                                      *)
(***************************************************************************)

\* A computed address is a uint32_t.
LEMMA URange == \A x \in Int : U(x) \in 0 .. Space - 1
BY SizeAssumption DEF U, InRange

\* An address that fits is not changed.
LEMMA UExact == \A x \in Int : InRange(x) => U(x) = x
BY DEF U

\* alignAllocationPointer yields a uint32_t; when it does not wrap, it moves
\* the pointer up, by less than the alignment.
LEMMA AlignUpBounds ==
  ASSUME NEW p \in Int, NEW a \in Nat \ {0}
  PROVE  /\ AlignUp(p, a) \in 0 .. Space - 1
         /\ InRange(p + (a - 1)) => p <= AlignUp(p, a)
<1> DEFINE q == U(p + (a - 1))
<1>1. q \in 0 .. Space - 1
  BY URange
<1>2. q % a \in 0 .. a - 1
  BY <1>1, SizeAssumption
<1>3. q % a <= q
  BY <1>1, SizeAssumption
<1>4. InRange(p + (a - 1)) => q = p + (a - 1)
  BY UExact
<1> QED
  BY <1>1, <1>2, <1>3, <1>4, SizeAssumption DEF AlignUp

\* The displacement of the compressed image is at least the size it clears.
LEMMA DisplacementBounds ==
  ASSUME NEW size \in Nat
  PROVE  /\ DisplacementFor(size) \in 0 .. Space - 1
         /\ InRange(size + (PageSize - 1)) => size <= DisplacementFor(size)
<1> DEFINE t == size + (PageSize - 1)
           r == (t \div PageSize) * PageSize
<1>1. t \in Nat /\ t \div PageSize \in Nat
  BY SizeAssumption
<1>2. r \in Nat /\ r <= t /\ t < r + PageSize
  BY <1>1, SizeAssumption
<1>3. DisplacementFor(size) = U(r)
  BY DEF DisplacementFor
<1>4. U(r) \in 0 .. Space - 1
  BY <1>2, URange
<1>5. InRange(t) => InRange(r)
  BY <1>1, <1>2, SizeAssumption DEF InRange
<1>6. InRange(t) => U(r) = r
  BY <1>5, <1>2, UExact
<1> HIDE DEF r
<1> QED
  BY <1>2, <1>3, <1>4, <1>6, SizeAssumption

-----------------------------------------------------------------------------
(***************************************************************************)
(* Vectors.                                                                *)
(***************************************************************************)

\* resize keeps a vector a vector and makes it at least as long as asked.
LEMMA GrowVector ==
  ASSUME NEW v, IsVector(v), NEW n \in Nat
  PROVE  /\ IsVector(Grow(v, n))
         /\ Grow(v, n).size = IF v.size < n THEN n ELSE v.size
<1>1. Zero \in Cell
  BY DEF Zero, From, Cell, Sources
<1>2. CASE v.size < n
  <2>1. [k \in 0 .. n - 1 |-> IF k < v.size THEN v.cell[k] ELSE Zero]
          \in [0 .. n - 1 -> Cell]
    BY <1>1, <1>2 DEF IsVector
  <2> QED
    BY <1>2, <2>1 DEF Grow, IsVector
<1>3. CASE ~(v.size < n)
  BY <1>3 DEF Grow
<1> QED
  BY <1>2, <1>3

\* Reading a file into a vector changes cells, not the size.
LEMMA FillVector ==
  ASSUME NEW v, IsVector(v), NEW at \in Int, NEW n \in Nat,
         NEW file \in Sources, NEW off \in Nat
  PROVE  IsVector(Fill(v, at, n, file, off)) /\ Fill(v, at, n, file, off).size = v.size
<1> DEFINE c == [k \in 0 .. v.size - 1 |->
                  IF k \in at .. at + n - 1 THEN From(file, off + (k - at)) ELSE v.cell[k]]
<1>1. \A k \in 0 .. v.size - 1 : k \in at .. at + n - 1 => From(file, off + (k - at)) \in Cell
  BY DEF From, Cell, IsVector
<1>2. c \in [0 .. v.size - 1 -> Cell]
  BY <1>1 DEF IsVector
<1>3. Fill(v, at, n, file, off) = [size |-> v.size, cell |-> c]
  BY DEF Fill, IsVector
<1> HIDE DEF c
<1> QED
  BY <1>2, <1>3 DEF IsVector

\* So does copying one vector into another.
LEMMA OverlayVector ==
  ASSUME NEW v, IsVector(v), NEW w, IsVector(w), NEW at \in Int
  PROVE  IsVector(Overlay(v, at, w)) /\ Overlay(v, at, w).size = v.size
<1> DEFINE c == [k \in 0 .. v.size - 1 |->
                  IF k \in at .. at + w.size - 1 THEN w.cell[k - at] ELSE v.cell[k]]
<1>0. /\ v.size \in Nat /\ v.cell \in [0 .. v.size - 1 -> Cell]
      /\ w.size \in Nat /\ w.cell \in [0 .. w.size - 1 -> Cell]
  BY DEF IsVector
<1>1. \A k \in 0 .. v.size - 1 : k \in at .. at + w.size - 1 => w.cell[k - at] \in Cell
  BY <1>0
<1>2. c \in [0 .. v.size - 1 -> Cell]
  <2>1. ASSUME NEW k \in 0 .. v.size - 1
        PROVE  (IF k \in at .. at + w.size - 1 THEN w.cell[k - at] ELSE v.cell[k]) \in Cell
    <3>1. v.cell[k] \in Cell
      BY <1>0, <2>1
    <3> QED
      BY <1>1, <2>1, <3>1, Zenon
  <2> QED
    BY <2>1, Zenon
<1>3. Overlay(v, at, w) = [size |-> v.size, cell |-> c]
  <2>1. v = [size |-> v.size, cell |-> v.cell]
    BY DEF IsVector
  <2>2. Overlay(v, at, w) = [v EXCEPT !.cell = c]
    BY DEF Overlay
  <2> HIDE DEF c
  <2> QED
    BY <2>1, <2>2
<1> HIDE DEF c
<1> QED
  BY <1>2, <1>3 DEF IsVector

\* The encoder's output is a vector of its own.
LEMMA PackedVector ==
  ASSUME NEW n \in Nat
  PROVE  IsVector([size |-> n, cell |-> [k \in 0 .. n - 1 |-> From("packed", k)]])
<1>1. \A k \in 0 .. n - 1 : From("packed", k) \in Cell
  BY DEF From, Cell, Sources
<1> QED
  BY <1>1 DEF IsVector

\* A relocated executable is still a vector of the same size.
LEMMA RelocatedVector ==
  ASSUME NEW v, IsVector(v), NEW count, \A k \in 0 .. v.size - 1 : count[k] \in Nat
  PROVE  LET c == [k \in 0 .. v.size - 1 |->
                     [v.cell[k] EXCEPT !.adds = @ + count[k]]]
             r == [v EXCEPT !.cell = c]
         IN IsVector(r) /\ r.size = v.size
<1> DEFINE c == [k \in 0 .. v.size - 1 |-> [v.cell[k] EXCEPT !.adds = @ + count[k]]]
<1>1. \A k \in 0 .. v.size - 1 : [v.cell[k] EXCEPT !.adds = @ + count[k]] \in Cell
  <2> SUFFICES ASSUME NEW k \in 0 .. v.size - 1
               PROVE  [v.cell[k] EXCEPT !.adds = @ + count[k]] \in Cell
    OBVIOUS
  <2>1. v.cell[k] \in Cell
    BY DEF IsVector
  <2> QED
    BY <2>1 DEF Cell
<1>2. c \in [0 .. v.size - 1 -> Cell]
  BY <1>1
<1> HIDE DEF c
<1>3. [v EXCEPT !.cell = c] = [size |-> v.size, cell |-> c]
  <2>1. v = [size |-> v.size, cell |-> v.cell]
    BY DEF IsVector
  <2> QED
    BY <2>1
<1>4. v.size \in Nat
  BY DEF IsVector
<1>5. IsVector([v EXCEPT !.cell = c]) /\ [v EXCEPT !.cell = c].size = v.size
  BY <1>2, <1>3, <1>4 DEF IsVector
<1> QED
  BY <1>5 DEF c

-----------------------------------------------------------------------------
(***************************************************************************)
(* Type correctness.  The loops index the files the earlier stages have    *)
(* accepted, so the invariant says which files each stage may rely on.     *)
(***************************************************************************)
FilesAccepted ==
  /\ pc \in Stages \ {"dtb"} => bp.dtb \in DtbFile
  /\ pc \in Stages \ {"dtb", "kernel"} => bp.kernel \in ElfFile
  /\ pc = "initramfs" => bp.initramfs \in Nat
  /\ pc \in {"kickSegments", "relocs", "finish", "write"} => bp.kickstart \in ElfFile

TypeInv == TypeOK /\ FilesAccepted

\* What the command line may hold.
LEMMA BlueprintType ==
  ASSUME bp \in Blueprints
  PROVE  /\ Base \in 0 .. Space - 1
         /\ Usable(bp.dtb) => bp.dtb \in DtbFile
         /\ Usable(bp.kernel) => bp.kernel \in ElfFile
         /\ Usable(bp.kickstart) => bp.kickstart \in ElfFile
         /\ bp.initramfs # None => bp.initramfs \in Nat
BY BlueprintAssumption DEF Blueprint, Base, Usable

\* A program header read from an accepted file.
LEMMA SegmentType ==
  ASSUME NEW f \in ElfFile, NEW i \in Nat \ {0}, i <= Len(f.segments)
  PROVE  f.segments[i] \in Segment
BY DEF ElfFile

\* The number of references to a word is a number.
LEMMA ReferencesCount ==
  ASSUME NEW f \in ElfFile, NEW i \in Nat \ {0}, i <= Len(f.relocs), NEW k
  PROVE  Cardinality(AbsoluteAt(Relevant(f.relocs[i]), k)) \in Nat
<1> DEFINE entries == Relevant(f.relocs[i])
<1>1. f.relocs[i] \in RelocSection
  BY DEF ElfFile
<1>2. entries \in Seq([kind : {"abs", "pcrel", "other"}, offset : Nat])
  BY <1>1 DEF Relevant, RelocSection
<1>3. DOMAIN entries = 1 .. Len(entries) /\ Len(entries) \in Nat
  BY <1>2
<1> HIDE DEF entries
<1>4. IsFiniteSet(1 .. Len(entries))
  BY <1>3, FS_Interval
<1>5. AbsoluteAt(entries, k) \subseteq 1 .. Len(entries)
  BY <1>3 DEF AbsoluteAt, Processed
<1>6. IsFiniteSet(AbsoluteAt(entries, k))
  BY <1>4, <1>5, FS_Subset
<1>7. Cardinality(AbsoluteAt(entries, k)) \in Nat
  BY <1>6, FS_CardinalityType
<1> QED
  BY <1>7 DEF entries

\* build() starts from empty vectors and the base address of the command line.
LEMMA TypeInit == Init => TypeInv
<1> SUFFICES ASSUME Init PROVE TypeInv
  OBVIOUS
<1>1. IsVector(Empty)
  BY DEF IsVector, Empty
<1>2. bp.imageBase \in 0 .. Space - 1 /\ 0 \in 0 .. Space - 1
  BY BlueprintType, SizeAssumption DEF Init, Base
<1>3. TypeOK
  <2>1. fdt \in FdtState /\ placed \in FdtState
    BY DEF Init, FdtState, NoFdt
  <2>2. info \in [dtb : Nat, entry : Nat, src : Nat, dst : Nat, srcLen : Nat, dstLen : Nat]
    BY DEF Init, NoInfo
  <2>3. IsVector(image) /\ IsVector(kick) /\ IsVector(payload)
    BY <1>1 DEF Init
  <2>4. pc \in Stages \cup Ends
    BY DEF Init, Stages, Reading
  <2>5. wrapped \in BOOLEAN /\ elf \in {None} /\ delta \in {None} /\ bp \in Blueprints
    BY DEF Init
  <2>6. next \in Nat \ {0} /\ rawSize \in Nat
    BY DEF Init
  <2>7. /\ alloc \in 0 .. Space - 1 /\ limit \in 0 .. Space - 1
        /\ allocLimit \in 0 .. Space - 1 /\ initrdBase \in 0 .. Space - 1
        /\ fdtBase \in 0 .. Space - 1 /\ disp \in 0 .. Space - 1
        /\ kickBase \in 0 .. Space - 1
    BY <1>2 DEF Init
  <2> QED
    BY <2>1, <2>2, <2>3, <2>4, <2>5, <2>6, <2>7 DEF TypeOK
<1>4. FilesAccepted
  BY DEF Init, FilesAccepted, Stages, Reading
<1> QED
  BY <1>3, <1>4 DEF TypeInv

\* Every stage of build(), failures included, leaves the state well typed.
LEMMA TypeNext == TypeInv /\ [Next]_vars => TypeInv'
<1> SUFFICES ASSUME TypeInv, [Next]_vars PROVE TypeInv'
  OBVIOUS
<1> USE SizeAssumption DEF TypeInv, Stages, Reading, Ends
<1>b. /\ Base \in 0 .. Space - 1
      /\ bp \in Blueprints
      /\ bp' = bp
  BY BlueprintType DEF TypeOK, Next, vars, layoutVars, fdtVars, kickVars, packVars, outVars,
       ReadDtb, OpenKernel,
     LoadKernelSegment, CloseKernel, FindChosen, PlaceInitramfs, SetInitrdProps,
     DeleteInitrdProps, PlaceFdt, StoreImage, PackImage, OpenKickstart, LoadKickSegment,
     CloseKickSegments, ApplyRelocs, CloseKickstart, AppendKickstart, WriteElf, Throw,
     WriteError, Ended
<1>s. image.size \in Nat /\ kick.size \in Nat
  BY DEF TypeOK, IsVector
<1>1. CASE ReadDtb
  <2>1. bp.dtb \in DtbFile
    BY <1>1, <1>b, BlueprintType DEF ReadDtb
  <2>2. fdt' \in FdtState
    BY <1>1, <2>1 DEF ReadDtb, DtbFile, FdtState
  <2>3. TypeOK'
    BY <1>1, <2>2 DEF ReadDtb, TypeOK, layoutVars, fdtVars, kickVars, packVars, outVars
  <2> QED
    BY <1>1, <1>b, <2>1, <2>3 DEF ReadDtb, FilesAccepted
<1>2. CASE OpenKernel
  <2>1. alloc' \in 0 .. Space - 1
    BY <1>2, AlignUpBounds DEF OpenKernel, TypeOK
  <2>2. bp.kernel \in ElfFile
    BY <1>2, <1>b, BlueprintType DEF OpenKernel
  <2>3. wrapped' \in BOOLEAN
    BY <1>2 DEF OpenKernel, Note, TypeOK
  <2>4. TypeOK'
    BY <1>2, <2>1, <2>3 DEF OpenKernel, TypeOK, fdtVars, kickVars, packVars, outVars
  <2> QED
    BY <1>2, <1>b, <2>2, <2>4 DEF OpenKernel, FilesAccepted
<1>3. CASE LoadKernelSegment
  <2> DEFINE s == bp.kernel.segments[next]
             physaddr == U(s.paddr + DeltaFor(s))
             end == Larger(limit, U(physaddr + s.memsz))
             grown == Grow(image, U(end - Base))
  <2>1. bp.kernel \in ElfFile /\ s \in Segment
    BY <1>3, SegmentType DEF LoadKernelSegment, FilesAccepted, TypeOK
  <2>2. AlignDown(s.paddr, KernelAlign) \in Int
    BY <2>1 DEF AlignDown, Segment
  <2>3. DeltaFor(s) \in Int
    BY <2>2 DEF DeltaFor, TypeOK
  <2>4. physaddr \in 0 .. Space - 1
    BY <2>1, <2>3, URange DEF Segment
  <2>5. end \in 0 .. Space - 1
    BY <2>1, <2>4, URange DEF Segment, Larger, TypeOK
  <2>6. U(end - Base) \in Nat
    BY <1>b, <2>5, URange
  <2>7. IsVector(grown)
    BY <2>6, GrowVector DEF TypeOK
  <2>8. IsVector(image')
    <3>1. image' = Fill(grown, physaddr - Base, s.filesz, "kernel", s.offset)
      BY <1>3 DEF LoadKernelSegment
    <3>2. physaddr - Base \in Int /\ s.filesz \in Nat /\ s.offset \in Nat
      BY <1>b, <2>1, <2>4 DEF Segment
    <3> HIDE DEF grown, physaddr, s
    <3> QED
      BY <2>7, <3>1, <3>2, FillVector DEF Sources
  <2>9. pc' \in {"segments", "undefined"} /\ wrapped' \in BOOLEAN
    BY <1>3 DEF LoadKernelSegment, Note, TypeOK
  <2>10. limit' \in 0 .. Space - 1 /\ delta' \in Int /\ next' \in Nat \ {0}
    BY <1>3, <2>3, <2>5 DEF LoadKernelSegment, TypeOK
  <2>11. TypeOK'
    BY <1>3, <1>b, <2>8, <2>9, <2>10
    DEF LoadKernelSegment, TypeOK, fdtVars, kickVars, packVars, outVars
  <2> QED
    BY <1>3, <1>b, <2>9, <2>11 DEF LoadKernelSegment, FilesAccepted
<1>4. CASE CloseKernel
  <2>1. alloc' \in 0 .. Space - 1 /\ wrapped' \in BOOLEAN
    BY <1>4, AlignUpBounds DEF CloseKernel, Note, TypeOK
  <2>2. TypeOK'
    BY <1>4, <2>1 DEF CloseKernel, TypeOK, fdtVars, kickVars, packVars, outVars
  <2> QED
    BY <1>4, <2>2 DEF CloseKernel, FilesAccepted
<1>5. CASE FindChosen
  <2>1. TypeOK'
    BY <1>5 DEF FindChosen, TypeOK, layoutVars, fdtVars, kickVars, packVars, outVars
  <2> QED
    BY <1>5, <1>b, <2>1, BlueprintType DEF FindChosen, FilesAccepted, layoutVars
<1>6. CASE PlaceInitramfs
  <2> DEFINE end == U(alloc + bp.initramfs)
             grown == Grow(image, U(end - Base))
  <2>1. bp.initramfs \in Nat
    BY <1>6 DEF PlaceInitramfs, FilesAccepted
  <2>2. end \in 0 .. Space - 1
    BY <2>1, URange DEF TypeOK
  <2>3. U(end - Base) \in Nat
    BY <1>b, <2>2, URange
  <2>4. IsVector(grown)
    BY <2>3, GrowVector DEF TypeOK
  <2>5. IsVector(image')
    <3>1. image' = Fill(grown, alloc - Base, bp.initramfs, "initramfs", 0)
      BY <1>6 DEF PlaceInitramfs
    <3>2. alloc - Base \in Int
      BY <1>b DEF TypeOK
    <3> HIDE DEF grown
    <3> QED
      BY <2>1, <2>4, <3>1, <3>2, FillVector DEF Sources
  <2>6. alloc' \in 0 .. Space - 1
    BY <1>6, <2>2, AlignUpBounds DEF PlaceInitramfs
  <2>7. pc' \in {"props", "undefined"} /\ wrapped' \in BOOLEAN
    BY <1>6 DEF PlaceInitramfs, Note, TypeOK
  <2>8. limit' \in 0 .. Space - 1 /\ initrdBase' \in 0 .. Space - 1
    BY <1>6, <2>2 DEF PlaceInitramfs, TypeOK
  <2>9. TypeOK'
    BY <1>6, <1>b, <2>5, <2>6, <2>7, <2>8
    DEF PlaceInitramfs, TypeOK, kickVars, packVars, outVars
  <2> QED
    BY <1>6, <1>b, <2>7, <2>9 DEF PlaceInitramfs, FilesAccepted
<1>7. CASE SetInitrdProps
  <2>1. bp.initramfs \in Nat
    BY <1>7, <1>b, BlueprintType DEF SetInitrdProps
  <2>2. U(initrdBase + bp.initramfs) \in Nat
    BY <2>1, URange DEF TypeOK
  <2>3. WithInitrd(fdt) \in FdtState /\ [WithInitrd(fdt) EXCEPT !.end = fdt.end] \in FdtState
    <3>1. fdt \in FdtState /\ initrdBase \in Nat
      BY DEF TypeOK
    <3>2. WithInitrd(fdt) \in FdtState
      BY <2>2, <3>1 DEF WithInitrd, FdtState
    <3> QED
      BY <3>1, <3>2 DEF FdtState
  <2>4. fdt' \in FdtState /\ pc' \in {"fdt", "failed"}
    BY <1>7, <2>3 DEF SetInitrdProps, TypeOK
  <2>5. TypeOK'
    BY <1>7, <2>4 DEF SetInitrdProps, TypeOK, layoutVars, kickVars, packVars, outVars
  <2> QED
    BY <1>7, <1>b, <2>4, <2>5 DEF SetInitrdProps, FilesAccepted
<1>8. CASE DeleteInitrdProps
  <2>1. fdt' \in FdtState
    BY <1>8 DEF DeleteInitrdProps, WithoutInitrd, FdtState, TypeOK
  <2>2. TypeOK'
    BY <1>8, <2>1 DEF DeleteInitrdProps, TypeOK, layoutVars, kickVars, packVars, outVars
  <2> QED
    BY <1>8, <1>b, <2>2 DEF DeleteInitrdProps, FilesAccepted
<1>9. CASE PlaceFdt
  <2> DEFINE end == U(alloc + fdt.total)
             grown == Grow(image, U(end - Base))
  <2>1. fdt.total \in Nat
    BY DEF TypeOK, FdtState
  <2>2. end \in 0 .. Space - 1
    BY <2>1, URange DEF TypeOK
  <2>3. U(end - Base) \in Nat
    BY <1>b, <2>2, URange
  <2>4. IsVector(grown)
    BY <2>3, GrowVector DEF TypeOK
  <2>5. IsVector(image')
    <3>1. image' = Fill(grown, alloc - Base, fdt.total, "dtb", 0)
      BY <1>9 DEF PlaceFdt
    <3>2. alloc - Base \in Int
      BY <1>b DEF TypeOK
    <3> HIDE DEF grown
    <3> QED
      BY <2>1, <2>4, <3>1, <3>2, FillVector DEF Sources
  <2>6. alloc' \in 0 .. Space - 1
    BY <1>9, <2>2, AlignUpBounds DEF PlaceFdt
  <2>7. pc' \in {"compress", "undefined"} /\ wrapped' \in BOOLEAN
    BY <1>9 DEF PlaceFdt, Note, TypeOK
  <2>8. limit' \in 0 .. Space - 1 /\ fdtBase' \in 0 .. Space - 1 /\ placed' \in FdtState
    BY <1>9, <2>2 DEF PlaceFdt, TypeOK
  <2>9. TypeOK'
    BY <1>9, <1>b, <2>5, <2>6, <2>7, <2>8
    DEF PlaceFdt, TypeOK, kickVars, packVars, outVars
  <2> QED
    BY <1>9, <1>b, <2>7, <2>9 DEF PlaceFdt, FilesAccepted
<1>10. CASE StoreImage
  <2>1. 0 \in 0 .. Space - 1
    OBVIOUS
  <2>2. TypeOK'
    BY <1>10, <1>s, <2>1 DEF StoreImage, TypeOK, layoutVars, fdtVars, kickVars, outVars
  <2> QED
    BY <1>10, <1>b, <2>2 DEF StoreImage, FilesAccepted
<1>11. CASE PackImage
  <2>1. image.size \in Nat
    BY DEF TypeOK, IsVector
  <2>2. disp' \in 0 .. Space - 1
    BY <1>11, <2>1, DisplacementBounds DEF PackImage
  <2>3. PICK n \in 1 .. image.size :
          /\ image' = [size |-> n, cell |-> [k \in 0 .. n - 1 |-> From("packed", k)]]
          /\ alloc' = AlignUp(U(U(Base + disp') + n), PageSize)
    BY <1>11 DEF PackImage
  <2>4. IsVector(image')
    BY <2>1, <2>3, PackedVector
  <2>5. U(U(Base + disp') + n) \in Int
    BY <1>b, <2>1, <2>2, URange
  <2>6. alloc' \in 0 .. Space - 1
    BY <2>3, <2>5, AlignUpBounds
  <2>7. wrapped' \in BOOLEAN
    BY <1>11 DEF PackImage, Note, TypeOK
  <2>8. TypeOK'
    BY <1>11, <1>b, <2>1, <2>2, <2>4, <2>6, <2>7
    DEF PackImage, TypeOK, fdtVars, kickVars, outVars
  <2> QED
    BY <1>11, <1>b, <2>8 DEF PackImage, FilesAccepted
<1>12. CASE OpenKickstart
  <2>1. bp.kickstart \in ElfFile
    BY <1>12, <1>b, BlueprintType DEF OpenKickstart
  <2>2. TypeOK'
    BY <1>12 DEF OpenKickstart, TypeOK, fdtVars, packVars, outVars
  <2> QED
    BY <1>12, <1>b, <2>1, <2>2 DEF OpenKickstart, FilesAccepted
<1>13. CASE LoadKickSegment
  <2> DEFINE s == bp.kickstart.segments[next]
             physaddr == U(s.paddr + kickBase)
             end == Larger(limit, U(physaddr + s.filesz))
             grown == Grow(kick, U(end - kickBase))
  <2>1. bp.kickstart \in ElfFile /\ s \in Segment
    BY <1>13, SegmentType DEF LoadKickSegment, FilesAccepted, TypeOK
  <2>2. physaddr \in 0 .. Space - 1
    BY <2>1, URange DEF Segment, TypeOK
  <2>3. end \in 0 .. Space - 1
    BY <2>1, <2>2, URange DEF Segment, Larger, TypeOK
  <2>4. U(end - kickBase) \in Nat
    BY <2>3, URange DEF TypeOK
  <2>5. MemoryEnd(s) \in 0 .. Space - 1
    BY <2>1, <2>2, URange DEF Segment, MemoryEnd
  <2>6. allocLimit' \in 0 .. Space - 1
    BY <1>13, <2>5 DEF LoadKickSegment, Larger, TypeOK
  <2>7. IsVector(grown)
    BY <2>4, GrowVector DEF TypeOK
  <2>8. physaddr - kickBase \in Int
    BY <2>2 DEF TypeOK
  <2>9. IsVector(kick')
    BY <1>13, <2>1, <2>7, <2>8, FillVector DEF LoadKickSegment, Segment, Sources
  <2>10. pc' \in {"kickSegments", "undefined"} /\ wrapped' \in BOOLEAN
    BY <1>13 DEF LoadKickSegment, Note, TypeOK
  <2>11. limit' \in 0 .. Space - 1 /\ next' \in Nat \ {0}
    BY <1>13, <2>3 DEF LoadKickSegment, TypeOK
  <2>12. TypeOK'
    BY <1>13, <1>b, <2>6, <2>9, <2>10, <2>11
    DEF LoadKickSegment, TypeOK, fdtVars, packVars, outVars
  <2> QED
    BY <1>13, <1>b, <2>10, <2>12 DEF LoadKickSegment, FilesAccepted
<1>14. CASE CloseKickSegments
  <2>1. TypeOK'
    BY <1>14 DEF CloseKickSegments, TypeOK, fdtVars, kickVars, packVars, outVars
  <2> QED
    BY <1>14, <1>b, <2>1 DEF CloseKickSegments, FilesAccepted
<1>15. CASE ApplyRelocs
  <2> DEFINE entries == Relevant(bp.kickstart.relocs[next])
             count == [k \in 0 .. kick.size - 1 |-> Cardinality(AbsoluteAt(entries, k))]
  <2>1. bp.kickstart \in ElfFile /\ next <= Len(bp.kickstart.relocs)
    BY <1>15 DEF ApplyRelocs, FilesAccepted
  <2>2. \A k \in 0 .. kick.size - 1 : count[k] \in Nat
    BY <2>1, ReferencesCount DEF TypeOK
  <2>3. kick' = [kick EXCEPT !.cell =
                   [k \in 0 .. kick.size - 1 |-> [kick.cell[k] EXCEPT !.adds = @ + count[k]]]]
    BY <1>15 DEF ApplyRelocs
  <2> HIDE DEF count
  <2>4. IsVector(kick')
    BY <2>2, <2>3, RelocatedVector DEF TypeOK
  <2>5. pc' \in {"relocs", "undefined", "failed"} /\ next' \in Nat \ {0}
    <3>1. pc' = "relocs" \/ pc' = "undefined" \/ pc' = "failed"
      BY <1>15, Zenon DEF ApplyRelocs
    <3>2. next' = next + 1
      BY <1>15 DEF ApplyRelocs
    <3> QED
      BY <3>1, <3>2 DEF TypeOK
  <2>6. TypeOK'
    BY <1>15, <2>4, <2>5 DEF ApplyRelocs, TypeOK, fdtVars, packVars, outVars
  <2> QED
    BY <1>15, <1>b, <2>5, <2>6 DEF ApplyRelocs, FilesAccepted
<1>16. CASE CloseKickstart
  <2>1. TypeOK'
    BY <1>16 DEF CloseKickstart, TypeOK, fdtVars, kickVars, packVars, outVars
  <2> QED
    BY <1>16, <1>b, <2>1 DEF CloseKickstart, FilesAccepted
<1>17. CASE AppendKickstart
  <2>1. CASE delta = None \/ kick.size < InfoSize
    <3>1. TypeOK'
      BY <1>17, <2>1 DEF AppendKickstart, TypeOK, fdtVars, packVars
    <3> QED
      BY <1>17, <1>b, <2>1, <3>1 DEF AppendKickstart, FilesAccepted
  <2>2. CASE ~(delta = None \/ kick.size < InfoSize)
    <3> DEFINE at == kickBase - disp - Base
               grown == Grow(image, U(alloc - disp - Base))
    <3>1. at \in Int /\ U(alloc - disp - Base) \in Nat
      BY <1>b, URange DEF TypeOK
    <3>2. IsVector(WithInfo(kick))
      BY FillVector DEF WithInfo, TypeOK, Sources
    <3>3. IsVector(grown)
      BY <3>1, GrowVector DEF TypeOK
    <3>4. IsVector(Overlay(grown, at, WithInfo(kick)))
      BY <3>1, <3>2, <3>3, OverlayVector
    <3>5. bp.kernel \in ElfFile /\ delta \in Int
      BY <1>17, <2>2 DEF AppendKickstart, FilesAccepted, TypeOK
    <3>6. /\ U(bp.kernel.entry + delta) \in Nat /\ U(Base + disp) \in Nat
          /\ image.size \in Nat /\ Base \in Nat /\ fdtBase \in Nat /\ rawSize \in Nat
        <4>1. bp.kernel.entry \in Nat
        BY <3>5 DEF ElfFile
      <4>2. /\ Base \in Nat /\ disp \in Nat /\ fdtBase \in Nat /\ rawSize \in Nat
        BY <1>b DEF TypeOK
      <4> QED
        BY <1>s, <3>5, <4>1, <4>2, URange
    <3>7. ContractWords \in [dtb : Nat, entry : Nat, src : Nat, dst : Nat,
                             srcLen : Nat, dstLen : Nat]
      BY <3>6 DEF ContractWords
    <3>8. /\ info' = ContractWords
          /\ kick' = WithInfo(kick)
          /\ image' = Overlay(grown, at, WithInfo(kick))
          /\ pc' \in {"write", "undefined"}
      BY <1>17, <2>2 DEF AppendKickstart
    <3>9. TypeOK'
      BY <1>17, <3>2, <3>4, <3>7, <3>8 DEF AppendKickstart, TypeOK, fdtVars, packVars
    <3> QED
      BY <1>17, <1>b, <3>8, <3>9 DEF AppendKickstart, FilesAccepted
  <2> QED
    BY <2>1, <2>2
<1>18. CASE WriteElf
  <2>1. bp.kickstart \in ElfFile
    BY <1>18 DEF WriteElf, FilesAccepted
  <2>2. /\ U(bp.kickstart.entry + kickBase) \in Nat /\ U(Base + disp) \in Nat
        /\ image.size \in Nat
    <3>1. bp.kickstart.entry \in Nat
      BY <2>1 DEF ElfFile
    <3>2. Base \in Nat /\ disp \in Nat /\ kickBase \in Nat
      BY <1>b DEF TypeOK
    <3> QED
      BY <1>s, <3>1, <3>2, URange
  <2>3. elf' \in [vaddr : Nat, size : Nat, entry : Nat]
    BY <1>18, <2>2 DEF WriteElf
  <2>4. TypeOK'
    BY <1>18, <2>3 DEF WriteElf, TypeOK, layoutVars, fdtVars, kickVars, packVars
  <2> QED
    BY <1>18, <1>b, <2>4 DEF WriteElf, FilesAccepted
<1>19. CASE Throw
  BY <1>19 DEF Throw, TypeOK, FilesAccepted, layoutVars, fdtVars, kickVars, packVars, outVars
<1>20. CASE WriteError
  BY <1>20 DEF WriteError, TypeOK, FilesAccepted, layoutVars, fdtVars, kickVars, packVars, outVars
<1>21. CASE Ended \/ UNCHANGED vars
  BY <1>21 DEF Ended, vars, TypeOK, FilesAccepted
<1> QED
  BY <1>1, <1>2, <1>3, <1>4, <1>5, <1>6, <1>7, <1>8, <1>9, <1>10, <1>11, <1>12, <1>13,
     <1>14, <1>15, <1>16, <1>17, <1>18, <1>19, <1>20, <1>21 DEF Next

\* The members of class Image and the locals of build() keep their types.
THEOREM TypeCorrect == Spec => []TypeOK
<1>1. Spec => []TypeInv
  BY TypeInit, TypeNext, PTL DEF Spec
<1>2. TypeInv => TypeOK
  BY DEF TypeInv
<1> QED
  BY <1>1, <1>2, PTL

-----------------------------------------------------------------------------
(***************************************************************************)
(* The layout.  LayoutDisjoint speaks of the finished image only; the      *)
(* invariant follows the allocation pointer and the size of the vector     *)
(* through every stage that moves one of them.                             *)
(***************************************************************************)
Filling == {"chosen", "initramfs", "props", "fdt", "compress"}

\* Source and destination of the decompression do not meet, or coincide.
Displaced(size) == (disp = 0 /\ rawSize = size) \/ (disp > 0 /\ rawSize <= disp)

LayoutSteps ==
  /\ Base <= alloc
  /\ pc \in {"dtb", "kernel"} => image.size = 0
  /\ pc = "segments" => alloc <= limit /\ Base + image.size <= limit
  /\ pc \in Filling => Base + image.size <= alloc
  /\ pc \in {"kickstart", "kickSegments", "relocs", "finish"} => Displaced(image.size)
  /\ pc = "kickstart" => Base + disp + image.size <= alloc
  /\ pc \in {"kickSegments", "relocs"} =>
       kickBase = alloc /\ kickBase <= limit /\ kickBase <= allocLimit
  /\ pc \in {"kickSegments", "relocs", "finish", "write", "done"} =>
       Base + disp <= kickBase /\ kickBase <= alloc
  /\ pc \in {"kickSegments", "relocs", "finish"} =>
       Base + disp + image.size <= kickBase
  /\ pc \in {"write", "done"} =>
       /\ info.src = Base + disp /\ info.dst = Base
       /\ info.src + info.srcLen <= kickBase
       /\ info.dstLen = rawSize /\ Displaced(info.srcLen)
       /\ alloc = Base + disp + image.size
  /\ elf # None =>
       pc = "done" /\ elf.vaddr = Base + disp /\ elf.size = image.size

LayoutInv == TypeInv /\ (~wrapped => LayoutSteps)

\* Nothing has been laid out yet.
LEMMA LayoutInit == Init => LayoutInv
<1> SUFFICES ASSUME Init PROVE LayoutInv
  OBVIOUS
<1>1. TypeInv
  BY TypeInit
<1>2. Base \in 0 .. Space - 1 /\ alloc = Base /\ image.size = 0 /\ elf = None /\ pc = "dtb"
  BY BlueprintType DEF Init, Base, Empty
<1>3. LayoutSteps
  BY <1>2 DEF LayoutSteps, Filling
<1> QED
  BY <1>1, <1>3 DEF LayoutInv

\* A step that computed no address outside of 32 bits.
LEMMA NotWrapped ==
  ASSUME NEW addresses, Note(addresses), wrapped \in BOOLEAN, ~wrapped'
  PROVE  ~wrapped /\ \A x \in addresses : InRange(x)
BY Zenon DEF Note

\* Every stage keeps the addresses of the stages before it in order, as long as
\* none of them has wrapped.
LEMMA LayoutNext == LayoutInv /\ [Next]_vars => LayoutInv'
<1> SUFFICES ASSUME LayoutInv, [Next]_vars, ~wrapped' PROVE LayoutSteps'
  BY TypeNext DEF LayoutInv
<1> USE SizeAssumption DEF Stages, Reading, Ends, Filling
<1>t. TypeInv /\ TypeInv' /\ TypeOK /\ FilesAccepted
  BY TypeNext DEF LayoutInv, TypeInv
<1>u. UNCHANGED wrapped => ~wrapped
  OBVIOUS
<1>b. /\ Base \in 0 .. Space - 1 /\ Base' = Base /\ bp \in Blueprints
  BY <1>t, BlueprintType DEF TypeOK, Base, Next, vars, layoutVars, fdtVars, kickVars,
     packVars, outVars, ReadDtb, OpenKernel, LoadKernelSegment, CloseKernel, FindChosen,
     PlaceInitramfs, SetInitrdProps, DeleteInitrdProps, PlaceFdt, StoreImage, PackImage,
     OpenKickstart, LoadKickSegment, CloseKickSegments, ApplyRelocs, CloseKickstart,
     AppendKickstart, WriteElf, Throw, WriteError, Ended
<1>s. /\ image.size \in Nat /\ kick.size \in Nat /\ alloc \in Nat /\ limit \in Nat
      /\ allocLimit \in Nat /\ kickBase \in Nat /\ disp \in Nat /\ rawSize \in Nat
      /\ alloc < Space /\ limit < Space /\ allocLimit < Space /\ kickBase < Space
      /\ IsVector(image) /\ IsVector(kick)
  <2>1. IsVector(image) /\ IsVector(kick)
    BY <1>t DEF TypeOK
  <2>2. image.size \in Nat /\ kick.size \in Nat
    BY <2>1 DEF IsVector
  <2> QED
    BY <1>t, <2>1, <2>2 DEF TypeOK
<1>w. /\ ~wrapped => LayoutSteps
  BY DEF LayoutInv
<1>1. CASE ReadDtb
  BY <1>1, <1>u, <1>w, <1>b
  DEF ReadDtb, LayoutSteps, layoutVars, kickVars, packVars, outVars, Displaced
<1>2. CASE OpenKernel
  <2>1. ~wrapped /\ InRange(alloc + KernelAlign - 1)
    BY <1>2, <1>t, NotWrapped DEF OpenKernel, TypeOK
  <2>2. alloc <= alloc' /\ alloc' \in Nat
    BY <1>2, <1>s, <2>1, AlignUpBounds DEF OpenKernel
  <2>3. image.size = 0 /\ Base <= alloc /\ elf = None
    BY <1>2, <1>w, <2>1 DEF OpenKernel, LayoutSteps
  <2>4. limit' = alloc' /\ pc' = "segments" /\ image' = image /\ elf' = elf
    BY <1>2 DEF OpenKernel, outVars
  <2> QED
    BY <1>b, <1>s, <2>2, <2>3, <2>4 DEF LayoutSteps
<1>3. CASE LoadKernelSegment
  <2> DEFINE s == bp.kernel.segments[next]
             physaddr == U(s.paddr + DeltaFor(s))
             end == Larger(limit, U(physaddr + s.memsz))
  <2>1. ~wrapped /\ pc = "segments"
    BY <1>3, <1>t, NotWrapped DEF LoadKernelSegment, TypeOK
  <2>2. /\ Base <= alloc /\ alloc <= limit /\ Base + image.size <= limit /\ elf = None
    BY <1>w, <2>1 DEF LayoutSteps
  <2>3. bp.kernel \in ElfFile /\ s \in Segment
    BY <1>3, <1>t, SegmentType DEF LoadKernelSegment, FilesAccepted, TypeOK
  <2>4. s.paddr + DeltaFor(s) \in Int
    BY <1>t, <2>3 DEF DeltaFor, AlignDown, TypeOK, Segment
  <2>5. physaddr \in 0 .. Space - 1
    BY <2>4, URange
  <2>6. end \in 0 .. Space - 1 /\ limit <= end
    BY <1>s, <2>3, <2>5, URange DEF Segment, Larger
  <2>7. U(end - Base) = end - Base /\ end - Base \in Nat
    BY <1>b, <1>s, <2>2, <2>6, UExact DEF InRange
  <2>8. image'.size = IF image.size < end - Base THEN end - Base ELSE image.size
    <3>1. image' = Fill(Grow(image, U(end - Base)), physaddr - Base, s.filesz, "kernel", s.offset)
      BY <1>3 DEF LoadKernelSegment
    <3>2. physaddr - Base \in Int /\ s.filesz \in Nat /\ s.offset \in Nat /\ IsVector(image)
      BY <1>b, <1>t, <2>3, <2>5 DEF Segment, TypeOK
    <3> DEFINE n == U(end - Base)
    <3>3. n \in Nat /\ n = end - Base /\ "kernel" \in Sources
      BY <2>7 DEF Sources
    <3> DEFINE g == Grow(image, n)
               at == physaddr - Base
               len == s.filesz
               off == s.offset
    <3>4. image' = Fill(g, at, len, "kernel", off)
      BY <3>1
    <3>5. at \in Int /\ len \in Nat /\ off \in Nat
      BY <3>2
    <3> HIDE DEF end, physaddr, s, n
    <3>6. IsVector(g) /\ g.size = IF image.size < n THEN n ELSE image.size
      BY <1>s, <3>3, GrowVector
    <3> HIDE DEF g, at, len, off
    <3>7. Fill(g, at, len, "kernel", off).size = g.size
      BY <3>3, <3>5, <3>6, FillVector
    <3>8. image'.size = g.size
      BY <3>4, <3>7
    <3> QED
      BY <3>3, <3>6, <3>8
  <2>9. limit' = end /\ alloc' = alloc /\ elf' = elf /\ pc' \in {"segments", "undefined"}
    BY <1>3 DEF LoadKernelSegment, outVars
  <2> HIDE DEF end
  <2> QED
    BY <1>b, <1>s, <2>2, <2>6, <2>8, <2>9 DEF LayoutSteps
<1>4. CASE CloseKernel
  <2>1. ~wrapped /\ InRange(limit + PageSize - 1)
    BY <1>4, <1>t, NotWrapped DEF CloseKernel, TypeOK
  <2>2. limit <= alloc' /\ alloc' \in Nat
    BY <1>4, <1>s, <2>1, AlignUpBounds DEF CloseKernel
  <2>3. Base <= limit /\ Base + image.size <= limit /\ elf = None
    BY <1>4, <1>b, <1>s, <1>w, <2>1 DEF CloseKernel, LayoutSteps
  <2> QED
    BY <1>4, <1>b, <1>s, <2>2, <2>3 DEF CloseKernel, LayoutSteps, outVars
<1>5. CASE FindChosen
  BY <1>5, <1>b, <1>u, <1>w DEF FindChosen, LayoutSteps, layoutVars, outVars
<1>6. CASE PlaceInitramfs
  <2> DEFINE end == U(alloc + bp.initramfs)
  <2>1. bp.initramfs \in Nat
    BY <1>6, <1>t DEF PlaceInitramfs, FilesAccepted
  <2>2. ~wrapped /\ InRange(alloc + bp.initramfs) /\ InRange(end + PageSize - 1)
    BY <1>6, <1>t, NotWrapped DEF PlaceInitramfs, TypeOK
  <2>3. end = alloc + bp.initramfs /\ end \in 0 .. Space - 1
    BY <1>s, <2>1, <2>2, UExact DEF InRange
  <2>4. Base <= alloc /\ Base + image.size <= alloc /\ elf = None
    BY <1>6, <1>w, <2>2 DEF PlaceInitramfs, LayoutSteps
  <2>5. U(end - Base) = end - Base /\ end - Base \in Nat
    BY <1>b, <1>s, <2>1, <2>3, <2>4, UExact DEF InRange
  <2>6. image'.size = IF image.size < end - Base THEN end - Base ELSE image.size
    <3>1. image' = Fill(Grow(image, U(end - Base)), alloc - Base, bp.initramfs, "initramfs", 0)
      BY <1>6 DEF PlaceInitramfs
    <3>2. alloc - Base \in Int /\ IsVector(image)
      BY <1>b, <1>t, <1>s DEF TypeOK
    <3> DEFINE n == U(end - Base)
    <3>3. n \in Nat /\ n = end - Base /\ "initramfs" \in Sources /\ "dtb" \in Sources
      BY <2>5 DEF Sources
    <3> DEFINE g == Grow(image, n)
               at == alloc - Base
               len == bp.initramfs
               off == 0
    <3>4. image' = Fill(g, at, len, "initramfs", off)
      BY <3>1
    <3>5. at \in Int /\ len \in Nat /\ off \in Nat
      BY <2>1, <3>2
    <3> HIDE DEF end, n
    <3>6. IsVector(g) /\ g.size = IF image.size < n THEN n ELSE image.size
      BY <1>s, <3>3, GrowVector
    <3> HIDE DEF g, at, len, off
    <3>7. Fill(g, at, len, "initramfs", off).size = g.size
      BY <3>3, <3>5, <3>6, FillVector
    <3>8. image'.size = g.size
      BY <3>4, <3>7
    <3> QED
      BY <3>3, <3>6, <3>8
  <2>7. alloc' = AlignUp(end, PageSize) /\ elf' = elf /\ pc' \in {"props", "undefined"}
    BY <1>6 DEF PlaceInitramfs, outVars
  <2> HIDE DEF end
  <2>8. end <= alloc' /\ alloc' \in Nat
    BY <2>2, <2>3, <2>7, AlignUpBounds
  <2> QED
    BY <1>b, <1>s, <2>1, <2>3, <2>4, <2>6, <2>7, <2>8 DEF LayoutSteps
<1>7. CASE SetInitrdProps
  <2>1. pc' \in {"fdt", "failed"}
    BY <1>7 DEF SetInitrdProps
  <2> QED
    BY <1>7, <1>b, <1>u, <1>w, <2>1 DEF SetInitrdProps, LayoutSteps, layoutVars, outVars
<1>8. CASE DeleteInitrdProps
  BY <1>8, <1>b, <1>u, <1>w DEF DeleteInitrdProps, LayoutSteps, layoutVars, outVars
<1>9. CASE PlaceFdt
  <2> DEFINE end == U(alloc + fdt.total)
  <2>1. fdt.total \in Nat
    BY <1>t DEF TypeOK, FdtState
  <2>2. ~wrapped /\ InRange(alloc + fdt.total) /\ InRange(end + PageSize - 1)
    BY <1>9, <1>t, NotWrapped DEF PlaceFdt, TypeOK
  <2>3. end = alloc + fdt.total /\ end \in 0 .. Space - 1
    BY <1>s, <2>1, <2>2, UExact DEF InRange
  <2>4. Base <= alloc /\ Base + image.size <= alloc /\ elf = None
    BY <1>9, <1>w, <2>2 DEF PlaceFdt, LayoutSteps
  <2>5. U(end - Base) = end - Base /\ end - Base \in Nat
    BY <1>b, <1>s, <2>1, <2>3, <2>4, UExact DEF InRange
  <2>6. image'.size = IF image.size < end - Base THEN end - Base ELSE image.size
    <3>1. image' = Fill(Grow(image, U(end - Base)), alloc - Base, fdt.total, "dtb", 0)
      BY <1>9 DEF PlaceFdt
    <3>2. alloc - Base \in Int /\ IsVector(image)
      BY <1>b, <1>t, <1>s DEF TypeOK
    <3> DEFINE n == U(end - Base)
    <3>3. n \in Nat /\ n = end - Base /\ "initramfs" \in Sources /\ "dtb" \in Sources
      BY <2>5 DEF Sources
    <3> DEFINE g == Grow(image, n)
               at == alloc - Base
               len == fdt.total
               off == 0
    <3>4. image' = Fill(g, at, len, "dtb", off)
      BY <3>1
    <3>5. at \in Int /\ len \in Nat /\ off \in Nat
      BY <2>1, <3>2
    <3> HIDE DEF end, n
    <3>6. IsVector(g) /\ g.size = IF image.size < n THEN n ELSE image.size
      BY <1>s, <3>3, GrowVector
    <3> HIDE DEF g, at, len, off
    <3>7. Fill(g, at, len, "dtb", off).size = g.size
      BY <3>3, <3>5, <3>6, FillVector
    <3>8. image'.size = g.size
      BY <3>4, <3>7
    <3> QED
      BY <3>3, <3>6, <3>8
  <2>7. alloc' = AlignUp(end, PageSize) /\ elf' = elf /\ pc' \in {"compress", "undefined"}
    BY <1>9 DEF PlaceFdt, outVars
  <2> HIDE DEF end
  <2>8. end <= alloc' /\ alloc' \in Nat
    BY <2>2, <2>3, <2>7, AlignUpBounds
  <2> QED
    BY <1>b, <1>s, <2>1, <2>3, <2>4, <2>6, <2>7, <2>8 DEF LayoutSteps
<1>10. CASE StoreImage
  <2>1. Base <= alloc /\ Base + image.size <= alloc /\ elf = None
    BY <1>10, <1>u, <1>w DEF StoreImage, LayoutSteps, layoutVars
  <2>2. /\ disp' = 0 /\ rawSize' = image.size /\ pc' = "kickstart"
        /\ UNCHANGED <<alloc, image, elf>>
    BY <1>10 DEF StoreImage, layoutVars, outVars
  <2> QED
    BY <1>b, <1>s, <2>1, <2>2 DEF LayoutSteps, Displaced
<1>11. CASE PackImage
  <2>1. PICK n \in 1 .. image.size :
          /\ image' = [size |-> n, cell |-> [k \in 0 .. n - 1 |-> From("packed", k)]]
          /\ disp' = DisplacementFor(image.size)
          /\ alloc' = AlignUp(U(U(Base + disp') + n), PageSize)
          /\ Note({image.size + PageSize - 1, Base + disp', U(Base + disp') + n,
                   U(U(Base + disp') + n) + PageSize - 1})
    BY <1>11 DEF PackImage
  <2>2. /\ ~wrapped /\ InRange(image.size + PageSize - 1) /\ InRange(Base + disp')
        /\ InRange(U(Base + disp') + n) /\ InRange(U(U(Base + disp') + n) + PageSize - 1)
    BY <1>t, <2>1, NotWrapped DEF TypeOK
  <2>3. disp' \in Nat /\ image.size <= disp'
    <3>1. InRange(image.size + (PageSize - 1))
      BY <1>s, <2>2 DEF InRange
    <3>2. disp' = DisplacementFor(image.size)
      BY <2>1
    <3> QED
      BY <1>s, <3>1, <3>2, DisplacementBounds
  <2>4. U(Base + disp') = Base + disp' /\ U(Base + disp' + n) = Base + disp' + n
    BY <1>b, <2>2, <2>3, UExact
  <2>5. Base + disp' + n <= alloc' /\ alloc' \in Nat
    BY <1>b, <2>1, <2>2, <2>3, <2>4, AlignUpBounds
  <2>6. n \in Nat /\ 1 <= n /\ n <= image.size
    BY <1>s
  <2>9. image'.size = n
    BY <2>1
  <2>7. rawSize' = image.size /\ pc' = "kickstart" /\ elf' = elf /\ elf = None
    BY <1>11, <1>w, <2>2 DEF PackImage, LayoutSteps, outVars
  <2>8. image.size <= disp' /\ 0 < disp' /\ Base <= alloc' /\ Base + disp' + image'.size <= alloc'
    <3>1. Base \in Nat /\ image.size \in Nat
      BY <1>b, <1>s
    <3>2. 0 < disp' /\ image.size <= disp'
      BY <3>1, <2>3, <2>6
    <3>3. Base <= alloc'
      <4> DEFINE a == alloc'
                 d == disp'
      <4>1. a \in Nat /\ d \in Nat /\ Base + d + n <= a
        BY <2>3, <2>5
      <4> HIDE DEF a, d
      <4>2. Base <= a
        BY <2>6, <3>1, <4>1
      <4> QED
        BY <4>2 DEF a
    <3>4. Base + disp' + image'.size <= alloc'
      BY <2>5, <2>9
    <3> QED
      BY <3>2, <3>3, <3>4
  <2> QED
    BY <1>b, <2>7, <2>8 DEF LayoutSteps, Displaced
<1>12. CASE OpenKickstart
  BY <1>12, <1>b, <1>s, <1>u, <1>w
  DEF OpenKickstart, LayoutSteps, Displaced, packVars, outVars
<1>13. CASE LoadKickSegment
  <2> DEFINE s == bp.kickstart.segments[next]
             physaddr == U(s.paddr + kickBase)
             end == Larger(limit, U(physaddr + s.filesz))
  <2>1. ~wrapped /\ pc = "kickSegments"
    BY <1>13, <1>t, NotWrapped DEF LoadKickSegment, TypeOK
  <2>2. bp.kickstart \in ElfFile /\ s \in Segment
    BY <1>13, <1>t, SegmentType DEF LoadKickSegment, FilesAccepted, TypeOK
  <2>3. physaddr \in 0 .. Space - 1
    BY <1>s, <2>2, URange DEF Segment
  <2>4. end \in 0 .. Space - 1 /\ limit <= end
    BY <1>s, <2>2, <2>3, URange DEF Segment, Larger
  <2>5. MemoryEnd(s) \in 0 .. Space - 1
    BY <2>2, <2>3, URange DEF Segment, MemoryEnd
  <2>6. Larger(limit, MemoryEnd(s)) \in Nat /\ limit <= Larger(limit, MemoryEnd(s))
    BY <1>s, <2>5 DEF Larger
  <2>7. /\ limit' = end /\ allocLimit' = Larger(limit, MemoryEnd(s))
        /\ pc' \in {"kickSegments", "undefined"}
        /\ UNCHANGED <<alloc, image, kickBase, disp, rawSize, elf>>
    BY <1>13 DEF LoadKickSegment, packVars, outVars
  <2> HIDE DEF end, s
  <2> QED
    BY <1>b, <1>s, <1>w, <2>1, <2>4, <2>6, <2>7 DEF LayoutSteps, Displaced
<1>14. CASE CloseKickSegments
  BY <1>14, <1>b, <1>u, <1>w
  DEF CloseKickSegments, LayoutSteps, Displaced, kickVars, packVars, outVars
<1>15. CASE ApplyRelocs
  <2>1. pc' = "relocs" \/ pc' = "undefined" \/ pc' = "failed"
    BY <1>15, Zenon DEF ApplyRelocs
  <2>2. ~wrapped /\ pc = "relocs"
    BY <1>15 DEF ApplyRelocs
  <2>3. UNCHANGED <<alloc, limit, image, kickBase, allocLimit, disp, rawSize, elf>>
    BY <1>15 DEF ApplyRelocs, packVars, outVars
  <2> QED
    BY <1>b, <1>w, <2>1, <2>2, <2>3 DEF LayoutSteps, Displaced
<1>16. CASE CloseKickstart
  BY <1>16, <1>b, <1>s, <1>u, <1>w
  DEF CloseKickstart, LayoutSteps, Displaced, kickVars, packVars, outVars
<1>17. CASE AppendKickstart
  <2>1. /\ ~wrapped /\ pc = "finish"
        /\ UNCHANGED <<alloc, kickBase, disp, rawSize, elf>>
    BY <1>17 DEF AppendKickstart, packVars
  <2>2. /\ Base <= alloc /\ Displaced(image.size) /\ elf = None
        /\ Base + disp <= kickBase /\ kickBase <= alloc
        /\ Base + disp + image.size <= kickBase
    BY <1>w, <2>1 DEF LayoutSteps
  <2>3. CASE pc' = "undefined"
    BY <1>b, <2>1, <2>2, <2>3 DEF LayoutSteps
  <2>4. CASE pc' # "undefined"
    <3> DEFINE at == kickBase - disp - Base
               room == alloc - disp - Base
               grown == Grow(image, U(room))
    <3>1. /\ info' = ContractWords /\ pc' = "write"
          /\ image' = Overlay(grown, at, WithInfo(kick))
      BY <1>17, <2>4 DEF AppendKickstart
    <3>2. room \in Nat /\ at \in Int /\ InRange(room) /\ InRange(Base + disp)
      BY <1>b, <1>s, <2>2 DEF InRange
    <3>3. U(room) = room /\ U(Base + disp) = Base + disp
      BY <1>b, <1>s, <3>2, UExact
    <3>4. IsVector(grown) /\ grown.size = room
      <4>1. image.size <= room /\ U(room) \in Nat
        BY <1>b, <1>s, <2>2, <3>2, <3>3
      <4> DEFINE m == U(room)
      <4>2. m \in Nat /\ m = room
        BY <3>3, <4>1
      <4> HIDE DEF m
      <4>3. /\ IsVector(Grow(image, m))
            /\ Grow(image, m).size = IF image.size < m THEN m ELSE image.size
        BY <1>s, <4>2, GrowVector
      <4>4. Grow(image, m).size = m
        BY <1>s, <4>1, <4>2, <4>3
      <4> QED
        BY <4>2, <4>3, <4>4 DEF m
    <3>5. IsVector(WithInfo(kick))
      BY <1>s, FillVector DEF WithInfo, Sources
    <3> HIDE DEF grown, at
    <3>7. image'.size = room
      BY <3>1, <3>2, <3>4, <3>5, OverlayVector
    <3>8. /\ info'.src = Base + disp /\ info'.dst = Base
          /\ info'.srcLen = image.size /\ info'.dstLen = rawSize
      BY <3>1, <3>3 DEF ContractWords
    <3> QED
      BY <1>b, <1>s, <2>1, <2>2, <3>1, <3>8, <3>7 DEF LayoutSteps, Displaced
  <2> QED
    BY <2>3, <2>4
<1>18. CASE WriteElf
  <2>1. /\ ~wrapped /\ pc = "write" /\ pc' = "done"
        /\ elf' = [vaddr |-> U(Base + disp), size |-> image.size,
                   entry |-> U(bp.kickstart.entry + kickBase)]
        /\ UNCHANGED <<alloc, image, info, kickBase, disp, rawSize>>
    BY <1>18 DEF WriteElf, layoutVars, kickVars, packVars
  <2>2. U(Base + disp) = Base + disp
    BY <1>b, <1>s, <1>w, <2>1, UExact DEF LayoutSteps, InRange
  <2> QED
    BY <1>b, <1>w, <2>1, <2>2 DEF LayoutSteps, Displaced
<1>19. CASE Throw
  <2>1. pc # "done"
    BY <1>19 DEF Throw, Rejected
  <2> QED
    BY <1>19, <1>b, <1>u, <1>w, <2>1
    DEF Throw, LayoutSteps, layoutVars, outVars
<1>20. CASE WriteError
  BY <1>20, <1>b, <1>u, <1>w DEF WriteError, LayoutSteps, layoutVars, outVars
<1>21. CASE Ended \/ UNCHANGED vars
  BY <1>21, <1>b, <1>u, <1>w DEF Ended, vars, LayoutSteps, Displaced
<1> QED
  BY <1>1, <1>2, <1>3, <1>4, <1>5, <1>6, <1>7, <1>8, <1>9, <1>10, <1>11, <1>12, <1>13,
     <1>14, <1>15, <1>16, <1>17, <1>18, <1>19, <1>20, <1>21 DEF Next

\* While the kickstart decompresses, its source, its destination and its own
\* memory do not meet, and the ELF file loads exactly the source and the
\* kickstart: for every image base, file size, page size and encoder result
\* whose addresses fit in 32 bits.
THEOREM LayoutCorrect == Spec => []LayoutDisjoint
<1>1. Spec => []LayoutInv
  BY LayoutInit, LayoutNext, PTL DEF Spec
<1>2. LayoutInv => LayoutDisjoint
  <2> SUFFICES ASSUME LayoutInv, ~wrapped, elf # None
               PROVE  LayoutDisjoint
    BY DEF LayoutDisjoint, Fits
  <2>1. LayoutSteps /\ TypeOK
    BY DEF LayoutInv, TypeInv
  <2>2. /\ image.size \in Nat /\ alloc \in Nat /\ kickBase \in Nat /\ disp \in Nat
        /\ rawSize \in Nat /\ Base \in Nat
    BY <2>1, BlueprintType, SizeAssumption DEF TypeOK, IsVector
  <2>3. info.src \in Nat /\ info.srcLen \in Nat /\ info.dst \in Nat /\ info.dstLen \in Nat
    BY <2>1 DEF TypeOK
  <2>4. /\ info.src = Base + disp /\ info.dst = Base
        /\ info.src + info.srcLen <= kickBase
        /\ info.dstLen = rawSize /\ Displaced(info.srcLen)
        /\ alloc = Base + disp + image.size /\ kickBase <= alloc
        /\ elf.vaddr = Base + disp /\ elf.size = image.size
    BY <2>1 DEF LayoutSteps
  <2>5. Disjoint(info.src, info.srcLen, kickBase, alloc - kickBase)
    BY <2>2, <2>3, <2>4 DEF Disjoint
  <2>6. Disjoint(info.dst, info.dstLen, kickBase, alloc - kickBase)
    BY <2>2, <2>3, <2>4 DEF Disjoint, Displaced
  <2>7. disp # 0 => Disjoint(info.src, info.srcLen, info.dst, info.dstLen)
    BY <2>2, <2>3, <2>4 DEF Disjoint, Displaced
  <2> QED
    BY <2>2, <2>3, <2>4, <2>5, <2>6, <2>7 DEF LayoutDisjoint
<1> QED
  BY <1>1, <1>2, PTL

-----------------------------------------------------------------------------
(***************************************************************************)
(* What the inputs matter for: with well-formed ELF files and a layout     *)
(* that fits in 32 bits, no raw access leaves its vector, what was placed  *)
(* stays, and what the device tree says of the initramfs is true.  This    *)
(* rests on the layout above and on one more invariant, which says how far *)
(* each loop has come.                                                     *)
(***************************************************************************)
KernelSegments == bp.kernel.segments
KickSegments == bp.kickstart.segments

\* Where segment i of the kickstart ends in memory.
KickEnd(i) == kickBase + KickSegments[i].paddr + KickSegments[i].memsz

\* One delta for all segments of the kernel.
FirstDelta == alloc - AlignDown(KernelSegments[1].paddr, KernelAlign)

KickStages == {"kickSegments", "relocs", "finish", "write"}

\* The loop over the kernel's segments, and what it leaves.
KernelLoop ==
  /\ pc \in {"dtb", "kernel"} => delta = None
  /\ pc = "segments" =>
       /\ next <= Len(KernelSegments) + 1
       /\ delta = IF next = 1 THEN None ELSE FirstDelta
  /\ pc \in Stages \ {"dtb", "kernel", "segments"} => delta \in Int

\* The loop over the kickstart's segments: the vector ends where the highest of
\* those loaded does, and the memory set aside holds it and the last one's bss.
KickLoop ==
  /\ pc \in Stages \ KickStages => kick.size = 0
  /\ pc = "kickSegments" =>
       /\ next <= Len(KickSegments) + 1
       /\ limit = kickBase + kick.size /\ limit <= allocLimit
       /\ \A i \in 1 .. next - 1 : FileEnd(KickSegments[i]) <= kick.size
       /\ next > 1 => KickEnd(next - 1) <= allocLimit
  /\ pc \in {"relocs", "finish"} =>
       \A i \in 1 .. Len(KickSegments) : FileEnd(KickSegments[i]) <= kick.size
  /\ pc = "relocs" => kickBase + kick.size <= allocLimit /\ KickEnd(Len(KickSegments)) <= allocLimit
  /\ pc = "finish" => kickBase + kick.size <= alloc
  /\ pc \in {"finish", "write", "done"} => KickEnd(Len(KickSegments)) <= alloc
  /\ pc = "done" => bp.kickstart \in ElfFile

\* The initramfs and what the two properties say of it.
Delimits(f, top) ==
  IF bp.initramfs = None
  THEN bp.dtb.chosen = "sound" => f.start = None /\ f.end = None
  ELSE /\ f.start \in Nat /\ f.end = f.start + bp.initramfs
       /\ Base <= f.start /\ f.end <= top

InitrdSteps ==
  /\ pc = "props" /\ bp.initramfs # None =>
       /\ Base <= initrdBase /\ initrdBase + bp.initramfs <= alloc
  /\ pc = "fdt" => Delimits(fdt, alloc)
  /\ pc \in {"compress", "kickstart", "done"} \cup KickStages => Delimits(placed, fdtBase)
  /\ pc \in Stages \ ({"kickstart"} \cup KickStages) => disp = 0

SafeSteps == pc # "undefined" /\ KernelLoop /\ KickLoop /\ InitrdSteps

SafeInv == LayoutInv /\ (Fits => SafeSteps)

-----------------------------------------------------------------------------
(***************************************************************************)
(* What every step may rely on.                                            *)
(***************************************************************************)
\* The inputs do not change and what has wrapped stays wrapped, so that a layout
\* that fits after a step has fitted before it.
LEMMA StillFits ==
  ASSUME LayoutInv, [Next]_vars, Fits'
  PROVE  /\ Fits /\ WellFormed /\ ~wrapped /\ bp' = bp /\ Base' = Base /\ bp \in Blueprints
         /\ TypeOK /\ FilesAccepted /\ LayoutSteps
         /\ TypeOK' /\ FilesAccepted' /\ LayoutSteps'
<1>1. LayoutInv' /\ ~wrapped'
  BY LayoutNext DEF Fits
<1>2. wrapped \in BOOLEAN /\ bp \in Blueprints
  BY DEF LayoutInv, TypeInv, TypeOK
<1>3. ~wrapped
  BY <1>1, <1>2 DEF Note, Next, vars, layoutVars, ReadDtb, OpenKernel, LoadKernelSegment,
     CloseKernel, FindChosen, PlaceInitramfs, SetInitrdProps, DeleteInitrdProps, PlaceFdt,
     StoreImage, PackImage, OpenKickstart, LoadKickSegment, CloseKickSegments, ApplyRelocs,
     CloseKickstart, AppendKickstart, WriteElf, Throw, WriteError, Ended
<1>4. bp' = bp
  BY DEF Next, vars, layoutVars, ReadDtb, OpenKernel, LoadKernelSegment,
     CloseKernel, FindChosen, PlaceInitramfs, SetInitrdProps, DeleteInitrdProps, PlaceFdt,
     StoreImage, PackImage, OpenKickstart, LoadKickSegment, CloseKickSegments, ApplyRelocs,
     CloseKickstart, AppendKickstart, WriteElf, Throw, WriteError, Ended
<1>5. WellFormed
  BY <1>4 DEF Fits, WellFormed
<1> QED
  BY <1>1, <1>2, <1>3, <1>4, <1>5 DEF LayoutInv, TypeInv, Fits, Base

\* The numbers of a state.
LEMMA Sizes ==
  ASSUME TypeOK
  PROVE  /\ image.size \in Nat /\ kick.size \in Nat /\ alloc \in Nat /\ limit \in Nat
         /\ allocLimit \in Nat /\ kickBase \in Nat /\ disp \in Nat /\ rawSize \in Nat
         /\ initrdBase \in Nat /\ fdtBase \in Nat /\ Base \in Nat /\ next \in Nat \ {0}
         /\ alloc < Space /\ limit < Space /\ kickBase < Space /\ Base < Space
         /\ IsVector(image) /\ IsVector(kick)
<1>1. IsVector(image) /\ IsVector(kick)
  BY DEF TypeOK
<1>2. image.size \in Nat /\ kick.size \in Nat
  BY <1>1 DEF IsVector
<1>3. Base \in 0 .. Space - 1
  BY BlueprintType DEF TypeOK
<1> QED
  BY <1>1, <1>2, <1>3, SizeAssumption DEF TypeOK

\* A vector resized for n words has n words.
LEMMA GrownHolds ==
  ASSUME NEW v, IsVector(v), NEW n \in Nat, n < Space
  PROVE  /\ IsVector(Grow(v, U(n)))
         /\ Grow(v, U(n)).size \in Nat /\ n <= Grow(v, U(n)).size
         /\ Grow(v, U(n)).size = IF v.size < n THEN n ELSE v.size
<1>1. U(n) = n
  BY UExact, SizeAssumption DEF InRange
<1>2. v.size \in Nat
  BY DEF IsVector
<1>3. IsVector(Grow(v, n)) /\ Grow(v, n).size = IF v.size < n THEN n ELSE v.size
  BY GrowVector
<1>4. Grow(v, n).size \in Nat /\ n <= Grow(v, n).size
  BY <1>2, <1>3
<1> QED
  BY <1>1, <1>3, <1>4

\* Program headers of an accepted file with at least one of them.
LEMMA Headers ==
  ASSUME NEW f \in ElfFile, Sized(f)
  PROVE  /\ Len(f.segments) \in Nat \ {0} /\ DOMAIN f.segments = 1 .. Len(f.segments)
         /\ \A i \in 1 .. Len(f.segments) :
              /\ f.segments[i] \in Segment
              /\ f.segments[i].paddr \in Nat /\ f.segments[i].memsz \in Nat
              /\ f.segments[i].filesz \in Nat /\ f.segments[i].filesz <= f.segments[i].memsz
<1>1. f.segments \in Seq(Segment)
  BY DEF ElfFile
<1>2. /\ Len(f.segments) \in Nat \ {0} /\ DOMAIN f.segments = 1 .. Len(f.segments)
      /\ \A i \in 1 .. Len(f.segments) : f.segments[i] \in Segment
  BY <1>1 DEF Sized
<1> QED
  BY <1>2 DEF Sized, Segment

\* Every accepted file is well formed.
LEMMA GoodFiles ==
  ASSUME WellFormed
  PROVE  /\ bp.kernel \in ElfFile => Sized(bp.kernel) /\ GoodKernel(bp.kernel)
         /\ bp.kickstart \in ElfFile => Sized(bp.kickstart) /\ GoodKickstart(bp.kickstart)
BY NoneAssumption DEF WellFormed, GoodKernel, GoodKickstart

\* Nothing has been loaded.
LEMMA SafeInit == Init => SafeInv
<1> SUFFICES ASSUME Init PROVE SafeInv
  OBVIOUS
<1>1. KernelLoop /\ KickLoop
  BY DEF Init, KernelLoop, KickLoop, KickStages, Empty
<1>2. InitrdSteps
  BY DEF Init, InitrdSteps, KickStages
<1> QED
  BY <1>1, <1>2, LayoutInit DEF SafeInv, SafeSteps, Init

-----------------------------------------------------------------------------
(***************************************************************************)
(* The kernel: the first segment fixes the delta, and none lies below it.  *)
(***************************************************************************)
LEMMA DeltaOfSegment ==
  ASSUME TypeOK, FilesAccepted, WellFormed, KernelLoop, pc = "segments",
         next <= Len(KernelSegments)
  PROVE  /\ KernelSegments[next] \in Segment
         /\ FirstDelta \in Int /\ DeltaFor(KernelSegments[next]) = FirstDelta
         /\ alloc <= KernelSegments[next].paddr + FirstDelta
<1>1. bp.kernel \in ElfFile
  BY DEF FilesAccepted, Stages, Reading
<1>2. Sized(bp.kernel) /\ GoodKernel(bp.kernel)
  BY <1>1, GoodFiles
<1>3. next \in 1 .. Len(KernelSegments) /\ 1 \in 1 .. Len(KernelSegments)
  BY <1>1, <1>2, Headers, Sizes DEF KernelSegments
<1>4. /\ KernelSegments[next] \in Segment /\ KernelSegments[next].paddr \in Nat
      /\ KernelSegments[1].paddr \in Nat /\ DOMAIN KernelSegments = 1 .. Len(KernelSegments)
  BY <1>1, <1>2, <1>3, Headers DEF KernelSegments
<1>5. AlignDown(KernelSegments[1].paddr, KernelAlign) \in Int
  BY <1>4, SizeAssumption DEF AlignDown
<1>6. FirstDelta \in Int
  BY <1>5, Sizes DEF FirstDelta
<1>7. DeltaFor(KernelSegments[next]) = FirstDelta
  BY <1>6, NoneAssumption DEF DeltaFor, FirstDelta, KernelLoop
<1>8. AlignDown(KernelSegments[1].paddr, KernelAlign) <= KernelSegments[next].paddr
  BY <1>2, <1>3, <1>4 DEF GoodKernel, KernelSegments
<1>9. alloc <= KernelSegments[next].paddr + FirstDelta
  <2> DEFINE first == AlignDown(KernelSegments[1].paddr, KernelAlign)
             p == KernelSegments[next].paddr
  <2>1. FirstDelta = alloc - first /\ alloc \in Int
    BY Sizes DEF FirstDelta
  <2>2. first \in Int /\ first <= p
    BY <1>5, <1>8
  <2>3. p \in Int
    BY <1>4
  <2> HIDE DEF first, p
  <2>4. alloc <= p + FirstDelta
    BY <2>1, <2>2, <2>3
  <2> QED
    BY <2>4 DEF p
<1> QED
  BY <1>4, <1>6, <1>7, <1>9

\* A step keeps what holds of the loop over the kernel segments.
LEMMA KernelLoopStep ==
  ASSUME LayoutInv, KernelLoop, [Next]_vars, Fits'
  PROVE  KernelLoop'
<1>f. /\ WellFormed /\ bp' = bp /\ TypeOK /\ FilesAccepted /\ TypeOK' /\ FilesAccepted'
  BY StillFits
<1>k. /\ KernelSegments' = KernelSegments
      /\ bp.kernel \in ElfFile =>
           Len(KernelSegments) \in Nat \ {0}
  BY <1>f, GoodFiles, Headers DEF KernelSegments
<1>1. CASE ReadDtb
  BY <1>1 DEF ReadDtb, KernelLoop, layoutVars, Stages, Reading
<1>2. CASE OpenKernel
  <2>1. bp.kernel \in ElfFile
    BY <1>2, <1>f DEF OpenKernel, FilesAccepted, Stages, Reading
  <2> QED
    BY <1>2, <1>k, <2>1 DEF OpenKernel, KernelLoop, Stages, Reading
<1>3. CASE LoadKernelSegment
  <2>1. pc = "segments" /\ next <= Len(KernelSegments)
    BY <1>3 DEF LoadKernelSegment, KernelSegments
  <2>2. FirstDelta \in Int /\ DeltaFor(KernelSegments[next]) = FirstDelta
    BY <1>f, <2>1, DeltaOfSegment
  <2>3. /\ next' = next + 1 /\ alloc' = alloc /\ pc' \in {"segments", "undefined"}
        /\ delta' = DeltaFor(KernelSegments[next])
    BY <1>3 DEF LoadKernelSegment, KernelSegments
  <2>4. FirstDelta' = FirstDelta
    BY <1>k, <2>3 DEF FirstDelta
  <2>5. next \in Nat \ {0} /\ bp.kernel \in ElfFile
    BY <1>f, <2>1, Sizes DEF FilesAccepted, Stages, Reading
  <2> HIDE DEF FirstDelta
  <2> QED
    BY <1>k, <2>1, <2>2, <2>3, <2>4, <2>5 DEF KernelLoop, Stages, Reading
<1>4. CASE CloseKernel
  <2>1. /\ pc = "segments" /\ next > Len(KernelSegments) /\ pc' = "chosen" /\ delta' = delta
    BY <1>4 DEF CloseKernel, KernelSegments
  <2>2. bp.kernel \in ElfFile /\ next \in Nat \ {0}
    BY <1>f, <2>1, Sizes DEF FilesAccepted, Stages, Reading
  <2>3. delta = FirstDelta /\ delta # None
    <3>1. Sized(bp.kernel) /\ 1 \in 1 .. Len(KernelSegments)
      BY <1>f, <1>k, <2>2, GoodFiles
    <3>2. KernelSegments[1].paddr \in Nat
      BY <2>2, <3>1, Headers DEF KernelSegments
    <3>3. FirstDelta \in Int
      BY <1>f, <3>2, Sizes, SizeAssumption DEF FirstDelta, AlignDown
    <3> QED
      BY <1>k, <2>1, <2>2, <3>3, NoneAssumption DEF KernelLoop
  <2> QED
    BY <1>f, <2>1, <2>3 DEF KernelLoop, TypeOK
<1>5. CASE \/ FindChosen \/ PlaceInitramfs \/ SetInitrdProps \/ DeleteInitrdProps \/ PlaceFdt
           \/ StoreImage \/ PackImage \/ OpenKickstart \/ LoadKickSegment
           \/ CloseKickSegments \/ CloseKickstart
  <2>1. /\ delta' = delta /\ pc \in Stages \ {"dtb", "kernel", "segments"}
        /\ pc' \notin {"dtb", "kernel", "segments"}
    BY <1>5 DEF Stages, Reading, FindChosen, PlaceInitramfs, SetInitrdProps, DeleteInitrdProps,
       PlaceFdt, StoreImage, PackImage, OpenKickstart, LoadKickSegment, CloseKickSegments,
       CloseKickstart, layoutVars
  <2> QED
    BY <2>1 DEF KernelLoop
<1>6. CASE ApplyRelocs \/ AppendKickstart \/ WriteElf \/ Throw \/ WriteError
  <2>1. /\ delta' = delta
    BY <1>6 DEF ApplyRelocs, AppendKickstart, WriteElf, Throw, WriteError, layoutVars
  <2>2. \/ pc \in {"relocs", "finish", "write"} /\ pc' \notin {"dtb", "kernel", "segments"}
        \/ pc' = "failed"
    BY <1>6, Zenon DEF ApplyRelocs, AppendKickstart, WriteElf, Throw, WriteError
  <2> QED
    BY <2>1, <2>2 DEF KernelLoop, Stages, Reading
<1>7. CASE Ended \/ UNCHANGED vars
  BY <1>7 DEF Ended, vars, KernelLoop, KernelSegments, FirstDelta
<1> QED
  BY <1>1, <1>2, <1>3, <1>4, <1>5, <1>6, <1>7 DEF Next

\* The memory of a segment fits in the vector that was resized for it, where the
\* bytes in the file are read to.
LEMMA KernelInside ==
  ASSUME LayoutInv, KernelLoop, [Next]_vars, Fits', LoadKernelSegment
  PROVE  /\ pc' = "segments"
         /\ LET s == bp.kernel.segments[next]
                at == s.paddr + FirstDelta - Base
            IN /\ at \in Nat
               /\ \E n \in Nat :
                    /\ n < Space /\ at + s.memsz <= n
                    /\ image' = Fill(Grow(image, U(n)), at, s.filesz, "kernel", s.offset)
<1> DEFINE s == bp.kernel.segments[next]
           physaddr == U(s.paddr + DeltaFor(s))
           end == Larger(limit, U(physaddr + s.memsz))
           grown == Grow(image, U(end - Base))
<1>f. /\ WellFormed /\ TypeOK /\ FilesAccepted /\ LayoutSteps
  BY StillFits
<1>1. pc = "segments" /\ next <= Len(KernelSegments)
  BY DEF LoadKernelSegment, KernelSegments
<1>2. bp.kernel \in ElfFile /\ Sized(bp.kernel)
  BY <1>f, <1>1, GoodFiles DEF FilesAccepted, Stages, Reading
<1>3. /\ s \in Segment /\ DeltaFor(s) = FirstDelta /\ FirstDelta \in Int
      /\ alloc <= s.paddr + FirstDelta
  BY <1>f, <1>1, DeltaOfSegment DEF KernelSegments
<1>4. s.paddr \in Nat /\ s.memsz \in Nat /\ s.filesz \in Nat /\ s.filesz <= s.memsz
  <2>1. next \in 1 .. Len(bp.kernel.segments)
    BY <1>f, <1>1, <1>2, Headers, Sizes DEF KernelSegments
  <2> QED
    BY <1>2, <2>1, Headers
<1>5. InRange(s.paddr + DeltaFor(s)) /\ InRange(physaddr + s.memsz)
  <2>1. Note({s.paddr + DeltaFor(s), physaddr + s.memsz}) /\ wrapped \in BOOLEAN /\ ~wrapped'
    BY <1>f DEF LoadKernelSegment, TypeOK, Fits
  <2> QED
    BY <2>1, NotWrapped
<1> DEFINE p == s.paddr + FirstDelta
<1>6. physaddr = p /\ p \in Nat /\ alloc <= p
  BY <1>f, <1>3, <1>4, <1>5, UExact, Sizes
<1>7. U(physaddr + s.memsz) = p + s.memsz
  BY <1>4, <1>5, <1>6, UExact
<1>8. Base <= alloc /\ alloc <= limit
  BY <1>f, <1>1 DEF LayoutSteps
<1>9. end \in Nat /\ p + s.memsz <= end /\ end < Space /\ Base <= end
  <2>1. p + s.memsz \in Nat /\ p + s.memsz < Space
    BY <1>4, <1>5, <1>6, SizeAssumption DEF InRange
  <2> HIDE DEF p
  <2> QED
    BY <1>f, <1>7, <1>8, <2>1, Sizes DEF Larger
<1> HIDE DEF end, p, physaddr
<1>10. end - Base \in Nat /\ end - Base < Space
  <2>1. Base \in Nat
    BY <1>f, Sizes
  <2> QED
    BY <1>9, <2>1, SizeAssumption
<1>11. grown.size \in Nat /\ end - Base <= grown.size
  BY <1>f, <1>10, GrownHolds, Sizes
<1>14. image' = Fill(Grow(image, U(end - Base)), physaddr - Base, s.filesz, "kernel", s.offset)
  BY DEF LoadKernelSegment, physaddr, end
<1>15. p = s.paddr + FirstDelta
  BY DEF p
<1> HIDE DEF grown, s
<1>12. Inside(grown, physaddr - Base, s.filesz)
  BY <1>f, <1>4, <1>6, <1>8, <1>9, <1>11, Sizes DEF Inside
<1>13. pc' = "segments"
  BY <1>12 DEF LoadKernelSegment, s, physaddr, end, grown
<1> DEFINE at == s.paddr + FirstDelta - Base
<1>16. at = p - Base
  <2>1. s.paddr \in Nat /\ FirstDelta \in Int /\ p \in Nat /\ Base \in Nat
    BY <1>f, <1>3, <1>4, <1>6, Sizes
  <2> QED
    BY <1>15, <2>1
<1> HIDE DEF at
<1>17. at \in Nat /\ at + s.memsz <= end - Base
  BY <1>f, <1>4, <1>6, <1>8, <1>9, <1>16, Sizes
<1>18. image' = Fill(Grow(image, U(end - Base)), at, s.filesz, "kernel", s.offset)
  BY <1>6, <1>14, <1>16
<1>19. /\ at \in Nat
       /\ \E n \in Nat :
            /\ n < Space /\ at + s.memsz <= n
            /\ image' = Fill(Grow(image, U(n)), at, s.filesz, "kernel", s.offset)
  BY <1>10, <1>17, <1>18
<1> QED
  BY <1>13, <1>19 DEF at, s

-----------------------------------------------------------------------------
(***************************************************************************)
(* The kickstart: its vector grows to the end of each segment in turn.     *)
(***************************************************************************)
\* What a step that loads a segment does, in numbers that fit.
LEMMA KickSegment ==
  ASSUME LayoutInv, KickLoop, [Next]_vars, Fits', LoadKickSegment
  PROVE  LET s == KickSegments[next]
             to == kickBase + s.paddr + s.filesz
         IN /\ s.paddr \in Nat /\ s.memsz \in Nat /\ s.filesz \in Nat /\ s.filesz <= s.memsz
            /\ limit' = Larger(limit, to) /\ allocLimit' = Larger(limit, KickEnd(next))
            /\ kick'.size = limit' - kickBase
            /\ pc' = "kickSegments" /\ next' = next + 1 /\ next \in Nat \ {0}
            /\ next <= Len(KickSegments)
<1> DEFINE s == bp.kickstart.segments[next]
           physaddr == U(s.paddr + kickBase)
           end == Larger(limit, U(physaddr + s.filesz))
           grown == Grow(kick, U(end - kickBase))
<1>f. /\ WellFormed /\ TypeOK /\ FilesAccepted
  BY StillFits
<1>1. pc = "kickSegments" /\ next <= Len(KickSegments)
  BY DEF LoadKickSegment, KickSegments
<1>2. bp.kickstart \in ElfFile /\ Sized(bp.kickstart)
  BY <1>f, <1>1, GoodFiles DEF FilesAccepted
<1>3. /\ s \in Segment /\ s.paddr \in Nat /\ s.memsz \in Nat /\ s.filesz \in Nat
      /\ s.filesz <= s.memsz /\ s.offset \in Nat
  <2>1. next \in 1 .. Len(bp.kickstart.segments)
    BY <1>f, <1>1, <1>2, Headers, Sizes DEF KickSegments
  <2>2. /\ s \in Segment /\ s.paddr \in Nat /\ s.memsz \in Nat /\ s.filesz \in Nat
        /\ s.filesz <= s.memsz
    BY <1>2, <2>1, Headers
  <2> QED
    BY <2>2 DEF Segment
<1>5. InRange(s.paddr + kickBase) /\ InRange(physaddr + s.memsz) /\ InRange(physaddr + s.filesz)
  <2>1. Note({s.paddr + kickBase, physaddr + s.memsz, physaddr + s.filesz})
    BY DEF LoadKickSegment
  <2>2. wrapped \in BOOLEAN /\ ~wrapped'
    BY <1>f DEF TypeOK, Fits
  <2> QED
    BY <2>1, <2>2, NotWrapped
<1>6. physaddr = kickBase + s.paddr /\ physaddr \in Nat
  BY <1>f, <1>3, <1>5, UExact, Sizes
<1>7. MemoryEnd(s) = KickEnd(next)
  <2>1. MemoryEnd(s) = U(physaddr + s.memsz)
    BY DEF MemoryEnd
  <2>2. U(physaddr + s.memsz) = physaddr + s.memsz
    BY <1>3, <1>5, <1>6, UExact
  <2> QED
    BY <1>6, <2>1, <2>2 DEF KickEnd, KickSegments
<1>8. U(physaddr + s.filesz) = physaddr + s.filesz
  BY <1>3, <1>5, <1>6, UExact
<1>9. limit = kickBase + kick.size
  BY <1>1 DEF KickLoop
<1>10. end = Larger(limit, kickBase + s.paddr + s.filesz)
  BY <1>6, <1>8
<1> HIDE DEF physaddr
<1>11. /\ end \in Nat /\ end < Space /\ limit <= end /\ kickBase <= end
       /\ physaddr + s.filesz <= end
  <2>1. physaddr + s.filesz < Space /\ physaddr + s.filesz \in Nat
    BY <1>3, <1>5, <1>6, SizeAssumption DEF InRange
  <2> QED
    BY <1>f, <1>8, <1>9, <2>1, Sizes DEF Larger
<1> HIDE DEF end
<1>12. end - kickBase \in Nat /\ end - kickBase < Space /\ kick.size <= end - kickBase
  BY <1>f, <1>9, <1>11, Sizes, SizeAssumption
<1>13. IsVector(grown) /\ grown.size = end - kickBase
  <2>1. /\ IsVector(grown) /\ end - kickBase <= grown.size
        /\ grown.size = IF kick.size < end - kickBase THEN end - kickBase ELSE kick.size
    BY <1>f, <1>12, GrownHolds, Sizes
  <2> QED
    BY <1>f, <1>12, <2>1, Sizes
<1> HIDE DEF grown
<1>14. Inside(grown, physaddr - kickBase, s.filesz)
  BY <1>f, <1>3, <1>6, <1>11, <1>13, Sizes DEF Inside
<1>15. kick'.size = end - kickBase
  <2>1. kick' = Fill(grown, physaddr - kickBase, s.filesz, "kickstart", s.offset)
    BY DEF LoadKickSegment, physaddr, grown, end
  <2>2. physaddr - kickBase \in Int
    BY <1>f, <1>6, Sizes
  <2> DEFINE at == physaddr - kickBase
  <2> HIDE DEF at, s
  <2>3. at \in Int
    BY <2>2 DEF at
  <2> DEFINE len == s.filesz
             off == s.offset
  <2>4. len \in Nat /\ off \in Nat
    BY <1>3
  <2> HIDE DEF len, off
  <2>5. Fill(grown, at, len, "kickstart", off).size = grown.size
    BY <1>13, <2>3, <2>4, FillVector DEF Sources
  <2> QED
    BY <1>13, <2>1, <2>5 DEF at, len, off
<1>16. /\ limit' = end /\ allocLimit' = Larger(limit, MemoryEnd(s)) /\ next' = next + 1
       /\ pc' = "kickSegments"
  BY <1>14 DEF LoadKickSegment, s, physaddr, end, grown
<1> QED
  BY <1>f, <1>1, <1>3, <1>7, <1>10, <1>15, <1>16, Sizes DEF KickSegments

\* A step keeps what holds of the loop over the boot stub segments.
LEMMA KickLoopStep ==
  ASSUME LayoutInv, KickLoop, [Next]_vars, Fits'
  PROVE  KickLoop'
<1>f. /\ WellFormed /\ bp' = bp /\ TypeOK /\ FilesAccepted /\ TypeOK'
  BY StillFits
<1>k. /\ KickSegments' = KickSegments
      /\ \A i : kickBase' = kickBase => KickEnd(i)' = KickEnd(i)
  BY <1>f DEF KickSegments, KickEnd
<1>s. bp.kickstart \in ElfFile => Len(KickSegments) \in Nat \ {0}
  BY <1>f, GoodFiles, Headers DEF KickSegments
<1>1. CASE \/ ReadDtb \/ OpenKernel \/ LoadKernelSegment \/ CloseKernel \/ FindChosen
           \/ PlaceInitramfs \/ SetInitrdProps \/ DeleteInitrdProps \/ PlaceFdt
           \/ StoreImage \/ PackImage
  <2>1. kick' = kick /\ pc \in Stages \ KickStages /\ pc' \notin KickStages \cup {"done"}
    BY <1>1 DEF Stages, Reading, KickStages, kickVars, ReadDtb, OpenKernel, LoadKernelSegment,
       CloseKernel, FindChosen, PlaceInitramfs, SetInitrdProps, DeleteInitrdProps, PlaceFdt,
       StoreImage, PackImage
  <2> QED
    BY <2>1 DEF KickLoop, KickStages
<1>2. CASE OpenKickstart
  <2>1. /\ pc = "kickstart" /\ pc' = "kickSegments" /\ kick' = kick /\ next' = 1
        /\ kickBase' = alloc /\ limit' = alloc /\ allocLimit' = alloc
    BY <1>2 DEF OpenKickstart
  <2>2. bp.kickstart \in ElfFile
    BY <1>2, <1>f, BlueprintType DEF OpenKickstart, TypeOK
  <2>3. kick.size = 0 /\ alloc \in Nat
    BY <1>f, <2>1, Sizes DEF KickLoop, KickStages, Stages, Reading
  <2> QED
    BY <1>k, <1>s, <2>1, <2>2, <2>3 DEF KickLoop, KickStages
<1>3. CASE LoadKickSegment
  <2> DEFINE s == KickSegments[next]
             to == kickBase + s.paddr + s.filesz
  <2>1. /\ s.paddr \in Nat /\ s.memsz \in Nat /\ s.filesz \in Nat /\ s.filesz <= s.memsz
        /\ limit' = Larger(limit, to) /\ allocLimit' = Larger(limit, KickEnd(next))
        /\ kick'.size = limit' - kickBase
        /\ pc' = "kickSegments" /\ next' = next + 1 /\ next \in Nat \ {0}
        /\ next <= Len(KickSegments)
    BY <1>3, KickSegment
  <2>2. /\ pc = "kickSegments" /\ kickBase' = kickBase
    BY <1>3 DEF LoadKickSegment
  <2>3. /\ limit = kickBase + kick.size /\ limit <= allocLimit
        /\ \A i \in 1 .. next - 1 : FileEnd(KickSegments[i]) <= kick.size
    BY <2>2 DEF KickLoop
  <2>4. bp.kickstart \in ElfFile /\ Len(KickSegments) \in Nat \ {0}
    BY <1>f, <1>s, <2>2 DEF FilesAccepted
  <2>0. kickBase \in Nat /\ limit \in Nat /\ kick.size \in Nat
    BY <1>f, Sizes
  <2>5. KickEnd(next) \in Nat /\ to \in Nat /\ to <= KickEnd(next)
    <3>1. KickEnd(next) = kickBase + s.paddr + s.memsz
      BY DEF KickEnd
    <3>2. s.paddr \in Nat /\ s.memsz \in Nat /\ s.filesz \in Nat /\ s.filesz <= s.memsz
      BY <2>1
    <3> HIDE DEF s
    <3> QED
      BY <2>0, <3>1, <3>2
  <2>6. /\ limit' \in Nat /\ limit <= limit' /\ to <= limit'
        /\ limit' <= allocLimit' /\ KickEnd(next) <= allocLimit'
    <3>1. limit' = Larger(limit, to) /\ allocLimit' = Larger(limit, KickEnd(next))
      BY <2>1
    <3> HIDE DEF to
    <3> QED
      BY <2>0, <2>5, <3>1 DEF Larger
  <2>7. FileEnd(s) = s.paddr + s.filesz
    BY DEF FileEnd
  <2>8. FileEnd(s) <= kick'.size /\ kick.size <= kick'.size
    <3>1. /\ kick'.size = limit' - kickBase /\ limit = kickBase + kick.size
          /\ s.paddr \in Nat /\ s.filesz \in Nat
      BY <2>1, <2>3
    <3> HIDE DEF s
    <3> QED
      BY <2>0, <2>6, <2>7, <3>1
  <2>9. ASSUME NEW i \in 1 .. next PROVE FileEnd(KickSegments[i]) <= kick'.size
    <3>1. CASE i = next
      BY <2>8, <3>1
    <3>2. CASE i # next
      <4>1. i \in 1 .. next - 1
        BY <2>1, <3>2
      <4>2. FileEnd(KickSegments[i]) <= kick.size
        BY <2>3, <4>1
      <4>3. FileEnd(KickSegments[i]) \in Nat
        <5>1. i \in 1 .. Len(bp.kickstart.segments) /\ Sized(bp.kickstart)
          BY <1>f, <2>1, <2>4, GoodFiles DEF KickSegments
        <5> QED
          BY <2>4, <5>1, Headers DEF FileEnd, KickSegments
      <4>4. kick'.size \in Nat /\ kick.size \in Nat
        BY <1>f, Sizes DEF TypeOK, IsVector
      <4> QED
        BY <2>8, <4>2, <4>3, <4>4
    <3> QED
      BY <3>1, <3>2
  <2> HIDE DEF s, to
  <2>10. next' - 1 = next /\ next' <= Len(KickSegments) + 1
    BY <2>1, <2>4
  <2>11. limit' = kickBase' + kick'.size
    BY <1>f, <2>1, <2>2, <2>6, Sizes
  <2>12. KickEnd(next - 1)' = KickEnd(next)
    BY <1>k, <2>2, <2>10 DEF KickEnd
  <2> QED
    BY <1>k, <2>1, <2>6, <2>9, <2>10, <2>11, <2>12 DEF KickLoop, KickStages
<1>4. CASE CloseKickSegments
  <2>1. /\ pc = "kickSegments" /\ next > Len(KickSegments) /\ pc' = "relocs"
        /\ UNCHANGED <<kick, kickBase, allocLimit>>
    BY <1>4 DEF CloseKickSegments, KickSegments, kickVars
  <2>2. Len(KickSegments) \in Nat \ {0} /\ next \in Nat \ {0}
    BY <1>f, <1>s, <2>1, Sizes DEF FilesAccepted
  <2>3. next - 1 = Len(KickSegments) /\ next > 1
    BY <2>1, <2>2 DEF KickLoop
  <2> QED
    BY <1>k, <2>1, <2>3 DEF KickLoop, KickStages
<1>5. CASE ApplyRelocs
  <2>1. /\ pc = "relocs" /\ pc' \in {"relocs", "failed", "undefined"}
        /\ UNCHANGED <<kickBase, allocLimit>>
    <3>1. pc' = "relocs" \/ pc' = "undefined" \/ pc' = "failed"
      BY <1>5, Zenon DEF ApplyRelocs
    <3>2. pc = "relocs" /\ UNCHANGED <<kickBase, allocLimit>>
      BY <1>5 DEF ApplyRelocs
    <3> QED
      BY <3>1, <3>2
  <2>2. kick'.size = kick.size
    BY <1>5, <1>f DEF ApplyRelocs, TypeOK, IsVector
  <2> QED
    BY <1>k, <2>1, <2>2 DEF KickLoop, KickStages, Stages, Reading
<1>6. CASE CloseKickstart
  <2>1. /\ pc = "relocs" /\ pc' = "finish" /\ alloc' = allocLimit /\ UNCHANGED <<kick, kickBase>>
    BY <1>6 DEF CloseKickstart, kickVars
  <2> QED
    BY <1>k, <2>1 DEF KickLoop, KickStages
<1>7. CASE AppendKickstart
  <2>1. pc = "finish" /\ pc' \in {"write", "undefined"} /\ UNCHANGED <<alloc, kickBase>>
    BY <1>7 DEF AppendKickstart
  <2> QED
    BY <1>k, <2>1 DEF KickLoop, KickStages, Stages, Reading
<1>8. CASE WriteElf
  <2>1. pc = "write" /\ pc' = "done" /\ UNCHANGED <<alloc, kickBase>>
    BY <1>8 DEF WriteElf, layoutVars, kickVars
  <2>2. bp.kickstart \in ElfFile
    BY <1>f, <2>1 DEF FilesAccepted
  <2> QED
    BY <1>f, <1>k, <2>1, <2>2 DEF KickLoop, KickStages, Stages, Reading
<1>9. CASE Throw \/ WriteError
  BY <1>9 DEF Throw, WriteError, KickLoop, KickStages, Stages, Reading
<1>10. CASE Ended \/ UNCHANGED vars
  BY <1>10 DEF Ended, vars, KickLoop, KickSegments, KickEnd
<1> QED
  BY <1>1, <1>2, <1>3, <1>4, <1>5, <1>6, <1>7, <1>8, <1>9, <1>10 DEF Next

\* An element of a sequence.
LEMMA ElementOfSequence ==
  ASSUME NEW S, NEW q \in Seq(S), NEW i \in DOMAIN q
  PROVE  q[i] \in S
OBVIOUS

\* Every relocation processed lies in the vector (processImageRelocations).
LEMMA RelocsInside ==
  ASSUME LayoutInv, KickLoop, [Next]_vars, Fits', ApplyRelocs
  PROVE  pc' # "undefined"
<1>f. /\ WellFormed /\ TypeOK /\ FilesAccepted
  BY StillFits
<1>1. pc = "relocs" /\ next <= Len(bp.kickstart.relocs)
  BY DEF ApplyRelocs
<1>2. bp.kickstart \in ElfFile /\ Sized(bp.kickstart) /\ GoodKickstart(bp.kickstart)
  BY <1>f, <1>1, GoodFiles DEF FilesAccepted
<1> DEFINE section == bp.kickstart.relocs[next]
           entries == Relevant(section)
<1>3. next \in DOMAIN bp.kickstart.relocs
  <2>1. bp.kickstart.relocs \in Seq(RelocSection)
    BY <1>2 DEF ElfFile
  <2> QED
    BY <1>f, <1>1, <2>1, Sizes
<1>4. ASSUME NEW i \in Processed(entries) PROVE ~(entries[i].offset >= kick.size)
  <2>1. section.alloc /\ entries = section.entries /\ i \in DOMAIN section.entries
    BY <1>4 DEF Relevant, Processed
  <2>2. PICK j \in DOMAIN bp.kickstart.segments :
          section.entries[i].offset < FileEnd(bp.kickstart.segments[j])
    BY <1>2, <1>3, <2>1 DEF GoodKickstart
  <2>3. j \in 1 .. Len(bp.kickstart.segments)
    BY <1>2, <2>2, Headers
  <2>4. FileEnd(bp.kickstart.segments[j]) <= kick.size
    BY <1>1, <2>3 DEF KickLoop, KickSegments
  <2>5. FileEnd(bp.kickstart.segments[j]) \in Nat
    BY <1>2, <2>3, Headers DEF FileEnd
  <2>6. section.entries[i].offset \in Nat
    <3>1. section \in RelocSection
      BY <1>2, <1>3 DEF ElfFile
    <3>2. section.entries \in Seq([kind : {"abs", "pcrel", "other"}, offset : Nat])
      BY <3>1 DEF RelocSection
    <3> DEFINE es == section.entries
    <3>4. es \in Seq([kind : {"abs", "pcrel", "other"}, offset : Nat]) /\ i \in DOMAIN es
      BY <2>1, <3>2
    <3> HIDE DEF es
    <3>5. es[i] \in [kind : {"abs", "pcrel", "other"}, offset : Nat]
      BY <3>4, ElementOfSequence
    <3>3. section.entries[i] \in [kind : {"abs", "pcrel", "other"}, offset : Nat]
      BY <3>5 DEF es
    <3> HIDE DEF section
    <3> QED
      BY <3>3
  <2>7. kick.size \in Nat
    BY <1>f, Sizes
  <2> DEFINE o == section.entries[i].offset
  <2>8. entries[i].offset = o
    BY <2>1
  <2> HIDE DEF o
  <2>9. ~(o >= kick.size)
    BY <2>2, <2>4, <2>5, <2>6, <2>7 DEF o
  <2> QED
    BY <2>8, <2>9
<1>5. \A i \in Processed(entries) : ~(entries[i].kind = "abs" /\ entries[i].offset >= kick.size)
  BY <1>4
<1>6. ~(\E i \in Processed(entries) : entries[i].kind = "abs" /\ entries[i].offset >= kick.size)
  BY <1>5
<1> DEFINE undef == \E i \in Processed(entries) :
                      entries[i].kind = "abs" /\ entries[i].offset >= kick.size
<1>7. pc' = IF undef THEN "undefined"
            ELSE IF Processed(entries) = DOMAIN entries THEN "relocs" ELSE "failed"
  BY DEF ApplyRelocs
<1>8. ~undef
  BY <1>6
<1> HIDE DEF undef, entries, section
<1> QED
  BY <1>7, <1>8

\* The kernel has a delta, the kickstart room for the contract words, and the image
\* is resized for the whole kickstart.
LEMMA KickstartInside ==
  ASSUME LayoutInv, KernelLoop, KickLoop, [Next]_vars, Fits', AppendKickstart
  PROVE  pc' = "write"
<1> DEFINE at == kickBase - disp - Base
           room == alloc - disp - Base
           grown == Grow(image, U(room))
<1>f. /\ WellFormed /\ TypeOK /\ FilesAccepted /\ LayoutSteps
  BY StillFits
<1>1. pc = "finish"
  BY DEF AppendKickstart
<1>2. delta # None
  BY <1>1, NoneAssumption DEF KernelLoop, Stages, Reading
<1>3. kick.size >= InfoSize
  <2>1. bp.kickstart \in ElfFile /\ Sized(bp.kickstart) /\ GoodKickstart(bp.kickstart)
    BY <1>f, <1>1, GoodFiles DEF FilesAccepted
  <2>2. PICK j \in DOMAIN bp.kickstart.segments : FileEnd(bp.kickstart.segments[j]) >= InfoSize
    BY <2>1 DEF GoodKickstart
  <2>3. j \in 1 .. Len(bp.kickstart.segments)
    BY <2>1, <2>2, Headers
  <2>4. FileEnd(bp.kickstart.segments[j]) <= kick.size
    BY <1>1, <2>3 DEF KickLoop, KickSegments
  <2>5. FileEnd(bp.kickstart.segments[j]) \in Nat
    BY <2>1, <2>3, Headers DEF FileEnd
  <2> QED
    BY <1>f, <2>2, <2>4, <2>5, Sizes, SizeAssumption
<1>4. Base + disp <= kickBase /\ kickBase <= alloc /\ kickBase + kick.size <= alloc
  BY <1>f, <1>1 DEF LayoutSteps, KickLoop
<1>5. room \in Nat /\ room < Space /\ at \in Nat /\ at + kick.size <= room
  BY <1>f, <1>4, Sizes, SizeAssumption
<1>6. grown.size \in Nat /\ room <= grown.size
  <2> HIDE DEF room
  <2> QED
    BY <1>f, <1>5, GrownHolds, Sizes
<1> HIDE DEF room, at, grown
<1>7. Inside(grown, at, kick.size)
  BY <1>f, <1>5, <1>6, Sizes DEF Inside
<1>8. ~(delta = None \/ kick.size < InfoSize)
  BY <1>f, <1>2, <1>3, Sizes, SizeAssumption
<1> QED
  BY <1>7, <1>8 DEF AppendKickstart, room, at, grown

-----------------------------------------------------------------------------
(***************************************************************************)
(* The initramfs and the device tree.                                      *)
(***************************************************************************)
\* A file of n words at the allocation pointer: the vector is resized for it, and the
\* pointer moves behind it.
LEMMA Placed ==
  ASSUME TypeOK, LayoutSteps, Base <= alloc, NEW n \in Nat, NEW end, end = U(alloc + n),
         InRange(alloc + n), InRange(end + PageSize - 1)
  PROVE  /\ end = alloc + n /\ end <= AlignUp(end, PageSize)
         /\ end - Base \in Nat /\ end - Base < Space
         /\ Inside(Grow(image, U(end - Base)), alloc - Base, n)
<1>1. end = alloc + n /\ end \in Nat /\ end < Space
  BY UExact, Sizes, SizeAssumption DEF InRange
<1>2. end <= AlignUp(end, PageSize)
  BY <1>1, AlignUpBounds, SizeAssumption
<1>3. end - Base \in Nat /\ end - Base < Space
  BY <1>1, Sizes, SizeAssumption
<1> DEFINE grown == Grow(image, U(end - Base))
<1>4. grown.size \in Nat /\ end - Base <= grown.size
  BY <1>3, GrownHolds, Sizes
<1> HIDE DEF grown
<1>5. Inside(grown, alloc - Base, n)
  BY <1>1, <1>4, Sizes DEF Inside
<1> QED
  BY <1>1, <1>2, <1>3, <1>5 DEF grown

\* The initramfs is placed at the allocation pointer, which moves behind it.
LEMMA InitramfsPlaced ==
  ASSUME LayoutInv, [Next]_vars, Fits', PlaceInitramfs
  PROVE  /\ pc' = "props" /\ initrdBase' = alloc /\ Base <= alloc
         /\ bp.initramfs \in Nat /\ alloc + bp.initramfs <= alloc'
<1> DEFINE n == bp.initramfs
           end == U(alloc + n)
<1>f. TypeOK /\ FilesAccepted /\ LayoutSteps
  BY StillFits
<1>1. n \in Nat /\ Base <= alloc
  BY <1>f DEF PlaceInitramfs, FilesAccepted, LayoutSteps
<1>2. InRange(alloc + n) /\ InRange(end + PageSize - 1)
  <2>1. Note({alloc + n, end + PageSize - 1}) /\ wrapped \in BOOLEAN /\ ~wrapped'
    BY <1>f DEF PlaceInitramfs, TypeOK, Fits
  <2> QED
    BY <2>1, NotWrapped
<1>3. /\ end = alloc + n /\ end <= AlignUp(end, PageSize)
      /\ Inside(Grow(image, U(end - Base)), alloc - Base, n)
  BY <1>f, <1>1, <1>2, Placed
<1> QED
  BY <1>1, <1>3 DEF PlaceInitramfs

\* The device tree is placed at the allocation pointer.
LEMMA FdtPlaced ==
  ASSUME LayoutInv, [Next]_vars, Fits', PlaceFdt
  PROVE  pc' = "compress" /\ fdtBase' = alloc /\ placed' = fdt
<1> DEFINE n == fdt.total
           end == U(alloc + n)
<1>f. TypeOK /\ FilesAccepted /\ LayoutSteps
  BY StillFits
<1>1. n \in Nat /\ Base <= alloc
  BY <1>f DEF TypeOK, FdtState, LayoutSteps
<1>2. InRange(alloc + n) /\ InRange(end + PageSize - 1)
  <2>1. Note({alloc + n, end + PageSize - 1}) /\ wrapped \in BOOLEAN /\ ~wrapped'
    BY <1>f DEF PlaceFdt, TypeOK, Fits
  <2> QED
    BY <2>1, NotWrapped
<1>3. Inside(Grow(image, U(end - Base)), alloc - Base, n)
  BY <1>f, <1>1, <1>2, Placed
<1> QED
  BY <1>3 DEF PlaceFdt

\* A step keeps what holds of the initramfs and its properties.
LEMMA InitrdStep ==
  ASSUME LayoutInv, InitrdSteps, [Next]_vars, Fits'
  PROVE  InitrdSteps'
<1> USE DEF Stages, Reading, KickStages
<1>f. /\ WellFormed /\ bp' = bp /\ Base' = Base /\ TypeOK /\ FilesAccepted /\ bp \in Blueprints
  BY StillFits
<1>1. CASE ReadDtb \/ OpenKernel \/ LoadKernelSegment \/ CloseKernel
  <2>1. /\ pc \in {"dtb", "kernel", "segments"}
        /\ pc' \in {"kernel", "segments", "chosen", "undefined"} /\ disp' = disp
    BY <1>1 DEF ReadDtb, OpenKernel, LoadKernelSegment, CloseKernel, packVars
  <2> QED
    BY <2>1 DEF InitrdSteps
<1>2. CASE FindChosen
  <2>1. /\ pc = "chosen" /\ disp' = disp
        /\ pc' = "initramfs" \/ (pc' = "props" /\ bp.initramfs = None)
    BY <1>2 DEF FindChosen, packVars
  <2> QED
    BY <1>f, <2>1 DEF InitrdSteps
<1>3. CASE PlaceInitramfs
  <2>1. /\ pc' = "props" /\ initrdBase' = alloc /\ Base <= alloc
        /\ bp.initramfs \in Nat /\ alloc + bp.initramfs <= alloc'
    BY <1>3, InitramfsPlaced
  <2>2. pc = "initramfs" /\ disp' = disp
    BY <1>3 DEF PlaceInitramfs, packVars
  <2> QED
    BY <1>f, <2>1, <2>2 DEF InitrdSteps
<1>4. CASE SetInitrdProps
  <2>1. /\ pc = "props" /\ bp.initramfs # None /\ disp' = disp /\ alloc' = alloc
        /\ (pc' = "fdt" /\ fdt' = WithInitrd(fdt)) \/ pc' = "failed"
    BY <1>4 DEF SetInitrdProps, packVars, layoutVars
  <2>2. bp.initramfs \in Nat
    BY <1>f, <2>1, BlueprintType
  <2>3. Base <= initrdBase /\ initrdBase + bp.initramfs <= alloc
    BY <2>1 DEF InitrdSteps
  <2>4. U(initrdBase + bp.initramfs) = initrdBase + bp.initramfs
    <3>1. InRange(initrdBase + bp.initramfs) /\ initrdBase + bp.initramfs \in Int
      BY <1>f, <2>2, <2>3, Sizes, SizeAssumption DEF InRange
    <3> QED
      BY <3>1, UExact
  <2>5. /\ WithInitrd(fdt).start = initrdBase
        /\ WithInitrd(fdt).end = initrdBase + bp.initramfs
    BY <1>f, <2>4 DEF WithInitrd, TypeOK, FdtState
  <2>6. Delimits(WithInitrd(fdt), alloc)
    BY <1>f, <2>1, <2>3, <2>5, Sizes DEF Delimits
  <2>7. pc' = "fdt" => Delimits(fdt, alloc)'
    BY <1>f, <2>1, <2>6 DEF Delimits
  <2> QED
    BY <2>1, <2>7 DEF InitrdSteps
<1>5. CASE DeleteInitrdProps
  <2>1. /\ pc = "props" /\ bp.initramfs = None /\ disp' = disp /\ pc' = "fdt"
        /\ bp.dtb.chosen = "sound" => fdt' = WithoutInitrd(fdt)
    BY <1>5 DEF DeleteInitrdProps, packVars
  <2>2. WithoutInitrd(fdt).start = None /\ WithoutInitrd(fdt).end = None
    BY <1>f DEF WithoutInitrd, TypeOK, FdtState
  <2>3. Delimits(fdt, alloc)'
    BY <1>f, <2>1, <2>2 DEF Delimits
  <2> QED
    BY <2>1, <2>3 DEF InitrdSteps
<1>6. CASE PlaceFdt
  <2>1. pc' = "compress" /\ fdtBase' = alloc /\ placed' = fdt
    BY <1>6, FdtPlaced
  <2>2. pc = "fdt" /\ disp' = disp
    BY <1>6 DEF PlaceFdt, packVars
  <2>3. Delimits(fdt, alloc)
    BY <2>2 DEF InitrdSteps
  <2>4. Delimits(placed, fdtBase)'
    BY <1>f, <2>1, <2>3 DEF Delimits
  <2> QED
    BY <2>1, <2>2, <2>4 DEF InitrdSteps
<1>7. CASE StoreImage \/ PackImage
  <2>1. pc = "compress" /\ pc' = "kickstart" /\ UNCHANGED <<placed, fdtBase>>
    BY <1>7 DEF StoreImage, PackImage, fdtVars
  <2> QED
    BY <1>f, <2>1 DEF InitrdSteps, Delimits
<1>8. CASE \/ OpenKickstart \/ LoadKickSegment \/ CloseKickSegments \/ ApplyRelocs
           \/ CloseKickstart \/ AppendKickstart \/ WriteElf
  <2>1. UNCHANGED <<placed, fdtBase>> /\ pc \in KickStages \cup {"kickstart"}
    BY <1>8 DEF OpenKickstart, LoadKickSegment, CloseKickSegments, ApplyRelocs, CloseKickstart,
                AppendKickstart, WriteElf, fdtVars
  <2>2. pc' \in KickStages \cup Ends
    <3>1. CASE ApplyRelocs
      <4>1. pc' = "relocs" \/ pc' = "undefined" \/ pc' = "failed"
        BY <3>1, Zenon DEF ApplyRelocs
      <4> QED
        BY <4>1 DEF Ends
    <3>2. CASE ~ApplyRelocs
      BY <1>8, <3>2 DEF OpenKickstart, LoadKickSegment, CloseKickSegments, CloseKickstart,
                        AppendKickstart, WriteElf, Ends
    <3> QED
      BY <3>1, <3>2
  <2> QED
    BY <1>f, <2>1, <2>2 DEF InitrdSteps, Delimits, Ends
<1>9. CASE Throw \/ WriteError
  BY <1>9 DEF Throw, WriteError, InitrdSteps
<1>10. CASE Ended \/ UNCHANGED vars
  BY <1>f, <1>10 DEF Ended, vars, InitrdSteps, Delimits
<1> QED
  BY <1>1, <1>2, <1>3, <1>4, <1>5, <1>6, <1>7, <1>8, <1>9, <1>10 DEF Next

-----------------------------------------------------------------------------
(***************************************************************************)
(* The invariant is inductive, and what follows from it.                   *)
(***************************************************************************)
LEMMA SafeNext == SafeInv /\ [Next]_vars => SafeInv'
<1> SUFFICES ASSUME SafeInv, [Next]_vars, Fits' PROVE SafeSteps'
  BY LayoutNext DEF SafeInv
<1>f. LayoutInv /\ SafeSteps
  BY StillFits DEF SafeInv
<1>1. KernelLoop' /\ KickLoop' /\ InitrdSteps'
  BY <1>f, KernelLoopStep, KickLoopStep, InitrdStep DEF SafeSteps
<1>2. pc' # "undefined"
  <2>1. CASE LoadKernelSegment
    BY <1>f, <2>1, KernelInside DEF SafeSteps
  <2>2. CASE PlaceInitramfs
    BY <1>f, <2>2, InitramfsPlaced
  <2>3. CASE PlaceFdt
    BY <1>f, <2>3, FdtPlaced
  <2>4. CASE LoadKickSegment
    BY <1>f, <2>4, KickSegment DEF SafeSteps
  <2>5. CASE ApplyRelocs
    BY <1>f, <2>5, RelocsInside DEF SafeSteps
  <2>6. CASE AppendKickstart
    BY <1>f, <2>6, KickstartInside DEF SafeSteps
  <2>7. CASE \/ ReadDtb \/ OpenKernel \/ CloseKernel \/ FindChosen \/ SetInitrdProps
             \/ DeleteInitrdProps \/ StoreImage \/ PackImage \/ OpenKickstart
             \/ CloseKickSegments \/ CloseKickstart \/ WriteElf \/ Throw \/ WriteError
    BY <2>7 DEF ReadDtb, OpenKernel, CloseKernel, FindChosen, SetInitrdProps, DeleteInitrdProps,
                StoreImage, PackImage, OpenKickstart, CloseKickSegments, CloseKickstart,
                WriteElf, Throw, WriteError
  <2>8. CASE Ended \/ UNCHANGED vars
    BY <1>f, <2>8 DEF Ended, vars, SafeSteps
  <2> QED
    BY <2>1, <2>2, <2>3, <2>4, <2>5, <2>6, <2>7, <2>8 DEF Next
<1> QED
  BY <1>1, <1>2 DEF SafeSteps

\* SafeInv holds in every reachable state.
LEMMA SafeAlways == Spec => []SafeInv
BY SafeInit, SafeNext, PTL DEF Spec

\* With well-formed files and a layout that fits, build() reads and writes
\* through vector.data() inside its vectors only, and has a delta for the contract
\* words.
THEOREM AllDefined == Spec => []NoUndefined
<1>1. SafeInv => NoUndefined
  BY DEF SafeInv, SafeSteps, NoUndefined
<1> QED
  BY <1>1, SafeAlways, PTL

\* What the placed device tree says of the initramfs is true of this build: the
\* two properties of Image.cpp's step delimit it below the tree, or are both gone.
THEOREM InitrdTold == Spec => []InitrdPropsHonest
<1>1. SafeInv => InitrdPropsHonest
  <2> SUFFICES ASSUME SafeInv, Fits, elf # None, bp.dtb.chosen = "sound"
               PROVE  IF bp.initramfs = None
                      THEN placed.start = None /\ placed.end = None
                      ELSE /\ placed.end - placed.start = bp.initramfs
                           /\ placed.start \in Base .. fdtBase /\ placed.end <= fdtBase
    BY DEF InitrdPropsHonest
  <2>1. pc = "done" /\ Delimits(placed, fdtBase) /\ TypeOK
    BY DEF SafeInv, SafeSteps, InitrdSteps, LayoutInv, LayoutSteps, TypeInv, Fits
  <2>2. CASE bp.initramfs = None
    BY <2>1, <2>2 DEF Delimits
  <2>3. CASE bp.initramfs # None
    <3>1. bp.initramfs \in Nat
      BY <2>1, <2>3, BlueprintType DEF TypeOK
    <3>2. /\ placed.start \in Nat /\ placed.end = placed.start + bp.initramfs
          /\ Base <= placed.start /\ placed.end <= fdtBase
      BY <2>1, <2>3 DEF Delimits
    <3>3. Base \in Nat /\ fdtBase \in Nat
      BY <2>1, Sizes
    <3> QED
      BY <2>3, <3>1, <3>2, <3>3
  <2> QED
    BY <2>2, <2>3
<1> QED
  BY <1>1, SafeAlways, PTL

\* The stacks of the kickstart, and all of its memory, are part of what is loaded,
\* if the program header listed last is the highest.
THEOREM MemoryReserved == Spec => []KickstartMemoryReserved
<1>1. SafeInv => KickstartMemoryReserved
  <2> SUFFICES ASSUME SafeInv, Fits, elf # None, NEW s \in SegmentsOf(bp.kickstart),
                      \A t \in SegmentsOf(bp.kickstart) :
                        t.paddr + t.memsz <= KickSegments[Len(KickSegments)].paddr
                                               + KickSegments[Len(KickSegments)].memsz
               PROVE  kickBase + s.paddr + s.memsz <= elf.vaddr + elf.size
    BY DEF KickstartMemoryReserved, KickSegments
  <2>1. /\ pc = "done" /\ TypeOK /\ bp.kickstart \in ElfFile
        /\ KickEnd(Len(KickSegments)) <= alloc
    BY DEF SafeInv, SafeSteps, KickLoop, LayoutInv, LayoutSteps, TypeInv, Fits
  <2>2. alloc = Base + disp + image.size /\ elf.vaddr = Base + disp /\ elf.size = image.size
    BY <2>1 DEF SafeInv, LayoutInv, LayoutSteps, Fits
  <2>3. Sized(bp.kickstart)
    BY <2>1, GoodFiles DEF Fits
  <2> DEFINE last == KickSegments[Len(KickSegments)]
  <2>4. last.paddr \in Nat /\ last.memsz \in Nat
    BY <2>1, <2>3, Headers DEF KickSegments
  <2>5. s.paddr \in Nat /\ s.memsz \in Nat
    BY <2>1, <2>3, Headers DEF SegmentsOf
  <2>6. s.paddr + s.memsz <= last.paddr + last.memsz
    OBVIOUS
  <2>7. kickBase + last.paddr + last.memsz <= alloc
    BY <2>1 DEF KickEnd
  <2> HIDE DEF last
  <2>8. kickBase \in Nat /\ alloc \in Nat
    BY <2>1, Sizes
  <2>9. kickBase + s.paddr + s.memsz <= alloc
    BY <2>4, <2>5, <2>6, <2>7, <2>8
  <2>10. elf.vaddr + elf.size = alloc
    BY <2>2
  <2> QED
    BY <2>9, <2>10
<1> QED
  BY <1>1, SafeAlways, PTL

-----------------------------------------------------------------------------
(***************************************************************************)
(* What has been placed stays: each stage writes behind the vector of the  *)
(* stage before.                                                           *)
(***************************************************************************)
\* resize keeps the cells there are.
LEMMA GrowKeeps ==
  ASSUME NEW v, IsVector(v), NEW n \in Nat, n < Space, NEW k \in 0 .. v.size - 1
  PROVE  Grow(v, U(n)).cell[k] = v.cell[k] /\ k \in 0 .. Grow(v, U(n)).size - 1
<1>1. U(n) = n
  BY UExact, SizeAssumption DEF InRange
<1>2. v.size \in Nat
  BY DEF IsVector
<1>3. k \in 0 .. Grow(v, n).size - 1
  <2>1. Grow(v, n).size = IF v.size < n THEN n ELSE v.size
    BY GrowVector
  <2> QED
    BY <1>2, <2>1
<1>4. Grow(v, n).cell[k] = v.cell[k]
  <2>1. CASE v.size < n
    <3>1. Grow(v, n).cell = [j \in 0 .. n - 1 |-> IF j < v.size THEN v.cell[j] ELSE Zero]
      BY <2>1 DEF Grow
    <3>2. k \in 0 .. n - 1 /\ k < v.size
      BY <1>2, <2>1
    <3> QED
      BY <3>1, <3>2
  <2>2. CASE ~(v.size < n)
    BY <2>2 DEF Grow
  <2> QED
    BY <2>1, <2>2
<1> QED
  BY <1>1, <1>3, <1>4

\* A file read to the end of a vector leaves the cells before it.
LEMMA FillKeeps ==
  ASSUME NEW v, IsVector(v), NEW at \in Nat, NEW n \in Nat, NEW file \in Sources,
         NEW off \in Nat, NEW k \in 0 .. v.size - 1, k < at
  PROVE  Fill(v, at, n, file, off).cell[k] = v.cell[k] /\ k < Fill(v, at, n, file, off).size
<1> DEFINE c == [j \in 0 .. v.size - 1 |->
                  IF j \in at .. at + n - 1 THEN From(file, off + (j - at)) ELSE v.cell[j]]
<1>1. v.size \in Nat
  BY DEF IsVector
<1>2. c[k] = v.cell[k]
  BY <1>1
<1>3. Fill(v, at, n, file, off).cell = c
  <2>1. Fill(v, at, n, file, off) = [v EXCEPT !.cell = c]
    BY DEF Fill
  <2>2. v = [size |-> v.size, cell |-> v.cell]
    BY DEF IsVector
  <2> HIDE DEF c
  <2> QED
    BY <2>1, <2>2
<1>4. k < Fill(v, at, n, file, off).size
  <2>1. Fill(v, at, n, file, off).size = v.size
    BY FillVector
  <2> QED
    BY <1>1, <2>1
<1> HIDE DEF c
<1> QED
  BY <1>2, <1>3, <1>4

\* So does the kickstart, copied behind it.
LEMMA OverlayKeeps ==
  ASSUME NEW v, IsVector(v), NEW w, IsVector(w), NEW at \in Nat,
         NEW k \in 0 .. v.size - 1, k < at
  PROVE  Overlay(v, at, w).cell[k] = v.cell[k] /\ k < Overlay(v, at, w).size
<1> DEFINE c == [j \in 0 .. v.size - 1 |->
                  IF j \in at .. at + w.size - 1 THEN w.cell[j - at] ELSE v.cell[j]]
<1>1. v.size \in Nat /\ w.size \in Nat
  BY DEF IsVector
<1>2. c[k] = v.cell[k]
  BY <1>1
<1>3. Overlay(v, at, w).cell = c
  <2>1. Overlay(v, at, w) = [v EXCEPT !.cell = c]
    BY DEF Overlay
  <2>2. v = [size |-> v.size, cell |-> v.cell]
    BY DEF IsVector
  <2> HIDE DEF c
  <2> QED
    BY <2>1, <2>2
<1>4. k < Overlay(v, at, w).size
  <2>1. Overlay(v, at, w).size = v.size
    BY OverlayVector
  <2> QED
    BY <1>1, <2>1
<1> HIDE DEF c
<1> QED
  BY <1>2, <1>3, <1>4

\* A file placed at an allocation pointer that is behind the vector.
LEMMA AppendKeeps ==
  ASSUME TypeOK, Base + image.size <= alloc, NEW n \in Nat, NEW file \in Sources,
         NEW m \in Nat, m < Space, NEW k \in 0 .. image.size - 1
  PROVE  LET r == Fill(Grow(image, U(m)), alloc - Base, n, file, 0)
         IN r.cell[k] = image.cell[k] /\ k < r.size
<1> DEFINE g == Grow(image, U(m))
           at == alloc - Base
<1>1. IsVector(g) /\ g.cell[k] = image.cell[k] /\ k \in 0 .. g.size - 1
  BY GrowKeeps, GrownHolds, Sizes
<1>2. at \in Nat /\ k < at
  BY Sizes
<1> HIDE DEF g, at
<1>3. Fill(g, at, n, file, 0).cell[k] = g.cell[k] /\ k < Fill(g, at, n, file, 0).size
  BY <1>1, <1>2, FillKeeps
<1> QED
  BY <1>1, <1>3 DEF g, at

Kept == \A k \in 0 .. image.size - 1 : k < image'.size /\ image'.cell[k] = image.cell[k]

\* A step that leaves the displacement alone keeps what is in the image.
LEMMA StageKeeps ==
  ASSUME SafeInv, [Next]_vars, pc # "segments", Fits', disp' = disp
  PROVE  Kept
<1>f. /\ TypeOK /\ FilesAccepted /\ LayoutInv /\ LayoutSteps /\ SafeSteps /\ wrapped \in BOOLEAN
      /\ ~wrapped'
  BY StillFits DEF SafeInv, TypeOK, Fits
<1>1. CASE PlaceInitramfs
  <2> DEFINE n == bp.initramfs
             end == U(alloc + n)
  <2>1. n \in Nat /\ Base <= alloc /\ Base + image.size <= alloc
    BY <1>1, <1>f DEF PlaceInitramfs, FilesAccepted, LayoutSteps, Filling
  <2>2. InRange(alloc + n) /\ InRange(end + PageSize - 1)
    <3>1. Note({alloc + n, end + PageSize - 1})
      BY <1>1 DEF PlaceInitramfs
    <3> QED
      BY <1>f, <3>1, NotWrapped
  <2>3. end - Base \in Nat /\ end - Base < Space
    BY <1>f, <2>1, <2>2, Placed
  <2>4. image' = Fill(Grow(image, U(end - Base)), alloc - Base, n, "initramfs", 0)
    BY <1>1 DEF PlaceInitramfs
  <2> HIDE DEF n, end
  <2> QED
    BY <1>f, <2>1, <2>3, <2>4, AppendKeeps DEF Sources, Kept
<1>2. CASE PlaceFdt
  <2> DEFINE n == fdt.total
             end == U(alloc + n)
  <2>1. n \in Nat /\ Base <= alloc /\ Base + image.size <= alloc
    BY <1>2, <1>f DEF PlaceFdt, TypeOK, FdtState, LayoutSteps, Filling
  <2>2. InRange(alloc + n) /\ InRange(end + PageSize - 1)
    <3>1. Note({alloc + n, end + PageSize - 1})
      BY <1>2 DEF PlaceFdt
    <3> QED
      BY <1>f, <3>1, NotWrapped
  <2>3. end - Base \in Nat /\ end - Base < Space
    BY <1>f, <2>1, <2>2, Placed
  <2>4. image' = Fill(Grow(image, U(end - Base)), alloc - Base, n, "dtb", 0)
    BY <1>2 DEF PlaceFdt
  <2> HIDE DEF n, end
  <2> QED
    BY <1>f, <2>1, <2>3, <2>4, AppendKeeps DEF Sources, Kept
<1>3. CASE PackImage
  <2>1. pc = "compress" /\ disp' = DisplacementFor(image.size) /\ image.size \in Nat
    BY <1>3, <1>f, Sizes DEF PackImage
  <2>2. InRange(image.size + (PageSize - 1)) /\ image.size >= 1
    <3>1. PICK n \in 1 .. image.size :
            Note({image.size + PageSize - 1, Base + disp', U(Base + disp') + n,
                  U(U(Base + disp') + n) + PageSize - 1})
      BY <1>3 DEF PackImage
    <3>2. InRange(image.size + PageSize - 1)
      BY <1>f, <3>1, NotWrapped
    <3>3. image.size >= 1
      BY <2>1
    <3> QED
      BY <2>1, <3>2, <3>3, SizeAssumption DEF InRange
  <2>3. disp = 0
    BY <1>f, <2>1 DEF SafeSteps, InitrdSteps, Stages, Reading, KickStages
  <2>4. image.size <= disp'
    BY <2>1, <2>2, DisplacementBounds
  <2>5. image.size <= 0
    BY <2>3, <2>4
  <2>6. image.size \in Nat /\ image.size >= 1
    BY <2>1, <2>2
  <2> QED
    BY <2>5, <2>6
<1>4. CASE AppendKickstart
  <2> DEFINE at == kickBase - disp - Base
             room == alloc - disp - Base
             grown == Grow(image, U(room))
  <2>1. pc = "finish" /\ pc' = "write"
    BY <1>4, <1>f, KickstartInside DEF AppendKickstart, SafeSteps
  <2>2. image' = Overlay(grown, at, WithInfo(kick))
    BY <1>4, <2>1 DEF AppendKickstart
  <2>3. Base + disp + image.size <= kickBase /\ kickBase <= alloc /\ Base + disp <= kickBase
    BY <1>f, <2>1 DEF LayoutSteps
  <2>4. at \in Nat /\ image.size <= at /\ room \in Nat /\ room < Space
    BY <1>f, <2>3, Sizes, SizeAssumption
  <2>5. IsVector(WithInfo(kick))
    BY <1>f, Sizes, FillVector, SizeAssumption DEF WithInfo, Sources
  <2> HIDE DEF at, room
  <2>6. IsVector(grown)
    BY <1>f, <2>4, GrownHolds, Sizes
  <2>7. ASSUME NEW k \in 0 .. image.size - 1
        PROVE  k < image'.size /\ image'.cell[k] = image.cell[k]
    <3>1. grown.cell[k] = image.cell[k] /\ k \in 0 .. grown.size - 1
      BY <1>f, <2>4, GrowKeeps, Sizes
    <3>2. k < at
      BY <1>f, <2>4, Sizes
    <3> HIDE DEF grown
    <3> QED
      BY <2>2, <2>4, <2>5, <2>6, <3>1, <3>2, OverlayKeeps
  <2> QED
    BY <2>7 DEF Kept
<1>5. CASE \/ ReadDtb \/ OpenKernel \/ LoadKernelSegment \/ CloseKernel \/ FindChosen
           \/ SetInitrdProps \/ DeleteInitrdProps \/ StoreImage \/ OpenKickstart
           \/ LoadKickSegment \/ CloseKickSegments \/ ApplyRelocs \/ CloseKickstart
           \/ WriteElf \/ Throw \/ WriteError \/ Ended \/ UNCHANGED vars
  <2>1. image' = image
    BY <1>5 DEF ReadDtb, OpenKernel, LoadKernelSegment, CloseKernel, FindChosen, SetInitrdProps,
                DeleteInitrdProps, StoreImage, OpenKickstart, LoadKickSegment,
                CloseKickSegments, ApplyRelocs, CloseKickstart, WriteElf, Throw, WriteError,
                Ended, vars, layoutVars
  <2> QED
    BY <1>f, <2>1, Sizes DEF Kept
<1> QED
  BY <1>1, <1>2, <1>3, <1>4, <1>5 DEF Next

\* Once read, the bytes of a file are overwritten by no later stage of the build,
\* except by the compressed form of all of them; the kernel's segments may overlap
\* each other while they are being loaded (Image.cpp, build).
THEOREM NothingOverwritten == Spec => PlacedStays
<1>1. SafeInv /\ [Next]_vars
        => [pc # "segments" /\ Fits' /\ pc' # "undefined" /\ disp' = disp
              => \A k \in 0 .. image.size - 1 :
                   image.cell[k] # Zero
                     => k < image'.size /\ image'.cell[k] = image.cell[k]]_vars
  BY StageKeeps DEF Kept
<1> QED
  BY <1>1, SafeAlways, PTL DEF Spec, PlacedStays

-----------------------------------------------------------------------------
(***************************************************************************)
(* The relocations.  After n sections a word has been added to once for    *)
(* each reference to it in those of them that are in memory.               *)
(***************************************************************************)
Relocs == bp.kickstart.relocs

References(r, k) ==
  {<<r, e>> : e \in {i \in DOMAIN Relocs[r].entries :
                       Relocs[r].entries[i] = [kind |-> "abs", offset |-> k]}}

ReferencesUpTo(n, k) == UNION {References(r, k) : r \in {q \in 1 .. n : Relocs[q].alloc}}

Relocated(n) ==
  \A k \in 0 .. kick.size - 1 :
    /\ IsFiniteSet(ReferencesUpTo(n, k))
    /\ kick.cell[k].adds = Cardinality(ReferencesUpTo(n, k))

Unrelocated(v) == \A k \in 0 .. v.size - 1 : v.cell[k].adds = 0

RelocSteps ==
  /\ pc \in Stages \ {"relocs", "finish", "write"} => Unrelocated(kick)
  /\ pc = "relocs" => next <= Len(Relocs) + 1 /\ Relocated(next - 1)
  /\ pc = "finish" => Relocated(Len(Relocs))

RelocInv == TypeInv /\ RelocSteps

\* The references of one section are as many as its entries that are applied.
LEMMA SectionReferences ==
  ASSUME NEW r, Relocs[r] \in RelocSection, NEW k,
         Processed(Relocs[r].entries) = DOMAIN Relocs[r].entries
  PROVE  /\ IsFiniteSet(References(r, k))
         /\ Cardinality(References(r, k)) = Cardinality(AbsoluteAt(Relocs[r].entries, k))
<1> DEFINE entries == Relocs[r].entries
           S == AbsoluteAt(entries, k)
           T == References(r, k)
<1>1. entries \in Seq([kind : {"abs", "pcrel", "other"}, offset : Nat])
  BY DEF RelocSection
<1>d. Processed(entries) = DOMAIN entries
  OBVIOUS
<1>t. T = {<<r, e>> : e \in {i \in DOMAIN entries : entries[i] = [kind |-> "abs", offset |-> k]}}
  BY DEF References
<1> HIDE DEF entries, T
<1>2. DOMAIN entries = 1 .. Len(entries) /\ Len(entries) \in Nat
  BY <1>1
<1>3. S = {i \in DOMAIN entries : entries[i] = [kind |-> "abs", offset |-> k]}
  <2>1. \A i \in DOMAIN entries : entries[i] = [kind |-> entries[i].kind, offset |-> entries[i].offset]
    <3>1. ASSUME NEW i \in DOMAIN entries
          PROVE  entries[i] = [kind |-> entries[i].kind, offset |-> entries[i].offset]
      <4>1. entries[i] \in [kind : {"abs", "pcrel", "other"}, offset : Nat]
        BY <1>1, ElementOfSequence
      <4> DEFINE x == entries[i]
      <4> HIDE DEF x
      <4>2. x = [kind |-> x.kind, offset |-> x.offset]
        BY <4>1 DEF x
      <4> QED
        BY <4>2 DEF x
    <3> QED
      BY <3>1
  <2>2. \A i \in DOMAIN entries :
          entries[i] = [kind |-> "abs", offset |-> k]
            <=> entries[i].kind = "abs" /\ entries[i].offset = k
    BY <2>1
  <2> QED
    BY <1>d, <2>2 DEF AbsoluteAt
<1>4. IsFiniteSet(S)
  <2>1. IsFiniteSet(1 .. Len(entries))
    BY <1>2, FS_Interval
  <2>2. S \subseteq 1 .. Len(entries)
    BY <1>2, <1>3
  <2> QED
    BY <2>1, <2>2, FS_Subset
<1>5. T = {<<r, e>> : e \in S}
  BY <1>3, <1>t
<1> HIDE DEF S
<1>6. ExistsBijection(S, T)
  <2> DEFINE f == [e \in S |-> <<r, e>>]
  <2>1. f \in Injection(S, T)
    BY <1>5 DEF Injection, IsInjective
  <2>2. f \in Surjection(S, T)
    BY <1>5 DEF Surjection
  <2> QED
    BY <2>1, <2>2 DEF ExistsBijection, Bijection
<1> QED
  BY <1>4, <1>6, FS_Bijection DEF S, T, entries

\* One more section of relocations adds those that refer to a word.
LEMMA NextSection ==
  ASSUME Relocs \in Seq(RelocSection), NEW n \in 1 .. Len(Relocs), NEW k,
         IsFiniteSet(ReferencesUpTo(n - 1, k)),
         Processed(Relevant(Relocs[n])) = DOMAIN Relevant(Relocs[n])
  PROVE  /\ IsFiniteSet(ReferencesUpTo(n, k))
         /\ Cardinality(ReferencesUpTo(n, k))
              = Cardinality(ReferencesUpTo(n - 1, k))
                  + Cardinality(AbsoluteAt(Relevant(Relocs[n]), k))
<1> DEFINE A == ReferencesUpTo(n - 1, k)
           B == References(n, k)
<1>1. n \in Nat /\ n > 0 /\ Relocs[n] \in RelocSection
  OBVIOUS
<1>2. Cardinality(A) \in Nat
  BY FS_CardinalityType
<1>3. CASE Relocs[n].alloc
  <2>1. Relevant(Relocs[n]) = Relocs[n].entries
    BY <1>3 DEF Relevant
  <2>2. IsFiniteSet(B) /\ Cardinality(B) = Cardinality(AbsoluteAt(Relocs[n].entries, k))
    BY <1>1, <2>1, SectionReferences
  <2>3. ReferencesUpTo(n, k) = A \cup B
    <3>1. {q \in 1 .. n : Relocs[q].alloc} = {q \in 1 .. n - 1 : Relocs[q].alloc} \cup {n}
      BY <1>1, <1>3
    <3> QED
      BY <3>1 DEF ReferencesUpTo
  <2>4. A \cap B = {}
    BY DEF ReferencesUpTo, References
  <2>5. IsFiniteSet(A)
    OBVIOUS
  <2> HIDE DEF A, B
  <2>6. /\ IsFiniteSet(A \cup B)
        /\ Cardinality(A \cup B) = Cardinality(A) + Cardinality(B) - Cardinality(A \cap B)
    BY <2>2, <2>5, FS_Union
  <2>7. Cardinality(A \cap B) = 0
    BY <2>4, FS_EmptySet
  <2>8. Cardinality(B) \in Nat
    BY <2>2, FS_CardinalityType
  <2> QED
    BY <1>2, <2>1, <2>2, <2>3, <2>6, <2>7, <2>8 DEF A
<1>4. CASE ~Relocs[n].alloc
  <2>1. Relevant(Relocs[n]) = <<>>
    BY <1>4 DEF Relevant
  <2>2. AbsoluteAt(<<>>, k) = {}
    BY DEF AbsoluteAt, Processed
  <2>3. ReferencesUpTo(n, k) = A
    <3>1. {q \in 1 .. n : Relocs[q].alloc} = {q \in 1 .. n - 1 : Relocs[q].alloc}
      BY <1>1, <1>4
    <3> QED
      BY <3>1 DEF ReferencesUpTo
  <2>4. Cardinality({}) = 0
    BY FS_EmptySet
  <2>5. /\ Cardinality(AbsoluteAt(Relevant(Relocs[n]), k)) = 0
        /\ IsFiniteSet(A) /\ Cardinality(A) + 0 = Cardinality(A)
    <3>1. Cardinality(AbsoluteAt(Relevant(Relocs[n]), k)) = 0
      BY <2>1, <2>2, <2>4
    <3>2. IsFiniteSet(A)
      OBVIOUS
    <3> HIDE DEF A
    <3> QED
      BY <1>2, <3>1, <3>2
  <2> HIDE DEF A
  <2>6. IsFiniteSet(ReferencesUpTo(n, k)) /\ Cardinality(ReferencesUpTo(n, k)) = Cardinality(A) + 0
    BY <2>3, <2>5
  <2> QED
    BY <2>5, <2>6 DEF A
<1> QED
  BY <1>3, <1>4

\* resize and reading a file leave words nobody has relocated.
LEMMA UnrelocatedVector ==
  ASSUME NEW v, IsVector(v), Unrelocated(v),
         NEW n \in Nat, NEW at \in Int, NEW m \in Nat, NEW file \in Sources, NEW off \in Nat,
         NEW w, w = Fill(Grow(v, n), at, m, file, off)
  PROVE  Unrelocated(w)
<1> DEFINE g == Grow(v, n)
<1>1. IsVector(g)
  BY GrowVector
<1>2. v.size \in Nat
  BY DEF IsVector
<1>3. \A k \in 0 .. g.size - 1 : g.cell[k].adds = 0
  <2>1. CASE v.size < n
    <3>1. g = [size |-> n, cell |-> [k \in 0 .. n - 1 |-> IF k < v.size THEN v.cell[k] ELSE Zero]]
      BY <2>1 DEF Grow
    <3>2. Zero.adds = 0
      BY DEF Zero, From
    <3> QED
      BY <1>2, <3>1, <3>2 DEF Unrelocated
  <2>2. CASE ~(v.size < n)
    BY <2>2 DEF Grow, Unrelocated
  <2> QED
    BY <2>1, <2>2
<1> HIDE DEF g
<1>4. w.size = g.size /\ g.size \in Nat
  BY <1>1, FillVector DEF g, IsVector
<1>5. w.cell = [k \in 0 .. g.size - 1 |->
                  IF k \in at .. at + m - 1 THEN From(file, off + (k - at)) ELSE g.cell[k]]
  BY <1>1 DEF Fill, g, IsVector
<1>6. \A i : From(file, i).adds = 0
  BY DEF From
<1> QED
  BY <1>3, <1>4, <1>5, <1>6 DEF Unrelocated

\* RelocInv holds at first.
LEMMA RelocInit == Init => RelocInv
BY TypeInit DEF Init, RelocInv, RelocSteps, Unrelocated, Empty, Stages

\* Every step keeps RelocInv.
LEMMA RelocNext == RelocInv /\ [Next]_vars => RelocInv'
<1> SUFFICES ASSUME RelocInv, [Next]_vars PROVE RelocSteps'
  BY TypeNext DEF RelocInv
<1>f. TypeOK /\ FilesAccepted /\ TypeOK' /\ FilesAccepted' /\ RelocSteps
  BY TypeNext DEF RelocInv, TypeInv
<1>1. CASE LoadKickSegment
  <2> DEFINE s == bp.kickstart.segments[next]
             physaddr == U(s.paddr + kickBase)
             end == Larger(limit, U(physaddr + s.filesz))
  <2>1. s \in Segment /\ pc = "kickSegments"
    BY <1>1, <1>f, SegmentType DEF LoadKickSegment, FilesAccepted, TypeOK
  <2>2. s.filesz \in Nat /\ s.offset \in Nat /\ s.paddr \in Nat
    BY <2>1 DEF Segment
  <2>3. physaddr \in 0 .. Space - 1
    BY <1>f, <2>2, URange DEF TypeOK
  <2>4. end \in 0 .. Space - 1
    BY <1>f, <2>2, <2>3, URange DEF Larger, TypeOK
  <2>5. U(end - kickBase) \in Nat /\ physaddr - kickBase \in Int
    BY <1>f, <2>3, <2>4, URange DEF TypeOK
  <2>6. kick' = Fill(Grow(kick, U(end - kickBase)), physaddr - kickBase, s.filesz, "kickstart", s.offset)
        /\ pc' \in {"kickSegments", "undefined"}
    BY <1>1 DEF LoadKickSegment
  <2>7. IsVector(kick) /\ Unrelocated(kick)
    BY <1>f, <2>1 DEF TypeOK, RelocSteps, Stages, Reading
  <2> DEFINE n == U(end - kickBase)
             at == physaddr - kickBase
             m == s.filesz
             off == s.offset
  <2> HIDE DEF s, physaddr, end, n, at, m, off
  <2>9. kick' = Fill(Grow(kick, n), at, m, "kickstart", off) /\ n \in Nat /\ at \in Int
        /\ m \in Nat /\ off \in Nat
    BY <2>2, <2>5, <2>6 DEF n, at, m, off
  <2> DEFINE w == kick'
  <2>10. w = Fill(Grow(kick, n), at, m, "kickstart", off)
    BY <2>9
  <2> HIDE DEF w
  <2>11. "kickstart" \in Sources
    BY DEF Sources
  <2>12. Unrelocated(w)
    BY <2>7, <2>9, <2>10, <2>11, UnrelocatedVector
  <2>8. Unrelocated(kick)'
    BY <2>12 DEF w, Unrelocated
  <2> QED
    BY <2>6, <2>8 DEF RelocSteps
<1>2. CASE CloseKickSegments
  <2>1. pc = "kickSegments" /\ pc' = "relocs" /\ next' = 1 /\ kick' = kick /\ Relocs' = Relocs
    BY <1>2 DEF CloseKickSegments, kickVars, Relocs
  <2>2. \A k \in 0 .. kick.size - 1 : kick.cell[k].adds = 0
    BY <1>f, <2>1 DEF RelocSteps, Unrelocated, Stages, Reading
  <2>3. \A k : ReferencesUpTo(0, k)' = {}
    BY DEF ReferencesUpTo
  <2>4. IsFiniteSet({}) /\ Cardinality({}) = 0
    BY FS_EmptySet
  <2>5. bp.kickstart.relocs \in Seq(RelocSection)
    BY <1>f, <2>1 DEF FilesAccepted, ElfFile
  <2>6. next' <= Len(Relocs') + 1
    BY <2>1, <2>5 DEF Relocs
  <2>7. Relocated(next - 1)'
    BY <2>1, <2>2, <2>3, <2>4 DEF Relocated
  <2> QED
    BY <2>1, <2>6, <2>7 DEF RelocSteps
<1>3. CASE ApplyRelocs
  <2> DEFINE entries == Relevant(Relocs[next])
             count == [k \in 0 .. kick.size - 1 |-> Cardinality(AbsoluteAt(entries, k))]
  <2>1. pc = "relocs" /\ next <= Len(Relocs) /\ next' = next + 1 /\ Relocs' = Relocs
    BY <1>3 DEF ApplyRelocs, Relocs
  <2>2. Relocs \in Seq(RelocSection) /\ next \in 1 .. Len(Relocs)
    <3>1. bp.kickstart \in ElfFile /\ next \in Nat \ {0}
      BY <1>f, <2>1 DEF FilesAccepted, TypeOK
    <3>2. Relocs \in Seq(RelocSection)
      BY <3>1 DEF ElfFile, Relocs
    <3> QED
      BY <2>1, <3>1, <3>2
  <2>3. Relocated(next - 1)
    BY <1>f, <2>1 DEF RelocSteps
  <2>4. CASE Processed(entries) = DOMAIN entries
    <3>1. kick' = [kick EXCEPT !.cell =
                     [k \in 0 .. kick.size - 1 |->
                        [kick.cell[k] EXCEPT !.adds = @ + Cardinality(AbsoluteAt(entries, k))]]]
      BY <1>3 DEF ApplyRelocs, Relocs
    <3>2. kick = [size |-> kick.size, cell |-> kick.cell] /\ kick.size \in Nat
          /\ kick.cell \in [0 .. kick.size - 1 -> Cell]
      BY <1>f DEF TypeOK, IsVector
    <3>3. kick'.size = kick.size
      BY <3>1, <3>2
    <3>4. ASSUME NEW k \in 0 .. kick.size - 1
          PROVE  kick'.cell[k].adds = kick.cell[k].adds + Cardinality(AbsoluteAt(entries, k))
      <4>1. kick.cell[k] \in Cell
        BY <3>2
      <4>2. kick'.cell[k] = [kick.cell[k] EXCEPT !.adds = @ + Cardinality(AbsoluteAt(entries, k))]
        BY <3>1, <3>2
      <4> HIDE DEF entries
      <4> QED
        BY <4>1, <4>2 DEF Cell
    <3>5. ASSUME NEW k \in 0 .. kick'.size - 1
          PROVE  /\ IsFiniteSet(ReferencesUpTo(next, k))
                 /\ kick'.cell[k].adds = Cardinality(ReferencesUpTo(next, k))
      <4>1. /\ IsFiniteSet(ReferencesUpTo(next - 1, k))
            /\ kick.cell[k].adds = Cardinality(ReferencesUpTo(next - 1, k))
        BY <2>3, <3>3 DEF Relocated
      <4>2. /\ IsFiniteSet(ReferencesUpTo(next, k))
            /\ Cardinality(ReferencesUpTo(next, k))
                 = Cardinality(ReferencesUpTo(next - 1, k)) + Cardinality(AbsoluteAt(entries, k))
        BY <2>2, <2>4, <4>1, NextSection
      <4> QED
        BY <3>3, <3>4, <4>1, <4>2
    <3>6. \A n, k : ReferencesUpTo(n, k)' = ReferencesUpTo(n, k)
      BY <2>1 DEF ReferencesUpTo, References
    <3>7. next' - 1 = next
      BY <2>1, <2>2
    <3>8. Relocated(next - 1)'
      BY <3>5, <3>6, <3>7 DEF Relocated
    <3>9. next' <= Len(Relocs') + 1
      BY <2>1, <2>2
    <3>10. pc' \in {"relocs", "failed", "undefined"}
      BY <1>3, <2>4 DEF ApplyRelocs
    <3> QED
      BY <3>8, <3>9, <3>10 DEF RelocSteps, Stages, Reading
  <2>5. CASE Processed(entries) # DOMAIN entries
    <3>1. pc' \in {"failed", "undefined"}
      BY <1>3, <2>5 DEF ApplyRelocs, Relocs
    <3> QED
      BY <3>1 DEF RelocSteps, Stages, Reading
  <2> QED
    BY <2>4, <2>5
<1>4. CASE CloseKickstart
  <2>1. /\ pc = "relocs" /\ next > Len(Relocs) /\ pc' = "finish" /\ kick' = kick /\ bp' = bp
    BY <1>4 DEF CloseKickstart, kickVars, Relocs
  <2>2. Len(Relocs) \in Nat /\ next \in Nat /\ next <= Len(Relocs) + 1
    <3>1. bp.kickstart \in ElfFile /\ next \in Nat \ {0}
      BY <1>f, <2>1 DEF FilesAccepted, TypeOK
    <3>2. Relocs \in Seq(RelocSection)
      BY <3>1 DEF ElfFile, Relocs
    <3>3. next <= Len(Relocs) + 1
      BY <1>f, <2>1 DEF RelocSteps
    <3> QED
      BY <3>1, <3>2, <3>3
  <2>3. next - 1 = Len(Relocs)
    BY <2>1, <2>2
  <2>4. Relocated(Len(Relocs))
    BY <1>f, <2>1, <2>3 DEF RelocSteps
  <2>5. Relocated(Len(Relocs))'
    BY <2>1, <2>4 DEF Relocated, ReferencesUpTo, References, Relocs
  <2> QED
    BY <2>1, <2>5 DEF RelocSteps, Stages, Reading
<1>5. CASE \/ ReadDtb \/ OpenKernel \/ LoadKernelSegment \/ CloseKernel \/ FindChosen
           \/ PlaceInitramfs \/ SetInitrdProps \/ DeleteInitrdProps \/ PlaceFdt
           \/ StoreImage \/ PackImage \/ OpenKickstart
  <2>1. kick' = kick /\ pc \in Stages \ {"relocs", "finish", "write"}
        /\ pc' \notin {"relocs", "finish", "write"}
    BY <1>5 DEF Stages, Reading, kickVars, ReadDtb, OpenKernel, LoadKernelSegment, CloseKernel,
       FindChosen, PlaceInitramfs, SetInitrdProps, DeleteInitrdProps, PlaceFdt, StoreImage,
       PackImage, OpenKickstart
  <2> QED
    BY <1>f, <2>1 DEF RelocSteps, Unrelocated
<1>6. CASE AppendKickstart \/ WriteElf \/ Throw \/ WriteError
  <2>1. pc' \in {"write", "undefined", "done", "failed", "aborted"}
    BY <1>6 DEF AppendKickstart, WriteElf, Throw, WriteError
  <2> QED
    BY <2>1 DEF RelocSteps, Stages, Reading
<1>7. CASE Ended \/ UNCHANGED vars
  BY <1>f, <1>7 DEF Ended, vars, RelocSteps, Unrelocated, Relocated, ReferencesUpTo, References, Relocs
<1> QED
  BY <1>1, <1>2, <1>3, <1>4, <1>5, <1>6, <1>7 DEF Next

\* When loadExecutable is done with the kickstart, each word has had the load
\* address added once for every absolute relocation of a section in memory that
\* names it, and no other word was touched.
THEOREM RelocatedExactly == Spec => []RelocatedOnce
<1>1. Spec => []RelocInv
  BY RelocInit, RelocNext, PTL DEF Spec
<1>2. RelocInv => RelocatedOnce
  <2> SUFFICES ASSUME RelocInv, pc = "finish" PROVE RelocatedOnce
    BY DEF RelocatedOnce
  <2>1. Relocated(Len(Relocs)) /\ bp.kickstart \in ElfFile
    BY DEF RelocInv, RelocSteps, TypeInv, FilesAccepted
  <2>2. DOMAIN Relocs = 1 .. Len(Relocs)
    BY <2>1 DEF ElfFile, Relocs
  <2> QED
    BY <2>1, <2>2 DEF RelocatedOnce, Relocated, ReferencesUpTo, References, Relocs
<1> QED
  BY <1>1, <1>2, PTL


-----------------------------------------------------------------------------
(***************************************************************************)
(* Contents of a vector, with nothing in them that a step changes.         *)
(***************************************************************************)
\* v has n words of a file, from place off on, at `at'.
Holds(v, at, n, file, off) ==
  \A k \in 0 .. n - 1 : at + k \in 0 .. v.size - 1 /\ v.cell[at + k] = From(file, off + k)

\* w begins with v.
Extends(v, w) == v.size <= w.size /\ \A k \in 0 .. v.size - 1 : w.cell[k] = v.cell[k]

\* The words of w are in v at `at'.
Carries(v, at, w) ==
  \A k \in 0 .. w.size - 1 : at + k \in 0 .. v.size - 1 /\ v.cell[at + k] = w.cell[k]

\* What a vector holds, one that extends it holds.
LEMMA HoldsExtended ==
  ASSUME NEW v, v.size \in Nat, NEW w, w.size \in Nat, Extends(v, w),
         NEW at, NEW n, NEW file, NEW off, Holds(v, at, n, file, off)
  PROVE  Holds(w, at, n, file, off)
BY DEF Holds, Extends

\* A vector extends itself.
LEMMA ExtendsItself ==
  ASSUME NEW v, v.size \in Nat
  PROVE  Extends(v, v)
BY DEF Extends

\* Extending is transitive.
LEMMA ExtendsOn ==
  ASSUME NEW u, u.size \in Nat, NEW v, v.size \in Nat, NEW w, w.size \in Nat,
         Extends(u, v), Extends(v, w)
  PROVE  Extends(u, w)
BY DEF Extends

\* resize extends a vector with zeros.
LEMMA GrowExtends ==
  ASSUME NEW v, IsVector(v), NEW n \in Nat, n < Space
  PROVE  /\ Extends(v, Grow(v, U(n)))
         /\ \A k \in 0 .. Grow(v, U(n)).size - 1 :
              Grow(v, U(n)).cell[k] = IF k < v.size THEN v.cell[k] ELSE Zero
<1>1. U(n) = n
  BY UExact, SizeAssumption DEF InRange
<1>2. v.size \in Nat
  BY DEF IsVector
<1>3. CASE v.size < n
  <2>1. Grow(v, n).size = n /\ Grow(v, n).cell = [j \in 0 .. n - 1 |-> IF j < v.size THEN v.cell[j] ELSE Zero]
    BY <1>3 DEF Grow
  <2> DEFINE g == Grow(v, n)
  <2> HIDE DEF g
  <2>2. \A k \in 0 .. n - 1 : g.cell[k] = IF k < v.size THEN v.cell[k] ELSE Zero
    BY <2>1 DEF g
  <2>3. g.size = n
    BY <2>1 DEF g
  <2>4. Extends(v, g)
    BY <1>2, <1>3, <2>2, <2>3 DEF Extends
  <2> QED
    BY <1>1, <2>2, <2>3, <2>4 DEF g
<1>4. CASE ~(v.size < n)
  <2>1. Grow(v, n) = v
    BY <1>4 DEF Grow
  <2> QED
    BY <1>1, <1>2, <2>1 DEF Extends
<1> QED
  BY <1>3, <1>4

\* Reading a file writes the words it reads and no others.
LEMMA FillCells ==
  ASSUME NEW v, IsVector(v), NEW at \in Int, NEW n \in Nat, NEW file, NEW off \in Nat
  PROVE  /\ Fill(v, at, n, file, off).size = v.size
         /\ \A k \in 0 .. v.size - 1 :
              Fill(v, at, n, file, off).cell[k]
                = IF k \in at .. at + n - 1 THEN From(file, off + (k - at)) ELSE v.cell[k]
<1> DEFINE c == [k \in 0 .. v.size - 1 |->
                  IF k \in at .. at + n - 1 THEN From(file, off + (k - at)) ELSE v.cell[k]]
<1>1. \A k \in 0 .. v.size - 1 :
        c[k] = IF k \in at .. at + n - 1 THEN From(file, off + (k - at)) ELSE v.cell[k]
  OBVIOUS
<1>2. Fill(v, at, n, file, off) = [v EXCEPT !.cell = c]
  BY DEF Fill
<1>3. v = [size |-> v.size, cell |-> v.cell]
  BY DEF IsVector
<1> HIDE DEF c
<1>4. Fill(v, at, n, file, off) = [size |-> v.size, cell |-> c]
  BY <1>2, <1>3
<1> QED
  BY <1>1, <1>4

\* The cells of a vector with another copied into it.
LEMMA OverlayCells ==
  ASSUME NEW v, IsVector(v), NEW at \in Int, NEW w, w.size \in Nat
  PROVE  /\ Overlay(v, at, w).size = v.size
         /\ \A k \in 0 .. v.size - 1 :
              Overlay(v, at, w).cell[k]
                = IF k \in at .. at + w.size - 1 THEN w.cell[k - at] ELSE v.cell[k]
<1> DEFINE c == [k \in 0 .. v.size - 1 |->
                  IF k \in at .. at + w.size - 1 THEN w.cell[k - at] ELSE v.cell[k]]
<1>1. \A k \in 0 .. v.size - 1 :
        c[k] = IF k \in at .. at + w.size - 1 THEN w.cell[k - at] ELSE v.cell[k]
  OBVIOUS
<1>2. Overlay(v, at, w) = [v EXCEPT !.cell = c]
  BY DEF Overlay
<1>3. v = [size |-> v.size, cell |-> v.cell]
  BY DEF IsVector
<1> HIDE DEF c
<1>4. Overlay(v, at, w) = [size |-> v.size, cell |-> c]
  BY <1>2, <1>3
<1> QED
  BY <1>1, <1>4

\* A file placed inside a vector is there; behind what was there, it extends it.
LEMMA FillHolds ==
  ASSUME NEW v, IsVector(v), NEW at \in Nat, NEW n \in Nat, at + n <= v.size,
         NEW file, NEW off \in Nat
  PROVE  Holds(Fill(v, at, n, file, off), at, n, file, off)
<1> DEFINE f == Fill(v, at, n, file, off)
<1>1. v.size \in Nat
  BY DEF IsVector
<1>2. f.size = v.size /\ \A k \in 0 .. v.size - 1 :
        f.cell[k] = IF k \in at .. at + n - 1 THEN From(file, off + (k - at)) ELSE v.cell[k]
  <2>1. at \in Int
    OBVIOUS
  <2> QED
    BY <2>1, FillCells
<1> HIDE DEF f
<1>3. ASSUME NEW k \in 0 .. n - 1
      PROVE  at + k \in 0 .. f.size - 1 /\ f.cell[at + k] = From(file, off + k)
  <2>1. at + k \in 0 .. v.size - 1 /\ at + k \in at .. at + n - 1 /\ off + ((at + k) - at) = off + k
    BY <1>1
  <2> QED
    BY <1>2, <2>1
<1> QED
  BY <1>3 DEF Holds, f

\* A vector carries what was copied into it.
LEMMA OverlayCarries ==
  ASSUME NEW v, IsVector(v), NEW at \in Nat, NEW w, w.size \in Nat, at + w.size <= v.size
  PROVE  Carries(Overlay(v, at, w), at, w)
<1> DEFINE f == Overlay(v, at, w)
<1>1. v.size \in Nat
  BY DEF IsVector
<1>2. f.size = v.size /\ \A k \in 0 .. v.size - 1 :
        f.cell[k] = IF k \in at .. at + w.size - 1 THEN w.cell[k - at] ELSE v.cell[k]
  BY OverlayCells
<1> HIDE DEF f
<1>3. ASSUME NEW k \in 0 .. w.size - 1
      PROVE  at + k \in 0 .. f.size - 1 /\ f.cell[at + k] = w.cell[k]
  <2>1. at + k \in 0 .. v.size - 1 /\ at + k \in at .. at + w.size - 1 /\ (at + k) - at = k
    BY <1>1
  <2> QED
    BY <1>2, <2>1
<1> QED
  BY <1>3 DEF Carries, f

-----------------------------------------------------------------------------
(***************************************************************************)
(* The kernel in a vector that begins at b, moved by d.                    *)
(***************************************************************************)
\* Where segment i begins.
SegAt(f, i, d, b) == f.segments[i].paddr + d - b

\* The words of segment i that are in the file.
FileWords(f, i, d, b) == SegAt(f, i, d, b) .. SegAt(f, i, d, b) + f.segments[i].filesz - 1

\* The memory of the first n segments is part of v; v has the words of each, unless
\* another has been loaded over them, and no others.
KernelUpTo(v, f, n, d, b) ==
  /\ \A i \in 1 .. n : /\ 0 <= SegAt(f, i, d, b)
                      /\ SegAt(f, i, d, b) + f.segments[i].memsz <= v.size
  /\ Apart(f) => \A i \in 1 .. n :
       Holds(v, SegAt(f, i, d, b), f.segments[i].filesz, "kernel", f.segments[i].offset)
  /\ \A a \in 0 .. v.size - 1 :
       (\A i \in 1 .. n : a \notin FileWords(f, i, d, b)) => v.cell[a] = Zero

\* Every word of every segment is there, those beyond its file contents as zeros.
KernelIn(v, f, d, b) ==
  Apart(f) => \A i \in 1 .. Len(f.segments) : \A k \in 0 .. f.segments[i].memsz - 1 :
    /\ SegAt(f, i, d, b) + k \in 0 .. v.size - 1
    /\ v.cell[SegAt(f, i, d, b) + k] =
         IF k < f.segments[i].filesz THEN From("kernel", f.segments[i].offset + k) ELSE Zero

\* The numbers of a program header, away from the file they are in.
LEMMA HeaderNumbers ==
  ASSUME NEW f \in ElfFile, Sized(f), NEW d \in Int, NEW b \in Int,
         NEW i \in 1 .. Len(f.segments)
  PROVE  /\ SegAt(f, i, d, b) \in Int /\ f.segments[i].paddr \in Nat
         /\ f.segments[i].memsz \in Nat /\ f.segments[i].offset \in Nat
         /\ f.segments[i].filesz \in Nat /\ f.segments[i].filesz <= f.segments[i].memsz
<1>1. /\ f.segments[i].paddr \in Nat /\ f.segments[i].memsz \in Nat
      /\ f.segments[i].filesz \in Nat /\ f.segments[i].filesz <= f.segments[i].memsz
      /\ f.segments[i] \in Segment
  BY Headers
<1>2. f.segments[i].offset \in Nat
  BY <1>1 DEF Segment
<1> DEFINE p == f.segments[i].paddr
<1>3. SegAt(f, i, d, b) = p + d - b /\ p \in Nat
  BY <1>1 DEF SegAt
<1> HIDE DEF p
<1>4. SegAt(f, i, d, b) \in Int
  BY <1>3
<1> QED
  BY <1>1, <1>2, <1>4

\* Two segments that are apart in the file are apart in the vector.
LEMMA SegmentsApart ==
  ASSUME NEW f \in ElfFile, Sized(f), Apart(f), NEW d \in Int, NEW b \in Int,
         NEW i \in 1 .. Len(f.segments), NEW j \in 1 .. Len(f.segments), i # j
  PROVE  \/ SegAt(f, i, d, b) + f.segments[i].memsz <= SegAt(f, j, d, b)
         \/ SegAt(f, j, d, b) + f.segments[j].memsz <= SegAt(f, i, d, b)
<1> DEFINE p == f.segments[i].paddr
           m == f.segments[i].memsz
           q == f.segments[j].paddr
           n == f.segments[j].memsz
<1>1. DOMAIN f.segments = 1 .. Len(f.segments)
  BY Headers
<1>2. p + m <= q \/ q + n <= p
  BY <1>1 DEF Apart
<1>3. SegAt(f, i, d, b) = p + d - b /\ SegAt(f, j, d, b) = q + d - b
  BY DEF SegAt
<1>4. p \in Nat /\ m \in Nat /\ q \in Nat /\ n \in Nat
  BY HeaderNumbers
<1> HIDE DEF p, m, q, n
<1>5. p + d - b + m <= q + d - b \/ q + d - b + n <= p + d - b
  BY <1>2, <1>4
<1> QED
  BY <1>3, <1>5 DEF p, m, q, n

\* Loading one more segment.
LEMMA SegmentAdded ==
  ASSUME NEW f \in ElfFile, Sized(f), NEW d \in Int, NEW b \in Int,
         NEW n \in Nat, n + 1 \in 1 .. Len(f.segments),
         NEW v, IsVector(v), NEW g, IsVector(g), v.size <= g.size,
         \A k \in 0 .. g.size - 1 : g.cell[k] = IF k < v.size THEN v.cell[k] ELSE Zero,
         0 <= SegAt(f, n + 1, d, b),
         SegAt(f, n + 1, d, b) + f.segments[n + 1].memsz <= g.size,
         KernelUpTo(v, f, n, d, b),
         NEW w, w = Fill(g, SegAt(f, n + 1, d, b), f.segments[n + 1].filesz, "kernel",
                         f.segments[n + 1].offset)
  PROVE  KernelUpTo(w, f, n + 1, d, b)
<1> DEFINE at == SegAt(f, n + 1, d, b)
           len == f.segments[n + 1].filesz
           mem1 == f.segments[n + 1].memsz
           off == f.segments[n + 1].offset
<1>1. at \in Int /\ len \in Nat /\ mem1 \in Nat /\ off \in Nat /\ len <= mem1
  BY HeaderNumbers
<1>2. 0 <= at /\ at + mem1 <= g.size /\ v.size \in Nat /\ g.size \in Nat /\ v.size <= g.size
  BY DEF IsVector
<1>3. w = Fill(g, at, len, "kernel", off)
  OBVIOUS
<1>4. \A a : a \in FileWords(f, n + 1, d, b) <=> a \in at .. at + len - 1
  BY DEF FileWords
<1> HIDE DEF at, len, mem1, off
<1>5. w.size = g.size /\ \A k \in 0 .. g.size - 1 :
        w.cell[k] = IF k \in at .. at + len - 1 THEN From("kernel", off + (k - at)) ELSE g.cell[k]
  BY <1>1, <1>3, FillCells
<1>6. Holds(w, at, len, "kernel", off)
  <2>1. at \in Nat /\ at + len <= g.size
    BY <1>1, <1>2
  <2> QED
    BY <1>1, <1>3, <2>1, FillHolds
<1>7. ASSUME NEW i \in 1 .. n + 1, i # n + 1
      PROVE  /\ i \in 1 .. n /\ i \in 1 .. Len(f.segments) /\ SegAt(f, i, d, b) \in Int
             /\ f.segments[i].memsz \in Nat /\ f.segments[i].filesz \in Nat
             /\ f.segments[i].filesz <= f.segments[i].memsz
             /\ 0 <= SegAt(f, i, d, b) /\ SegAt(f, i, d, b) + f.segments[i].memsz <= v.size
  <2>1. i \in 1 .. n /\ i \in 1 .. Len(f.segments)
    BY <1>7, Headers
  <2> QED
    BY <2>1, HeaderNumbers DEF KernelUpTo
<1>8. \A i \in 1 .. n + 1 : /\ 0 <= SegAt(f, i, d, b)
                            /\ SegAt(f, i, d, b) + f.segments[i].memsz <= w.size
  <2>1. ASSUME NEW i \in 1 .. n + 1
        PROVE  0 <= SegAt(f, i, d, b) /\ SegAt(f, i, d, b) + f.segments[i].memsz <= w.size
    <3>1. CASE i = n + 1
      BY <1>2, <1>5, <3>1 DEF at, mem1
    <3>2. CASE i # n + 1
      <4> DEFINE x == SegAt(f, i, d, b)
                 y == f.segments[i].memsz
      <4>1. x \in Int /\ y \in Nat /\ 0 <= x /\ x + y <= v.size
        BY <1>7, <3>2
      <4> HIDE DEF x, y
      <4>2. 0 <= x /\ x + y <= w.size
        BY <1>2, <1>5, <4>1
      <4> QED
        BY <4>2 DEF x, y
    <3> QED
      BY <3>1, <3>2
  <2> QED
    BY <2>1
<1>9. ASSUME Apart(f), NEW i \in 1 .. n + 1
      PROVE  Holds(w, SegAt(f, i, d, b), f.segments[i].filesz, "kernel", f.segments[i].offset)
  <2>1. CASE i = n + 1
    BY <1>6, <2>1 DEF at, len, off
  <2>2. CASE i # n + 1
    <3> DEFINE x == SegAt(f, i, d, b)
               y == f.segments[i].memsz
               z == f.segments[i].filesz
               o == f.segments[i].offset
    <3>1. x \in Int /\ y \in Nat /\ z \in Nat /\ z <= y /\ 0 <= x /\ x + y <= v.size
      BY <1>7, <2>2
    <3>2. Holds(v, x, z, "kernel", o)
      BY <1>7, <1>9, <2>2 DEF KernelUpTo
    <3>3. x + y <= at \/ at + mem1 <= x
      BY <1>7, <1>9, <2>2, SegmentsApart DEF at, mem1
    <3> HIDE DEF x, y, z, o
    <3>4. ASSUME NEW k \in 0 .. z - 1
          PROVE  x + k \in 0 .. w.size - 1 /\ w.cell[x + k] = From("kernel", o + k)
      <4>1. x + k \in 0 .. v.size - 1 /\ v.cell[x + k] = From("kernel", o + k)
        BY <3>2 DEF Holds
      <4>2. x + k \in 0 .. g.size - 1 /\ x + k < v.size /\ x + k \notin at .. at + len - 1
        BY <1>1, <1>2, <3>1, <3>3, <4>1
      <4> QED
        BY <1>5, <4>1, <4>2
    <3>5. Holds(w, x, z, "kernel", o)
      BY <3>4 DEF Holds
    <3> QED
      BY <3>5 DEF x, z, o
  <2> QED
    BY <2>1, <2>2
<1>10. ASSUME NEW a \in 0 .. w.size - 1, \A i \in 1 .. n + 1 : a \notin FileWords(f, i, d, b)
       PROVE  w.cell[a] = Zero
  <2>1. a \in 0 .. g.size - 1 /\ a \notin at .. at + len - 1
    BY <1>4, <1>5, <1>10
  <2>2. w.cell[a] = g.cell[a] /\ g.cell[a] = IF a < v.size THEN v.cell[a] ELSE Zero
    BY <1>5, <2>1
  <2>3. CASE a < v.size
    <3>1. a \in 0 .. v.size - 1 /\ \A i \in 1 .. n : a \notin FileWords(f, i, d, b)
      BY <1>2, <1>10, <2>1, <2>3
    <3>2. v.cell[a] = Zero
      BY <3>1 DEF KernelUpTo
    <3> QED
      BY <2>2, <2>3, <3>2
  <2> QED
    BY <2>2, <2>3
<1> QED
  BY <1>8, <1>9, <1>10 DEF KernelUpTo

\* When the last one has been loaded, the kernel is there.
LEMMA KernelLoaded ==
  ASSUME NEW f \in ElfFile, Sized(f), NEW d \in Int, NEW b \in Int,
         NEW v, v.size \in Nat, KernelUpTo(v, f, Len(f.segments), d, b)
  PROVE  KernelIn(v, f, d, b)
<1> SUFFICES ASSUME Apart(f), NEW i \in 1 .. Len(f.segments),
                    NEW k \in 0 .. f.segments[i].memsz - 1
             PROVE  /\ SegAt(f, i, d, b) + k \in 0 .. v.size - 1
                    /\ v.cell[SegAt(f, i, d, b) + k] =
                         IF k < f.segments[i].filesz
                         THEN From("kernel", f.segments[i].offset + k) ELSE Zero
  BY DEF KernelIn
<1> DEFINE x == SegAt(f, i, d, b)
           y == f.segments[i].memsz
           z == f.segments[i].filesz
           o == f.segments[i].offset
<1>1. x \in Int /\ y \in Nat /\ z \in Nat /\ z <= y
  BY HeaderNumbers
<1>2. 0 <= x /\ x + y <= v.size /\ Holds(v, x, z, "kernel", o) /\ k \in 0 .. y - 1
  BY DEF KernelUpTo
<1>3. FileWords(f, i, d, b) = x .. x + z - 1
  BY DEF FileWords
<1> HIDE DEF x, y, z, o
<1>4. x + k \in 0 .. v.size - 1
  BY <1>1, <1>2
<1>5. CASE k < z
  <2>1. v.cell[x + k] = From("kernel", o + k)
    BY <1>1, <1>2, <1>5 DEF Holds
  <2> QED
    BY <1>4, <1>5, <2>1 DEF x, z, o
<1>6. CASE ~(k < z)
  <2>1. ASSUME NEW j \in 1 .. Len(f.segments) PROVE x + k \notin FileWords(f, j, d, b)
    <3>1. CASE j = i
      BY <1>1, <1>2, <1>3, <1>6, <3>1
    <3>2. CASE j # i
      <4> DEFINE p == SegAt(f, j, d, b)
                 m == f.segments[j].memsz
                 l == f.segments[j].filesz
      <4>1. p \in Int /\ m \in Nat /\ l \in Nat /\ l <= m
        BY HeaderNumbers
      <4>2. x + y <= p \/ p + m <= x
        BY <3>2, SegmentsApart DEF x, y
      <4>3. FileWords(f, j, d, b) = p .. p + l - 1
        BY DEF FileWords
      <4> HIDE DEF p, m, l
      <4> QED
        BY <1>1, <1>2, <4>1, <4>2, <4>3
    <3> QED
      BY <3>1, <3>2
  <2>2. v.cell[x + k] = Zero
    BY <1>4, <2>1 DEF KernelUpTo
  <2> QED
    BY <1>4, <1>6, <2>2 DEF x, z
<1> QED
  BY <1>5, <1>6

\* A vector that extends one with the kernel holds the kernel.
LEMMA KernelExtended ==
  ASSUME NEW f, NEW d, NEW b, NEW v, v.size \in Nat, NEW w, w.size \in Nat, Extends(v, w),
         KernelIn(v, f, d, b)
  PROVE  KernelIn(w, f, d, b)
BY DEF KernelIn, Extends

-----------------------------------------------------------------------------
(***************************************************************************)
(* What the builder has in its vectors, stage by stage.                    *)
(***************************************************************************)
\* The initramfs, of n words, at the address at, in a vector that begins at b.
InitrdIn(v, n, at, b) == n # None => Holds(v, at - b, n, "initramfs", 0)

\* All the kernel is to find: itself, the initramfs and the tree t.
PayloadIn(v, blueprint, d, initrd, dtb, t) ==
  /\ KernelIn(v, blueprint.kernel, d, blueprint.imageBase)
  /\ InitrdIn(v, blueprint.initramfs, initrd, blueprint.imageBase)
  /\ Holds(v, dtb - blueprint.imageBase, t.total, "dtb", 0)

\* p as it is, or its compressed form, begins v.
StoredIn(v, n, d, p) == IF d = 0 THEN Extends(p, v) ELSE Holds(v, 0, n, "packed", 0)

\* The vector of the kickstart ends where the file contents of one of its first n
\* segments do, and all of them end in the address space.
KickTop(size, f, base, n) ==
  /\ size = 0 \/ \E i \in 1 .. n : size = FileEnd(f.segments[i])
  /\ \A i \in 1 .. n : base + f.segments[i].paddr + f.segments[i].memsz < Space

Appending == {"kickstart", "kickSegments", "relocs", "finish"}
Written == {"write", "done"}

KernelContents ==
  /\ pc = "segments" =>
       /\ alloc % KernelAlign = 0
       /\ KernelUpTo(image, bp.kernel, next - 1, FirstDelta, bp.imageBase)
  /\ pc \in Filling \cup Appending \cup Written =>
       delta \in Int /\ delta % KernelAlign = 0 /\ bp.kernel \in ElfFile
  /\ pc \in Filling => KernelIn(image, bp.kernel, delta, bp.imageBase)

PlacedContents ==
  /\ pc \in {"props", "fdt", "compress"} =>
       InitrdIn(image, bp.initramfs, initrdBase, bp.imageBase)
  /\ pc = "fdt" /\ bp.initramfs # None => fdt.start = initrdBase
  /\ pc \in {"compress"} \cup Appending \cup Written /\ bp.initramfs # None =>
       placed.start = initrdBase
  /\ pc = "compress" => Holds(image, fdtBase - bp.imageBase, placed.total, "dtb", 0)

PackedContents ==
  /\ pc \in Appending \cup Written =>
       PayloadIn(payload, bp, delta, initrdBase, fdtBase, placed) /\ payload.size = rawSize
  /\ pc \in Appending => StoredIn(image, image.size, disp, payload)
  /\ pc \in Written => StoredIn(image, info.srcLen, disp, payload)

KickContents ==
  /\ pc = "kickSegments" => KickTop(kick.size, bp.kickstart, kickBase, next - 1)
  /\ pc \in {"relocs", "finish"} \cup Written =>
       KickTop(kick.size, bp.kickstart, kickBase, Len(bp.kickstart.segments))
  /\ pc \in Written =>
       /\ info.dtb = fdtBase /\ info.entry = U(bp.kernel.entry + delta)
       /\ Carries(image, kickBase - disp - bp.imageBase, kick)

ContentSteps == KernelContents /\ PlacedContents /\ PackedContents /\ KickContents

ContentInv == SafeInv /\ (Fits => ContentSteps)

\* ContentInv holds at first.
LEMMA ContentInit == Init => ContentInv
BY SafeInit DEF Init, ContentInv, ContentSteps, KernelContents, PlacedContents, PackedContents,
   KickContents, Filling, Appending, Written

\* What a stage keeps, as one vector extending the other.
LEMMA KeptExtends ==
  ASSUME SafeInv, [Next]_vars, pc # "segments", Fits', disp' = disp
  PROVE  /\ Extends(image, image') /\ image.size \in Nat /\ image'.size \in Nat
         /\ IsVector(image) /\ IsVector(image')
<1>1. Kept /\ TypeOK /\ TypeOK'
  BY StageKeeps, StillFits DEF SafeInv
<1>2. IsVector(image) /\ IsVector(image')
  BY <1>1 DEF TypeOK
<1>3. image.size \in Nat /\ image'.size \in Nat
  BY <1>2 DEF IsVector
<1>4. \A k \in 0 .. image.size - 1 : k < image'.size /\ image'.cell[k] = image.cell[k]
  BY <1>1 DEF Kept
<1>5. image.size <= image'.size
  <2>1. CASE image.size = 0
    BY <1>3, <2>1
  <2>2. CASE image.size # 0
    <3>1. image.size - 1 \in 0 .. image.size - 1
      BY <1>3, <2>2
    <3>2. image.size - 1 < image'.size
      BY <1>4, <3>1
    <3> QED
      BY <1>3, <3>2
  <2> QED
    BY <2>1, <2>2
<1> QED
  BY <1>2, <1>3, <1>4, <1>5 DEF Extends

\* The allocation pointer and the delta are multiples of the kernel's alignment.
LEMMA AlignedUp ==
  ASSUME NEW p \in Int, NEW a \in Nat \ {0}
  PROVE  AlignUp(p, a) % a = 0
<1> DEFINE q == U(p + (a - 1))
<1>1. q \in Nat /\ AlignUp(p, a) = q - (q % a)
  BY URange, SizeAssumption DEF AlignUp
<1> HIDE DEF q
<1>2. q \div a \in Int /\ q = a * (q \div a) + (q % a) /\ q % a \in 0 .. a - 1
  BY <1>1, DivBounds, DivMod, ModRange
<1> DEFINE e == q \div a
           r == q % a
<1>3. e \in Int /\ q = a * e + r /\ r \in 0 .. a - 1 /\ AlignUp(p, a) = q - r
  BY <1>1, <1>2
<1> HIDE DEF e, r
<1>4. AlignUp(p, a) = a * e + 0 /\ 0 \in 0 .. a - 1
  BY <1>1, <1>3
<1>5. AlignUp(p, a) \in Int
  BY <1>1, <1>3
<1> QED
  BY <1>3, <1>4, <1>5, DivModUnique

\* The distance of an aligned address from one aligned down is aligned.
LEMMA AlignedDifference ==
  ASSUME NEW x \in Int, NEW p \in Nat, NEW a \in Nat \ {0}, x % a = 0
  PROVE  (x - AlignDown(p, a)) % a = 0
<1> DEFINE e == x \div a
           f == p \div a
           r == p % a
<1>1. e \in Int /\ f \in Int /\ r \in Int /\ x = a * e + (x % a) /\ p = a * f + r
  BY DivBounds, DivMod, ModRange
<1>2. AlignDown(p, a) = p - r
  BY DEF AlignDown
<1> HIDE DEF e, f, r
<1>3. x = a * e
  BY <1>1
<1>4. AlignDown(p, a) = a * f
  BY <1>1, <1>2
<1> DEFINE y == x - AlignDown(p, a)
           g == e - f
<1>5. y = a * g + 0 /\ y \in Int /\ g \in Int /\ 0 \in 0 .. a - 1
  <2>1. a * (e - f) = a * e - a * f
    BY <1>1
  <2>2. y = a * e - a * f
    BY <1>3, <1>4
  <2>3. g \in Int /\ a * g \in Int
    BY <1>1
  <2> QED
    BY <2>1, <2>2, <2>3
<1> HIDE DEF y, g
<1>6. 0 = y % a
  BY <1>5, DivModUnique
<1> QED
  BY <1>6 DEF y

-----------------------------------------------------------------------------
(***************************************************************************)
(* The stages, one part of the invariant at a time.                        *)
(***************************************************************************)
\* OpenKernel: an empty vector holds no segment yet.
LEMMA KernelOpened ==
  ASSUME SafeInv, [Next]_vars, Fits', OpenKernel
  PROVE  alloc' % KernelAlign = 0 /\ KernelUpTo(image, bp.kernel, 0, FirstDelta', bp.imageBase)
<1>f. TypeOK /\ LayoutSteps
  BY StillFits DEF SafeInv
<1>1. alloc' = AlignUp(alloc, KernelAlign) /\ pc = "kernel"
  BY DEF OpenKernel
<1>2. alloc' % KernelAlign = 0
  BY <1>f, <1>1, AlignedUp, Sizes, SizeAssumption
<1>3. image.size = 0
  BY <1>f, <1>1 DEF LayoutSteps
<1>4. ASSUME NEW d PROVE KernelUpTo(image, bp.kernel, 0, d, bp.imageBase)
  BY <1>3 DEF KernelUpTo
<1> QED
  BY <1>2, <1>4

\* LoadKernelSegment: one segment more.
LEMMA KernelSegmentStep ==
  ASSUME SafeInv, [Next]_vars, Fits', LoadKernelSegment,
         KernelUpTo(image, bp.kernel, next - 1, FirstDelta, bp.imageBase)
  PROVE  /\ pc' = "segments" /\ next' - 1 = next /\ FirstDelta' = FirstDelta
         /\ KernelUpTo(image', bp.kernel, next, FirstDelta, bp.imageBase)
<1>f. /\ WellFormed /\ TypeOK /\ FilesAccepted /\ LayoutSteps /\ LayoutInv /\ KernelLoop /\ bp' = bp
  BY StillFits DEF SafeInv, SafeSteps
<1>1. /\ pc = "segments" /\ next <= Len(bp.kernel.segments)
      /\ next' = next + 1 /\ alloc' = alloc
  BY DEF LoadKernelSegment
<1>2. bp.kernel \in ElfFile /\ Sized(bp.kernel)
  BY <1>f, <1>1, GoodFiles DEF FilesAccepted, Stages, Reading
<1>3. next \in 1 .. Len(bp.kernel.segments) /\ next - 1 \in Nat /\ next - 1 + 1 = next
  <2>1. next \in Nat \ {0}
    BY <1>f, Sizes
  <2>2. Len(bp.kernel.segments) \in Nat
    BY <1>2, Headers
  <2> QED
    BY <1>1, <2>1, <2>2
<1>4. FirstDelta \in Int /\ bp.imageBase \in Int
  BY <1>f, <1>1, DeltaOfSegment, Sizes DEF KernelSegments, Base
<1>5. FirstDelta' = FirstDelta
  BY <1>f, <1>1 DEF FirstDelta, KernelSegments
<1>6. pc' = "segments"
  BY <1>f, KernelInside
<1> DEFINE s == bp.kernel.segments[next]
           at == SegAt(bp.kernel, next, FirstDelta, bp.imageBase)
<1>7. /\ at \in Nat
      /\ \E n \in Nat : /\ n < Space /\ at + s.memsz <= n
                       /\ image' = Fill(Grow(image, U(n)), at, s.filesz, "kernel", s.offset)
  BY <1>f, KernelInside DEF SegAt, Base
<1> HIDE DEF at, s
<1>8. PICK n \in Nat : /\ n < Space /\ at + s.memsz <= n
                      /\ image' = Fill(Grow(image, U(n)), at, s.filesz, "kernel", s.offset)
  BY <1>7
<1> DEFINE g == Grow(image, U(n))
<1>9. IsVector(g) /\ g.size \in Nat /\ n <= g.size
  BY <1>f, <1>8, GrownHolds, Sizes
<1>10. /\ Extends(image, g)
       /\ \A k \in 0 .. g.size - 1 : g.cell[k] = IF k < image.size THEN image.cell[k] ELSE Zero
  BY <1>f, <1>8, GrowExtends, Sizes
<1>11. image' = Fill(g, at, s.filesz, "kernel", s.offset)
  BY <1>8
<1> HIDE DEF g
<1>12. image.size <= g.size
  BY <1>10 DEF Extends
<1>13. s.memsz \in Nat
  BY <1>2, <1>3, <1>4, HeaderNumbers DEF s
<1> DEFINE m == s.memsz
<1>14. 0 <= at /\ at + m <= g.size
  <2>1. at + m <= n /\ m \in Nat /\ at \in Nat
    BY <1>7, <1>8, <1>13
  <2> HIDE DEF m
  <2> QED
    BY <1>9, <2>1
<1>15. IsVector(image) /\ image.size \in Nat
  BY <1>f, Sizes
<1> DEFINE j == next - 1
<1>16. j \in Nat /\ j + 1 = next /\ KernelUpTo(image, bp.kernel, j, FirstDelta, bp.imageBase)
  BY <1>3
<1> HIDE DEF j
<1>17. /\ 0 <= SegAt(bp.kernel, j + 1, FirstDelta, bp.imageBase)
       /\ SegAt(bp.kernel, j + 1, FirstDelta, bp.imageBase) + bp.kernel.segments[j + 1].memsz <= g.size
       /\ image' = Fill(g, SegAt(bp.kernel, j + 1, FirstDelta, bp.imageBase),
                        bp.kernel.segments[j + 1].filesz, "kernel",
                        bp.kernel.segments[j + 1].offset)
       /\ j + 1 \in 1 .. Len(bp.kernel.segments)
  BY <1>3, <1>11, <1>14, <1>16 DEF at, s
<1>18. KernelUpTo(image', bp.kernel, j + 1, FirstDelta, bp.imageBase)
  BY <1>2, <1>4, <1>9, <1>10, <1>12, <1>15, <1>16, <1>17, SegmentAdded
<1>19. next' - 1 = next
  BY <1>1, <1>3
<1> QED
  BY <1>5, <1>6, <1>16, <1>18, <1>19

\* CloseKernel: the kernel is there, moved by one delta.
LEMMA KernelClosed ==
  ASSUME SafeInv, [Next]_vars, Fits', CloseKernel, alloc % KernelAlign = 0,
         KernelUpTo(image, bp.kernel, next - 1, FirstDelta, bp.imageBase)
  PROVE  /\ delta \in Int /\ delta % KernelAlign = 0 /\ bp.kernel \in ElfFile
         /\ KernelIn(image, bp.kernel, delta, bp.imageBase)
<1>f. /\ WellFormed /\ TypeOK /\ FilesAccepted /\ KernelLoop
  BY StillFits DEF SafeInv, SafeSteps
<1>1. pc = "segments" /\ next > Len(KernelSegments)
  BY DEF CloseKernel, KernelSegments
<1>2. bp.kernel \in ElfFile /\ Sized(bp.kernel)
  BY <1>f, <1>1, GoodFiles DEF FilesAccepted, Stages, Reading
<1>3. /\ Len(KernelSegments) \in Nat \ {0} /\ KernelSegments[1].paddr \in Nat
      /\ KernelSegments = bp.kernel.segments
  BY <1>2, Headers DEF KernelSegments
<1>4. next - 1 = Len(KernelSegments) /\ next # 1
  <2>1. next \in Nat \ {0} /\ next <= Len(KernelSegments) + 1
    BY <1>f, <1>1, Sizes DEF KernelLoop
  <2> QED
    BY <1>1, <1>3, <2>1
<1>5. delta = FirstDelta
  BY <1>f, <1>1, <1>4 DEF KernelLoop
<1>6. FirstDelta % KernelAlign = 0 /\ FirstDelta \in Int
  <2> DEFINE p == KernelSegments[1].paddr
  <2>1. p \in Nat /\ alloc \in Int /\ FirstDelta = alloc - AlignDown(p, KernelAlign)
    BY <1>f, <1>3, Sizes DEF FirstDelta
  <2> HIDE DEF p
  <2>2. (alloc - AlignDown(p, KernelAlign)) % KernelAlign = 0
    BY <2>1, AlignedDifference, SizeAssumption
  <2>3. AlignDown(p, KernelAlign) \in Int
    BY <2>1, SizeAssumption DEF AlignDown
  <2> QED
    BY <2>1, <2>2, <2>3
<1>7. FirstDelta \in Int /\ bp.imageBase \in Int
  BY <1>f, <1>6, Sizes DEF Base
<1>8. KernelIn(image, bp.kernel, FirstDelta, bp.imageBase)
  BY <1>f, <1>2, <1>3, <1>4, <1>7, KernelLoaded, Sizes
<1> QED
  BY <1>2, <1>5, <1>6, <1>7, <1>8

\* A file of n words at the allocation pointer.
LEMMA FileHeld ==
  ASSUME TypeOK, LayoutSteps, Base <= alloc, NEW n \in Nat, NEW end, end = U(alloc + n),
         InRange(alloc + n), InRange(end + PageSize - 1), NEW file
  PROVE  Holds(Fill(Grow(image, U(end - Base)), alloc - Base, n, file, 0),
               alloc - bp.imageBase, n, file, 0)
<1> DEFINE g == Grow(image, U(end - Base))
           at == alloc - Base
<1>1. Inside(g, at, n) /\ end - Base \in Nat /\ end - Base < Space
  BY Placed
<1>2. IsVector(g)
  BY <1>1, GrownHolds, Sizes
<1>3. at \in Nat /\ at = alloc - bp.imageBase
  BY Sizes DEF Base
<1> HIDE DEF g, at
<1>4. at + n <= g.size
  BY <1>1 DEF Inside
<1>5. Holds(Fill(g, at, n, file, 0), at, n, file, 0)
  BY <1>2, <1>3, <1>4, FillHolds
<1> QED
  BY <1>3, <1>5 DEF g, at

\* The initramfs is read into the image where it was placed.
LEMMA InitramfsHeld ==
  ASSUME SafeInv, [Next]_vars, Fits', PlaceInitramfs
  PROVE  InitrdIn(image', bp.initramfs, alloc, bp.imageBase) /\ pc' = "props"
<1> DEFINE n == bp.initramfs
           end == U(alloc + n)
<1>f. TypeOK /\ LayoutSteps /\ LayoutInv /\ wrapped \in BOOLEAN /\ ~wrapped'
  BY StillFits DEF SafeInv, TypeOK, Fits
<1>1. n \in Nat /\ Base <= alloc /\ pc' = "props"
  BY <1>f, InitramfsPlaced
<1>2. InRange(alloc + n) /\ InRange(end + PageSize - 1)
  <2>1. Note({alloc + n, end + PageSize - 1})
    BY DEF PlaceInitramfs
  <2> QED
    BY <1>f, <2>1, NotWrapped
<1>3. image' = Fill(Grow(image, U(end - Base)), alloc - Base, n, "initramfs", 0)
  BY DEF PlaceInitramfs
<1> HIDE DEF n, end
<1>4. Holds(image', alloc - bp.imageBase, n, "initramfs", 0)
  BY <1>f, <1>1, <1>2, <1>3, FileHeld DEF n, end
<1> QED
  BY <1>1, <1>4 DEF InitrdIn, n

\* The device tree is copied into the image where it was placed.
LEMMA FdtHeld ==
  ASSUME SafeInv, [Next]_vars, Fits', PlaceFdt
  PROVE  /\ Holds(image', alloc - bp.imageBase, fdt.total, "dtb", 0)
         /\ pc' = "compress" /\ fdtBase' = alloc /\ placed' = fdt
<1> DEFINE n == fdt.total
           end == U(alloc + n)
<1>f. TypeOK /\ LayoutSteps /\ LayoutInv /\ wrapped \in BOOLEAN /\ ~wrapped'
  BY StillFits DEF SafeInv, TypeOK, Fits
<1>1. n \in Nat /\ Base <= alloc
  BY <1>f DEF TypeOK, FdtState, LayoutSteps
<1>2. InRange(alloc + n) /\ InRange(end + PageSize - 1)
  <2>1. Note({alloc + n, end + PageSize - 1})
    BY DEF PlaceFdt
  <2> QED
    BY <1>f, <2>1, NotWrapped
<1>3. image' = Fill(Grow(image, U(end - Base)), alloc - Base, n, "dtb", 0)
  BY DEF PlaceFdt
<1> HIDE DEF n, end
<1>4. Holds(image', alloc - bp.imageBase, n, "dtb", 0)
  BY <1>f, <1>1, <1>2, <1>3, FileHeld DEF n, end
<1> QED
  BY <1>f, <1>4, FdtPlaced DEF n

\* StoreImage, PackImage: the image, or its compressed form and a displacement.
LEMMA ImageStored ==
  ASSUME SafeInv, [Next]_vars, Fits', StoreImage \/ PackImage
  PROVE  /\ payload' = image /\ rawSize' = image.size /\ pc' = "kickstart"
         /\ StoredIn(image', image'.size, disp', payload')
<1>f. TypeOK /\ image.size \in Nat /\ wrapped \in BOOLEAN /\ ~wrapped'
  BY StillFits, Sizes DEF SafeInv, TypeOK, Fits
<1>1. CASE StoreImage
  BY <1>1, <1>f, ExtendsItself DEF StoreImage, layoutVars, StoredIn
<1>2. CASE PackImage
  <2>1. PICK n \in 1 .. image.size :
          /\ image' = [size |-> n, cell |-> [k \in 0 .. n - 1 |-> From("packed", k)]]
          /\ disp' = DisplacementFor(image.size)
          /\ Note({image.size + PageSize - 1, Base + disp', U(Base + disp') + n,
                   U(U(Base + disp') + n) + PageSize - 1})
    BY <1>2 DEF PackImage
  <2>2. InRange(image.size + PageSize - 1)
    BY <1>f, <2>1, NotWrapped
  <2>3. InRange(image.size + (PageSize - 1)) /\ image.size >= 1
    BY <1>f, <2>1, <2>2, SizeAssumption
  <2>4. image.size <= disp' /\ disp' \in Nat
    <3> DEFINE n0 == image.size
    <3>1. n0 \in Nat /\ InRange(n0 + (PageSize - 1)) /\ disp' = DisplacementFor(n0)
      BY <1>f, <2>1, <2>3
    <3> HIDE DEF n0
    <3>2. n0 <= disp' /\ disp' \in Nat
      BY <3>1, DisplacementBounds, SizeAssumption
    <3> QED
      BY <3>2 DEF n0
  <2>5. disp' # 0
    BY <1>f, <2>3, <2>4
  <2>6. image'.size = n /\ \A k \in 0 .. n - 1 : image'.cell[k] = From("packed", k)
    BY <2>1
  <2>7. ASSUME NEW k \in 0 .. n - 1
        PROVE  0 + k \in 0 .. n - 1 /\ 0 + k = k
    OBVIOUS
  <2>8. Holds(image', 0, image'.size, "packed", 0)
    BY <2>6, <2>7 DEF Holds
  <2> QED
    BY <1>2, <2>5, <2>8 DEF PackImage, StoredIn
<1> QED
  BY <1>1, <1>2

\* LoadKickSegment: the vector ends where this segment does or where it ended before.
LEMMA KickTopStep ==
  ASSUME SafeInv, [Next]_vars, Fits', LoadKickSegment,
         KickTop(kick.size, bp.kickstart, kickBase, next - 1)
  PROVE  /\ KickTop(kick'.size, bp.kickstart, kickBase, next) /\ next' - 1 = next
         /\ pc' = "kickSegments"
<1>f. /\ WellFormed /\ TypeOK /\ TypeOK' /\ FilesAccepted /\ KickLoop /\ LayoutInv
  BY StillFits DEF SafeInv, SafeSteps
<1> DEFINE s == KickSegments[next]
           to == kickBase + s.paddr + s.filesz
<1>1. /\ s.paddr \in Nat /\ s.memsz \in Nat /\ s.filesz \in Nat /\ s.filesz <= s.memsz
      /\ limit' = Larger(limit, to) /\ allocLimit' = Larger(limit, KickEnd(next))
      /\ kick'.size = limit' - kickBase
      /\ pc' = "kickSegments" /\ next' = next + 1 /\ next \in Nat \ {0}
      /\ next <= Len(KickSegments)
  BY <1>f, KickSegment
<1>2. pc = "kickSegments"
  BY DEF LoadKickSegment
<1>3. limit = kickBase + kick.size
  BY <1>f, <1>2 DEF KickLoop
<1>4. kickBase \in Nat /\ kick.size \in Nat /\ limit \in Nat
  BY <1>f, Sizes
<1>5. kick'.size = kick.size \/ kick'.size = FileEnd(s)
  <2> DEFINE p == s.paddr
             z == s.filesz
  <2>1. FileEnd(s) = p + z /\ to = kickBase + p + z /\ p \in Nat /\ z \in Nat
    BY <1>1 DEF FileEnd
  <2> HIDE DEF p, z, s, to
  <2> QED
    BY <1>1, <1>3, <1>4, <2>1 DEF Larger
<1>6. KickEnd(next) < Space
  <2>1. allocLimit' \in Nat /\ allocLimit' < Space
    BY <1>f, SizeAssumption DEF TypeOK
  <2>2. KickEnd(next) \in Nat
    <3> DEFINE p == s.paddr
               m == s.memsz
    <3>1. KickEnd(next) = kickBase + p + m /\ p \in Nat /\ m \in Nat
      BY <1>1 DEF KickEnd
    <3> HIDE DEF p, m
    <3> QED
      BY <1>4, <3>1
  <2> QED
    BY <1>1, <1>4, <2>1, <2>2, SizeAssumption DEF Larger
<1> HIDE DEF s, to
<1>7. ASSUME NEW i \in 1 .. next
      PROVE  kickBase + bp.kickstart.segments[i].paddr + bp.kickstart.segments[i].memsz < Space
  <2>1. CASE i = next
    BY <1>6, <2>1 DEF KickEnd, KickSegments
  <2>2. CASE i # next
    <3>1. i \in 1 .. next - 1
      BY <1>1, <2>2
    <3> QED
      BY <3>1 DEF KickTop
  <2> QED
    BY <2>1, <2>2
<1>8. kick'.size = 0 \/ \E i \in 1 .. next : kick'.size = FileEnd(bp.kickstart.segments[i])
  <2>1. CASE kick'.size = FileEnd(s)
    <3>1. next \in 1 .. next
      BY <1>1
    <3> QED
      BY <2>1, <3>1 DEF s, KickSegments
  <2>2. CASE kick'.size = kick.size
    <3>1. CASE kick.size = 0
      BY <2>2, <3>1
    <3>2. CASE kick.size # 0
      <4>1. PICK i \in 1 .. next - 1 : kick.size = FileEnd(bp.kickstart.segments[i])
        BY <3>2 DEF KickTop
      <4>2. i \in 1 .. next
        BY <1>1, <4>1
      <4> QED
        BY <2>2, <4>1, <4>2
    <3> QED
      BY <3>1, <3>2
  <2> QED
    BY <1>5, <2>1, <2>2
<1>9. next' - 1 = next
  BY <1>1
<1> QED
  BY <1>1, <1>7, <1>8, <1>9 DEF KickTop

\* AppendKickstart: the kickstart behind the image, and the contract.
LEMMA KickstartHeld ==
  ASSUME SafeInv, [Next]_vars, Fits', AppendKickstart
  PROVE  /\ pc' = "write" /\ info'.srcLen = image.size /\ info'.dtb = fdtBase
         /\ info'.entry = U(bp.kernel.entry + delta) /\ kick'.size = kick.size
         /\ Carries(image', kickBase - disp - bp.imageBase, kick')
<1> DEFINE at == kickBase - disp - Base
           room == alloc - disp - Base
           g == Grow(image, U(room))
<1>f. /\ TypeOK /\ LayoutSteps /\ LayoutInv /\ KernelLoop /\ KickLoop
  BY StillFits DEF SafeInv, SafeSteps
<1>1. pc = "finish" /\ pc' = "write"
  BY <1>f, KickstartInside DEF AppendKickstart
<1>2. info' = ContractWords /\ kick' = WithInfo(kick) /\ image' = Overlay(g, at, WithInfo(kick))
  BY <1>1 DEF AppendKickstart
<1>3. Base + disp <= kickBase /\ kickBase <= alloc /\ kickBase + kick.size <= alloc
  BY <1>f, <1>1 DEF LayoutSteps, KickLoop
<1>4. room \in Nat /\ room < Space /\ at \in Nat /\ at + kick.size <= room
  BY <1>f, <1>3, Sizes, SizeAssumption
<1>5. kick'.size = kick.size /\ kick.size \in Nat
  <2>1. IsVector(kick) /\ kick.size \in Nat /\ InfoSize \in Nat /\ 0 \in Int /\ 0 \in Nat
    BY <1>f, Sizes, SizeAssumption
  <2>2. Fill(kick, 0, InfoSize, "info", 0).size = kick.size
    BY <2>1, FillCells
  <2> QED
    BY <1>2, <2>1, <2>2 DEF WithInfo
<1>6. at = kickBase - disp - bp.imageBase
  BY DEF Base
<1> HIDE DEF room, at
<1>7. IsVector(g) /\ g.size \in Nat /\ room <= g.size
  BY <1>f, <1>4, GrownHolds, Sizes
<1> HIDE DEF g
<1>8. at + kick'.size <= g.size
  BY <1>4, <1>5, <1>7
<1>9. Carries(image', at, kick')
  BY <1>2, <1>4, <1>5, <1>7, <1>8, OverlayCarries
<1> QED
  BY <1>1, <1>2, <1>5, <1>6, <1>9 DEF ContractWords

\* The relocations leave the size of the kickstart.
LEMMA RelocsKeepSize ==
  ASSUME SafeInv, [Next]_vars, Fits', ApplyRelocs
  PROVE  kick'.size = kick.size
BY StillFits DEF SafeInv, ApplyRelocs, TypeOK, IsVector

\* What the builder has in its vectors.
LEMMA ContentNext == ContentInv /\ [Next]_vars => ContentInv'
<1> SUFFICES ASSUME ContentInv, [Next]_vars, Fits' PROVE ContentSteps'
  BY SafeNext DEF ContentInv
<1>f. /\ SafeInv /\ ContentSteps /\ bp' = bp /\ TypeOK /\ FilesAccepted /\ SafeSteps /\ Fits
  BY StillFits DEF ContentInv, SafeInv
<1>c. KernelContents /\ PlacedContents /\ PackedContents /\ KickContents
  BY <1>f DEF ContentSteps
<1> USE DEF Filling, Appending, Written
<1>1. CASE ReadDtb \/ Throw \/ WriteError
  <2>1. pc' \in {"kernel", "failed", "aborted"}
    BY <1>1 DEF ReadDtb, Throw, WriteError
  <2> QED
    BY <2>1 DEF ContentSteps, KernelContents, PlacedContents, PackedContents, KickContents
<1>2. CASE OpenKernel
  <2>1. alloc' % KernelAlign = 0 /\ KernelUpTo(image, bp.kernel, 0, FirstDelta', bp.imageBase)
    BY <1>2, <1>f, KernelOpened
  <2>2. pc' = "segments" /\ image' = image /\ next' - 1 = 0
    BY <1>2 DEF OpenKernel
  <2> QED
    BY <1>f, <2>1, <2>2 DEF ContentSteps, KernelContents, PlacedContents, PackedContents, KickContents
<1>3. CASE LoadKernelSegment
  <2>1. pc = "segments" /\ alloc' = alloc
    BY <1>3 DEF LoadKernelSegment
  <2>2. alloc % KernelAlign = 0 /\ KernelUpTo(image, bp.kernel, next - 1, FirstDelta, bp.imageBase)
    BY <1>c, <2>1 DEF KernelContents
  <2>3. /\ pc' = "segments" /\ next' - 1 = next /\ FirstDelta' = FirstDelta
        /\ KernelUpTo(image', bp.kernel, next, FirstDelta, bp.imageBase)
    BY <1>3, <1>f, <2>2, KernelSegmentStep
  <2> QED
    BY <1>f, <2>1, <2>2, <2>3
    DEF ContentSteps, KernelContents, PlacedContents, PackedContents, KickContents
<1>4. CASE CloseKernel
  <2>1. pc = "segments" /\ pc' = "chosen" /\ image' = image /\ delta' = delta
    BY <1>4 DEF CloseKernel
  <2>2. alloc % KernelAlign = 0 /\ KernelUpTo(image, bp.kernel, next - 1, FirstDelta, bp.imageBase)
    BY <1>c, <2>1 DEF KernelContents
  <2>3. /\ delta \in Int /\ delta % KernelAlign = 0 /\ bp.kernel \in ElfFile
        /\ KernelIn(image, bp.kernel, delta, bp.imageBase)
    BY <1>4, <1>f, <2>2, KernelClosed
  <2> QED
    BY <1>f, <2>1, <2>3
    DEF ContentSteps, KernelContents, PlacedContents, PackedContents, KickContents
<1>5. CASE FindChosen
  <2>1. /\ pc = "chosen" /\ UNCHANGED <<image, delta>>
        /\ pc' \in {"initramfs", "props"} /\ (pc' = "props" => bp.initramfs = None)
    BY <1>5 DEF FindChosen, layoutVars
  <2>2. pc' = "props" => InitrdIn(image, bp.initramfs, initrdBase', bp.imageBase)
    BY <2>1 DEF InitrdIn
  <2> QED
    BY <1>f, <1>c, <2>1, <2>2
    DEF ContentSteps, KernelContents, PlacedContents, PackedContents, KickContents
<1>6. CASE PlaceInitramfs
  <2>1. pc = "initramfs" /\ initrdBase' = alloc /\ delta' = delta /\ disp' = disp
    BY <1>6 DEF PlaceInitramfs, packVars
  <2>2. InitrdIn(image', bp.initramfs, alloc, bp.imageBase) /\ pc' = "props"
    BY <1>6, <1>f, InitramfsHeld
  <2>3. Extends(image, image') /\ image.size \in Nat /\ image'.size \in Nat
    BY <1>f, <2>1, KeptExtends
  <2>4. KernelIn(image', bp.kernel, delta, bp.imageBase)
    BY <1>c, <2>1, <2>3, KernelExtended DEF KernelContents
  <2> QED
    BY <1>f, <1>c, <2>1, <2>2, <2>4
    DEF ContentSteps, KernelContents, PlacedContents, PackedContents, KickContents
<1>7. CASE SetInitrdProps
  <2>1. /\ pc = "props" /\ UNCHANGED <<image, delta, initrdBase>> /\ pc' \in {"fdt", "failed"}
        /\ pc' = "fdt" => fdt' = WithInitrd(fdt)
    BY <1>7 DEF SetInitrdProps, layoutVars
  <2>2. pc' = "fdt" => fdt'.start = initrdBase
    BY <1>f, <2>1 DEF WithInitrd, TypeOK, FdtState
  <2> QED
    BY <1>f, <1>c, <2>1, <2>2
    DEF ContentSteps, KernelContents, PlacedContents, PackedContents, KickContents
<1>8. CASE DeleteInitrdProps
  <2>1. /\ pc = "props" /\ bp.initramfs = None /\ UNCHANGED <<image, delta, initrdBase>>
        /\ pc' = "fdt"
    BY <1>8 DEF DeleteInitrdProps, layoutVars
  <2> QED
    BY <1>f, <1>c, <2>1
    DEF ContentSteps, KernelContents, PlacedContents, PackedContents, KickContents
<1>9. CASE PlaceFdt
  <2>1. pc = "fdt" /\ delta' = delta /\ disp' = disp /\ initrdBase' = initrdBase
    BY <1>9 DEF PlaceFdt, packVars
  <2>2. /\ Holds(image', alloc - bp.imageBase, fdt.total, "dtb", 0)
        /\ pc' = "compress" /\ fdtBase' = alloc /\ placed' = fdt
    BY <1>9, <1>f, FdtHeld
  <2>3. Extends(image, image') /\ image.size \in Nat /\ image'.size \in Nat
    BY <1>f, <2>1, KeptExtends
  <2>4. KernelIn(image', bp.kernel, delta, bp.imageBase)
    BY <1>c, <2>1, <2>3, KernelExtended DEF KernelContents
  <2>5. InitrdIn(image', bp.initramfs, initrdBase, bp.imageBase)
    BY <1>c, <2>1, <2>3, HoldsExtended DEF PlacedContents, InitrdIn
  <2> QED
    BY <1>f, <1>c, <2>1, <2>2, <2>4, <2>5
    DEF ContentSteps, KernelContents, PlacedContents, PackedContents, KickContents
<1>10. CASE StoreImage \/ PackImage
  <2>1. /\ pc = "compress" /\ UNCHANGED <<delta, initrdBase, fdtBase, placed>>
    BY <1>10 DEF StoreImage, PackImage, layoutVars, fdtVars
  <2>2. /\ payload' = image /\ rawSize' = image.size /\ pc' = "kickstart"
        /\ StoredIn(image', image'.size, disp', payload')
    BY <1>10, <1>f, ImageStored
  <2>3. PayloadIn(image, bp, delta, initrdBase, fdtBase, placed)
    BY <1>c, <2>1 DEF PayloadIn, KernelContents, PlacedContents
  <2> QED
    BY <1>f, <1>c, <2>1, <2>2, <2>3
    DEF ContentSteps, KernelContents, PlacedContents, PackedContents, KickContents
<1> DEFINE Same == UNCHANGED <<delta, initrdBase, fdtBase, placed, payload, rawSize, disp>>
<1>11. CASE OpenKickstart
  <2>1. /\ pc = "kickstart" /\ pc' = "kickSegments" /\ Same /\ image' = image /\ kick' = kick
        /\ next' - 1 = 0
    BY <1>11 DEF OpenKickstart, fdtVars, packVars
  <2>2. kick.size = 0
    BY <1>f, <2>1 DEF SafeSteps, KickLoop, KickStages, Stages, Reading
  <2>3. KickTop(kick.size, bp.kickstart, kickBase', 0)
    BY <2>2 DEF KickTop
  <2> QED
    BY <1>f, <1>c, <2>1, <2>3
    DEF ContentSteps, KernelContents, PlacedContents, PackedContents, KickContents
<1>12. CASE LoadKickSegment
  <2>1. pc = "kickSegments" /\ Same /\ image' = image /\ kickBase' = kickBase
    BY <1>12 DEF LoadKickSegment, fdtVars, packVars
  <2>2. /\ KickTop(kick'.size, bp.kickstart, kickBase, next) /\ next' - 1 = next
        /\ pc' = "kickSegments"
    BY <1>12, <1>f, <1>c, <2>1, KickTopStep DEF KickContents
  <2> QED
    BY <1>f, <1>c, <2>1, <2>2
    DEF ContentSteps, KernelContents, PlacedContents, PackedContents, KickContents
<1>13. CASE CloseKickSegments
  <2>1. /\ pc = "kickSegments" /\ pc' = "relocs" /\ Same /\ image' = image
        /\ kickBase' = kickBase /\ kick' = kick
    BY <1>13 DEF CloseKickSegments, fdtVars, packVars, kickVars
  <2>2. next - 1 = Len(bp.kickstart.segments)
    <3>1. next > Len(KickSegments) /\ next <= Len(KickSegments) + 1
      BY <1>13, <1>f, <2>1 DEF CloseKickSegments, SafeSteps, KickLoop, KickSegments
    <3>2. Len(KickSegments) \in Nat
      BY <1>f, <2>1, GoodFiles, Headers DEF FilesAccepted, KickSegments, Fits
    <3>3. next \in Nat
      BY <1>f, Sizes
    <3> QED
      BY <3>1, <3>2, <3>3 DEF KickSegments
  <2> QED
    BY <1>f, <1>c, <2>1, <2>2
    DEF ContentSteps, KernelContents, PlacedContents, PackedContents, KickContents
<1>14. CASE ApplyRelocs
  <2>1. /\ pc = "relocs" /\ Same /\ image' = image /\ kickBase' = kickBase
    BY <1>14 DEF ApplyRelocs, fdtVars, packVars
  <2>2. pc' = "relocs" \/ pc' = "undefined" \/ pc' = "failed"
    BY <1>14, Zenon DEF ApplyRelocs
  <2>3. kick'.size = kick.size
    BY <1>14, <1>f, RelocsKeepSize
  <2> QED
    BY <1>f, <1>c, <2>1, <2>2, <2>3
    DEF ContentSteps, KernelContents, PlacedContents, PackedContents, KickContents
<1>15. CASE CloseKickstart
  <2>1. /\ pc = "relocs" /\ pc' = "finish" /\ Same /\ image' = image
        /\ kickBase' = kickBase /\ kick' = kick
    BY <1>15 DEF CloseKickstart, fdtVars, packVars, kickVars
  <2> QED
    BY <1>f, <1>c, <2>1
    DEF ContentSteps, KernelContents, PlacedContents, PackedContents, KickContents
<1>16. CASE AppendKickstart
  <2>1. pc = "finish" /\ Same /\ kickBase' = kickBase
    BY <1>16 DEF AppendKickstart, fdtVars, packVars
  <2>2. /\ pc' = "write" /\ info'.srcLen = image.size /\ info'.dtb = fdtBase
        /\ info'.entry = U(bp.kernel.entry + delta) /\ kick'.size = kick.size
        /\ Carries(image', kickBase - disp - bp.imageBase, kick')
    BY <1>16, <1>f, KickstartHeld
  <2>3. Extends(image, image') /\ image.size \in Nat /\ image'.size \in Nat
    BY <1>f, <2>1, KeptExtends
  <2>4. StoredIn(image, image.size, disp, payload)
    BY <1>c, <2>1 DEF PackedContents
  <2>5. payload.size \in Nat
    BY <1>f DEF TypeOK, IsVector
  <2>6. StoredIn(image', image.size, disp, payload)
    BY <2>3, <2>4, <2>5, ExtendsOn, HoldsExtended DEF StoredIn
  <2> QED
    BY <1>f, <1>c, <2>1, <2>2, <2>6
    DEF ContentSteps, KernelContents, PlacedContents, PackedContents, KickContents
<1>17. CASE WriteElf
  <2>1. /\ pc = "write" /\ pc' = "done" /\ Same /\ UNCHANGED <<image, kickBase, kick, info>>
    BY <1>17 DEF WriteElf, fdtVars, packVars, kickVars, layoutVars
  <2> QED
    BY <1>f, <1>c, <2>1
    DEF ContentSteps, KernelContents, PlacedContents, PackedContents, KickContents
<1>18. CASE Ended \/ UNCHANGED vars
  <2>1. UNCHANGED vars
    BY <1>18 DEF Ended
  <2> QED
    BY <1>c, <2>1
    DEF vars, ContentSteps, KernelContents, PlacedContents, PackedContents, KickContents,
        FirstDelta, KernelSegments
<1> QED
  BY <1>1, <1>2, <1>3, <1>4, <1>5, <1>6, <1>7, <1>8, <1>9, <1>10, <1>11, <1>12, <1>13, <1>14,
     <1>15, <1>16, <1>17, <1>18 DEF Next

\* ContentInv holds in every reachable state of the builder.
LEMMA ContentAlways == Spec => []ContentInv
BY ContentInit, ContentNext, PTL DEF Spec

-----------------------------------------------------------------------------
(***************************************************************************)
(* The board.                                                              *)
(***************************************************************************)
\* The first n words of v, or of the compressed image, are in the memory m at `at'.
WordsAt(m, at, n, v) == \A k \in 0 .. n - 1 : m[at + k] = v.cell[k]
PackedAt(m, at, n) == \A k \in 0 .. n - 1 : m[at + k] = From("packed", k)

\* What the encoder wrote is what image_info tells the stub.
HandedOver ==
  /\ pc \in Appending => packed = image.size
  /\ pc \in Written => packed = info.srcLen
  /\ pc = "done" => elf.vaddr = U(bp.imageBase + disp) /\ elf.size = image.size

\* The stub stays where it is, its translation table too, and so does what it still has to read; what it has
\* decompressed is what was compressed.
MemoryContents ==
  /\ stage \in {"loaded", "decoding", "decoded", "kernel"}
  /\ WordsAt(mem, kickBase, kick.size, kick)
  /\ stage = "loaded" => IF disp = 0 THEN WordsAt(mem, bp.imageBase, payload.size, payload)
                         ELSE PackedAt(mem, bp.imageBase + disp, info.srcLen)
  /\ stage = "decoding" => /\ disp # 0 /\ PackedAt(mem, bp.imageBase + disp, info.srcLen)
                           /\ done <= payload.size
                           /\ WordsAt(mem, bp.imageBase, done, payload)
  /\ stage \in {"decoded", "kernel"} => WordsAt(mem, bp.imageBase, payload.size, payload)
  /\ stage \in {"decoding", "decoded"} => TableThere

BoardSteps ==
  /\ done \in Nat /\ (stage \in {"off", "loaded"} => done = 0)
  /\ stage # "off" => pc = "done" /\ Fits /\ DOMAIN mem = 0 .. Space - 1
  /\ stage # "off" /\ BssLast /\ ScratchFits => MemoryContents

ChainInv == ContentInv /\ HandedOver /\ BoardSteps

\* ChainInv holds at first.
LEMMA ChainInit == BootInit => ChainInv
BY ContentInit DEF BootInit, Init, ChainInv, HandedOver, BoardSteps, Appending, Written

\* Where everything is when the image has been built.
LEMMA Addresses ==
  ASSUME ContentInv, Fits, pc = "done"
  PROVE  /\ bp.imageBase \in Nat /\ disp \in Nat /\ kickBase \in Nat /\ kickBase < Space
         /\ payload.size \in Nat /\ kick.size \in Nat /\ image.size \in Nat
         /\ info.srcLen \in Nat /\ info.src = bp.imageBase + disp /\ info.dst = bp.imageBase
         /\ info.dstLen = payload.size /\ U(bp.imageBase + disp) = bp.imageBase + disp
         /\ bp.imageBase + disp + image.size < Space
         /\ bp.imageBase + disp + info.srcLen <= kickBase
         /\ bp.imageBase + payload.size <= kickBase /\ (disp # 0 => payload.size <= disp)
<1>1. /\ TypeOK /\ LayoutSteps /\ ContentSteps
  BY DEF ContentInv, SafeInv, LayoutInv, TypeInv, Fits
<1>2. payload.size = rawSize
  BY <1>1 DEF ContentSteps, PackedContents, Written
<1>3. /\ Base + disp <= kickBase /\ info.src = Base + disp /\ info.dst = Base
      /\ info.src + info.srcLen <= kickBase /\ info.dstLen = rawSize /\ Displaced(info.srcLen)
      /\ alloc = Base + disp + image.size
  BY <1>1 DEF LayoutSteps
<1>4. /\ Base \in Nat /\ disp \in Nat /\ kickBase \in Nat /\ kickBase < Space /\ rawSize \in Nat
      /\ kick.size \in Nat /\ image.size \in Nat /\ alloc < Space
  BY <1>1, Sizes
<1>5. info.srcLen \in Nat
  BY <1>1 DEF TypeOK
<1>6. U(Base + disp) = Base + disp
  BY <1>3, <1>4, UExact, SizeAssumption DEF InRange
<1> DEFINE n == info.srcLen
           src == info.src
           raw == rawSize
<1>7. Base + raw <= kickBase /\ (disp # 0 => raw <= disp)
  <2>1. /\ (disp = 0 /\ raw = n) \/ (disp > 0 /\ raw <= disp)
        /\ src = Base + disp /\ src + n <= kickBase /\ Base + disp <= kickBase
        /\ n \in Nat /\ raw \in Nat
    BY <1>3, <1>4, <1>5 DEF Displaced
  <2> HIDE DEF n, src, raw
  <2> QED
    BY <1>4, <2>1
<1> QED
  BY <1>2, <1>3, <1>4, <1>5, <1>6, <1>7 DEF Base

\* The numbers of the kickstart's segments when it has been loaded.
LEMMA StubNumbers ==
  ASSUME ContentInv, Fits, pc = "done"
  PROVE  /\ bp.kickstart.segments # <<>> /\ SegmentsOf(bp.kickstart) # {}
         /\ \A s \in SegmentsOf(bp.kickstart) :
              /\ s.paddr \in Nat /\ s.memsz \in Nat /\ s.filesz \in Nat /\ s.filesz <= s.memsz
              /\ kickBase + s.paddr + s.memsz < Space
         /\ kick.size = 0 \/ \E s \in SegmentsOf(bp.kickstart) : kick.size = FileEnd(s)
<1>1. /\ TypeOK /\ SafeSteps /\ ContentSteps /\ WellFormed
  BY DEF ContentInv, SafeInv, LayoutInv, TypeInv, Fits
<1>2. bp.kickstart \in ElfFile
  BY <1>1 DEF SafeSteps, KickLoop
<1>3. Sized(bp.kickstart)
  BY <1>1, <1>2, GoodFiles
<1>4. /\ Len(bp.kickstart.segments) \in Nat \ {0}
      /\ DOMAIN bp.kickstart.segments = 1 .. Len(bp.kickstart.segments)
      /\ \A i \in 1 .. Len(bp.kickstart.segments) :
           /\ bp.kickstart.segments[i].paddr \in Nat /\ bp.kickstart.segments[i].memsz \in Nat
           /\ bp.kickstart.segments[i].filesz \in Nat
           /\ bp.kickstart.segments[i].filesz <= bp.kickstart.segments[i].memsz
  BY <1>2, <1>3, Headers
<1>5. KickTop(kick.size, bp.kickstart, kickBase, Len(bp.kickstart.segments))
  BY <1>1 DEF ContentSteps, KickContents, Written
<1>6. 1 \in 1 .. Len(bp.kickstart.segments)
  BY <1>4
<1> DEFINE q == bp.kickstart.segments
<1>7. SegmentsOf(bp.kickstart) = {q[i] : i \in 1 .. Len(q)}
  BY <1>4 DEF SegmentsOf
<1>8. bp.kickstart.segments # <<>>
  BY <1>3 DEF Sized
<1> QED
  BY <1>4, <1>5, <1>6, <1>7, <1>8 DEF KickTop

\* Nothing of the file lies in or behind .bss, or at or behind _end.
LEMMA BssBehind ==
  ASSUME ContentInv, Fits, pc = "done", BssLast, NEW a \in Bss
  PROVE  a \in Int /\ kickBase + kick.size <= a
<1>1. PICK s \in SegmentsOf(bp.kickstart) :
        a \in kickBase + s.paddr + s.filesz .. kickBase + s.paddr + s.memsz - 1
  BY DEF Bss
<1>2. /\ s.paddr \in Nat /\ s.memsz \in Nat /\ s.filesz \in Nat
      /\ kick.size = 0 \/ \E t \in SegmentsOf(bp.kickstart) : kick.size = FileEnd(t)
  BY StubNumbers
<1>3. kickBase \in Nat /\ kick.size \in Nat
  BY Addresses
<1> DEFINE p == s.paddr
           m == s.memsz
           z == s.filesz
<1>4. p \in Nat /\ m \in Nat /\ z \in Nat /\ a \in kickBase + p + z .. kickBase + p + m - 1
  BY <1>1, <1>2
<1>5. (m > z => kick.size <= p + z) \/ kick.size = 0
  BY <1>2 DEF BssLast, FileEnd
<1> HIDE DEF p, m, z
<1> QED
  BY <1>3, <1>4, <1>5

\* The memory of the boot stub reaches behind its file contents.
LEMMA StubEndHighest ==
  ASSUME ContentInv, Fits, pc = "done"
  PROVE  StubEnd \in Nat /\ kickBase + kick.size <= StubEnd /\ StubEnd <= Space
<1> DEFINE T == {kickBase + s.paddr + s.memsz : s \in SegmentsOf(bp.kickstart)}
<1>1. kickBase \in Nat /\ kick.size \in Nat
  BY Addresses
<1>2. ASSUME NEW s \in SegmentsOf(bp.kickstart)
      PROVE  /\ kickBase + s.paddr + s.memsz \in Nat /\ kickBase + s.paddr + s.memsz <= Space
             /\ kickBase <= kickBase + s.paddr + s.memsz
             /\ kickBase + FileEnd(s) <= kickBase + s.paddr + s.memsz
  <2> DEFINE p == s.paddr
             m == s.memsz
             z == s.filesz
  <2>1. p \in Nat /\ m \in Nat /\ z \in Nat /\ z <= m /\ kickBase + p + m < Space /\ FileEnd(s) = p + z
    BY StubNumbers DEF FileEnd
  <2> HIDE DEF p, m, z
  <2>2. /\ kickBase + p + m \in Nat /\ kickBase + p + m <= Space
        /\ kickBase <= kickBase + p + m /\ kickBase + (p + z) <= kickBase + p + m
    BY <1>1, <2>1, SizeAssumption
  <2> QED
    BY <2>1, <2>2 DEF p, m
<1>3. T \subseteq Nat /\ T # {} /\ \A x \in T : x <= Space
  BY <1>2, StubNumbers
<1>4. \E m \in T : \A x \in T : x <= m
  <2> HIDE DEF T
  <2> QED
    BY <1>3, GreatestNumber, SizeAssumption
<1>5. \E m \in T : \A s \in SegmentsOf(bp.kickstart) : kickBase + s.paddr + s.memsz <= m
  BY <1>4
<1>6. /\ StubEnd \in T
      /\ \A s \in SegmentsOf(bp.kickstart) : kickBase + s.paddr + s.memsz <= StubEnd
  BY <1>5 DEF StubEnd
<1>7. StubEnd \in Nat /\ StubEnd <= Space
  BY <1>3, <1>6
<1> HIDE DEF T
<1>8. ASSUME kick.size = 0 PROVE kickBase + kick.size <= StubEnd
  <2>1. PICK s \in SegmentsOf(bp.kickstart) : TRUE
    BY StubNumbers
  <2> DEFINE e == kickBase + s.paddr + s.memsz
  <2>2. e \in Nat /\ kickBase <= e /\ e <= StubEnd
    BY <1>2, <1>6
  <2> HIDE DEF e
  <2> QED
    BY <1>1, <1>7, <1>8, <2>2
<1>9. ASSUME kick.size # 0 PROVE kickBase + kick.size <= StubEnd
  <2>1. PICK s \in SegmentsOf(bp.kickstart) : kick.size = FileEnd(s)
    BY <1>9, StubNumbers
  <2> DEFINE e == kickBase + s.paddr + s.memsz
  <2>2. e \in Nat /\ kickBase + kick.size <= e /\ e <= StubEnd
    BY <1>2, <1>6, <2>1
  <2> HIDE DEF e
  <2> QED
    BY <1>1, <1>7, <2>2
<1> QED
  BY <1>7, <1>8, <1>9

\* The translation table lies in the gap between _end and the decoder's state.
LEMMA TableInGap ==
  ASSUME ContentInv, Fits, pc = "done", ScratchFits
  PROVE  /\ StubEnd \in Nat /\ TableBase \in Int /\ StubEnd <= TableBase
         /\ TableBase + TableSize <= StubEnd + ScratchGap
<1>1. StubEnd \in Nat
  BY StubEndHighest
<1>2. StubEnd + ScratchGap <= Space
  BY <1>1, ScratchAssumption, SizeAssumption DEF ScratchFits
<1> HIDE DEF StubEnd
<1> DEFINE q == StubEnd + (TableSize - 1)
           r == q % TableSize
<1>3. q \in Nat /\ InRange(q)
  BY <1>1, <1>2, ScratchAssumption, SizeAssumption DEF InRange
<1>4. U(q) = q
  BY <1>3, UExact
<1>5. r \in 0 .. TableSize - 1
  BY <1>3, ScratchAssumption, ModRange
<1>6. TableBase = q - r
  BY <1>4 DEF TableBase, AlignUp
<1> HIDE DEF r
<1> QED
  BY <1>1, <1>5, <1>6, ScratchAssumption

\* All of it is in memory, and in front of that state.
LEMMA TableInMemory ==
  ASSUME ContentInv, Fits, pc = "done", ScratchFits, NEW a \in Table
  PROVE  a \in 0 .. Space - 1 /\ a \notin Scratch /\ StubEnd <= a
<1>1. /\ StubEnd \in Nat /\ TableBase \in Int /\ StubEnd <= TableBase
      /\ TableBase + TableSize <= StubEnd + ScratchGap
  BY TableInGap
<1>2. StubEnd + ScratchGap + ScratchSize <= Space
  BY DEF ScratchFits
<1>3. a \in TableBase .. TableBase + TableSize - 1
  BY DEF Table
<1> HIDE DEF StubEnd, TableBase
<1>4. a \in Int /\ StubEnd <= a /\ a < StubEnd + ScratchGap
  BY <1>1, <1>3, ScratchAssumption
<1> QED
  BY <1>1, <1>2, <1>4, ScratchAssumption, SizeAssumption DEF Scratch

\* Where the table is does not change any more.
LEMMA SameTable ==
  ASSUME UNCHANGED vars
  PROVE  /\ StubEnd' = StubEnd /\ TableBase' = TableBase /\ Table' = Table
         /\ ScratchFits' <=> ScratchFits
BY DEF vars, StubEnd, SegmentsOf, TableBase, Table, ScratchFits, AlignUp

\* A step that leaves the memory from lo to hi leaves the words in it.
Untouched(m, w, lo, hi) == \A a \in lo .. hi - 1 : w[a] = m[a]

\* Words and packed bytes in memory nobody writes to stay.
LEMMA WordsStay ==
  ASSUME NEW m, NEW w, NEW lo \in Int, NEW hi \in Int, Untouched(m, w, lo, hi),
         NEW at \in Int, NEW n \in Int, lo <= at, at + n <= hi
  PROVE  /\ \A v : WordsAt(m, at, n, v) => WordsAt(w, at, n, v)
         /\ PackedAt(m, at, n) => PackedAt(w, at, n)
<1>1. ASSUME NEW k \in 0 .. n - 1 PROVE w[at + k] = m[at + k]
  <2>1. at + k \in lo .. hi - 1
    OBVIOUS
  <2> QED
    BY <2>1 DEF Untouched
<1> QED
  BY <1>1 DEF WordsAt, PackedAt

\* The boot loader.
LEMMA LoadStep ==
  ASSUME ChainInv, LoadElf
  PROVE  /\ pc = "done" /\ Fits /\ DOMAIN mem' = 0 .. Space - 1
         /\ WordsAt(mem', kickBase, kick.size, kick)
         /\ IF disp = 0 THEN WordsAt(mem', bp.imageBase, payload.size, payload)
            ELSE PackedAt(mem', bp.imageBase + disp, info.srcLen)
<1>1. ContentInv /\ Fits /\ pc = "done" /\ ContentSteps
  BY DEF ChainInv, LoadElf, ContentInv
<1> DEFINE at == bp.imageBase + disp
           n == image.size
<1>2. elf.vaddr = at /\ elf.size = n
  BY <1>1, Addresses DEF ChainInv, HandedOver
<1>3. /\ at \in Nat /\ n \in Nat /\ at + n < Space /\ kickBase \in Nat /\ kick.size \in Nat
      /\ payload.size \in Nat /\ info.srcLen \in Nat /\ bp.imageBase \in Nat /\ disp \in Nat
  BY <1>1, Addresses
<1>4. mem' = [a \in 0 .. Space - 1 |->
                IF a \in at .. at + n - 1 THEN image.cell[a - at] ELSE Junk]
  BY <1>2 DEF LoadElf
<1>5. /\ Carries(image, kickBase - disp - bp.imageBase, kick)
      /\ StoredIn(image, info.srcLen, disp, payload)
  BY <1>1 DEF ContentSteps, PackedContents, KickContents, Written
<1>6. at = bp.imageBase + disp
  OBVIOUS
<1> HIDE DEF at
<1>7. ASSUME NEW j \in 0 .. n - 1 PROVE mem'[at + j] = image.cell[j]
  <2>1. at + j \in 0 .. Space - 1 /\ at + j \in at .. at + n - 1 /\ (at + j) - at = j
    BY <1>3, SizeAssumption
  <2> QED
    BY <1>4, <2>1
<1>8. ASSUME NEW k \in 0 .. kick.size - 1 PROVE mem'[kickBase + k] = kick.cell[k]
  <2> DEFINE j == kickBase - disp - bp.imageBase + k
  <2>1. j \in 0 .. n - 1 /\ image.cell[j] = kick.cell[k]
    BY <1>5 DEF Carries
  <2>2. at + j = kickBase + k
    BY <1>3, <1>6
  <2> HIDE DEF j
  <2> QED
    BY <1>7, <2>1, <2>2
<1>9. ASSUME disp = 0 PROVE WordsAt(mem', bp.imageBase, payload.size, payload)
  <2>1. payload.size <= n /\ \A k \in 0 .. payload.size - 1 : image.cell[k] = payload.cell[k]
    BY <1>5, <1>9 DEF StoredIn, Extends
  <2>2. at = bp.imageBase
    BY <1>3, <1>6, <1>9
  <2>3. ASSUME NEW k \in 0 .. payload.size - 1 PROVE mem'[at + k] = payload.cell[k]
    <3>1. k \in 0 .. n - 1
      BY <1>3, <2>1
    <3> QED
      BY <1>7, <2>1, <3>1
  <2> QED
    BY <2>2, <2>3 DEF WordsAt
<1>10. ASSUME disp # 0 PROVE PackedAt(mem', at, info.srcLen)
  <2>1. Holds(image, 0, info.srcLen, "packed", 0)
    BY <1>5, <1>10 DEF StoredIn
  <2>2. ASSUME NEW k \in 0 .. info.srcLen - 1 PROVE mem'[at + k] = From("packed", k)
    <3>1. 0 + k = k
      OBVIOUS
    <3>2. k \in 0 .. n - 1 /\ image.cell[k] = From("packed", k)
      BY <2>1, <3>1 DEF Holds
    <3> QED
      BY <1>7, <3>2
  <2> QED
    BY <2>2 DEF PackedAt
<1>11. DOMAIN mem' = 0 .. Space - 1
  BY <1>4
<1> QED
  BY <1>1, <1>6, <1>8, <1>9, <1>10, <1>11 DEF WordsAt

\* The stub up to the decoder: its stacks and .bss are its own.
LEMMA EnterStep ==
  ASSUME ChainInv, EnterStub, BssLast, ScratchFits
  PROVE  /\ MemoryContents'
<1>1. /\ ContentInv /\ Fits /\ pc = "done" /\ DOMAIN mem = 0 .. Space - 1 /\ stage = "loaded"
      /\ MemoryContents /\ done = 0 /\ UNCHANGED <<vars, done>>
  BY DEF ChainInv, BoardSteps, EnterStub
<1>2. /\ bp.imageBase \in Nat /\ disp \in Nat /\ kickBase \in Nat
      /\ payload.size \in Nat /\ kick.size \in Nat /\ info.srcLen \in Nat
      /\ info.src = bp.imageBase + disp /\ info.dst = bp.imageBase
      /\ bp.imageBase + disp + info.srcLen <= kickBase
      /\ bp.imageBase + payload.size <= kickBase
  BY <1>1, Addresses
<1>3. mem' = [a \in DOMAIN mem |->
                IF a \in Table THEN TableEntry(a) ELSE IF a \in Bss THEN Junk ELSE mem[a]]
  BY DEF EnterStub, With
<1> DEFINE top == kickBase + kick.size
<1>4. top \in Nat /\ top <= Space /\ top <= TableBase /\ TableBase \in Int
  <2>1. StubEnd \in Nat /\ top <= StubEnd /\ StubEnd <= Space
    BY <1>1, StubEndHighest
  <2>2. StubEnd <= TableBase /\ TableBase \in Int
    BY <1>1, TableInGap
  <2> HIDE DEF top
  <2>3. top \in Nat
    BY <1>2 DEF top
  <2> QED
    BY <2>1, <2>2, <2>3, SizeAssumption
<1>5. Untouched(mem, mem', 0, top)
  <2>1. ASSUME NEW a \in 0 .. top - 1 PROVE mem'[a] = mem[a]
    <3>1. a \in DOMAIN mem
      BY <1>1, <1>4, <2>1, SizeAssumption
    <3>2. a \notin Bss /\ a \notin Table
      BY <1>1, <1>4, BssBehind DEF Table
    <3> QED
      BY <1>3, <3>1, <3>2
  <2> QED
    BY <2>1 DEF Untouched
<1>6. WordsAt(mem', kickBase, kick.size, kick)
  <2> DEFINE z == kick.size
  <2>1. 0 <= kickBase /\ kickBase + z <= top /\ z \in Int /\ kickBase \in Int
    BY <1>2
  <2>2. WordsAt(mem, kickBase, z, kick)
    BY <1>1 DEF MemoryContents
  <2> HIDE DEF top, z
  <2>3. WordsAt(mem', kickBase, z, kick)
    BY <1>4, <1>5, <2>1, <2>2, WordsStay
  <2> QED
    BY <2>3 DEF z
<1>7. disp = 0 => WordsAt(mem', bp.imageBase, payload.size, payload)
  <2> DEFINE base == bp.imageBase
             n == payload.size
  <2>1. base + n <= top /\ base \in Int /\ 0 <= base /\ n \in Int
    BY <1>2
  <2>2. disp = 0 => WordsAt(mem, base, n, payload)
    BY <1>1 DEF MemoryContents
  <2> HIDE DEF top, base, n
  <2>3. disp = 0 => WordsAt(mem', base, n, payload)
    BY <1>4, <1>5, <2>1, <2>2, WordsStay
  <2> QED
    BY <2>3 DEF base, n
<1>8. disp # 0 => PackedAt(mem', bp.imageBase + disp, info.srcLen)
  <2> DEFINE at == bp.imageBase + disp
  <2>1. at + info.srcLen <= top /\ at \in Int /\ 0 <= at
    BY <1>2
  <2>2. disp # 0 => PackedAt(mem, at, info.srcLen)
    BY <1>1 DEF MemoryContents
  <2> HIDE DEF top, at
  <2>3. disp # 0 => PackedAt(mem', at, info.srcLen)
    BY <1>2, <1>4, <1>5, <2>1, <2>2, WordsStay
  <2> QED
    BY <2>3 DEF at
<1>9. stage' = IF info.src = info.dst THEN "decoded" ELSE "decoding"
  <2>1. StubThere
    BY <1>1 DEF MemoryContents, WordsAt, StubThere
  <2> QED
    BY <2>1 DEF EnterStub
<1>10. info.src = info.dst <=> disp = 0
  BY <1>2
<1>11. WordsAt(mem', bp.imageBase, 0, payload)
  BY DEF WordsAt
<1>12. TableThere'
  <2>1. ASSUME NEW a \in Table PROVE mem'[a] = TableEntry(a)
    <3>1. a \in DOMAIN mem
      BY <1>1, <1>4, TableInMemory
    <3> QED
      BY <1>3, <3>1
  <2>2. \A a : TableEntry(a)' = TableEntry(a)
    BY <1>1, SameTable DEF TableEntry
  <2>3. Table' = Table
    BY <1>1, SameTable
  <2> QED
    BY <2>1, <2>2, <2>3 DEF TableThere
<1> QED
  BY <1>1, <1>2, <1>6, <1>7, <1>8, <1>9, <1>10, <1>11, <1>12 DEF MemoryContents, vars

\* One word decompressed: behind what the stub still reads, or where it has read.
LEMMA DecodeStep ==
  ASSUME ChainInv, DecodeWord, BssLast, ScratchFits
  PROVE  MemoryContents'
<1>1. /\ ContentInv /\ Fits /\ pc = "done" /\ DOMAIN mem = 0 .. Space - 1 /\ stage = "decoding"
      /\ MemoryContents /\ done \in Nat /\ UNCHANGED <<vars, stage>> /\ done' = done + 1
      /\ done < payload.size
  BY DEF ChainInv, BoardSteps, DecodeWord
<1>2. /\ bp.imageBase \in Nat /\ disp \in Nat /\ kickBase \in Nat
      /\ payload.size \in Nat /\ kick.size \in Nat /\ info.srcLen \in Nat
      /\ info.src = bp.imageBase + disp /\ info.dst = bp.imageBase
      /\ bp.imageBase + disp + info.srcLen <= kickBase
      /\ bp.imageBase + payload.size <= kickBase /\ (disp # 0 => payload.size <= disp)
  BY <1>1, Addresses
<1>3. /\ disp # 0 /\ PackedAt(mem, bp.imageBase + disp, info.srcLen) /\ done <= payload.size
      /\ WordsAt(mem, bp.imageBase, done, payload) /\ WordsAt(mem, kickBase, kick.size, kick)
  BY <1>1 DEF MemoryContents
<1>4. SourceThere
  <2>1. packed = info.srcLen
    BY <1>1 DEF ChainInv, HandedOver, Written
  <2> QED
    BY <1>2, <1>3, <2>1 DEF SourceThere, PackedAt
<1> DEFINE base == bp.imageBase
           word == payload.cell[done]
           here == base + done
<1>5. mem' = With(With(mem, Scratch, LAMBDA a : Junk), {here}, LAMBDA a : word)
  BY <1>2, <1>4 DEF DecodeWord
<1> HIDE DEF word, here, base
<1>6. mem' = [a \in DOMAIN mem |->
                IF a = here THEN word ELSE IF a \in Scratch THEN Junk ELSE mem[a]]
  BY <1>5 DEF With
<1> DEFINE top == kickBase + kick.size
           n == payload.size
<1>7. top \in Nat /\ top <= Space /\ \A a \in Scratch : a \in Int /\ top <= a
  <2>1. StubEnd \in Nat /\ top <= StubEnd /\ StubEnd <= Space
    BY <1>1, StubEndHighest
  <2>2. \A a \in Scratch : a \in Int /\ StubEnd <= a
    BY <2>1, ScratchAssumption DEF Scratch
  <2> QED
    BY <1>2, <2>1, <2>2, SizeAssumption
<1>8. /\ here \in Nat /\ here = base + done /\ base \in Nat /\ n \in Nat /\ base + n <= kickBase
      /\ n <= disp /\ here < base + n /\ here < base + disp /\ here < kickBase
      /\ base + disp <= kickBase /\ kickBase <= top
  <2> DEFINE z == kick.size
  <2>1. z \in Nat /\ top = kickBase + z /\ here = base + done
    BY <1>2 DEF here
  <2>2. /\ base \in Nat /\ disp \in Nat /\ kickBase \in Nat /\ n \in Nat /\ done \in Nat
        /\ done < n /\ base + n <= kickBase /\ n <= disp
    BY <1>1, <1>2, <1>3 DEF base
  <2>3. base + disp <= kickBase
    <3> DEFINE len == info.srcLen
    <3>1. len \in Nat /\ base + disp + len <= kickBase
      BY <1>2 DEF base
    <3> HIDE DEF len
    <3> QED
      BY <2>2, <3>1
  <2> HIDE DEF z, n, top
  <2> QED
    BY <2>1, <2>2, <2>3
<1> HIDE DEF top, n
<1>9. ASSUME NEW a \in 0 .. top - 1, a # here PROVE mem'[a] = mem[a]
  <2>1. a \in DOMAIN mem /\ a \notin Scratch
    BY <1>1, <1>7, SizeAssumption
  <2> QED
    BY <1>6, <1>9, <2>1
<1>10. mem'[here] = word
  <2>1. here \in DOMAIN mem
    BY <1>1, <1>2, <1>7, <1>8, SizeAssumption
  <2> QED
    BY <1>6, <2>1
<1>11. WordsAt(mem', kickBase, kick.size, kick)
  <2>1. Untouched(mem, mem', kickBase, top)
    BY <1>2, <1>7, <1>8, <1>9 DEF Untouched
  <2> DEFINE z == kick.size
  <2>2. kickBase + z <= top /\ kickBase \in Int /\ z \in Int
    BY <1>2 DEF top
  <2>3. WordsAt(mem, kickBase, z, kick)
    BY <1>3
  <2> HIDE DEF z
  <2>4. WordsAt(mem', kickBase, z, kick)
    BY <1>7, <2>1, <2>2, <2>3, WordsStay
  <2> QED
    BY <2>4 DEF z
<1>12. PackedAt(mem', base + disp, info.srcLen)
  <2> DEFINE src == base + disp
             len == info.srcLen
  <2>1. src \in Nat /\ len \in Nat /\ src + len <= kickBase /\ PackedAt(mem, src, len) /\ here < src
    BY <1>2, <1>3, <1>8 DEF base
  <2> HIDE DEF src, len
  <2>2. Untouched(mem, mem', src, kickBase)
    BY <1>2, <1>7, <1>8, <1>9, <2>1 DEF Untouched
  <2>3. PackedAt(mem', src, len)
    BY <1>2, <2>1, <2>2, WordsStay
  <2> QED
    BY <2>3 DEF src, len
<1>13. WordsAt(mem', base, done', payload)
  <2>1. ASSUME NEW k \in 0 .. done' - 1 PROVE mem'[base + k] = payload.cell[k]
    <3>1. CASE k = done
      BY <1>8, <1>10, <3>1 DEF word
    <3>2. CASE k # done
      <4>1. k \in 0 .. done - 1
        BY <1>1, <3>2
      <4>2. mem[base + k] = payload.cell[k]
        BY <1>3, <4>1 DEF WordsAt, base
      <4>3. base + k \in 0 .. top - 1 /\ base + k # here
        BY <1>1, <1>2, <1>7, <1>8, <4>1
      <4> QED
        BY <1>9, <4>2, <4>3
    <3> QED
      BY <3>1, <3>2
  <2> QED
    BY <2>1 DEF WordsAt
<1>14. done' <= n
  BY <1>1, <1>8 DEF n
<1>15. TableThere'
  <2>1. ASSUME NEW a \in Table PROVE mem'[a] = TableEntry(a)
    <3>1. a \in 0 .. Space - 1 /\ a \notin Scratch /\ StubEnd <= a
      BY <1>1, TableInMemory
    <3>2. StubEnd \in Nat /\ top <= StubEnd
      BY <1>1, StubEndHighest DEF top
    <3>3. a # here
      BY <1>2, <1>7, <1>8, <3>1, <3>2
    <3>4. mem[a] = TableEntry(a)
      BY <1>1 DEF MemoryContents, TableThere
    <3> QED
      BY <1>1, <1>6, <3>1, <3>3, <3>4
  <2>2. (\A a : TableEntry(a)' = TableEntry(a)) /\ Table' = Table
    BY <1>1, SameTable DEF TableEntry
  <2> QED
    BY <2>1, <2>2 DEF TableThere
<1> QED
  BY <1>1, <1>3, <1>11, <1>12, <1>13, <1>14, <1>15 DEF MemoryContents, vars, base, n

\* The length the stub was told is the length there was.
LEMMA CheckStep ==
  ASSUME ChainInv, CheckLength, BssLast, ScratchFits
  PROVE  MemoryContents'
<1>1. /\ ContentInv /\ Fits /\ pc = "done" /\ stage = "decoding"
      /\ MemoryContents /\ UNCHANGED <<vars, mem, done>>
      /\ (done = info.dstLen \/ done = payload.size)
  BY DEF ChainInv, BoardSteps, CheckLength
<1>2. info.dstLen = payload.size /\ info.src = bp.imageBase + disp /\ info.srcLen \in Nat
  BY <1>1, Addresses
<1>3. packed = info.srcLen
  BY <1>1 DEF ChainInv, HandedOver, Written
<1>4. SourceThere
  BY <1>1, <1>2, <1>3 DEF SourceThere, PackedAt, MemoryContents
<1>5. stage' = "decoded" /\ done = payload.size
  BY <1>1, <1>2, <1>4 DEF CheckLength
<1>6. TableThere'
  BY <1>1, SameTable DEF MemoryContents, TableThere, TableEntry
<1> QED
  BY <1>1, <1>5, <1>6 DEF MemoryContents, vars

\* The kernel is entered with memory as the builder laid it out.
LEMMA KernelEntered ==
  ASSUME ChainInv, EnterKernel, BssLast, ScratchFits
  PROVE  MemoryContents'
<1>1. /\ stage = "decoded" /\ MemoryContents /\ UNCHANGED <<vars, mem, done>>
  BY DEF ChainInv, BoardSteps, EnterKernel
<1>2. StubThere /\ TableThere
  BY <1>1 DEF MemoryContents, WordsAt, StubThere
<1>3. stage' = "kernel"
  BY <1>2 DEF EnterKernel
<1> QED
  BY <1>1, <1>3 DEF MemoryContents, vars

\* Once the image is on the board the builder has ended.
LEMMA Quiet ==
  ASSUME pc = "done", Next
  PROVE  UNCHANGED vars
BY DEF Next, ReadDtb, OpenKernel, LoadKernelSegment, CloseKernel, FindChosen, PlaceInitramfs,
   SetInitrdProps, DeleteInitrdProps, PlaceFdt, StoreImage, PackImage, OpenKickstart,
   LoadKickSegment, CloseKickSegments, ApplyRelocs, CloseKickstart, AppendKickstart, WriteElf,
   Throw, Rejected, WriteError, Ended, Reading

\* The builder hands over what it packed.
LEMMA HandedOverStep ==
  ASSUME HandedOver, Build
  PROVE  HandedOver'
<1> USE DEF Appending, Written
<1>1. packed' = IF pc = "compress" THEN image'.size ELSE packed
  BY DEF Build
<1>2. CASE \/ ReadDtb \/ OpenKernel \/ LoadKernelSegment \/ CloseKernel \/ FindChosen
           \/ PlaceInitramfs \/ SetInitrdProps \/ DeleteInitrdProps \/ PlaceFdt
           \/ Throw \/ WriteError
  <2>1. pc' \notin Appending \cup Written
    BY <1>2 DEF ReadDtb, OpenKernel, LoadKernelSegment, CloseKernel, FindChosen, PlaceInitramfs,
       SetInitrdProps, DeleteInitrdProps, PlaceFdt, Throw, WriteError
  <2> QED
    BY <2>1 DEF HandedOver
<1>3. CASE StoreImage \/ PackImage
  <2>1. pc = "compress" /\ pc' = "kickstart"
    BY <1>3 DEF StoreImage, PackImage
  <2> QED
    BY <1>1, <2>1 DEF HandedOver
<1>4. CASE OpenKickstart \/ LoadKickSegment \/ CloseKickSegments \/ CloseKickstart
  <2>1. pc \in Appending /\ pc' \in Appending \cup {"undefined"} /\ image' = image
    BY <1>4 DEF OpenKickstart, LoadKickSegment, CloseKickSegments, CloseKickstart
  <2> QED
    BY <1>1, <2>1 DEF HandedOver
<1>5. CASE ApplyRelocs
  <2>1. pc = "relocs" /\ image' = image
    BY <1>5 DEF ApplyRelocs
  <2>2. pc' = "relocs" \/ pc' = "undefined" \/ pc' = "failed"
    BY <1>5, Zenon DEF ApplyRelocs
  <2> QED
    BY <1>1, <2>1, <2>2 DEF HandedOver
<1>6. CASE AppendKickstart
  <2>1. /\ pc = "finish" /\ pc' \in {"write", "undefined"}
        /\ pc' = "write" => info' = ContractWords
    BY <1>6 DEF AppendKickstart
  <2> QED
    BY <1>1, <2>1 DEF HandedOver, ContractWords
<1>7. CASE WriteElf
  <2>1. /\ pc = "write" /\ pc' = "done" /\ info' = info
        /\ elf'.vaddr = U(Base + disp) /\ elf'.size = image.size
        /\ bp' = bp /\ disp' = disp /\ image' = image
    BY <1>7 DEF WriteElf, packVars, layoutVars
  <2> QED
    BY <1>1, <2>1 DEF HandedOver, Base
<1>8. CASE Ended
  BY <1>1, <1>8 DEF Ended, vars, HandedOver, Ends
<1> QED
  BY <1>2, <1>3, <1>4, <1>5, <1>6, <1>7, <1>8 DEF Build, Next

\* The invariant of the whole chain.
LEMMA ChainNext == ChainInv /\ [BootNext]_chainVars => ChainInv'
<1> SUFFICES ASSUME ChainInv, [BootNext]_chainVars PROVE ChainInv'
  OBVIOUS
<1>c. ContentInv /\ HandedOver /\ BoardSteps
  BY DEF ChainInv
<1>1. CASE Build
  <2>1. Next /\ UNCHANGED boardVars
    BY <1>1 DEF Build
  <2>2. ContentInv' /\ HandedOver'
    BY <1>1, <1>c, <2>1, ContentNext, HandedOverStep
  <2>3. BoardSteps'
    <3>1. CASE stage = "off"
      BY <1>c, <2>1, <3>1 DEF BoardSteps, boardVars
    <3>2. CASE stage # "off"
      <4>1. UNCHANGED vars
        BY <1>c, <2>1, <3>2, Quiet DEF BoardSteps
      <4> QED
        BY <1>c, <2>1, <4>1, SameTable DEF vars, boardVars, BoardSteps, MemoryContents, BssLast, SegmentsOf,
           Fits, WellFormed, TableThere, TableEntry
    <3> QED
      BY <3>1, <3>2
  <2> QED
    BY <2>2, <2>3 DEF ChainInv
<1>2. CASE LoadElf \/ EnterStub \/ DecodeWord \/ CheckLength \/ EnterKernel \/ UNCHANGED chainVars
  <2>1. UNCHANGED vars /\ packed' = packed
    BY <1>2 DEF LoadElf, EnterStub, DecodeWord, CheckLength, EnterKernel, chainVars
  <2>2. ContentInv'
    BY <1>c, <2>1, ContentNext
  <2>3. HandedOver'
    BY <1>c, <2>1 DEF vars, HandedOver
  <2>4. /\ (Fits' <=> Fits) /\ (BssLast' <=> BssLast) /\ pc' = pc
        /\ ScratchFits' <=> ScratchFits
    BY <2>1, SameTable DEF vars, Fits, WellFormed, BssLast, SegmentsOf
  <2>5. BoardSteps'
    <3>1. CASE LoadElf
      <4>1. /\ pc = "done" /\ Fits /\ DOMAIN mem' = 0 .. Space - 1
            /\ WordsAt(mem', kickBase, kick.size, kick)
            /\ IF disp = 0 THEN WordsAt(mem', bp.imageBase, payload.size, payload)
               ELSE PackedAt(mem', bp.imageBase + disp, info.srcLen)
        BY <3>1, LoadStep
      <4>2. stage = "off" /\ stage' = "loaded" /\ done' = done
        BY <3>1 DEF LoadElf
      <4>3. MemoryContents'
        BY <2>1, <4>1, <4>2 DEF vars, MemoryContents
      <4> QED
        BY <1>c, <2>4, <4>1, <4>2, <4>3 DEF BoardSteps
    <3>2. CASE EnterStub
      <4>1. stage = "loaded" /\ done' = done /\ DOMAIN mem' = DOMAIN mem
        BY <3>2 DEF EnterStub, With
      <4>2. stage' \in {"lost", "decoded", "decoding"}
        BY <3>2 DEF EnterStub
      <4> QED
        BY <1>c, <2>4, <3>2, <4>1, <4>2, EnterStep DEF BoardSteps
    <3>3. CASE DecodeWord
      <4>1. stage = "decoding" /\ stage' = stage /\ done' = done + 1
        BY <3>3 DEF DecodeWord
      <4>2. DOMAIN mem' = DOMAIN mem
        BY <3>3 DEF DecodeWord, With
      <4> QED
        BY <1>c, <2>4, <3>3, <4>1, <4>2, DecodeStep DEF BoardSteps
    <3>4. CASE CheckLength
      <4>1. stage = "decoding" /\ done' = done /\ mem' = mem
        BY <3>4 DEF CheckLength
      <4>2. stage' \in {"decoded", "stopped"}
        BY <3>4 DEF CheckLength
      <4> QED
        BY <1>c, <2>4, <3>4, <4>1, <4>2, CheckStep DEF BoardSteps
    <3>5. CASE EnterKernel
      <4>1. stage = "decoded" /\ done' = done /\ mem' = mem
        BY <3>5 DEF EnterKernel
      <4>2. stage' \in {"kernel", "lost"}
        BY <3>5 DEF EnterKernel
      <4> QED
        BY <1>c, <2>4, <3>5, <4>1, <4>2, KernelEntered DEF BoardSteps
    <3>6. CASE UNCHANGED chainVars
      <4>1. UNCHANGED boardVars
        BY <3>6 DEF chainVars
      <4> QED
        BY <1>c, <2>1, <2>4, <4>1, SameTable
        DEF boardVars, vars, BoardSteps, MemoryContents, TableThere, TableEntry
    <3> QED
      BY <1>2, <3>1, <3>2, <3>3, <3>4, <3>5, <3>6
  <2> QED
    BY <2>2, <2>3, <2>5 DEF ChainInv
<1> QED
  BY <1>1, <1>2 DEF BootNext

\* ChainInv holds in every reachable state of the chain.
LEMMA ChainAlways == BootSpec => []ChainInv
BY ChainInit, ChainNext, PTL DEF BootSpec

\* n words of a file are in the memory m at `at'.
FileAt(m, at, n, file) == \A k \in 0 .. n - 1 : m[at + k] = From(file, k)

\* They are if they are in the vector that was copied to base.
LEMMA FileFound ==
  ASSUME NEW m, NEW v, NEW base \in Int, WordsAt(m, base, v.size, v),
         NEW at \in Int, NEW x, x = at - base, NEW n, NEW file, Holds(v, x, n, file, 0)
  PROVE  FileAt(m, at, n, file)
<1> SUFFICES ASSUME NEW k \in 0 .. n - 1 PROVE m[at + k] = From(file, k)
  BY DEF FileAt
<1> DEFINE j == x + k
<1>1. j \in 0 .. v.size - 1 /\ v.cell[j] = From(file, 0 + k) /\ 0 + k = k
  BY DEF Holds
<1>2. base + j = at + k
  OBVIOUS
<1> HIDE DEF j
<1>3. m[base + j] = v.cell[j]
  BY <1>1 DEF WordsAt
<1> QED
  BY <1>1, <1>2, <1>3

\* What is in memory when the kernel is entered is what the builder was given.
LEMMA KernelFinds ==
  ASSUME ChainInv, BssLast, ScratchFits, stage = "kernel", Apart(bp.kernel)
  PROVE  /\ info.entry = U(bp.kernel.entry + delta) /\ delta % KernelAlign = 0
         /\ \A s \in SegmentsOf(bp.kernel) : \A k \in 0 .. s.memsz - 1 :
              mem[s.paddr + delta + k] = IF k < s.filesz THEN From("kernel", s.offset + k) ELSE Zero
         /\ \A k \in 0 .. placed.total - 1 : mem[info.dtb + k] = From("dtb", k)
         /\ bp.initramfs # None =>
              \A k \in 0 .. bp.initramfs - 1 : mem[placed.start + k] = From("initramfs", k)
<1>1. /\ ContentInv /\ Fits /\ pc = "done" /\ MemoryContents
  BY DEF ChainInv, BoardSteps
<1>2. ContentSteps /\ TypeOK /\ SafeSteps /\ WellFormed
  BY <1>1 DEF ContentInv, SafeInv, LayoutInv, TypeInv, Fits
<1>3. /\ delta \in Int /\ delta % KernelAlign = 0 /\ bp.kernel \in ElfFile
      /\ PayloadIn(payload, bp, delta, initrdBase, fdtBase, placed)
      /\ info.dtb = fdtBase /\ info.entry = U(bp.kernel.entry + delta)
      /\ bp.initramfs # None => placed.start = initrdBase
  BY <1>1, <1>2 DEF ContentSteps, KernelContents, PlacedContents, PackedContents, KickContents, Written
<1> DEFINE base == bp.imageBase
<1>4. /\ base \in Nat /\ initrdBase \in Int /\ fdtBase \in Int
  BY <1>1, <1>2, Addresses, Sizes
<1>5. \A j \in 0 .. payload.size - 1 : mem[base + j] = payload.cell[j]
  BY <1>1 DEF MemoryContents, WordsAt
<1>6. /\ KernelIn(payload, bp.kernel, delta, base)
      /\ InitrdIn(payload, bp.initramfs, initrdBase, base)
      /\ Holds(payload, fdtBase - base, placed.total, "dtb", 0)
  BY <1>3 DEF PayloadIn
<1> HIDE DEF base
<1>7. WordsAt(mem, base, payload.size, payload)
  BY <1>5 DEF WordsAt
<1>8. \A k \in 0 .. placed.total - 1 : mem[info.dtb + k] = From("dtb", k)
  <2> DEFINE n == placed.total
             x == fdtBase - base
  <2>1. Holds(payload, x, n, "dtb", 0) /\ x = fdtBase - base
    BY <1>6
  <2> HIDE DEF n, x
  <2>2. FileAt(mem, fdtBase, n, "dtb")
    BY <1>4, <1>7, <2>1, FileFound
  <2> QED
    BY <1>3, <2>2 DEF n, FileAt
<1>9. bp.initramfs # None =>
        \A k \in 0 .. bp.initramfs - 1 : mem[placed.start + k] = From("initramfs", k)
  <2> SUFFICES ASSUME bp.initramfs # None
               PROVE  \A k \in 0 .. bp.initramfs - 1 : mem[placed.start + k] = From("initramfs", k)
    OBVIOUS
  <2> DEFINE n == bp.initramfs
             x == initrdBase - base
  <2>1. Holds(payload, x, n, "initramfs", 0) /\ x = initrdBase - base
    BY <1>6 DEF InitrdIn
  <2> HIDE DEF n, x
  <2>2. FileAt(mem, initrdBase, n, "initramfs")
    BY <1>4, <1>7, <2>1, FileFound
  <2> QED
    BY <1>3, <2>2 DEF n, FileAt
<1>10. ASSUME NEW s \in SegmentsOf(bp.kernel), NEW k \in 0 .. s.memsz - 1
       PROVE  mem[s.paddr + delta + k] =
                IF k < s.filesz THEN From("kernel", s.offset + k) ELSE Zero
  <2>1. Sized(bp.kernel)
    BY <1>2, <1>3, GoodFiles
  <2>2. PICK i \in 1 .. Len(bp.kernel.segments) : s = bp.kernel.segments[i]
    BY <1>3, <2>1, Headers DEF SegmentsOf
  <2> DEFINE p == s.paddr
             z == s.filesz
             o == s.offset
             x == SegAt(bp.kernel, i, delta, base)
             word == IF k < z THEN From("kernel", o + k) ELSE Zero
  <2>3. x + k \in 0 .. payload.size - 1 /\ payload.cell[x + k] = word
    BY <1>6, <2>2 DEF KernelIn
  <2>4. x = p + delta - base /\ p \in Nat /\ delta \in Int /\ k \in Int
    <3>1. p \in Nat
      BY <1>3, <2>1, <2>2, Headers
    <3>2. x = p + delta - base
      BY <2>2 DEF SegAt
    <3> QED
      BY <1>3, <3>1, <3>2
  <2> HIDE DEF p, z, o, x, word
  <2>5. base + (x + k) = p + delta + k
    BY <1>4, <2>4
  <2>6. mem[p + delta + k] = word
    BY <1>5, <2>3, <2>5
  <2> QED
    BY <2>6 DEF p, word, z, o
<1> QED
  BY <1>3, <1>8, <1>9, <1>10

\* Every image that is built boots: from the layout of Image.cpp's build to the
\* branch into the kernel at the end of kickstart.S nothing that is still needed is
\* overwritten, by the stacks, the decoder's output or its state; the stub is not
\* stopped; and the kernel, the device tree and the initramfs are where they are
\* said to be.
THEOREM EveryImageBoots == BootSpec => []BootSound
<1>1. ChainInv => BootSound
  <2> SUFFICES ASSUME ChainInv, stage # "off", BssLast, ScratchFits
               PROVE  /\ stage \notin {"lost", "stopped"}
                      /\ stage = "kernel" /\ Apart(bp.kernel) =>
                           /\ info.entry = U(bp.kernel.entry + delta) /\ delta % KernelAlign = 0
                           /\ \A s \in SegmentsOf(bp.kernel) : \A k \in 0 .. s.memsz - 1 :
                                mem[s.paddr + delta + k] =
                                  IF k < s.filesz THEN From("kernel", s.offset + k) ELSE Zero
                           /\ \A k \in 0 .. placed.total - 1 : mem[info.dtb + k] = From("dtb", k)
                           /\ bp.initramfs # None =>
                                \A k \in 0 .. bp.initramfs - 1 :
                                  mem[placed.start + k] = From("initramfs", k)
    BY DEF BootSound
  <2>1. stage \notin {"lost", "stopped"}
    BY DEF ChainInv, BoardSteps, MemoryContents
  <2> QED
    BY <2>1, KernelFinds
<1> QED
  BY <1>1, ChainAlways, PTL

=============================================================================
