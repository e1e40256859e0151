# Verification of LinuxBootImageBuilder

TLA+ models, model checking and machine-checked proofs for the boot image
builder and its boot stub. Paths below are relative to `src/`.

The program has two halves that never run on the same machine. On the host,
`LinuxBootImageBuilder` reads a kernel, an initramfs, a device tree and the
stub, lays them out at the addresses they will have on an ARM board,
compresses them and writes one ELF file. On the board, `kickstart` turns the
caches on, decompresses the image, cleans the caches and jumps into the kernel.
The two agree on six words, `image_info`, and on the LZFSE format. Neither half
has tests, and most of what can go wrong shows only when both have run.

## 1. Inventory

| Component | Code | State | Operations | Hard behaviours |
|---|---|---|---|---|
| Image builder | `LinuxBootImageBuilder/Image.cpp`, `Image.h`, `Blueprint.h` | allocation pointer, growing vector `m_image`, `m_fdt`, `m_kernelDelta`, `m_kickstart`, displacement | `build` (device tree, kernel, initramfs, compression, stub, contract words), `loadExecutable`, `processImageRelocations`, `writeElf` | stages that depend on what earlier ones left; raw reads behind a resize; 32-bit addresses; failures at every stage |
| Command line | `LinuxBootImageBuilder/main.cpp` | the blueprint | options, one `build`, one write | the write is outside the try block |
| Boot stub | `kickstart/kickstart.S`, `zynq_init.S`, `decompress.c`, `kickstart.lds` | pc, lr, stack words, `image_info`; the mailbox of the other core | cache set-up, decompression, cleaning, hand-off; `ap_start` | stack words that live in a cache being turned on, off, invalidated and cleaned; two cores and an event register |
| Cache and MMU set-up | `kickstart/cache_init.S` | SCTLR, cache lines, translation table | `enable_all_caches`, `enable_MMU`, `enable_caches`, `clean_d_cache` | PUSH and POP on either side of a change of the C bit |
| LZFSE encoder | `lzfse/lzfse_encode.c`, `lzfse_encode_base.c` | history table, pending match, buffered literals and triples, offsets | match search, push, block emission, translation, finish | in-place changes rolled back; a match kept across positions, blocks and chunks; buffers that fill up |
| LZFSE decoder | `lzfse/lzfse_decode.c`, `lzfse_decode_base.c` | block state, current triple, destination | block state machine, L/M/D execution | overlapping and over-wide copies, suspension in the middle of a triple, an exactly fitting destination |
| FSE coder | `lzfse/lzfse_fse.[ch]`, `lzfse_internal.h`, `lzfse_encode_tables.h` | tables, bit accumulators | normalise, build tables, encode, decode, header fields, symbols of values | shares that must add up; tables that must be each other's inverse; stores and loads of a whole accumulator |
| libfdt read-write | `LinuxBootImageBuilder/libfdt/fdt_rw.c`, `fdt.c` | one blob: header, reserve map, structure, strings | `fdt_open_into`, `fdt_pack`, `fdt_setprop`, `fdt_appendprop`, `fdt_delprop`, `fdt_set_name`, `fdt_add_subnode`, `fdt_del_node`, `fdt_add_mem_rsv`, `fdt_del_mem_rsv` | splices in a fixed buffer; offsets that must follow; strings shared and left behind; sections moved within their own buffer |
| libfdt read-only | `libfdt/fdt_ro.c` | none | walks: subnode, path, property, node of a depth | damaged trees; NOPs; unit addresses |
| libfdt in place | `libfdt/fdt_wip.c` | none | `fdt_setprop_inplace`, `fdt_nop_property`, `fdt_nop_node` | what NOPs do to later walks |
| libfdt sequential write | `libfdt/fdt_sw.c`, `fdt_empty_tree.c` | one unfinished blob: header, reserve map, tags, strings growing down from the end of the buffer | `fdt_create`, `fdt_add_reservemap_entry`, `fdt_finish_reservemap`, `fdt_begin_node`, `fdt_property`, `fdt_end_node`, `fdt_finish`, `fdt_create_empty_tree` | negative name offsets corrected at the end; the string a failed property leaves behind; room compared as unsigned |
| Not used or not interesting | `fdt_strerror.c`, `kickstart/lz4*`, headers | | | messages, dead code, declarations |

How they interact: `main` builds a blueprint and calls `Image::build` once.
`build` calls `fdt_open_into`, `fdt_setprop_u32`/`fdt_delprop` on a copy of the
device tree and `lzfse_encode_buffer` on the finished vector; it relocates the
stub and fills its first six words. On the board the ELF loader copies the one
segment, `_start` reads the six words and calls `decompress_lzfse`, which calls
`lzfse_decode_buffer`. A second core that enters `_start` waits in `ap_start`
for an address the kernel stores. There are no threads on the host; concurrency
exists on the board only: two cores, and a cache that evicts lines when it
likes.

What makes each part correct:

- image builder: raw accesses stay inside vectors; what is compressed is the
  memory the kernel expects; properties in the placed device tree describe the
  initramfs of this build; source, destination and stub do not overlap while
  the stub decompresses; the six words tell the truth; every relocation is
  applied once;
- boot stub: the kernel finds the whole image in memory although it starts with
  its caches off; no return address is lost; the image is not decompressed
  twice; the boot ends; the other core is released, and only by the kernel;
- libfdt: an edit does to the tree what it says, or nothing; the header goes on
  describing the blob; the offset of a node a caller holds stays good;
- builder and stub together: every image that is built boots, and the kernel
  finds its segments, the device tree and the initramfs where it is told;
- libfdt sequential write: a call does to the unfinished tree what it says, or
  nothing; strings and structure never meet; the finished blob can be edited;
- encoder: the blocks decode to the source, at every moment; the pending match
  stays true; a failed block is undone; buffers never jam;
- decoder: whatever mixture of copies the room allows, the output is a prefix
  of what the stream means; nothing outside the destination is touched; a
  destination that fits exactly is accepted;
- FSE coder: every symbol that occurs keeps a share, the shares add up and survive
  the header; decoder tables invert encoder tables, for bits an accumulator
  holds; a block that does not fit is refused before it is overrun, of a damaged
  one nothing outside the source is read, but for one byte by a wide accumulator.

The hazards, each at its line and with the properties that would catch it, are
listed in `PROJECT.json`.

## 2. Modules

| Module | Models | Checked by |
|---|---|---|
| `ImageBuild` | `Image::build`, `loadExecutable`, `processImageRelocations`, `writeElf`, `main`'s error handling | `MCImageBuild` |
| `BootChain` | the built file, a boot loader, the stub and its decoder over one memory | `MCImageBuild` |
| `BootChain_proofs` | theorems about `ImageBuild` and `BootChain`: types, layout, what the inputs matter for, what is built boots | TLAPS |
| `Kickstart` | the stub on core 0, `ap_start` on another core, one level of data cache | `MCKickstart` |
| `Kickstart_proofs` | theorems about `Kickstart` | TLAPS |
| `DeviceTree` | what libfdt's editing calls promise: a tree without a representation | (through `FdtBlob`) |
| `FdtBlob` | `fdt_rw.c`, `fdt_wip.c`, and the walks of `fdt.c` and `fdt_ro.c` they use | `MCFdtBlob` |
| `TreeBuilder` | what the sequential-write calls promise | (through `FdtSequential`) |
| `FdtSequential` | `fdt_sw.c`, `fdt_empty_tree.c`, with the calls of `FdtBlob` on the result | `MCFdtSequential` |
| `Fdt_proofs` | theorems about `FdtBlob` and `FdtSequential` | TLAPS |
| `LzBlocks` | what a sequence of blocks means: the abstract counterpart of encoder and decoder | (both below) |
| `LzfseEncoder` | `lzfse_encode_buffer` down to the blocks | `MCLzfseEncoder` |
| `LzfseDecoder` | `lzfse_decode_buffer` from the blocks on | `MCLzfseDecoder` |
| `DataLemmas` | induction, recursive functions, division: what the proofs about data need | TLAPS |
| `LzBlocks_proofs` | what one triple, one block and a sequence of blocks add to the output | TLAPS |
| `LzfseDecoder_proofs` | theorems about `LzfseDecoder` | TLAPS |
| `LzfseEncoder_proofs` | theorems about `LzfseEncoder` | TLAPS |
| `FseTables` | `lzfse_fse.c`: normalisation and tables; one step of the coder | (both below) |
| `LzfseHeader` | the code of a frequency, the packed words of a V2 header | (both below) |
| `LzfseValues` | which symbol and extra bits an L, M or D value has | (below) |
| `FseCoding` | the life of one table, from a histogram to a decoded symbol | `MCFseCoding` |
| `FseCoding_proofs` | theorems about `FseTables`, `LzfseHeader`, `LzfseValues` and `FseCoding` | TLAPS |
| `LzfseBlock` | one compressed block as bytes: `lzfse_encode_matches`, header and bit streams of the decoder | `MCLzfseBlock` |

### ImageBuild

One action per stage of `build()`; `pc` names the stage, `next` the loop index.
A vector is a size and a function from offsets to cells; a cell says from which
file, and which place of it, its contents came, so "the bytes survive" can be
said without bytes. One cell stands for a word. Addresses wrap at `Space`
(2^32); `wrapped` remembers that one did. A raw access outside a vector and the
read of an empty `optional` end in `pc = "undefined"`. `Throw` is every short
read, rejected header or failed check; `WriteError` the error of `writeElf`,
which runs after `main`'s try block. `StoreImage` is also taken with
compression requested: the encoder returns 0 when its output does not fit.

`placed`, `payload` and `wrapped` are history variables. Properties are stated
for inputs that keep the promises of the ELF format (`WellFormed`) and layouts
that fit in 32 bits (`~wrapped`), because the code checks neither.

### BootChain

`BootChain` extends `ImageBuild` with the board. `Build` is any step of the
builder; `LoadElf` puts the file's one segment at its address, everything
else being `Junk`. From there the stub is what it does to memory: `EnterStub`
writes stacks and bss (`Bss`) and the MMU's translation table (`Table`, which
`cache_init.S:185-257` puts at the first aligned address behind `_end`), `DecodeWord` writes one word of output and
all of the decoder's state (`Scratch`, which `decompress.c:6` puts behind
`_end` without anybody reserving it), `CheckLength` compares the length,
`EnterKernel` turns the MMU off and jumps; a stub that no longer finds itself or
its table is lost. How much of the source the decoder has yet to read depends
on the data, so all of it counts as needed until the end: a destination that
reached into the source would give junk. Only images whose layout fits in the
address space are followed, and `BootSound` is claimed where the board has memory
for the table and the decoder's state (`ScratchFits`) and where the stub's bss is behind what
its segments load (`BssLast`), as `kickstart.lds:20` puts it: the builder takes
the end of the file's last segment for the end of the vector it loads, so that a
bss in the middle would be cleared over what a later segment loaded. One stub of
`image_build` is such a one, and `BootSound` says nothing of it. Caches and return addresses are
`Kickstart`'s, the decoder's inside is `LzfseDecoder`'s.

### Kickstart

Words are the two stack slots the calls push their return address to and the
words of the decompression's destination. `Slots` share a line. `mem`, `copy`
and `line` are memory, the cache's copies and line states; `Store` and `Load`
decide by the C bit, the line and the core. A return address is the label it
points to, so `Pop` sends control where the loaded word says. Everything in
`cache_init.S` that is not C, set/way maintenance, PUSH, POP or a call changes
nothing this model sees and is part of the step it belongs to. The cache and
the kernel's side of the release are marked external in the map.

Two facts about the hardware are constants: whether `_start` may be entered
with the cache on (`CacheAtEntry`) and whether an access with C = 0 finds lines
that are in the cache (`HitsWhenOff`; a Cortex-A9 does not look it up).

### DeviceTree, FdtBlob

`DeviceTree` is a list of nodes in document order, each with its depth, name
and properties, and a list of reserved ranges. A call either does what its name
says or refuses, for a reason that must be true of the tree (`NOTFOUND`,
`EXISTS`, `BADOFFSET`), and changes nothing.

`FdtBlob` is the bytes, at the grain of tags, strings and reserve entries:
`hdr` holds the header words, `tags` the structure section, `names` the
strings, `rsv` the reserve map. Offsets and lengths are computed from the bytes
a tag or a string takes (`TagLen`, `StringBytes`), so rounding, the size of the
buffer and the position of everything behind a splice are real. A caller picks a
call (`Ask`), the library executes it in one action; both are one thread, and
the offsets it passes are those of nodes and one where no node is. `Bad` is a
word that is no tag or a tag whose contents are cut off. What a walk returns for
each way it can end is `StopError` and `GetProperty`. Calls that start with
`FDT_CHECK_HEADER` (`Subnode`, `PathOffset`, `Path`, `Supernode`) refuse a blob of a
version they do not know, whatever is in it. `Overlap` says when a
`memmove` of `_fdt_packblocks` destroys a section that has yet to be moved.

`ImplementsTree` is the refinement: `AbstractNodes` reads the tree off the tags
(depth by counting, names of properties through the strings section, the first
of two properties of a name), `AbstractNode` turns the offset of the call into
the number of the node. A call that fails after it changed something, such as
`fdt_setprop`, which may leave a string behind, must map to no change of the
tree.

### TreeBuilder, FdtSequential

`FdtSequential` extends `FdtBlob`: the blob it writes has the same variables,
and the one `fdt_finish` leaves is edited with the same calls. While it is
unfinished (`magic = "sw"`), strings are counted from the end of the buffer and
grow down, so the offset of a name is negative until `fdt_finish` moves the
strings and corrects every tag. Room is compared in unsigned arithmetic, as in
the code. A failed `fdt_property` leaves its string behind; a later call must
find it. `fdt_create_empty_tree` is a script of the same calls that
ends in `fdt_open_into` on the same buffer. Callers are disciplined (`InOrder`):
they end the reserve map before the first node and close what they open, which
the code does not check (its own FIXME, `fdt_sw.c:62`).

`TreeBuilder` is what the calls promise: a tree that grows at its end, or a
refusal that changes nothing. `ImplementsBuilder` maps the unfinished blob to
it by reading tags and names through the negative offsets, the finished one as
`ImplementsTree` does.

### LzBlocks, LzfseEncoder, LzfseDecoder

`Decoded` executes the triples of the blocks on the bytes produced so far, by two
recursive functions, `Progress` over the triples of a block and `Stages` over the
blocks. It
is the meaning both sides are compared with: the encoder's blocks must decode
to its source (`RoundTrip`), the decoder's destination must hold a prefix of
what the stream means (`OutputIsPrefix`). A block here is padded literals and
triples, with a repeated distance stored as 0; its bytes are `LzfseBlock`'s.
Whether a block fits in the destination is a free choice of the encoder model,
whether its bit streams run out a free choice of the decoder model:
`LzfseBlock` shows what such a choice stands for.

The encoder's front end has one action per way a position can end
(`goto END_POS` or the end of the loop body), the back end is the functions
`Pushed`, `Taken`, `NotTaken`. Offsets are relative to `src`, which the
translation moves: `shift` says how far. The decoder has one action per block
kind and one per triple; `Fast` and `Slow` are the two branches at
`lzfse_decode_base.c:223`. `top` remembers how far wide copies wrote, and a read
outside of the destination gives the value `Outside`, so that straying is
visible. What may stand in a source is `StreamItem`; what follows the end of the
stream means nothing. `CallAgain` stands for a caller with more room: no code in `src/`
resumes a decoder, but the decoder keeps its state for it.

### FseTables, LzfseHeader, LzfseValues, FseCoding, LzfseBlock

The first three are operators: frequencies from a histogram (with the
fixed-point scaling and the correction of the largest share), encoder and decoder
tables, one step of encoding and decoding, the variable-length code of a
frequency, the packing of header fields, the symbol of an L, M or D value. With
one symbol for all states the code shifts by -1; what that yields is any member
of `Junk`. `FseCoding` takes one table through its life, one action per function:
count, normalise, store in the header, load and check, build both tables.

`LzfseBlock` puts them together for one block. The buffer `mem` is a
sequence of bytes of `ByteBits` bits; a flush stores the whole accumulator of 8 or
4 bytes and moves on by the full ones, an initialisation loads it backwards. Host
and board may differ in width (`FSE_IOSTREAM_64`), so both widths occur on both
sides. Encoding follows `lzfse_encode_matches`: header, literals in fours from
the last to the first, triples from the last to the first, each with its test for
room. A header field or a payload may then be damaged, and the decoder reads
what is there. The contents of the header are kept beside the buffer, where only
their size counts. The block is the only one of its source, which ends with the four
bytes of an empty block (`EndOfStream`). Only the first load of the triples is kept
out of the literals (`LmdBottom`); all flushes may go back to the beginning of the
source (`SrcBegin`), and with a damaged number of triples they do.

## 3. Runs

| Run | What it asks | Bounds |
|---|---|---|
| `image_build` | Does every build, failures included, keep the promises above, and does every image that is built boot? | 206 blueprints: two image bases, with and without compression, three good kernels (one segment, two, two listed downwards), two good stubs, two device trees, initramfs absent, empty or three words; each irregular file in an otherwise regular blueprint; bases that make the layout wrap at every stage |
| `kickstart` | Does a cold boot hand over a coherent image and end, on either kind of core? | two destination words, any eviction, both cores |
| `kickstart_stale_return` | Does the POP of `clean_d_cache` load what its PUSH stored? (no: finding 1) | the same |
| `fdt_edit` | Do edits refine the tree, in a buffer that fills up, and stay NOPs invisible? | eight blobs: ordinary, version 16, strings in front, one to be read as version 17, one that must not be read, three damaged; edits of properties and nodes, NOPs included; a call that adds tags is made on at most 5 |
| `fdt_layout` | Do reordering, packing and reserve entries keep blob and tree? | the same blobs, two sizes of buffer, up to 3 reserve entries |
| `fdt_boot_cpu` | Does `fdt_open_into` keep the boot CPU? (no: finding 3) | as `fdt_layout` |
| `fdt_sw` | Does writing front to back, failures included, build the tree that was asked for, in a blob that can be edited? | buffers of 36, 44, 96 and 124 bytes, at most 5 tags and 2 reserve entries; properties set and `fdt_open_into` afterwards |
| `lzfse_encoder` | Is the source preserved, through every translation, and everything undone that fails? | every binary source of 0, 1, 4 and 13 bytes; sources of 14 and 15 bytes in chunks of 5 |
| `lzfse_offsets` | Do offsets stay within 32 signed bits? (no: finding 2) | as `lzfse_encoder` |
| `lzfse_decoder` | Do wide and exact copies agree and stay inside? | every block of two triples with L <= 3, M in {0, 1, 5}, D <= 3; blocks behind blocks, raw, damaged and truncated ones; destinations of 0 to 14 bytes |
| `fse_tables` | Do shares add up and survive the header, do the tables invert each other, are L, M and D values found again? | 8 states with every histogram of 6 symbols over {0, 1, 2, 9}, 32 states with every histogram of 4 over {0, 1, 3, 4, 8, 13, 60}; every L and M symbol's and every D symbol's range of the real tables |
| `lzfse_block` | Does a block come back as it was, for any pair of widths, and do encoder and decoder stay inside their buffers when there is too little room or damage? | bytes of 2 bits, accumulators of 8 and 4 bytes on either side, room of 71 to 112 bytes, each header field and the payload damaged: as many as 12 triples or 40 literals more than there are, payloads that end in the end block |

Why the bounds are enough. *image_build*: pages of two words and alignment of
four make every rounding either exact or off by something; two segments are
what the loops' "first one fixes the delta" and "limit from the last" need. An
address space of 96 words holds every regular layout with a translation table of four
words, in a gap of seven behind the stub, and a decoder's state of two, and little
more; `_end` falls on every place between two aligned addresses.
*kickstart*: one line dirty and one evicted is every combination the clean can
meet; a third word behaves as one of the two. `passes` is capped at 3, one
above what `AtMostTwoPasses` allows. *fdt_edit*, *fdt_layout*: `Ops`
splits the calls over the runs, because each run already has tens of thousands
of states; `open_into` is in both, since an old or misordered blob is writable only
after it. `MaxTags`, `MaxEntries` and `MaxValue` bound what a caller asks for,
not what the library does. `Chars` is what names and values are made of
(`ArgumentsAssumption`); what every file is, well ordered or not, damaged or not, is
`IsFile` (`FilesAssumption`): its header gives the true lengths of its sections, and
its reserve map has an end, neither of which the code can check. A buffer of 108 bytes holds the ordinary blob and one
or two more tags, so that every splice meets a full buffer, and adding a
property fails between its string and its tag; 240 bytes are enough to assemble
a blob behind itself. *fdt_sw*: 36 and 44 bytes end inside the
header and before the first tag, 96 within the nodes, between a string and its
tag too, 124 behind `fdt_finish`. Values of 1, 2, 4 and 5 bytes lie on either side of a
word, one property name is the tail of the other, one node name fits the other
with a unit address. *lzfse_encoder*: the limits are scaled so
that 13 bytes split literals (`MaxL` 1) and matches (`MaxM` 2), reach
`MaxMatch`, fill the buffers twice, exceed the lag and leave the range of a
stored position (`Half` 9). Words of two bytes over two values make hash lines
collide and evict. The named assumption `BlockAssumption` says what the limits
must satisfy so that a match fits in empty buffers: the code's constants do with
room to spare, the small ones exactly. `LimitAssumption` has the other relations
the proofs need, all of them far from tight in the code: the lag exceeds one
triple's literals (2520 and 315), two chunks fit in a signed offset (2^19 and
2^31), an offset wraps into the negative values at most once (2^32 - 1).
Two translated chunks and a last one, which may be empty, come from chunks of 5
(`Huge` 14), with `MaxD` below the chunk size, as in the code. *lzfse_decoder*: strides of two bytes, so that
distances below, at and above a stride occur, with matches shorter and longer;
a margin of four separates the two branches within every destination above 4.
*fse_tables*: a share below one state, a single symbol for all states, sums above
and below the number of states and corrections larger than the largest share
all occur among the histograms; sizes are powers of two, as in the code.
*lzfse_block*: with two bits to a byte the accumulators are filled as nearly to
their limit as the code's are with eight (`WidthAssumption` is what
the code relies on), and rooms around the size of a block make every
test for room decide both ways.

Deadlock checking is off where the system stops: the kernel has been entered
or a breakpoint reached, the encoder or decoder has returned, a table or a block has been
through its life. `ImageBuild` has
an explicit `Ended` step; a caller of
`FdtBlob` or `FdtSequential` always finds another call.

Every action of every module, and every disjunct of every next-state relation,
is taken in some passing run. For each property there is a mutant of the
modelled code, in the module next to the definition it replaces, that breaks it
under the same configuration: a dropped guard, a rounding in the wrong
direction, a plain branch for a call.

### Fairness

Only `Kickstart` states fairness. `WF_vars(Boot)` and `WF_vars(Ap)`: a core
that is not waiting for an event executes its next instruction. `Boot` leaves
out `Decode`, the decoder's stores, but has `CheckLength`, its return, which is
enabled as long as the decoder runs: so the decoder ends some time, which is
what `lzfse_decode` does, since every iteration of its loops consumes source
bytes, a triple or the bytes of a run. Nothing is assumed of evictions, stray
events or of the kernel (`ApReleased` starts from the event being sent).

## 4. Findings

1. **`clean_d_cache` may return to the wrong place, once**
   (`kickstart/cache_init.S:498`). Its PUSH runs with C already 0. On a core
   that bypasses the cache then, the word goes to memory while the line of the
   same stack word may be dirty with `decompress_lzfse`'s frame; the clean
   writes that old frame over it, and the POP loads `decompress_lzfse`'s return
   address, label 1. The comment says "pop lr into pc". The second pass finds
   the line clean and goes on: `AtMostTwoPasses`, `Boots` and `CoherentHandoff`
   hold, which is why the boot works.
2. **The chunking limit is unsigned** (`lzfse/lzfse_encode.c:49`). Sources of
   2^31 to 2^32 - 2 bytes are not chunked, against the comments on
   `lzfse_offset` (`lzfse_internal.h:112`) and on the threshold itself. Blocks
   still decode to the source; matches are lost.
3. **An in-place `fdt_open_into` loses `boot_cpuid_phys`**
   (`libfdt/fdt_rw.c:475`). When sections have to be reordered within one
   buffer, which is how `Image.cpp:79` calls it, line 469 has replaced the header
   from which line 475 copies. The word becomes what was behind the blob, zero in
   the builder's vector. Harmless as long as the input tree boots on CPU 0 or has
   its sections in order.

Three things worth knowing are no findings. The boot proofs and runs assume that
`_start` is entered with the cache off (`ColdBoot`): a return address pushed
into a dirty line would not survive the invalidation of `cache_init.S:101`.
`fdt_add_subnode` refuses `c` beside `c@0`, because the lookup ignores unit
addresses when the wanted name has none; the refinement allows it that refusal.
The triples of a damaged block may be read from its literals and header, and a 64-bit
accumulator without room for a byte is loaded from one byte behind the payload, which
for a damaged size is behind the source (`lzfse_fse.h:416`); the bits are masked
off. The board's 32-bit one does not load then, and no comment says otherwise.

## 5. Proofs

The first half of `BootChain_proofs` proves, for every page size, alignment, address-space size,
`FdtSlack`, `InfoSize` and set of blueprints that satisfy the named assumptions
of `ImageBuild` (positive sizes, `None` being no value, blueprints being well
typed):

- `TypeCorrect == Spec => []TypeOK`. `TypeOK` alone is not inductive: the
  segment loop indexes `bp.kernel.segments`, which is a kernel only because
  `OpenKernel` refused everything else. `TypeInv` adds `FilesAccepted`: which
  input may be relied on at which stage. The vector operations have a lemma
  each (`GrowVector`, `FillVector`, `OverlayVector`, ...), the wrap-around
  arithmetic too (`URange`, `AlignUpBounds`, `DisplacementBounds`).
- `LayoutCorrect == Spec => []LayoutDisjoint`: source, destination and stub are
  disjoint. The property speaks of the finished image; `LayoutInv` follows the
  allocation pointer, `limit` and the size of the vector through every stage
  (`LayoutSteps`), as long as nothing has wrapped. Alignment is used only
  through "not below its argument", so it holds for any alignment; `WellFormed`
  is not needed for it.

It goes on from there, for well-formed ELF files and layouts
that fit in 32 bits:

- `AllDefined == Spec => []NoUndefined`: no raw copy and no relocation leaves its
  vector, and `delta` has a value when the contract words are written;
- `InitrdTold == Spec => []InitrdPropsHonest`;
- `MemoryReserved == Spec => []KickstartMemoryReserved`;
- `NothingOverwritten == Spec => PlacedStays`, the action property.

`SafeInv` adds to `LayoutInv` how far each loop has come: `KernelLoop`, that all
segments of the kernel have one delta; `KickLoop`, that the kickstart's vector
reaches as far as every segment loaded and that the memory set aside holds it
and the last segment's bss; `InitrdSteps`, that the two properties delimit the
initramfs below the tree, from the step that sets them to the placed tree.
`WellFormed` is what makes a relocation's offset lie in a loaded segment and a
segment have contents no longer than its memory; that nothing has wrapped is what
turns `U(n)` into `n` in the copies' bounds. `StillFits` carries both backwards
over a step: a layout that fits after it has fitted before it. `SafeInv` was
checked with TLC on the instance of `image_build` before it was proved. For
`NothingOverwritten` each vector operation has a lemma saying what it keeps.

`Kickstart_proofs` proves, for a boot from cold reset (`ColdBoot`: the cache is
off when `_start` is entered), any set of destination words and either kind of
core:

- `TypeCorrect`, `ReturnsHold`, `TwoPassesAtMost` and `HandoffCoherent`, the
  invariants `TypeOK`, `Returns`, `AtMostTwoPasses` and `CoherentHandoff`;
- `OneDecompression == ColdBoot => (Spec => DecompressedOnce)`, the action
  property.

All these rest on one inductive invariant, `BootInv`. `Current(w)` is where a word's
value is: in its line while that is dirty, else in memory. `Coherent` says that a
clean line agrees with memory, but only while accesses look the cache up: the
PUSH of `clean_d_cache` breaks it on a core that does not. `CacheSteps` and
`PassSteps` say how C, the lines and the count of passes go with core 0's
place, `DataSteps` that what the decoder wrote is current. `StackSteps` is the
point: with C off and no look-up, the word `clean_d_cache` returns through is
either its own, with `decompress_lzfse`'s in a dirty line that may yet overwrite
it, or already overwritten, with no dirty line left and this the first pass. The
lemmas `LoadKeeps`, `StoreChanges` and `WriteBackKeeps` say what one access does
to every word; `PushSteps`, `PopSteps` and their neighbours take the actions one
by one. `BootInv` was checked with TLC on the instance of `kickstart` before it
was proved.

`JumpsToAddress == Spec => []ApJumpsToAddress` is about the other core and needs
no `ColdBoot`: `ApInv` says that a mailbox or register of 1 was stored by the
kernel, whatever events have woken the core.

`RelocatedExactly == Spec => []RelocatedOnce`, in `BootChain_proofs`, too, needs
only `TypeOK` and `RelocSteps`: after n relocation sections every word has been
added to as often as the absolute entries of those sections that are in memory
name it. The references of one section are disjoint from those of another, so
that the sum of what the sections do is the size of their union.

Its second half proves `EveryImageBoots == BootSpec => []BootSound`: for every
page size, alignment, address space, set of blueprints and size of translation table
and decoder's state, what is built from well-formed files boots. Where everything is, `SafeInv`
says; what is there is `ContentInv`: the kernel's segments (`KernelContents`), the
initramfs and the tree (`PlacedContents`), all of it or its compressed form once
the stub is appended (`PackedContents`), and the stub with its six words
(`KickContents`). One vector `Extends` another, or `Carries` it, is all a stage has
to say. `ChainInv` goes on to the board: `MemoryContents` says which words of the
memory are still as loaded at each stage, so that the decoder never writes over
what it has yet to read or over the stub, and nothing the stub clears or uses as
a stack is either. `TableThere` is a part of it: the table lies in the gap between
`_end` and the decoder's state (`TableInGap`, `TableInMemory`), because the gap holds
twice the table less a byte (`ScratchAssumption`) and, by `ScratchFits`, ends in the
address space. An attempt without `BssLast` failed for the reason given above, and TLC
found the image that does not boot.

`Fdt_proofs` proves, for every set of files that satisfy `IsFile`, every set of
names, values, reserve entries and buffer sizes, and without any bound on the number of
calls (`MaxTags` and its like only make the set of calls smaller):

- `LayoutAlways == Spec => []LayoutSound` and `WritableForever == Spec =>
  StaysWritable`, from `BlobAlways == Spec => []BlobInv`. `BlobInv` says of a blob that
  FDT_RW_CHECK_HEADER lets pass that it is a `WritableBlob`: four sections in order, the
  header words equal to the sums of the lengths of what is in them, a reserve map with
  an end. Of any other it says that it is as its file was (`FileBlob`), since
  `fdt_open_into` is where such a blob becomes a writable one, and edits in place are
  all that may come before;
- `OffsetsStay == Spec => OffsetStays`, the action property; it needs no more than
  that a property is found behind its node, and holds in damaged blobs, too;
- `NoStringEver == Spec /\ NoStringTwice => []NoStringTwice`: a blob whose strings
  section has no tail of an earlier string, which is how `dtc` writes one, never gets
  one;
- `SectionsAlways`, from `NamesFit`: `SwSpec => []SectionsSound`. `SwInv` says of the
  unfinished blob that it is `Growing`, of the finished one that it is a
  `WritableBlob`, and of the script of `fdt_create_empty_tree` what each of its calls
  finds. `NamesFit`, that names have fewer than 64 bytes, is needed: room for a string is
  compared as `totalsize + offset < struct_top` with an `int` made unsigned
  (`fdt_sw.c:183`), which a name longer than the rest of the buffer passes. Names in
  device trees have at most 31 bytes; 64 are in front of the first node.

The argument is one about sums. `Before(lens)` is how many bytes are in front of each
part of a section; `SumSpliced` says what happens to it when a stretch of parts
is replaced by another, and each `_fdt_splice` is an instance (`SizeInserted`, `SizeCut`,
`SizeReplaced`, ...). What a call adds to the header is compared with that:
lengths that were rounded separately, of a node cut out from its first tag to its
last, of words made NOPs (`SizeOfNops`). `SpliceError` leaves room for it. Walks
matter for where they end: `NodeEndIs` and `PropertyIs` say that no END lies in
between. `fdt_pack` and `fdt_open_into` copy whole sections, and
`PackKeeps` and `OpenFileKeeps` show that `Overlap` never destroys one in the cases that
are not refused. `BlobInv` and `SwInv` were checked with TLC on the instances of
`fdt_edit`, `fdt_layout` and `fdt_sw` before they were proved.

`DataLemmas` has what the proofs about data need: induction over the natural
numbers, stated for a set (`NatInductionSet`) because no prover here can
instantiate the library's theorems, whose parameter is an operator;
`RecursiveFunction`, that a recursive definition over `0 .. n` is one; division
and remainder. `LzBlocks_proofs` says what `Executed`, `Progress` and `Stages` do:
output only grows (`StagesExtend`), a sound triple adds its literals and its match
(`ExecutedSound`), a stream ends with its last stage (`StagesEnd`).

`LzfseDecoder_proofs` proves, for every byte set, stride, margin, size of block
and set of sources that satisfy `WidthAssumption` and `InputsAssumption` (items
are what `StreamItem` says: an uncompressed block has no more bytes than its
header claims, a magic number no contents), and whether the stream is damaged or
not:

- `DecoderSafe == Spec => []SafeInv` and from it `DecoderConfined`, the invariant
  `Confined`: no copy leaves the destination. The point is a triple that was
  interrupted: its distance and its literals have been checked against a `dst`
  and a `lit` that have moved since;
- `DecoderFunctional == Spec => []FuncInv` and from it `DecoderOutput`, the invariant
  `OutputIsPrefix`, and `DecoderStatus`, the invariant `StatusHonest`. `FuncInv` relates
  the decoder to the meaning of the stream: `SourceInv` counts the items taken and
  the triples done; `PositionInv` says that `dst` is where the meaning of what was
  taken ends, less what is held of an interrupted triple (`Placed`), so that
  an interruption anywhere, and any number of them, changes nothing; `EndInv`
  that a full destination is one that was too small. That a wide copy does what
  an exact one does, for every distance and length the code allows it for, is a
  lemma about remainders.

`LzfseEncoder_proofs` proves, for every set of sources and byte values, hash
function, history width and limits that satisfy `WordAssumption`,
`HashAssumption`, `LimitAssumption` and `BlockAssumption`, and wherever the
destination is full:

- `EncoderInvariant == Spec => []Inv`, and from it the five invariants of
  `lzfse_encoder` as `EncoderRoundTrip`, `EncoderHistory`, `EncoderPending`,
  `EncoderBlocks` and `EncoderNeverStuck`;
- `EncoderRollback == Spec => RollbackExact`, the action property.

`Inv` has one part per question. `ChunkInv` keeps every offset in its chunk and
the chunks consecutive. `HistoryInv` says of every entry of the history that it
is the invalid one, or holds the word it says it holds and is older than those in
front of it, or has wrapped to a negative value: unlike `HistoryHonest` it says
something of sources that are not cut into chunks, too (finding 2), and that
is enough for a candidate, which must not lie too far back, to be a true one.
`PendingInv` says that the match kept back is `Honest`. `LagInv` bounds the
literals not yet in a triple by `MaxLag + 1`, or one more while a match is kept
back, since that one will take at least `Word` bytes; the search could not
promise `NeverStuck` without it. `BackInv` is the round trip: the blocks stored decode
to the source up to some place, and the triples held (`Tells`) lead from there to
`src_literal`, each by its literals and a match that repeats the source
(`OneStep`). A long match is split into parts that each lead on (`PartsAre`,
`PartsTold`); distances replaced by 0 are read back as they were
(`StoredTriples`, `BlockStored`) and put back as they were (`RolledSame`). `Inv`
says nothing of a full destination beyond that, so the theorems hold whichever
block does not fit. All parts were checked with TLC on the instance of
`lzfse_encoder` before they were proved. `Pushes`, the buffer after each part of a
match, is a recursive function so that it can be reasoned about.

The decoder's and the encoder's theorems meet in `LzBlocks`: a finished stream
decodes to its source (`EncoderRoundTrip`), and what the decoder writes is a prefix
of what its stream decodes to, all of it when it reports success (`DecoderOutput`,
`DecoderStatus`).

`FseCoding_proofs` proves, for every set of histograms of at least four symbols over a
power of two of states between 8 and 1024 and no fewer than there are symbols
(`HistogramsAssumption`; the code has 20 symbols with 64 states, 64 with 256 and 256
with 1024), every precision of the fixed-point step above that power and every set of
L, M and D values within their limits (`ProbesAssumption`):

- `CodingAlways == Spec => []CodingInv`, where `CodingInv` says where each piece of
  state comes from: the frequencies from the histogram, the header from the
  frequencies unless it is damaged, what was read from the header, each side's table
  from its own frequencies;
- `FrequenciesAlways`, `SurvivesAlways` and `InverseAlways`, the invariants
  `FrequenciesSound`, `TableSurvives` and `CodingInverse`.

Each of the three rests on facts about the operators. `NormalizedSound`: what rounding
left over goes to the largest share, which also pays for a small overrun, less than a
quarter of it; a larger overrun is what `fse_adjust_freqs` collects. That it collects all
follows from its last pass, whose shift is 0: had something remained, every frequency would
have given up all but one state (`PassFair`), and the symbols, no more than there are
states, would be left with one each (`SmallSum`). `TableReadBack`: no code is the start of
another (`PrefixFree`), so that the decoder, which sees the next 14 bits as far as they
are loaded (`SeesCode`), 0 behind them, stays at the boundaries of the encoder's codes
(`Follows`, `ReadsOn`); `ShorterRefused` because a byte
less cannot hold all codes, `LongerRefused` because a byte more leaves eight bits or
more over. A table without its last byte would be no table at all if it had only one;
four symbols with eight states need more (`TableLength`). `TablesInverse`: with
`Low(f)` the power of two below a frequency, the number of states is `Low(f)` times
`Wide(N, f)`, which places every state in the range of one entry of a symbol
(`CodedBack`), and the decoder's entries fill its table in the order the encoder
counted them (`DecoderTableIs`, `StateHasSymbol`). `ValueIs`: the tables of L, M and D
are literal, and so is the comparison of look-up and base, symbol by symbol; D values
fall into four ranges of one formula each. `CodingInv` was checked with TLC on the
instance of `fse_tables` before it was proved. Powers of two are a recursive function
(`Pow2`), because the provers know nothing of `^`.

The assumptions are evaluated by TLC in `image_build`, `kickstart`, the `fdt_` runs,
`lzfse_encoder`, `lzfse_decoder` and `fse_tables`.

Only model-checked: that `FdtBlob` and `FdtSequential` implement `DeviceTree` and
`TreeBuilder`, and `PathFindsNode` (the tree is read off the tags by counting depth, so
that every splice has to be followed through a recursion over all tags, NOPs and damaged
ones among them); of `LzfseBlock` the invariants `StreamsRoundTrip`, `WritesConfined` and
`ReadsConfined` (a flush or a load is arithmetic on whole accumulators, the position of every
symbol in a stream a sum over those behind it). Liveness under fairness (`Boots`, `ApReleased`) is outside the
prover's reach.

## 6. Not modelled

- a block with an uncompressed header (`bvx1`): no encoder here writes one, and
  only the copy of its header differs;
- aliases, phandles, compatible searches and the size of `fdt_get_path`'s
  buffer: queries nothing here uses;
- blobs with the wrong magic number, sequential-write calls out of order, editing
  calls on unfinished blobs, names longer than the buffer, and version 16 blobs
  whose structure has no end: the walk leaves the section then;
- option parsing, messages and the ELF header's constant fields;
- what the translation table's entries say (its memory is modelled), branch prediction, the instruction cache, SCU
  and GIC registers: no property depends on them;
- `writeSymbolSection`: called from nowhere; the LZ4 decoder: in no target;
  `fdt_strerror.c`: a table of messages.

## 7. Plan

Done, in this order: `ImageBuild` and its first two theorems, `Kickstart` and
the first five about it, `LzfseEncoder`, `LzfseDecoder` with `LzBlocks` between them,
`FdtBlob` with `DeviceTree` above it, `FseTables`, `LzfseHeader`, `LzfseValues`
and `FseCoding`, `LzfseBlock`, `FdtSequential` with `TreeBuilder` above it,
`BootChain`, then the theorems about the builder on well-formed inputs and the one about
the other core, the theorems about the decoder, the relocations, `BootChain` and the
encoder, those about `FdtBlob` and `FdtSequential`, and those about the entropy coder's
tables.

Next modules:

1. `LzStream`, an abstract machine that appends triple by triple, which
   `LzfseDecoder` implements under a refinement mapping.
2. The queries of `fdt_ro.c` that are left: aliases, phandles, compatible strings.

Next theorems: `LzfseBlock` (`WritesConfined`, `ReadsConfined`), the step simulation
of `LzStream`, and `PathFindsNode`.
