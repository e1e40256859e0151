---------------------------- MODULE MCImageBuild ----------------------------
(***************************************************************************)
(* Small blueprints for BootChain: pages of 2 words, kernels aligned to 4 *)
(* words, an address space of 96 words that the largest inputs overflow.   *)
(* Every good blueprint is a combination of the good files; each irregular *)
(* file, and each missing option, appears in an otherwise regular one.     *)
(***************************************************************************)
EXTENDS BootChain

Seg(p, m, f, o) == [paddr |-> p, memsz |-> m, filesz |-> f, offset |-> o]

Kernel(segments) == [valid |-> TRUE, entry |-> 9, segments |-> segments, relocs |-> <<>>]

GoodKernels ==
  {Kernel(<<Seg(9, 3, 2, 1)>>),
   Kernel(<<Seg(13, 2, 2, 1), Seg(18, 3, 1, 4)>>),
   Kernel(<<Seg(7, 1, 1, 1), Seg(4, 2, 2, 3)>>)}

OddKernels ==
  {Kernel(<<>>),                           \* nothing to load
   Kernel(<<Seg(9, 2, 2, 1), Seg(2, 1, 1, 3)>>),\* a segment below the first
   Kernel(<<Seg(9, 1, 3, 1)>>),                 \* p_filesz > p_memsz
   [Kernel(<<Seg(9, 1, 1, 1)>>) EXCEPT !.valid = FALSE],
   None}

Rel(allocated, sized, entries) == [alloc |-> allocated, sized |-> sized, entries |-> entries]
Ref(kind, offset) == [kind |-> kind, offset |-> offset]

Kick(segments, relocs) ==
  [valid |-> TRUE, entry |-> 1, segments |-> segments, relocs |-> relocs]

GoodKickstarts ==
  {Kick(<<Seg(0, 4, 3, 1)>>,
        <<Rel(TRUE, TRUE, <<Ref("abs", 1), Ref("pcrel", 2)>>),
          Rel(FALSE, TRUE, <<Ref("abs", 2)>>)>>),
   Kick(<<Seg(0, 2, 2, 1), Seg(2, 3, 1, 3)>>,
        <<Rel(TRUE, TRUE, <<Ref("abs", 1)>>), Rel(TRUE, TRUE, <<Ref("abs", 2)>>)>>)}

OddKickstarts ==
  {Kick(<<Seg(2, 3, 1, 1), Seg(0, 2, 2, 2)>>, <<>>),      \* highest one first
   Kick(<<Seg(0, 2, 1, 1), Seg(2, 3, 1, 3)>>, <<>>),      \* .bss in the middle
   Kick(<<Seg(0, 2, 0, 0)>>, <<>>),                       \* no room for image_info
   Kick(<<Seg(0, 2, 2, 0)>>, <<Rel(TRUE, TRUE, <<Ref("abs", 2)>>)>>),
   Kick(<<Seg(0, 2, 2, 0)>>,
        <<Rel(TRUE, TRUE, <<Ref("abs", 1), Ref("other", 1), Ref("abs", 5)>>)>>),
   Kick(<<Seg(0, 2, 2, 0)>>, <<Rel(TRUE, FALSE, <<>>)>>),
   None}

Dtb(size, chosen, start, end) ==
  [size |-> size, valid |-> TRUE, chosen |-> chosen, start |-> start, end |-> end]

GoodDtbs == {Dtb(1, "sound", None, None), Dtb(2, "sound", 70, 75)}

OddDtbs == {Dtb(1, "corrupt", 70, 75), Dtb(1, "corrupt", None, 75),
            Dtb(1, "absent", None, None),
            [Dtb(1, "sound", None, None) EXCEPT !.valid = FALSE], None}

Bp(base, compress, dtb, kernel, initramfs, kickstart) ==
  [imageBase |-> base, compress |-> compress, dtb |-> dtb, kernel |-> kernel,
   initramfs |-> initramfs, kickstart |-> kickstart]

OneOf(S) == CHOOSE x \in S : TRUE

MCBlueprints ==
  {Bp(b, c, d, k, i, x) : b \in {2, 5}, c \in BOOLEAN, d \in GoodDtbs,
     k \in GoodKernels, i \in {None, 0, 3}, x \in GoodKickstarts}
  \cup
  {Bp(2, TRUE, OneOf(GoodDtbs), k, i, OneOf(GoodKickstarts)) :
     k \in OddKernels, i \in {None, 3}}
  \cup
  {Bp(2, c, d, OneOf(GoodKernels), i, OneOf(GoodKickstarts)) :
     c \in BOOLEAN, d \in OddDtbs, i \in {None, 3}}
  \cup
  {Bp(2, c, OneOf(GoodDtbs), OneOf(GoodKernels), 1, x) : c \in BOOLEAN, x \in OddKickstarts}
  \cup  \* layouts that reach the end of the address space at every stage
  {Bp(b, TRUE, OneOf(GoodDtbs), k, 3, OneOf(GoodKickstarts)) :
     b \in {64, 75, 80, 84, 88, 94}, k \in GoodKernels}
=============================================================================
