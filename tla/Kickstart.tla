------------------------------ MODULE Kickstart ------------------------------
(***************************************************************************)
(* The boot stub of kickstart/: core 0 runs kickstart.S, zynq_init.S,      *)
(* cache_init.S and decompress.c up to the jump into the kernel; another   *)
(* core that enters _start waits in ap_start until the kernel releases it. *)
(*                                                                         *)
(* Memory is seen through one level of data cache: a word is read and      *)
(* written in the cache or in memory depending on the C bit of SCTLR and   *)
(* on the state of its line.  The words are the return addresses the calls *)
(* push and the words of the decompression's destination; a return address *)
(* is the label it points to.                                              *)
(*                                                                         *)
(* Three facts about the hardware are parameters.  CacheAtEntry: whether   *)
(* _start may be entered with the data cache on.  HitsWhenOff: whether an  *)
(* access made while C is 0 still finds lines that are in the cache.  A    *)
(* write that misses may allocate its line or go to memory, a line may be  *)
(* evicted at any moment while the cache is on.                            *)
(***************************************************************************)
EXTENDS Integers, FiniteSets

CONSTANTS
  Dst,           \* the words of the destination, each in a line of its own
  CacheAtEntry,  \* values the C bit may have when _start is entered
  HitsWhenOff    \* does an access with C = 0 look the cache up?

\* The two words at the top of the SVC stack.  enable_all_caches,
\* decompress_lzfse and clean_d_cache are called with the same sp and push lr
\* to the same word; enable_MMU, called from the first, pushes lr below it.
Slots == {"top", "below"}

ASSUME DstAssumption == Dst \cap Slots = {}

ASSUME HardwareAssumption == CacheAtEntry \subseteq BOOLEAN /\ HitsWhenOff \subseteq BOOLEAN

Words == Slots \cup Dst

\* Both slots share a cache line.
LineOf(w) == IF w \in Slots THEN "top" ELSE w

Lines == {LineOf(w) : w \in Words}

VARIABLES
  pc,        \* core 0's place in the program
  cbit,      \* SCTLR.C
  hits,      \* an access with C = 0 looks the cache up
  mem,       \* memory
  copy,      \* the cache's copy of each word
  line,      \* the state of each line
  packed,    \* image_info[2] # image_info[3]: the image is compressed
  written,   \* destination words the decoder has stored
  cleaned,   \* lines the set/way loop of clean_d_cache has passed
  passes,    \* history: how often label 1 was reached
  ap,        \* the other core's place in ap_start
  apReg,     \* its r1
  event,     \* its event register
  mailbox,   \* the word at 0xfffffff0
  kernel     \* how far the kernel is with releasing the other core

cacheVars == <<mem, copy, line>>
bootVars == <<pc, cbit, hits, packed, written, cleaned, passes>>
apVars == <<ap, apReg, event, mailbox, kernel>>
vars == <<bootVars, cacheVars, apVars>>

Labels == {"info", "body", "label1", "handoff"}

Places == Labels \cup {"enable_all_caches", "enable_MMU", "disable", "invalidate",
  "popMMU", "popAll", "decompress", "decode", "popDecompress", "clean_d_cache",
  "clean", "popClean", "kernel", "bkpt", "lost"}

Values == Labels \cup {"junk", "data"}

Init ==
  /\ pc = "enable_all_caches"
  /\ cbit \in CacheAtEntry
  /\ hits \in HitsWhenOff
  /\ mem = [w \in Words |-> "junk"]
  /\ copy = [w \in Words |-> "junk"]
  /\ line = [l \in Lines |-> "invalid"]
  /\ packed \in BOOLEAN
  /\ written = {} /\ cleaned = {} /\ passes = 0
  /\ ap = "gic" /\ apReg = 0 /\ event = FALSE /\ mailbox = 0 /\ kernel = "loaded"

-----------------------------------------------------------------------------
(***************************************************************************)
(* The data cache (external: the Cortex-A9's).                             *)
(***************************************************************************)
Cached(w) == line[LineOf(w)] # "invalid" /\ (cbit \/ hits)

\* What a load of w returns.
Seen(w) == IF Cached(w) THEN copy[w] ELSE mem[w]

Fetched(l) == [w \in Words |-> IF LineOf(w) = l THEN mem[w] ELSE copy[w]]

\* A load that misses may bring its line in.
Load(w) ==
  /\ mem' = mem
  /\ \/ copy' = copy /\ line' = line
     \/ /\ cbit /\ line[LineOf(w)] = "invalid"
        /\ copy' = Fetched(LineOf(w))
        /\ line' = [line EXCEPT ![LineOf(w)] = "clean"]

With(contents, v) == [w \in Words |-> IF w \in DOMAIN v THEN v[w] ELSE contents[w]]

\* A store of v, a function on some words of line l.
Store(l, v) ==
  \/ /\ line[l] # "invalid" /\ (cbit \/ hits)
     /\ copy' = With(copy, v)
     /\ line' = [line EXCEPT ![l] = "dirty"]
     /\ mem' = mem
  \/ /\ line[l] = "invalid" \/ ~(cbit \/ hits)
     /\ mem' = With(mem, v)
     /\ UNCHANGED <<copy, line>>
  \/ /\ line[l] = "invalid" /\ cbit
     /\ copy' = With(Fetched(l), v)
     /\ line' = [line EXCEPT ![l] = "dirty"]
     /\ mem' = mem

WrittenBack(l) ==
  IF line[l] = "dirty"
  THEN [w \in Words |-> IF LineOf(w) = l THEN copy[w] ELSE mem[w]]
  ELSE mem

\* A line makes room for another one.
Evict ==
  /\ cbit
  /\ \E l \in Lines : /\ line[l] # "invalid"
                      /\ mem' = WrittenBack(l)
                      /\ line' = [line EXCEPT ![l] = "invalid"]
  /\ UNCHANGED <<copy, bootVars, apVars>>

-----------------------------------------------------------------------------
(***************************************************************************)
(* Core 0.                                                                 *)
(***************************************************************************)
\* Mutant: a plain b leaves lr as decompress_lzfse's return left it.
Lr_CleanNotLinked ==
  [enable_all_caches |-> "info", enable_MMU |-> "body",
   decompress_lzfse |-> "label1", clean_d_cache |-> "label1"]

\* Mutant: a plain b leaves lr at the instruction behind the call of zynq_init.
Lr_DecompressNotLinked ==
  [enable_all_caches |-> "info", enable_MMU |-> "body",
   decompress_lzfse |-> "info", clean_d_cache |-> "handoff"]

\* The return address a call leaves in lr.
Lr == [enable_all_caches |-> "info", enable_MMU |-> "body",
       decompress_lzfse |-> "label1", clean_d_cache |-> "handoff"]

\* What a function's PUSH stores: lr, being the highest register, goes to the
\* word under sp and the other registers (junk here) below it.
Frame(f) ==
  CASE f = "enable_all_caches" -> [top |-> Lr[f]]
    [] f = "enable_MMU" -> [below |-> Lr[f]]
    [] OTHER -> [top |-> Lr[f], below |-> "junk"]

Push(f) == Store("top", Frame(f))

\* Mutant: the register list of clean_d_cache's POP is one short.
ReturnSlot_ShortList(f) == IF f \in {"enable_MMU", "clean_d_cache"} THEN "below" ELSE "top"

\* The word a function's POP loads into pc.
ReturnSlot(f) == IF f = "enable_MMU" THEN "below" ELSE "top"

Pop(f) ==
  LET ret == Seen(ReturnSlot(f))
  IN  /\ pc' = IF ret \in Labels THEN ret ELSE "lost"
      /\ Load(ReturnSlot(f))

\* blx zynq_init, which ends in b enable_all_caches: lr is still _start's.
EnterEnableAll ==
  /\ pc = "enable_all_caches"
  /\ Push("enable_all_caches")
  /\ pc' = "enable_MMU"
  /\ UNCHANGED <<cbit, hits, packed, written, cleaned, passes, apVars>>

EnterEnableMMU ==
  /\ pc = "enable_MMU"
  /\ Push("enable_MMU")
  /\ pc' = "disable"
  /\ UNCHANGED <<cbit, hits, packed, written, cleaned, passes, apVars>>

DisableForInit ==
  /\ pc = "disable"
  /\ cbit' = FALSE
  /\ pc' = "invalidate"
  /\ UNCHANGED <<hits, packed, written, cleaned, passes, cacheVars, apVars>>

\* Invalidate by set/way: nothing is written back.
Invalidate ==
  /\ pc = "invalidate"
  /\ line' = [l \in Lines |-> "invalid"]
  /\ pc' = "popMMU"
  /\ UNCHANGED <<cbit, hits, packed, written, cleaned, passes, mem, copy, apVars>>

LeaveEnableMMU ==
  /\ pc = "popMMU"
  /\ Pop("enable_MMU")
  /\ UNCHANGED <<cbit, hits, packed, written, cleaned, passes, apVars>>

\* The other calls of enable_all_caches touch control registers only.
EnableCaches ==
  /\ pc = "body"
  /\ cbit' = TRUE
  /\ pc' = "popAll"
  /\ UNCHANGED <<hits, packed, written, cleaned, passes, cacheVars, apVars>>

LeaveEnableAll ==
  /\ pc = "popAll"
  /\ Pop("enable_all_caches")
  /\ UNCHANGED <<cbit, hits, packed, written, cleaned, passes, apVars>>

CompareBases ==
  /\ pc = "info"
  /\ pc' = IF packed THEN "decompress" ELSE "label1"
  /\ UNCHANGED <<cbit, hits, packed, written, cleaned, passes, cacheVars, apVars>>

EnterDecompress ==
  /\ pc = "decompress"
  /\ Push("decompress_lzfse")
  /\ pc' = "decode"
  /\ UNCHANGED <<cbit, hits, packed, written, cleaned, passes, apVars>>

\* The decoder stores its output, front to back or over again.
Decode ==
  /\ pc = "decode"
  /\ \E w \in Dst : Store(w, [x \in {w} |-> "data"]) /\ written' = written \cup {w}
  /\ UNCHANGED <<pc, cbit, hits, packed, cleaned, passes, apVars>>

\* lzfse_decode_buffer returns; a length other than destlen is a breakpoint.
CheckLength ==
  /\ pc = "decode"
  /\ pc' = IF written = Dst THEN "popDecompress" ELSE "bkpt"
  /\ UNCHANGED <<cbit, hits, packed, written, cleaned, passes, cacheVars, apVars>>

LeaveDecompress ==
  /\ pc = "popDecompress"
  /\ Pop("decompress_lzfse")
  /\ UNCHANGED <<cbit, hits, packed, written, cleaned, passes, apVars>>

CAfterLabel1_Kept(c) == c

CAfterLabel1(c) == FALSE

DisableForKernel ==
  /\ pc = "label1"
  /\ cbit' = CAfterLabel1(cbit)
  /\ passes' = IF passes < 3 THEN passes + 1 ELSE passes
  /\ pc' = "clean_d_cache"
  /\ UNCHANGED <<hits, packed, written, cleaned, cacheVars, apVars>>

EnterClean ==
  /\ pc = "clean_d_cache"
  /\ Push("clean_d_cache")
  /\ cleaned' = {}
  /\ pc' = "clean"
  /\ UNCHANGED <<cbit, hits, packed, written, passes, apVars>>

\* Mutant: the loop's other MCR, commented out in the source: DCISW.
SetWay_Invalidate(l) == line' = [line EXCEPT ![l] = "invalid"] /\ mem' = mem

\* DCCSW: the line is written back and stays.
SetWay(l) ==
  /\ mem' = WrittenBack(l)
  /\ line' = IF line[l] = "dirty" THEN [line EXCEPT ![l] = "clean"] ELSE line

\* Clean by set/way, one line of one way after the other.
CleanSetWay ==
  /\ pc = "clean"
  /\ \E l \in Lines \ cleaned : SetWay(l) /\ cleaned' = cleaned \cup {l}
  /\ UNCHANGED <<pc, cbit, hits, copy, packed, written, passes, apVars>>

CleanDone ==
  /\ pc = "clean" /\ cleaned = Lines
  /\ pc' = "popClean"
  /\ UNCHANGED <<cbit, hits, packed, written, cleaned, passes, cacheVars, apVars>>

LeaveClean ==
  /\ pc = "popClean"
  /\ Pop("clean_d_cache")
  /\ UNCHANGED <<cbit, hits, packed, written, cleaned, passes, apVars>>

\* ldr pc, [image_info + 4]
JumpToKernel ==
  /\ pc = "handoff"
  /\ pc' = "kernel"
  /\ UNCHANGED <<cbit, hits, packed, written, cleaned, passes, cacheVars, apVars>>

Boot ==
  \/ EnterEnableAll \/ EnterEnableMMU \/ DisableForInit \/ Invalidate \/ LeaveEnableMMU
  \/ EnableCaches \/ LeaveEnableAll \/ CompareBases \/ EnterDecompress
  \/ CheckLength \/ LeaveDecompress \/ DisableForKernel \/ EnterClean \/ CleanSetWay
  \/ CleanDone \/ LeaveClean \/ JumpToKernel

-----------------------------------------------------------------------------
(***************************************************************************)
(* The other core, and the kernel's side of its release (external): the    *)
(* address is stored in the mailbox, then SEV sets the event register.     *)
(***************************************************************************)
ApEnableGic ==
  /\ ap = "gic" /\ ap' = "load"
  /\ UNCHANGED <<apReg, event, mailbox, kernel, bootVars, cacheVars>>

\* Mutant: mov r1, r0 instead of ldr r1, [r0].
AtMailbox_Address == 2

AtMailbox == mailbox

ApLoad ==
  /\ ap = "load"
  /\ apReg' = AtMailbox
  /\ ap' = "test"
  /\ UNCHANGED <<event, mailbox, kernel, bootVars, cacheVars>>

\* Mutant: the loaded word is not looked at.
Released_Always(r1) == TRUE

Released(r1) == r1 # 0

ApTest ==
  /\ ap = "test"
  /\ ap' = IF Released(apReg) THEN "jumped" ELSE "wfe"
  /\ UNCHANGED <<apReg, event, mailbox, kernel, bootVars, cacheVars>>

\* Mutant: back to the test, without loading the mailbox again.
AfterWfe_Test == "test"

AfterWfe == "load"

ApWfe ==
  /\ ap = "wfe" /\ event
  /\ event' = FALSE
  /\ ap' = AfterWfe
  /\ UNCHANGED <<apReg, mailbox, kernel, bootVars, cacheVars>>

Ap == ApEnableGic \/ ApLoad \/ ApTest \/ ApWfe

\* An event from elsewhere: another SEV, an interrupt.
StrayEvent ==
  /\ ~event /\ event' = TRUE
  /\ UNCHANGED <<ap, apReg, mailbox, kernel, bootVars, cacheVars>>

StoreMailbox ==
  /\ pc = "kernel" /\ kernel = "loaded"
  /\ kernel' = "stored" /\ mailbox' = 1
  /\ UNCHANGED <<ap, apReg, event, bootVars, cacheVars>>

SendEvent ==
  /\ kernel = "stored"
  /\ kernel' = "sent" /\ event' = TRUE
  /\ UNCHANGED <<ap, apReg, mailbox, bootVars, cacheVars>>

Next == Boot \/ Decode \/ Evict \/ Ap \/ StrayEvent \/ StoreMailbox \/ SendEvent

\* A core that is not waiting for an event executes its next instruction; the
\* decoder terminates, so core 0 does not stay in its loop for ever.  Nothing
\* is assumed of evictions, stray events or the kernel.
Fairness == WF_vars(Boot) /\ WF_vars(Ap)

Spec == Init /\ [][Next]_vars /\ Fairness

-----------------------------------------------------------------------------
(***************************************************************************)
(* Properties.                                                             *)
(***************************************************************************)
\* Every word has a value in memory and in the cache, every line a state.
TypeOK ==
  /\ pc \in Places /\ cbit \in BOOLEAN /\ hits \in BOOLEAN /\ packed \in BOOLEAN
  /\ mem \in [Words -> Values] /\ copy \in [Words -> Values]
  /\ line \in [Lines -> {"invalid", "clean", "dirty"}]
  /\ written \subseteq Dst /\ cleaned \subseteq Lines /\ passes \in 0 .. 3
  /\ ap \in {"gic", "load", "test", "wfe", "jumped"} /\ apReg \in {0, 1}
  /\ event \in BOOLEAN /\ mailbox \in {0, 1} /\ kernel \in {"loaded", "stored", "sent"}

\* The kernel, which starts with its caches off and invalidates them, finds the
\* whole decompressed image in memory: whatever lines were evicted before, no
\* dirty line is left behind.
CoherentHandoff ==
  pc = "kernel" =>
    /\ ~cbit
    /\ packed => \A w \in Dst : mem[w] = "data"
    /\ \A l \in Lines : line[l] # "dirty"

\* clean_d_cache is entered with the cache off but its stack line possibly
\* dirty; a stale return address leads back to label 1.  There the second
\* clean finds the line clean: label 1 is never reached a third time.
AtMostTwoPasses == passes <= 2

\* Every return reaches the instruction after some call: no return address is
\* lost between memory and the cache.
Returns == pc # "lost"

\* The image is decompressed once: no stale return address leads back to the
\* call of decompress_lzfse, which would read the compressed image again after
\* its neighbour, the destination, has been written.
DecompressedOnce ==
  [][pc' = "decompress" /\ pc # "decompress" => passes = 0 /\ written = {}]_vars

\* The POP at the end of clean_d_cache returns behind the call of it.
PopReturnsLr == [][pc = "popClean" => pc' \in {"popClean", "handoff"}]_vars

\* Core 0 reaches the kernel, or the breakpoint of a decompression that fell
\* short; whatever the second pass through label 1 does, it gets out of it.
Boots == <>(pc = "kernel" \/ (pc = "bkpt" /\ packed /\ written # Dst))

\* The other core is released: neither an event sent between its load of the
\* mailbox and its WFE nor a stray one makes it miss the address.
ApReleased == (kernel = "sent") ~> (ap = "jumped")

\* It jumps to the address the kernel stored, and not before.
ApJumpsToAddress == ap = "jumped" => apReg = 1 /\ kernel \in {"stored", "sent"}
=============================================================================
