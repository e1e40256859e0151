-------------------------- MODULE Kickstart_proofs --------------------------
(***************************************************************************)
(* Theorems about Kickstart for a boot from cold reset, with any number of *)
(* destination words and on either kind of core.                           *)
(***************************************************************************)
EXTENDS Kickstart, TLAPS

ColdBoot == CacheAtEntry = {FALSE}

\* Where a word's value is: in its line while that is dirty, else in memory.
Current(w) == IF line[LineOf(w)] = "dirty" THEN copy[w] ELSE mem[w]

NoDirtyLine == \A l \in Lines : line[l] # "dirty"

-----------------------------------------------------------------------------
(***************************************************************************)
(* The inductive invariant.                                                *)
(***************************************************************************)
\* Core 0's places before the cache is on, while it is on, after label 1.
Early == {"enable_all_caches", "enable_MMU", "disable", "invalidate", "popMMU", "body"}
On == {"popAll", "info", "decompress", "decode", "popDecompress", "bkpt"}
Off == {"clean_d_cache", "clean", "popClean", "handoff", "kernel"}

\* A clean line agrees with memory as long as accesses look the cache up.
Coherent ==
  \A w \in Words : line[LineOf(w)] = "clean" /\ (cbit \/ hits) => copy[w] = mem[w]

CacheSteps ==
  /\ pc \in Early => ~cbit /\ \A l \in Lines : line[l] = "invalid"
  /\ pc \in On => cbit
  /\ pc \in Off => ~cbit
  /\ pc = "label1" => (cbit <=> passes = 0)
  /\ pc \in {"popAll", "info", "decompress"} => NoDirtyLine
  /\ pc = "clean" => \A l \in cleaned : line[l] # "dirty"
  /\ pc \in {"popClean", "handoff", "kernel"} => NoDirtyLine

\* The return addresses.  With C off on a core that does not look the cache
\* up, clean_d_cache's is in memory, and the one of decompress_lzfse may be in
\* a dirty line above it, or written over it.
StackSteps ==
  /\ pc \in (Early \cup {"popAll"}) \ {"enable_all_caches"} => mem["top"] = "info"
  /\ pc \in {"disable", "invalidate", "popMMU"} => mem["below"] = "body"
  /\ pc \in {"decode", "popDecompress"} => Current("top") = "label1"
  /\ pc \in {"label1", "clean_d_cache"} /\ line["top"] = "dirty" => copy["top"] = "label1"
  /\ pc \in {"clean", "popClean"} /\ hits => Current("top") = "handoff"
  /\ pc \in {"clean", "popClean"} /\ ~hits =>
       \/ mem["top"] = "handoff" /\ (line["top"] = "dirty" => copy["top"] = "label1")
       \/ mem["top"] = "label1" /\ line["top"] # "dirty" /\ passes = 1

PassSteps ==
  /\ pc \in Early \cup On => passes = 0
  /\ pc \in Early \cup {"popAll", "info", "decompress"} => written = {}
  /\ pc = "label1" => passes \in {0, 1}
  /\ pc \in Off => passes \in {1, 2}
  /\ (pc = "label1" /\ passes = 1) \/ passes = 2 => ~hits /\ NoDirtyLine

DataSteps ==
  /\ \A w \in written : Current(w) = "data"
  /\ packed /\ pc \in Off \cup {"popDecompress", "label1"} => written = Dst

BootInv ==
  /\ TypeOK /\ pc # "lost"
  /\ Coherent /\ CacheSteps /\ StackSteps /\ PassSteps /\ DataSteps

-----------------------------------------------------------------------------
(***************************************************************************)
(* The cache operations.                                                   *)
(***************************************************************************)
CacheType ==
  /\ mem \in [Words -> Values] /\ copy \in [Words -> Values]
  /\ line \in [Lines -> {"invalid", "clean", "dirty"}]

\* The lines of the words.
LEMMA LineTypes ==
  /\ \A w \in Words : LineOf(w) \in Lines
  /\ "top" \in Words /\ "below" \in Words /\ "top" \in Lines
  /\ LineOf("top") = "top" /\ LineOf("below") = "top"
  /\ \A w \in Dst : w \in Words /\ w \in Lines /\ LineOf(w) = w /\ w # "top"
BY DstAssumption DEF Lines, Words, LineOf, Slots

\* Filling a line changes no word's value.
LEMMA FetchedValue ==
  ASSUME NEW l \in Lines, CacheType
  PROVE  /\ Fetched(l) \in [Words -> Values]
         /\ \A w \in Words : Fetched(l)[w] = IF LineOf(w) = l THEN mem[w] ELSE copy[w]
BY DEF Fetched, CacheType

\* A load keeps every value, every dirty line and the agreement of clean ones.
LEMMA LoadKeeps ==
  ASSUME NEW w \in Words, CacheType, Coherent, Load(w), UNCHANGED <<cbit, hits>>
  PROVE  /\ CacheType' /\ Coherent' /\ mem' = mem
         /\ \A u \in Words : Current(u)' = Current(u)
         /\ \A l \in Lines : line'[l] = "dirty" <=> line[l] = "dirty"
         /\ ~cbit => UNCHANGED <<copy, line>>
<1> DEFINE l == LineOf(w)
<1>l. l \in Lines
  BY LineTypes
<1>1. CASE UNCHANGED <<copy, line>>
  BY <1>1 DEF Load, CacheType, Coherent, Current
<1>2. CASE cbit /\ line[l] = "invalid" /\ copy' = Fetched(l) /\ line' = [line EXCEPT ![l] = "clean"]
  <2>1. mem' = mem
    BY DEF Load
  <2>2. CacheType'
    BY <1>2, <1>l, <2>1, FetchedValue DEF CacheType
  <2>3. \A k \in Lines : line'[k] = IF k = l THEN "clean" ELSE line[k]
    BY <1>2, <1>l DEF CacheType
  <2>4. \A u \in Words : copy'[u] = IF LineOf(u) = l THEN mem[u] ELSE copy[u]
    BY <1>2, <1>l, FetchedValue
  <2> HIDE DEF l
  <2>5. Coherent'
    BY <2>1, <2>3, <2>4, LineTypes DEF Coherent
  <2>6. \A u \in Words : Current(u)' = Current(u)
    BY <1>2, <2>1, <2>3, <2>4, LineTypes DEF Current
  <2> QED
    BY <1>2, <2>1, <2>2, <2>3, <2>5, <2>6
<1> QED
  BY <1>1, <1>2 DEF Load

\* What a store does to each word, wherever it puts it.
LEMMA StoreChanges ==
  ASSUME NEW l \in Lines, NEW v, CacheType, Coherent, Store(l, v), UNCHANGED <<cbit, hits>>,
         \A w \in DOMAIN v : v[w] \in Values,
         \A w \in Words : w \in DOMAIN v => LineOf(w) = l
  PROVE  /\ CacheType' /\ Coherent'
         /\ \A k \in Lines \ {l} : line'[k] = line[k]
         /\ \A w \in Words : LineOf(w) # l => mem'[w] = mem[w] /\ copy'[w] = copy[w]
         /\ \A w \in Words : LineOf(w) # l => Current(w)' = Current(w)
         /\ cbit \/ hits => \A w \in Words :
              Current(w)' = IF w \in DOMAIN v THEN v[w] ELSE Current(w)
         /\ ~cbit /\ (~hits \/ line[l] = "invalid") =>
              /\ UNCHANGED <<copy, line>>
              /\ \A w \in Words : mem'[w] = IF w \in DOMAIN v THEN v[w] ELSE mem[w]
<1>w. ASSUME NEW c \in [Words -> Values]
      PROVE  /\ With(c, v) \in [Words -> Values]
             /\ \A w \in Words : With(c, v)[w] = IF w \in DOMAIN v THEN v[w] ELSE c[w]
  BY DEF With
<1>1. CASE line[l] # "invalid" /\ (cbit \/ hits) /\ copy' = With(copy, v)
           /\ line' = [line EXCEPT ![l] = "dirty"] /\ mem' = mem
  <2>1. \A k \in Lines : line'[k] = IF k = l THEN "dirty" ELSE line[k]
    BY <1>1 DEF CacheType
  <2>2. \A w \in Words : copy'[w] = IF w \in DOMAIN v THEN v[w] ELSE copy[w]
    BY <1>1, <1>w DEF CacheType
  <2>3. CacheType'
    BY <1>1, <1>w DEF CacheType
  <2>4. Coherent'
    BY <1>1, <2>1, <2>2, LineTypes DEF Coherent
  <2>5. \A w \in Words : LineOf(w) = l => Current(w)' = copy'[w]
    BY <2>1 DEF Current
  <2>6. \A w \in Words : LineOf(w) = l => Current(w) = copy[w]
    BY <1>1, LineTypes DEF Current, Coherent, CacheType
  <2>7. \A w \in Words : LineOf(w) # l => Current(w)' = Current(w)
    BY <1>1, <2>1, <2>2, LineTypes DEF Current
  <2>8. \A w \in Words : Current(w)' = IF w \in DOMAIN v THEN v[w] ELSE Current(w)
    BY <2>2, <2>5, <2>6, <2>7
  <2> QED
    BY <1>1, <2>1, <2>2, <2>3, <2>4, <2>7, <2>8
<1>2. CASE (line[l] = "invalid" \/ ~(cbit \/ hits)) /\ mem' = With(mem, v)
           /\ UNCHANGED <<copy, line>>
  <2>2. \A w \in Words : mem'[w] = IF w \in DOMAIN v THEN v[w] ELSE mem[w]
    BY <1>2, <1>w DEF CacheType
  <2>3. CacheType'
    BY <1>2, <1>w DEF CacheType
  <2>4. Coherent'
    BY <1>2, <2>2, LineTypes DEF Coherent
  <2>7. \A w \in Words : LineOf(w) # l => Current(w)' = Current(w)
    BY <1>2, <2>2 DEF Current
  <2>8. cbit \/ hits => \A w \in Words :
          Current(w)' = IF w \in DOMAIN v THEN v[w] ELSE Current(w)
    BY <1>2, <2>2 DEF Current
  <2> QED
    BY <1>2, <2>2, <2>3, <2>4, <2>7, <2>8
<1>3. CASE line[l] = "invalid" /\ cbit /\ copy' = With(Fetched(l), v)
           /\ line' = [line EXCEPT ![l] = "dirty"] /\ mem' = mem
  <2>1. \A k \in Lines : line'[k] = IF k = l THEN "dirty" ELSE line[k]
    BY <1>3 DEF CacheType
  <2>2. \A w \in Words : copy'[w] = IF w \in DOMAIN v THEN v[w]
                                    ELSE IF LineOf(w) = l THEN mem[w] ELSE copy[w]
    BY <1>3, <1>w, FetchedValue
  <2>3. CacheType'
    BY <1>3, <1>w, FetchedValue DEF CacheType
  <2>4. Coherent'
    BY <1>3, <2>1, <2>2, LineTypes DEF Coherent
  <2>5. \A w \in Words : LineOf(w) = l => Current(w)' = copy'[w]
    BY <2>1 DEF Current
  <2>6. \A w \in Words : LineOf(w) = l => Current(w) = mem[w]
    BY <1>3 DEF Current
  <2>7. \A w \in Words : LineOf(w) # l => Current(w)' = Current(w)
    BY <1>3, <2>1, <2>2, LineTypes DEF Current
  <2>8. \A w \in Words : Current(w)' = IF w \in DOMAIN v THEN v[w] ELSE Current(w)
    BY <2>2, <2>5, <2>6, <2>7
  <2> QED
    BY <1>3, <2>1, <2>2, <2>3, <2>4, <2>7, <2>8
<1> QED
  BY <1>1, <1>2, <1>3 DEF Store

\* Writing a dirty line back, or dropping a line that was, keeps every value.
LEMMA WriteBackKeeps ==
  ASSUME NEW l \in Lines, CacheType, Coherent, mem' = WrittenBack(l), copy' = copy,
         UNCHANGED <<cbit, hits>>,
         \/ line' = [line EXCEPT ![l] = "invalid"]
         \/ line' = IF line[l] = "dirty" THEN [line EXCEPT ![l] = "clean"] ELSE line
  PROVE  /\ CacheType' /\ Coherent'
         /\ \A w \in Words : Current(w)' = Current(w)
         /\ line'[l] # "dirty"
         /\ \A k \in Lines \ {l} : line'[k] = line[k]
         /\ \A w \in Words : LineOf(w) # l \/ line[l] # "dirty" => mem'[w] = mem[w]
         /\ \A w \in Words : LineOf(w) = l /\ line[l] = "dirty" => mem'[w] = copy[w]
<1>1. \A w \in Words :
        mem'[w] = IF line[l] = "dirty" /\ LineOf(w) = l THEN copy[w] ELSE mem[w]
  BY DEF WrittenBack, CacheType
<1>2. mem' \in [Words -> Values]
  BY DEF WrittenBack, CacheType
<1>3. line' \in [Lines -> {"invalid", "clean", "dirty"}]
  BY DEF CacheType
<1>4. line'[l] # "dirty" /\ \A k \in Lines \ {l} : line'[k] = line[k]
  BY DEF CacheType
<1>5. line'[l] = "clean" => line[l] # "invalid"
  BY DEF CacheType
<1>6. Coherent'
  BY <1>1, <1>4, <1>5, LineTypes DEF Coherent, CacheType
<1>7. \A w \in Words : Current(w)' = Current(w)
  BY <1>1, <1>4, LineTypes DEF Current
<1> QED
  BY <1>1, <1>2, <1>3, <1>4, <1>6, <1>7 DEF CacheType

\* What the functions push: the return address of the call, in the word their
\* POP reads.
LEMMA FrameFacts ==
  ASSUME NEW f \in {"enable_all_caches", "enable_MMU", "decompress_lzfse", "clean_d_cache"}
  PROVE  /\ \A w \in DOMAIN Frame(f) : Frame(f)[w] \in Values
         /\ \A w \in Words : w \in DOMAIN Frame(f) => LineOf(w) = "top"
         /\ f # "enable_MMU" => "top" \in DOMAIN Frame(f) /\ Frame(f)["top"] = Lr[f]
         /\ f = "enable_MMU" =>
              /\ "top" \notin DOMAIN Frame(f)
              /\ "below" \in DOMAIN Frame(f) /\ Frame(f)["below"] = "body"
BY LineTypes DEF Frame, Lr, Values, Labels

\* A push changes nothing of the destination.
LEMMA PushChanges ==
  ASSUME NEW f \in {"enable_all_caches", "enable_MMU", "decompress_lzfse", "clean_d_cache"},
         CacheType, Coherent, Push(f), UNCHANGED <<cbit, hits>>
  PROVE  /\ CacheType' /\ Coherent'
         /\ \A k \in Lines \ {"top"} : line'[k] = line[k]
         /\ \A w \in Dst : Current(w)' = Current(w)
         /\ (cbit \/ hits) /\ f # "enable_MMU" => Current("top")' = Lr[f]
         /\ ~cbit /\ (~hits \/ line["top"] = "invalid") =>
              /\ UNCHANGED <<copy, line>>
              /\ f # "enable_MMU" => mem'["top"] = Lr[f]
              /\ f = "enable_MMU" => mem'["top"] = mem["top"] /\ mem'["below"] = "body"
<1> DEFINE v == Frame(f)
<1>1. /\ \A w \in DOMAIN v : v[w] \in Values
      /\ \A w \in Words : w \in DOMAIN v => LineOf(w) = "top"
  BY FrameFacts
<1>2. Store("top", v)
  BY DEF Push
<1>3. /\ f # "enable_MMU" => "top" \in DOMAIN v /\ v["top"] = Lr[f]
      /\ f = "enable_MMU" => "top" \notin DOMAIN v /\ "below" \in DOMAIN v /\ v["below"] = "body"
  BY FrameFacts
<1>4. "top" \in Lines /\ "top" \in Words /\ "below" \in Words
  BY LineTypes
<1> HIDE DEF v
<1>5. /\ CacheType' /\ Coherent'
      /\ \A k \in Lines \ {"top"} : line'[k] = line[k]
      /\ \A w \in Words : LineOf(w) # "top" => Current(w)' = Current(w)
      /\ cbit \/ hits => \A w \in Words :
           Current(w)' = IF w \in DOMAIN v THEN v[w] ELSE Current(w)
      /\ ~cbit /\ (~hits \/ line["top"] = "invalid") =>
           /\ UNCHANGED <<copy, line>>
           /\ \A w \in Words : mem'[w] = IF w \in DOMAIN v THEN v[w] ELSE mem[w]
  BY <1>1, <1>2, <1>4, StoreChanges
<1> QED
  BY <1>3, <1>4, <1>5, LineTypes

\* A return goes where its word says, and keeps every value.
LEMMA PopReturns ==
  ASSUME NEW f \in {"enable_all_caches", "enable_MMU", "decompress_lzfse", "clean_d_cache"},
         CacheType, Coherent, Pop(f), UNCHANGED <<cbit, hits>>
  PROVE  /\ CacheType' /\ Coherent' /\ mem' = mem
         /\ \A u \in Words : Current(u)' = Current(u)
         /\ \A l \in Lines : line'[l] = "dirty" <=> line[l] = "dirty"
         /\ ~cbit => UNCHANGED <<copy, line>>
         /\ (cbit \/ hits) /\ Current(ReturnSlot(f)) \in Labels =>
              pc' = Current(ReturnSlot(f))
         /\ ~cbit /\ (~hits \/ line["top"] = "invalid") /\ mem[ReturnSlot(f)] \in Labels =>
              pc' = mem[ReturnSlot(f)]
<1> DEFINE w == ReturnSlot(f)
<1>1. w \in Words /\ LineOf(w) = "top"
  BY LineTypes DEF ReturnSlot
<1>2. Load(w) /\ pc' = IF Seen(w) \in Labels THEN Seen(w) ELSE "lost"
  BY DEF Pop
<1> HIDE DEF w
<1>3. cbit \/ hits => Seen(w) = Current(w)
  BY <1>1, LineTypes DEF Seen, Cached, Current, Coherent, CacheType
<1>4. ~cbit /\ (~hits \/ line["top"] = "invalid") => Seen(w) = mem[w]
  BY <1>1 DEF Seen, Cached
<1>5. /\ CacheType' /\ Coherent' /\ mem' = mem
      /\ \A u \in Words : Current(u)' = Current(u)
      /\ \A l \in Lines : line'[l] = "dirty" <=> line[l] = "dirty"
      /\ ~cbit => UNCHANGED <<copy, line>>
  BY <1>1, <1>2, LoadKeeps
<1> QED
  BY <1>2, <1>3, <1>4, <1>5 DEF w

-----------------------------------------------------------------------------
(***************************************************************************)
(* The invariant is inductive.                                             *)
(***************************************************************************)
\* Cold reset: the cache is off and empty.
LEMMA BootInit == ColdBoot /\ Init => BootInv
<1> SUFFICES ASSUME ColdBoot, Init PROVE BootInv
  OBVIOUS
<1>t. /\ mem \in [Words -> Values] /\ copy \in [Words -> Values]
      /\ line \in [Lines -> {"invalid", "clean", "dirty"}]
  BY DEF Init, Values
<1>b. cbit \in BOOLEAN /\ hits \in BOOLEAN /\ packed \in BOOLEAN
  BY HardwareAssumption DEF Init, ColdBoot
<1>a. /\ ap \in {"gic", "load", "test", "wfe", "jumped"} /\ apReg \in {0, 1}
      /\ mailbox \in {0, 1} /\ kernel \in {"loaded", "stored", "sent"}
      /\ passes \in 0 .. 3 /\ written = {} /\ cleaned = {}
  BY DEF Init
<1>e. event \in BOOLEAN
  BY DEF Init
<1>p. pc \in Places
  BY DEF Init, Places
<1>1. TypeOK
  BY <1>t, <1>b, <1>a, <1>e, <1>p, Zenon DEF TypeOK
<1>2. ~cbit /\ pc = "enable_all_caches" /\ written = {} /\ passes = 0
      /\ \A l \in Lines : line[l] = "invalid"
  BY DEF Init, ColdBoot
<1>3. Coherent
  BY <1>2, LineTypes DEF Coherent
<1> QED
  BY <1>1, <1>2, <1>3, LineTypes
     DEF BootInv, CacheSteps, StackSteps, PassSteps, DataSteps, Early, On, Off, NoDirtyLine

\* The steps of the other core, of the kernel and of other event sources.
LEMMA OthersKeep ==
  ASSUME BootInv, Ap \/ StrayEvent \/ StoreMailbox \/ SendEvent
  PROVE  BootInv'
<1>1. UNCHANGED <<bootVars, cacheVars>>
  BY DEF Ap, ApEnableGic, ApLoad, ApTest, ApWfe, StrayEvent, StoreMailbox, SendEvent
<1>2. TypeOK
  BY DEF BootInv
<1>3. /\ ap' \in {"gic", "load", "test", "wfe", "jumped"} /\ apReg' \in {0, 1}
      /\ event' \in BOOLEAN /\ mailbox' \in {0, 1} /\ kernel' \in {"loaded", "stored", "sent"}
  <2>1. CASE Ap
    BY <1>2, <2>1 DEF TypeOK, Ap, ApEnableGic, ApLoad, ApTest, ApWfe, AtMailbox, AfterWfe
  <2>2. CASE StrayEvent \/ StoreMailbox \/ SendEvent
    BY <1>2, <2>2 DEF TypeOK, StrayEvent, StoreMailbox, SendEvent
  <2> QED
    BY <2>1, <2>2
<1>4. TypeOK'
  BY <1>1, <1>2, <1>3 DEF TypeOK, bootVars, cacheVars
<1> QED
  BY <1>1, <1>4 DEF BootInv, bootVars, cacheVars, Coherent, CacheSteps, StackSteps, PassSteps,
                    DataSteps, Current, NoDirtyLine

\* The part of TypeOK that core 0 moves.
BootType ==
  /\ pc \in Places /\ cbit \in BOOLEAN /\ hits \in BOOLEAN /\ packed \in BOOLEAN
  /\ written \subseteq Dst /\ cleaned \subseteq Lines /\ passes \in 0 .. 3

\* Core 0's steps leave the other variables alone.
LEMMA TypeParts ==
  /\ TypeOK => BootType /\ CacheType
  /\ TypeOK /\ BootType' /\ CacheType' /\ UNCHANGED apVars => TypeOK'
BY DEF TypeOK, BootType, CacheType, apVars

\* Steps that touch registers only.
LEMMA RegisterSteps ==
  ASSUME BootInv,
         \/ DisableForInit \/ EnableCaches \/ CompareBases \/ CheckLength
         \/ DisableForKernel \/ CleanDone \/ JumpToKernel
  PROVE  BootInv'
<1> USE DEF Early, On, Off
<1>0. UNCHANGED <<mem, copy, line, hits, packed, written, cleaned, apVars>>
  BY DEF DisableForInit, EnableCaches, CompareBases, CheckLength, DisableForKernel, CleanDone,
         JumpToKernel, cacheVars
<1>1. \A w \in Words : Current(w)' = Current(w)
  BY <1>0 DEF Current
<1>2. NoDirtyLine' = NoDirtyLine
  BY <1>0 DEF NoDirtyLine
<1>3. "top" \in Words /\ "top" \in Lines /\ \A w \in Dst : w \in Words
  BY LineTypes
<1>4. CacheType /\ BootType
  BY TypeParts DEF BootInv
<1>5. CacheType'
  BY <1>0, <1>4 DEF CacheType
<1>5a. pc' \in Places
  BY DEF Places, Labels, DisableForInit, EnableCaches, CompareBases, CheckLength,
         DisableForKernel, CleanDone, JumpToKernel
<1>5b. cbit' \in BOOLEAN
  BY <1>4 DEF BootType, DisableForInit, EnableCaches, CompareBases, CheckLength,
         DisableForKernel, CAfterLabel1, CleanDone, JumpToKernel
<1>5c. passes' \in 0 .. 3
  BY <1>4 DEF BootType, DisableForInit, EnableCaches, CompareBases, CheckLength,
         DisableForKernel, CleanDone, JumpToKernel
<1>5d. hits' \in BOOLEAN /\ packed' \in BOOLEAN
  BY <1>0, <1>4, Zenon DEF BootType
<1>6. BootType'
  BY <1>0, <1>4, <1>5a, <1>5b, <1>5c, <1>5d, Zenon DEF BootType
<1>7. TypeOK'
  BY <1>0, <1>5, <1>6, TypeParts DEF BootInv
<1>8. (\A w \in written : Current(w) = "data")'
  BY <1>0, <1>1, <1>3, <1>4 DEF BootInv, DataSteps, BootType
<1>a. CASE DisableForInit
  <2>1. pc = "disable" /\ pc' = "invalidate" /\ cbit' = FALSE /\ passes' = passes
    BY <1>a DEF DisableForInit
  <2> QED
    BY <2>1, <1>0, <1>7, <1>8, <1>1, <1>3
       DEF BootInv, Coherent, CacheSteps, StackSteps, PassSteps, DataSteps
<1>b. CASE EnableCaches
  <2>1. pc = "body" /\ pc' = "popAll" /\ cbit' = TRUE /\ passes' = passes
    BY <1>b DEF EnableCaches
  <2>2. \A l \in Lines : line[l] = "invalid"
    BY <2>1 DEF BootInv, CacheSteps
  <2>3. NoDirtyLine' /\ Coherent'
    BY <2>2, <1>0, LineTypes DEF NoDirtyLine, Coherent
  <2> QED
    BY <2>1, <2>3, <1>0, <1>7, <1>8, <1>1, <1>3
       DEF BootInv, CacheSteps, StackSteps, PassSteps, DataSteps
<1>c. CASE CompareBases
  <2>1. /\ pc = "info" /\ cbit' = cbit /\ passes' = passes
        /\ pc' = IF packed THEN "decompress" ELSE "label1"
    BY <1>c DEF CompareBases
  <2>2. NoDirtyLine /\ passes = 0 /\ cbit
    BY <2>1 DEF BootInv, CacheSteps, PassSteps
  <2>3. line["top"] # "dirty"
    BY <2>2, <1>3 DEF NoDirtyLine
  <2> QED
    BY <2>1, <2>2, <2>3, <1>0, <1>2, <1>7, <1>8, <1>1, <1>3
       DEF BootInv, Coherent, CacheSteps, StackSteps, PassSteps, DataSteps
<1>d. CASE CheckLength
  <2>1. /\ pc = "decode" /\ cbit' = cbit /\ passes' = passes
        /\ pc' = IF written = Dst THEN "popDecompress" ELSE "bkpt"
    BY <1>d DEF CheckLength
  <2> QED
    BY <2>1, <1>0, <1>2, <1>7, <1>8, <1>1, <1>3
       DEF BootInv, Coherent, CacheSteps, StackSteps, PassSteps, DataSteps
<1>e. CASE DisableForKernel
  <2>1. pc = "label1" /\ pc' = "clean_d_cache" /\ cbit' = FALSE
    BY <1>e DEF DisableForKernel, CAfterLabel1
  <2>2. passes \in {0, 1} /\ passes' = passes + 1
    BY <1>e, <2>1 DEF BootInv, PassSteps, DisableForKernel
  <2> QED
    BY <2>1, <2>2, <1>0, <1>2, <1>7, <1>8, <1>1, <1>3
       DEF BootInv, Coherent, CacheSteps, StackSteps, PassSteps, DataSteps
<1>f. CASE CleanDone
  <2>1. pc = "clean" /\ cleaned = Lines /\ pc' = "popClean" /\ cbit' = cbit /\ passes' = passes
    BY <1>f DEF CleanDone
  <2>2. NoDirtyLine
    BY <2>1 DEF BootInv, CacheSteps, NoDirtyLine
  <2> QED
    BY <2>1, <2>2, <1>0, <1>2, <1>7, <1>8, <1>1, <1>3
       DEF BootInv, Coherent, CacheSteps, StackSteps, PassSteps, DataSteps
<1>g. CASE JumpToKernel
  <2>1. pc = "handoff" /\ pc' = "kernel" /\ cbit' = cbit /\ passes' = passes
    BY <1>g DEF JumpToKernel
  <2> QED
    BY <2>1, <1>0, <1>2, <1>7, <1>8, <1>1, <1>3
       DEF BootInv, Coherent, CacheSteps, StackSteps, PassSteps, DataSteps
<1> QED
  BY <1>a, <1>b, <1>c, <1>d, <1>e, <1>f, <1>g

\* The calls.
LEMMA PushSteps ==
  ASSUME BootInv, EnterEnableAll \/ EnterEnableMMU \/ EnterDecompress \/ EnterClean
  PROVE  BootInv'
<1> USE DEF Early, On, Off
<1>0. UNCHANGED <<cbit, hits, packed, written, passes, apVars>>
  BY DEF EnterEnableAll, EnterEnableMMU, EnterDecompress, EnterClean
<1>1. CacheType /\ Coherent /\ BootType
  BY TypeParts DEF BootInv
<1>2. pc' \in Places \ {"lost"} /\ cleaned' \subseteq Lines
  BY <1>1 DEF BootType, Places, EnterEnableAll, EnterEnableMMU, EnterDecompress, EnterClean
<1>3. BootType'
  BY <1>0, <1>1, <1>2, Zenon DEF BootType
<1>4. ASSUME CacheType' PROVE TypeOK' /\ pc' # "lost"
  BY <1>0, <1>2, <1>3, <1>4, TypeParts DEF BootInv
<1>5. \A w \in Dst : w \in Lines /\ LineOf(w) = w /\ w # "top"
  BY LineTypes
<1>6. "top" \in Lines /\ \A k \in Lines : k = "top" \/ k \in Lines \ {"top"}
  BY LineTypes
<1>7. ASSUME \A w \in Dst : Current(w)' = Current(w)
      PROVE  (\A w \in written : Current(w) = "data")'
  BY <1>0, <1>1, <1>7 DEF BootInv, DataSteps, BootType
<1>a. CASE EnterEnableAll
  <2>1. pc = "enable_all_caches" /\ pc' = "enable_MMU" /\ Push("enable_all_caches")
    BY <1>a DEF EnterEnableAll
  <2>2. ~cbit /\ line["top"] = "invalid" /\ \A l \in Lines : line[l] = "invalid"
    BY <2>1, <1>6 DEF BootInv, CacheSteps
  <2>3. /\ CacheType' /\ Coherent' /\ \A w \in Dst : Current(w)' = Current(w)
        /\ UNCHANGED <<copy, line>> /\ mem'["top"] = "info"
    BY <2>1, <2>2, <1>0, <1>1, PushChanges DEF Lr
  <2> QED
    BY <2>1, <2>2, <2>3, <1>0, <1>4, <1>7
       DEF BootInv, CacheSteps, StackSteps, PassSteps, DataSteps, NoDirtyLine
<1>b. CASE EnterEnableMMU
  <2>1. pc = "enable_MMU" /\ pc' = "disable" /\ Push("enable_MMU")
    BY <1>b DEF EnterEnableMMU
  <2>2. ~cbit /\ line["top"] = "invalid" /\ \A l \in Lines : line[l] = "invalid"
    BY <2>1, <1>6 DEF BootInv, CacheSteps
  <2>3. /\ CacheType' /\ Coherent' /\ \A w \in Dst : Current(w)' = Current(w)
        /\ UNCHANGED <<copy, line>> /\ mem'["top"] = mem["top"] /\ mem'["below"] = "body"
    BY <2>1, <2>2, <1>0, <1>1, PushChanges
  <2> QED
    BY <2>1, <2>2, <2>3, <1>0, <1>4, <1>7
       DEF BootInv, CacheSteps, StackSteps, PassSteps, DataSteps, NoDirtyLine
<1>c. CASE EnterDecompress
  <2>1. pc = "decompress" /\ pc' = "decode" /\ Push("decompress_lzfse")
    BY <1>c DEF EnterDecompress
  <2>2. cbit /\ passes = 0
    BY <2>1 DEF BootInv, CacheSteps, PassSteps
  <2>3. /\ CacheType' /\ Coherent' /\ \A w \in Dst : Current(w)' = Current(w)
        /\ Current("top")' = "label1"
    BY <2>1, <2>2, <1>0, <1>1, PushChanges DEF Lr
  <2> QED
    BY <2>1, <2>2, <2>3, <1>0, <1>4, <1>7
       DEF BootInv, CacheSteps, StackSteps, PassSteps, DataSteps
<1>d. CASE EnterClean
  <2>1. pc = "clean_d_cache" /\ pc' = "clean" /\ Push("clean_d_cache") /\ cleaned' = {}
    BY <1>d DEF EnterClean
  <2>2. ~cbit /\ passes \in {1, 2} /\ (passes = 2 => ~hits /\ NoDirtyLine)
        /\ (line["top"] = "dirty" => copy["top"] = "label1")
    BY <2>1 DEF BootInv, CacheSteps, PassSteps, StackSteps
  <2>3. CacheType' /\ Coherent' /\ \A w \in Dst : Current(w)' = Current(w)
    BY <2>1, <1>0, <1>1, PushChanges
  <2>4. hits => Current("top")' = "handoff"
    BY <2>1, <1>0, <1>1, PushChanges DEF Lr
  <2>5. ~hits => UNCHANGED <<copy, line>> /\ mem'["top"] = "handoff"
    BY <2>1, <2>2, <1>0, <1>1, PushChanges DEF Lr
  <2>6. passes = 2 => NoDirtyLine'
    BY <2>2, <2>5 DEF NoDirtyLine
  <2> QED
    BY <2>1, <2>2, <2>3, <2>4, <2>5, <2>6, <1>0, <1>4, <1>7
       DEF BootInv, CacheSteps, StackSteps, PassSteps, DataSteps
<1> QED
  BY <1>a, <1>b, <1>c, <1>d

\* The returns.
LEMMA PopSteps ==
  ASSUME BootInv, LeaveEnableMMU \/ LeaveEnableAll \/ LeaveDecompress \/ LeaveClean
  PROVE  BootInv'
<1> USE DEF Early, On, Off
<1>0. UNCHANGED <<cbit, hits, packed, written, cleaned, passes, apVars>>
  BY DEF LeaveEnableMMU, LeaveEnableAll, LeaveDecompress, LeaveClean
<1>1. CacheType /\ Coherent /\ BootType
  BY TypeParts DEF BootInv
<1>2. "top" \in Words /\ "top" \in Lines /\ LineOf("top") = "top" /\ \A w \in Dst : w \in Words
  BY LineTypes
<1>3. ASSUME pc' \in Labels, CacheType' PROVE TypeOK' /\ pc' # "lost"
  <2>1. pc' \in Places /\ pc' # "lost"
    BY <1>3 DEF Places, Labels
  <2>2. BootType'
    BY <2>1, <1>0, <1>1, Zenon DEF BootType
  <2> QED
    BY <2>1, <2>2, <1>0, <1>3, TypeParts DEF BootInv
<1>4. ASSUME \A u \in Words : Current(u)' = Current(u)
      PROVE  (\A w \in written : Current(w) = "data")'
  BY <1>0, <1>1, <1>2, <1>4 DEF BootInv, DataSteps, BootType
<1>a. CASE LeaveEnableMMU
  <2>1. pc = "popMMU" /\ Pop("enable_MMU")
    BY <1>a DEF LeaveEnableMMU
  <2>2. ~cbit /\ line["top"] = "invalid" /\ mem["below"] = "body"
    BY <2>1, <1>2 DEF BootInv, CacheSteps, StackSteps
  <2>3. /\ CacheType' /\ Coherent' /\ mem' = mem /\ UNCHANGED <<copy, line>> /\ pc' = "body"
        /\ \A u \in Words : Current(u)' = Current(u)
    BY <2>1, <2>2, <1>0, <1>1, PopReturns DEF ReturnSlot, Labels
  <2> QED
    BY <2>1, <2>2, <2>3, <1>0, <1>3, <1>4
       DEF BootInv, CacheSteps, StackSteps, PassSteps, DataSteps, NoDirtyLine, Labels
<1>b. CASE LeaveEnableAll
  <2>1. pc = "popAll" /\ Pop("enable_all_caches")
    BY <1>b DEF LeaveEnableAll
  <2>2. cbit /\ NoDirtyLine /\ mem["top"] = "info"
    BY <2>1 DEF BootInv, CacheSteps, StackSteps
  <2>3. Current("top") = "info"
    BY <2>2, <1>2 DEF Current, NoDirtyLine
  <2>4. /\ CacheType' /\ Coherent' /\ mem' = mem /\ pc' = "info"
        /\ \A u \in Words : Current(u)' = Current(u)
        /\ \A l \in Lines : line'[l] = "dirty" <=> line[l] = "dirty"
    BY <2>1, <2>2, <2>3, <1>0, <1>1, PopReturns DEF ReturnSlot, Labels
  <2>5. NoDirtyLine'
    BY <2>2, <2>4 DEF NoDirtyLine
  <2> QED
    BY <2>1, <2>2, <2>4, <2>5, <1>0, <1>3, <1>4
       DEF BootInv, CacheSteps, StackSteps, PassSteps, DataSteps, Labels
<1>c. CASE LeaveDecompress
  <2>1. pc = "popDecompress" /\ Pop("decompress_lzfse")
    BY <1>c DEF LeaveDecompress
  <2>2. cbit /\ passes = 0 /\ Current("top") = "label1"
    BY <2>1 DEF BootInv, CacheSteps, StackSteps, PassSteps
  <2>3. /\ CacheType' /\ Coherent' /\ mem' = mem /\ pc' = "label1"
        /\ \A u \in Words : Current(u)' = Current(u)
    BY <2>1, <2>2, <1>0, <1>1, PopReturns DEF ReturnSlot, Labels
  <2>4. line'["top"] = "dirty" => copy'["top"] = "label1"
    BY <2>2, <2>3, <1>2 DEF Current
  <2> QED
    BY <2>1, <2>2, <2>3, <2>4, <1>0, <1>3, <1>4
       DEF BootInv, CacheSteps, StackSteps, PassSteps, DataSteps, Labels
<1>d. CASE LeaveClean
  <2>1. pc = "popClean" /\ Pop("clean_d_cache")
    BY <1>d DEF LeaveClean
  <2>2. ~cbit /\ NoDirtyLine /\ passes \in {1, 2} /\ (passes = 2 => ~hits)
    BY <2>1 DEF BootInv, CacheSteps, PassSteps
  <2>3. /\ hits => Current("top") = "handoff"
        /\ ~hits => mem["top"] = "handoff" \/ (mem["top"] = "label1" /\ passes = 1)
    BY <2>1 DEF BootInv, StackSteps
  <2>4. /\ CacheType' /\ Coherent' /\ mem' = mem /\ UNCHANGED <<copy, line>>
        /\ \A u \in Words : Current(u)' = Current(u)
    BY <2>1, <2>2, <1>0, <1>1, PopReturns
  <2>5. hits => pc' = "handoff"
    BY <2>1, <2>3, <1>0, <1>1, PopReturns DEF ReturnSlot, Labels
  <2>6. ~hits => pc' = mem["top"]
    BY <2>1, <2>2, <2>3, <1>0, <1>1, PopReturns DEF ReturnSlot, Labels
  <2>7. pc' = "handoff" \/ (pc' = "label1" /\ ~hits /\ passes = 1)
    BY <2>3, <2>5, <2>6
  <2>8. NoDirtyLine' /\ line'["top"] # "dirty"
    BY <2>2, <2>4, <1>2 DEF NoDirtyLine
  <2>9. pc' \in Labels
    BY <2>7 DEF Labels
  <2> QED
    BY <2>1, <2>2, <2>4, <2>7, <2>8, <2>9, <1>0, <1>3, <1>4
       DEF BootInv, CacheSteps, StackSteps, PassSteps, DataSteps
<1> QED
  BY <1>a, <1>b, <1>c, <1>d

\* The invalidation finds nothing to lose.
LEMMA InvalidateStep == BootInv /\ Invalidate => BootInv'
<1> SUFFICES ASSUME BootInv, Invalidate PROVE BootInv'
  OBVIOUS
<1> USE DEF Early, On, Off
<1>1. /\ pc = "invalidate" /\ pc' = "popMMU" /\ line' = [l \in Lines |-> "invalid"]
      /\ UNCHANGED <<cbit, hits, packed, written, cleaned, passes, mem, copy, apVars>>
  BY DEF Invalidate
<1>2. CacheType /\ BootType
  BY TypeParts DEF BootInv
<1>3. \A l \in Lines : line[l] = "invalid" /\ line'[l] = "invalid"
  BY <1>1 DEF BootInv, CacheSteps
<1>4. CacheType'
  BY <1>1, <1>2 DEF CacheType
<1>5. pc' \in Places
  BY <1>1 DEF Places
<1>6. BootType'
  BY <1>1, <1>2, <1>5, Zenon DEF BootType
<1>7. TypeOK'
  BY <1>1, <1>4, <1>6, TypeParts DEF BootInv
<1>8. \A w \in Words : Current(w)' = Current(w)
  BY <1>1, <1>3, LineTypes DEF Current
<1>9. Coherent' /\ written = {} /\ NoDirtyLine'
  BY <1>1, <1>3, LineTypes DEF Coherent, NoDirtyLine, BootInv, PassSteps
<1> QED
  BY <1>1, <1>3, <1>7, <1>9 DEF BootInv, CacheSteps, StackSteps, PassSteps, DataSteps

\* An eviction, while the cache is on.
LEMMA EvictStep == BootInv /\ Evict => BootInv'
<1> SUFFICES ASSUME BootInv, Evict PROVE BootInv'
  OBVIOUS
<1> USE DEF Early, On, Off
<1>1. cbit /\ copy' = copy /\ UNCHANGED <<bootVars, apVars>>
  BY DEF Evict
<1>2. UNCHANGED <<pc, cbit, hits, packed, written, cleaned, passes>>
  BY <1>1 DEF bootVars
<1>3. PICK l \in Lines : mem' = WrittenBack(l) /\ line' = [line EXCEPT ![l] = "invalid"]
  BY DEF Evict
<1>4. CacheType /\ BootType /\ Coherent
  BY TypeParts DEF BootInv
<1>5. /\ CacheType' /\ Coherent'
      /\ \A w \in Words : Current(w)' = Current(w)
      /\ line'[l] # "dirty" /\ \A k \in Lines \ {l} : line'[k] = line[k]
      /\ \A w \in Words : LineOf(w) # l \/ line[l] # "dirty" => mem'[w] = mem[w]
  BY <1>1, <1>2, <1>3, <1>4, WriteBackKeeps
<1>6. BootType'
  BY <1>2, <1>4, Zenon DEF BootType
<1>7. TypeOK'
  BY <1>1, <1>5, <1>6, TypeParts DEF BootInv
<1>8. (\A w \in written : Current(w) = "data")'
  BY <1>2, <1>4, <1>5, LineTypes DEF BootInv, DataSteps, BootType
<1>9. NoDirtyLine => NoDirtyLine' /\ \A w \in Words : mem'[w] = mem[w]
  BY <1>5 DEF NoDirtyLine
<1>10. pc \notin Early /\ pc \notin Off
  BY <1>1 DEF BootInv, CacheSteps
<1>11. line'["top"] = "dirty" => line["top"] = "dirty"
  BY <1>5, LineTypes
<1>12. "top" \in Words
  BY LineTypes
<1>13. CacheSteps'
  BY <1>1, <1>2, <1>9, <1>10 DEF BootInv, CacheSteps
<1>14. StackSteps'
  BY <1>1, <1>2, <1>5, <1>9, <1>10, <1>11, <1>12 DEF BootInv, CacheSteps, StackSteps
<1>15. PassSteps'
  BY <1>2, <1>9 DEF BootInv, PassSteps
<1> QED
  BY <1>2, <1>5, <1>7, <1>8, <1>13, <1>14, <1>15 DEF BootInv, DataSteps

\* One line cleaned by set/way.
LEMMA CleanStep == BootInv /\ CleanSetWay => BootInv'
<1> SUFFICES ASSUME BootInv, CleanSetWay PROVE BootInv'
  OBVIOUS
<1> USE DEF Early, On, Off
<1>1. pc = "clean" /\ UNCHANGED <<pc, cbit, hits, copy, packed, written, passes, apVars>>
  BY DEF CleanSetWay
<1>3. PICK l \in Lines \ cleaned :
        /\ mem' = WrittenBack(l)
        /\ line' = IF line[l] = "dirty" THEN [line EXCEPT ![l] = "clean"] ELSE line
        /\ cleaned' = cleaned \cup {l}
  BY DEF CleanSetWay, SetWay
<1>4. CacheType /\ BootType /\ Coherent
  BY TypeParts DEF BootInv
<1>5. /\ CacheType' /\ Coherent'
      /\ \A w \in Words : Current(w)' = Current(w)
      /\ line'[l] # "dirty" /\ \A k \in Lines \ {l} : line'[k] = line[k]
      /\ \A w \in Words : LineOf(w) # l \/ line[l] # "dirty" => mem'[w] = mem[w]
      /\ \A w \in Words : LineOf(w) = l /\ line[l] = "dirty" => mem'[w] = copy[w]
  BY <1>1, <1>3, <1>4, WriteBackKeeps
<1>6. cleaned' \subseteq Lines
  BY <1>3, <1>4 DEF BootType
<1>6a. BootType'
  BY <1>1, <1>4, <1>6, Zenon DEF BootType
<1>7. TypeOK'
  BY <1>1, <1>5, <1>6a, TypeParts DEF BootInv
<1>8. (\A w \in written : Current(w) = "data")'
  BY <1>1, <1>4, <1>5, LineTypes DEF BootInv, DataSteps, BootType
<1>9. NoDirtyLine => NoDirtyLine'
  BY <1>5 DEF NoDirtyLine
<1>10. "top" \in Words /\ "top" \in Lines /\ LineOf("top") = "top"
  BY LineTypes
<1>11. ~cbit /\ passes \in {1, 2} /\ (passes = 2 => ~hits /\ NoDirtyLine)
  BY <1>1 DEF BootInv, CacheSteps, PassSteps
<1>12. \A k \in cleaned' : line'[k] # "dirty"
  BY <1>1, <1>3, <1>4, <1>5 DEF BootInv, CacheSteps, BootType
<1>13. CacheSteps'
  BY <1>1, <1>11, <1>12 DEF CacheSteps
<1>14. hits => Current("top")' = "handoff"
  BY <1>1, <1>5, <1>10 DEF BootInv, StackSteps
<1>15. CASE ~hits
  <2>1. CASE line["top"] = "dirty" /\ l = "top"
    <3>1. mem'["top"] = "label1" /\ line'["top"] # "dirty"
      BY <1>1, <1>5, <1>10, <1>15, <2>1 DEF BootInv, StackSteps
    <3>2. passes = 1
      BY <1>10, <1>11, <2>1 DEF NoDirtyLine
    <3> QED
      BY <1>1, <1>13, <1>5, <1>7, <1>8, <1>9, <1>11, <1>15, <3>1, <3>2
         DEF BootInv, StackSteps, PassSteps, DataSteps
  <2>2. CASE line["top"] # "dirty" \/ l # "top"
    <3>1. mem'["top"] = mem["top"] /\ (line'["top"] = "dirty" <=> line["top"] = "dirty")
      BY <1>5, <1>10, <2>2
    <3> QED
      BY <1>1, <1>13, <1>5, <1>7, <1>8, <1>9, <1>11, <1>15, <3>1
         DEF BootInv, StackSteps, PassSteps, DataSteps
  <2> QED
    BY <2>1, <2>2
<1>16. CASE hits
  BY <1>1, <1>13, <1>5, <1>7, <1>8, <1>9, <1>11, <1>14, <1>16
     DEF BootInv, StackSteps, PassSteps, DataSteps
<1> QED
  BY <1>15, <1>16, <1>4 DEF BootType

\* One store of the decoder.
LEMMA DecodeStep == BootInv /\ Decode => BootInv'
<1> SUFFICES ASSUME BootInv, Decode PROVE BootInv'
  OBVIOUS
<1> USE DEF Early, On, Off
<1>1. pc = "decode" /\ UNCHANGED <<pc, cbit, hits, packed, cleaned, passes, apVars>>
  BY DEF Decode
<1>2. PICK d \in Dst : Store(d, [x \in {d} |-> "data"]) /\ written' = written \cup {d}
  BY DEF Decode
<1>3. cbit /\ passes = 0
  BY <1>1 DEF BootInv, CacheSteps, PassSteps
<1>4. CacheType /\ BootType /\ Coherent
  BY TypeParts DEF BootInv
<1>5. d \in Words /\ d \in Lines /\ LineOf(d) = d /\ d # "top"
  BY LineTypes
<1> DEFINE v == [x \in {d} |-> "data"]
<1>6. /\ \A w \in DOMAIN v : v[w] \in Values
      /\ \A w \in Words : w \in DOMAIN v => LineOf(w) = d
      /\ d \in DOMAIN v /\ v[d] = "data" /\ DOMAIN v = {d}
  BY <1>5 DEF Values
<1>7. Store(d, v)
  BY <1>2
<1> HIDE DEF v
<1>8. /\ CacheType' /\ Coherent'
      /\ \A w \in Words : Current(w)' = IF w \in DOMAIN v THEN v[w] ELSE Current(w)
  BY <1>1, <1>3, <1>4, <1>5, <1>6, <1>7, StoreChanges
<1>9. written' \subseteq Dst
  BY <1>2, <1>4 DEF BootType
<1>10. BootType'
  BY <1>1, <1>4, <1>9, Zenon DEF BootType
<1>11. TypeOK'
  BY <1>1, <1>8, <1>10, TypeParts DEF BootInv
<1>12. \A w \in written' : Current(w)' = "data"
  BY <1>2, <1>4, <1>6, <1>8, <1>9, LineTypes DEF BootInv, DataSteps, BootType
<1>13. Current("top")' = "label1"
  BY <1>1, <1>5, <1>6, <1>8, LineTypes DEF BootInv, StackSteps
<1> QED
  BY <1>1, <1>3, <1>8, <1>11, <1>12, <1>13
     DEF BootInv, CacheSteps, StackSteps, PassSteps, DataSteps

\* No step leaves the invariant.
LEMMA BootNext == BootInv /\ [Next]_vars => BootInv'
<1> SUFFICES ASSUME BootInv, [Next]_vars PROVE BootInv'
  OBVIOUS
<1>1. CASE Boot
  BY <1>1, RegisterSteps, PushSteps, PopSteps, InvalidateStep, CleanStep DEF Boot
<1>2. CASE Decode
  BY <1>2, DecodeStep
<1>3. CASE Evict
  BY <1>3, EvictStep
<1>4. CASE Ap \/ StrayEvent \/ StoreMailbox \/ SendEvent
  BY <1>4, OthersKeep
<1>5. CASE UNCHANGED vars
  <2>1. UNCHANGED <<bootVars, cacheVars, apVars>>
    BY <1>5 DEF vars
  <2> QED
    BY <2>1 DEF BootInv, TypeOK, bootVars, cacheVars, apVars, Coherent, CacheSteps, StackSteps,
                PassSteps, DataSteps, Current, NoDirtyLine
<1> QED
  BY <1>1, <1>2, <1>3, <1>4, <1>5 DEF Next

\* From cold reset, the invariant holds for ever.
LEMMA BootAlways == ColdBoot => (Spec => []BootInv)
<1> SUFFICES ASSUME ColdBoot PROVE Spec => []BootInv
  OBVIOUS
<1>1. Init => BootInv
  BY BootInit
<1>2. BootInv /\ [Next]_vars => BootInv'
  BY BootNext
<1> QED
  BY <1>1, <1>2, PTL DEF Spec

-----------------------------------------------------------------------------
(***************************************************************************)
(* The theorems.                                                           *)
(***************************************************************************)
\* The state of the boot is well typed (kickstart.S, cache_init.S).
THEOREM TypeCorrect == ColdBoot => (Spec => []TypeOK)
<1>1. BootInv => TypeOK
  BY DEF BootInv
<1> QED
  BY <1>1, BootAlways, PTL

\* Every POP of the stub goes behind some call, whatever was evicted, although
\* clean_d_cache pushes and pops with the cache off.
THEOREM ReturnsHold == ColdBoot => (Spec => []Returns)
<1>1. BootInv => Returns
  BY DEF BootInv, Returns
<1> QED
  BY <1>1, BootAlways, PTL

\* The stale return address of clean_d_cache leads to label 1 once at most.
THEOREM TwoPassesAtMost == ColdBoot => (Spec => []AtMostTwoPasses)
<1>1. BootInv => AtMostTwoPasses
  BY DEF BootInv, TypeOK, Places, Labels, PassSteps, Early, On, Off, AtMostTwoPasses
<1> QED
  BY <1>1, BootAlways, PTL

\* The kernel finds the whole image in memory, and no dirty line.
THEOREM HandoffCoherent == ColdBoot => (Spec => []CoherentHandoff)
<1>1. BootInv => CoherentHandoff
  BY LineTypes DEF BootInv, CacheSteps, DataSteps, Off, NoDirtyLine, Current, CoherentHandoff
<1> QED
  BY <1>1, BootAlways, PTL

\* Only the comparison of the bases leads to the call of decompress_lzfse: no
\* return address does, however stale.
LEMMA OneWayToDecompress ==
  ASSUME BootInv, [Next]_vars, pc' = "decompress", pc # "decompress"
  PROVE  passes = 0 /\ written = {}
<1>1. ASSUME NEW f, Pop(f) PROVE FALSE
  BY <1>1 DEF Pop, Labels
<1>2. pc' # pc
  OBVIOUS
<1>3. Boot
  BY <1>2 DEF Next, Decode, Evict, Ap, ApEnableGic, ApLoad, ApTest, ApWfe, StrayEvent,
              StoreMailbox, SendEvent, vars, bootVars
<1>4. CompareBases
  BY <1>1, <1>3 DEF Boot, EnterEnableAll, EnterEnableMMU, DisableForInit, Invalidate,
       LeaveEnableMMU, EnableCaches, LeaveEnableAll, EnterDecompress, CheckLength,
       LeaveDecompress, DisableForKernel, EnterClean, CleanSetWay, CleanDone, LeaveClean,
       JumpToKernel
<1>5. pc = "info"
  BY <1>4 DEF CompareBases
<1> QED
  BY <1>5 DEF BootInv, PassSteps, On

\* The image is decompressed once at most.
THEOREM OneDecompression == ColdBoot => (Spec => DecompressedOnce)
<1>1. BootInv /\ [Next]_vars
        => [pc' = "decompress" /\ pc # "decompress" => passes = 0 /\ written = {}]_vars
  BY OneWayToDecompress
<1> QED
  BY <1>1, BootAlways, PTL DEF Spec, DecompressedOnce
-----------------------------------------------------------------------------
(***************************************************************************)
(* The other core.  What it loads from the mailbox, and keeps in its       *)
(* register while it tests and waits, is not 0 only once the kernel has    *)
(* stored an address.  This holds from any entry, with the cache on too.   *)
(***************************************************************************)
ApInv ==
  /\ mailbox \in {0, 1} /\ apReg \in {0, 1} /\ kernel \in {"loaded", "stored", "sent"}
  /\ mailbox = 1 \/ apReg = 1 => kernel \in {"stored", "sent"}
  /\ ap = "jumped" => apReg = 1

\* Neither core 0 nor a cache line on its way out moves the other core.
LEMMA OthersUntouched ==
  ASSUME Boot \/ Decode \/ Evict \/ UNCHANGED vars
  PROVE  UNCHANGED apVars
BY DEF Boot, EnterEnableAll, EnterEnableMMU, DisableForInit, Invalidate, LeaveEnableMMU,
       EnableCaches, LeaveEnableAll, CompareBases, EnterDecompress, CheckLength,
       LeaveDecompress, DisableForKernel, EnterClean, CleanSetWay, CleanDone, LeaveClean,
       JumpToKernel, Decode, Evict, Push, Pop, vars

\* Every step keeps what holds of the second core.
LEMMA ApStep ==
  ASSUME ApInv, [Next]_vars
  PROVE  ApInv'
<1>1. CASE Boot \/ Decode \/ Evict \/ UNCHANGED vars
  BY <1>1, OthersUntouched DEF ApInv, apVars
<1>2. CASE Ap
  <2>1. CASE ApLoad
    BY <2>1 DEF ApInv, ApLoad, AtMailbox
  <2>2. CASE ApTest
    BY <2>2 DEF ApInv, ApTest, Released
  <2>3. CASE ApEnableGic \/ ApWfe
    BY <2>3 DEF ApInv, ApEnableGic, ApWfe, AfterWfe
  <2> QED
    BY <1>2, <2>1, <2>2, <2>3 DEF Ap
<1>3. CASE StrayEvent \/ StoreMailbox \/ SendEvent
  BY <1>3 DEF ApInv, StrayEvent, StoreMailbox, SendEvent
<1> QED
  BY <1>1, <1>2, <1>3 DEF Next

\* The other core leaves _start's loop to the address the kernel stored, whatever
\* events wake it and in whichever order they come (kickstart.S, ap_start).
THEOREM JumpsToAddress == Spec => []ApJumpsToAddress
<1>1. Init => ApInv
  BY DEF Init, ApInv
<1>2. ApInv /\ [Next]_vars => ApInv'
  BY ApStep
<1>3. ApInv => ApJumpsToAddress
  BY DEF ApInv, ApJumpsToAddress
<1> QED
  BY <1>1, <1>2, <1>3, PTL DEF Spec
=============================================================================
