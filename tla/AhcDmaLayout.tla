---------------------------- MODULE AhcDmaLayout ----------------------------
(***************************************************************************)
(* The memory the driver shares with the chip, and where each structure    *)
(* lies in it.                                                             *)
(*                                                                         *)
(* StorPort gives the driver one uncached extension.  ahc_ucext_alloc      *)
(* hands it out front to back and nothing is ever given back.              *)
(* ahc_dmamem_alloc ignores the size in the DMA tag: every allocation is   *)
(* one page.  The core, written for an allocator that honours the size,    *)
(* takes an array of AHC_SCB_MAX_ALLOC hardware SCBs (four pages) and one  *)
(* of as many sense buffers (two pages) from it, and extends the pool of   *)
(* SCBs by one page of S/G lists at a time.                                *)
(***************************************************************************)
EXTENDS Integers

CONSTANTS Bases,       \* addresses at which StorPort may put the extension
          PoolFailures \* bound: how often pool memory (kmalloc) may run out

ASSUME LayoutAssumption == Bases \subseteq Nat /\ PoolFailures \in Nat

\* Sizes in bytes.
PageSize          == 4096
ExtensionSize     == 64 * 1024
FifosSize         == 2 * 256
HscbSize          == 64
SenseSize         == 18
SgListSize        == 128 * 8
AHC_SCB_MAX_ALLOC == 254
ScbsPerPage       == 4          \* PageSize \div SgListSize

VARIABLES
    base,      \* uncached_ext_va
    ptr,       \* uc_ext_ptr
    remain,    \* uc_ext_remain
    step,      \* how far ahc_softc_init and ahc_init_scbdata are
    qoutfifo,  \* shared_data: qoutfifo and qinfifo
    hscbs,     \* the array of hardware SCBs
    sense,     \* the array of sense buffers
    sg_list,   \* the S/G list of each SCB of scbarray[0 .. numscbs-1]
    numscbs,
    refused,   \* ahc_get_scb has returned NULL
    failures   \* how often pool memory has run out

vars == <<base, ptr, remain, step, qoutfifo, hscbs, sense, sg_list, numscbs,
          refused, failures>>

TypeOK ==
    /\ base \in Bases
    /\ {ptr, remain, qoutfifo, hscbs, sense, numscbs, failures} \subseteq Nat
    /\ step \in {"fifos", "hscbs", "sense", "scbs", "ready", "failed"}
    /\ sg_list \in [0 .. numscbs - 1 -> Nat]
    /\ refused \in BOOLEAN

Init ==
    /\ base \in Bases
    /\ ptr = base
    /\ remain = ExtensionSize
    /\ step = "fifos"
    /\ qoutfifo = 0 /\ hscbs = 0 /\ sense = 0
    /\ numscbs = 0
    /\ sg_list = [i \in 0 .. numscbs - 1 |-> 0]
    /\ refused = FALSE
    /\ failures = 0

-----------------------------------------------------------------------------
(* ahc_ucext_alloc: the next page, or no page.                             *)

\* The padding is added before remain, which does not count it, is compared.
Aligned(p) == IF p % PageSize = 0 THEN p ELSE (p + PageSize) - (p % PageSize)

HasRoom == remain >= PageSize

\* A mutation: remain is not updated.
RemainForgotten(p) == remain

\* A mutation: remain is counted down by the size, forgetting the padding.
RemainCountedDown(p) == remain - PageSize

\* remain is computed anew from the end of the extension.
RemainAfter(p) == base + ExtensionSize - p

Page == Aligned(ptr)

\* ahc_ucext_alloc(PAGE_SIZE, PAGE_SIZE) succeeds and returns Page.
UcextAlloc ==
    /\ HasRoom
    /\ ptr' = Page + PageSize
    /\ remain' = RemainAfter(Page + PageSize)

-----------------------------------------------------------------------------
(* ahc_init and ahc_init_scbdata, one allocation a step.  The extension    *)
(* has room for the first three: were there none, these steps would be     *)
(* disabled, which is a deadlock here and ENOMEM in the code.              *)

AllocFifos ==
    /\ step = "fifos"
    /\ UcextAlloc
    /\ qoutfifo' = Page
    /\ step' = "hscbs"
    /\ UNCHANGED <<base, hscbs, sense, sg_list, numscbs, refused, failures>>

AllocHscbs ==
    /\ step = "hscbs"
    /\ UcextAlloc
    /\ hscbs' = Page
    /\ step' = "sense"
    /\ UNCHANGED <<base, qoutfifo, sense, sg_list, numscbs, refused, failures>>

AllocSense ==
    /\ step = "sense"
    /\ UcextAlloc
    /\ sense' = Page
    /\ step' = "scbs"
    /\ UNCHANGED <<base, qoutfifo, hscbs, sg_list, numscbs, refused, failures>>

\* Where the lists of n more SCBs go: one after the other in the new page.
Extended(n) ==
    [i \in 0 .. numscbs + n - 1 |->
        IF i < numscbs THEN sg_list[i] ELSE Page + (i - numscbs) * SgListSize]

BatchSize == IF ScbsPerPage <= AHC_SCB_MAX_ALLOC - numscbs
             THEN ScbsPerPage ELSE AHC_SCB_MAX_ALLOC - numscbs

\* ahc_alloc_scbs adds n SCBs.  The batch ends early, and the rest of its
\* page is lost, when there is no memory for the platform data of one.
AddScbs(n) ==
    /\ numscbs < AHC_SCB_MAX_ALLOC
    /\ UcextAlloc
    /\ \/ n = BatchSize /\ failures' = failures
       \/ n < BatchSize /\ failures < PoolFailures /\ failures' = failures + 1
    /\ sg_list' = Extended(n)
    /\ numscbs' = numscbs + n

\* ahc_alloc_scbs adds none: the limit is reached, there is no memory for
\* the sg_map, or no page is left.
AddNone ==
    /\ \/ (numscbs >= AHC_SCB_MAX_ALLOC \/ ~HasRoom) /\ failures' = failures
       \/ failures < PoolFailures /\ failures' = failures + 1
    /\ UNCHANGED <<ptr, remain, sg_list, numscbs>>

\* The first batch; without one ahc_init_scbdata fails.  The memset of all
\* AHC_SCB_MAX_ALLOC hardware SCBs just before it reaches four pages, two
\* more than the arrays have: see InsideExtension.
FirstScbs ==
    /\ step = "scbs"
    /\ \/ \E n \in 0 .. ScbsPerPage : AddScbs(n)
       \/ AddNone
    /\ step' = IF numscbs' = 0 THEN "failed" ELSE "ready"
    /\ UNCHANGED <<base, qoutfifo, hscbs, sense, refused>>

\* ahc_get_scb finds the free list empty and asks for another batch.
MoreScbs ==
    /\ step = "ready"
    /\ \/ \E n \in 0 .. ScbsPerPage : AddScbs(n)
       \/ AddNone
    /\ refused' = (numscbs' = numscbs)
    /\ UNCHANGED <<base, step, qoutfifo, hscbs, sense>>

\* The initialisation has failed (ENOMEM): the adapter is not found.
NotFound == step = "failed" /\ UNCHANGED vars

Next == \/ AllocFifos \/ AllocHscbs \/ AllocSense
        \/ FirstScbs \/ MoreScbs
        \/ NotFound

Spec == Init /\ [][Next]_vars

-----------------------------------------------------------------------------
(* Properties.                                                             *)

Scbs == 0 .. numscbs - 1

\* The bytes a and b, of the given lengths, have none in common.
Disjoint(a, la, b, lb) == a + la <= b \/ b + lb <= a

Hscb(i)  == hscbs + i * HscbSize
Sense(i) == sense + i * SenseSize

\* No two structures the chip or the driver uses overlap, although the
\* arrays of hardware SCBs and of sense buffers have outgrown their page:
\* the extension ends before there is an SCB whose hardware SCB or sense
\* buffer would lie in the next allocation.
NoOverlap ==
    step = "ready" => \A i \in Scbs :
        /\ Disjoint(Hscb(i), HscbSize, qoutfifo, FifosSize)
        /\ Disjoint(Sense(i), SenseSize, qoutfifo, FifosSize)
        /\ Disjoint(sg_list[i], SgListSize, qoutfifo, FifosSize)
        /\ \A j \in Scbs :
             /\ Disjoint(Hscb(i), HscbSize, Sense(j), SenseSize)
             /\ Disjoint(Hscb(i), HscbSize, sg_list[j], SgListSize)
             /\ Disjoint(Sense(i), SenseSize, sg_list[j], SgListSize)
             /\ i # j => Disjoint(sg_list[i], SgListSize,
                                  sg_list[j], SgListSize)

\* Nothing the driver writes lies outside the extension, wherever StorPort
\* has put it: not the padding of the first allocation, not the memset of
\* the hardware SCBs, which runs over pages not allocated yet and must not
\* reach the queues, and not the last page of S/G lists.
InsideExtension ==
    /\ ptr <= base + ExtensionSize
    /\ step \in {"scbs", "ready"} =>
         /\ qoutfifo >= base
         /\ qoutfifo + FifosSize <= hscbs
         /\ hscbs + AHC_SCB_MAX_ALLOC * HscbSize <= base + ExtensionSize
    /\ \A i \in Scbs : /\ base <= sg_list[i]
                       /\ sg_list[i] + SgListSize <= base + ExtensionSize
=============================================================================
