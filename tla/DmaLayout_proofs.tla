-------------------------- MODULE DmaLayout_proofs --------------------------
(***************************************************************************)
(* The memory shared with the chip, in both families: for every address of *)
(* the uncached extension and any number of failures of pool memory.       *)
(***************************************************************************)
EXTENDS MCDmaLayout, FiniteSetTheorems, TLAPS

-----------------------------------------------------------------------------
(***************************************************************************)
(* For every address of the uncached extension and any number of failures  *)
(* of pool memory: the structures in it never overlap and nothing lies     *)
(* outside it.                                                             *)
(*                                                                         *)
(* The argument.  The first three pages hold the queues, the hardware SCBs *)
(* and the sense buffers, and every batch of at most four S/G lists lies   *)
(* in a page of its own behind them (Layout, Lists).  Hence there are at   *)
(* most as many SCBs as KB between the sense page and the end of the       *)
(* extension, 52, and 52 hardware SCBs or sense buffers fit in a page.     *)
(***************************************************************************)

\* The end of the extension.
End == base + ExtensionSize

\* The first page boundary of the extension.
First == Aligned(base)

\* What the allocator knows, and where the fixed structures are.
Layout ==
    /\ remain = End - ptr
    /\ ptr <= End
    /\ step = "fifos" => ptr = base
    /\ step # "fifos" => ptr % PageSize = 0 /\ qoutfifo = First
    /\ step = "hscbs" => ptr = First + PageSize
    /\ step \notin {"fifos", "hscbs"} => hscbs = First + PageSize
    /\ step = "sense" => ptr = First + 2 * PageSize
    /\ step \in {"scbs", "ready"} => sense = First + 2 * PageSize
    /\ step = "scbs" => ptr = First + 3 * PageSize
    /\ step = "ready" => ptr >= First + 3 * PageSize

\* The S/G lists lie one behind the other between the sense page and ptr.
Lists ==
    /\ step \notin {"ready", "failed"} => numscbs = 0
    /\ step = "failed" => numscbs = 0
    /\ numscbs > 0 => SgListSize * numscbs <= ptr - (First + 3 * PageSize)
    /\ \A i \in Scbs : /\ First + 3 * PageSize <= sg_list[i]
                       /\ sg_list[i] + SgListSize <= ptr
    /\ \A i, j \in Scbs : i < j => sg_list[i] + SgListSize <= sg_list[j]

IInv == TypeOK /\ Layout /\ Lists
-----------------------------------------------------------------------------
\* Aligned returns the first multiple of the page size that is not below p.
LEMMA AlignedBounds ==
    ASSUME NEW p \in Nat
    PROVE  /\ Aligned(p) \in Nat
           /\ p <= Aligned(p) /\ Aligned(p) < p + PageSize
           /\ Aligned(p) % PageSize = 0
  BY DEF Aligned, PageSize

\* A page boundary is aligned, and so is the next one.
LEMMA NextPage ==
    ASSUME NEW p \in Nat, p % PageSize = 0
    PROVE  Aligned(p) = p /\ (p + PageSize) % PageSize = 0
  BY DEF Aligned, PageSize

\* The invariant holds when the driver starts.
LEMMA InitIInv == Init => IInv
<1> SUFFICES ASSUME Init PROVE IInv
  OBVIOUS
<1>1. base \in Nat
  BY LayoutAssumption DEF Init
<1>2. TypeOK
  <2>1. sg_list \in [0 .. numscbs - 1 -> Nat]
    BY DEF Init
  <2>2. {ptr, remain, qoutfifo, hscbs, sense, numscbs, failures} \subseteq Nat
    BY <1>1 DEF Init, ExtensionSize
  <2> QED
    BY <2>1, <2>2 DEF Init, TypeOK
<1>3. Layout
  BY <1>1 DEF Init, Layout, End, ExtensionSize
<1>4. Lists
  BY DEF Init, Lists, Scbs
<1> QED
  BY <1>2, <1>3, <1>4 DEF IInv

\* The queues get the first whole page of the extension.
LEMMA AllocFifosStep == IInv /\ AllocFifos => IInv'
<1> SUFFICES ASSUME IInv, AllocFifos PROVE IInv'
  OBVIOUS
<1> USE DEF IInv
<1>1. base \in Nat /\ ptr = base /\ base' = base
  BY LayoutAssumption DEF TypeOK, Layout, AllocFifos
<1>2. /\ First \in Nat /\ base <= First /\ First < base + PageSize
      /\ First % PageSize = 0 /\ Page = First /\ First' = First
  BY <1>1, AlignedBounds DEF First, Page, Aligned
<1>3. (First + PageSize) % PageSize = 0
  BY <1>2, NextPage
<1>4. /\ ptr' = First + PageSize /\ remain' = End' - ptr' /\ ptr' <= End'
      /\ qoutfifo' = First /\ step' = "hscbs" /\ End' = End
  BY <1>1, <1>2 DEF AllocFifos, UcextAlloc, RemainAfter, End, PageSize,
                    ExtensionSize
<1>5. TypeOK'
  BY <1>1, <1>2, <1>4
  DEF TypeOK, AllocFifos, End, ExtensionSize, PageSize
<1>6. Layout'
  BY <1>2, <1>3, <1>4 DEF Layout
<1>7. Lists'
  BY <1>4 DEF AllocFifos, Lists, Layout, Scbs
<1> QED
  BY <1>5, <1>6, <1>7

\* Every later page is the one at ptr, and lies inside the extension.
LEMMA UcextAllocPage ==
    ASSUME IInv, step # "fifos", UcextAlloc, base' = base
    PROVE  /\ Page = ptr /\ ptr' = ptr + PageSize
           /\ ptr' % PageSize = 0
           /\ remain' = End' - ptr' /\ remain' \in Nat
           /\ ptr' <= End' /\ ptr' \in Nat
           /\ First' = First /\ End' = End
<1> USE DEF IInv
<1>1. base \in Nat /\ ptr \in Nat /\ ptr % PageSize = 0
  BY LayoutAssumption DEF TypeOK, Layout
<1>2. Page = ptr /\ (ptr + PageSize) % PageSize = 0
  BY <1>1, NextPage DEF Page
<1>3. ptr' = ptr + PageSize /\ First' = First /\ End' = End
  BY <1>2 DEF UcextAlloc, First, Aligned, End
<1>4. remain' = End - (ptr + PageSize)
  BY <1>1, <1>2 DEF UcextAlloc, RemainAfter, End, PageSize, ExtensionSize
<1>5. End - ptr >= PageSize
  BY DEF UcextAlloc, HasRoom, Layout
<1> QED
  BY <1>1, <1>2, <1>3, <1>4, <1>5 DEF End, PageSize, ExtensionSize

\* The second page holds the hardware SCBs.
LEMMA AllocHscbsStep == IInv /\ AllocHscbs => IInv'
<1> SUFFICES ASSUME IInv, AllocHscbs PROVE IInv'
  OBVIOUS
<1>1. base \in Nat /\ First \in Nat
  BY LayoutAssumption, AlignedBounds DEF IInv, TypeOK, First
<1>2. /\ Page = ptr /\ ptr' = ptr + PageSize /\ ptr' % PageSize = 0
      /\ remain' = End' - ptr' /\ remain' \in Nat /\ ptr' <= End'
      /\ ptr' \in Nat /\ First' = First
  BY UcextAllocPage DEF AllocHscbs
<1>3. ptr = First + PageSize /\ qoutfifo = First
  BY DEF IInv, Layout, AllocHscbs
<1>4. TypeOK'
  BY <1>1, <1>2, <1>3 DEF IInv, TypeOK, AllocHscbs, PageSize
<1>5. Layout'
  BY <1>1, <1>2, <1>3 DEF AllocHscbs, Layout, PageSize
<1>6. Lists'
  BY DEF AllocHscbs, IInv, Lists, Scbs
<1> QED
  BY <1>4, <1>5, <1>6 DEF IInv

\* The third page holds the sense buffers.
LEMMA AllocSenseStep == IInv /\ AllocSense => IInv'
<1> SUFFICES ASSUME IInv, AllocSense PROVE IInv'
  OBVIOUS
<1>1. base \in Nat /\ First \in Nat
  BY LayoutAssumption, AlignedBounds DEF IInv, TypeOK, First
<1>2. /\ Page = ptr /\ ptr' = ptr + PageSize /\ ptr' % PageSize = 0
      /\ remain' = End' - ptr' /\ remain' \in Nat /\ ptr' <= End'
      /\ ptr' \in Nat /\ First' = First
  BY UcextAllocPage DEF AllocSense
<1>3. ptr = First + 2 * PageSize /\ qoutfifo = First /\ hscbs = First + PageSize
  BY DEF IInv, Layout, AllocSense
<1>4. TypeOK'
  BY <1>1, <1>2, <1>3 DEF IInv, TypeOK, AllocSense, PageSize
<1>5. Layout'
  BY <1>1, <1>2, <1>3 DEF AllocSense, Layout, PageSize
<1>6. Lists'
  BY DEF AllocSense, IInv, Lists, Scbs
<1> QED
  BY <1>4, <1>5, <1>6 DEF IInv

\* A batch of at most four lists fits in its page, behind those before it.
LEMMA AddScbsLists ==
    ASSUME IInv, step \in {"scbs", "ready"}, base' = base,
           NEW n \in 0 .. ScbsPerPage, AddScbs(n)
    PROVE  /\ numscbs' \in Nat /\ numscbs' = numscbs + n
           /\ sg_list' \in [0 .. numscbs' - 1 -> Nat]
           /\ SgListSize * numscbs' <= ptr' - (First' + 3 * PageSize)
           /\ \A i \in Scbs' : /\ First' + 3 * PageSize <= sg_list'[i]
                               /\ sg_list'[i] + SgListSize <= ptr'
           /\ \A i, j \in Scbs' :
                 i < j => sg_list'[i] + SgListSize <= sg_list'[j]
<1>1. /\ First \in Nat /\ ptr \in Nat /\ numscbs \in Nat /\ n \in 0 .. 4
      /\ sg_list \in [0 .. numscbs - 1 -> Nat]
  BY LayoutAssumption, AlignedBounds DEF IInv, TypeOK, First, ScbsPerPage
<1>2. Page = ptr /\ ptr' = ptr + PageSize /\ First' = First
  BY UcextAllocPage DEF AddScbs
<1>3. /\ numscbs' = numscbs + n
      /\ sg_list' = [i \in 0 .. numscbs + n - 1 |->
                       IF i < numscbs THEN sg_list[i]
                       ELSE ptr + (i - numscbs) * SgListSize]
  BY <1>2 DEF AddScbs, Extended
<1>4. ptr >= First + 3 * PageSize
  BY <1>1 DEF IInv, Layout, PageSize
<1>5. SgListSize * numscbs <= ptr - (First + 3 * PageSize)
  BY <1>1, <1>4 DEF IInv, Lists, SgListSize, PageSize
<1>6. \A i \in Scbs' :
        /\ i < numscbs => sg_list'[i] = sg_list[i]
        /\ i >= numscbs => sg_list'[i] = ptr + (i - numscbs) * SgListSize
  BY <1>1, <1>3 DEF Scbs
<1>7. \A i \in Scbs' : i < numscbs => i \in Scbs
  BY <1>1, <1>3 DEF Scbs
<1>8. \A i \in Scbs' : i \in Int /\ 0 <= i /\ i < numscbs + n
  BY <1>1, <1>3 DEF Scbs
<1>9. \A i \in Scbs : /\ sg_list[i] \in Nat
                      /\ First + 3 * PageSize <= sg_list[i]
                      /\ sg_list[i] + SgListSize <= ptr
  BY <1>1 DEF IInv, Lists, Scbs
<1>10. sg_list' \in [0 .. numscbs' - 1 -> Nat]
  <2>1. ASSUME NEW i \in 0 .. numscbs + n - 1
        PROVE  (IF i < numscbs THEN sg_list[i]
                ELSE ptr + (i - numscbs) * SgListSize) \in Nat
    <3>1. CASE i < numscbs
      BY <1>1, <3>1
    <3>2. CASE i >= numscbs
      BY <1>1, <3>2 DEF SgListSize
    <3> QED
      BY <1>1, <3>1, <3>2
  <2>2. [i \in 0 .. numscbs + n - 1 |->
           IF i < numscbs THEN sg_list[i]
           ELSE ptr + (i - numscbs) * SgListSize]
        \in [0 .. numscbs + n - 1 -> Nat]
    BY <2>1
  <2>3. 0 .. numscbs' - 1 = 0 .. numscbs + n - 1
    BY <1>1, <1>3
  <2>4. sg_list' \in [0 .. numscbs + n - 1 -> Nat]
    BY <1>3, <2>2
  <2> QED
    BY <2>3, <2>4
<1>11. ASSUME NEW i \in Scbs'
       PROVE  /\ First' + 3 * PageSize <= sg_list'[i]
              /\ sg_list'[i] + SgListSize <= ptr'
  <2>1. CASE i < numscbs
    BY <1>1, <1>2, <1>6, <1>7, <1>9, <2>1 DEF PageSize, SgListSize
  <2>2. CASE i >= numscbs
    BY <1>1, <1>2, <1>4, <1>6, <1>8, <2>2 DEF PageSize, SgListSize
  <2> QED
    BY <1>1, <1>8, <2>1, <2>2
<1>12. ASSUME NEW i \in Scbs', NEW j \in Scbs', i < j
       PROVE  sg_list'[i] + SgListSize <= sg_list'[j]
  <2>1. CASE j < numscbs
    BY <1>1, <1>6, <1>7, <1>8, <1>12, <2>1 DEF IInv, Lists
  <2>2. CASE i < numscbs /\ j >= numscbs
    <3>1. sg_list'[j] >= ptr
      BY <1>1, <1>6, <1>8, <2>2 DEF SgListSize
    <3>2. sg_list'[i] + SgListSize <= ptr /\ sg_list'[i] \in Nat
      BY <1>6, <1>7, <1>9, <2>2
    <3> QED
      BY <1>1, <1>6, <1>8, <2>2, <3>1, <3>2 DEF SgListSize
  <2>3. CASE i >= numscbs
    <3>1. i \in Int /\ j \in Int /\ j >= numscbs /\ i + 1 <= j
      BY <1>1, <1>8, <1>12, <2>3
    <3>2. /\ sg_list'[i] = ptr + (i - numscbs) * SgListSize
          /\ sg_list'[j] = ptr + (j - numscbs) * SgListSize
      BY <1>6, <2>3, <3>1
    <3> QED
      BY <1>1, <3>1, <3>2 DEF SgListSize
  <2> QED
    BY <1>1, <1>8, <1>12, <2>1, <2>2, <2>3
<1> QED
  BY <1>1, <1>2, <1>3, <1>5, <1>10, <1>11, <1>12 DEF SgListSize, PageSize

\* ahc_alloc_scbs, whether it adds SCBs or not, keeps the layout.
LEMMA AllocScbsStep ==
    ASSUME IInv, step \in {"scbs", "ready"},
           step' \in {"ready", "failed"}, step' = "failed" => numscbs' = 0,
           \/ \E n \in 0 .. ScbsPerPage : AddScbs(n)
           \/ AddNone,
           refused' \in BOOLEAN,
           UNCHANGED <<base, qoutfifo, hscbs, sense>>
    PROVE  IInv'
<1>1. base \in Nat /\ First \in Nat /\ ptr \in Nat /\ First' = First
  BY LayoutAssumption, AlignedBounds DEF IInv, TypeOK, First, Aligned
<1>2. ptr >= First + 3 * PageSize
  BY <1>1 DEF IInv, Layout, PageSize
<1>3. ASSUME NEW n \in 0 .. ScbsPerPage, AddScbs(n)
      PROVE  IInv'
  <2>1. /\ ptr' = ptr + PageSize /\ ptr' % PageSize = 0
        /\ remain' = End' - ptr' /\ remain' \in Nat /\ ptr' <= End'
        /\ ptr' \in Nat
    BY <1>3, UcextAllocPage DEF AddScbs
  <2>2. failures' \in Nat
    BY <1>3 DEF AddScbs, IInv, TypeOK
  <2>3. TypeOK'
    BY <1>3, <2>1, <2>2, AddScbsLists DEF IInv, TypeOK
  <2>4. Layout'
    BY <1>1, <1>2, <2>1 DEF IInv, Layout, PageSize
  <2>5. Lists'
    BY <1>3, AddScbsLists DEF Lists
  <2> QED
    BY <2>3, <2>4, <2>5 DEF IInv
<1>4. CASE AddNone
  <2>1. failures' \in Nat
    BY <1>4 DEF AddNone, IInv, TypeOK
  <2>2. TypeOK'
    BY <1>4, <2>1 DEF AddNone, IInv, TypeOK
  <2>3. Layout'
    BY <1>1, <1>2, <1>4 DEF AddNone, IInv, Layout, End, PageSize
  <2>4. Lists'
    BY <1>1, <1>4 DEF AddNone, IInv, Lists, Scbs
  <2> QED
    BY <2>2, <2>3, <2>4 DEF IInv
<1> QED
  BY <1>3, <1>4

\* Every step preserves the invariant.
LEMMA NextIInv == IInv /\ [Next]_vars => IInv'
<1> SUFFICES ASSUME IInv, [Next]_vars PROVE IInv'
  OBVIOUS
<1>1. CASE AllocFifos
  BY <1>1, AllocFifosStep
<1>2. CASE AllocHscbs
  BY <1>2, AllocHscbsStep
<1>3. CASE AllocSense
  BY <1>3, AllocSenseStep
<1>4. CASE FirstScbs
  <2>1. /\ step' \in {"ready", "failed"} /\ refused' \in BOOLEAN
        /\ step' = "failed" => numscbs' = 0
    BY <1>4 DEF FirstScbs, IInv, TypeOK
  <2> QED
    BY <1>4, <2>1, AllocScbsStep DEF FirstScbs
<1>5. CASE MoreScbs
  BY <1>5, AllocScbsStep DEF MoreScbs
<1>6. CASE UNCHANGED vars
  BY <1>6 DEF vars, IInv, TypeOK, Layout, Lists, Scbs, First, Aligned, End
<1> QED
  BY <1>1, <1>2, <1>3, <1>4, <1>5, <1>6 DEF Next, NotFound

\* The inductive invariant holds in every behaviour of the allocator.
THEOREM Invariance == Spec => []IInv
  BY InitIInv, NextIInv, PTL DEF Spec

\* The types of the allocator's variables: in particular remain, an
\* unsigned long in the code, never goes below zero.
THEOREM TypeCorrect == Spec => []TypeOK
<1>1. IInv => TypeOK
  BY DEF IInv
<1> QED
  BY <1>1, Invariance, PTL

-----------------------------------------------------------------------------
\* There are at most 52 SCBs, so the used parts of the two arrays stay
\* inside the page each of them was given.
LEMMA ArraysFit ==
    ASSUME IInv
    PROVE  /\ numscbs \in Nat /\ numscbs <= 52
           /\ step = "ready" =>
                /\ qoutfifo \in Nat
                /\ hscbs = qoutfifo + PageSize /\ sense = hscbs + PageSize
                /\ qoutfifo = First
                /\ \A i \in Scbs :
                     /\ hscbs <= Hscb(i) /\ Hscb(i) + HscbSize <= sense
                     /\ sense <= Sense(i)
                     /\ Sense(i) + SenseSize <= sense + PageSize
<1>1. /\ base \in Nat /\ First \in Nat /\ base <= First /\ numscbs \in Nat
      /\ ptr \in Nat
  BY LayoutAssumption, AlignedBounds DEF IInv, TypeOK, First
<1>2. numscbs <= 52
  BY <1>1
  DEF IInv, Layout, Lists, End, SgListSize, PageSize, ExtensionSize
<1>3. ASSUME step = "ready"
      PROVE  /\ qoutfifo = First /\ hscbs = qoutfifo + PageSize
             /\ sense = hscbs + PageSize
  BY <1>1, <1>3 DEF IInv, Layout, PageSize
<1>4. ASSUME step = "ready", NEW i \in Scbs
      PROVE  /\ hscbs <= Hscb(i) /\ Hscb(i) + HscbSize <= sense
             /\ sense <= Sense(i)
             /\ Sense(i) + SenseSize <= sense + PageSize
  BY <1>1, <1>2, <1>3, <1>4
  DEF Scbs, Hscb, Sense, HscbSize, SenseSize, PageSize
<1> QED
  BY <1>1, <1>2, <1>3, <1>4

\* No structure the driver shares with the chip overlaps another one, for
\* every address of the extension and every history of the pool, although
\* each of the two arrays is given a page whatever size it asks for.
THEOREM StructuresAreDisjoint == Spec => []NoOverlap
<1>1. IInv => NoOverlap
  <2> SUFFICES ASSUME IInv, step = "ready", NEW i \in Scbs
      PROVE  /\ Disjoint(Hscb(i), HscbSize, qoutfifo, FifosSize)
             /\ Disjoint(Sense(i), SenseSize, qoutfifo, FifosSize)
             /\ Disjoint(sg_list[i], SgListSize, qoutfifo, FifosSize)
             /\ \A j \in Scbs :
                  /\ Disjoint(Hscb(i), HscbSize, Sense(j), SenseSize)
                  /\ Disjoint(Hscb(i), HscbSize, sg_list[j], SgListSize)
                  /\ Disjoint(Sense(i), SenseSize, sg_list[j], SgListSize)
                  /\ i # j => Disjoint(sg_list[i], SgListSize,
                                       sg_list[j], SgListSize)
    BY DEF NoOverlap
  <2>1. /\ qoutfifo \in Nat /\ hscbs = qoutfifo + PageSize
        /\ sense = hscbs + PageSize /\ qoutfifo = First /\ numscbs \in Nat
    BY ArraysFit
  <2>2. \A k \in Scbs :
          /\ k \in Int /\ Hscb(k) \in Int /\ Sense(k) \in Int
          /\ hscbs <= Hscb(k) /\ Hscb(k) + HscbSize <= sense
          /\ sense <= Sense(k) /\ Sense(k) + SenseSize <= sense + PageSize
    BY <2>1, ArraysFit DEF Scbs, Hscb, Sense, HscbSize, SenseSize, PageSize
  <2>3. \A k \in Scbs : sg_list[k] \in Nat /\ sg_list[k] >= sense + PageSize
    BY <2>1 DEF IInv, TypeOK, Lists, Scbs, PageSize
  <2>4. /\ Disjoint(Hscb(i), HscbSize, qoutfifo, FifosSize)
        /\ Disjoint(Sense(i), SenseSize, qoutfifo, FifosSize)
        /\ Disjoint(sg_list[i], SgListSize, qoutfifo, FifosSize)
    BY <2>1, <2>2, <2>3
    DEF Disjoint, FifosSize, PageSize, HscbSize, SenseSize, SgListSize
  <2>5. ASSUME NEW j \in Scbs
        PROVE  /\ Disjoint(Hscb(i), HscbSize, Sense(j), SenseSize)
               /\ Disjoint(Hscb(i), HscbSize, sg_list[j], SgListSize)
               /\ Disjoint(Sense(i), SenseSize, sg_list[j], SgListSize)
    BY <2>1, <2>2, <2>3
    DEF Disjoint, PageSize, HscbSize, SenseSize, SgListSize
  <2>6. ASSUME NEW j \in Scbs, i # j
        PROVE  Disjoint(sg_list[i], SgListSize, sg_list[j], SgListSize)
    <3>1. i < j \/ j < i
      BY <2>2, <2>6
    <3> QED
      BY <3>1 DEF IInv, Lists, Disjoint
  <2> QED
    BY <2>4, <2>5, <2>6
<1> QED
  BY <1>1, Invariance, PTL

\* Nothing the driver writes lies outside the extension, for every address
\* StorPort may give it.
THEOREM WritesStayInside == Spec => []InsideExtension
<1>1. IInv => InsideExtension
  <2> SUFFICES ASSUME IInv PROVE InsideExtension
    OBVIOUS
  <2>1. /\ base \in Nat /\ First \in Nat /\ base <= First
        /\ First < base + PageSize /\ ptr \in Nat /\ numscbs \in Nat
    BY LayoutAssumption, AlignedBounds DEF IInv, TypeOK, First
  <2>2. ptr <= base + ExtensionSize
    BY DEF IInv, Layout, End
  <2>3. ASSUME step \in {"scbs", "ready"}
        PROVE  /\ qoutfifo >= base /\ qoutfifo + FifosSize <= hscbs
               /\ hscbs + AHC_SCB_MAX_ALLOC * HscbSize <= base + ExtensionSize
    <3>1. qoutfifo = First /\ hscbs = First + PageSize
      BY <2>3 DEF IInv, Layout
    <3> QED
      BY <2>1, <3>1
      DEF FifosSize, PageSize, AHC_SCB_MAX_ALLOC, HscbSize, ExtensionSize
  <2>4. ASSUME NEW i \in Scbs
        PROVE  /\ base <= sg_list[i]
               /\ sg_list[i] + SgListSize <= base + ExtensionSize
    <3>1. /\ sg_list[i] \in Nat /\ First + 3 * PageSize <= sg_list[i]
          /\ sg_list[i] + SgListSize <= ptr
      BY DEF IInv, TypeOK, Lists, Scbs
    <3> QED
      BY <2>1, <2>2, <3>1 DEF PageSize, SgListSize, ExtensionSize
  <2> QED
    BY <2>2, <2>3, <2>4 DEF InsideExtension
<1> QED
  BY <1>1, Invariance, PTL

-----------------------------------------------------------------------------
(***************************************************************************)
(* For every address of the uncached extension, both sizes of an S/G list  *)
(* and any number of failures of pool memory: no piece of memory belongs   *)
(* to two SCBs of the aic79xx, and failures cost none.                     *)
(*                                                                         *)
(* The argument.  Of each kind there is one page with pieces left, and     *)
(* what is left is its end (FreeStart).  The pages in use are different    *)
(* (Current), no piece given out lies in what is left (Behind), and a      *)
(* refill takes pages that lie behind everything given out.  That nothing  *)
(* is lost is bookkeeping: the pages handed out are the pieces given out   *)
(* and the pieces left (Counted), whatever failed in between.              *)
(***************************************************************************)

\* Where the pieces may lie: behind the page of the queues.
Start == shared + PageSize

\* The first of the pieces left in the newest page of a kind.
FreeStart(k, pg, lf) == pg[k] + (Ahd!PerPage(k) - lf[k]) * Ahd!Size(k)

\* What pointer, pages, pieces left and SCBs have for types.
Typed(p, pg, lf, sc) ==
    /\ p \in Nat
    /\ pg \in [Ahd!Kinds -> Nat]
    /\ lf \in [Ahd!Kinds -> Nat]
    /\ \A k \in Ahd!Kinds : lf[k] <= Ahd!PerPage(k)
    /\ Cardinality(DOMAIN sc) \in Nat
    /\ sc \in [0 .. Cardinality(DOMAIN sc) - 1 -> [Ahd!Kinds -> Nat]]

\* The pages of which something is left are different.
Current(p, pg, lf) ==
    /\ \A k \in Ahd!Kinds :
         lf[k] > 0 => Start <= pg[k] /\ pg[k] + PageSize <= p
    /\ \A k, l \in Ahd!Kinds :
         k # l /\ lf[k] > 0 /\ lf[l] > 0 =>
           pg[k] + PageSize <= pg[l] \/ pg[l] + PageSize <= pg[k]

\* The pieces of the SCBs lie between the queues and the pointer.
Given(p, sc) ==
    \A i \in DOMAIN sc, k \in Ahd!Kinds :
      Start <= sc[i][k] /\ sc[i][k] + Ahd!Size(k) <= p

\* No two pieces overlap.
Separate(sc) ==
    \A i, j \in DOMAIN sc, k, l \in Ahd!Kinds :
      i # j \/ k # l =>
        \/ sc[i][k] + Ahd!Size(k) <= sc[j][l]
        \/ sc[j][l] + Ahd!Size(l) <= sc[i][k]

\* No piece given out is one of those left.
Behind(pg, lf, sc) ==
    \A i \in DOMAIN sc, k, l \in Ahd!Kinds :
      lf[l] > 0 =>
        \/ sc[i][k] + Ahd!Size(k) <= FreeStart(l, pg, lf)
        \/ pg[l] + PageSize <= sc[i][k]

\* Bytes in pages of the kind k, when n SCBs have pieces and lf[k] are left.
Taken(k, lf, n) == (n + lf[k]) * Ahd!Size(k)

\* All pages behind the queues are pages of pieces, and nothing is lost.
Counted(p, lf, n) ==
    /\ p = Start + Taken("hscb", lf, n) + Taken("sg", lf, n)
             + Taken("sense", lf, n)
    /\ \A k \in Ahd!Kinds : (n + lf[k]) % Ahd!PerPage(k) = 0

Pools(p, pg, lf, sc) ==
    /\ Typed(p, pg, lf, sc)
    /\ Current(p, pg, lf)
    /\ Given(p, sc)
    /\ Separate(sc)
    /\ Behind(pg, lf, sc)
    /\ Counted(p, lf, Cardinality(DOMAIN sc))

\* The inductive invariant of the aic79xx.
AhdIInv ==
    /\ base \in Bases /\ sgSize \in SgListSizes
    /\ {shared, failures} \subseteq Nat
    /\ ahdStep \in {"shared", "scbs", "ready", "failed"}
    /\ ahdRefused \in BOOLEAN
    /\ ptr <= End
    /\ ahdStep = "shared" => /\ ptr = base /\ shared = 0
                             /\ scbs = [i \in {} |-> page]
                             /\ page = [k \in Ahd!Kinds |-> 0]
                             /\ left = [k \in Ahd!Kinds |-> 0]
                             /\ ahdRefused = FALSE
    /\ ahdStep = "scbs" => ahdRefused = FALSE
    /\ ahdStep # "shared" => /\ shared = First /\ ptr % PageSize = 0
                             /\ Pools(ptr, page, left, scbs)

-----------------------------------------------------------------------------
(* Sizes and pages.                                                        *)

\* The instance has a cardinality of its own, which is that of FiniteSets.
LEMMA SameCardinality == \A S : Ahd!Cardinality(S) = Cardinality(S)
  BY DEF Ahd!Cardinality, Cardinality

\* The pieces of a page fill it.
LEMMA Sizes ==
    ASSUME sgSize \in SgListSizes
    PROVE  /\ sgSize = 1024 \/ sgSize = 2048
           /\ Ahd!Size("hscb") = 64 /\ Ahd!PerPage("hscb") = 64
           /\ Ahd!Size("sense") = 256 /\ Ahd!PerPage("sense") = 16
           /\ Ahd!Size("sg") = sgSize
           /\ sgSize = 1024 => Ahd!PerPage("sg") = 4
           /\ sgSize = 2048 => Ahd!PerPage("sg") = 2
<1>1. sgSize = 1024 \/ sgSize = 2048
  BY PoolsAssumption
<1>2. /\ Ahd!Size("hscb") = 64 /\ Ahd!Size("sense") = 256
      /\ Ahd!Size("sg") = sgSize
  BY DEF Ahd!Size
<1>3. Ahd!PerPage("hscb") = 64 /\ Ahd!PerPage("sense") = 16
  BY <1>2 DEF Ahd!PerPage, Ahd!PageSize
<1>4. sgSize = 1024 => Ahd!PerPage("sg") = 4
  BY <1>2 DEF Ahd!PerPage, Ahd!PageSize
<1>5. sgSize = 2048 => Ahd!PerPage("sg") = 2
  BY <1>2 DEF Ahd!PerPage, Ahd!PageSize
<1> QED
  BY <1>1, <1>2, <1>3, <1>4, <1>5

\* The same of any kind.
LEMMA KindSizes ==
    ASSUME sgSize \in SgListSizes, NEW k \in Ahd!Kinds
    PROVE  /\ Ahd!Size(k) \in Nat /\ Ahd!Size(k) >= 64
           /\ Ahd!PerPage(k) \in 1 .. 64
           /\ Ahd!PerPage(k) * Ahd!Size(k) = PageSize
           /\ \A m \in Nat : m * Ahd!Size(k) \in Nat
<1>1. k = "hscb" \/ k = "sg" \/ k = "sense"
  BY DEF Ahd!Kinds
<1>2. CASE k = "hscb"
  BY <1>2, Sizes DEF PageSize
<1>3. CASE k = "sense"
  BY <1>3, Sizes DEF PageSize
<1>4. CASE k = "sg"
  <2>1. CASE sgSize = 1024
    BY <1>4, <2>1, Sizes DEF PageSize
  <2>2. CASE sgSize = 2048
    BY <1>4, <2>2, Sizes DEF PageSize
  <2> QED
    BY <2>1, <2>2, Sizes
<1> QED
  BY <1>1, <1>2, <1>3, <1>4

\* A pointer at the start of a page is where the next page is.
LEMMA AhdAligned ==
    ASSUME NEW p \in Nat, p % PageSize = 0
    PROVE  Ahd!Aligned(p) = p
  BY DEF Ahd!Aligned, Ahd!PageSize, PageSize

\* A page further, or none, is the start of a page again.
LEMMA PagesOnwards ==
    ASSUME NEW p \in Nat, p % PageSize = 0, NEW n \in {0, 4096}
    PROVE  p + n \in Nat /\ (p + n) % PageSize = 0
<1>1. CASE n = 0
  BY <1>1
<1>2. CASE n = 4096
  BY <1>2, NextPage DEF PageSize
<1> QED
  BY <1>1, <1>2

\* How many pages are taken before that of each kind, and altogether.
LEMMA Counts ==
    LET one(k) == IF k \in Ahd!Empty THEN 1 ELSE 0
        rank(k) == Cardinality(Ahd!Empty \cap Ahd!Before(k))
    IN  /\ rank("hscb") = 0
        /\ rank("sg") = one("hscb")
        /\ rank("sense") = one("hscb") + one("sg")
        /\ Cardinality(Ahd!Empty) = one("hscb") + one("sg") + one("sense")
<1> DEFINE E == Ahd!Empty
           one(k) == IF k \in E THEN 1 ELSE 0
           h == E \cap {"hscb"}
           hs == E \cap {"hscb", "sg"}
           hss == E \cap {"hscb", "sg", "sense"}
<1>1. Cardinality({}) = 0 /\ IsFiniteSet({})
  BY FS_EmptySet
<1>2. Cardinality(h) = one("hscb") /\ IsFiniteSet(h)
  <2>1. CASE "hscb" \in E
    <3>1. h = {} \cup {"hscb"}
      BY <2>1
    <3> QED
      BY <1>1, <2>1, <3>1, FS_AddElement
  <2>2. CASE "hscb" \notin E
    <3>1. h = {}
      BY <2>2
    <3> QED
      BY <1>1, <2>2, <3>1
  <2> QED
    BY <2>1, <2>2
<1>3. Cardinality(hs) = one("hscb") + one("sg") /\ IsFiniteSet(hs)
  <2>1. CASE "sg" \in E
    <3>1. hs = h \cup {"sg"} /\ "sg" \notin h
      BY <2>1
    <3> QED
      BY <1>2, <2>1, <3>1, FS_AddElement
  <2>2. CASE "sg" \notin E
    <3>1. hs = h
      BY <2>2
    <3> QED
      BY <1>2, <2>2, <3>1
  <2> QED
    BY <2>1, <2>2
<1>4. Cardinality(hss) = one("hscb") + one("sg") + one("sense")
  <2>1. CASE "sense" \in E
    <3>1. hss = hs \cup {"sense"} /\ "sense" \notin hs
      BY <2>1
    <3> QED
      BY <1>3, <2>1, <3>1, FS_AddElement
  <2>2. CASE "sense" \notin E
    <3>1. hss = hs
      BY <2>2
    <3> QED
      BY <1>3, <2>2, <3>1
  <2> QED
    BY <2>1, <2>2
<1>5. E = hss
  BY DEF Ahd!Empty, Ahd!Kinds
<1>6. /\ Ahd!Before("hscb") = {} /\ Ahd!Before("sg") = {"hscb"}
      /\ Ahd!Before("sense") = {"hscb", "sg"}
  BY DEF Ahd!Before
<1> QED
  BY <1>1, <1>2, <1>3, <1>4, <1>5, <1>6

\* Where the page of each kind is taken, if it is taken at all.
LEMMA Pointers ==
    ASSUME ptr \in Nat, ptr % PageSize = 0
    PROVE  /\ Ahd!Pointer("hscb") = ptr
           /\ "hscb" \in Ahd!Empty => Ahd!Pointer("sg") = ptr + PageSize
           /\ "hscb" \notin Ahd!Empty => Ahd!Pointer("sg") = ptr
           /\ "hscb" \in Ahd!Empty /\ "sg" \in Ahd!Empty =>
                Ahd!Pointer("sense") = ptr + 2 * PageSize
           /\ "hscb" \in Ahd!Empty /\ "sg" \notin Ahd!Empty =>
                Ahd!Pointer("sense") = ptr + PageSize
           /\ "hscb" \notin Ahd!Empty /\ "sg" \in Ahd!Empty =>
                Ahd!Pointer("sense") = ptr + PageSize
           /\ "hscb" \notin Ahd!Empty /\ "sg" \notin Ahd!Empty =>
                Ahd!Pointer("sense") = ptr
<1>1. Ahd!Aligned(ptr) = ptr
  BY AhdAligned
<1>2. \A k : Ahd!Pointer(k) =
        LET pages == Cardinality(Ahd!Empty \cap Ahd!Before(k))
        IN  IF pages = 0 THEN ptr ELSE ptr + pages * PageSize
  BY <1>1, SameCardinality DEF Ahd!Pointer, Ahd!PageSize, PageSize
<1> QED
  BY <1>2, Counts DEF PageSize

\* Refill takes whole pages behind everything, a different one for each kind.
LEMMA RefillTakesPages ==
    ASSUME ptr \in Nat, ptr % PageSize = 0, page \in [Ahd!Kinds -> Nat],
           NEW K, K \in {Ahd!Empty} \cup
                        {Ahd!Empty \cap Ahd!Before(k) : k \in Ahd!Kinds},
           Ahd!Refill(K)
    PROVE  LET one(k) == IF k \in K THEN PageSize ELSE 0
           IN  /\ K \subseteq Ahd!Empty
               /\ page' \in [Ahd!Kinds -> Nat]
               /\ \A j \in Ahd!Kinds : j \notin K => page'[j] = page[j]
               /\ \A j \in K : /\ page'[j] = Ahd!Pointer(j)
                               /\ ptr <= page'[j]
                               /\ page'[j] + PageSize <= ptr'
               /\ \A j, l \in K : j # l => \/ page'[j] + PageSize <= page'[l]
                                           \/ page'[l] + PageSize <= page'[j]
               /\ ptr' = ptr + one("hscb") + one("sg") + one("sense")
               /\ ptr' \in Nat /\ ptr' % PageSize = 0
               /\ ptr <= End /\ (\A j \in K : Ahd!Room(page'[j])) /\ base \in Nat
                    => ptr' <= End
<1> DEFINE one(k) == IF k \in K THEN PageSize ELSE 0
<1>1. K \subseteq Ahd!Empty /\ Ahd!Empty \subseteq {"hscb", "sg", "sense"}
  BY DEF Ahd!Empty, Ahd!Kinds
<1>2. /\ "sg" \in K => ("hscb" \in K <=> "hscb" \in Ahd!Empty)
      /\ "sense" \in K => /\ "hscb" \in K <=> "hscb" \in Ahd!Empty
                          /\ "sg" \in K <=> "sg" \in Ahd!Empty
  BY DEF Ahd!Before, Ahd!Kinds
<1>3. \A k \in Ahd!Kinds : Ahd!Pointer(k) \in Nat /\ Ahd!Pointer(k) % PageSize = 0
  BY Pointers DEF Ahd!Kinds, PageSize
<1>4. /\ page' = [k \in Ahd!Kinds |->
                    IF k \in K THEN Ahd!Pointer(k) ELSE page[k]]
  <2>1. \A k \in Ahd!Kinds : Ahd!Aligned(Ahd!Pointer(k)) = Ahd!Pointer(k)
    BY <1>3, AhdAligned
  <2> QED
    BY <2>1 DEF Ahd!Refill
<1>5. /\ Cardinality(K) * PageSize = one("hscb") + one("sg") + one("sense")
      /\ Cardinality(K) \in Nat
  <2>1. CASE K = Ahd!Empty
    BY <2>1, Counts DEF PageSize
  <2>2. CASE K = Ahd!Empty \cap Ahd!Before("hscb")
    <3>1. K = {}
      BY <2>2 DEF Ahd!Before
    <3> QED
      BY <3>1, FS_EmptySet DEF PageSize
  <2>3. CASE K = Ahd!Empty \cap Ahd!Before("sg")
    <3>1. "sg" \notin K /\ "sense" \notin K
          /\ ("hscb" \in K <=> "hscb" \in Ahd!Empty)
      BY <2>3 DEF Ahd!Before
    <3> QED
      BY <2>3, <3>1, Counts DEF PageSize
  <2>4. CASE K = Ahd!Empty \cap Ahd!Before("sense")
    <3>1. "sense" \notin K /\ ("hscb" \in K <=> "hscb" \in Ahd!Empty)
          /\ ("sg" \in K <=> "sg" \in Ahd!Empty)
      BY <2>4 DEF Ahd!Before
    <3> QED
      BY <2>4, <3>1, Counts DEF PageSize
  <2> QED
    BY <2>1, <2>2, <2>3, <2>4 DEF Ahd!Kinds
<1> HIDE DEF one
<1>13. /\ one("hscb") = IF "hscb" \in K THEN 4096 ELSE 0
       /\ one("sg") = IF "sg" \in K THEN 4096 ELSE 0
       /\ one("sense") = IF "sense" \in K THEN 4096 ELSE 0
  BY DEF one, PageSize
<1>14. /\ one("hscb") \in {0, 4096} /\ one("sg") \in {0, 4096}
       /\ one("sense") \in {0, 4096}
  BY <1>13
<1>6. ptr' = ptr + one("hscb") + one("sg") + one("sense")
  <2>1. Ahd!Aligned(ptr) = ptr
    BY AhdAligned
  <2>2. CASE K = {}
    <3>1. ptr' = ptr
      BY <2>2 DEF Ahd!Refill
    <3>2. one("hscb") = 0 /\ one("sg") = 0 /\ one("sense") = 0
      BY <1>13, <2>2
    <3> QED
      BY <3>1, <3>2
  <2>3. CASE K # {}
    <3>1. ptr' = Ahd!Aligned(ptr) + Cardinality(K) * Ahd!PageSize
      BY <2>3, SameCardinality DEF Ahd!Refill
    <3>2. ptr' = ptr + Cardinality(K) * PageSize
      BY <2>1, <3>1 DEF Ahd!PageSize, PageSize
    <3> QED
      BY <1>5, <1>14, <3>2
  <2> QED
    BY <2>2, <2>3
<1>7. /\ "hscb" \in K => Ahd!Pointer("hscb") = ptr
      /\ "sg" \in K => Ahd!Pointer("sg") = ptr + one("hscb")
      /\ "sense" \in K => Ahd!Pointer("sense") = ptr + one("hscb") + one("sg")
  BY <1>1, <1>2, <1>13, Pointers DEF PageSize
<1>8. ptr' \in Nat /\ ptr' % PageSize = 0
  <2>1. ptr + one("hscb") \in Nat /\ (ptr + one("hscb")) % PageSize = 0
    BY <1>14, PagesOnwards
  <2>2. /\ ptr + one("hscb") + one("sg") \in Nat
        /\ (ptr + one("hscb") + one("sg")) % PageSize = 0
    BY <1>14, <2>1, PagesOnwards
  <2> QED
    BY <1>6, <1>14, <2>2, PagesOnwards
<1>9. \A j \in K : page'[j] = Ahd!Pointer(j) /\ page'[j] \in Nat
  BY <1>1, <1>3, <1>4 DEF Ahd!Kinds
<1>10. \A j \in K : ptr <= page'[j] /\ page'[j] + PageSize <= ptr'
  BY <1>1, <1>6, <1>7, <1>9, <1>13 DEF PageSize
<1>11. ASSUME NEW j \in K, NEW l \in K, j # l
       PROVE  page'[j] + PageSize <= page'[l] \/ page'[l] + PageSize <= page'[j]
  <2>1. j \in {"hscb", "sg", "sense"} /\ l \in {"hscb", "sg", "sense"}
    BY <1>1
  <2>2. /\ "hscb" \in K /\ "sg" \in K => page'["hscb"] + PageSize <= page'["sg"]
        /\ "hscb" \in K /\ "sense" \in K =>
             page'["hscb"] + PageSize <= page'["sense"]
        /\ "sg" \in K /\ "sense" \in K =>
             page'["sg"] + PageSize <= page'["sense"]
    BY <1>7, <1>9, <1>13 DEF PageSize
  <2> QED
    BY <1>11, <2>1, <2>2
<1>12. ASSUME ptr <= End, \A j \in K : Ahd!Room(page'[j]), base \in Nat
       PROVE  ptr' <= End
  <2>1. \A j \in K : page'[j] + PageSize <= End
    BY <1>9, <1>12
    DEF Ahd!Room, End, Ahd!ExtensionSize, ExtensionSize, Ahd!PageSize, PageSize
  <2>2. CASE K = {}
    BY <1>6, <1>12, <1>13, <2>2 DEF PageSize
  <2>3. CASE "sense" \in K
    BY <1>6, <1>7, <1>9, <1>13, <2>1, <2>3 DEF PageSize
  <2>4. CASE "sense" \notin K /\ "sg" \in K
    <3>1. page'["sg"] = ptr + one("hscb") /\ page'["sg"] + PageSize <= End
      BY <1>7, <1>9, <2>1, <2>4
    <3>2. one("sg") = PageSize /\ one("sense") = 0
      BY <1>13, <2>4 DEF PageSize
    <3> QED
      BY <1>6, <1>14, <3>1, <3>2 DEF PageSize
  <2>5. CASE "sense" \notin K /\ "sg" \notin K /\ "hscb" \in K
    BY <1>6, <1>7, <1>9, <1>13, <2>1, <2>5 DEF PageSize
  <2>6. K = {} \/ "sense" \in K \/ "sg" \in K \/ "hscb" \in K
    BY <1>1
  <2> QED
    BY <2>2, <2>3, <2>4, <2>5, <2>6
<1>15. /\ page' \in [Ahd!Kinds -> Nat]
       /\ \A j \in Ahd!Kinds : j \notin K => page'[j] = page[j]
  BY <1>3, <1>4
<1> QED
  BY <1>1, <1>6, <1>8, <1>9, <1>10, <1>11, <1>12, <1>15 DEF one

-----------------------------------------------------------------------------
(* A refill and a batch keep the pools.                                    *)

\* What the invariant of the pools says of numbers.
LEMMA PoolNumbers ==
    ASSUME sgSize \in SgListSizes, shared \in Nat,
           NEW p, NEW pg, NEW lf, NEW sc, Pools(p, pg, lf, sc)
    PROVE  /\ p \in Nat /\ Start \in Nat /\ Start <= p
           /\ Cardinality(DOMAIN sc) \in Nat
           /\ DOMAIN sc = 0 .. Cardinality(DOMAIN sc) - 1
           /\ \A k \in Ahd!Kinds :
                /\ pg[k] \in Nat /\ lf[k] \in Nat /\ lf[k] <= Ahd!PerPage(k)
                /\ Taken(k, lf, Cardinality(DOMAIN sc)) \in Nat
           /\ \A i \in DOMAIN sc, k \in Ahd!Kinds : sc[i][k] \in Nat
<1>1. Typed(p, pg, lf, sc)
  BY DEF Pools
<1>2. Start \in Nat
  BY DEF Start, PageSize
<1>3. ASSUME NEW k \in Ahd!Kinds
      PROVE  /\ pg[k] \in Nat /\ lf[k] \in Nat /\ lf[k] <= Ahd!PerPage(k)
             /\ Taken(k, lf, Cardinality(DOMAIN sc)) \in Nat
  <2>1. pg[k] \in Nat /\ lf[k] \in Nat /\ lf[k] <= Ahd!PerPage(k)
    BY <1>1 DEF Typed
  <2>2. Cardinality(DOMAIN sc) + lf[k] \in Nat
    BY <1>1, <2>1 DEF Typed
  <2> QED
    BY <2>1, <2>2, KindSizes DEF Taken
<1>4. "hscb" \in Ahd!Kinds /\ "sg" \in Ahd!Kinds /\ "sense" \in Ahd!Kinds
  BY DEF Ahd!Kinds
<1>5. Counted(p, lf, Cardinality(DOMAIN sc))
  BY DEF Pools
<1>6. Start <= p
  BY <1>2, <1>3, <1>4, <1>5 DEF Counted
<1>7. p \in Nat /\ Cardinality(DOMAIN sc) \in Nat
  BY <1>1 DEF Typed
<1>8. sc \in [0 .. Cardinality(DOMAIN sc) - 1 -> [Ahd!Kinds -> Nat]]
  BY <1>1 DEF Typed
<1>9. /\ DOMAIN sc = 0 .. Cardinality(DOMAIN sc) - 1
      /\ \A i \in DOMAIN sc : sc[i] \in [Ahd!Kinds -> Nat]
  BY <1>8
<1>10. \A i \in DOMAIN sc, k \in Ahd!Kinds : sc[i][k] \in Nat
  BY <1>9
<1> QED
  BY <1>2, <1>3, <1>6, <1>7, <1>9, <1>10

\* Bytes taken grow by a page where a page is added to nothing, and a
\* multiple of the pieces of a page stays one.
LEMMA PageTaken ==
    ASSUME sgSize \in SgListSizes, NEW k \in Ahd!Kinds, NEW n \in Nat,
           n % Ahd!PerPage(k) = 0
    PROVE  /\ (n + Ahd!PerPage(k)) * Ahd!Size(k) = n * Ahd!Size(k) + PageSize
           /\ (n + Ahd!PerPage(k)) % Ahd!PerPage(k) = 0
<1>1. k = "hscb" \/ k = "sg" \/ k = "sense"
  BY DEF Ahd!Kinds
<1>2. CASE k = "hscb"
  BY <1>2, Sizes DEF PageSize
<1>3. CASE k = "sense"
  BY <1>3, Sizes DEF PageSize
<1>4. CASE k = "sg"
  <2>1. CASE sgSize = 1024
    BY <1>4, <2>1, Sizes DEF PageSize
  <2>2. CASE sgSize = 2048
    BY <1>4, <2>2, Sizes DEF PageSize
  <2> QED
    BY <2>1, <2>2, Sizes
<1> QED
  BY <1>1, <1>2, <1>3, <1>4

\* The pages a refill takes are pages of pieces like those before it.
LEMMA RefillKeepsPools ==
    ASSUME sgSize \in SgListSizes, shared \in Nat, ptr % PageSize = 0,
           Pools(ptr, page, left, scbs),
           NEW K, K \in {Ahd!Empty} \cup
                        {Ahd!Empty \cap Ahd!Before(k) : k \in Ahd!Kinds},
           Ahd!Refill(K),
           NEW rest, rest = [k \in Ahd!Kinds |->
                               IF k \in K THEN Ahd!PerPage(k) ELSE left[k]]
    PROVE  Pools(ptr', page', rest, scbs)
<1> DEFINE n == Cardinality(DOMAIN scbs)
           one(k) == IF k \in K THEN PageSize ELSE 0
<1>1. /\ ptr \in Nat /\ Start \in Nat /\ Start <= ptr /\ n \in Nat
      /\ \A k \in Ahd!Kinds :
           /\ page[k] \in Nat /\ left[k] \in Nat
           /\ left[k] <= Ahd!PerPage(k) /\ Taken(k, left, n) \in Nat
      /\ \A i \in DOMAIN scbs, k \in Ahd!Kinds : scbs[i][k] \in Nat
  BY PoolNumbers
<1>2. page \in [Ahd!Kinds -> Nat]
  BY DEF Pools, Typed
<1>3. /\ K \subseteq Ahd!Empty
      /\ page' \in [Ahd!Kinds -> Nat]
      /\ \A j \in Ahd!Kinds : j \notin K => page'[j] = page[j]
      /\ \A j \in K : ptr <= page'[j] /\ page'[j] + PageSize <= ptr'
      /\ \A j, l \in K : j # l => \/ page'[j] + PageSize <= page'[l]
                                  \/ page'[l] + PageSize <= page'[j]
      /\ ptr' = ptr + one("hscb") + one("sg") + one("sense")
      /\ ptr' \in Nat
  BY <1>1, <1>2, RefillTakesPages
<1>4. K \subseteq Ahd!Kinds /\ \A k \in K : left[k] = 0
  BY <1>3 DEF Ahd!Empty
<1>5. ptr <= ptr'
  <2>1. one("hscb") \in Nat /\ one("sg") \in Nat /\ one("sense") \in Nat
    BY DEF PageSize
  <2> HIDE DEF one
  <2> QED
    BY <1>1, <1>3, <2>1
<1>6. \A k \in Ahd!Kinds : /\ k \in K => rest[k] = Ahd!PerPage(k)
                           /\ k \notin K => rest[k] = left[k]
  OBVIOUS
<1>7. \A k \in Ahd!Kinds : /\ rest[k] \in Nat /\ rest[k] <= Ahd!PerPage(k)
                           /\ Ahd!PerPage(k) \in Nat /\ Ahd!Size(k) \in Nat
                           /\ page'[k] \in Nat
  BY <1>1, <1>3, <1>6, KindSizes
<1>8. Typed(ptr', page', rest, scbs)
  <2>1. rest \in [Ahd!Kinds -> Nat]
    BY <1>7
  <2> QED
    BY <1>3, <1>7, <2>1 DEF Pools, Typed
<1>9. Current(ptr', page', rest)
  <2>1. ASSUME NEW k \in Ahd!Kinds, rest[k] > 0
        PROVE  Start <= page'[k] /\ page'[k] + PageSize <= ptr'
    <3>1. CASE k \in K
      BY <1>1, <1>3, <1>7, <3>1
    <3>2. CASE k \notin K
      <4>1. left[k] > 0 /\ page'[k] = page[k]
        BY <1>3, <1>6, <2>1, <3>2
      <4>2. Start <= page[k] /\ page[k] + PageSize <= ptr
        BY <4>1 DEF Pools, Current
      <4> QED
        BY <1>1, <1>3, <1>5, <4>1, <4>2 DEF PageSize
    <3> QED
      BY <3>1, <3>2
  <2>2. \A k \in Ahd!Kinds : \A l \in K :
          k \notin K /\ rest[k] > 0 => page'[k] + PageSize <= page'[l]
    <3> SUFFICES ASSUME NEW k \in Ahd!Kinds, NEW l \in K, k \notin K, rest[k] > 0
                 PROVE  page'[k] + PageSize <= page'[l]
      OBVIOUS
    <3>1. left[k] > 0 /\ page'[k] = page[k]
      BY <1>3, <1>6
    <3>2. page[k] + PageSize <= ptr
      BY <3>1 DEF Pools, Current
    <3>3. page'[l] \in Nat /\ ptr <= page'[l]
      BY <1>3, <1>4, <1>7
    <3> QED
      BY <1>1, <3>1, <3>2, <3>3 DEF PageSize
  <2>3. ASSUME NEW k \in Ahd!Kinds, NEW l \in Ahd!Kinds, k # l, rest[k] > 0,
               rest[l] > 0
        PROVE  page'[k] + PageSize <= page'[l] \/ page'[l] + PageSize <= page'[k]
    <3>1. CASE k \in K /\ l \in K
      BY <1>3, <2>3, <3>1
    <3>2. CASE k \notin K /\ l \in K
      BY <2>2, <2>3, <3>2
    <3>3. CASE k \in K /\ l \notin K
      BY <2>2, <2>3, <3>3
    <3>4. CASE k \notin K /\ l \notin K
      <4>1. /\ left[k] > 0 /\ left[l] > 0
            /\ page'[k] = page[k] /\ page'[l] = page[l]
        BY <1>3, <1>6, <2>3, <3>4
      <4> QED
        BY <2>3, <4>1 DEF Pools, Current
    <3> QED
      BY <3>1, <3>2, <3>3, <3>4
  <2> QED
    BY <2>1, <2>3 DEF Current
<1>10. Given(ptr', scbs)
  <2> SUFFICES ASSUME NEW i \in DOMAIN scbs, NEW k \in Ahd!Kinds
               PROVE  Start <= scbs[i][k] /\ scbs[i][k] + Ahd!Size(k) <= ptr'
    BY DEF Given
  <2>1. Start <= scbs[i][k] /\ scbs[i][k] + Ahd!Size(k) <= ptr
    BY DEF Pools, Given
  <2> QED
    BY <1>1, <1>3, <1>5, <1>7, <2>1
<1>11. Separate(scbs)
  BY DEF Pools
<1>12. Behind(page', rest, scbs)
  <2> SUFFICES ASSUME NEW i \in DOMAIN scbs, NEW k \in Ahd!Kinds,
                      NEW l \in Ahd!Kinds, rest[l] > 0
               PROVE  \/ scbs[i][k] + Ahd!Size(k) <= FreeStart(l, page', rest)
                      \/ page'[l] + PageSize <= scbs[i][k]
    BY DEF Behind
  <2>1. CASE l \in K
    <3>1. FreeStart(l, page', rest) = page'[l]
      <4>1. Ahd!PerPage(l) - rest[l] = 0
        BY <1>6, <1>7, <2>1
      <4>2. 0 * Ahd!Size(l) = 0
        BY <1>7
      <4> QED
        BY <1>7, <4>1, <4>2 DEF FreeStart
    <3>2. scbs[i][k] + Ahd!Size(k) <= ptr /\ ptr <= page'[l]
      BY <1>3, <2>1 DEF Pools, Given
    <3> QED
      BY <1>1, <1>7, <3>1, <3>2
  <2>2. CASE l \notin K
    <3>1. left[l] > 0 /\ page'[l] = page[l] /\ rest[l] = left[l]
      BY <1>3, <1>6, <2>2
    <3>2. FreeStart(l, page', rest) = FreeStart(l, page, left)
      BY <3>1 DEF FreeStart
    <3> QED
      BY <3>1, <3>2 DEF Pools, Behind
  <2> QED
    BY <2>1, <2>2
<1>13. Counted(ptr', rest, n)
  <2>1. Counted(ptr, left, n)
    BY DEF Pools
  <2>2. ASSUME NEW k \in Ahd!Kinds
        PROVE  /\ Taken(k, rest, n) = Taken(k, left, n) + one(k)
               /\ (n + rest[k]) % Ahd!PerPage(k) = 0
    <3>1. CASE k \in K
      <4>1. left[k] = 0 /\ rest[k] = Ahd!PerPage(k)
        BY <1>4, <1>6, <3>1
      <4>2. n % Ahd!PerPage(k) = 0 /\ Taken(k, left, n) = n * Ahd!Size(k)
        BY <1>1, <2>1, <4>1 DEF Counted, Taken
      <4>3. /\ (n + Ahd!PerPage(k)) * Ahd!Size(k) = n * Ahd!Size(k) + PageSize
            /\ (n + Ahd!PerPage(k)) % Ahd!PerPage(k) = 0
        BY <1>1, <4>2, PageTaken
      <4> QED
        BY <3>1, <4>1, <4>2, <4>3 DEF Taken
    <3>2. CASE k \notin K
      <4>1. rest[k] = left[k]
        BY <1>6, <3>2
      <4>2. Taken(k, rest, n) = Taken(k, left, n)
        BY <4>1 DEF Taken
      <4>3. Taken(k, left, n) + one(k) = Taken(k, left, n)
        BY <1>1, <3>2
      <4>4. (n + left[k]) % Ahd!PerPage(k) = 0
        BY <2>1 DEF Counted
      <4> QED
        BY <4>1, <4>2, <4>3, <4>4
    <3> QED
      BY <3>1, <3>2
  <2>3. "hscb" \in Ahd!Kinds /\ "sg" \in Ahd!Kinds /\ "sense" \in Ahd!Kinds
    BY DEF Ahd!Kinds
  <2>4. \A k \in Ahd!Kinds : one(k) \in Nat
    BY DEF PageSize
  <2> HIDE DEF one
  <2>5. ptr' = Start + Taken("hscb", rest, n) + Taken("sg", rest, n)
                 + Taken("sense", rest, n)
    BY <1>1, <1>3, <2>1, <2>2, <2>3, <2>4 DEF Counted
  <2> QED
    BY <2>2, <2>5 DEF Counted
<1> QED
  BY <1>8, <1>9, <1>10, <1>11, <1>12, <1>13 DEF Pools

\* Where the j-th piece of a batch of n lies, when r pieces of its page were
\* left: behind what was given out, in front of what stays left, and in front
\* of the next piece.
LEMMA PieceBounds ==
    ASSUME sgSize \in SgListSizes, NEW k \in Ahd!Kinds, NEW a \in Nat,
           NEW r \in Nat, r <= Ahd!PerPage(k), NEW n \in Nat, n <= r,
           NEW j \in Nat, j < n
    PROVE  /\ Ahd!Piece(k, r, j) \in Nat
           /\ a + (Ahd!PerPage(k) - r) * Ahd!Size(k) <= a + Ahd!Piece(k, r, j)
           /\ a + Ahd!Piece(k, r, j) + Ahd!Size(k)
                <= a + (Ahd!PerPage(k) - (r - n)) * Ahd!Size(k)
           /\ a <= a + Ahd!Piece(k, r, j)
           /\ a + Ahd!Piece(k, r, j) + Ahd!Size(k) <= a + PageSize
           /\ \A m \in Nat : j < m /\ m < n =>
                a + Ahd!Piece(k, r, j) + Ahd!Size(k) <= a + Ahd!Piece(k, r, m)
<1>1. k = "hscb" \/ k = "sg" \/ k = "sense"
  BY DEF Ahd!Kinds
<1>2. CASE k = "hscb"
  BY <1>2, Sizes DEF PageSize, Ahd!Piece
<1>3. CASE k = "sense"
  BY <1>3, Sizes DEF PageSize, Ahd!Piece
<1>4. CASE k = "sg"
  <2>1. CASE sgSize = 1024
    BY <1>4, <2>1, Sizes DEF PageSize, Ahd!Piece
  <2>2. CASE sgSize = 2048
    BY <1>4, <2>2, Sizes DEF PageSize, Ahd!Piece
  <2> QED
    BY <2>1, <2>2, Sizes
<1> QED
  BY <1>1, <1>2, <1>3, <1>4

\* What stays left starts behind what was left before.
LEMMA FreeStartGrows ==
    ASSUME sgSize \in SgListSizes, NEW k \in Ahd!Kinds, NEW a \in Nat,
           NEW r \in Nat, r <= Ahd!PerPage(k), NEW n \in Nat, n <= r
    PROVE  /\ a <= a + (Ahd!PerPage(k) - (r - n)) * Ahd!Size(k)
           /\ a + (Ahd!PerPage(k) - r) * Ahd!Size(k)
                <= a + (Ahd!PerPage(k) - (r - n)) * Ahd!Size(k)
           /\ a + (Ahd!PerPage(k) - (r - n)) * Ahd!Size(k) \in Nat
           /\ a + (Ahd!PerPage(k) - r) * Ahd!Size(k) \in Nat
<1>1. k = "hscb" \/ k = "sg" \/ k = "sense"
  BY DEF Ahd!Kinds
<1>2. CASE k = "hscb"
  BY <1>2, Sizes
<1>3. CASE k = "sense"
  BY <1>3, Sizes
<1>4. CASE k = "sg"
  <2>1. CASE sgSize = 1024
    BY <1>4, <2>1, Sizes
  <2>2. CASE sgSize = 2048
    BY <1>4, <2>2, Sizes
  <2> QED
    BY <2>1, <2>2, Sizes
<1> QED
  BY <1>1, <1>2, <1>3, <1>4

\* What a batch of n SCBs leaves of each kind, and the SCBs after it.
LeftOf(rest, n) == [k \in Ahd!Kinds |-> rest[k] - n]

WithBatch(sc, pg, rest, n) ==
    LET m == Cardinality(DOMAIN sc)
    IN  [i \in 0 .. m + n - 1 |->
           IF i < m THEN sc[i]
           ELSE [k \in Ahd!Kinds |-> pg[k] + Ahd!Piece(k, rest[k], i - m)]]

\* A batch of n SCBs takes the first n of the pieces left of every kind.
LEMMA BatchKeepsPools ==
    ASSUME sgSize \in SgListSizes, shared \in Nat,
           NEW p, NEW pg, NEW rest, NEW sc, Pools(p, pg, rest, sc),
           NEW n \in Nat, \A k \in Ahd!Kinds : n <= rest[k],
           NEW lf, lf = LeftOf(rest, n),
           NEW new, new = WithBatch(sc, pg, rest, n)
    PROVE  /\ Pools(p, pg, lf, new)
           /\ Cardinality(DOMAIN new) = Cardinality(DOMAIN sc) + n
<1> DEFINE m == Cardinality(DOMAIN sc)
<1>1. /\ p \in Nat /\ Start \in Nat /\ Start <= p /\ m \in Nat
      /\ DOMAIN sc = 0 .. m - 1
      /\ \A k \in Ahd!Kinds :
           /\ pg[k] \in Nat /\ rest[k] \in Nat
           /\ rest[k] <= Ahd!PerPage(k) /\ Taken(k, rest, m) \in Nat
      /\ \A i \in DOMAIN sc, k \in Ahd!Kinds : sc[i][k] \in Nat
  BY PoolNumbers
<1>2. \A k \in Ahd!Kinds : /\ lf[k] = rest[k] - n /\ lf[k] \in Nat
                           /\ lf[k] <= Ahd!PerPage(k)
                           /\ Ahd!PerPage(k) \in Nat /\ Ahd!Size(k) \in Nat
  <2>1. \A k \in Ahd!Kinds : lf[k] = rest[k] - n
    BY DEF LeftOf
  <2>2. \A k \in Ahd!Kinds : Ahd!PerPage(k) \in Nat /\ Ahd!Size(k) \in Nat
    BY KindSizes
  <2> QED
    BY <1>1, <2>1, <2>2
<1>3. Cardinality(DOMAIN new) = m + n /\ DOMAIN new = 0 .. m + n - 1
  <2>1. DOMAIN new = 0 .. m + n - 1
    BY DEF WithBatch
  <2>2. m + n - 1 \in Int /\ 0 \in Int
    BY <1>1
  <2>3. Cardinality(0 .. m + n - 1) =
          IF 0 > m + n - 1 THEN 0 ELSE (m + n - 1) - 0 + 1
    BY <2>2, FS_Interval
  <2>4. Cardinality(0 .. m + n - 1) = m + n
    BY <1>1, <2>3
  <2> QED
    BY <2>1, <2>4
<1>4. \A i \in DOMAIN new : /\ i \in Nat /\ i < m + n
                            /\ i < m => i \in DOMAIN sc /\ new[i] = sc[i]
                            /\ i >= m => i - m \in Nat /\ i - m < n
  BY <1>1, <1>3 DEF WithBatch
<1>5. \A i \in DOMAIN new, k \in Ahd!Kinds :
        i >= m => new[i][k] = pg[k] + Ahd!Piece(k, rest[k], i - m)
  BY <1>1, <1>3 DEF WithBatch
<1> HIDE DEF m
<1>6. ASSUME NEW i \in DOMAIN new, NEW k \in Ahd!Kinds, i >= m
      PROVE  /\ new[i][k] \in Nat
             /\ rest[k] > 0
             /\ FreeStart(k, pg, rest) <= new[i][k]
             /\ new[i][k] + Ahd!Size(k) <= FreeStart(k, pg, lf)
             /\ pg[k] <= new[i][k]
             /\ new[i][k] + Ahd!Size(k) <= pg[k] + PageSize
             /\ Start <= pg[k] /\ pg[k] + PageSize <= p
             /\ \A j \in DOMAIN new : i < j =>
                  new[i][k] + Ahd!Size(k) <= new[j][k]
  <2>1. /\ new[i][k] = pg[k] + Ahd!Piece(k, rest[k], i - m)
        /\ i - m \in Nat /\ i - m < n
    BY <1>4, <1>5, <1>6
  <2>2. /\ pg[k] \in Nat /\ rest[k] \in Nat
        /\ rest[k] <= Ahd!PerPage(k) /\ n <= rest[k] /\ lf[k] = rest[k] - n
    BY <1>1, <1>2
  <2>3. /\ Ahd!Piece(k, rest[k], i - m) \in Nat
        /\ pg[k] + (Ahd!PerPage(k) - rest[k]) * Ahd!Size(k)
             <= pg[k] + Ahd!Piece(k, rest[k], i - m)
        /\ pg[k] + Ahd!Piece(k, rest[k], i - m) + Ahd!Size(k)
             <= pg[k] + (Ahd!PerPage(k) - (rest[k] - n)) * Ahd!Size(k)
        /\ pg[k] <= pg[k] + Ahd!Piece(k, rest[k], i - m)
        /\ pg[k] + Ahd!Piece(k, rest[k], i - m) + Ahd!Size(k)
             <= pg[k] + PageSize
        /\ \A x \in Nat : i - m < x /\ x < n =>
             pg[k] + Ahd!Piece(k, rest[k], i - m) + Ahd!Size(k)
               <= pg[k] + Ahd!Piece(k, rest[k], x)
    BY <2>1, <2>2, PieceBounds
  <2>4. rest[k] > 0
    BY <2>1, <2>2
  <2>5. Start <= pg[k] /\ pg[k] + PageSize <= p
    BY <2>4 DEF Pools, Current
  <2>6. ASSUME NEW j \in DOMAIN new, i < j
        PROVE  new[i][k] + Ahd!Size(k) <= new[j][k]
    <3>1. j - m \in Nat /\ i - m < j - m /\ j - m < n /\ j >= m
      BY <1>1, <1>4, <1>6, <2>6
    <3>2. new[j][k] = pg[k] + Ahd!Piece(k, rest[k], j - m)
      BY <1>5, <3>1
    <3> QED
      BY <2>1, <2>3, <3>1, <3>2
  <2>7. new[i][k] \in Nat
    BY <2>1, <2>2, <2>3
  <2>8. FreeStart(k, pg, lf)
          = pg[k] + (Ahd!PerPage(k) - (rest[k] - n)) * Ahd!Size(k)
    BY <2>2 DEF FreeStart
  <2> QED
    BY <2>1, <2>3, <2>4, <2>5, <2>6, <2>7, <2>8 DEF FreeStart
<1>7. ASSUME NEW k \in Ahd!Kinds
      PROVE  /\ FreeStart(k, pg, rest) <= FreeStart(k, pg, lf)
             /\ pg[k] <= FreeStart(k, pg, lf)
             /\ FreeStart(k, pg, lf) \in Nat /\ FreeStart(k, pg, rest) \in Nat
  <2>1. /\ pg[k] \in Nat /\ rest[k] \in Nat
        /\ rest[k] <= Ahd!PerPage(k) /\ n <= rest[k] /\ lf[k] = rest[k] - n
    BY <1>1, <1>2
  <2> QED
    BY <2>1, FreeStartGrows DEF FreeStart
<1>8. \A i \in DOMAIN new, k \in Ahd!Kinds : new[i][k] \in Nat
  BY <1>1, <1>4, <1>6
<1>9. Typed(p, pg, lf, new)
  <2>1. lf \in [Ahd!Kinds -> Nat]
    BY <1>2 DEF LeftOf
  <2>2. \A i \in 0 .. m + n - 1 : new[i] \in [Ahd!Kinds -> Nat]
    <3> SUFFICES ASSUME NEW i \in 0 .. m + n - 1
                 PROVE  new[i] \in [Ahd!Kinds -> Nat]
      OBVIOUS
    <3>1. CASE i < m
      <4>1. new[i] = sc[i] /\ i \in DOMAIN sc
        BY <1>3, <1>4, <3>1
      <4>2. sc[i] \in [Ahd!Kinds -> Nat]
        BY <1>1, <4>1 DEF Pools, Typed, m
      <4> QED
        BY <4>1, <4>2
    <3>2. CASE i >= m
      <4>1. new[i] = [k \in Ahd!Kinds |->
                        pg[k] + Ahd!Piece(k, rest[k], i - m)]
        BY <1>1, <3>2 DEF m, WithBatch
      <4>2. \A k \in Ahd!Kinds : pg[k] + Ahd!Piece(k, rest[k], i - m) \in Nat
        BY <1>3, <1>5, <1>8, <3>2
      <4> QED
        BY <4>1, <4>2
    <3> QED
      BY <1>1, <3>1, <3>2
  <2>3. new \in [0 .. m + n - 1 -> [Ahd!Kinds -> Nat]]
    <3>1. new = [i \in 0 .. m + n - 1 |-> new[i]]
      BY DEF m, WithBatch
    <3> QED
      BY <2>2, <3>1
  <2>4. pg \in [Ahd!Kinds -> Nat]
    BY DEF Pools, Typed
  <2>5. m + n \in Nat
    BY <1>1
  <2> QED
    BY <1>1, <1>2, <1>3, <2>1, <2>3, <2>4, <2>5 DEF Typed
<1>10. Current(p, pg, lf)
  <2>1. \A k \in Ahd!Kinds : lf[k] > 0 => rest[k] > 0
    BY <1>1, <1>2
  <2> QED
    BY <2>1 DEF Pools, Current
<1>11. Given(p, new)
  <2> SUFFICES ASSUME NEW i \in DOMAIN new, NEW k \in Ahd!Kinds
               PROVE  Start <= new[i][k] /\ new[i][k] + Ahd!Size(k) <= p
    BY DEF Given
  <2>1. CASE i < m
    BY <1>4, <2>1 DEF Pools, Given
  <2>2. CASE i >= m
    <3>1. /\ pg[k] <= new[i][k] /\ new[i][k] + Ahd!Size(k) <= pg[k] + PageSize
          /\ Start <= pg[k] /\ pg[k] + PageSize <= p
      BY <1>6, <2>2
    <3>2. /\ pg[k] \in Nat /\ new[i][k] \in Nat /\ Ahd!Size(k) \in Nat
          /\ PageSize \in Nat
      BY <1>1, <1>2, <1>8 DEF PageSize
    <3> QED
      BY <1>1, <3>1, <3>2
  <2> QED
    BY <1>1, <1>4, <2>1, <2>2
\* Two kinds of which something was left have different pages.
<1>12. ASSUME NEW k \in Ahd!Kinds, NEW l \in Ahd!Kinds, k # l,
              rest[k] > 0, rest[l] > 0
       PROVE  pg[k] + PageSize <= pg[l] \/ pg[l] + PageSize <= pg[k]
  BY <1>12 DEF Pools, Current
<1>13. ASSUME NEW i \in DOMAIN new, NEW j \in DOMAIN new, NEW k \in Ahd!Kinds,
              NEW l \in Ahd!Kinds, i < m, j >= m
       PROVE  \/ new[i][k] + Ahd!Size(k) <= new[j][l]
              \/ new[j][l] + Ahd!Size(l) <= new[i][k]
  <2>1. i \in DOMAIN sc /\ new[i] = sc[i]
    BY <1>4, <1>13
  <2>2. /\ rest[l] > 0 /\ FreeStart(l, pg, rest) <= new[j][l]
        /\ new[j][l] + Ahd!Size(l) <= pg[l] + PageSize
    BY <1>6, <1>13
  <2>3. \/ new[i][k] + Ahd!Size(k) <= FreeStart(l, pg, rest)
        \/ pg[l] + PageSize <= new[i][k]
    BY <2>1, <2>2 DEF Pools, Behind
  <2>4. /\ new[i][k] \in Nat /\ new[j][l] \in Nat /\ pg[l] \in Nat
        /\ Ahd!Size(k) \in Nat /\ Ahd!Size(l) \in Nat /\ PageSize \in Nat
        /\ FreeStart(l, pg, rest) \in Nat
    BY <1>1, <1>2, <1>7, <1>8 DEF PageSize
  <2> QED
    BY <2>2, <2>3, <2>4
<1>14. Separate(new)
  <2> SUFFICES ASSUME NEW i \in DOMAIN new, NEW j \in DOMAIN new,
                      NEW k \in Ahd!Kinds, NEW l \in Ahd!Kinds, i # j \/ k # l
               PROVE  \/ new[i][k] + Ahd!Size(k) <= new[j][l]
                      \/ new[j][l] + Ahd!Size(l) <= new[i][k]
    BY DEF Separate
  <2>1. CASE i < m /\ j < m
    <3>1. /\ i \in DOMAIN sc /\ new[i] = sc[i]
          /\ j \in DOMAIN sc /\ new[j] = sc[j]
      BY <1>4, <2>1
    <3> QED
      BY <3>1 DEF Pools, Separate
  <2>2. CASE i < m /\ j >= m
    BY <1>13, <2>2
  <2>3. CASE i >= m /\ j < m
    BY <1>13, <2>3
  <2>4. CASE i >= m /\ j >= m /\ k # l
    <3>1. /\ pg[k] <= new[i][k] /\ new[i][k] + Ahd!Size(k) <= pg[k] + PageSize
          /\ pg[l] <= new[j][l] /\ new[j][l] + Ahd!Size(l) <= pg[l] + PageSize
          /\ rest[k] > 0 /\ rest[l] > 0
      BY <1>6, <2>4
    <3>2. pg[k] + PageSize <= pg[l] \/ pg[l] + PageSize <= pg[k]
      BY <1>12, <2>4, <3>1
    <3>3. /\ new[i][k] \in Nat /\ new[j][l] \in Nat /\ PageSize \in Nat
          /\ Ahd!Size(k) \in Nat /\ Ahd!Size(l) \in Nat
          /\ pg[k] \in Nat /\ pg[l] \in Nat
      BY <1>1, <1>2, <1>8 DEF PageSize
    <3> QED
      BY <3>1, <3>2, <3>3
  <2>5. CASE i >= m /\ j >= m /\ k = l
    <3>1. i < j \/ j < i
      BY <1>4, <2>5
    <3> QED
      BY <1>6, <2>5, <3>1
  <2> QED
    BY <1>1, <1>4, <2>1, <2>2, <2>3, <2>4, <2>5
<1>15. Behind(pg, lf, new)
  <2> SUFFICES ASSUME NEW i \in DOMAIN new, NEW k \in Ahd!Kinds,
                      NEW l \in Ahd!Kinds, lf[l] > 0
               PROVE  \/ new[i][k] + Ahd!Size(k) <= FreeStart(l, pg, lf)
                      \/ pg[l] + PageSize <= new[i][k]
    BY DEF Behind
  <2>1. rest[l] > 0
    BY <1>1, <1>2
  <2>2. CASE i < m
    <3>1. i \in DOMAIN sc /\ new[i] = sc[i]
      BY <1>4, <2>2
    <3>2. \/ new[i][k] + Ahd!Size(k) <= FreeStart(l, pg, rest)
          \/ pg[l] + PageSize <= new[i][k]
      BY <2>1, <3>1 DEF Pools, Behind
    <3> QED
      BY <1>2, <1>7, <1>8, <3>2
  <2>3. CASE i >= m /\ k = l
    BY <1>6, <2>3
  <2>4. CASE i >= m /\ k # l
    <3>1. /\ pg[k] <= new[i][k] /\ new[i][k] + Ahd!Size(k) <= pg[k] + PageSize
          /\ rest[k] > 0 /\ pg[l] <= FreeStart(l, pg, lf)
      BY <1>6, <1>7, <2>4
    <3>2. pg[k] + PageSize <= pg[l] \/ pg[l] + PageSize <= pg[k]
      BY <1>12, <2>1, <2>4, <3>1
    <3>3. /\ new[i][k] \in Nat /\ PageSize \in Nat
          /\ Ahd!Size(k) \in Nat /\ FreeStart(l, pg, lf) \in Nat
          /\ pg[k] \in Nat /\ pg[l] \in Nat
      BY <1>1, <1>2, <1>7, <1>8 DEF PageSize
    <3> QED
      BY <3>1, <3>2, <3>3
  <2> QED
    BY <1>1, <1>4, <2>2, <2>3, <2>4
<1>16. Counted(p, lf, m + n)
  <2>1. \A k \in Ahd!Kinds : m + n + lf[k] = m + rest[k]
    BY <1>1, <1>2
  <2>2. /\ "hscb" \in Ahd!Kinds /\ "sg" \in Ahd!Kinds /\ "sense" \in Ahd!Kinds
    BY DEF Ahd!Kinds
  <2>3. Counted(p, rest, m)
    BY DEF Pools, m
  <2>4. \A k \in Ahd!Kinds : Taken(k, lf, m + n) = Taken(k, rest, m)
    BY <2>1 DEF Taken
  <2> QED
    BY <2>1, <2>2, <2>3, <2>4 DEF Counted
<1> QED
  BY <1>3, <1>9, <1>10, <1>11, <1>14, <1>15, <1>16 DEF Pools, m

-----------------------------------------------------------------------------
(* ahd_alloc_scbs.                                                         *)

\* There are never more SCBs than KB behind the page of the queues.
LEMMA FewScbs ==
    ASSUME base \in Nat, sgSize \in SgListSizes, shared = First,
           NEW p, p <= End, NEW pg, NEW lf, NEW sc, Pools(p, pg, lf, sc)
    PROVE  Cardinality(DOMAIN sc) <= 60
<1> DEFINE n == Cardinality(DOMAIN sc)
<1>1. shared \in Nat /\ base <= shared
  BY AlignedBounds DEF First
<1>2. /\ p \in Nat /\ n \in Nat
      /\ \A k \in Ahd!Kinds : lf[k] \in Nat /\ Taken(k, lf, n) \in Nat
  BY <1>1, PoolNumbers
<1> HIDE DEF n
<1>3. "hscb" \in Ahd!Kinds /\ "sg" \in Ahd!Kinds /\ "sense" \in Ahd!Kinds
  BY DEF Ahd!Kinds
<1>4. p = Start + Taken("hscb", lf, n) + Taken("sg", lf, n)
            + Taken("sense", lf, n)
  BY DEF Pools, Counted, n
<1>5. Taken("sg", lf, n) >= n * 1024
  <2>1. Taken("sg", lf, n) = (n + lf["sg"]) * sgSize /\ lf["sg"] \in Nat
    BY <1>2, <1>3, Sizes DEF Taken
  <2>2. sgSize = 1024 \/ sgSize = 2048
    BY Sizes
  <2>3. CASE sgSize = 1024
    BY <1>2, <2>1, <2>3
  <2>4. CASE sgSize = 2048
    BY <1>2, <2>1, <2>4
  <2> QED
    BY <2>2, <2>3, <2>4
<1>6. Start + n * 1024 <= base + ExtensionSize
  <2>1. /\ Taken("hscb", lf, n) \in Nat /\ Taken("sense", lf, n) \in Nat
        /\ Taken("sg", lf, n) \in Nat
    BY <1>2, <1>3
  <2>2. Start \in Nat /\ base + ExtensionSize \in Nat
    BY <1>1 DEF Start, PageSize, ExtensionSize
  <2> QED
    BY <1>2, <1>4, <1>5, <2>1, <2>2 DEF End
<1>7. n <= 60
  BY <1>1, <1>2, <1>6 DEF Start, PageSize, ExtensionSize
<1> QED
  BY <1>7 DEF n

\* A batch is as large as every kind and the limit allow.
LEMMA BatchIsLeast ==
    ASSUME NEW rest, \A k \in Ahd!Kinds : rest[k] \in Nat,
           Ahd!numscbs \in Nat, Ahd!numscbs < 512
    PROVE  /\ Ahd!Batch(rest) \in Nat
           /\ \A k \in Ahd!Kinds : Ahd!Batch(rest) <= rest[k]
           /\ (\A k \in Ahd!Kinds : rest[k] > 0) => Ahd!Batch(rest) > 0
<1> DEFINE a == rest["hscb"]
           b == rest["sg"]
           c == rest["sense"]
           d == 512 - Ahd!numscbs
           limits == {a, b, c, d}
           least(n) == n \in limits /\ \A m \in limits : n <= m
<1>1. a \in Nat /\ b \in Nat /\ c \in Nat /\ d \in Nat /\ d > 0
  BY DEF Ahd!Kinds
<1>2. {rest[k] : k \in Ahd!Kinds} \cup {Ahd!AHD_SCB_MAX_ALLOC - Ahd!numscbs}
        = limits
  BY DEF Ahd!Kinds, Ahd!AHD_SCB_MAX_ALLOC
<1>3. Ahd!Batch(rest) = CHOOSE n \in limits : \A m \in limits : n <= m
  BY <1>2 DEF Ahd!Batch
<1> HIDE DEF a, b, c, d
<1>4. \E n \in limits : \A m \in limits : n <= m
  <2>1. CASE a <= b /\ a <= c /\ a <= d
    BY <1>1, <2>1
  <2>2. CASE b <= a /\ b <= c /\ b <= d
    BY <1>1, <2>2
  <2>3. CASE c <= a /\ c <= b /\ c <= d
    BY <1>1, <2>3
  <2>4. CASE d <= a /\ d <= b /\ d <= c
    BY <1>1, <2>4
  <2> QED
    BY <1>1, <2>1, <2>2, <2>3, <2>4
<1>5. /\ Ahd!Batch(rest) \in limits
      /\ \A m \in limits : Ahd!Batch(rest) <= m
  BY <1>3, <1>4
<1>6. \A k \in Ahd!Kinds : rest[k] \in limits
  BY DEF Ahd!Kinds, a, b, c
<1>7. Ahd!Batch(rest) \in Nat
  BY <1>1, <1>5
<1>8. ASSUME \A k \in Ahd!Kinds : rest[k] > 0
      PROVE  Ahd!Batch(rest) > 0
  <2>1. a > 0 /\ b > 0 /\ c > 0
    BY <1>8 DEF a, b, c, Ahd!Kinds
  <2> QED
    BY <1>1, <1>5, <2>1
<1> QED
  BY <1>5, <1>6, <1>7, <1>8

\* The primed pools, when neither the queues move nor the size changes.
LEMMA PrimedPools ==
    ASSUME UNCHANGED <<shared, sgSize>>, Pools(ptr', page', left', scbs')
    PROVE  Pools(ptr, page, left, scbs)'
<1>1. Start' = Start
  BY DEF Start
<1>2. \A k : Ahd!Size(k)' = Ahd!Size(k)
  BY DEF Ahd!Size
<1>3. \A k : Ahd!PerPage(k)' = Ahd!PerPage(k)
  BY <1>2 DEF Ahd!PerPage
<1>4. Typed(ptr, page, left, scbs)'
  BY <1>3 DEF Pools, Typed
<1>5. Current(ptr, page, left)'
  BY <1>1 DEF Pools, Current
<1>6. Given(ptr, scbs)'
  BY <1>1, <1>2 DEF Pools, Given
<1>7. Separate(scbs)'
  BY <1>2 DEF Pools, Separate
<1>8. Behind(page, left, scbs)'
  BY <1>2, <1>3 DEF Pools, Behind, FreeStart
<1>9. Counted(ptr, left, Cardinality(DOMAIN scbs))'
  BY <1>1, <1>2, <1>3 DEF Pools, Counted, Taken
<1> QED
  BY <1>4, <1>5, <1>6, <1>7, <1>8, <1>9 DEF Pools

\* An attempt that stops before the page for k leaves the pointer where that
\* page would have been looked for.
LEMMA StoppedAtPointer ==
    ASSUME NEW k \in Ahd!Kinds, Ahd!Refill(Ahd!Empty \cap Ahd!Before(k))
    PROVE  ptr' = Ahd!Pointer(k)
<1> DEFINE K == Ahd!Empty \cap Ahd!Before(k)
<1>1. IsFiniteSet(K)
  <2>1. IsFiniteSet({"hscb", "sg", "sense"})
    <3>1. IsFiniteSet({"hscb"})
      BY FS_Singleton
    <3>2. IsFiniteSet({"hscb"} \cup {"sg"})
      BY <3>1, FS_AddElement
    <3>3. IsFiniteSet(({"hscb"} \cup {"sg"}) \cup {"sense"})
      BY <3>2, FS_AddElement
    <3>4. {"hscb", "sg", "sense"} = ({"hscb"} \cup {"sg"}) \cup {"sense"}
      OBVIOUS
    <3> QED
      BY <3>3, <3>4
  <2>2. K \subseteq {"hscb", "sg", "sense"}
    BY DEF Ahd!Empty, Ahd!Kinds
  <2> QED
    BY <2>1, <2>2, FS_Subset
<1>2. Cardinality(K) = 0 <=> K = {}
  BY <1>1, FS_EmptySet
<1>3. ptr' = IF K = {} THEN ptr
             ELSE Ahd!Aligned(ptr) + Cardinality(K) * Ahd!PageSize
  BY SameCardinality DEF Ahd!Refill
<1>4. Ahd!Pointer(k) = IF Cardinality(K) = 0 THEN ptr
                       ELSE Ahd!Aligned(ptr) + Cardinality(K) * Ahd!PageSize
  BY SameCardinality DEF Ahd!Pointer
<1> QED
  BY <1>2, <1>3, <1>4

\* An attempt keeps the pools, wherever it stops.  When it makes no SCB and
\* no pool memory was missing, it is the extension that is used up.
LEMMA AllocKeepsPools ==
    ASSUME base \in Nat, sgSize \in SgListSizes, shared = First,
           failures \in Nat, ptr <= End, ptr % PageSize = 0,
           Pools(ptr, page, left, scbs), Ahd!AllocScbs
    PROVE  /\ ptr' <= End /\ ptr' % PageSize = 0 /\ failures' \in Nat
           /\ Pools(ptr', page', left', scbs')
           /\ (Ahd!numscbs' = Ahd!numscbs /\ failures' = failures) =>
                /\ ~Ahd!Room(ptr')
                /\ \E k \in Ahd!Kinds : left'[k] = 0
<1>1. shared \in Nat
  BY AlignedBounds DEF First
<1>2. /\ Ahd!numscbs = Cardinality(DOMAIN scbs)
      /\ Ahd!numscbs' = Cardinality(DOMAIN scbs')
  BY SameCardinality DEF Ahd!numscbs
<1>3. /\ Ahd!numscbs \in Nat /\ Ahd!numscbs <= 60 /\ ptr \in Nat
      /\ \A k \in Ahd!Kinds : left[k] \in Nat
  BY <1>1, <1>2, FewScbs, PoolNumbers
<1>4. page \in [Ahd!Kinds -> Nat]
  BY DEF Pools, Typed
<1>5. ASSUME NEW k \in Ahd!Kinds, Ahd!StopAt(k)
      PROVE  /\ ptr' <= End /\ ptr' % PageSize = 0 /\ failures' \in Nat
             /\ Pools(ptr', page', left', scbs')
             /\ failures' = failures => ~Ahd!Room(ptr')
             /\ left'[k] = 0
  <2> DEFINE K == Ahd!Empty \cap Ahd!Before(k)
  <2>1. K \in {Ahd!Empty} \cup {Ahd!Empty \cap Ahd!Before(j) : j \in Ahd!Kinds}
    OBVIOUS
  <2>2. Ahd!Refill(K) /\ scbs' = scbs
    BY <1>5 DEF Ahd!StopAt
  <2>3. left' = [j \in Ahd!Kinds |->
                   IF j \in K THEN Ahd!PerPage(j) ELSE left[j]]
    BY <1>5 DEF Ahd!StopAt
  <2>4. \A j \in K : Ahd!Room(Ahd!Pointer(j))
    BY <1>5 DEF Ahd!StopAt
  <2>5. ptr' = Ahd!Pointer(k)
    BY <2>2, StoppedAtPointer
  <2>6. left'[k] = 0
    <3>1. k \in Ahd!Empty /\ k \notin K
      BY <1>5 DEF Ahd!StopAt, Ahd!Before, Ahd!Kinds
    <3> QED
      BY <2>3, <3>1 DEF Ahd!Empty
  <2>7. failures' \in Nat /\ (failures' = failures => ~Ahd!Room(ptr'))
    BY <1>5, <2>5 DEF Ahd!StopAt
  <2> HIDE DEF K
  <2>8. /\ ptr' % PageSize = 0
        /\ \A j \in K : page'[j] = Ahd!Pointer(j)
        /\ (\A j \in K : Ahd!Room(page'[j])) => ptr' <= End
    BY <1>3, <1>4, <2>1, <2>2, RefillTakesPages
  <2>9. Pools(ptr', page', left', scbs)
    BY <1>1, <2>1, <2>2, <2>3, RefillKeepsPools
  <2> QED
    BY <2>2, <2>4, <2>6, <2>7, <2>8, <2>9
<1>6. ASSUME Ahd!MakeBatch
      PROVE  /\ ptr' <= End /\ ptr' % PageSize = 0 /\ failures' \in Nat
             /\ Pools(ptr', page', left', scbs')
             /\ ~(Ahd!numscbs' = Ahd!numscbs /\ failures' = failures)
  <2> DEFINE rest == [k \in Ahd!Kinds |->
                        IF k \in Ahd!Empty THEN Ahd!PerPage(k) ELSE left[k]]
  <2>1. Ahd!Refill(Ahd!Empty) /\ \A j \in Ahd!Empty : Ahd!Room(Ahd!Pointer(j))
    BY <1>6 DEF Ahd!MakeBatch
  <2>2. PICK n \in 0 .. 16 : Ahd!Make(n, rest)
    BY <1>6 DEF Ahd!MakeBatch
  <2>3. /\ ptr' % PageSize = 0
        /\ \A j \in Ahd!Empty : page'[j] = Ahd!Pointer(j)
        /\ (\A j \in Ahd!Empty : Ahd!Room(page'[j])) => ptr' <= End
    BY <1>3, <1>4, <2>1, RefillTakesPages
  <2>4. Pools(ptr', page', rest, scbs)
    BY <1>1, <2>1, RefillKeepsPools
  <2>5. \A k \in Ahd!Kinds : rest[k] \in Nat /\ rest[k] > 0
    <3> SUFFICES ASSUME NEW k \in Ahd!Kinds PROVE rest[k] \in Nat /\ rest[k] > 0
      OBVIOUS
    <3>1. CASE k \in Ahd!Empty
      BY <3>1, KindSizes
    <3>2. CASE k \notin Ahd!Empty
      BY <1>3, <3>2 DEF Ahd!Empty
    <3> QED
      BY <3>1, <3>2
  <2> HIDE DEF rest
  <2>6. /\ Ahd!Batch(rest) \in Nat /\ Ahd!Batch(rest) > 0
        /\ \A k \in Ahd!Kinds : Ahd!Batch(rest) <= rest[k]
    BY <1>3, <2>5, BatchIsLeast
  <2>7. /\ n \in Nat /\ n <= Ahd!Batch(rest)
        /\ \/ n = Ahd!Batch(rest) /\ failures' = failures
           \/ failures' = failures + 1
    BY <2>2, <2>6 DEF Ahd!Make
  <2>8. \A k \in Ahd!Kinds : n <= rest[k]
    BY <2>5, <2>6, <2>7
  <2>9. left' = LeftOf(rest, n) /\ scbs' = WithBatch(scbs, page', rest, n)
    BY <1>2, <2>2 DEF Ahd!Make, Ahd!LeftAfter, LeftOf, WithBatch
  <2>10. /\ Pools(ptr', page', left', scbs')
         /\ Cardinality(DOMAIN scbs') = Cardinality(DOMAIN scbs) + n
    BY <1>1, <2>4, <2>7, <2>8, <2>9, BatchKeepsPools
  <2>11. ~(Ahd!numscbs' = Ahd!numscbs /\ failures' = failures)
    BY <1>2, <1>3, <2>6, <2>7, <2>10
  <2> QED
    BY <2>1, <2>3, <2>7, <2>10, <2>11
<1>7. \/ \E k \in Ahd!Kinds : Ahd!StopAt(k)
      \/ Ahd!MakeBatch
  BY <1>3 DEF Ahd!AllocScbs, Ahd!AHD_SCB_MAX_ALLOC
<1> QED
  BY <1>5, <1>6, <1>7

-----------------------------------------------------------------------------
(* The aic79xx.                                                            *)

LEMMA AhdInitIInv == Init /\ Ahd!Init => AhdIInv
<1> SUFFICES ASSUME Init, Ahd!Init PROVE AhdIInv
  OBVIOUS
<1>1. base \in Nat /\ ptr = base
  BY LayoutAssumption DEF Init
<1>2. ptr <= End
  BY <1>1 DEF End, ExtensionSize
<1>3. {shared, failures} \subseteq Nat
  BY DEF Ahd!Init
<1> QED
  BY <1>1, <1>2, <1>3 DEF Ahd!Init, AhdIInv

\* The queues get the first page; the pools behind it are empty.
LEMMA AllocSharedStep == AhdIInv /\ Ahd!AllocShared => AhdIInv'
<1> SUFFICES ASSUME AhdIInv, Ahd!AllocShared PROVE AhdIInv'
  OBVIOUS
<1>1. /\ base \in Nat /\ base' = base /\ base \in Bases /\ ptr = base
      /\ sgSize \in SgListSizes
      /\ UNCHANGED <<sgSize, page, left, scbs, ahdRefused, failures>>
      /\ ahdStep' = "scbs" /\ failures \in Nat
      /\ scbs = [i \in {} |-> page]
      /\ page = [k \in Ahd!Kinds |-> 0] /\ left = [k \in Ahd!Kinds |-> 0]
      /\ ahdRefused = FALSE
  BY LayoutAssumption DEF AhdIInv, Ahd!AllocShared
<1>2. First \in Nat /\ base <= First /\ First < base + PageSize
      /\ First % PageSize = 0 /\ First' = First
  BY <1>1, AlignedBounds DEF First, Aligned
<1>3. shared' = First /\ ptr' = First + PageSize
  BY <1>1
  DEF Ahd!AllocShared, Ahd!AfterPage, Ahd!Aligned, First, Aligned,
      Ahd!PageSize, PageSize
<1>4. ptr' \in Nat /\ ptr' % PageSize = 0
  BY <1>2, <1>3, NextPage DEF PageSize
<1>5. ptr' <= End'
  BY <1>1, <1>2, <1>3 DEF End, PageSize, ExtensionSize
<1>6. DOMAIN scbs' = {} /\ Cardinality(DOMAIN scbs') = 0
  BY <1>1, FS_EmptySet
<1>7. 0 .. 0 - 1 = {}
  OBVIOUS
<1>8. \A k \in Ahd!Kinds : page'[k] = 0 /\ left'[k] = 0
  BY <1>1
<1>9. sgSize' \in SgListSizes /\ sgSize' = sgSize
  BY <1>1
<1>10. \A k \in Ahd!Kinds : /\ Ahd!PerPage(k)' \in 1 .. 64
                            /\ Ahd!Size(k)' \in Nat
                            /\ 0 % Ahd!PerPage(k)' = 0
                            /\ (0 + 0) * Ahd!Size(k)' = 0
  <2> SUFFICES ASSUME NEW k \in Ahd!Kinds
               PROVE  /\ Ahd!PerPage(k)' \in 1 .. 64
                      /\ Ahd!Size(k)' \in Nat
                      /\ 0 % Ahd!PerPage(k)' = 0
                      /\ (0 + 0) * Ahd!Size(k)' = 0
    OBVIOUS
  <2>1. Ahd!PerPage(k) \in 1 .. 64 /\ Ahd!Size(k) \in Nat
    BY <1>1, KindSizes
  <2>2. Ahd!Size(k)' = Ahd!Size(k)
    BY <1>9 DEF Ahd!Size
  <2>3. Ahd!PerPage(k)' = Ahd!PerPage(k)
    BY <2>2 DEF Ahd!PerPage
  <2> QED
    BY <2>1, <2>2, <2>3
<1>11. Typed(ptr, page, left, scbs)'
  <2>1. page' \in [Ahd!Kinds -> Nat] /\ left' \in [Ahd!Kinds -> Nat]
    BY <1>1
  <2>2. scbs' \in [{} -> [Ahd!Kinds -> Nat]]
    BY <1>1
  <2>3. 0 .. Cardinality(DOMAIN scbs') - 1 = {}
    BY <1>6, <1>7
  <2>4. \A k \in Ahd!Kinds : left'[k] <= Ahd!PerPage(k)'
    BY <1>8, <1>10
  <2>5. Cardinality(DOMAIN scbs') \in Nat
    BY <1>6
  <2>6. scbs' \in [0 .. Cardinality(DOMAIN scbs') - 1 -> [Ahd!Kinds -> Nat]]
    BY <2>2, <2>3
  <2> QED
    BY <1>4, <2>1, <2>4, <2>5, <2>6 DEF Typed
<1>12. Current(ptr, page, left)'
  BY <1>8 DEF Current
<1>13. Given(ptr, scbs)' /\ Separate(scbs)' /\ Behind(page, left, scbs)'
  BY <1>6 DEF Given, Separate, Behind
<1>14. Counted(ptr, left, Cardinality(DOMAIN scbs))'
  <2>1. "hscb" \in Ahd!Kinds /\ "sg" \in Ahd!Kinds /\ "sense" \in Ahd!Kinds
    BY DEF Ahd!Kinds
  <2>2. \A k \in Ahd!Kinds : Taken(k, left, Cardinality(DOMAIN scbs))' = 0
    BY <1>6, <1>8, <1>10 DEF Taken
  <2>3. Start' = ptr'
    BY <1>3 DEF Start
  <2>4. \A k \in Ahd!Kinds : (Cardinality(DOMAIN scbs') + left'[k])
                               % Ahd!PerPage(k)' = 0
    BY <1>6, <1>8, <1>10
  <2>5. ptr' = Start' + 0 + 0 + 0
    <3>1. Start' \in Nat
      BY <1>4, <2>3
    <3>2. \A x \in Nat : x = x + 0 + 0 + 0
      OBVIOUS
    <3> QED
      BY <2>3, <3>1, <3>2, Zenon
  <2> QED
    BY <2>1, <2>2, <2>4, <2>5 DEF Counted
<1>15. Pools(ptr, page, left, scbs)'
  BY <1>11, <1>12, <1>13, <1>14 DEF Pools
<1> QED
  BY <1>1, <1>2, <1>3, <1>4, <1>5, <1>9, <1>15 DEF AhdIInv

\* ahd_alloc_scbs in either of its uses.
LEMMA AhdAllocStep ==
    ASSUME AhdIInv, ahdStep # "shared", Ahd!AllocScbs,
           ahdStep' \in {"ready", "failed"}, ahdRefused' \in BOOLEAN,
           UNCHANGED <<base, sgSize, shared>>
    PROVE  AhdIInv'
<1>1. /\ base \in Nat /\ base \in Bases /\ sgSize \in SgListSizes
      /\ shared = First /\ failures \in Nat /\ ptr <= End /\ ptr % PageSize = 0
      /\ Pools(ptr, page, left, scbs) /\ shared \in Nat
  BY LayoutAssumption DEF AhdIInv
<1>2. /\ ptr' <= End /\ ptr' % PageSize = 0 /\ failures' \in Nat
      /\ Pools(ptr', page', left', scbs')
  BY <1>1, AllocKeepsPools
<1>3. Pools(ptr, page, left, scbs)'
  BY <1>2, PrimedPools
<1>4. First' = First /\ End' = End
  BY DEF First, Aligned, End
<1> QED
  BY <1>1, <1>2, <1>3, <1>4 DEF AhdIInv

LEMMA AhdNextIInv ==
    AhdIInv /\ (Ahd!Next \/ UNCHANGED <<base, ptr, failures, ahdVars>>)
      => AhdIInv'
<1> SUFFICES ASSUME AhdIInv,
                    Ahd!Next \/ UNCHANGED <<base, ptr, failures, ahdVars>>
             PROVE  AhdIInv'
  OBVIOUS
<1>1. CASE Ahd!AllocShared
  BY <1>1, AllocSharedStep
<1>2. CASE Ahd!FirstScbs
  <2>1. /\ ahdStep = "scbs" /\ Ahd!AllocScbs
        /\ ahdStep' \in {"ready", "failed"}
        /\ UNCHANGED <<base, sgSize, shared, ahdRefused>>
    BY <1>2 DEF Ahd!FirstScbs
  <2>2. ahdRefused' \in BOOLEAN
    BY <2>1 DEF AhdIInv
  <2> QED
    BY <2>1, <2>2, AhdAllocStep
<1>3. CASE Ahd!MoreScbs
  <2>1. /\ ahdStep = "ready" /\ Ahd!AllocScbs
        /\ ahdStep' = ahdStep /\ ahdRefused' \in BOOLEAN
        /\ UNCHANGED <<base, sgSize, shared>>
    BY <1>3 DEF Ahd!MoreScbs
  <2> QED
    BY <2>1, AhdAllocStep
<1>4. CASE UNCHANGED <<base, ptr, failures, ahdVars>>
  <2>1. /\ UNCHANGED <<base, ptr, failures, sgSize, ahdStep, shared, page,
                       left, scbs, ahdRefused>>
    BY <1>4 DEF ahdVars
  <2>2. First' = First /\ End' = End
    BY <2>1 DEF First, Aligned, End
  <2>3. ahdStep # "shared" => Pools(ptr, page, left, scbs)'
    <3>1. ahdStep # "shared" => Pools(ptr', page', left', scbs')
      BY <2>1 DEF AhdIInv
    <3> QED
      BY <2>1, <3>1, PrimedPools
  <2> QED
    BY <2>1, <2>2, <2>3 DEF AhdIInv
<1>5. CASE Ahd!NotFound
  BY <1>4, <1>5 DEF Ahd!NotFound, Ahd!vars, ahdVars
<1> QED
  BY <1>1, <1>2, <1>3, <1>4, <1>5 DEF Ahd!Next

-----------------------------------------------------------------------------
(* The run's specification: a behaviour of either family.                  *)

\* The variables of the family that stands still.
AhcIdle ==
    /\ {remain, qoutfifo, hscbs, sense, numscbs} \subseteq Nat
    /\ step = "fifos" /\ refused = FALSE
    /\ sg_list \in [0 .. numscbs - 1 -> Nat]

AhdIdle ==
    /\ sgSize \in SgListSizes /\ ahdStep = "shared" /\ shared = 0
    /\ page = [k \in Ahd!Kinds |-> 0] /\ left = [k \in Ahd!Kinds |-> 0]
    /\ scbs = [i \in {} |-> page] /\ ahdRefused = FALSE

FamilyIInv ==
    \/ family = "aic7xxx" /\ IInv /\ AhdIdle
    \/ family = "aic79xx" /\ AhdIInv /\ AhcIdle

LEMMA FamilyInitIInv == FamilyInit => FamilyIInv
<1> SUFFICES ASSUME FamilyInit PROVE FamilyIInv
  OBVIOUS
<1>1. Init /\ Ahd!Init /\ family \in {"aic7xxx", "aic79xx"}
  BY DEF FamilyInit
<1>2. IInv /\ AhdIInv
  BY <1>1, InitIInv, AhdInitIInv
<1>3. AhdIdle
  BY <1>1 DEF Ahd!Init, AhdIdle
<1>4. AhcIdle
  <2>1. TypeOK
    BY <1>2 DEF IInv
  <2> QED
    BY <1>1, <2>1 DEF Init, TypeOK, AhcIdle
<1> QED
  BY <1>1, <1>2, <1>3, <1>4 DEF FamilyIInv

\* The variables of all of the run.
familyVars == <<family, base, ptr, failures, ahcVars, ahdVars>>

LEMMA FamilyNextIInv == FamilyIInv /\ [FamilyNext]_familyVars => FamilyIInv'
<1> SUFFICES ASSUME FamilyIInv, [FamilyNext]_familyVars PROVE FamilyIInv'
  OBVIOUS
<1>1. CASE family = "aic7xxx"
  <2>1. IInv /\ AhdIdle
    BY <1>1 DEF FamilyIInv
  <2>2. family' = family /\ UNCHANGED ahdVars
    BY <1>1 DEF FamilyNext, familyVars
  <2>3. [Next]_vars
    BY <1>1 DEF FamilyNext, familyVars, ahcVars, vars
  <2>4. IInv'
    BY <2>1, <2>3, NextIInv
  <2>5. AhdIdle'
    BY <2>1, <2>2 DEF AhdIdle, ahdVars
  <2> QED
    BY <1>1, <2>2, <2>4, <2>5 DEF FamilyIInv
<1>2. CASE family = "aic79xx"
  <2>1. AhdIInv /\ AhcIdle
    BY <1>2 DEF FamilyIInv
  <2>2. family' = family /\ UNCHANGED ahcVars
    BY <1>2 DEF FamilyNext, familyVars
  <2>3. Ahd!Next \/ UNCHANGED <<base, ptr, failures, ahdVars>>
    BY <1>2 DEF FamilyNext, familyVars
  <2>4. AhdIInv'
    BY <2>1, <2>3, AhdNextIInv
  <2>5. AhcIdle'
    BY <2>1, <2>2 DEF AhcIdle, ahcVars
  <2> QED
    BY <1>2, <2>2, <2>4, <2>5 DEF FamilyIInv
<1> QED
  BY <1>1, <1>2 DEF FamilyIInv

LEMMA FamilyInvariance == FamilySpec => []FamilyIInv
<1>1. FamilySpec => FamilyInit /\ [][FamilyNext]_familyVars
  BY DEF FamilySpec, familyVars
<1> QED
  BY <1>1, FamilyInitIInv, FamilyNextIInv, PTL

\* The memory of the aic79xx: for every address of the extension, both sizes
\* of an S/G list and every history of failures, no piece belongs to two SCBs
\* or to an SCB and the queues, none lies outside the extension, and there
\* are never two SCBs whose tags agree in the low eight bits.
THEOREM ScbPiecesAreApart == FamilySpec => []AhdPiecesApart
<1>1. ASSUME FamilyIInv, family = "aic7xxx" PROVE AhdPiecesApart
  <2>1. IInv /\ AhdIdle /\ TypeOK /\ ptr <= End
    BY <1>1 DEF FamilyIInv, IInv, Layout
  <2>2. scbs = [i \in {} |-> page] /\ DOMAIN scbs = {}
    BY <2>1 DEF AhdIdle
  <2>3. Ahd!numscbs = 0
    BY <2>2, FS_EmptySet, SameCardinality DEF Ahd!numscbs
  <2>4. \A k \in Ahd!Kinds : left[k] \in 0 .. Ahd!PerPage(k)
    <3> SUFFICES ASSUME NEW k \in Ahd!Kinds
                 PROVE  left[k] \in 0 .. Ahd!PerPage(k)
      OBVIOUS
    <3>1. Ahd!PerPage(k) \in 1 .. 64
      BY <2>1, KindSizes DEF AhdIdle
    <3>2. left[k] = 0
      BY <2>1 DEF AhdIdle
    <3> QED
      BY <3>1, <3>2
  <2>5. scbs \in [0 .. Ahd!numscbs - 1 -> [Ahd!Kinds -> Nat]]
    <3>1. 0 .. Ahd!numscbs - 1 = {}
      BY <2>3
    <3>2. scbs \in [{} -> [Ahd!Kinds -> Nat]]
      BY <2>2
    <3> QED
      BY <3>1, <3>2
  <2>6. Ahd!TypeOK
    <3>1. page \in [Ahd!Kinds -> Nat]
      BY <2>1 DEF AhdIdle
    <3>2. {ptr, shared, failures} \subseteq Nat /\ base \in Bases
      BY <2>1 DEF TypeOK, AhdIdle
    <3>3. /\ sgSize \in SgListSizes /\ ahdRefused \in BOOLEAN
          /\ ahdStep \in {"shared", "scbs", "ready", "failed"}
      BY <2>1 DEF AhdIdle
    <3>4. Ahd!numscbs <= 256
      BY <2>3
    <3> QED
      BY <2>4, <2>5, <3>1, <3>2, <3>3, <3>4 DEF Ahd!TypeOK
  <2>7. Ahd!PiecesApart
    BY <2>1, <2>2 DEF Ahd!PiecesApart, End, Ahd!ExtensionSize, ExtensionSize
  <2> QED
    BY <2>1, <2>6, <2>7 DEF AhdPiecesApart
<1>2. ASSUME FamilyIInv, family = "aic79xx", ahdStep = "shared"
      PROVE  AhdPiecesApart
  <2>1. AhdIInv /\ AhcIdle
    BY <1>2 DEF FamilyIInv
  <2>2. /\ scbs = [i \in {} |-> page] /\ DOMAIN scbs = {} /\ ptr = base
        /\ page = [k \in Ahd!Kinds |-> 0] /\ left = [k \in Ahd!Kinds |-> 0]
        /\ base \in Nat /\ base \in Bases /\ shared = 0 /\ failures \in Nat
        /\ ptr <= End
    BY <1>2, <2>1, LayoutAssumption DEF AhdIInv
  <2>3. Ahd!numscbs = 0
    BY <2>2, FS_EmptySet, SameCardinality DEF Ahd!numscbs
  <2>4. \A k \in Ahd!Kinds : left[k] \in 0 .. Ahd!PerPage(k)
    <3> SUFFICES ASSUME NEW k \in Ahd!Kinds
                 PROVE  left[k] \in 0 .. Ahd!PerPage(k)
      OBVIOUS
    <3>1. Ahd!PerPage(k) \in 1 .. 64
      BY <2>1, KindSizes DEF AhdIInv
    <3>2. left[k] = 0
      BY <2>2
    <3> QED
      BY <3>1, <3>2
  <2>5. scbs \in [0 .. Ahd!numscbs - 1 -> [Ahd!Kinds -> Nat]]
    <3>1. 0 .. Ahd!numscbs - 1 = {}
      BY <2>3
    <3>2. scbs \in [{} -> [Ahd!Kinds -> Nat]]
      BY <2>2
    <3> QED
      BY <3>1, <3>2
  <2>6. Ahd!TypeOK
    <3>1. page \in [Ahd!Kinds -> Nat]
      BY <2>2
    <3> QED
      BY <1>2, <2>1, <2>2, <2>3, <2>4, <2>5, <3>1 DEF AhdIInv, Ahd!TypeOK
  <2>7. Ahd!PiecesApart
    BY <2>2 DEF Ahd!PiecesApart, End, Ahd!ExtensionSize, ExtensionSize
  <2>8. TypeOK
    BY <2>1, <2>2 DEF AhcIdle, TypeOK
  <2> QED
    BY <2>6, <2>7, <2>8 DEF AhdPiecesApart
<1>3. ASSUME FamilyIInv, family = "aic79xx", ahdStep # "shared"
      PROVE  AhdPiecesApart
  <2>1. AhdIInv /\ AhcIdle
    BY <1>3 DEF FamilyIInv
  <2>2. /\ base \in Nat /\ base \in Bases /\ shared = First /\ ptr <= End
        /\ sgSize \in SgListSizes /\ shared \in Nat /\ failures \in Nat
        /\ Pools(ptr, page, left, scbs)
    BY <1>3, <2>1, LayoutAssumption DEF AhdIInv
  <2>3. Ahd!numscbs = Cardinality(DOMAIN scbs)
    BY SameCardinality DEF Ahd!numscbs
  <2>4. Ahd!numscbs <= 60 /\ Ahd!numscbs \in Nat /\ ptr \in Nat /\ Start <= ptr
    BY <2>2, <2>3, FewScbs, PoolNumbers
  <2>5. \A k \in Ahd!Kinds : left[k] \in 0 .. Ahd!PerPage(k)
    <3> SUFFICES ASSUME NEW k \in Ahd!Kinds
                 PROVE  left[k] \in 0 .. Ahd!PerPage(k)
      OBVIOUS
    <3>1. left[k] \in Nat /\ left[k] <= Ahd!PerPage(k)
      BY <2>2, PoolNumbers
    <3>2. Ahd!PerPage(k) \in 1 .. 64
      BY <2>2, KindSizes
    <3> QED
      BY <3>1, <3>2
  <2>6. Ahd!TypeOK
    <3>1. /\ page \in [Ahd!Kinds -> Nat]
          /\ scbs \in [0 .. Ahd!numscbs - 1 -> [Ahd!Kinds -> Nat]]
      BY <2>2, <2>3 DEF Pools, Typed
    <3>2. Ahd!numscbs <= 256
      BY <2>4
    <3> QED
      BY <2>1, <2>2, <2>4, <2>5, <3>1, <3>2 DEF AhdIInv, Ahd!TypeOK
  <2>7. base <= shared
    BY <2>2, AlignedBounds DEF First
  <2>8. ASSUME NEW i \in DOMAIN scbs, NEW k \in Ahd!Kinds
        PROVE  /\ base <= scbs[i][k] /\ scbs[i][k] + Ahd!Size(k) <= ptr
               /\ Ahd!Disjoint(scbs[i][k], Ahd!Size(k), shared, Ahd!SharedSize)
    <3>1. Start <= scbs[i][k] /\ scbs[i][k] + Ahd!Size(k) <= ptr
      BY <2>2 DEF Pools, Given
    <3>2. scbs[i][k] \in Nat /\ Ahd!Size(k) \in Nat
      BY <2>2, PoolNumbers, KindSizes
    <3>3. shared + Ahd!SharedSize <= Start
      BY <2>2
      DEF Ahd!SharedSize, Ahd!QoutfifoSize, Ahd!OverrunSize, Start, PageSize
    <3>4. Start \in Nat /\ Ahd!SharedSize \in Nat /\ base <= Start
      BY <2>2, <2>7
      DEF Ahd!SharedSize, Ahd!QoutfifoSize, Ahd!OverrunSize, Start, PageSize
    <3> QED
      BY <2>2, <3>1, <3>2, <3>3, <3>4 DEF Ahd!Disjoint
  <2>9. ASSUME NEW i \in DOMAIN scbs, NEW k \in Ahd!Kinds,
               NEW j \in DOMAIN scbs, NEW l \in Ahd!Kinds, <<i, k>> # <<j, l>>
        PROVE  Ahd!Disjoint(scbs[i][k], Ahd!Size(k), scbs[j][l], Ahd!Size(l))
    <3>1. i # j \/ k # l
      BY <2>9
    <3> QED
      BY <2>2, <3>1 DEF Pools, Separate, Ahd!Disjoint
  <2>10. Ahd!PiecesApart
    BY <2>2, <2>8, <2>9
    DEF Ahd!PiecesApart, End, Ahd!ExtensionSize, ExtensionSize
  <2>11. TypeOK
    BY <2>1, <2>2, <2>4 DEF AhcIdle, TypeOK
  <2> QED
    BY <2>6, <2>10, <2>11 DEF AhdPiecesApart
<1>4. FamilyIInv => AhdPiecesApart
  BY <1>1, <1>2, <1>3 DEF FamilyIInv
<1> QED
  BY <1>4, FamilyInvariance, PTL

-----------------------------------------------------------------------------
(* Failures of pool memory cost nothing.                                   *)

\* When no page is left and the pieces of one kind are used up, there are as
\* many SCBs as if nothing had ever failed: all pages but that of the queues
\* are pages of pieces, and of each kind less than a page is left.
LEMMA UsedUp ==
    ASSUME NEW b \in Nat, NEW f \in Nat, f < b + 4096, NEW p \in Nat,
           NEW n \in Nat, NEW h \in Nat, NEW g \in Nat, NEW s \in Nat,
           h <= 64, s <= 16, h = 0 \/ g = 0 \/ s = 0,
           (n + h) % 64 = 0, (n + s) % 16 = 0, ~(b + 65536 - p >= 4096)
    PROVE  /\ p = f + 4096 + (n + h) * 64 + (n + g) * 1024 + (n + s) * 256
              /\ g <= 4 /\ (n + g) % 4 = 0 => n >= 40
           /\ p = f + 4096 + (n + h) * 64 + (n + g) * 2048 + (n + s) * 256
              /\ g <= 2 /\ (n + g) % 2 = 0 => n >= 22
<1>1. PICK x \in Nat : n + h = 64 * x
  <2>1. n + h = 64 * ((n + h) \div 64) /\ (n + h) \div 64 \in Nat
    OBVIOUS
  <2> QED
    BY <2>1
<1>2. PICK z \in Nat : n + s = 16 * z
  <2>1. n + s = 16 * ((n + s) \div 16) /\ (n + s) \div 16 \in Nat
    OBVIOUS
  <2> QED
    BY <2>1
<1>3. ASSUME p = f + 4096 + (n + h) * 64 + (n + g) * 1024 + (n + s) * 256,
             g <= 4, (n + g) % 4 = 0
      PROVE  n >= 40
  <2>1. PICK y \in Nat : n + g = 4 * y
    <3>1. n + g = 4 * ((n + g) \div 4) /\ (n + g) \div 4 \in Nat
      BY <1>3
    <3> QED
      BY <3>1
  <2>2. x + y + z >= 14
    BY <1>1, <1>2, <1>3, <2>1
  <2> QED
    BY <1>1, <1>2, <1>3, <2>1, <2>2
<1>4. ASSUME p = f + 4096 + (n + h) * 64 + (n + g) * 2048 + (n + s) * 256,
             g <= 2, (n + g) % 2 = 0
      PROVE  n >= 22
  <2>1. PICK y \in Nat : n + g = 2 * y
    <3>1. n + g = 2 * ((n + g) \div 2) /\ (n + g) \div 2 \in Nat
      BY <1>4
    <3> QED
      BY <3>1
  <2>2. x + y + z >= 14
    BY <1>1, <1>2, <1>4, <2>1
  <2> QED
    BY <1>1, <1>2, <1>4, <2>1, <2>2
<1> QED
  BY <1>3, <1>4

\* ahd_get_scb returns NULL in a step in which nothing failed.
LEMMA RefusedForPages ==
    ASSUME AhdIInv, Ahd!MoreScbs, ahdRefused', failures' = failures
    PROVE  /\ ~Ahd!Room(ptr')
           /\ Ahd!numscbs' >= IF sgSize = 1024 THEN 40 ELSE 22
<1> DEFINE n == Cardinality(DOMAIN scbs')
           h == left'["hscb"]
           g == left'["sg"]
           s == left'["sense"]
<1>1. /\ base \in Nat /\ sgSize \in SgListSizes
      /\ shared = First /\ failures \in Nat /\ ptr <= End /\ ptr % PageSize = 0
      /\ Pools(ptr, page, left, scbs) /\ shared \in Nat
      /\ Ahd!AllocScbs /\ Ahd!numscbs' = Ahd!numscbs
  BY LayoutAssumption DEF AhdIInv, Ahd!MoreScbs
<1>2. /\ Pools(ptr', page', left', scbs') /\ ~Ahd!Room(ptr')
      /\ \E k \in Ahd!Kinds : left'[k] = 0
  BY <1>1, AllocKeepsPools
<1>3. "hscb" \in Ahd!Kinds /\ "sg" \in Ahd!Kinds /\ "sense" \in Ahd!Kinds
  BY DEF Ahd!Kinds
<1>4. /\ ptr' \in Nat /\ n \in Nat
      /\ \A k \in Ahd!Kinds : left'[k] \in Nat /\ left'[k] <= Ahd!PerPage(k)
  BY <1>1, <1>2, PoolNumbers
<1>5. h = 0 \/ g = 0 \/ s = 0
  BY <1>2 DEF Ahd!Kinds
<1>6. Counted(ptr', left', n)
  BY <1>2 DEF Pools
<1> HIDE DEF n
<1>7. First \in Nat /\ First < base + 4096
  BY <1>1, AlignedBounds DEF First, PageSize
<1>8. ~(base + 65536 - ptr' >= 4096)
  <2>1. Ahd!ExtensionSize = 65536 /\ Ahd!PageSize = 4096
    BY DEF Ahd!ExtensionSize, Ahd!PageSize
  <2>2. Ahd!Room(ptr') <=> base + Ahd!ExtensionSize - ptr' >= Ahd!PageSize
    BY DEF Ahd!Room
  <2> QED
    BY <1>2, <2>1, <2>2
<1>9. /\ h \in Nat /\ h <= 64 /\ g \in Nat /\ s \in Nat /\ s <= 16
      /\ (n + h) % 64 = 0 /\ (n + s) % 16 = 0
  BY <1>1, <1>3, <1>4, <1>6, Sizes DEF Counted
<1>10. Ahd!numscbs' = n
  BY SameCardinality DEF Ahd!numscbs, n
<1>11. /\ Start = First + 4096
       /\ Taken("hscb", left', n) = (n + h) * 64
       /\ Taken("sg", left', n) = (n + g) * sgSize
       /\ Taken("sense", left', n) = (n + s) * 256
  BY <1>1, Sizes DEF Start, PageSize, Taken
<1>12. CASE sgSize = 1024
  <2>1. /\ g <= 4 /\ (n + g) % 4 = 0
    BY <1>1, <1>3, <1>4, <1>6, <1>12, Sizes DEF Counted
  <2>2. ptr' = First + 4096 + (n + h) * 64 + (n + g) * 1024 + (n + s) * 256
    BY <1>6, <1>11, <1>12 DEF Counted
  <2> HIDE DEF h, g, s
  <2>3. n >= 40
    BY <1>1, <1>4, <1>5, <1>7, <1>8, <1>9, <2>1, <2>2, UsedUp
  <2> QED
    BY <1>2, <1>10, <1>12, <2>3
<1>13. CASE sgSize = 2048
  <2>1. /\ g <= 2 /\ (n + g) % 2 = 0
    BY <1>1, <1>3, <1>4, <1>6, <1>13, Sizes DEF Counted
  <2>2. ptr' = First + 4096 + (n + h) * 64 + (n + g) * 2048 + (n + s) * 256
    BY <1>6, <1>11, <1>13 DEF Counted
  <2> HIDE DEF h, g, s
  <2>3. n >= 22
    BY <1>1, <1>4, <1>5, <1>7, <1>8, <1>9, <2>1, <2>2, UsedUp
  <2> QED
    BY <1>2, <1>10, <1>13, <2>3
<1> QED
  BY <1>1, <1>12, <1>13, Sizes

\* Failures of pool memory cost the aic79xx no SCB, whatever failed before:
\* a command is refused for want of pages only when all pages are handed out
\* and there are as many SCBs as there would be had nothing ever failed.
THEOREM NoScbIsLost == FamilySpec => AhdNothingIsLost
<1> DEFINE A == (ahdRefused' /\ failures' = failures) =>
                  /\ ~Ahd!Room(ptr')
                  /\ Ahd!numscbs' >= IF sgSize = 1024 THEN 40 ELSE 22
<1>1. ASSUME FamilyIInv, [FamilyNext]_familyVars
      PROVE  [A]_(Ahd!vars)
  <2>1. CASE family = "aic7xxx"
    <3>1. ahdRefused = FALSE /\ UNCHANGED ahdVars
      BY <1>1, <2>1 DEF FamilyIInv, AhdIdle, FamilyNext, familyVars
    <3> QED
      BY <3>1 DEF ahdVars
  <2>2. CASE family = "aic79xx"
    <3>1. AhdIInv
      BY <1>1, <2>2 DEF FamilyIInv
    <3>2. Ahd!Next \/ UNCHANGED <<base, ptr, failures, ahdVars>>
      BY <1>1, <2>2 DEF FamilyNext, familyVars
    <3>3. CASE Ahd!MoreScbs
      BY <3>1, <3>3, RefusedForPages
    <3>4. CASE Ahd!AllocShared \/ Ahd!FirstScbs
      <4>1. ahdRefused' = FALSE
        BY <3>1, <3>4 DEF AhdIInv, Ahd!AllocShared, Ahd!FirstScbs
      <4> QED
        BY <4>1
    <3>5. CASE Ahd!NotFound
      BY <3>5 DEF Ahd!NotFound
    <3>6. CASE UNCHANGED <<base, ptr, failures, ahdVars>>
      BY <3>6 DEF ahdVars, Ahd!vars
    <3> QED
      BY <3>2, <3>3, <3>4, <3>5, <3>6 DEF Ahd!Next
  <2> QED
    BY <1>1, <2>1, <2>2 DEF FamilyIInv
<1>2. FamilySpec => [][FamilyNext]_familyVars
  BY PTL DEF FamilySpec, familyVars
<1>3. AhdNothingIsLost <=> [][A]_(Ahd!vars)
  BY DEF AhdNothingIsLost, Ahd!NothingIsLost
<1> HIDE DEF A
<1> QED
  BY <1>1, <1>2, <1>3, FamilyInvariance, PTL
=============================================================================
