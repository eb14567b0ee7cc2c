---------------------------- MODULE AhdDmaLayout ----------------------------
(***************************************************************************)
(* The pools an SCB of the aic79xx is made from.                           *)
(*                                                                         *)
(* ahd_alloc_scbs cuts hardware SCBs, S/G lists and sense buffers from     *)
(* pages of the uncached extension, one page of a kind at a time; what is  *)
(* left of the newest page of each kind is remembered and used first.  The *)
(* three kinds run out at different times and any step may fail, so an     *)
(* attempt can leave pages behind that the next one must continue.         *)
(*                                                                         *)
(* The driver asks for AHD_SCB_MAX_ALLOC SCBs and keeps those whose tags   *)
(* agree in the low eight bits apart on collision lists.  The extension    *)
(* holds far fewer, as TypeOK says: col_scb is never set, so the free SCBs *)
(* are one list, which is not modelled.                                    *)
(***************************************************************************)
EXTENDS Integers, FiniteSets

CONSTANTS Bases,       \* addresses at which StorPort may put the extension
          SgListSizes, \* ahd_sglist_size: with 32 and with 64 bit addresses
          PoolFailures \* bound: how often pool memory (kmalloc) may run out

\* Sizes in bytes.
PageSize          == 4096
ExtensionSize     == 64 * 1024
QoutfifoSize      == 512 * 4
OverrunSize       == 512
AHD_SCB_MAX_ALLOC == 512

Kinds == {"hscb", "sg", "sense"}

VARIABLES
    base,     \* uncached_ext_va
    sgSize,   \* what ahd_sglist_size returns
    ptr,      \* uc_ext_ptr; uc_ext_remain is what it leaves
    step,     \* how far ahd_init is: "shared", "scbs", "ready" or "failed"
    shared,   \* shared_data_map: qoutfifo, overrun_buf, next_queued_hscb
    page,     \* the newest page of each kind, first of hscb_maps and so on
    left,     \* scbs_left, sgs_left and sense_left
    scbs,     \* what each SCB was given
    refused,  \* ahd_get_scb has just returned NULL
    failures  \* how often pool memory has run out

vars == <<base, sgSize, ptr, step, shared, page, left, scbs, refused, failures>>

Size(k) == CASE k = "hscb" -> 64 [] k = "sg" -> sgSize [] k = "sense" -> 256

\* ahd_sglist_allocsize is a page for both sizes of a list.
PerPage(k) == PageSize \div Size(k)

numscbs == Cardinality(DOMAIN scbs)

\* There are never two SCBs whose tags differ by 0x100 only, so the
\* collision lists stay empty although every command is allowed to share
\* its tag on the bus with another (col_idx is AHD_NEVER_COL_IDX).
TypeOK ==
    /\ base \in Bases /\ sgSize \in SgListSizes
    /\ {ptr, shared, failures} \subseteq Nat
    /\ step \in {"shared", "scbs", "ready", "failed"}
    /\ page \in [Kinds -> Nat]
    /\ \A k \in Kinds : left[k] \in 0 .. PerPage(k)
    /\ numscbs <= 256
    /\ scbs \in [0 .. numscbs - 1 -> [Kinds -> Nat]]
    /\ refused \in BOOLEAN

Init ==
    /\ base \in Bases /\ sgSize \in SgListSizes
    /\ ptr = base
    /\ step = "shared"
    /\ shared = 0
    /\ page = [k \in Kinds |-> 0]
    /\ left = [k \in Kinds |-> 0]
    /\ scbs = [i \in {} |-> page]
    /\ refused = FALSE
    /\ failures = 0

-----------------------------------------------------------------------------
(* ahd_ucext_alloc as ahd_dmamem_alloc calls it: a page, whatever the tag. *)

Aligned(p) == IF p % PageSize = 0 THEN p ELSE (p + PageSize) - (p % PageSize)

Room(p) == base + ExtensionSize - p >= PageSize

AfterPage(p) == Aligned(p) + PageSize

-----------------------------------------------------------------------------
(* ahd_alloc_scbs.                                                         *)

\* The order in which the pages are asked for.
Before(k) == CASE k = "hscb" -> {} [] k = "sg" -> {"hscb"}
               [] k = "sense" -> {"hscb", "sg"}

\* The kinds of which nothing is left.
Empty == {k \in Kinds : left[k] = 0}

\* Where the page for the empty kind k is taken, those before it first.
Pointer(k) ==
    LET pages == Cardinality(Empty \cap Before(k))
    IN  IF pages = 0 THEN ptr ELSE Aligned(ptr) + pages * PageSize

\* The pages for the kinds K are taken; a page comes with all its pieces.
Refill(K) ==
    /\ page' = [k \in Kinds |->
                  IF k \in K THEN Aligned(Pointer(k)) ELSE page[k]]
    /\ ptr' = IF K = {} THEN ptr ELSE Aligned(ptr) + Cardinality(K) * PageSize

\* The attempt ends before the page for k, for want of pool memory for its
\* map or of a page.  What was taken before stays for the next attempt.
StopAt(k) ==
    /\ k \in Empty
    /\ \A j \in Empty \cap Before(k) : Room(Pointer(j))
    /\ \/ ~Room(Pointer(k)) /\ failures' = failures
       \/ failures < PoolFailures /\ failures' = failures + 1
    /\ Refill(Empty \cap Before(k))
    /\ left' = [j \in Kinds |->
                  IF j \in Empty \cap Before(k) THEN PerPage(j) ELSE left[j]]
    /\ UNCHANGED scbs

\* A mutation: the offset is counted from the start of the page.
PieceCountedFromTheStart(k, rest, i) == (rest + i) * Size(k)

\* The place in its page of the i-th piece an attempt takes, when rest
\* pieces were left: the offsets computed from scbs_left and its like.
Piece(k, rest, i) == (PerPage(k) - rest + i) * Size(k)

\* A mutation: a batch that ends early gives its pages up, as on the aic7xxx.
LeftGivenUp(rest, n, batch) == IF n = batch THEN rest - n ELSE 0

LeftAfter(rest, n, batch) == rest - n

\* The batch is what every kind has and the limit allows.
Batch(rest) ==
    LET limits == {rest[k] : k \in Kinds} \cup {AHD_SCB_MAX_ALLOC - numscbs}
    IN  CHOOSE n \in limits : \A m \in limits : n <= m

\* n SCBs of the batch are made; the batch ends early when there is no pool
\* memory for an SCB or its platform data.
Make(n, rest) ==
    /\ n \in 0 .. Batch(rest)
    /\ \/ n = Batch(rest) /\ failures' = failures
       \/ n < Batch(rest) /\ failures < PoolFailures /\ failures' = failures + 1
    /\ left' = [k \in Kinds |-> LeftAfter(rest[k], n, Batch(rest))]
    /\ scbs' = [i \in 0 .. numscbs + n - 1 |->
                  IF i < numscbs THEN scbs[i]
                  ELSE [k \in Kinds |->
                          page'[k] + Piece(k, rest[k], i - numscbs)]]

MakeBatch ==
    /\ \A k \in Empty : Room(Pointer(k))
    /\ Refill(Empty)
    /\ \E n \in 0 .. 16 :
         Make(n, [k \in Kinds |-> IF k \in Empty THEN PerPage(k) ELSE left[k]])

AllocScbs ==
    \/ /\ numscbs >= AHD_SCB_MAX_ALLOC
       /\ UNCHANGED <<ptr, page, left, scbs, failures>>
    \/ /\ numscbs < AHD_SCB_MAX_ALLOC
       /\ (\E k \in Kinds : StopAt(k)) \/ MakeBatch

-----------------------------------------------------------------------------
(* ahd_init and the commands after it.                                     *)

AllocShared ==
    /\ step = "shared"
    /\ Room(ptr)
    /\ shared' = Aligned(ptr)
    /\ ptr' = AfterPage(ptr)
    /\ step' = "scbs"
    /\ UNCHANGED <<base, sgSize, page, left, scbs, refused, failures>>

\* ahd_init_scbdata: without a first SCB the adapter is not found.
FirstScbs ==
    /\ step = "scbs"
    /\ AllocScbs
    /\ step' = IF numscbs' = 0 THEN "failed" ELSE "ready"
    /\ UNCHANGED <<base, sgSize, shared, refused>>

\* ahd_get_scb finds every SCB in use.  It looks once more after asking for
\* a batch: a batch of none is an answer of NULL.
MoreScbs ==
    /\ step = "ready"
    /\ AllocScbs
    /\ refused' = (numscbs' = numscbs)
    /\ UNCHANGED <<base, sgSize, step, shared>>

NotFound == step = "failed" /\ UNCHANGED vars

Next == AllocShared \/ FirstScbs \/ MoreScbs \/ NotFound

Spec == Init /\ [][Next]_vars

-----------------------------------------------------------------------------
(* Properties.                                                             *)

\* The bytes [a, a + la) and [b, b + lb) have none in common.
Disjoint(a, la, b, lb) == a + la <= b \/ b + lb <= a

SharedSize == QoutfifoSize + OverrunSize + 64

\* Whatever attempts failed half way, no piece of memory belongs to two
\* SCBs or to an SCB and the queues, and none lies outside the extension.
PiecesApart ==
    /\ ptr <= base + ExtensionSize
    /\ \A i \in DOMAIN scbs, k \in Kinds :
         /\ base <= scbs[i][k] /\ scbs[i][k] + Size(k) <= ptr
         /\ Disjoint(scbs[i][k], Size(k), shared, SharedSize)
         /\ \A j \in DOMAIN scbs, l \in Kinds :
              <<i, k>> # <<j, l>> =>
                  Disjoint(scbs[i][k], Size(k), scbs[j][l], Size(l))

\* Failures of pool memory cost nothing in the long run: a command is
\* refused for want of pages only when all pages are handed out and there are
\* as many SCBs as there would be had nothing ever failed.
NothingIsLost ==
    [][ (refused' /\ failures' = failures) =>
          /\ ~Room(ptr')
          /\ numscbs' >= IF sgSize = 1024 THEN 40 ELSE 22 ]_vars
=============================================================================
