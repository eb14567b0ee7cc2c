----------------------------- MODULE AhdDataFifo -----------------------------
(***************************************************************************)
(* The data FIFOs of a packetized command (aic79xx).                       *)
(*                                                                         *)
(* On a packetized bus a target sends the data of a command in contexts.   *)
(* Each takes one of the two data FIFOs, which drains to the host while    *)
(* the bus goes on, so that the good status of the command may arrive (in  *)
(* the GSFIFO) before its data have reached memory.  The firmware serves   *)
(* the FIFOs from its idle loop; the host takes the work over in           *)
(* ahd_flush_qoutfifo, when it has paused the sequencer and finds a good   *)
(* status.  Either may complete the command.                               *)
(*                                                                         *)
(* Modelled is one command that reads, on a chip with AHD_RTI (there are   *)
(* no snapshots of the pointers), whose target never sends more than the   *)
(* buffer holds.  Bytes of the buffer are numbered from 0; the fetching of *)
(* S/G elements into the chip's cache is left out.  The chip announces a   *)
(* context (CFG4DATA) only when the pointers of the one before are saved.  *)
(***************************************************************************)
EXTENDS Integers, Sequences

CONSTANTS
    SgLists,    \* the S/G lists tried: where each segment ends
    MaxContexts \* bound: the contexts a target uses

ASSUME FifoAssumption ==
    /\ \A list \in SgLists :
          /\ list \in Seq(Nat \ {0})
          /\ \A i, j \in DOMAIN list : i < j => list[i] < list[j]
    /\ MaxContexts \in Nat

VARIABLES
    sg_list,  \* the ends of the segments
    scb,      \* SCB_DATAPTR (at), SCB_DATACNT (cnt; last: AHD_DMA_LAST_SEG),
              \* SCB_SGPTR (next; null: SG_LIST_NULL, full: SG_FULL_RESID)
    resid,    \* SCB_RESIDUAL_DATACNT and SCB_RESIDUAL_SGPTR
    uses,     \* SCB_FIFO_USE_COUNT
    received, \* STATUS_RCVD in SCB_CONTROL
    fifo,     \* the two FIFOs, see Idle
    pos,      \* how many bytes the target has sent
    contexts, \* how many contexts there were
    status,   \* the good status: "none", "queued" in the GSFIFO, "taken"
    host,     \* "away", or "flushing" in ahd_flush_qoutfifo
    memory,   \* the bytes of the target that lie in the buffer, where they lie
    misled,   \* history: has the host begun a context whose segment it takes for
              \* the last of the list, though it is not?
    ended     \* "no"; "complete", on COMPLETE_SCB or completed by the host;
              \* "upload", on COMPLETE_DMA_SCB with SG_STATUS_VALID

vars == <<sg_list, scb, resid, uses, received, fifo, pos, contexts, status,
          host, memory, misled, ended>>

-----------------------------------------------------------------------------
(* The buffer.                                                             *)

Total == IF sg_list = <<>> THEN 0 ELSE sg_list[Len(sg_list)]

\* The first byte of segment s.
StartOf(s) == IF s = 1 THEN 0 ELSE sg_list[s - 1]

Segment(s) == [at |-> StartOf(s), cnt |-> sg_list[s] - StartOf(s),
               last |-> s = Len(sg_list), next |-> s + 1]

-----------------------------------------------------------------------------
(* A FIFO.                                                                 *)

\* No context uses it.  Of a context: the segments loaded so far, each with
\* how many bytes were loaded up to its end (upto), how many bytes have come
\* from the bus (got) and gone to memory (done), the target's position at its
\* start (base); it is over on the bus (CTXTDONE); its pointers have been saved
\* (CLRSAVEPTRS); LOADING_NEEDED; who watches over it.
Idle == [ours |-> FALSE, fresh |-> FALSE, segs |-> <<>>, got |-> 0,
         done |-> 0, base |-> 0, over |-> FALSE, saved |-> FALSE,
         loading |-> FALSE, handler |-> "none"]

Newest(x) == x.segs[Len(x.segs)]
Loaded(x) == IF x.segs = <<>> THEN 0 ELSE Newest(x).upto

\* The segment the SCSI side is in.
Reached(x) ==
    CHOOSE i \in DOMAIN x.segs :
        /\ i = Len(x.segs) \/ x.got < x.segs[i].upto
        /\ \A k \in 1 .. i - 1 : x.got >= x.segs[k].upto
SG_CACHE_SHADOW(x) == x.segs[Reached(x)]
SHCNT(x) == IF x.got < SG_CACHE_SHADOW(x).upto
            THEN SG_CACHE_SHADOW(x).upto - x.got ELSE 0
SHADDR(x) == SG_CACHE_SHADOW(x).at + SG_CACHE_SHADOW(x).cnt - SHCNT(x)

SHVALID(x)       == x.got < Loaded(x)
FIFOEMP(x)       == x.done = x.got
LAST_SEG_DONE(x) == x.segs # <<>> /\ Newest(x).last /\ x.done = Loaded(x)

\* The interrupts of the chip.  A context that ends before the last segment
\* does asks for a save, once the shadow is valid.
SAVEPTRS(x) == x.over /\ ~x.fresh /\ ~x.saved /\ SHVALID(x)
Unsaved(x)  == x.ours /\ ~x.saved /\ ~LAST_SEG_DONE(x)
CFG4DATA(f) == /\ fifo[f].fresh
               /\ ~(Unsaved(fifo[1 - f]) /\ fifo[1 - f].base < fifo[f].base)

Contexts == [ours : BOOLEAN, fresh : BOOLEAN,
             segs : Seq([at : 0 .. Total, cnt : 0 .. Total, last : BOOLEAN,
                         next : Nat, upto : 0 .. Total]),
             got : 0 .. Total, done : 0 .. Total, base : 0 .. Total,
             over : BOOLEAN, saved : BOOLEAN, loading : BOOLEAN,
             handler : {"none", "xfer", "drain", "ctxt", "fake"}]

-----------------------------------------------------------------------------
(* The command.                                                            *)

\* ahd_setup_data_scb and ahd_setup_noxfer_scb.
SetupScb(list) ==
    [at |-> 0, cnt |-> IF list = <<>> THEN 0 ELSE list[1],
     last |-> Len(list) = 1, next |-> 2,
     null |-> list = <<>>, full |-> list # <<>>]

Init ==
    /\ sg_list \in SgLists
    /\ scb = SetupScb(sg_list)
    /\ resid = [cnt |-> 0, last |-> FALSE, next |-> 0, null |-> FALSE]
    /\ uses = 0
    /\ received = FALSE
    /\ fifo = [f \in {0, 1} |-> Idle]
    /\ pos = 0 /\ contexts = 0
    /\ status = "none"
    /\ host = "away"
    /\ memory = {}
    /\ misled = FALSE
    /\ ended = "no"

-----------------------------------------------------------------------------
(* The target and the chip.                                                *)

OnTheBus(f) == fifo[f].ours /\ ~fifo[f].over

BeginContext(f) ==
    /\ status = "none" /\ contexts < MaxContexts /\ pos < Total
    /\ ~fifo[f].ours /\ ~OnTheBus(1 - f)
    /\ fifo' = [fifo EXCEPT ![f] = [Idle EXCEPT !.ours = TRUE, !.fresh = TRUE,
                                                !.base = pos]]
    /\ contexts' = contexts + 1
    /\ UNCHANGED <<sg_list, scb, resid, uses, received, pos, status, host,
                   memory, misled, ended>>

\* A FIFO takes data even before it knows where they go.
Receive(f) ==
    /\ OnTheBus(f)
    /\ \E n \in 1 .. Total - pos :
         /\ fifo' = [fifo EXCEPT ![f].got = @ + n]
         /\ pos' = pos + n
    /\ UNCHANGED <<sg_list, scb, resid, uses, received, contexts, status, host,
                   memory, misled, ended>>

EndContext(f) ==
    /\ OnTheBus(f) /\ fifo[f].got > 0
    /\ fifo' = [fifo EXCEPT ![f].over = TRUE]
    /\ UNCHANGED <<sg_list, scb, resid, uses, received, pos, contexts, status,
                   host, memory, misled, ended>>

\* Where byte n of a context goes.
Place(x, n) ==
    LET seg == x.segs[CHOOSE i \in DOMAIN x.segs :
                         /\ n <= x.segs[i].upto
                         /\ n > x.segs[i].upto - x.segs[i].cnt]
    IN  seg.at + n - 1 - (seg.upto - seg.cnt)

Drain(f) ==
    LET x    == fifo[f]
        upto == IF SHVALID(x) THEN x.got ELSE Loaded(x)
    IN  /\ x.done < upto
        /\ memory' = memory \cup
                     {<<Place(x, n), x.base + n>> : n \in x.done + 1 .. upto}
        /\ fifo' = [fifo EXCEPT ![f].done = upto]
        /\ UNCHANGED <<sg_list, scb, resid, uses, received, pos, contexts,
                       status, host, misled, ended>>

GoodStatus ==
    /\ status = "none"
    /\ \A f \in {0, 1} : ~OnTheBus(f)
    /\ status' = "queued"
    /\ UNCHANGED <<sg_list, scb, resid, uses, received, fifo, pos, contexts,
                   host, memory, misled, ended>>

-----------------------------------------------------------------------------
(* The firmware.  Interrupts come before the idle loop.                    *)

IdleLoop == host = "away" /\ \A f \in {0, 1} : ~CFG4DATA(f)

\* The segment the SCB is in.
FirstSegment == [at |-> scb.at, cnt |-> scb.cnt, last |-> scb.last,
                 next |-> scb.next, upto |-> scb.cnt]

\* load_first_seg; pkt_handle_xfer.
Cfg4Data(f) ==
    /\ host = "away" /\ CFG4DATA(f) /\ ~scb.null
    /\ fifo' = [fifo EXCEPT
                  ![f].fresh = FALSE, ![f].handler = "xfer",
                  ![f].segs = <<FirstSegment>>,
                  ![f].loading = ~scb.last]
    /\ scb' = [scb EXCEPT !.full = FALSE]
    /\ resid' = [resid EXCEPT !.last = scb.last, !.next = scb.next,
                              !.null = scb.null]
    /\ uses' = uses + 1
    /\ UNCHANGED <<sg_list, received, pos, contexts, status, host, memory, misled, ended>>

Following(x, seg) ==
    [at |-> seg.at, cnt |-> seg.cnt, last |-> seg.last, next |-> seg.next,
     upto |-> Newest(x).upto + seg.cnt]

\* service_fifo, and the host in its place: the next segment of the list.
Load(f, seg) ==
    /\ fifo' = [fifo EXCEPT ![f].segs = Append(@, Following(fifo[f], seg)),
                            ![f].loading = ~seg.last]
    /\ resid' = [resid EXCEPT !.last = seg.last, !.next = seg.next]
    /\ UNCHANGED <<sg_list, scb, uses, received, pos, contexts, status, host,
                   memory, misled, ended>>

LoadSegment(f) ==
    /\ IdleLoop
    /\ fifo[f].handler = "xfer" /\ ~SAVEPTRS(fifo[f]) /\ fifo[f].loading
    /\ Load(f, Segment(resid.next))

\* A mutation: the segments loaded ahead of the bus are not taken back.
NoFixup(x) == [resid EXCEPT !.cnt = SHCNT(x)]

\* calc_residual.
Residual(x) ==
    IF ~SG_CACHE_SHADOW(x).last
    THEN [cnt |-> SHCNT(x), last |-> FALSE, next |-> SG_CACHE_SHADOW(x).next,
          null |-> FALSE]
    ELSE IF SHVALID(x) THEN [resid EXCEPT !.cnt = SHCNT(x)]
                       ELSE [resid EXCEPT !.null = TRUE]

\* save_pointers.
SavedPointers(x, r) ==
    IF r.null THEN [scb EXCEPT !.null = TRUE]
    ELSE [at |-> SHADDR(x), cnt |-> r.cnt, last |-> r.last, next |-> r.next,
          null |-> FALSE, full |-> FALSE]

\* Whether the host must have a copy of the SCB to find out about a residual.
QueueScbCompletion(s, r) ==
    IF ~s.null /\ (s.full \/ ~r.null) THEN "upload" ELSE "complete"

\* A mutation: the other FIFO is not looked at.
NoOtherFifo(n) == TRUE

FifosIdle(n) == n = 0

\* The FIFO is released; its context may have been the last one the completion
\* of the command had to wait for (pkt_complete_scb_if_fifos_idle).
Release(f, s, r) ==
    /\ fifo' = [fifo EXCEPT ![f] = Idle]
    /\ uses' = uses - 1
    /\ ended' = IF received /\ FifosIdle(uses - 1)
                THEN QueueScbCompletion(s, r) ELSE ended

\* pkt_saveptrs.  Once the pointers are saved the chip may announce the next
\* context, whose interrupt comes before the rest.
SavePointers(f) ==
    /\ IdleLoop
    /\ fifo[f].handler = "xfer" /\ SAVEPTRS(fifo[f])
    /\ resid' = Residual(fifo[f])
    /\ scb' = SavedPointers(fifo[f], Residual(fifo[f]))
    /\ fifo' = [fifo EXCEPT ![f].saved = TRUE, ![f].loading = FALSE,
                            ![f].handler = "drain"]
    /\ UNCHANGED <<sg_list, uses, received, pos, contexts, status, host, memory,
                   misled, ended>>

\* pkt_saveptrs_wait_fifoemp, pkt_saveptrs_check_status.
Drained(f) ==
    /\ IdleLoop
    /\ fifo[f].handler = "drain" /\ FIFOEMP(fifo[f])
    /\ Release(f, scb, resid)
    /\ UNCHANGED <<sg_list, scb, resid, received, pos, contexts, status, host,
                   memory, misled>>

\* pkt_last_seg_done; the context may still go on.
LastSegDone(f) ==
    LET s == [scb EXCEPT !.null = TRUE]
    IN  /\ IdleLoop
        /\ fifo[f].handler = "xfer"
        /\ ~SAVEPTRS(fifo[f]) /\ ~fifo[f].loading /\ LAST_SEG_DONE(fifo[f])
        /\ scb' = s
        /\ IF fifo[f].over
           THEN Release(f, s, resid)
           ELSE /\ fifo' = [fifo EXCEPT ![f].handler = "ctxt"]
                /\ UNCHANGED <<uses, ended>>
        /\ UNCHANGED <<sg_list, resid, received, pos, contexts, status, host,
                       memory, misled>>

\* pkt_wait_ctxt_done_loop.
ContextDone(f) ==
    /\ IdleLoop
    /\ fifo[f].handler = "ctxt" /\ fifo[f].over
    /\ Release(f, scb, resid)
    /\ UNCHANGED <<sg_list, scb, resid, received, pos, contexts, status, host,
                   memory, misled>>

\* idle_loop_gsfifo.  It completes without asking for a residual.
TakeGoodStatus ==
    /\ IdleLoop /\ status = "queued"
    /\ status' = "taken"
    /\ received' = TRUE
    /\ ended' = IF FifosIdle(uses) THEN "complete" ELSE ended
    /\ UNCHANGED <<sg_list, scb, resid, uses, fifo, pos, contexts, host, memory, misled>>

-----------------------------------------------------------------------------
(* The host, while the sequencer is paused.                                *)

\* A mutation: a context the chip has only announced is not seen.
HasHandler(f) == fifo[f].handler # "none"

\* ahd_scb_active_in_fifo.
Active(f) == \/ fifo[f].handler # "none"
             \/ CFG4DATA(f) \/ SAVEPTRS(fifo[f])

Flush ==
    /\ host = "away" /\ status = "queued"
    /\ host' = "flushing"
    /\ UNCHANGED <<sg_list, scb, resid, uses, received, fifo, pos, contexts,
                   status, memory, misled, ended>>

\* The branches of ahd_run_data_fifo, in their order.
RunCfg4Data(f) ==
    /\ CFG4DATA(f)
    /\ fifo' = [fifo EXCEPT
                  ![f].fresh = FALSE, ![f].handler = "fake",
                  ![f].segs = <<FirstSegment>>,
                  ![f].loading = ~scb.last]
    /\ scb' = [scb EXCEPT !.full = FALSE]
    /\ resid' = [resid EXCEPT !.last = scb.last, !.next = scb.next,
                              !.null = FALSE]
    /\ uses' = uses + 1
    /\ misled' = (misled \/ scb.last # (scb.next > Len(sg_list)))

\* The count is saved with the mark of the segment loaded last, also when the
\* bus has not come to it, and without the note that nothing is left.
RunSavePointers(f) ==
    LET x == fifo[f]
        r == Residual(x)
    IN  /\ ~CFG4DATA(f) /\ SAVEPTRS(x)
        /\ resid' = r
        /\ scb' = [at |-> SHADDR(x), cnt |-> SHCNT(x), last |-> resid.last,
                   next |-> r.next, null |-> resid.null, full |-> FALSE]
        /\ fifo' = [fifo EXCEPT ![f].saved = TRUE, ![f].loading = FALSE]
        /\ UNCHANGED <<uses, misled>>

\* A mutation: the host does not watch the FIFO run empty.
NeverEmpty(x) == FALSE

\* The data of the context are in memory.
Empty(x) == FIFOEMP(x)

RunRelease(f) ==
    LET x == fifo[f]
    IN  /\ ~CFG4DATA(f) /\ ~SAVEPTRS(x) /\ ~x.loading
        /\ LAST_SEG_DONE(x) \/ Empty(x)
        /\ scb' = IF LAST_SEG_DONE(x) THEN [scb EXCEPT !.null = TRUE] ELSE scb
        /\ fifo' = [fifo EXCEPT ![f] = Idle]
        /\ uses' = uses - 1
        /\ UNCHANGED <<resid, misled>>

RunDataFifo(f) ==
    /\ host = "flushing" /\ Active(f)
    /\ \/ /\ RunCfg4Data(f) \/ RunSavePointers(f) \/ RunRelease(f)
          /\ UNCHANGED <<sg_list, received, pos, contexts, status, host, memory,
                         ended>>
       \/ /\ ~CFG4DATA(f) /\ ~SAVEPTRS(fifo[f]) /\ fifo[f].loading
          /\ Load(f, Segment(resid.next))

\* The test of ahd_flush_qoutfifo, which asks for the reverse of what the
\* firmware asks for in queue_scb_completion.
Flushed ==
    IF ~scb.null /\ (scb.full \/ resid.null) THEN "upload" ELSE "complete"

FlushEnds ==
    /\ host = "flushing"
    /\ \A f \in {0, 1} : ~Active(f)
    /\ status' = "taken"
    /\ ended' = Flushed
    /\ host' = "away"
    /\ UNCHANGED <<sg_list, scb, resid, uses, received, fifo, pos, contexts,
                   memory, misled>>

Fifo(f) ==
    \/ BeginContext(f) \/ Receive(f) \/ EndContext(f) \/ Drain(f)
    \/ Cfg4Data(f) \/ LoadSegment(f) \/ SavePointers(f)
    \/ Drained(f) \/ LastSegDone(f) \/ ContextDone(f)
    \/ RunDataFifo(f)

Next == (\E f \in {0, 1} : Fifo(f))
        \/ GoodStatus \/ TakeGoodStatus \/ Flush \/ FlushEnds

Spec == Init /\ [][Next]_vars

\* The chip drains its FIFOs, the firmware serves what is in its lists, and a
\* host that flushes does not stop.
Fairness ==
    /\ \A f \in {0, 1} :
         WF_vars(Drain(f) \/ Cfg4Data(f) \/ LoadSegment(f) \/ SavePointers(f)
                 \/ Drained(f) \/ LastSegDone(f) \/ ContextDone(f)
                 \/ RunDataFifo(f))
    /\ WF_vars(TakeGoodStatus \/ FlushEnds)

FairSpec == Spec /\ Fairness

-----------------------------------------------------------------------------
(* Properties.                                                             *)

TypeOK ==
    /\ sg_list \in SgLists
    /\ scb \in [at : 0 .. Total, cnt : 0 .. Total, last : BOOLEAN, next : Nat,
                null : BOOLEAN, full : BOOLEAN]
    /\ resid \in [cnt : 0 .. Total, last : BOOLEAN, next : Nat, null : BOOLEAN]
    /\ uses \in 0 .. 2
    /\ received \in BOOLEAN
    /\ fifo \in [{0, 1} -> Contexts]
    /\ pos \in 0 .. Total
    /\ status \in {"none", "queued", "taken"}
    /\ host \in {"away", "flushing"}
    /\ misled \in BOOLEAN
    /\ ended \in {"no", "complete", "upload"}

\* No byte lies in memory but at its place.  Whoever completes the command,
\* neither FIFO works for it any more by then, and all its data lie in memory;
\* unless a flush has begun a context with a wrong mark of the last segment,
\* which ends the context with that segment.
AllInMemory == memory = {<<n, n + 1>> : n \in 0 .. pos - 1}

DataBeforeCompletion ==
    /\ \A m \in memory : m[2] = m[1] + 1
    /\ ended # "no" => /\ fifo = [f \in {0, 1} |-> Idle]
                       /\ ~misled => AllInMemory

\* "This function attempts to operate exactly as the firmware would when running
\* this FIFO" (ahd_run_data_fifo, aic79xx_core.c:1415): a command it completes
\* has all its data in memory, as one the firmware completes has.
FlushedLikeFirmware == ended # "no" => AllInMemory

\* ahd_calc_residual, for an SCB that the host gets with SG_STATUS_VALID.
CalcResidual ==
    IF scb.null THEN 0
    ELSE IF scb.full THEN Total
    ELSE IF resid.null THEN 0
    ELSE resid.cnt + Total - StartOf(resid.next)

\* An SCB that is uploaded tells the host exactly what is missing.
UploadTellsResidual == ended = "upload" => CalcResidual = Total - pos

\* A command whose SCB is not uploaded has no residual.
NoResidualForgotten == ended = "complete" => pos = Total

\* A good status that has arrived completes its command.
StatusCompletes == status = "queued" ~> ended # "no"
=============================================================================
