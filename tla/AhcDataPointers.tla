--------------------------- MODULE AhcDataPointers ---------------------------
(***************************************************************************)
(* Where the bytes of a command go (aic7xxx).                              *)
(*                                                                         *)
(* A command's buffer is a list of segments.  The port layer describes it  *)
(* in the SCB; the sequencer walks it in data phases, saves and restores   *)
(* its place when the target says so, and leaves a residual.  Whenever the *)
(* target returns to a data phase, and when it says that the last byte it  *)
(* sent was padding (IGNORE WIDE RESIDUE), the sequencer asks the host to  *)
(* compute the place anew.  At the end the host works out how much was not *)
(* transferred.                                                            *)
(*                                                                         *)
(* Modelled is one command that reads, on a wide bus.  The bytes of the    *)
(* buffer are numbered; a segment is given by the number of its last byte. *)
(* The chip's prefetching of segments is left out: a data phase is one     *)
(* step, after which the chip shows where the SCSI side stands.            *)
(***************************************************************************)
EXTENDS Integers, Sequences

CONSTANTS
    SgLists,      \* the S/G lists tried: where each segment ends
    AfterResidue, \* what the target may do after an IGNORE WIDE RESIDUE that
                  \* takes a byte back.  "save": save its pointers before
                  \* the next data phase.  "restore": go back to a place it
                  \* saved before the residue
    MaxPhases     \* bound: how many data phases there are

VARIABLES
    sg_list, \* the ends of the segments
    scb,     \* SCB_DATAPTR, SCB_DATACNT (last: SG_LAST_SEG), SCB_SGPTR (the
             \* next segment; null: SG_LIST_NULL, full: SG_FULL_RESID)
    residual,\* SCB_RESIDUAL_DATACNT and SCB_RESIDUAL_SGPTR
    odd,     \* SCB_XFERLEN_ODD
    DPHASE,  \* the flag in SEQ_FLAGS
    shaddr,  \* SHADDR: where the SCSI side of the chip stands
    phase,   \* of the bus: "message" (or data), "free"; or "done"
    overrun, \* DATA_OVERRUN was reported: the status is CAM_DATA_RUN_ERR
    greedy,  \* the target has sent more than the buffer holds
    memory,  \* what the chip has written where
    target,  \* the target's view: pos, its place; saved; most, its place at
             \* the end of the last data phase; pads, it has just sent a byte
             \* of padding; padded, crossed: a byte was taken back since the
             \* last data phase, since it last saved its pointers
    phases,  \* how many data phases there were
    resid    \* what ahc_calc_residual gave the port layer

vars == <<sg_list, scb, residual, odd, DPHASE, shaddr, phase, overrun, greedy,
          memory, target, phases, resid>>

-----------------------------------------------------------------------------
(* The buffer.                                                             *)

\* What lies before segment s, which may be one behind the last.
Before(s) == IF s = 1 THEN 0 ELSE sg_list[s - 1]
Length(s) == sg_list[s] - Before(s)
Total     == sg_list[Len(sg_list)]

\* Between two segments lies an address that belongs to neither.
Addr(s, offset) == Before(s) + s + offset

\* The segment of byte n, and the address of the byte.
SegmentOf(n) == CHOOSE s \in DOMAIN sg_list : Before(s) < n /\ n <= sg_list[s]
Home(n)      == LET s == SegmentOf(n) IN Addr(s, n - Before(s) - 1)

\* The addresses of the bytes of the segments s, s + 1, ...
Bytes(s) == [i \in 1 .. Total - Before(s) |-> Home(Before(s) + i)]

Pointers == [ptr : Nat, cnt : Nat, last : BOOLEAN, next : Nat,
             null : BOOLEAN, full : BOOLEAN]

TypeOK ==
    /\ sg_list \in SgLists
    /\ scb \in Pointers
    /\ residual \in [cnt : Nat, last : BOOLEAN, next : Nat, null : BOOLEAN]
    /\ {odd, DPHASE, overrun, greedy} \subseteq BOOLEAN
    /\ shaddr \in Nat
    /\ phase \in {"free", "message", "done"}
    /\ memory \in Seq(Nat \X (0 .. Total))
    /\ target \in [pos : 0 .. Total, saved : 0 .. Total, most : 0 .. Total,
                   pads : BOOLEAN, padded : BOOLEAN, crossed : BOOLEAN]
    /\ resid \in 0 .. Total

\* ahc_setup_data_scb: the SCB holds the first segment; the list the chip is
\* told of begins with the second.
SetupDataScb ==
    [ptr |-> Addr(1, 0), cnt |-> Length(1), last |-> Len(sg_list) = 1,
     next |-> 2, null |-> FALSE, full |-> TRUE]

Init ==
    /\ sg_list \in SgLists
    /\ scb = SetupDataScb
    /\ residual = [cnt |-> 0, last |-> FALSE, next |-> 0, null |-> FALSE]
    /\ odd = (Total % 2 = 1)
    /\ DPHASE = FALSE
    /\ shaddr = 0
    /\ phase = "message"
    /\ overrun = FALSE /\ greedy = FALSE
    /\ memory = <<>>
    /\ target = [pos |-> 0, saved |-> 0, most |-> 0,
                 pads |-> FALSE, padded |-> FALSE, crossed |-> FALSE]
    /\ phases = 0
    /\ resid = 0

-----------------------------------------------------------------------------
(* Entering a data phase.                                                  *)

\* data_phase_initialize: the first data phase since the pointers were
\* restored begins where the SCB says.
Loaded == [ptr |-> scb.ptr, cnt |-> scb.cnt, last |-> scb.last,
           next |-> scb.next, null |-> scb.null]

\* A mutation: the residual pointer is taken for the current segment.
NotBackedUp(n) == n

\* The residual pointer always points to the next segment.
CurrentOf(n) == n - 1

\* ahc_reinitialize_dataptrs: another data phase goes on with the residual,
\* which counts from the end of its segment.
Reinitialized ==
    LET s == CurrentOf(residual.next)
    IN  [ptr |-> Addr(s, Length(s) - residual.cnt), cnt |-> residual.cnt,
         last |-> residual.last, next |-> residual.next, null |-> residual.null]

Place == IF DPHASE THEN Reinitialized ELSE Loaded

\* The addresses the chip will use, from a place on.
Path(p) ==
    IF p.null THEN <<>>
    ELSE [o \in 1 .. p.cnt |-> p.ptr + o - 1]
         \o IF p.last THEN <<>> ELSE Bytes(p.next)

-----------------------------------------------------------------------------
(* A data phase in which the target sends m bytes, from a place on.  On a  *)
(* wide bus an odd byte comes with a byte of padding, which the chip takes *)
(* for data unless its list ends with the odd byte.                        *)

Wire(m) == m + (m % 2)

\* The segment an address lies in.
SegmentAt(a) ==
    CHOOSE s \in DOMAIN sg_list : Addr(s, 0) <= a /\ a < Addr(s, Length(s))

\* data_phase_done: where the chip stands after n bytes of the path, behind
\* the list, in the segment it began with or in a later one.
Stopped(p, n) ==
    IF n = Len(Path(p))
    THEN [cnt |-> p.cnt, last |-> TRUE, next |-> Len(sg_list) + 1,
          null |-> TRUE]
    ELSE IF n < p.cnt
    THEN [cnt |-> p.cnt - n, last |-> p.last, next |-> p.next, null |-> FALSE]
    ELSE LET a == Path(p)[n + 1]
             s == SegmentAt(a)
         IN  [cnt |-> Addr(s, Length(s)) - a, last |-> s = Len(sg_list),
              next |-> s + 1, null |-> FALSE]

\* Bytes the target has sent and where they have gone; 0 is padding.
Written(p, m, n) ==
    [i \in 1 .. n |-> <<Path(p)[i], IF i <= m THEN target.pos + i ELSE 0>>]

\* The chip takes n of the m bytes and the padding the target sends.
Take(p, m, n) ==
    /\ memory' = memory \o Written(p, m, n)
    /\ residual' = Stopped(p, n)
    /\ shaddr' = IF n = Len(Path(p)) THEN Path(p)[n] + 1 ELSE Path(p)[n + 1]

\* The target stops within the chip's list.
Within(p, m) ==
    /\ m <= Len(Path(p))
    /\ Take(p, m, IF Wire(m) <= Len(Path(p)) THEN Wire(m) ELSE m)
    /\ scb' = [scb EXCEPT !.full = FALSE]
    /\ UNCHANGED overrun

\* It goes on behind it: data_phase_loop throws the rest away, raises
\* DATA_OVERRUN and does not pass data_phase_done.
Beyond(p, m) ==
    /\ m > Len(Path(p))
    /\ IF p.null THEN UNCHANGED <<memory, residual, shaddr>>
       ELSE Take(p, m, Len(Path(p)))
    /\ overrun' = TRUE
    /\ UNCHANGED scb

\* One byte more than the buffer holds stands for any excess.
DataPhase ==
    /\ phase = "message" /\ phases < MaxPhases
    /\ ~target.pads /\ ~greedy
    /\ \E m \in 1 .. Total + 1 - target.pos :
         /\ Within(Place, m) \/ Beyond(Place, m)
         /\ greedy' = (target.pos + m > Total)
         /\ target' =
              [target EXCEPT !.pos  = IF greedy' THEN Total ELSE @ + m,
                             !.most = IF greedy' THEN Total ELSE target.pos + m,
                             !.pads = ~greedy' /\ m % 2 = 1,
                             !.padded = FALSE]
    /\ DPHASE' = TRUE
    /\ phases' = phases + 1
    /\ UNCHANGED <<sg_list, odd, phase, resid>>

-----------------------------------------------------------------------------
(* Messages from the target.                                               *)

\* A mutation: a residue at the start of a segment stays in that segment.
SteppedWithinSegment(s, cnt) == FALSE

\* The byte to take back is the last one of the segment before.
SteppedOut(s, cnt) == s # 1 /\ Length(s) < cnt

\* A mutation: the residue is taken back although the list ends odd.
ResidueCounts == TRUE

\* Nothing is to be done when the padding has not been stored.
ResidueStored == ~(residual.null /\ odd)

\* ahc_handle_ign_wide_residue computes the new data_addr and never uses it.
TakeBack ==
    LET s   == CurrentOf(residual.next)
        cnt == 1 + IF residual.null THEN 0 ELSE residual.cnt
    IN  residual' = IF SteppedOut(s, cnt)
                    THEN [cnt |-> 1, last |-> FALSE, next |-> s, null |-> FALSE]
                    ELSE [residual EXCEPT !.cnt = cnt, !.null = FALSE]

IgnoreWideResidue ==
    /\ phase = "message" /\ target.pads
    /\ IF ResidueStored
       THEN /\ TakeBack
            /\ odd' = ~odd
            /\ target' = [target EXCEPT !.pads = FALSE, !.padded = TRUE,
                                        !.crossed = TRUE]
       ELSE /\ target' = [target EXCEPT !.pads = FALSE]
            /\ UNCHANGED <<residual, odd>>
    /\ UNCHANGED <<sg_list, scb, DPHASE, shaddr, phase, overrun, greedy, memory, phases, resid>>

\* Until the next data phase SHADDR is one behind the place of the target.
MaySave    == ~target.padded \/ "save" \in AfterResidue

\* SCB_XFERLEN_ODD has been turned over for the place of the target, and
\* what it saved before the residue is one of the other parity.
MayRestore == ~target.crossed \/ "restore" \in AfterResidue

\* mesgin_sdptrs.
SavedPointers ==
    IF residual.null
    THEN [scb EXCEPT !.null = TRUE]
    ELSE [ptr |-> shaddr, cnt |-> residual.cnt, last |-> residual.last,
          next |-> residual.next, null |-> FALSE, full |-> FALSE]

SaveDataPointers ==
    /\ phase = "message" /\ ~target.pads /\ MaySave
    /\ target' = [target EXCEPT !.saved = target.pos, !.crossed = FALSE]
    /\ scb' = IF DPHASE THEN SavedPointers ELSE scb
    /\ UNCHANGED <<sg_list, residual, odd, DPHASE, shaddr, phase, overrun, greedy, memory,
                   phases, resid>>

\* mesgin_rdptrs.
RestorePointers ==
    /\ phase = "message" /\ ~target.pads /\ MayRestore
    /\ target' = [target EXCEPT !.pos = target.saved]
    /\ DPHASE' = FALSE
    /\ UNCHANGED <<sg_list, scb, residual, odd, shaddr, phase, overrun, greedy, memory, phases,
                   resid>>

\* mesgin_disconnect; the card keeps the SCB.
Disconnect ==
    /\ phase = "message" /\ ~target.pads /\ MayRestore
    /\ phase' = "free"
    /\ UNCHANGED <<sg_list, scb, residual, odd, DPHASE, shaddr, overrun, greedy, memory, target,
                   phases, resid>>

\* A reselection begins with cleared SEQ_FLAGS and the saved pointers.
Reconnect ==
    /\ phase = "free"
    /\ phase' = "message"
    /\ target' = [target EXCEPT !.pos = target.saved]
    /\ DPHASE' = FALSE
    /\ UNCHANGED <<sg_list, scb, residual, odd, shaddr, overrun, greedy, memory, phases, resid>>

-----------------------------------------------------------------------------
(* The end of the command.                                                 *)

\* mesgin_complete: whether the SCB comes back with SG_RESID_VALID.
ResidValid == ~scb.null /\ (scb.full \/ ~residual.null)

\* A mutation: the segments behind the residual one are forgotten.
SegmentOnly(n) == 0

\* What the segments from n on hold.
SegmentsFrom(n) == Total - Before(n)

\* ahc_calc_residual.
CalcResidual == IF scb.full THEN Total
                ELSE residual.cnt + SegmentsFrom(residual.next)

Complete ==
    /\ phase = "message" /\ ~target.pads
    /\ phase' = "done"
    /\ resid' = IF ResidValid THEN CalcResidual ELSE 0
    /\ UNCHANGED <<sg_list, scb, residual, odd, DPHASE, shaddr, overrun, greedy, memory, target,
                   phases>>

Next == \/ DataPhase \/ IgnoreWideResidue
        \/ SaveDataPointers \/ RestorePointers
        \/ Disconnect \/ Reconnect
        \/ Complete

Spec == Init /\ [][Next]_vars

-----------------------------------------------------------------------------
(* Properties.                                                             *)

\* What the memory holds in the end: the last byte written to each address.
Content(a) ==
    LET writes == {i \in DOMAIN memory : memory[i][1] = a}
    IN  memory[CHOOSE i \in writes : \A j \in writes : j <= i][2]

\* However the target stops, pads, saves, restores and disconnects, each byte
\* it has sent and not taken back lies at its place when the command ends,
\* and nothing has ever been written outside the buffer.  It holds of a
\* target that does nothing of AfterResidue: ahc_handle_ign_wide_residue
\* leaves SHADDR where it was and turns SCB_XFERLEN_ODD over for good, and
\* with either of the two the bytes go astray.
BytesInPlace ==
    /\ \A i \in DOMAIN memory : memory[i][1] \in {Home(n) : n \in 1 .. Total}
    /\ phase = "done" => \A n \in 1 .. target.pos : Content(Home(n)) = n

\* Unless there was an overrun, the port layer learns exactly how many bytes
\* of the buffer the last data phase left unfilled, and there is an overrun
\* only when the target has sent too much.
ResidualIsRight ==
    /\ overrun => greedy
    /\ phase = "done" /\ ~overrun => resid = Total - target.most
=============================================================================
