---------------------------- MODULE AhcQoutfifo ----------------------------
(***************************************************************************)
(* The output queue of the aic7xxx: the ring qoutfifo in host memory that  *)
(* the sequencer fills by byte DMA and the interrupt handler drains.       *)
(*                                                                         *)
(* The sequencer runs concurrently with the host.  It takes a position     *)
(* from SDSCB_QOFF (the register counts up when it is read), DMAs the tag  *)
(* of the finished SCB there and raises CMDCMPLT.  The host infers an      *)
(* interrupt from the ring itself, clears CMDCMPLT with a posted write,    *)
(* flushes it, and walks the ring until it finds an empty entry, wiping    *)
(* the ring in groups of four entries (one 32 bit store).                  *)
(***************************************************************************)
EXTENDS Naturals, FiniteSets

CONSTANTS Tags,         \* tags a command may have: scbindex has one entry each
          RingSize,     \* entries of qoutfifo: 256 in the code
          SCB_LIST_NULL,\* the byte of an empty entry
          RaceReset     \* may a bus reset catch the sequencer between taking
                        \* a position and filling it?

GroupSize == 4          \* entries one 32 bit store wipes

ASSUME QoutfifoAssumption ==
    /\ IsFiniteSet(Tags)
    /\ SCB_LIST_NULL \notin Tags
    /\ RingSize \in Nat \ {0}
    /\ RingSize % GroupSize = 0
    /\ RaceReset \in BOOLEAN

\* aic7xxx.h derives AHC_MAX_QUEUE from this: the entry just completed and
\* the three before it may be waiting for the store that wipes their group.
ASSUME QueueDepthAssumption == Cardinality(Tags) + GroupSize - 1 <= RingSize

Positions == 0 .. RingSize - 1

VARIABLES
    qoutfifo,      \* the ring, in host memory
    qoutfifonext,  \* the host's position
    SDSCB_QOFF,    \* the sequencer's position
    INTSTAT,       \* CMDCMPLT is asserted
    clrint,        \* a posted write of CLRCMDINT has not reached the chip
    isr,           \* where ahc_intr is
    seq,           \* where the sequencer is in complete_post
    A, ARG_1,      \* its position and tag while it posts
    running,       \* tags the card has and has not posted
    scbindex       \* tags that have an SCB: what ahc_lookup_scb finds

hostvars == <<qoutfifonext, isr, scbindex>>
seqvars  == <<SDSCB_QOFF, seq, A, ARG_1, running>>
vars     == <<qoutfifo, INTSTAT, clrint, hostvars, seqvars>>

TypeOK ==
    /\ qoutfifo \in [Positions -> Tags \cup {SCB_LIST_NULL}]
    /\ qoutfifonext \in Positions
    /\ SDSCB_QOFF \in Positions
    /\ INTSTAT \in BOOLEAN
    /\ clrint \in BOOLEAN
    /\ isr \in {"idle", "flush", "scan"}
    /\ seq \in {"run", "post", "raise"}
    /\ A \in Positions
    /\ ARG_1 \in Tags \cup {SCB_LIST_NULL}
    /\ running \subseteq Tags
    /\ scbindex \subseteq Tags

Init ==
    /\ qoutfifo = [p \in Positions |-> SCB_LIST_NULL]
    /\ qoutfifonext = 0
    /\ SDSCB_QOFF = 0
    /\ INTSTAT = FALSE
    /\ clrint = FALSE
    /\ isr = "idle"
    /\ seq = "run"
    /\ A = 0
    /\ ARG_1 = SCB_LIST_NULL
    /\ running = {}
    /\ scbindex = {}
-----------------------------------------------------------------------------
\* Ring positions are 8 bit counters in the code.
Succ(p)    == IF p = RingSize - 1 THEN 0 ELSE p + 1
Plus(p, n) == IF p + n < RingSize THEN p + n ELSE p + n - RingSize

\* How far q is ahead of p.
Ahead(p, q) == IF q >= p THEN q - p ELSE q + RingSize - p

\* Bugs a wipe could have: it starts at the entry the host takes next, or it
\* leaves the first entry of the group.
WipeNextGroup(ring, p) ==
    IF p % GroupSize = GroupSize - 1
    THEN [i \in Positions |-> IF i \in {Plus(p, n) : n \in 1 .. GroupSize}
                              THEN SCB_LIST_NULL ELSE ring[i]]
    ELSE ring
WipeButFirst(ring, p) ==
    IF p % GroupSize = GroupSize - 1
    THEN [i \in Positions |-> IF i \in (p - (GroupSize - 2)) .. p
                              THEN SCB_LIST_NULL ELSE ring[i]]
    ELSE ring

\* Taking the entry at p empties its group when p is the group's last entry.
Wipe(ring, p) ==
    IF p % GroupSize = GroupSize - 1
    THEN [i \in Positions |-> IF i \in (p - (GroupSize - 1)) .. p
                              THEN SCB_LIST_NULL ELSE ring[i]]
    ELSE ring
-----------------------------------------------------------------------------
(* The sequencer. *)

\* complete_post: the slot is off the card, the position is taken.
TakePosition(t) ==
    /\ seq = "run"
    /\ t \in running
    /\ A' = SDSCB_QOFF
    /\ ARG_1' = t
    /\ SDSCB_QOFF' = Succ(SDSCB_QOFF)
    /\ seq' = "post"
    /\ UNCHANGED <<qoutfifo, INTSTAT, clrint, hostvars, running>>

\* post_byte returns when the DMA of the tag is done.
PostByte ==
    /\ seq = "post"
    /\ qoutfifo' = [qoutfifo EXCEPT ![A] = ARG_1]
    /\ running' = running \ {ARG_1}
    /\ seq' = "raise"
    /\ UNCHANGED <<INTSTAT, clrint, hostvars, SDSCB_QOFF, A, ARG_1>>

RaiseCmdCmplt ==
    /\ seq = "raise"
    /\ INTSTAT' = TRUE
    /\ seq' = "run"
    /\ UNCHANGED <<qoutfifo, clrint, hostvars, SDSCB_QOFF, A, ARG_1, running>>
-----------------------------------------------------------------------------
(* The host.  StorPort serialises HwStartIo with HwInterrupt. *)

\* ahc_queue_scb has given the card a new command.
Issue(t) ==
    /\ isr = "idle"
    /\ t \in Tags \ scbindex
    /\ scbindex' = scbindex \cup {t}
    /\ running' = running \cup {t}
    /\ UNCHANGED <<qoutfifo, INTSTAT, clrint, qoutfifonext, isr,
                   SDSCB_QOFF, seq, A, ARG_1>>

\* ahc_intr, also entered for a shared interrupt: CMDCMPLT is inferred from
\* the ring before the register is read.  The write that clears it is posted.
Interrupt ==
    /\ isr = "idle"
    /\ qoutfifo[qoutfifonext] # SCB_LIST_NULL \/ INTSTAT
    /\ clrint' = TRUE
    /\ isr' = "flush"
    /\ UNCHANGED <<qoutfifo, INTSTAT, qoutfifonext, scbindex, seqvars>>

\* The bus delivers the posted write.
DeliverClrint ==
    /\ clrint
    /\ INTSTAT' = FALSE
    /\ clrint' = FALSE
    /\ UNCHANGED <<qoutfifo, hostvars, seqvars>>

\* The bug the comment in ahc_intr warns of: the walk of the ring begins while
\* the write that clears the interrupt is still under way.
FlushWithoutWaiting ==
    /\ isr = "flush"
    /\ isr' = "scan"
    /\ UNCHANGED <<qoutfifo, INTSTAT, clrint, qoutfifonext, scbindex, seqvars>>

\* A read returns only when the writes before it have been delivered.
FlushDeviceWrites ==
    /\ isr = "flush"
    /\ ~clrint
    /\ isr' = "scan"
    /\ UNCHANGED <<qoutfifo, INTSTAT, clrint, qoutfifonext, scbindex, seqvars>>

\* One turn of the loop of ahc_run_qoutfifo, ahc_done included: an entry whose
\* tag has no SCB is dropped with a warning.
RunQoutfifo ==
    /\ isr = "scan"
    /\ qoutfifo[qoutfifonext] # SCB_LIST_NULL
    /\ qoutfifo' = Wipe(qoutfifo, qoutfifonext)
    /\ qoutfifonext' = Succ(qoutfifonext)
    /\ scbindex' = scbindex \ {qoutfifo[qoutfifonext]}
    /\ UNCHANGED <<INTSTAT, clrint, isr, seqvars>>

QoutfifoEmpty ==
    /\ isr = "scan"
    /\ qoutfifo[qoutfifonext] = SCB_LIST_NULL
    /\ isr' = "idle"
    /\ UNCHANGED <<qoutfifo, INTSTAT, clrint, qoutfifonext, scbindex, seqvars>>

\* ahc_reset_channel: with the sequencer paused the ring is drained, every
\* command left is completed by ahc_abort_scbs, and ahc_restart starts the
\* sequencer from the top.  Nothing resets SDSCB_QOFF.
ResetChannel ==
    /\ isr = "idle"
    /\ seq = "post" => RaceReset
    /\ LET \* the loop stops at the latest where its own first wipe began
           full  == {n \in 0 .. RingSize - 1 - (qoutfifonext % GroupSize) :
                       \A i \in 0 .. n :
                          qoutfifo[Plus(qoutfifonext, i)] # SCB_LIST_NULL}
           taken == {Plus(qoutfifonext, i) : i \in full}
       IN /\ qoutfifonext' = Plus(qoutfifonext, Cardinality(full))
          /\ qoutfifo' = [i \in Positions |->
                 IF i + (GroupSize - 1) - (i % GroupSize) \in taken
                 THEN SCB_LIST_NULL ELSE qoutfifo[i]]
    /\ running' = {}
    /\ scbindex' = {}
    /\ seq' = "run"
    /\ UNCHANGED <<INTSTAT, clrint, isr, SDSCB_QOFF, A, ARG_1>>
-----------------------------------------------------------------------------
Sequencer == (\E t \in Tags : TakePosition(t)) \/ PostByte \/ RaiseCmdCmplt
Host == \/ \E t \in Tags : Issue(t)
        \/ Interrupt \/ FlushDeviceWrites \/ RunQoutfifo \/ QoutfifoEmpty
        \/ ResetChannel

Next == Sequencer \/ Host \/ DeliverClrint

\* The chip finishes a post it has begun, the bus delivers what is posted, the
\* CPU takes an asserted interrupt and runs the handler to its end.  A target
\* need not ever finish a command: TakePosition is not fair.
Fairness ==
    /\ WF_vars(PostByte) /\ WF_vars(RaiseCmdCmplt)
    /\ WF_vars(DeliverClrint)
    /\ WF_vars(INTSTAT /\ Interrupt)
    /\ WF_vars(FlushDeviceWrites) /\ WF_vars(RunQoutfifo) /\ WF_vars(QoutfifoEmpty)

Spec     == Init /\ [][Next]_vars
FairSpec == Spec /\ Fairness
-----------------------------------------------------------------------------
(* Properties. *)

\* What the firmware has posted and the host has not completed.
Posted == scbindex \ running

\* complete_post never lands on an entry that still holds an old completion,
\* taken or not: the host's group-wise wiping is always ahead of it.
PostLandsOnEmptyEntry ==
    seq = "post" => qoutfifo[A] = SCB_LIST_NULL

\* The handler never meets the tag of a command that was already completed,
\* or that the card still owns: the warning of ahc_run_qoutfifo is dead code.
EveryEntryHasItsScb ==
    qoutfifo[qoutfifonext] # SCB_LIST_NULL
        => qoutfifo[qoutfifonext] \in Posted

\* The check at the head of ahc_intr ("See if the firmware has posted any
\* completed commands", ahc_check_cmdcmpltqueues) finds one whenever there is.
CheckSeesPosted ==
    Posted # {} => qoutfifo[qoutfifonext] # SCB_LIST_NULL

\* No lost interrupt: with the handler out and the sequencer past raising
\* CMDCMPLT, a posted completion means the interrupt is asserted.
NoLostInterrupt ==
    isr = "idle" /\ seq # "raise" /\ Posted # {} => INTSTAT

\* Where the sequencer's posts end, and how many of them the host has not taken.
PostEnd == IF seq = "post" THEN A ELSE SDSCB_QOFF
Pending == Ahead(qoutfifonext, PostEnd)

\* The ring and its handler implement the completion channel: the oldest
\* completion is delivered first, each exactly once, and all eventually.
Channel == INSTANCE CompletionChannel WITH
    running  <- running,
    finished <- [i \in 1 .. Pending |-> qoutfifo[Plus(qoutfifonext, i - 1)]]
ImplementsChannel == Channel!Spec
=============================================================================
