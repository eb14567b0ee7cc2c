------------------------------ MODULE MCQinfifo ------------------------------
(***************************************************************************)
(* Instances of AhcQinfifo for TLC.                                        *)
(***************************************************************************)
EXTENDS AhcQinfifo, TLC

\* A device goes by the name of a request for it.  Each request on channel B has
\* a device of its own, the others share one.
TwoDevices ==
    LET shared == CHOOSE r \in Reqs \ ChannelB : TRUE
    IN [r \in Reqs |-> IF r \in ChannelB THEN r ELSE shared]

\* What the future depends on: not the entries of qinfifo outside the queue,
\* nor hardware SCBs nobody reads again, nor what a fetch left behind.
LiveCommand(t) == scbindex[t] # None \/ (seq = "dma" /\ t = ARG_1)
LiveLink(t)    == t \in QueueTags \/ (seq \in {"dma", "dma_next"} /\ t = ARG_1)
LiveState ==
    <<scbvars, cardvars, Queue, qinfifonext, HNSCB_QOFF, SNSCB_QOFF, NEXT_QUEUED_SCB,
      {<<t, mem[t].cmd>> : t \in {u \in Tags : LiveCommand(u)}},
      {<<t, mem[t].next>> : t \in {u \in Tags : LiveLink(u)}},
      CASE seq = "poll"     -> <<seq, SELBUSB, resets>>
        [] seq = "dma"      -> <<seq, ARG_1, SELBUSB, resets>>
        [] seq = "dma_next" -> <<seq, ARG_1, SELBUSB, resets, slot.cmd>>
        [] seq = "check"    -> <<seq, ARG_1, SELBUSB, resets, slot>> >>

ScbSymmetry == Permutations(Tags) \cup Permutations(Scbs \ {next_queued_scb})
=============================================================================
