------------------------------- MODULE MCQueues -------------------------------
(***************************************************************************)
(* Instances of both queues of the aic7xxx for TLC, with fairness.  A      *)
(* behaviour is one of the output queue (AhcQoutfifo) or one of the input  *)
(* queue (AhcQinfifo, whose requests each have a device of their own); the *)
(* other queue stands still, with nothing in it.                           *)
(***************************************************************************)
EXTENDS MCQoutfifo

CONSTANTS Reqs, Scbs, HardwareScbs, next_queued_scb, QinfifoSize, None

VARIABLES queue, free_scbs, hscb, index, command, mem, qinfifo, qinfifonext,
          HNSCB_QOFF, SNSCB_QOFF, NEXT_QUEUED_SCB, fetching, fetched, slot,
          waiting, card, posted, SELBUSB, resets

Qin == INSTANCE MCQinfifo
           WITH Device <- [r \in Reqs |-> r], Tags <- HardwareScbs,
                RingSize <- QinfifoSize, ChannelB <- {},
                Rejecting <- Reqs, ResetsPerFetch <- 0,
                scbindex <- index, seq <- fetching, ARG_1 <- fetched

qinVars == <<free_scbs, hscb, index, command, mem, qinfifo, qinfifonext,
             HNSCB_QOFF, SNSCB_QOFF, NEXT_QUEUED_SCB, fetching, fetched, slot,
             waiting, card, posted, SELBUSB, resets>>

\* What the future depends on.
LiveState == <<queue, vars, Qin!LiveState>>

QueuesInit == queue \in {"qoutfifo", "qinfifo"} /\ Init /\ Qin!Init

QueuesNext ==
    /\ UNCHANGED queue
    /\ \/ queue = "qoutfifo" /\ Next /\ UNCHANGED qinVars
       \/ queue = "qinfifo" /\ Qin!Next /\ UNCHANGED vars

QueuesSpec ==
    /\ QueuesInit
    /\ [][QueuesNext]_<<queue, vars, qinVars>>
    /\ Fairness /\ Qin!Fairness

\* What is in the input queue is fetched or taken back (AhcQinfifo).
QueueMoves == Qin!QueueMoves
=============================================================================
