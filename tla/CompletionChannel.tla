------------------------- MODULE CompletionChannel -------------------------
(***************************************************************************)
(* What the completion path of the HBA promises to the port driver: every  *)
(* command the card has finished is handed back exactly once, in the order *)
(* the card finished them.  There is no ring, no register and no interrupt *)
(* here; AhcQoutfifo is shown to implement this module.                    *)
(***************************************************************************)
EXTENDS Sequences

CONSTANT Tags

VARIABLES running,    \* the tags the card is working on
          finished    \* finished tags on their way to the driver, oldest first

vars == <<running, finished>>

Init == running = {} /\ finished = <<>>

InFlight == running \cup {finished[i] : i \in DOMAIN finished}

Submit(t) ==
    /\ t \in Tags \ InFlight
    /\ running' = running \cup {t}
    /\ UNCHANGED finished

Finish(t) ==
    /\ t \in running
    /\ running' = running \ {t}
    /\ finished' = Append(finished, t)

Deliver ==
    /\ finished # <<>>
    /\ finished' = Tail(finished)
    /\ UNCHANGED running

\* A bus reset gives everything back at once: what had finished is
\* delivered, what was running is cancelled.
Reset == running' = {} /\ finished' = <<>>

Next == \/ \E t \in Tags : Submit(t) \/ Finish(t)
        \/ Deliver
        \/ Reset

\* What has finished is eventually delivered.
Spec == Init /\ [][Next]_vars /\ WF_vars(Deliver)
=============================================================================
