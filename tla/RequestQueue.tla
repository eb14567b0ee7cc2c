---------------------------- MODULE RequestQueue ----------------------------
(***************************************************************************)
(* What the submission path of the HBA promises: commands reach the card   *)
(* in the order they were queued, each exactly once unless the driver      *)
(* takes it back first.  There are no hardware SCBs, links or positions    *)
(* here; AhcQinfifo is shown to implement this module.                     *)
(***************************************************************************)
EXTENDS Sequences, Subsequences

CONSTANTS Reqs,     \* the requests of the port driver
          Device    \* the device each is for

VARIABLES queue,    \* commands queued, oldest first
          card      \* commands the card has

vars == <<queue, card>>

\* A request runs as itself and, after a check condition, as the REQUEST SENSE
\* that fetches its sense data.
Commands == [req : Reqs, sense : BOOLEAN]

Queued == {queue[i] : i \in DOMAIN queue}

Init == queue = <<>> /\ card = {}

Without(devices) ==
    Kept(queue, {i \in DOMAIN queue : Device[queue[i].req] \notin devices})

Submit(r) ==
    /\ \A c \in Queued \cup card : c.req # r
    /\ queue' = Append(queue, [req |-> r, sense |-> FALSE])
    /\ UNCHANGED card

Start ==
    /\ queue # <<>>
    /\ card' = card \cup {Head(queue)}
    /\ queue' = Tail(queue)

\* The card is done with a command.
Finish(c) ==
    /\ c \in card
    /\ card' = card \ {c}
    /\ UNCHANGED queue

\* A check condition: the device's queued commands, and those the card has not
\* begun, go back; the request returns as a REQUEST SENSE.  (A REQUEST SENSE
\* that has overrun its buffer may be sensed once more.)
CheckCondition(c, unbegun) ==
    /\ c \in card \ unbegun
    /\ card' = card \ (unbegun \cup {c})
    /\ queue' = Append(Without({Device[c.req]}), [c EXCEPT !.sense = TRUE])

\* A command the device did not accept is queued again.
Retry(c) ==
    /\ c \in card
    /\ card' = card \ {c}
    /\ queue' = Append(queue, c)

\* An error or a reset: the devices' queued commands go back, with some or
\* all of those the card has.
TakeBack(devices, lost) ==
    /\ card' = card \ lost
    /\ queue' = Without(devices)

Next ==
    \/ \E r \in Reqs : Submit(r)
    \/ Start
    \/ \E c \in card : Finish(c) \/ Retry(c)
    \/ \E lost \in SUBSET card :
        \/ \E c \in card : CheckCondition(c, lost)
        \/ \E devices \in SUBSET {Device[r] : r \in Reqs} :
              /\ \A c \in lost : Device[c.req] \in devices
              /\ TakeBack(devices, lost)

Spec == Init /\ [][Next]_vars
=============================================================================
