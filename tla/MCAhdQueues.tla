------------------------------ MODULE MCAhdQueues ------------------------------
(***************************************************************************)
(* Instances of AhdQueues for TLC: two targets, so that lists are joined   *)
(* and split, with two units each, so that a search takes part of a list.  *)
(***************************************************************************)
EXTENDS AhdQueues, TLC

Symmetries == Permutations(Scbs) \cup Permutations(Targets) \cup Permutations(Luns)

\* What the future depends on: not the links of an SCB on no list; not how the
\* commands of one target were queued between those of another; of an SCB that
\* nothing points to and that is sent, not whether it has a message, and once
\* its good status is known, not its device either.
Linked == OnLists(q) \cup {q.tails[t] : t \in Targets} \cup {q.tail, CURRSCB, conn}
LiveScbs(linked) ==
    [s \in Scbs |->
        IF s \in linked \/ scb[s].at \in {"free", "queued", "waiting"} THEN scb[s]
        ELSE IF Is(s, "active") \/ scb[s].bad
             THEN <<scb[s].at, scb[s].dev, scb[s].bad>>
             ELSE <<scb[s].at>>]
Lists(heads) == [i \in DOMAIN heads |-> ListOf(heads[i])]
LiveState ==
    <<LiveScbs(Linked), qinfifo, fetching, Lists(TidLists),
      q.tail, q.tails, q.mk, sel, CURRSCB, conn, QFROZEN, ahead,
      [t \in Targets |-> SelectSeq(order, LAMBDA s : Target(s) = t)], strayed>>
=============================================================================
