------------------------------ MODULE AhdQueues ------------------------------
(***************************************************************************)
(* The execution queues of the aic79xx.  The sequencer fetches SCBs from   *)
(* the input queue into one list per target (SCB_NEXT, with its end in     *)
(* WAITING_SCB_TAILS); the heads of those lists form the list of targets   *)
(* waiting for selection (SCB_NEXT2, WAITING_TID_HEAD and _TAIL).  An SCB  *)
(* that is to send a message may have to wait until its target's list is   *)
(* empty (PENDING_MK_MESSAGE).  One selection sends as much of a list as   *)
(* the target takes.                                                       *)
(*                                                                         *)
(* A bad status freezes selection (QFREEZE_COUNT) until the driver has     *)
(* handled it and caught up (KERNEL_QFREEZE_COUNT): the handler takes the  *)
(* commands of the device off the lists while the sequencer runs.          *)
(*                                                                         *)
(* The order inside the completion lists is left out, and a transfer of    *)
(* an SCB to the host is one step: the driver waits for it.                *)
(***************************************************************************)
EXTENDS Naturals, FiniteSets, Sequences, SequencesExt

CONSTANTS Scbs, Targets, Luns, SCB_LIST_NULL,
          MaxLost      \* bound: freezes nobody will handle

\* The tags of the SCBs (AHD_SCB_MAX).
ASSUME ScbsAssumption == IsFiniteSet(Scbs) /\ SCB_LIST_NULL \notin Scbs

VARIABLES
    scb,       \* of each SCB: where it is, its device, MK_MESSAGE, bad status
    qinfifo,   \* the input queue
    fetching,  \* an SCB is being fetched
    q,         \* the lists on the card
    sel,       \* the selection hardware: ENSELO, SELINGO, SELDO
    CURRSCB,   \* the SCB selection has come to
    conn,      \* the connection the sequencer serves outside the idle loop
    QFROZEN,   \* the bit of SEQ_FLAGS2
    ahead,     \* QFREEZE_COUNT - KERNEL_QFREEZE_COUNT
    \* History:
    order,     \* the SCBs not yet sent, as they were queued
    strayed    \* the targets with a MK_MESSAGE SCB that a search has put in the
               \* place of another target's list, until they have no list left

card == <<fetching, q, sel, CURRSCB, conn, QFROZEN, ahead>>
history == <<order, strayed>>
vars == <<scb, qinfifo, card, history>>

Devices  == Targets \X Luns
Free     == [at |-> "free", dev |-> SCB_LIST_NULL, mk |-> FALSE, bad |-> FALSE]
Pointers == Scbs \cup {SCB_LIST_NULL}
Target(s) == scb[s].dev[1]
Is(s, p)  == scb[s].at = p

TypeOK ==
    /\ scb \in [Scbs -> {Free} \cup
                 [at: {"queued", "waiting", "active", "status", "dma",
                       "onqfreeze", "complete", "ring"},
                  dev: Devices, mk: BOOLEAN, bad: BOOLEAN]]
    /\ qinfifo \in Seq(Scbs)
    /\ fetching \in BOOLEAN
    /\ q \in [next: [Scbs -> Pointers], next2: [Scbs -> Pointers],
              head: Pointers, tail: Pointers, tails: [Targets -> Pointers],
              mk: Pointers]
    /\ sel \in {"idle", "enselo", "selingo", "seldo"}
    /\ CURRSCB \in Pointers /\ conn \in Pointers
    /\ QFROZEN \in BOOLEAN /\ ahead \in Nat
    /\ order \in Seq(Scbs)
    /\ strayed \in SUBSET Targets

\* ahd_chip_init
Init ==
    /\ scb = [s \in Scbs |-> Free]
    /\ qinfifo = <<>> /\ fetching = FALSE /\ order = <<>> /\ strayed = {}
    /\ q = [next |-> [s \in Scbs |-> SCB_LIST_NULL],
            next2 |-> [s \in Scbs |-> SCB_LIST_NULL],
            head |-> SCB_LIST_NULL, tail |-> SCB_LIST_NULL,
            tails |-> [t \in Targets |-> SCB_LIST_NULL],
            mk |-> SCB_LIST_NULL]
    /\ sel = "idle" /\ CURRSCB = SCB_LIST_NULL /\ conn = SCB_LIST_NULL
    /\ QFROZEN = FALSE /\ ahead = 0
-----------------------------------------------------------------------------
(* The lists. *)

\* The SCBs from one on; a cycle has more than there are.
Chain(link, from) ==
    LET step[n \in 0 .. Cardinality(Scbs)] ==
            IF n = 0 THEN from
            ELSE IF step[n - 1] = SCB_LIST_NULL THEN SCB_LIST_NULL
            ELSE link[step[n - 1]]
    IN SelectSeq([n \in 1 .. Cardinality(Scbs) + 1 |-> step[n - 1]],
                 LAMBDA s : s # SCB_LIST_NULL)

HeadOf(list) == IF list = <<>> THEN SCB_LIST_NULL ELSE Head(list)
TailOf(list) == IF list = <<>> THEN SCB_LIST_NULL ELSE Last(list)
Members(list) == {list[i] : i \in DOMAIN list}

\* The SCBs on the lists, or waiting to be, and their targets.
OnLists(c) ==
    UNION {Members(Chain(c.next, h)) : h \in Members(Chain(c.next2, c.head))}
        \cup ({c.mk} \ {SCB_LIST_NULL})
TargetsOn(c) == {Target(s) : s \in OnLists(c)}

\* Append a list to the list of targets.
AppendTid(c, s) ==
    IF c.head = SCB_LIST_NULL THEN [c EXCEPT !.head = s, !.tail = s]
    ELSE [c EXCEPT !.next2[c.tail] = s, !.tail = s]
-----------------------------------------------------------------------------
(* The sequencer: the input queue and selection. *)

\* It serves a connection outside packets until the bus is free.
InIdleLoop == conn = SCB_LIST_NULL

\* scbdma_idle: nothing new is fetched while selection is frozen, or for want
\* of a place for a MK_MESSAGE SCB.  Without one or the other condition:
FetchWhilePending == ~fetching /\ qinfifo # <<>> /\ ~QFROZEN
FetchWhileFrozen  == ~fetching /\ qinfifo # <<>> /\ q.mk = SCB_LIST_NULL

MayFetch == ~fetching /\ qinfifo # <<>> /\ ~QFROZEN /\ q.mk = SCB_LIST_NULL

Fetch ==
    /\ InIdleLoop /\ MayFetch
    /\ fetching' = TRUE
    /\ UNCHANGED <<scb, qinfifo, q, sel, CURRSCB, conn, QFROZEN, ahead, history>>

\* fetch_new_scb_done.  The test of the tail is the code's: a MK_MESSAGE SCB
\* goes behind one that has no message to send, and waits for one that has.
Entered(c, s, t, old) ==
    IF old = SCB_LIST_NULL THEN AppendTid(c, s)
    ELSE IF scb[s].mk /\ scb[old].mk THEN [c EXCEPT !.mk = s]
    ELSE [c EXCEPT !.next[old] = s]

FetchDone ==
    /\ InIdleLoop /\ fetching
    /\ LET s == Head(qinfifo)
       IN /\ scb' = [scb EXCEPT ![s].at = "waiting"]
          /\ q' = Entered([q EXCEPT !.next[s] = SCB_LIST_NULL,
                                    !.next2[s] = SCB_LIST_NULL,
                                    !.tails[Target(s)] = s],
                          s, Target(s), q.tails[Target(s)])
    /\ qinfifo' = Tail(qinfifo)
    /\ fetching' = FALSE
    /\ UNCHANGED <<sel, CURRSCB, conn, QFROZEN, ahead, history>>

\* start_selection
StartSelection ==
    /\ InIdleLoop /\ sel = "idle" /\ ~QFROZEN /\ q.head # SCB_LIST_NULL
    /\ sel' = "enselo"
    /\ CURRSCB' = q.head
    /\ UNCHANGED <<scb, qinfifo, fetching, q, conn, QFROZEN, ahead, history>>

\* The chip arbitrates, selects, and sends one SCB or several.
Arbitrate ==
    /\ InIdleLoop /\ sel = "enselo"
    /\ sel' = "selingo"
    /\ UNCHANGED <<scb, qinfifo, fetching, q, CURRSCB, conn, QFROZEN, ahead, history>>

Selected ==
    /\ sel = "selingo"
    /\ sel' = "seldo"
    /\ \E s \in IF scb[q.head].mk THEN {q.head} ELSE Members(Chain(q.next, q.head)) :
          CURRSCB' = s
    /\ UNCHANGED <<scb, qinfifo, fetching, q, conn, QFROZEN, ahead, history>>

\* select_out: what was not sent, or the MK_MESSAGE SCB that waited, goes to
\* the end of the list of targets.
Remainder(c, last) ==
    IF c.next[last] # SCB_LIST_NULL THEN AppendTid(c, c.next[last])
    ELSE IF c.mk # SCB_LIST_NULL /\ Target(c.mk) = Target(last)
         THEN AppendTid([c EXCEPT !.mk = SCB_LIST_NULL], c.mk)
    ELSE [c EXCEPT !.tails[Target(last)] = SCB_LIST_NULL]

AdvanceTid(c) ==
    [c EXCEPT !.head = c.next2[c.head],
              !.tail = IF c.next2[c.head] = SCB_LIST_NULL THEN SCB_LIST_NULL ELSE @]

SentBy(list) == {list[i] : i \in 1 .. SelectInSeq(list, LAMBDA s : s = CURRSCB)}

\* A connection with a message is outside packets, another may be.
SelectOut ==
    /\ sel = "seldo" /\ InIdleLoop
    /\ sel' = "idle" /\ CURRSCB' = SCB_LIST_NULL
    /\ q' = AdvanceTid(Remainder(q, CURRSCB))
    /\ LET sent == SentBy(Chain(q.next, q.head))
       IN /\ scb' = [s \in Scbs |->
                        IF s \in sent THEN [scb[s] EXCEPT !.at = "active"] ELSE scb[s]]
          /\ order' = SelectSeq(order, LAMBDA s : s \notin sent)
    /\ strayed' = strayed \cap TargetsOn(q')
    /\ \/ conn' = CURRSCB /\ CURRSCB = q.head
       \/ conn' = SCB_LIST_NULL /\ ~scb[CURRSCB].mk
    /\ UNCHANGED <<qinfifo, fetching, QFROZEN, ahead>>
-----------------------------------------------------------------------------
(* The sequencer: completion. *)

\* A command that may end now: any while the sequencer serves no other.
MayEnd(s) == Is(s, "active") /\ conn \in {SCB_LIST_NULL, s}

Disconnect ==
    /\ conn # SCB_LIST_NULL /\ Is(conn, "active")
    /\ conn' = SCB_LIST_NULL
    /\ UNCHANGED <<scb, qinfifo, fetching, q, sel, CURRSCB, QFROZEN, ahead, history>>

\* The freezes that are still to be handled, and those nobody will handle.
Unhandled == {s \in Scbs : scb[s].bad}
Lost      == ahead - Cardinality(Unhandled)

\* freeze_queue: a selection under way goes on.
Cancel(x) == IF x \in {"selingo", "seldo"} THEN x ELSE "idle"

FreezeQueue ==
    /\ sel' = Cancel(sel)
    /\ CURRSCB' = IF sel' = "idle" THEN SCB_LIST_NULL ELSE CURRSCB
    /\ ahead' = ahead + 1
    /\ QFROZEN' = TRUE

\* A bad status: in a packet long before the command is queued for completion
\* (cfg4istat_intr), or just before (bad_status).
BadStatus(s) ==
    /\ MayEnd(s)
    /\ FreezeQueue
    /\ scb' = [scb EXCEPT ![s].at = "status", ![s].bad = TRUE]
    /\ UNCHANGED <<qinfifo, fetching, q, conn, history>>

\* pkt_handle_overrun: a freeze for a command that may well end with a good
\* status.
Overrun(s) ==
    /\ Is(s, "active") /\ InIdleLoop /\ Lost < MaxLost
    /\ FreezeQueue
    /\ UNCHANGED <<scb, qinfifo, fetching, q, conn, history>>

\* upload_scb
UploadScb(s) ==
    /\ Is(s, "status")
    /\ scb' = [scb EXCEPT ![s].at = "dma"]
    /\ conn' = SCB_LIST_NULL
    /\ UNCHANGED <<qinfifo, fetching, q, sel, CURRSCB, QFROZEN, ahead, history>>

\* A good status, and data left over or not.
GoodStatus(s) ==
    /\ MayEnd(s)
    /\ \E p \in {"dma", "complete"} : scb' = [scb EXCEPT ![s].at = p]
    /\ conn' = SCB_LIST_NULL
    /\ UNCHANGED <<qinfifo, fetching, q, sel, CURRSCB, QFROZEN, ahead, history>>

\* dma_complete_scb to scbdma_tohost_done.  A bug would be not to hold back a
\* command whose status was bad.
AnyCompletion(s) == "complete"

QueueCompletion(s) == IF scb[s].bad THEN "onqfreeze" ELSE "complete"

ScbToHost(s) ==
    /\ InIdleLoop /\ ~fetching /\ Is(s, "dma")
    /\ scb' = [scb EXCEPT ![s].at = QueueCompletion(s)]
    /\ UNCHANGED <<qinfifo, card, history>>

\* fill_qoutfifo
FillQoutfifo(s) ==
    /\ InIdleLoop /\ ~fetching /\ Is(s, "complete")
    /\ scb' = [scb EXCEPT ![s].at = "ring"]
    /\ UNCHANGED <<qinfifo, card, history>>

\* check_frozen_completions
FrozenCompletions ==
    /\ InIdleLoop /\ QFROZEN /\ ahead # 0 /\ sel = "idle"
    /\ \E s \in Scbs : Is(s, "onqfreeze")
    /\ scb' = [s \in Scbs |-> IF Is(s, "onqfreeze")
                              THEN [scb[s] EXCEPT !.at = "complete"] ELSE scb[s]]
    /\ UNCHANGED <<qinfifo, card, history>>

\* The kernel has caught up.
Thaw ==
    /\ InIdleLoop /\ QFROZEN /\ ahead = 0 /\ sel \in {"idle", "seldo"}
    /\ QFROZEN' = FALSE
    /\ UNCHANGED <<scb, qinfifo, fetching, q, sel, CURRSCB, conn, ahead, history>>
-----------------------------------------------------------------------------
(* The driver. *)

Submit(s, d, message) ==
    /\ Is(s, "free")
    /\ scb' = [scb EXCEPT ![s] = [at |-> "queued", dev |-> d, mk |-> message,
                                  bad |-> FALSE]]
    /\ qinfifo' = Append(qinfifo, s)
    /\ order' = Append(order, s)
    /\ UNCHANGED <<card, strayed>>

\* ahd_search_scb_list: a list without the SCBs of some devices.  The tail
\* goes back only if the last SCB is the tail, and it may be one that waits.
TailGoesBack(c, t, last, kept) ==
    [c EXCEPT !.tails[t] = IF last \notin Members(kept) THEN TailOf(kept) ELSE @]

TailIfLast(c, t, last, kept) ==
    [c EXCEPT !.tails[t] =
        IF last \notin Members(kept) /\ @ = last THEN TailOf(kept) ELSE @]

Relinked(c, kept) ==
    [c EXCEPT !.next = [s \in Scbs |->
        IF s \notin Members(kept) THEN c.next[s]
        ELSE HeadOf(SubSeq(kept, SelectInSeq(kept, LAMBDA u : u = s) + 1, Len(kept)))]]

SearchScbList(c, list, kept) ==
    TailIfLast(Relinked(c, kept), Target(list[1]), Last(list), kept)

\* ahd_stitch_tid_list
StitchPrev(c, prev, to) ==
    IF prev = SCB_LIST_NULL THEN [c EXCEPT !.head = to] ELSE [c EXCEPT !.next2[prev] = to]

StitchTidList(c, prev, cur, next) ==
    IF cur = SCB_LIST_NULL
    THEN [StitchPrev(c, prev, next) EXCEPT
            !.tail = IF next = SCB_LIST_NULL THEN prev ELSE @]
    ELSE [StitchPrev(c, prev, cur) EXCEPT
            !.next2[cur] = next,
            !.tail = IF next = SCB_LIST_NULL THEN cur ELSE @]

\* ahd_search_qinfifo, one list of a matching target: then the MK_MESSAGE SCB
\* that waits, if it matches; if it does not, it takes the place of a list that
\* is now empty.
WithoutMk(c, devices, kept) ==
    IF c.mk # SCB_LIST_NULL /\ scb[c.mk].dev \in devices
    THEN [c EXCEPT !.tails[Target(c.mk)] = TailOf(kept), !.mk = SCB_LIST_NULL]
    ELSE c

Restitched(w, c, h, kept) ==
    IF kept = <<>> /\ c.mk # SCB_LIST_NULL
    THEN [q |-> StitchTidList([c EXCEPT !.mk = SCB_LIST_NULL], w.prev, c.mk, c.next2[h]),
          prev |-> c.mk,
          strays |-> IF Target(c.mk) = Target(h) THEN w.strays
                     ELSE w.strays \cup {Target(c.mk)}]
    ELSE [q |-> IF HeadOf(kept) = h THEN c
                ELSE StitchTidList(c, w.prev, HeadOf(kept), c.next2[h]),
          prev |-> IF kept = <<>> THEN w.prev ELSE HeadOf(kept),
          strays |-> w.strays]

Kept(list, devices) == SelectSeq(list, LAMBDA s : scb[s].dev \notin devices)

SearchOne(w, h, devices, list) ==
    Restitched(w, WithoutMk(SearchScbList(w.q, list, Kept(list, devices)), devices,
                            Kept(list, devices)),
               h, Kept(list, devices))

SearchTid(w, h, devices) ==
    IF Target(h) \notin {d[1] : d \in devices} THEN [w EXCEPT !.prev = h]
    ELSE SearchOne(w, h, devices, Chain(w.q.next, h))

SearchTids(w, devices) ==
    FoldLeft(LAMBDA v, h : SearchTid(v, h, devices),
             [w EXCEPT !.prev = SCB_LIST_NULL], Chain(w.q.next2, w.q.head))

\* One search after another, each for some devices.
SearchEach(searches) ==
    FoldLeft(SearchTids, [q |-> q, prev |-> SCB_LIST_NULL, strays |-> {}], searches)

\* What the searches find is gone; the history follows, and notes the SCBs they
\* have misplaced.
Gone(c, devices) ==
    {s \in Scbs : \/ Is(s, "queued") /\ scb[s].dev \in devices
                  \/ Is(s, "waiting") /\ s \notin OnLists(c)}

SearchedLists(w) ==
    /\ q' = w.q
    /\ strayed' = (strayed \cup w.strays) \cap TargetsOn(w.q)
    /\ fetching' = FALSE

\* The searches as a step: SCBs they find are completed, and so are these.
SearchQinfifo(searches, done) ==
    LET w       == SearchEach(searches)
        devices == UNION Members(searches)
    IN /\ SearchedLists(w)
       /\ qinfifo' = SelectSeq(qinfifo, LAMBDA s : scb[s].dev \notin devices)
       /\ scb' = [s \in Scbs |-> IF s \in Gone(w.q, devices) \cup done THEN Free
                                 ELSE scb[s]]
       /\ order' = SelectSeq(order, LAMBDA s : s \notin Gone(w.q, devices))

\* ahd_handle_scsi_status: the driver searches without waiting for the end of a
\* critical section.
HandleScsiStatus(s) ==
    /\ SearchQinfifo(<<{scb[s].dev}>>, {s})
    /\ ahead' = ahead - 1

\* ahd_run_qoutfifo
RunQoutfifo(s) ==
    /\ Is(s, "ring")
    /\ \/ scb[s].bad /\ HandleScsiStatus(s)
       \/ /\ ~scb[s].bad
          /\ scb' = [scb EXCEPT ![s] = Free]
          /\ UNCHANGED <<qinfifo, fetching, q, ahead, history>>
    /\ UNCHANGED <<sel, CURRSCB, conn, QFROZEN>>

\* ahd_flush_qoutfifo: whatever is on its way to the driver is completed, and
\* bad statuses are handled.
Flushed    == {s \in Scbs : scb[s].at \in {"dma", "onqfreeze", "complete", "ring"}}
FlushedBad == Flushed \cap Unhandled

\* ahd_abort_scbs, with selection disabled: the queues of the devices, what is
\* on its way, where each bad status means a search of its own, and these SCBs.
\* A status seen but not on its way is forgotten, and with it its freeze.
AbortScbs(devices, these) ==
    /\ Lost + Cardinality({s \in these : Is(s, "status")}) <= MaxLost
    /\ \E others \in SetToSeqs({{scb[s].dev} : s \in FlushedBad}) :
          SearchQinfifo(<<devices>> \o others, Flushed \cup these)
    /\ ahead' = ahead - Cardinality(FlushedBad)
    /\ sel' = "idle" /\ CURRSCB' = SCB_LIST_NULL /\ conn' = SCB_LIST_NULL
    /\ UNCHANGED QFROZEN

Of(devices) == {s \in Scbs : scb[s].dev \in devices}

\* SELTO: the head of the list of targets, whatever it is.
SelectionTimeout ==
    /\ sel = "selingo"
    /\ LET devices == {Target(q.head)} \X Luns IN AbortScbs(devices, Of(devices))

\* An unexpected bus free outside packets.
BusFree ==
    /\ conn # SCB_LIST_NULL
    /\ AbortScbs({scb[conn].dev}, {conn})

ResetChannel == AbortScbs(Devices, Of(Devices))

\* A bus free over a rejected negotiation: ahd_freeze_devq, and then
\* ahd_qinfifo_requeue_tail.
NegotiationRejected ==
    /\ conn # SCB_LIST_NULL /\ Is(conn, "active") /\ scb[conn].mk
    /\ LET w    == SearchEach(<<{scb[conn].dev}>>)
           gone == Gone(w.q, {scb[conn].dev})
       IN /\ SearchedLists(w)
          /\ scb' = [s \in Scbs |-> IF s \in gone THEN Free
                                    ELSE IF s = conn THEN [scb[s] EXCEPT !.at = "queued"]
                                    ELSE scb[s]]
          /\ qinfifo' = Append(SelectSeq(qinfifo, LAMBDA s : s \notin gone), conn)
          /\ order' = Append(SelectSeq(order, LAMBDA s : s \notin gone), conn)
    /\ sel' = "idle" /\ CURRSCB' = SCB_LIST_NULL /\ conn' = SCB_LIST_NULL
    /\ UNCHANGED <<QFROZEN, ahead>>
-----------------------------------------------------------------------------
Sequencer ==
    \/ Fetch \/ FetchDone
    \/ StartSelection \/ Arbitrate \/ Selected \/ SelectOut
    \/ Disconnect
    \/ \E s \in Scbs : BadStatus(s) \/ Overrun(s) \/ UploadScb(s) \/ GoodStatus(s)
    \/ \E s \in Scbs : ScbToHost(s) \/ FillQoutfifo(s)
    \/ FrozenCompletions \/ Thaw

Driver ==
    \/ \E s \in Scbs, d \in Devices, message \in BOOLEAN : Submit(s, d, message)
    \/ \E s \in Scbs : RunQoutfifo(s)
    \/ SelectionTimeout \/ BusFree \/ ResetChannel \/ NegotiationRejected

Next == Sequencer \/ Driver

Spec == Init /\ [][Next]_vars
-----------------------------------------------------------------------------
(* Properties. *)

TidLists == Chain(q.next2, q.head)
ListOf(h) == Chain(q.next, h)

\* The SCBs of a target that are not sent yet: on its list, behind it, queued.
Unsent(t) ==
    FlattenSeq([i \in DOMAIN TidLists |->
                   SelectSeq(ListOf(TidLists[i]), LAMBDA s : Target(s) = t)])
        \o SelectSeq(<<q.mk>>, LAMBDA s : s # SCB_LIST_NULL /\ Target(s) = t)
        \o SelectSeq(qinfifo, LAMBDA s : Target(s) = t)

\* A target gets each of its commands once, and in the order they were queued
\* in, however lists are split, searched and joined ("could allow commands to be
\* queued out of order"); in order only until ahd_search_qinfifo puts a
\* MK_MESSAGE SCB of the target in the place of another target's list.
InOrder ==
    \A t \in Targets :
        LET queued == SelectSeq(order, LAMBDA s : Target(s) = t)
        IN /\ t \notin strayed => Unsent(t) = queued
           /\ Len(Unsent(t)) = Len(queued)
           /\ Members(Unsent(t)) = Members(queued)

\* The ends of the lists: a wrong one loses or crosses lists at the next fetch.
\* A MK_MESSAGE SCB waits behind a list of its target, or nothing would ever
\* take it.  A target with such a misplaced SCB has several lists, and its tail
\* may be that of none.
TailsMatch ==
    /\ q.tail = TailOf(TidLists)
    /\ \A h \in Members(TidLists) : \A s \in Members(ListOf(h)) : Target(s) = Target(h)
    /\ \A t \in Targets \ strayed :
          q.tails[t] = TailOf(FlattenSeq([i \in DOMAIN TidLists |->
                          SelectSeq(ListOf(TidLists[i]), LAMBDA s : Target(s) = t)])
                          \o SelectSeq(<<q.mk>>, LAMBDA s : s # SCB_LIST_NULL
                                                            /\ Target(s) = t))
    /\ q.mk # SCB_LIST_NULL =>
          \E h \in Members(TidLists) : Target(h) = Target(q.mk)

\* The lists are well formed.
ListsConsistent == TypeOK /\ TailsMatch

\* While a selection is under way the driver takes nothing from the list that
\* is being sent: SELTO and select_out take its head for what was selected.
SelectionStays ==
    sel # "idle" => /\ q.head # SCB_LIST_NULL
                    /\ CURRSCB \in Members(ListOf(q.head))
                    /\ sel # "seldo" => CURRSCB = q.head

\* Selection stays frozen, and nothing is fetched, until the driver has handled
\* every bad status: it works on the lists without regard to critical sections.
FrozenUntilHandled ==
    /\ Unhandled # {} => QFROZEN
    /\ Cardinality(Unhandled) <= ahead
    /\ (\E s \in Unhandled : Is(s, "ring")) => ~fetching

\* "We must handle the error and increment our qfreeze count to allow the
\* sequencer to continue" (ahd_handle_scsi_status): no freeze stays for ever.
NoFreezeForgotten == Lost = 0
=============================================================================
