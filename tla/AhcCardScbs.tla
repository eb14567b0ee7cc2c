---------------------------- MODULE AhcCardScbs ----------------------------
(***************************************************************************)
(* The SCBs on the aic7xxx chip, with SCB paging.  The chip has a few SCB  *)
(* slots, threaded by SCB_NEXT into a free list, a list waiting for        *)
(* selection and a list of disconnected commands; one more slot is the one *)
(* SCBPTR names while the sequencer moves an SCB or serves the bus.  When  *)
(* no slot is free the sequencer writes a disconnected SCB back to host    *)
(* memory and takes its slot; when that target reselects, the SCB is       *)
(* fetched again.                                                          *)
(*                                                                         *)
(* The host edits the same lists with the sequencer paused at any          *)
(* instruction outside a critical section, so a fetch or a page-out may be *)
(* under way.                                                              *)
(***************************************************************************)
EXTENDS Naturals, FiniteSets, Sequences, SequencesExt

CONSTANTS Tags, Devices,
          NumSlots,          \* maxhscbs
          SCB_LIST_NULL,
          Twin               \* may a reset of another channel let a fetch go on?

Slots == 0 .. NumSlots - 1

VARIABLES
    ram,      \* SCB RAM and the heads of its lists
    SCBPTR,   \* the slot in use
    SCB_DMA,  \* the bit of SEQ_FLAGS2: an SCB is being fetched into it
    seq,      \* where the sequencer is
    job,      \* why it moves an SCB: to fetch a new one, or for a reselection
    ARG_1,    \* the tag it moves
    where,    \* of each tag: without a command, queued, on the card, paged out
    target,   \* the device of each tag's command
    hostdata, \* data pointers in the hardware SCB in host memory
    saved,    \* what the target last told the chip to save
    \* History: what the driver has done to slots it does not know about.
    left,      \* the slots out of the lists since a rejected negotiation
    forgotten, \* those out of the lists since a restart during a page-out or
               \* a page-in
    unsaved,   \* the commands whose SCB was being paged out at a restart
    doubled    \* has a slot been freed that was on a list, or in use?

mover == <<SCBPTR, SCB_DMA, seq, job, ARG_1>>
host  == <<where, target>>
history == <<left, forgotten, unsaved, doubled>>
vars  == <<ram, mover, host, hostdata, saved, history>>

Moving == {"pageout", "dma", "check"}

TypeOK ==
    /\ ram \in [tag: [Slots -> Tags \cup {SCB_LIST_NULL}],
                next: [Slots -> Slots \cup {SCB_LIST_NULL}],
                data: [Slots -> BOOLEAN],
                FREE_SCBH: Slots \cup {SCB_LIST_NULL},
                WAITING_SCBH: Slots \cup {SCB_LIST_NULL},
                DISCONNECTED_SCBH: Slots \cup {SCB_LIST_NULL}]
    /\ SCBPTR \in Slots
    /\ SCB_DMA \in BOOLEAN
    /\ seq \in Moving \cup {"poll", "bus"}
    /\ job \in {"fetch", "reselect"}
    /\ ARG_1 \in Tags \cup {SCB_LIST_NULL}
    /\ where \in [Tags -> {"none", "queued", "card", "host"}]
    /\ target \in [Tags -> Devices \cup {SCB_LIST_NULL}]
    /\ hostdata \in [Tags -> BOOLEAN]
    /\ saved \in [Tags -> BOOLEAN]
    /\ left \in SUBSET Slots
    /\ forgotten \in SUBSET Slots
    /\ unsaved \in SUBSET Tags
    /\ doubled \in BOOLEAN

\* ahc_build_free_scb_list: slot 0 heads the free list.
Init ==
    /\ ram = [tag |-> [s \in Slots |-> SCB_LIST_NULL],
              next |-> [s \in Slots |-> IF s + 1 \in Slots THEN s + 1
                                        ELSE SCB_LIST_NULL],
              data |-> [s \in Slots |-> FALSE],
              FREE_SCBH |-> 0,
              WAITING_SCBH |-> SCB_LIST_NULL,
              DISCONNECTED_SCBH |-> SCB_LIST_NULL]
    /\ SCBPTR = 0 /\ SCB_DMA = FALSE
    /\ seq = "poll" /\ job = "fetch" /\ ARG_1 = SCB_LIST_NULL
    /\ where = [t \in Tags |-> "none"]
    /\ target = [t \in Tags |-> SCB_LIST_NULL]
    /\ hostdata = [t \in Tags |-> FALSE]
    /\ saved = [t \in Tags |-> FALSE]
    /\ left = {} /\ forgotten = {} /\ unsaved = {} /\ doubled = FALSE
-----------------------------------------------------------------------------
(* Lists in SCB RAM. *)

\* The slots from a head on; a list with a cycle has more than NumSlots.
Links(card, head) ==
    LET step[n \in 0 .. NumSlots] ==
            IF n = 0 THEN head
            ELSE IF step[n - 1] = SCB_LIST_NULL THEN SCB_LIST_NULL
            ELSE card.next[step[n - 1]]
    IN SelectSeq([n \in 1 .. NumSlots + 1 |-> step[n - 1]],
                 LAMBDA s : s # SCB_LIST_NULL)

FreeList    == Links(ram, ram.FREE_SCBH)
WaitingList == Links(ram, ram.WAITING_SCBH)
DiscList    == Links(ram, ram.DISCONNECTED_SCBH)

\* The slots of a list, and the slot in use; those the chip can find again.
SlotsOf(list) == {list[i] : i \in DOMAIN list}
InUse == IF seq = "poll" THEN {} ELSE {SCBPTR}
Held == SlotsOf(FreeList) \cup SlotsOf(WaitingList) \cup SlotsOf(DiscList) \cup InUse

AddToFreeList(card, s) ==
    [card EXCEPT !.tag[s] = SCB_LIST_NULL,
                 !.next[s] = card.FREE_SCBH,
                 !.FREE_SCBH = s]

AddAllToFreeList(card, slots) == FoldLeft(AddToFreeList, card, slots)

AddToDiscList(card, s) ==
    [card EXCEPT !.next[s] = card.DISCONNECTED_SCBH, !.DISCONNECTED_SCBH = s]

\* A list relinked without some of its slots: its head, and the links.
HeadOf(list) == IF list = <<>> THEN SCB_LIST_NULL ELSE list[1]
Relink(card, list) ==
    FoldLeft(LAMBDA c, i : [c EXCEPT !.next[list[i]] =
                               IF i < Len(list) THEN list[i + 1] ELSE SCB_LIST_NULL],
             card, [i \in DOMAIN list |-> i])
-----------------------------------------------------------------------------
(* The sequencer: fetching and paging. *)

\* get_free_or_disc_scb: with no slot free, the head of the disconnected list
\* is written back to host memory first.
GetFreeOrDiscScb(card, why, t) ==
    /\ job' = why
    /\ ARG_1' = t
    /\ IF card.FREE_SCBH # SCB_LIST_NULL
       THEN /\ SCBPTR' = card.FREE_SCBH
            /\ ram' = [card EXCEPT !.FREE_SCBH = card.next[card.FREE_SCBH]]
            /\ seq' = "dma"
            /\ SCB_DMA' = (SCB_DMA \/ why = "fetch")
       ELSE /\ card.DISCONNECTED_SCBH # SCB_LIST_NULL
            /\ SCBPTR' = card.DISCONNECTED_SCBH
            /\ ram' = [card EXCEPT !.DISCONNECTED_SCBH =
                                        card.next[card.DISCONNECTED_SCBH]]
            /\ seq' = "pageout"
            /\ UNCHANGED SCB_DMA

\* poll_for_work goes on to test_queue only if nothing waits for selection;
\* without the test it would fetch all it can.
FetchAnyTime == TRUE

NoneWaiting == ram.WAITING_SCBH = SCB_LIST_NULL

\* test_queue
Fetch(t) ==
    /\ seq = "poll"
    /\ NoneWaiting
    /\ where[t] = "queued"
    /\ GetFreeOrDiscScb(ram, "fetch", t)
    /\ UNCHANGED <<host, hostdata, saved>>

\* The slot is reused without writing its SCB back.
WriteBackNothing(t, data) == hostdata

WriteBack(t, data) == [hostdata EXCEPT ![t] = data]

\* dma_scb to the host, in dequeue_disc_scb.
PageOut ==
    /\ seq = "pageout"
    /\ LET t == ram.tag[SCBPTR]
       IN /\ hostdata' = WriteBack(t, ram.data[SCBPTR])
          /\ where' = [where EXCEPT ![t] = "host"]
    /\ seq' = "dma"
    /\ SCB_DMA' = (SCB_DMA \/ job = "fetch")
    /\ UNCHANGED <<ram, SCBPTR, job, ARG_1, target, saved>>

\* dma_scb from the host.  For a reselection the SCB is then connected.
Dma ==
    /\ seq = "dma"
    /\ ram' = [ram EXCEPT !.tag[SCBPTR] = ARG_1,
                          !.data[SCBPTR] = hostdata[ARG_1]]
    /\ seq' = IF job = "fetch" THEN "check" ELSE "bus"
    /\ where' = IF job = "fetch" THEN where ELSE [where EXCEPT ![ARG_1] = "card"]
    /\ UNCHANGED <<SCBPTR, SCB_DMA, job, ARG_1, target, hostdata, saved>>

\* The check in dma_queued_scb: still queued, the SCB waits for selection;
\* otherwise abort_qinscb frees the slot, and leaves SCB_DMA as it is.
TakeQinscb ==
    /\ seq = "check"
    /\ where[ARG_1] = "queued"
    /\ where' = [where EXCEPT ![ARG_1] = "card"]
    /\ ram' = [ram EXCEPT !.next[SCBPTR] = ram.WAITING_SCBH,
                          !.WAITING_SCBH = SCBPTR]
    /\ SCB_DMA' = FALSE
    /\ seq' = "poll"
    /\ UNCHANGED <<SCBPTR, job, ARG_1, target, hostdata, saved>>

AbortQinscb ==
    /\ seq = "check"
    /\ where[ARG_1] # "queued"
    /\ ram' = AddToFreeList(ram, SCBPTR)
    /\ seq' = "poll"
    /\ UNCHANGED <<SCBPTR, SCB_DMA, job, ARG_1, host, hostdata, saved>>
-----------------------------------------------------------------------------
(* The sequencer: the bus. *)

\* select_out
SelectOut ==
    /\ seq = "poll"
    /\ ram.WAITING_SCBH # SCB_LIST_NULL
    /\ SCBPTR' = ram.WAITING_SCBH
    /\ ram' = [ram EXCEPT !.WAITING_SCBH = ram.next[ram.WAITING_SCBH]]
    /\ seq' = "bus"
    /\ UNCHANGED <<SCB_DMA, job, ARG_1, host, hostdata, saved>>

\* rem_scb_from_disc_list
Unlink(card, s) ==
    LET list == SelectSeq(Links(card, card.DISCONNECTED_SCBH), LAMBDA u : u # s)
    IN [Relink(card, list) EXCEPT !.DISCONNECTED_SCBH = HeadOf(list)]

\* A target reselects: findSCB takes the SCB off the disconnected list.  When it
\* is not there it pages it in, also if the SCB is in a slot that was forgotten.
Reselect(t) ==
    /\ seq = "poll"
    /\ \/ \E i \in DOMAIN DiscList :
            /\ ram.tag[DiscList[i]] = t
            /\ \A j \in 1 .. i - 1 : ram.tag[DiscList[j]] # t
            /\ SCBPTR' = DiscList[i]
            /\ ram' = Unlink(ram, DiscList[i])
            /\ seq' = "bus"
            /\ UNCHANGED <<SCB_DMA, job, ARG_1>>
       \/ /\ where[t] \in {"card", "host"}
          /\ \A s \in Held : ram.tag[s] # t
          /\ GetFreeOrDiscScb(ram, "reselect", t)
    /\ UNCHANGED <<host, hostdata, saved>>

\* The command on the bus.
Tag == ram.tag[SCBPTR]

\* mesgin_sdptrs
SaveDataPointers ==
    /\ seq = "bus"
    /\ saved' = [saved EXCEPT ![Tag] = TRUE]
    /\ ram' = [ram EXCEPT !.data[SCBPTR] = TRUE]
    /\ UNCHANGED <<mover, host, hostdata>>

\* mesgin_disconnect
Disconnect ==
    /\ seq = "bus"
    /\ ram' = AddToDiscList(ram, SCBPTR)
    /\ seq' = "poll"
    /\ UNCHANGED <<SCBPTR, SCB_DMA, job, ARG_1, host, hostdata, saved>>

\* complete, and the completion by the host.
Complete ==
    /\ seq = "bus"
    /\ ram' = AddToFreeList(ram, SCBPTR)
    /\ where' = [where EXCEPT ![Tag] = "none"]
    /\ seq' = "poll"
    /\ UNCHANGED <<SCBPTR, SCB_DMA, job, ARG_1, target, hostdata, saved>>
-----------------------------------------------------------------------------
(* The host. *)

\* A new command in the hardware SCB of this tag.
Submit(t, d) ==
    /\ where[t] = "none"
    /\ where' = [where EXCEPT ![t] = "queued"]
    /\ target' = [target EXCEPT ![t] = d]
    /\ hostdata' = [hostdata EXCEPT ![t] = FALSE]
    /\ saved' = [saved EXCEPT ![t] = FALSE]
    /\ unsaved' = unsaved \ {t}
    /\ UNCHANGED <<ram, mover, left, forgotten, doubled>>

\* ahc_search_qinfifo, its second half: the waiting list without the devices.
RemoveWaiting(card, devices) ==
    LET list  == Links(card, card.WAITING_SCBH)
        kept  == SelectSeq(list, LAMBDA s : target[card.tag[s]] \notin devices)
        found == SelectSeq(list, LAMBDA s : target[card.tag[s]] \in devices)
    IN [AddAllToFreeList(Relink(card, kept), found) EXCEPT
          !.WAITING_SCBH = HeadOf(kept)]

\* ahc_search_disc_list, removing.
RemoveDisconnected(card, tags) ==
    LET list  == Links(card, card.DISCONNECTED_SCBH)
        kept  == SelectSeq(list, LAMBDA s : card.tag[s] \notin tags)
        found == SelectSeq(list, LAMBDA s : card.tag[s] \in tags)
    IN [AddAllToFreeList(Relink(card, kept), found) EXCEPT
          !.DISCONNECTED_SCBH = HeadOf(kept)]

\* The slots without a list, in the order ahc_abort_scbs visits them: those of
\* the tags, and those whose tag no longer has a command.
Sweep(card, tags, unmapped) ==
    AddAllToFreeList(card,
        SelectSeq([i \in 1 .. NumSlots |-> i - 1],
                  LAMBDA s : card.tag[s] \in tags \cup unmapped))

\* The commands of some devices that the driver knows, but a queued one only
\* until the search has completed it.
Mapped(devices) == {t \in Tags : where[t] # "none" /\ target[t] \in devices}
QueuedFor(devices) == {t \in Mapped(devices) : where[t] = "queued"}
WaitingFor(devices) ==
    {ram.tag[WaitingList[i]] : i \in DOMAIN WaitingList} \cap Mapped(devices)

\* ahc_abort_scbs: the whole queue of the devices, and these of their commands.
AbortScbs(devices, tags) ==
    LET gone == QueuedFor(devices) \cup WaitingFor(devices)
        rest == tags \ gone
    IN Sweep(RemoveDisconnected(RemoveWaiting(ram, devices), rest),
             rest, {t \in Tags : where[t] = "none"} \cup gone)

Aborted(devices, tags) ==
    [t \in Tags |->
        IF t \in QueuedFor(devices) \cup WaitingFor(devices) \cup tags
        THEN "none" ELSE where[t]]

\* Mutated: the slot of an SCB being fetched is not freed.
RestartFreesNothing(card, s) == card

\* ahc_restart frees the slot of an SCB being fetched.
RestartFrees(card, s) == IF SCB_DMA THEN AddToFreeList(card, s) ELSE card

\* SCB_DMA is set, but the slot is on a list: the sweep has freed it, because
\* the DMA has ended or it was paged out, or abort_qinscb left the bit behind.
FreedTwice(card, s) ==
    /\ SCB_DMA
    /\ \E head \in {card.FREE_SCBH, card.WAITING_SCBH, card.DISCONNECTED_SCBH} :
          s \in SlotsOf(Links(card, head))

\* The sweep did not see the tag of the slot, and an SCB is being paged out, or
\* in for a reselection, for which nobody sets SCB_DMA.
Forgotten(card, s) ==
    /\ seq = "pageout" \/ (seq = "dma" /\ ~SCB_DMA)
    /\ s \notin SlotsOf(Links(card, card.FREE_SCBH))

\* A slot swept back to the free list is no longer lost.
StillLost(slots, card) == slots \ SlotsOf(Links(card, card.FREE_SCBH))

\* The restart, after a sweep or without one, with the slot in use.  The
\* history takes down what becomes of the slots without a list.
Restart(card, s, leaves) ==
    /\ SCBPTR' = s
    /\ ram' = RestartFrees(card, s)
    /\ SCB_DMA' = FALSE
    /\ seq' = "poll"
    /\ left' = StillLost(left \cup leaves, ram')
    /\ forgotten' = StillLost(IF Forgotten(card, s) THEN forgotten \cup {s}
                              ELSE forgotten, ram')
    /\ unsaved' = IF seq = "pageout" /\ ram.tag[SCBPTR] = card.tag[SCBPTR]
                  THEN unsaved \cup {ram.tag[SCBPTR]} ELSE unsaved
    /\ doubled' = (doubled \/ FreedTwice(card, s))
    /\ UNCHANGED <<job, ARG_1>>

\* A check condition: the queue of the device is taken back, the slot is free
\* and the command is queued as a REQUEST SENSE.
CheckCondition ==
    /\ seq = "bus"
    /\ LET d    == target[Tag]
           gone == QueuedFor({d}) \cup WaitingFor({d})
       IN /\ ram' = AddToFreeList(RemoveWaiting(ram, {d}), SCBPTR)
          /\ where' = [t \in Tags |-> IF t = Tag THEN "queued"
                                      ELSE IF t \in gone THEN "none" ELSE where[t]]
    /\ hostdata' = [hostdata EXCEPT ![Tag] = FALSE]
    /\ saved' = [saved EXCEPT ![Tag] = FALSE]
    /\ seq' = "poll"
    /\ UNCHANGED <<SCBPTR, SCB_DMA, job, ARG_1, target>>

\* A bus free after a negotiation message, which goes out before any data:
\* ahc_qinfifo_requeue_tail, and ahc_restart.  Nothing frees the slot.
NegotiationRejected ==
    /\ seq = "bus" /\ ~saved[Tag]
    /\ where' = [where EXCEPT ![Tag] = "queued"]
    /\ Restart(ram, SCBPTR, {SCBPTR})
    /\ UNCHANGED <<target, hostdata, saved>>

\* An unexpected bus free aborts the command, and the queue of its device.
BusFree ==
    /\ seq = "bus"
    /\ where' = Aborted({target[Tag]}, {Tag})
    /\ Restart(AbortScbs({target[Tag]}, {Tag}), SCBPTR, {})
    /\ UNCHANGED <<target, hostdata, saved>>

\* SELTO for the head of the waiting list, which SCBPTR is pointed at:
\* ahc_handle_devreset aborts the device.
SelectionTimeout ==
    /\ seq = "poll" /\ ram.WAITING_SCBH # SCB_LIST_NULL
    /\ LET d == target[ram.tag[ram.WAITING_SCBH]]
       IN /\ where' = Aborted({d}, Mapped({d}))
          /\ Restart(AbortScbs({d}, Mapped({d})), ram.WAITING_SCBH, {})
    /\ UNCHANGED <<target, hostdata, saved>>

\* The channels, which are SCSI buses: the devices of a twin adapter are on
\* different ones.
Channels == IF Twin THEN {{d} : d \in Devices} ELSE {Devices}

\* The device on the bus.
Connected ==
    IF seq = "bus" THEN {target[Tag]}
    ELSE IF seq \in {"pageout", "dma"} /\ job = "reselect" THEN {target[ARG_1]}
    ELSE {}

\* ahc_reset_channel for the channel the sequencer serves, anywhere outside a
\* critical section.
ResetChannel(devices) ==
    /\ Connected \subseteq devices
    /\ where' = Aborted(devices, Mapped(devices))
    /\ Restart(AbortScbs(devices, Mapped(devices)), SCBPTR, {})
    /\ UNCHANGED <<target, hostdata, saved>>

\* And for the other: no restart, and the slot in use may be swept under the
\* sequencer.
FreesSlotInUse(card) ==
    seq # "poll" /\ SCBPTR \in SlotsOf(Links(card, card.FREE_SCBH))

BackgroundReset(devices) ==
    /\ Twin
    /\ Connected \cap devices = {}
    /\ ram' = AbortScbs(devices, Mapped(devices))
    /\ where' = Aborted(devices, Mapped(devices))
    /\ left' = StillLost(left, ram')
    /\ forgotten' = StillLost(forgotten, ram')
    /\ doubled' = (doubled \/ FreesSlotInUse(ram'))
    /\ UNCHANGED <<unsaved, mover, target, hostdata, saved>>
-----------------------------------------------------------------------------
Sequencer ==
    \/ \E t \in Tags : Fetch(t) \/ Reselect(t)
    \/ PageOut \/ Dma \/ TakeQinscb \/ AbortQinscb
    \/ SelectOut \/ SaveDataPointers \/ Disconnect \/ Complete

Host ==
    \/ \E t \in Tags, d \in Devices : Submit(t, d)
    \/ CheckCondition /\ UNCHANGED history
    \/ NegotiationRejected \/ BusFree \/ SelectionTimeout
    \/ \E devices \in Channels : ResetChannel(devices) \/ BackgroundReset(devices)

Next ==
    \/ Sequencer /\ UNCHANGED history
    \/ Host

Spec == Init /\ [][Next]_vars
-----------------------------------------------------------------------------
(* Properties. *)

\* Until the driver frees a slot that is on a list or in use, no slot is on two
\* lists, or twice on one, or on one while in use: two commands would share it.
\* The driver does so in two ways only: ahc_restart with SCB_DMA set and the
\* slot on a list, and a sweep for another channel that finds in the slot the
\* tag of an SCB just paged out of it.
NoSlotShared ==
    ~doubled =>
        /\ \A list \in {FreeList, WaitingList, DiscList} :
              /\ Len(list) = Cardinality(SlotsOf(list))
              /\ SlotsOf(list) \cap InUse = {}
        /\ SlotsOf(FreeList) \cap SlotsOf(WaitingList) = {}
        /\ SlotsOf(FreeList) \cap SlotsOf(DiscList) = {}
        /\ SlotsOf(WaitingList) \cap SlotsOf(DiscList) = {}

\* The slots lost are those a rejected negotiation or a restart during a
\* page-out or a page-in left out of the lists, as long as no sweep finds their
\* tags: no sequence of fetches, page-outs, aborts and resets drops another.
Lost == left \cup forgotten
NoSlotLost == ~doubled => Slots \ Held = Lost

\* A command is on the card in one slot, whose tag is not also that of a
\* leftover: findSCB or a sweep would take one for the other.  The SCB that was
\* being paged out at a restart may be gone from the card.
OneSlotPerCommand ==
    ~doubled =>
        /\ \A s, u \in Held : ram.tag[s] # SCB_LIST_NULL /\ ram.tag[s] = ram.tag[u]
                                  => s = u
        /\ \A t \in Tags \ unsaved : where[t] = "card" => \E s \in Slots : ram.tag[s] = t
        /\ \A s \in SlotsOf(FreeList) : ram.tag[s] = SCB_LIST_NULL

\* The lists of the card account for every slot and every command on it, up to
\* the first slot freed twice.
SlotsConsistent == TypeOK /\ NoSlotShared /\ NoSlotLost /\ OneSlotPerCommand

\* As long as two slots are not lost and none was freed twice, the sequencer
\* never runs into NO_FREE_SCB, at which the driver panics: whenever it wants a
\* slot, one is free or can be paged out.
AlwaysAScb ==
    /\ ~doubled /\ Cardinality(Slots \ Lost) >= 2
    /\ seq = "poll"
    /\ \/ NoneWaiting /\ \E t \in Tags : where[t] = "queued"
       \/ \E t \in Tags : where[t] \in {"card", "host"}
                            /\ \A s \in Held : ram.tag[s] # t
    => ram.FREE_SCBH # SCB_LIST_NULL \/ ram.DISCONNECTED_SCBH # SCB_LIST_NULL

\* A command that reconnects continues where its target last saved the data
\* pointers, whether or not its SCB was paged out meanwhile; unless a restart hit
\* while it was, when it is paged in from a stale copy.
DataPointersSurvive ==
    ~doubled /\ seq = "bus" /\ Tag \notin unsaved => ram.data[SCBPTR] = saved[Tag]

\* aic7xxx_core.c:842-846: a slot into which an SCB is being moved is replaced
\* on the free list by ahc_restart: "This prevents an SCB leak."  So only
\* rejected negotiations leak slots.
RestartLeaksNone == ~doubled => Slots \ Held \subseteq left
=============================================================================
