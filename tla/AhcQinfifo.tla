----------------------------- MODULE AhcQinfifo -----------------------------
(***************************************************************************)
(* The input queue of the aic7xxx: how commands get from HwStartIo to the  *)
(* card, and how error recovery takes them back or queues them again.      *)
(*                                                                         *)
(* The queue is a linked list of hardware SCBs in host memory.  The card   *)
(* holds the tag of the one it fetches next in NEXT_QUEUED_SCB; the last   *)
(* one points to a reserved hardware SCB that the next command will fill.  *)
(* The driver's ring qinfifo repeats the list, so that it can be searched. *)
(* To queue a command, its SCB gives up its own hardware SCB for the       *)
(* reserved one, whose place in the list is already known to the card.     *)
(*                                                                         *)
(* The sequencer takes NEXT_QUEUED_SCB, DMAs that hardware SCB, and only   *)
(* then, if NEXT_QUEUED_SCB has not changed, removes it from the queue.    *)
(* The host edits the queue with the sequencer paused.                     *)
(***************************************************************************)
EXTENDS Naturals, FiniteSets, Sequences, Subsequences

CONSTANTS Reqs,            \* the port driver's requests (SRBs)
          Device,          \* the device each is for
          Scbs,            \* the driver's SCBs
          Tags,            \* the hardware SCBs, which their tags name
          next_queued_scb, \* the SCB that keeps the reserved hardware SCB
          RingSize,        \* entries of qinfifo: 256 in the code
          None,
          ChannelB,        \* devices on the second channel of a twin adapter
          Rejecting,       \* the devices that may answer a negotiation by
                           \* leaving the bus
          ResetsPerFetch   \* bound: resets of the background channel during
                           \* one DMA of an SCB

Positions == 0 .. RingSize - 1
Commands  == [req : Reqs, sense : BOOLEAN]

ASSUME QinfifoAssumption ==
    /\ Device \in [Reqs -> {Device[r] : r \in Reqs}]
    /\ next_queued_scb \in Scbs
    /\ IsFiniteSet(Scbs) /\ IsFiniteSet(Tags)
    /\ Cardinality(Scbs) = Cardinality(Tags)
    /\ RingSize \in Nat /\ RingSize >= Cardinality(Scbs)
    /\ None \notin Reqs \cup Scbs \cup Tags /\ None \notin Commands
    /\ ResetsPerFetch \in Nat

VARIABLES
    free_scbs,       \* SCBs without a command
    hscb,            \* each SCB's hardware SCB, by its tag
    scbindex,        \* what ahc_lookup_scb finds for a tag
    command,         \* each SCB's command: its SRB, and whether SCB_SENSE
    mem,             \* hardware SCBs in host memory: a command and a link
    qinfifo,         \* the driver's copy of the list
    qinfifonext,     \* its end
    HNSCB_QOFF,      \* the end as the card knows it
    SNSCB_QOFF,      \* the card's position
    NEXT_QUEUED_SCB, \* the hardware SCB the card fetches next
    seq,             \* where the sequencer is in dma_queued_scb
    ARG_1,           \* the tag it fetches
    slot,            \* the SCB on the card it fetches into
    waiting,         \* tags on the card's waiting-for-selection list
    card,            \* commands on the card, by tag
    posted,          \* tags in the output queue
    SELBUSB,         \* a twin adapter serves its channel B
    resets           \* background resets during this fetch

scbvars  == <<free_scbs, hscb, scbindex, command>>
hostvars == <<scbvars, mem, qinfifo, qinfifonext>>
fetch    == <<seq, ARG_1, slot, SELBUSB, resets>>
cardvars == <<waiting, card, posted>>
vars     == <<hostvars, HNSCB_QOFF, SNSCB_QOFF, NEXT_QUEUED_SCB, fetch, cardvars>>

TypeOK ==
    /\ free_scbs \subseteq Scbs \ {next_queued_scb}
    /\ hscb \in [Scbs -> Tags]
    /\ scbindex \in [Tags -> Scbs \cup {None}]
    /\ command \in [Scbs -> Commands \cup {None}]
    /\ mem \in [Tags -> [cmd : Commands \cup {None}, next : Tags]]
    /\ qinfifo \in [Positions -> Tags \cup {None}]
    /\ {qinfifonext, HNSCB_QOFF, SNSCB_QOFF} \subseteq Positions
    /\ NEXT_QUEUED_SCB \in Tags
    /\ seq \in {"poll", "dma", "dma_next", "check"}
    /\ ARG_1 \in Tags
    /\ slot \in [cmd : Commands \cup {None}, next : Tags]
    /\ waiting \subseteq Tags
    /\ card \in [Tags -> Commands \cup {None}]
    /\ posted \subseteq Tags
    /\ SELBUSB \in BOOLEAN
    /\ resets \in 0 .. ResetsPerFetch

\* ahc_init_scbdata takes an SCB for next_queued_scb before any command; the
\* chip is given its tag.  Which hardware SCB is whose makes no difference.
Init ==
    /\ free_scbs = Scbs \ {next_queued_scb}
    /\ hscb \in {f \in [Scbs -> Tags] : \A s, u \in Scbs : f[s] = f[u] => s = u}
    /\ scbindex = [t \in Tags |-> None]
    /\ command = [s \in Scbs |-> None]
    /\ mem = [t \in Tags |-> [cmd |-> None, next |-> hscb[next_queued_scb]]]
    /\ qinfifo = [p \in Positions |-> None]
    /\ qinfifonext = 0 /\ HNSCB_QOFF = 0 /\ SNSCB_QOFF = 0
    /\ NEXT_QUEUED_SCB = hscb[next_queued_scb]
    /\ seq = "poll"
    /\ ARG_1 = hscb[next_queued_scb]
    /\ slot = mem[ARG_1]
    /\ waiting = {}
    /\ card = [t \in Tags |-> None]
    /\ posted = {}
    /\ SELBUSB = FALSE
    /\ resets = 0
-----------------------------------------------------------------------------
(* The ring. *)

Plus(p, n)  == (p + n) % RingSize
Count(p, q) == (q + RingSize - p) % RingSize

\* What the search finds between the card's position and the driver's.
Queue == [i \in 1 .. Count(SNSCB_QOFF, qinfifonext)
            |-> qinfifo[Plus(SNSCB_QOFF, i - 1)]]
QueueTags == {Queue[i] : i \in DOMAIN Queue}

Busy == Scbs \ (free_scbs \cup {next_queued_scb})
DeviceOf(t) == Device[command[scbindex[t]].req]

\* Device of a tag that may have no SCB.
TagsOf(devices) == {t \in Tags : scbindex[t] # None /\ DeviceOf(t) \in devices}

\* The links of a list of tags whose last one points to the reserved tag.
Linked(list, reserved) ==
    [t \in Tags |->
        IF \E i \in DOMAIN list : list[i] = t
        THEN LET i == CHOOSE i \in DOMAIN list : list[i] = t
             IN IF i < Len(list) THEN list[i + 1] ELSE reserved
        ELSE mem[t].next]
-----------------------------------------------------------------------------
(* The sequencer. *)

\* Mutated: SCB_AVAIL as a comparison that forgets that positions wrap.
ScbAvailNoWrap == HNSCB_QOFF > SNSCB_QOFF

ScbAvail == HNSCB_QOFF # SNSCB_QOFF

\* test_queue: nothing waits for selection, and the host has posted work.  The
\* loop toggles between the channels of a twin adapter.
TestQueue ==
    /\ seq = "poll"
    /\ waiting = {}
    /\ ScbAvail
    /\ seq' = "dma"
    /\ ARG_1' = NEXT_QUEUED_SCB
    /\ SELBUSB' \in {FALSE, ChannelB # {}}
    /\ resets' = 0
    /\ UNCHANGED <<hostvars, HNSCB_QOFF, SNSCB_QOFF, NEXT_QUEUED_SCB, slot, cardvars>>

\* dma_scb: the host may write the hardware SCB meanwhile; its link is the
\* last byte the DMA reads.
DmaScb ==
    /\ seq = "dma"
    /\ slot' = [slot EXCEPT !.cmd = mem[ARG_1].cmd]
    /\ seq' = "dma_next"
    /\ UNCHANGED <<hostvars, HNSCB_QOFF, SNSCB_QOFF, NEXT_QUEUED_SCB, ARG_1,
                   SELBUSB, resets, cardvars>>

DmaScbNext ==
    /\ seq = "dma_next"
    /\ slot' = [slot EXCEPT !.next = mem[ARG_1].next]
    /\ seq' = "check"
    /\ UNCHANGED <<hostvars, HNSCB_QOFF, SNSCB_QOFF, NEXT_QUEUED_SCB, ARG_1,
                   SELBUSB, resets, cardvars>>

\* Mutated: the check before the SCB is taken off the queue, forgotten.
SameHead(t) == TRUE

StillQueued(t) == NEXT_QUEUED_SCB = t
Advance(p)     == Plus(p, 1)

\* A critical section.  The slot becomes the head of the waiting list.
TakeQinscb ==
    /\ seq = "check"
    /\ StillQueued(ARG_1)
    /\ NEXT_QUEUED_SCB' = slot.next
    /\ SNSCB_QOFF' = Advance(SNSCB_QOFF)
    /\ card' = [card EXCEPT ![ARG_1] = slot.cmd]
    /\ waiting' = waiting \cup {ARG_1}
    /\ seq' = "poll"
    /\ UNCHANGED <<hostvars, HNSCB_QOFF, ARG_1, slot, SELBUSB, resets, posted>>

\* abort_qinscb: the host has changed the head meanwhile.
AbortQinscb ==
    /\ seq = "check"
    /\ ~StillQueued(ARG_1)
    /\ seq' = "poll"
    /\ UNCHANGED <<hostvars, HNSCB_QOFF, SNSCB_QOFF, NEXT_QUEUED_SCB, ARG_1,
                   slot, SELBUSB, resets, cardvars>>

\* start_waiting, select_out: the target has answered the selection.
Select(t) ==
    /\ seq = "poll"
    /\ t \in waiting
    /\ waiting' = waiting \ {t}
    /\ UNCHANGED <<hostvars, HNSCB_QOFF, SNSCB_QOFF, NEXT_QUEUED_SCB, fetch,
                   card, posted>>

\* The commands whose targets may report something now: the sequencer serves
\* the bus only when it fetches nothing.
Connectable == {t \in Tags \ waiting : card[t] # None /\ seq = "poll"}

\* complete: the slot is free, the tag is in the output queue.
Complete(t) ==
    /\ t \in Connectable
    /\ card' = [card EXCEPT ![t] = None]
    /\ posted' = posted \cup {t}
    /\ UNCHANGED <<hostvars, HNSCB_QOFF, SNSCB_QOFF, NEXT_QUEUED_SCB, fetch, waiting>>
-----------------------------------------------------------------------------
(* The host: HwStartIo. *)

\* HwStartIo up to the write of the register: the command is copied into the
\* reserved hardware SCB, and the SCB takes that one for its own.
StartIo(r) ==
    /\ \A s \in Busy : command[s].req # r
    /\ \E s \in free_scbs :
        LET new == hscb[next_queued_scb]
            old == hscb[s]
            cmd == [req |-> r, sense |-> FALSE]
        IN /\ free_scbs' = free_scbs \ {s}
           /\ command' = [command EXCEPT ![s] = cmd]
           /\ hscb' = [hscb EXCEPT ![s] = new, ![next_queued_scb] = old]
           /\ scbindex' = [scbindex EXCEPT ![new] = s]
           /\ mem' = [mem EXCEPT ![old].cmd = cmd,
                                 ![new] = [cmd |-> cmd, next |-> old]]
           /\ qinfifo' = [qinfifo EXCEPT ![qinfifonext] = new]
           /\ qinfifonext' = Plus(qinfifonext, 1)
    /\ UNCHANGED <<HNSCB_QOFF, SNSCB_QOFF, NEXT_QUEUED_SCB, fetch, cardvars>>

\* The write of HNSCB_QOFF is posted: the bus delivers the oldest.
Flushed == HNSCB_QOFF = qinfifonext

DeliverQoff ==
    /\ ~Flushed
    /\ HNSCB_QOFF' = Plus(HNSCB_QOFF, 1)
    /\ UNCHANGED <<hostvars, SNSCB_QOFF, NEXT_QUEUED_SCB, fetch, cardvars>>

\* ahc_done on the way out of ahc_run_qoutfifo, or of ahc_abort_scbs.
Freed(tags) ==
    LET scbs == {scbindex[t] : t \in tags}
    IN /\ free_scbs' = free_scbs \cup scbs
       /\ command' = [s \in Scbs |-> IF s \in scbs THEN None ELSE command[s]]

AhcDone(t) ==
    /\ t \in posted
    /\ posted' = posted \ {t}
    /\ Freed({t})
    /\ scbindex' = [scbindex EXCEPT ![t] = None]
    /\ UNCHANGED <<hscb, mem, qinfifo, qinfifonext, HNSCB_QOFF, SNSCB_QOFF,
                   NEXT_QUEUED_SCB, fetch, waiting, card>>
-----------------------------------------------------------------------------
(* The host: error recovery, with the sequencer paused.  Every routine reads *)
(* SNSCB_QOFF first, and the read waits for the posted writes.               *)

\* Mutated: the search without the exchange of the head, which the comment in
\* ahc_search_qinfifo explains.
SwapNever(kept, found) == FALSE

\* The search removes something and leaves something: the sequencer may be
\* fetching the head, or a head whose link is about to change.
SwapHead(kept, found) == found # {} /\ kept # <<>>

IndexMoved(old, new) ==
    [scbindex EXCEPT ![new] = scbindex[old], ![old] = None]

\* ahc_search_qinfifo for commands of these devices: what it completes, and
\* the queue it leaves.  The head moves to the reserved hardware SCB, and its
\* own becomes the reserved one.
Search(devices) ==
    LET kept  == Kept(Queue, {i \in DOMAIN Queue : DeviceOf(Queue[i]) \notin devices})
        found == {t \in QueueTags : DeviceOf(t) \in devices}
        new   == hscb[next_queued_scb]
        swap  == SwapHead(kept, found)
        old   == IF swap THEN kept[1] ELSE new
        list  == IF swap THEN <<new>> \o Tail(kept) ELSE kept
    IN [found    |-> found \cup (waiting \cap TagsOf(devices)),
        list     |-> list,
        reserved |-> old,
        hscb     |-> IF swap THEN [hscb EXCEPT ![scbindex[old]] = new,
                                               ![next_queued_scb] = old]
                             ELSE hscb,
        scbindex |-> IF swap THEN IndexMoved(old, new) ELSE scbindex,
        mem      |-> [t \in Tags |->
                        [cmd  |-> mem[IF swap /\ t = new THEN old ELSE t].cmd,
                         next |-> IF swap /\ t = old THEN Linked(kept, new)[t]
                                                     ELSE Linked(list, old)[t]]]]

\* A result of the search with a tag queued again at its end, as
\* ahc_qinfifo_requeue_tail does.
Requeued(found, t, cmd) ==
    LET list == Append(found.list, t)
    IN [found EXCEPT
          !.list = list,
          !.mem  = [u \in Tags |->
                      [cmd  |-> IF u = t THEN cmd ELSE found.mem[u].cmd,
                       next |-> IF u = t THEN found.reserved
                                ELSE IF found.list # <<>>
                                        /\ u = found.list[Len(found.list)]
                                THEN t ELSE found.mem[u].next]]]

\* The result becomes the state; done are the tags completed, whose SCBs are
\* free, cmds the commands of those that stay.
Install(result, done, cmds) ==
    LET scbs == {scbindex[t] : t \in done}
        end  == Plus(SNSCB_QOFF, Len(result.list))
    IN /\ hscb' = result.hscb
       /\ scbindex' = [t \in Tags |-> IF t \in done THEN None
                                      ELSE result.scbindex[t]]
       /\ free_scbs' = free_scbs \cup scbs
       /\ command' = [s \in Scbs |-> IF s \in scbs THEN None ELSE cmds[s]]
       /\ mem' = result.mem
       /\ qinfifo' = [p \in Positions |->
                        IF Count(SNSCB_QOFF, p) < Len(result.list)
                        THEN result.list[Count(SNSCB_QOFF, p) + 1]
                        ELSE qinfifo[p]]
       /\ qinfifonext' = end
       /\ HNSCB_QOFF' = end
       /\ NEXT_QUEUED_SCB' = IF result.list = <<>> THEN result.reserved
                             ELSE result.list[1]
       /\ waiting' = waiting \ done
       /\ UNCHANGED SNSCB_QOFF

\* Off the card: the slots of these tags are free.
OffCard(tags) == card' = [t \in Tags |-> IF t \in tags THEN None ELSE card[t]]

\* The queue as it is: a requeue without a search.
Unsearched == [found |-> {}, list |-> Queue, reserved |-> hscb[next_queued_scb],
               hscb |-> hscb, scbindex |-> scbindex, mem |-> mem]

\* Mutated: ahc_freeze_devq without its search.
FreezeNothing(t) == Unsearched

FreezeDevq(t) == Search({DeviceOf(t)})

\* The handlers of ahc_intr find the output queue empty: CMDCMPLT is served
\* first, and the chip pauses the sequencer when it raises SEQINT or SCSIINT.
Handler == posted = {} /\ Flushed

\* BAD_STATUS with a check condition: ahc_freeze_devq takes back what is queued
\* for the device, and the command becomes a REQUEST SENSE at the end of the
\* queue, under its own tag.
CheckCondition(t) ==
    LET scb    == scbindex[t]
        sense  == [command[scb] EXCEPT !.sense = TRUE]
        result == FreezeDevq(t)
    IN /\ t \in Connectable /\ Handler
       /\ ~command[scb].sense
       /\ Install(Requeued(result, t, sense), result.found,
                  [command EXCEPT ![scb] = sense])
       /\ OffCard(result.found \cup {t})
       /\ UNCHANGED <<posted, fetch>>

\* BAD_STATUS for a REQUEST SENSE: it completes as a failed autosense.
AutosenseFailed(t) ==
    /\ t \in Connectable /\ Handler
    /\ command[scbindex[t]].sense
    /\ command' = [command EXCEPT ![scbindex[t]].sense = FALSE]
    /\ OffCard({t})
    /\ posted' = {t}
    /\ UNCHANGED <<free_scbs, hscb, scbindex, mem, qinfifo, qinfifonext,
                   HNSCB_QOFF, SNSCB_QOFF, NEXT_QUEUED_SCB, fetch, waiting>>

\* BAD_STATUS with another status: the device's queue is taken back and the
\* command completes.
BadStatus(t) ==
    LET result == FreezeDevq(t)
    IN /\ t \in Connectable /\ Handler
       /\ ~command[scbindex[t]].sense
       /\ Install(result, result.found, command)
       /\ OffCard(result.found \cup {t})
       /\ posted' = {t}
       /\ UNCHANGED fetch

\* DATA_OVERRUN: the queue is taken back and the command goes on.
DataOverrun(t) ==
    LET result == FreezeDevq(t)
    IN /\ t \in Connectable /\ Handler
       /\ Install(result, result.found,
                  [command EXCEPT ![scbindex[t]].sense = FALSE])
       /\ OffCard(result.found)
       /\ UNCHANGED <<posted, fetch>>

\* ahc_restart: the sequencer starts from the top.
Restart == seq' = "poll" /\ UNCHANGED <<ARG_1, slot, SELBUSB, resets>>

\* ahc_abort_scbs: the queued commands of the devices, and these others.
AbortScbs(devices, others) ==
    LET result == Search(devices)
    IN /\ Install(result, result.found \cup others, command)
       /\ OffCard(result.found \cup others)

\* An unexpected bus free with a command connected: that command, or, for the
\* untagged REQUEST SENSE, every command of the device.
BusFree(t) ==
    /\ t \in Connectable /\ Handler
    /\ AbortScbs({DeviceOf(t)},
                 IF card[t].sense THEN TagsOf({DeviceOf(t)}) ELSE {t})
    /\ Restart
    /\ UNCHANGED posted

\* A bus free after a negotiation message: the command is queued once more and
\* will try without.
NegotiationRejected(t) ==
    /\ t \in Connectable /\ DeviceOf(t) \in Rejecting /\ Handler
    /\ Install(Requeued(Unsearched, t, mem[t].cmd), {}, command)
    /\ OffCard({t})
    /\ Restart
    /\ UNCHANGED posted

\* SELTO: everything the driver has for the device.
SelectionTimeout(t) ==
    /\ seq = "poll" /\ t \in waiting /\ Handler
    /\ AbortScbs({DeviceOf(t)}, TagsOf({DeviceOf(t)}))
    /\ Restart
    /\ UNCHANGED posted

Channels == {{Device[r] : r \in Reqs} \ ChannelB, ChannelB}

\* ahc_reset_channel, with the sequencer anywhere: what has completed is
\* completed, then everything of the channel.  A reset of the channel the chip
\* does not serve lets the sequencer continue.
ResetChannel(devices) ==
    /\ devices # {}
    /\ Flushed
    /\ AbortScbs(devices, posted \cup TagsOf(devices))
    /\ posted' = {}
    /\ IF SELBUSB = (devices = ChannelB)
       THEN Restart
       ELSE /\ resets < ResetsPerFetch
            /\ resets' = resets + 1
            /\ UNCHANGED <<seq, ARG_1, slot, SELBUSB>>
-----------------------------------------------------------------------------
Sequencer == \/ TestQueue \/ DmaScb \/ DmaScbNext \/ TakeQinscb \/ AbortQinscb
             \/ \E t \in Tags : Select(t) \/ Complete(t)

Recovery == \/ \E t \in Tags : \/ CheckCondition(t) \/ AutosenseFailed(t)
                               \/ BadStatus(t) \/ DataOverrun(t)
                               \/ BusFree(t) \/ NegotiationRejected(t)
                               \/ SelectionTimeout(t)
            \/ \E devices \in Channels : ResetChannel(devices)

Next == \/ Sequencer
        \/ DeliverQoff
        \/ \E r \in Reqs : StartIo(r)
        \/ \E t \in Tags : AhcDone(t)
        \/ Recovery

\* The sequencer runs, the bus delivers posted writes, and a selection ends:
\* with the target, or with SELTO.
Fairness ==
    /\ WF_vars(TestQueue) /\ WF_vars(DmaScb) /\ WF_vars(DmaScbNext)
    /\ WF_vars(TakeQinscb \/ AbortQinscb)
    /\ WF_vars(DeliverQoff)
    /\ \A t \in Tags : WF_vars(Select(t))

Spec     == Init /\ [][Next]_vars
FairSpec == Spec /\ Fairness
-----------------------------------------------------------------------------
(* Properties. *)

\* The list the card follows is the driver's ring and ends in the reserved
\* hardware SCB, through every search, swap and requeue.
ListMatchesRing ==
    LET list == Append(Queue, hscb[next_queued_scb])
    IN /\ NEXT_QUEUED_SCB = list[1]
       /\ \A i \in DOMAIN Queue : mem[list[i]].next = list[i + 1]

\* The exchange loses no hardware SCB, and a tag finds its SCB exactly while
\* that has a command: never the SCB that has given the hardware SCB away.
TagsFindTheirScb ==
    /\ \A s, u \in Scbs : hscb[s] = hscb[u] => s = u
    /\ \A t \in Tags, s \in Scbs :
          scbindex[t] = s <=> hscb[s] = t /\ s \in Busy

\* Every command is in one place: queued once, on the card, or completed.
InOnePlace ==
    LET onCard == {t \in Tags : card[t] # None}
    IN /\ Cardinality(QueueTags) = Len(Queue)
       /\ \A t \in Tags : scbindex[t] # None
             <=> t \in QueueTags \cup onCard \cup posted
       /\ QueueTags \cap (onCard \cup posted) = {}
       /\ onCard \cap posted = {}

\* The driver's and the card's views of the queue agree.
QueueConsistent == TypeOK /\ ListMatchesRing /\ TagsFindTheirScb /\ InOnePlace

\* What the card runs under a tag is what the driver has under it: never a
\* command taken back during the DMA, nor half of one and half of another.
NoStaleCommand ==
    \A t \in Tags : card[t] # None =>
        /\ scbindex[t] # None
        /\ card[t].req = command[scbindex[t]].req

\* A device in check condition gets no other command before its REQUEST SENSE,
\* which would destroy the sense data.  Not so a device that leaves the bus at
\* a negotiation: its REQUEST SENSE, queued once more, is then behind whatever
\* the port driver has sent meanwhile.
SenseComesFirst ==
    \A i, j \in DOMAIN Queue :
        i < j /\ mem[Queue[j]].cmd.sense /\ DeviceOf(Queue[j]) \notin Rejecting
            => DeviceOf(Queue[i]) # DeviceOf(Queue[j])

\* Commands start in the order they were queued, each once; whatever goes
\* back belongs to the device in error.
Queued == [i \in DOMAIN Queue |-> mem[Queue[i]].cmd]
Abstract == INSTANCE RequestQueue WITH
    queue <- Queued,
    card  <- {card[t] : t \in Tags} \ {None}
ImplementsRequestQueue == Abstract!Spec

\* What is queued is fetched or taken back.
QueueMoves ==
    \A s \in Scbs : (s \in Busy /\ hscb[s] \in QueueTags)
                        ~> ~(s \in Busy /\ hscb[s] \in QueueTags)
=============================================================================
