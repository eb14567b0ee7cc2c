---------------------------- MODULE AhcNegotiation ----------------------------
(***************************************************************************)
(* Messages between the aic7xxx and one target, and the transfer settings  *)
(* they negotiate.  When a message phase is not for the sequencer alone,   *)
(* the sequencer interrupts the host for every byte (HOST_MSG_LOOP), and   *)
(* ahc_handle_message_phase decides what to send, what the message coming  *)
(* in means, and whether the loop goes on.                                 *)
(*                                                                         *)
(* The handlers are operators from the record of the adapter's state to    *)
(* the record after them.  The target is the environment: it chooses the   *)
(* phases, the messages, and when to free the bus.  It sees to ATN before    *)
(* it ends a connection in an orderly way, as p_mesgin's comment on         *)
(* disconnection counts on.                                                *)
(***************************************************************************)
EXTENDS Naturals, Sequences

CONSTANTS
    Scbs,   \* the SCBs of this target
    WIDE,   \* AHC_WIDE
    MaxErrors, \* bound on the faults of the target and the bus
    None

VARIABLES
    ahc,    \* what the driver and the chip know
    target, \* what the target does
    errors  \* the faults so far

vars == <<ahc, target, errors>>


UNKNOWN == 255   \* AHC_WIDTH_UNKNOWN, AHC_PERIOD_UNKNOWN, AHC_OFFSET_UNKNOWN
Async   == [width |-> 0, period |-> 0, offset |-> 0, ppr_options |-> 0]

\* A tag counts as one byte, and so do the arguments of an extended message.
Length == [SDTR |-> 3, WDTR |-> 3, PPR |-> 3]

\* What a target may send.  A length is that of the whole message.
Messages ==
    [type : {"SDTR"}, length : {Length.SDTR}, offset : {8}]
        \cup [type : {"WDTR"}, length : {Length.WDTR}, width : {1}]
        \cup [type : {"PPR"}, length : {Length.PPR}, width : {1}, offset : {8}]
        \cup [type : {"EXTENDED"}, length : {4}]   \* unknown, or of a bad length
        \cup [type : {"DISCONNECT", "COMMAND_COMPLETE", "MESSAGE_REJECT", "NOP",
                      "OTHER"}, length : {1}]
NoMessage == [type |-> "none", length |-> 0]

\* Only messages that end the connection are ever looked for in the buffer.
BufSize  == 3
Contents == {"other", "TARGET_RESET", "ABORT_TASK"}
NoScb    == [where |-> "free", flags |-> {}, MK_MESSAGE |-> FALSE,
             tagged |-> FALSE, scsioffset |-> 0]

NoSlot   == [MK_MESSAGE |-> FALSE, scsioffset |-> 0]

NoTarget == [phase |-> "BUSFREE", REQ |-> FALSE, error |-> FALSE,
             msg |-> NoMessage, sent |-> 0]

TypeOK ==
    /\ ahc.curr \in [width : {0, UNKNOWN}, period : {0, UNKNOWN},
                     offset : {0, UNKNOWN}, ppr_options : {0}]
    /\ ahc.goal = Async
    /\ ahc.auto_negotiate \in BOOLEAN
    /\ \A s \in Scbs :
          /\ ahc.scb[s].where \in {"free", "queued", "connected", "disconnected"}
          /\ ahc.scb[s].flags \subseteq {"AUTO_NEGOTIATE", "ABORT", "SENSE"}
          /\ ahc.scb[s].MK_MESSAGE \in BOOLEAN /\ ahc.scb[s].tagged \in BOOLEAN
          /\ ahc.scb[s].scsioffset \in {0, UNKNOWN}
          /\ ahc.card[s].MK_MESSAGE \in BOOLEAN
          /\ ahc.card[s].scsioffset \in {0, UNKNOWN}
    /\ ahc.scbptr \in Scbs \cup {None}
    /\ ahc.nexus \in {"free", "identified", "not identified"}
    /\ ahc.ATN \in BOOLEAN /\ ahc.loop \in BOOLEAN
    /\ ahc.MSG_OUT \in {"NOP", "IDENTIFY", "HOST_MSG", "PARITY_ERROR"}
    /\ ahc.msg_type \in {"NONE", "INITIATOR_MSGOUT", "INITIATOR_MSGIN"}
    /\ ahc.msgout_buf \in [0 .. BufSize - 1 -> Contents]
    /\ ahc.msgout_len \in 0 .. 5 /\ ahc.msgout_index \in 0 .. 5
    /\ ahc.msgin_index \in 0 .. 3
    /\ ahc.send_msg_perror \in BOOLEAN
    /\ ahc.RETURN_1 \in {"CONT_MSG_LOOP", "EXIT_MSG_LOOP"}
    /\ target.phase \in {"BUSFREE", "MESGOUT", "MESGIN", "other"}
    /\ target.REQ \in BOOLEAN /\ target.error \in BOOLEAN
    /\ target.msg \in Messages \cup {NoMessage} /\ target.sent \in 0 .. 3

Init ==
    /\ errors = 0
    /\ ahc = [curr |-> Async, goal |-> Async, auto_negotiate |-> FALSE,
              scb |-> [s \in Scbs |-> NoScb],
              card |-> [s \in Scbs |-> NoSlot],
              scbptr |-> None, nexus |-> "free", ATN |-> FALSE, loop |-> FALSE,
              MSG_OUT |-> "NOP", msg_type |-> "NONE",
              msgout_buf |-> [i \in 0 .. BufSize - 1 |-> "other"],
              msgout_len |-> 0, msgout_index |-> 0, msgin_index |-> 0,
              send_msg_perror |-> FALSE, RETURN_1 |-> "CONT_MSG_LOOP",
              panic |-> "none"]
    /\ target = NoTarget
-----------------------------------------------------------------------------
(* Transfer settings.  Nothing in this port sets a goal other than           *)
(* asynchronous narrow transfers, and no function raises one.                *)

Smaller(a, b) == IF a < b THEN a ELSE b

\* A goal without a period means asynchronous: no rate is looked up.
DevlimitedSyncrate(a, period, ppr) ==
    IF a.goal.period = 0 THEN [period |-> 0, ppr_options |-> 0]
    ELSE [period |-> IF period < a.goal.period THEN a.goal.period ELSE period,
          ppr_options |-> Smaller(ppr, a.goal.ppr_options)]

ValidateOffset(a, rate, offset) ==
    IF rate.period = 0 THEN 0 ELSE Smaller(offset, a.goal.offset)

ValidateWidth(a, width) ==
    Smaller(a.goal.width, IF WIDE THEN width ELSE 0)

\* What is known of the target after a request of this type.
Known(a, type) ==
    IF type # "ALWAYS" THEN a.curr
    ELSE [a.curr EXCEPT !.width = IF WIDE THEN UNKNOWN ELSE @,
                        !.period = UNKNOWN, !.offset = UNKNOWN]

\* Negotiate when what is known is not the goal.
UpdateNegRequest(a, type) ==
    LET curr == Known(a, type)
    IN [a EXCEPT !.curr = curr,
                 !.auto_negotiate = \/ curr # a.goal
                                    \/ type = "IF_NON_ASYNC" /\ a.goal # Async]

Settled(a, s) ==
    ~a.auto_negotiate /\ "AUTO_NEGOTIATE" \in a.scb[s].flags

\* The new settings go to every pending SCB, and to its copy on the card.  Bugs
\* would be to leave the copies alone, or only the request to negotiate.
UpdatePendingHscbs(a) ==
    [a EXCEPT !.scb =
        [s \in Scbs |->
            IF a.scb[s].where = "free" THEN a.scb[s]
            ELSE [a.scb[s] EXCEPT
                    !.scsioffset = a.curr.offset,
                    !.flags = IF Settled(a, s) THEN @ \ {"AUTO_NEGOTIATE"} ELSE @,
                    !.MK_MESSAGE = @ /\ ~Settled(a, s)]]]

UpdatePendingScbs(a) ==
    LET b == UpdatePendingHscbs(a)
    IN [b EXCEPT !.card =
           [s \in Scbs |->
               IF b.scb[s].where \notin {"connected", "disconnected"} THEN b.card[s]
               ELSE [MK_MESSAGE |-> b.scb[s].MK_MESSAGE,
                     scsioffset |-> b.scb[s].scsioffset]]]

\* Old settings with some of them replaced.
Taking(settings, old) ==
    [f \in DOMAIN old |-> IF f \in DOMAIN settings THEN settings[f] ELSE old[f]]

\* AHC_TRANS_CUR is always set, AHC_TRANS_GOAL not after a reset.
SetSettings(a, settings, goal) ==
    LET set == UpdateNegRequest(
                   [a EXCEPT !.curr = Taking(settings, @),
                             !.goal = IF goal THEN Taking(settings, @) ELSE @],
                   "TO_GOAL")
    IN IF set.curr # a.curr \/ set.auto_negotiate # a.auto_negotiate
       THEN UpdatePendingScbs(set) ELSE set

SetSyncrate(a, rate, offset, goal) ==
    SetSettings(a, [period |-> rate.period, ppr_options |-> rate.ppr_options,
                    offset |-> IF rate.period = 0 THEN 0 ELSE offset], goal)

SetWidth(a, width, goal) == SetSettings(a, [width |-> width], goal)
-----------------------------------------------------------------------------
(* The message out buffer.                                                   *)

Panic(a, why) == [a EXCEPT !.panic = IF @ = "none" THEN why ELSE @]

\* spi_populate_width_msg and its siblings write nothing and return 0, so a
\* negotiation message is announced but the buffer keeps what it held.
Construct(a, length) == [a EXCEPT !.msgout_len = @ + length]

Put(a, bytes) ==
    [a EXCEPT !.msgout_buf = [i \in 0 .. BufSize - 1 |->
                                 IF i - a.msgout_index \in 0 .. Len(bytes) - 1
                                 THEN bytes[i - a.msgout_index + 1] ELSE @[i]],
              !.msgout_index = @ + Len(bytes), !.msgout_len = @ + Len(bytes)]

Emptied(a)  == [a EXCEPT !.msgout_index = 0, !.msgout_len = 0]
FromTop(a)  == [a EXCEPT !.msgout_index = 0]

\* The target has seen the first byte of this message.
SentMsg(a, message) ==
    \E i \in 0 .. BufSize - 1 :
        i < a.msgout_len /\ i < a.msgout_index /\ a.msgout_buf[i] = message

\* Without anything to change: what the goal has, and without that WDTR or SDTR
\* to make sure of asynchronous transfers.  WDTR comes before SDTR.
BuildTransferMsg(a) ==
    LET rate     == DevlimitedSyncrate(a, a.goal.period, a.goal.ppr_options)
        doppr    == rate.ppr_options # 0
        wide     == a.curr.width # a.goal.width
        sync     == a.curr.offset # a.goal.offset \/ a.curr.period # rate.period
        nothing  == ~wide /\ ~sync /\ ~doppr
        dowide   == IF nothing THEN a.goal.width # 0 \/ (a.goal.offset = 0 /\ WIDE)
                    ELSE wide
        dosync   == IF nothing THEN a.goal.offset # 0 \/ (a.goal.width = 0 /\ ~WIDE)
                    ELSE sync
    IN IF doppr THEN Construct(a, Length.PPR)
       ELSE IF dosync /\ ~dowide THEN Construct(a, Length.SDTR)
       ELSE Construct(a, Length.WDTR)

\* The message an SCB with MK_MESSAGE asked for; the request is then taken back
\* in the SCB and on the card.
SetupInitiatorMsgout(a) ==
    LET s     == a.scbptr
        scb   == a.scb[s]
        ident == IF a.MSG_OUT # "IDENTIFY" THEN Emptied(a)
                 ELSE Put(Emptied(a), IF scb.tagged THEN <<"other", "other">>
                                      ELSE <<"other">>)
        full  == IF "ABORT" \in scb.flags
                 THEN Put(ident, <<"ABORT_TASK">>)
                 ELSE IF "AUTO_NEGOTIATE" \in scb.flags THEN BuildTransferMsg(ident)
                 ELSE Panic(ident, "no waiting message")
    IN [FromTop(full) EXCEPT !.scb[s].MK_MESSAGE = FALSE, !.card[s].MK_MESSAGE = FALSE,
                             !.msg_type = "INITIATOR_MSGOUT"]

\* The index goes with the length: without one nothing reads the other.
ClearMsgState(a) ==
    [Emptied(a) EXCEPT !.msgin_index = 0, !.msg_type = "NONE", !.ATN = FALSE,
                       !.MSG_OUT = "NOP"]
-----------------------------------------------------------------------------
(* Messages coming in.                                                       *)

\* The target refuses tagged commands: this one goes on without a tag, those
\* still in the queue are given back.
RefuseTags(a) ==
    LET s == a.scbptr
        b == [a EXCEPT !.scb[s].tagged = FALSE, !.MSG_OUT = "IDENTIFY", !.ATN = TRUE]
    IN [b EXCEPT !.scb = [t \in Scbs |-> IF b.scb[t].where = "queued"
                                         THEN [NoScb EXCEPT !.scsioffset = b.scb[t].scsioffset]
                                         ELSE b.scb[t]]]

\* A pair: the adapter, and whether there is something to send.
HandleMsgReject(a) ==
    IF SentMsg(a, "EXTENDED_PPR")
    THEN [ahc |-> FromTop(BuildTransferMsg(Emptied([a EXCEPT !.goal.ppr_options = 0]))),
          response |-> TRUE]
    ELSE IF SentMsg(a, "EXTENDED_WDTR")
    THEN LET b == SetWidth(a, 0, TRUE)
         IN IF b.goal.offset = b.curr.offset THEN [ahc |-> b, response |-> FALSE]
            ELSE [ahc |-> FromTop(BuildTransferMsg(Emptied(b))), response |-> TRUE]
    ELSE IF SentMsg(a, "EXTENDED_SDTR")
    THEN [ahc |-> SetSyncrate(a, [period |-> 0, ppr_options |-> 0], 0, TRUE),
          response |-> FALSE]
    ELSE [ahc |-> IF a.scbptr = None \/ a.scb[a.scbptr].where = "free"
                  THEN Panic(a, "no SCB")
                  ELSE IF a.scb[a.scbptr].tagged THEN RefuseTags(a) ELSE a,
          response |-> FALSE]

Rejected(a) ==
    [a EXCEPT !.msgout_index = 0, !.msgout_len = 1, !.msgout_buf[0] = "other"]

\* Our answer to a negotiation the target began.
Reply(a, length) == FromTop(Construct(Emptied(a), length))

HandleSdtr(a, m) ==
    LET rate   == DevlimitedSyncrate(a, 25, 0)
        offset == ValidateOffset(a, rate, m.offset)
        set    == SetSyncrate(a, rate, offset, TRUE)
    IN IF ~SentMsg(a, "EXTENDED_SDTR") THEN Reply(set, Length.SDTR)
       ELSE IF m.offset # offset THEN Rejected(set) ELSE Emptied(set)

\* The settings of synchronous transfers are forgotten, so that they are
\* negotiated again.
HandleWdtr(a, m) ==
    LET width == ValidateWidth(a, m.width)
        ours  == SentMsg(a, "EXTENDED_WDTR")
        over  == ours /\ m.width > width
        set   == SetWidth(UpdateNegRequest(IF ours THEN a ELSE Reply(a, Length.WDTR), "ALWAYS"),
                          IF over THEN 0 ELSE width, TRUE)
    IN IF over THEN Rejected(set)
       ELSE IF ours THEN FromTop(BuildTransferMsg(Emptied(set))) ELSE set

HandlePpr(a, m) ==
    LET width  == ValidateWidth(a, m.width)
        rate   == DevlimitedSyncrate(a, 25, 0)
        offset == ValidateOffset(a, rate, m.offset)
        ours   == SentMsg(a, "EXTENDED_PPR")
        over   == ours /\ (m.width > width \/ m.offset # offset)
        none   == [period |-> 0, ppr_options |-> 0]
        b      == IF ours THEN a ELSE Reply(a, Length.PPR)
        set    == SetSyncrate(SetWidth(b, IF over THEN 0 ELSE width, TRUE),
                              IF over THEN none ELSE rate, IF over THEN 0 ELSE offset, TRUE)
    IN IF over THEN Rejected(set) ELSE IF ours THEN Emptied(set) ELSE set

\* ahc_parse_msg for one more byte of message m.
ParseMsg(a, m) ==
    LET i        == a.msgin_index
        complete == i = m.length - 1
        Done(b)  == [ahc |-> b, done |-> "MSGCOMPLETE"]
        InProg   == [ahc |-> a, done |-> "IN_PROG"]
    IN CASE m.type \in {"DISCONNECT", "COMMAND_COMPLETE"} ->
                [ahc |-> Emptied(a), done |-> "TERMINATED"]
         [] m.type = "NOP" -> Done(Emptied(a))
         [] m.type = "MESSAGE_REJECT" ->
                LET r == HandleMsgReject(a)
                IN Done(IF r.response THEN r.ahc ELSE Emptied(r.ahc))
         [] m.type = "SDTR" -> IF complete THEN Done(HandleSdtr(a, m)) ELSE InProg
         [] m.type = "WDTR" -> IF complete THEN Done(HandleWdtr(a, m)) ELSE InProg
         [] m.type = "PPR"  -> IF complete THEN Done(HandlePpr(a, m)) ELSE InProg
         [] m.type = "EXTENDED" -> IF i = 2 THEN Done(Rejected(a)) ELSE InProg
         [] m.type = "OTHER" -> Done(Rejected(a))
-----------------------------------------------------------------------------
(* The message loop.                                                         *)

Exit(a) == [ClearMsgState(a) EXCEPT !.RETURN_1 = "EXIT_MSG_LOOP"]
Cont(a) == [a EXCEPT !.RETURN_1 = "CONT_MSG_LOOP"]

\* The byte goes out.  ATN falls with the last one; asked for another, the
\* message is sent again. 
SendByte(a) ==
    LET b == IF a.msgout_index = a.msgout_len
             THEN [a EXCEPT !.msgout_index = 0, !.ATN = TRUE] ELSE a
    IN [b EXCEPT !.ATN = @ /\ b.msgout_index # b.msgout_len - 1,
                 !.msgout_index = @ + 1]

InitiatorMsgout(a) ==
    IF a.msgout_len = 0 THEN Panic(a, "no active message")
    ELSE IF a.send_msg_perror THEN Cont([a EXCEPT !.ATN = FALSE])
    ELSE Cont(SendByte(a))

\* Mutated: ATN is forgotten when there is an answer.
MessageDoneQuietly(a) == [a EXCEPT !.msgin_index = 0]

MessageDone(a) == [a EXCEPT !.msgin_index = 0, !.ATN = @ \/ a.msgout_len # 0]

Continued(parsed) ==
    CASE parsed.done = "TERMINATED"  -> Exit(MessageDone(parsed.ahc))
      [] parsed.done = "MSGCOMPLETE" -> Cont(MessageDone(parsed.ahc))
      [] OTHER -> Cont([parsed.ahc EXCEPT !.msgin_index = @ + 1])

InitiatorMsgin(a, m) == Continued(ParseMsg(a, m))

\* ahc_handle_message_phase: the phase decides whether to go on, to change
\* direction, or to end the session.
HandleMessagePhase(a, phase, m) ==
    IF a.msg_type = "INITIATOR_MSGOUT"
    THEN IF phase = "MESGOUT" THEN InitiatorMsgout(a)
         ELSE IF phase # "MESGIN" \/ a.msgout_len = 0
         THEN IF a.msgout_len = 0 THEN Panic(a, "no active message") ELSE Exit(a)
         ELSE InitiatorMsgin([a EXCEPT !.ATN = FALSE, !.send_msg_perror = FALSE,
                                       !.msg_type = "INITIATOR_MSGIN",
                                       !.msgin_index = 0], m)
    ELSE IF phase = "MESGIN" THEN InitiatorMsgin(a, m)
         ELSE IF /\ phase = "MESGOUT"
                 /\ \/ a.send_msg_perror
                    \/ a.msgout_len # 0 /\ a.msgout_index = 0
         THEN InitiatorMsgout([a EXCEPT !.msgin_index = 0,
                                        !.msg_type = "INITIATOR_MSGOUT"])
         ELSE Exit(a)

\* p_mesgout and p_mesgin: which messages the sequencer leaves to the host.
ToHost(phase, m) ==
    \/ /\ phase = "MESGOUT"
       /\ \/ ahc.MSG_OUT = "HOST_MSG"
          \/ ahc.MSG_OUT = "IDENTIFY" /\ ahc.card[ahc.scbptr].MK_MESSAGE
    \/ phase = "MESGIN" /\ m.type \notin {"DISCONNECT", "COMMAND_COMPLETE", "NOP"}

\* The target's next byte: what it has begun it goes on with, what was not taken
\* it still holds, and after a parity error it takes our message first.
Offers(phase, m) ==
    /\ ahc.nexus # "free"
    /\ target.error => phase = "MESGOUT"
    /\ target.REQ => phase = target.phase /\ m = target.msg
    /\ phase # "MESGIN" <=> m = NoMessage
    /\ phase = "MESGIN" /\ target.sent > 0 => m = target.msg

\* The byte, or the whole message, has been acknowledged.
Took(phase) == target' = [NoTarget EXCEPT !.phase = phase]

\* A byte that ends the loop is left for the sequencer.
Answered(after, phase, m) ==
    LET goon == after.RETURN_1 = "CONT_MSG_LOOP"
    IN /\ ahc' = [after EXCEPT !.loop = goon]
       /\ IF goon /\ (phase # "MESGIN" \/ after.msgin_index = 0)
          THEN Took(phase)
          ELSE target' = [NoTarget EXCEPT
                             !.phase = phase, !.REQ = ~goon, !.msg = m,
                             !.sent = IF goon THEN target.sent + 1 ELSE 0]

\* HOST_MSG_LOOP: the first time, the kind of session is decided.
HostMsgLoop(phase, m) ==
    LET begun == IF ahc.msg_type # "NONE" THEN ahc
                 ELSE IF phase # "MESGOUT"
                 THEN [ahc EXCEPT !.msg_type = "INITIATOR_MSGIN", !.msgin_index = 0]
                 ELSE SetupInitiatorMsgout(ahc)
    IN /\ Offers(phase, m)
       /\ ahc.loop \/ ToHost(phase, m)
       /\ Answered(HandleMessagePhase(begun, phase, m), phase, m)
-----------------------------------------------------------------------------
(* Errors.                                                                   *)

\* The SCB pointer only means something while there is a nexus.
Free(a) == [a EXCEPT !.nexus = "free", !.scbptr = None]

\* ahc_restart
Restart(a) == [Free(ClearMsgState(a)) EXCEPT !.loop = FALSE]

\* ahc_abort_scbs and ahc_free_scb
Freed(a, tags) ==
    [a EXCEPT !.scb = [s \in Scbs |-> IF s \in tags
                                      THEN [NoScb EXCEPT !.scsioffset = a.scb[s].scsioffset]
                                      ELSE a.scb[s]],
              !.card = [s \in Scbs |-> IF s \in tags THEN NoSlot ELSE a.card[s]]]

ToAsync(a) ==
    SetSyncrate(SetWidth(a, 0, FALSE), [period |-> 0, ppr_options |-> 0], 0, FALSE)

\* ahc_reset_channel
ChannelReset(a) == Restart(ToAsync(Freed(a, Scbs)))

\* In a data or command phase only a reset of the bus helps.  Otherwise the abort
\* is sent at once without an SCB, and with one the SCB asks for it.
HandleProtoViolation(a, data) ==
    LET b == [a EXCEPT !.ATN = TRUE, !.MSG_OUT = "HOST_MSG"]
    IN IF data THEN ChannelReset(a)
       ELSE IF a.nexus = "identified" THEN [b EXCEPT !.scb[b.scbptr].flags = @ \cup {"ABORT"}]
       ELSE [Put(Emptied(b), <<"ABORT_TASK">>) EXCEPT !.msgout_index = 0,
                                                      !.msg_type = "INITIATOR_MSGOUT"]

NoMatch(a) ==
    [Put(Emptied(a), <<"TARGET_RESET">>) EXCEPT
        !.msgout_index = 0, !.msg_type = "INITIATOR_MSGOUT",
        !.MSG_OUT = "HOST_MSG", !.ATN = TRUE]

GoneFree == target' = NoTarget

\* A bus free nobody asked for, or the one our message asked for.  ABORT_TASK and
\* ABORT_TASK_SET are one value here, so that only the SCB itself is aborted.
HandleBusfree(a) ==
    LET s == a.scbptr
        Unexpected ==
            IF a.nexus # "identified" THEN UpdateNegRequest(a, "IF_NON_ASYNC")
            ELSE UpdateNegRequest(
                     Freed(a, IF a.scb[s].tagged THEN {s} ELSE Scbs), "IF_NON_ASYNC")
    IN IF target.phase # "MESGOUT" THEN Unexpected
       ELSE IF SentMsg(a, "ABORT_TASK")
       THEN IF a.nexus # "identified" THEN Panic(a, "no SCB")
            ELSE Freed(a, {s})
       ELSE IF SentMsg(a, "TARGET_RESET") THEN ToAsync(Freed(a, Scbs))
       ELSE Unexpected

BusFree ==
    /\ ahc.nexus # "free" /\ ~target.REQ
    /\ ahc' = Restart(HandleBusfree(ahc))
    /\ GoneFree

\* A reset of the bus from elsewhere.
ResetChannel == ahc' = ChannelReset(ahc) /\ GoneFree

\* The bus went free before the host could look at the phase.
PuntMessage ==
    /\ ~ahc.loop /\ ahc.msg_type = "NONE"
    /\ \E phase \in {"MESGOUT", "MESGIN"}, m \in Messages \cup {NoMessage} :
          Offers(phase, m) /\ ToHost(phase, m)
    /\ ahc' = Restart(ahc)
    /\ GoneFree

\* SCSIPERR for a message byte: the chip has asserted ATN, and the byte is
\* thrown away.
ParityError ==
    /\ ahc.nexus # "free" /\ ~target.REQ /\ ~target.error
    /\ ahc' = LET b == UpdateNegRequest([ahc EXCEPT !.ATN = TRUE], "IF_NON_ASYNC")
              IN IF b.msg_type # "NONE" THEN [b EXCEPT !.send_msg_perror = TRUE]
                 ELSE [b EXCEPT !.MSG_OUT = "PARITY_ERROR"]
    /\ target' = [NoTarget EXCEPT !.phase = "MESGIN", !.error = TRUE]
-----------------------------------------------------------------------------
(* The sequencer, outside of the loop.                                       *)

Identified(a, s) ==
    [a EXCEPT !.scb[s].where = "connected", !.scbptr = s, !.nexus = "identified"]

StartIo(s) ==
    /\ ahc.scb[s].where = "free"
    /\ ahc' = [ahc EXCEPT !.scb[s].where = "queued", !.scb[s].tagged = TRUE]
    /\ UNCHANGED target

\* The SCB is fetched and its target selected, with ATN.
Select(s) ==
    /\ ahc.nexus = "free" /\ ahc.scb[s].where = "queued"
    /\ ahc' = [Identified(ahc, s) EXCEPT
                   !.card[s] = [MK_MESSAGE |-> ahc.scb[s].MK_MESSAGE,
                                scsioffset |-> ahc.scb[s].scsioffset],
                   !.ATN = TRUE, !.MSG_OUT = "IDENTIFY"]
    /\ target' = [NoTarget EXCEPT !.phase = "other"]

Reselect(s) ==
    /\ ahc.nexus = "free" /\ ahc.scb[s].where = "disconnected"
    /\ ahc' = LET b == Identified(ahc, s)
              IN IF ahc.card[s].MK_MESSAGE
                 THEN [b EXCEPT !.ATN = TRUE, !.MSG_OUT = "HOST_MSG"] ELSE b
    /\ target' = [NoTarget EXCEPT !.phase = "other"]

\* A target that identifies itself with a tag the card does not know, or not at
\* all.  SCBPTR is left where the search for the tag left it.
ReselectUnknown ==
    /\ ahc.nexus = "free"
    /\ \E s \in Scbs \cup {None} :
          LET b == [ahc EXCEPT !.nexus = "not identified", !.scbptr = s]
          IN ahc' = NoMatch(b) \/ ahc' = b
    /\ target' = [NoTarget EXCEPT !.phase = "other"]

\* p_mesgout
Mesgout ==
    /\ ~ahc.loop /\ Offers("MESGOUT", NoMessage)
    /\ ~ToHost("MESGOUT", NoMessage)
    /\ ahc' = [ahc EXCEPT !.ATN = FALSE, !.MSG_OUT = "NOP"]
    /\ Took("MESGOUT")

\* p_mesgin
Mesgin(type) ==
    /\ ~ahc.loop
    /\ Offers("MESGIN", [type |-> type, length |-> 1])

MesginNop == Mesgin("NOP") /\ Took("MESGIN") /\ UNCHANGED ahc

Disconnect ==
    /\ Mesgin("DISCONNECT") /\ ahc.nexus = "identified" /\ ~ahc.ATN
    /\ ahc' = Free([ahc EXCEPT !.scb[ahc.scbptr].where = "disconnected"])
    /\ GoneFree

CommandComplete ==
    /\ Mesgin("COMMAND_COMPLETE") /\ ahc.nexus = "identified" /\ ~ahc.ATN
    /\ ahc' = Free(Freed(ahc, {ahc.scbptr}))
    /\ GoneFree

\* The SCB becomes a REQUEST SENSE, untagged, which also negotiates if there is
\* a need to.
Sensing(scb, negotiate) ==
    [scb EXCEPT !.where = "queued", !.tagged = FALSE,
                !.flags = @ \cup {"SENSE"} \cup
                          (IF negotiate THEN {"AUTO_NEGOTIATE"} ELSE {}),
                !.MK_MESSAGE = negotiate]

\* BAD_STATUS
CheckCondition ==
    /\ Mesgin("COMMAND_COMPLETE") /\ ahc.nexus = "identified" /\ ~ahc.ATN
    /\ "SENSE" \notin ahc.scb[ahc.scbptr].flags
    /\ ahc' = LET s == ahc.scbptr
                  b == UpdateNegRequest(ahc, "IF_NON_ASYNC")
              IN [Free(b) EXCEPT !.card[s] = NoSlot,
                                 !.scb[s] = Sensing(@, b.auto_negotiate)]
    /\ GoneFree

\* Complete without a status, or before the nexus is known.
Violation ==
    /\ \/ Mesgin("COMMAND_COMPLETE")
       \/ Mesgin("DISCONNECT") /\ ahc.nexus # "identified"
    /\ ahc' = HandleProtoViolation(ahc, FALSE)
    /\ Took("MESGIN")

\* A data, command or status phase.  None is allowed before the nexus is known,
\* and no data before the command was sent.
OtherPhase ==
    /\ ~ahc.loop /\ Offers("other", NoMessage)
    /\ \/ ahc.nexus = "identified" /\ Took("other") /\ UNCHANGED ahc
       \/ \E data \in BOOLEAN :
             /\ ahc.nexus = "identified" => data
             /\ ahc' = HandleProtoViolation(ahc, data)
             /\ IF data THEN GoneFree ELSE Took("other")
-----------------------------------------------------------------------------
Fault == errors < MaxErrors /\ errors' = errors + 1

Next ==
    /\ ahc.panic = "none"
    /\ \/ /\ UNCHANGED errors
          /\ \/ BusFree \/ ResetChannel \/ Mesgout \/ MesginNop \/ Disconnect
             \/ CommandComplete \/ CheckCondition \/ OtherPhase
             \/ \E s \in Scbs : StartIo(s) \/ Select(s) \/ Reselect(s)
             \/ \E phase \in {"MESGOUT", "MESGIN", "other"},
                   m \in Messages \cup {NoMessage} : HostMsgLoop(phase, m)
       \/ Fault /\ (ParityError \/ PuntMessage \/ Violation \/ ReselectUnknown)

Spec == Init /\ [][Next]_vars
-----------------------------------------------------------------------------
(* Properties. *)

\* A session that goes out has a message: the sequencer only asks the host for
\* one when the SCB has a reason, whatever was taken back in the meantime.
AlwaysAReason == ahc.panic # "no waiting message"

\* The host is only asked for a byte while it has a message: the panic in
\* ahc_handle_message_phase says so.
ActiveMessage == ahc.panic # "no active message"

\* In a session going out, ATN is only up while there is more to send: it has
\* fallen when the last byte is on the bus, which is how the target knows that
\* the message is over.
AtnEndsTheMessage ==
    ahc.msg_type = "INITIATOR_MSGOUT" /\ ahc.ATN /\ ~ahc.send_msg_perror
        => ahc.msgout_index < ahc.msgout_len

\* While the host holds an answer to the target's message the target is told so.
AnswerIsAnnounced ==
    ahc.msg_type = "INITIATOR_MSGIN" /\ ahc.msgin_index = 0
        /\ ahc.msgout_len # 0 /\ ahc.msgout_index = 0 => ahc.ATN

\* What is not known about the target's settings is going to be negotiated.
DoubtIsRemembered == ahc.curr # ahc.goal => ahc.auto_negotiate
=============================================================================
