----------------------------- MODULE AhdMessages -----------------------------
(***************************************************************************)
(* One connection after another between the aic79xx and a target: the      *)
(* messages, the transfer settings, and what the driver does when the      *)
(* connection goes wrong.  Nothing in this port asks for packetized        *)
(* transfers, so connections are not packetized.                           *)
(*                                                                         *)
(* The driver's handlers are operators from the adapter's state to the     *)
(* state after them.  The target is the environment.  Unlike the aic7xxx,  *)
(* the sequencer takes COMMAND COMPLETE and DISCONNECT while ATN is up.    *)
(***************************************************************************)
EXTENDS Naturals, Sequences

CONSTANTS
    Scbs,      \* the SCBs of this target
    WIDE,      \* AHD_WIDE
    MaxErrors, \* bound on the faults of the target and the bus
    None

VARIABLES
    ahd,    \* what the driver and the chip know
    target, \* what the target does
    errors  \* the faults so far

vars == <<ahd, target, errors>>

UNKNOWN == 255
Async   == [width |-> 0, period |-> 0, offset |-> 0, ppr_options |-> 0]

\* Lengths in the model: a tag and the arguments of a message are one byte.
Length == [SDTR |-> 3, WDTR |-> 3, PPR |-> 3]
Messages ==
    [type : {"SDTR"}, length : {Length.SDTR}, offset : {8}]
        \cup [type : {"WDTR"}, length : {Length.WDTR}, width : {1}]
        \cup [type : {"PPR"}, length : {Length.PPR}, width : {1}, offset : {8}]
        \cup [type : {"EXTENDED"}, length : {4}]
        \cup [type : {"DISCONNECT", "COMMAND_COMPLETE", "MESSAGE_REJECT", "NOP",
                      "QAS_REQUEST", "OTHER"}, length : {1}]
NoMessage == [type |-> "none", length |-> 0]

BufSize  == 3
Contents == {"other", "IDENTIFY", "TARGET_RESET", "ABORT_TASK", "MESSAGE_REJECT"}
NoScb    == [where |-> "free", flags |-> {}, MK_MESSAGE |-> FALSE,
             tagged |-> FALSE]
NoTarget == [bus |-> "free", reselecting |-> FALSE, REQ |-> FALSE,
             error |-> FALSE, msg |-> NoMessage, sent |-> 0]

TypeOK ==
    /\ ahd.curr \in [width : {0, UNKNOWN}, period : {0, UNKNOWN},
                     offset : {0, UNKNOWN}, ppr_options : {0}]
    /\ ahd.goal = Async
    /\ ahd.negtable \in [width : {0, UNKNOWN}, period : {0, UNKNOWN},
                         offset : {0, UNKNOWN}, ppr_options : {0}]
    /\ \A s \in Scbs :
          /\ ahd.scb[s].where \in {"free", "queued", "connected", "disconnected"}
          /\ ahd.scb[s].flags \subseteq {"AUTO_NEGOTIATE", "ABORT", "SENSE"}
          /\ \A b \in {"MK_MESSAGE", "tagged"} : ahd.scb[s][b] \in BOOLEAN
          /\ ahd.card[s] \in BOOLEAN
    /\ ahd.scbptr \in Scbs \cup {None}
    /\ \A b \in {"auto_negotiate", "NOT_IDENTIFIED", "ATN", "loop",
                 "BUS_RESET_ACTIVE"} :
          ahd[b] \in BOOLEAN
    /\ ahd.LASTPHASE \in {"BUSFREE", "MESGOUT", "MESGIN", "other"}
    /\ ahd.MSG_OUT \in {"NOP", "IDENTIFY", "HOST_MSG", "MESSAGE_REJECT"}
    /\ ahd.msg_type \in {"NONE", "INITIATOR_MSGOUT", "INITIATOR_MSGIN"}
    /\ ahd.msg_flags \subseteq {"EXPECT_PPR_BUSFREE", "IU_REQ_CHANGED",
                                "EXPECT_QASREJ_BUSFREE"}
    /\ ahd.msgout_buf \in [0 .. BufSize - 1 -> Contents]
    /\ ahd.msgout_len \in 0 .. 5 /\ ahd.msgout_index \in 0 .. 5
    /\ ahd.msgin_index \in 0 .. 3
    /\ ahd.send_msg_perror \in {"none", "PARITY_ERROR", "INITIATOR_ERROR"}
    /\ ahd.RETURN_1 \in {"CONT_MSG_LOOP", "EXIT_MSG_LOOP"}
    /\ target.bus \in {"free", "busy", "stuck"}
    /\ \A b \in {"reselecting", "REQ", "error"} : target[b] \in BOOLEAN
    /\ target.msg \in Messages \cup {NoMessage} /\ target.sent \in 0 .. 3

Init ==
    /\ errors = 0
    /\ ahd = [curr |-> Async, goal |-> Async, negtable |-> Async,
              auto_negotiate |-> FALSE,
              scb |-> [s \in Scbs |-> NoScb], card |-> [s \in Scbs |-> FALSE],
              scbptr |-> None, NOT_IDENTIFIED |-> FALSE,
              LASTPHASE |-> "BUSFREE", ATN |-> FALSE, loop |-> FALSE,
              MSG_OUT |-> "NOP", msg_type |-> "NONE", msg_flags |-> {},
              msgout_buf |-> [i \in 0 .. BufSize - 1 |-> "other"],
              msgout_len |-> 0, msgout_index |-> 0, msgin_index |-> 0,
              send_msg_perror |-> "none", RETURN_1 |-> "CONT_MSG_LOOP",
              BUS_RESET_ACTIVE |-> FALSE, panic |-> "none"]
    /\ target = NoTarget
-----------------------------------------------------------------------------
(* Transfer settings.                                                        *)

Smaller(a, b) == IF a < b THEN a ELSE b

\* A goal without a period means asynchronous: no rate is looked up.
DevlimitedSyncrate(a, period, ppr) ==
    IF a.goal.period = 0 THEN [period |-> 0, ppr_options |-> 0]
    ELSE [period |-> IF period < a.goal.period THEN a.goal.period ELSE period,
          ppr_options |-> Smaller(ppr, a.goal.ppr_options)]

ValidateOffset(a, rate, offset) ==
    IF rate.period = 0 THEN 0 ELSE Smaller(offset, a.goal.offset)

ValidateWidth(a, width) == Smaller(a.goal.width, IF WIDE THEN width ELSE 0)

\* Negotiate when what is known is not the goal.  A bug would be to look at the
\* width alone.
UpdateNegRequestWidth(a, type) ==
    LET curr == IF type # "ALWAYS" THEN a.curr
                ELSE [a.curr EXCEPT !.width = IF WIDE THEN UNKNOWN ELSE @,
                                    !.period = UNKNOWN, !.offset = UNKNOWN]
    IN [a EXCEPT !.curr = curr,
                 !.auto_negotiate = \/ curr.width # a.goal.width
                                    \/ type = "IF_NON_ASYNC" /\ a.goal # Async]

UpdateNegRequest(a, type) ==
    LET curr == IF type # "ALWAYS" THEN a.curr
                ELSE [a.curr EXCEPT !.width = IF WIDE THEN UNKNOWN ELSE @,
                                    !.period = UNKNOWN, !.offset = UNKNOWN]
    IN [a EXCEPT !.curr = curr,
                 !.auto_negotiate = \/ curr # a.goal
                                    \/ type = "IF_NON_ASYNC" /\ a.goal # Async]

\* Negotiation is over for an SCB that was to do it.  A bug would be to change
\* only the host's copy of the SCB.
Settled(a, s) ==
    /\ a.scb[s].where # "free" /\ ~a.auto_negotiate
    /\ "AUTO_NEGOTIATE" \in a.scb[s].flags

UpdatePendingHscbs(a) ==
    [a EXCEPT !.scb = [s \in Scbs |->
        IF ~Settled(a, s) THEN a.scb[s]
        ELSE [a.scb[s] EXCEPT !.flags = @ \ {"AUTO_NEGOTIATE"},
                              !.MK_MESSAGE = FALSE]]]

\* The copies on the card follow: what matters there is MK_MESSAGE.
UpdatePendingScbs(a) ==
    LET b == UpdatePendingHscbs(a)
    IN [b EXCEPT !.card = [s \in Scbs |-> IF b.scb[s].where = "free" THEN b.card[s]
                                          ELSE b.scb[s].MK_MESSAGE]]

\* What the chip transfers with, taken as it is.
UpdateNegTable(a) == [a EXCEPT !.negtable = a.curr]

\* Old settings with some of them replaced.
Taking(settings, old) ==
    [f \in DOMAIN old |-> IF f \in DOMAIN settings THEN settings[f] ELSE old[f]]

\* AHD_TRANS_CUR is always set, AHD_TRANS_GOAL not after a reset.  With
\* AHD_TRANS_GOAL goes AHD_TRANS_ACTIVE, but for a bus free.
SetSettings(a, settings, type) ==
    LET goal == [a EXCEPT !.goal = IF "GOAL" \in type THEN Taking(settings, @) ELSE @]
        curr == Taking(settings, a.curr)
        set  == UpdateNegRequest(IF curr = a.curr THEN goal
                                 ELSE UpdateNegTable([goal EXCEPT !.curr = curr]),
                                 "TO_GOAL")
    IN IF /\ "ACTIVE" \in type
          /\ \/ set.curr # a.curr
             \/ set.auto_negotiate # a.auto_negotiate
       THEN UpdatePendingScbs(set) ELSE set

SetSyncrate(a, rate, offset, type) ==
    LET none == rate.period = 0 \/ offset = 0
    IN SetSettings(a, [period      |-> IF none THEN 0 ELSE rate.period,
                       offset      |-> IF none THEN 0 ELSE offset,
                       ppr_options |-> rate.ppr_options], type)

SetWidth(a, width, type) == SetSettings(a, [width |-> width], type)

NoRate == [period |-> 0, ppr_options |-> 0]
-----------------------------------------------------------------------------
(* The message out buffer.                                                   *)

Panic(a, why) == [a EXCEPT !.panic = IF @ = "none" THEN why ELSE @]

\* ahd_lookup_scb(ahd_get_scbptr()): SCBPTR keeps its value between connections.
Lookup(a) ==
    IF a.scbptr = None \/ a.scb[a.scbptr].where = "free" THEN None ELSE a.scbptr

\* spi_populate_width_msg and its siblings write nothing and return 0: a
\* negotiation message is announced, and the buffer keeps what it held.
Construct(a, length) == [a EXCEPT !.msgout_len = @ + length]

Put(a, bytes) ==
    [a EXCEPT !.msgout_buf = [i \in 0 .. BufSize - 1 |->
                                 IF i - a.msgout_index \in 0 .. Len(bytes) - 1
                                 THEN bytes[i - a.msgout_index + 1] ELSE @[i]],
              !.msgout_index = @ + Len(bytes), !.msgout_len = @ + Len(bytes)]

Emptied(a) == [a EXCEPT !.msgout_index = 0, !.msgout_len = 0]
FromTop(a) == [a EXCEPT !.msgout_index = 0]
Alone(a, message) == FromTop(Put(Emptied(a), <<message>>))

\* The target has seen this message.
SentMsg(a, message) ==
    \E i \in 0 .. BufSize - 1 :
        i < a.msgout_len /\ i < a.msgout_index /\ a.msgout_buf[i] = message

BuildTransferMsg(a) ==
    LET rate    == DevlimitedSyncrate(a, a.goal.period, a.goal.ppr_options)
        doppr   == rate.ppr_options # 0
        wide    == a.curr.width # a.goal.width
        sync    == a.curr.offset # a.goal.offset \/ a.curr.period # rate.period
        nothing == ~wide /\ ~sync /\ ~doppr
        dowide  == IF nothing THEN a.goal.width # 0 \/ (a.goal.offset = 0 /\ WIDE)
                   ELSE wide
        dosync  == IF nothing THEN a.goal.offset # 0 \/ (a.goal.width = 0 /\ ~WIDE)
                   ELSE sync
    IN Construct(a, IF doppr THEN Length.PPR
                    ELSE IF dosync /\ ~dowide THEN Length.SDTR ELSE Length.WDTR)

\* The messages of an SCB with MK_MESSAGE, which is then taken back in the SCB and
\* on the card.  A report of an error goes first, and without an SCB there is a
\* NOP; both leave the index behind the message.
SetupInitiatorMsgout(a) ==
    LET s     == Lookup(a)
        begun == [Emptied(a) EXCEPT !.msg_type = "INITIATOR_MSGOUT"]
        ident == IF a.MSG_OUT # "IDENTIFY" THEN begun
                 ELSE Put(begun, IF a.scb[s].tagged THEN <<"IDENTIFY", "other">>
                                 ELSE <<"IDENTIFY">>)
        full  == IF "ABORT" \in a.scb[s].flags THEN Put(ident, <<"ABORT_TASK">>)
                 ELSE IF "AUTO_NEGOTIATE" \in a.scb[s].flags THEN BuildTransferMsg(ident)
                 ELSE Panic(ident, "no waiting message")
    IN IF a.send_msg_perror # "none" /\ a.MSG_OUT = "HOST_MSG"
       THEN Put(begun, <<"other">>)
       ELSE IF s = None THEN Put(begun, <<"other">>)
       ELSE [FromTop(full) EXCEPT !.scb[s].MK_MESSAGE = FALSE, !.card[s] = FALSE]

\* The index goes with the length: without one nothing reads the other.  The
\* aic7xxx has the bug of keeping the report of an error.
ClearMsgStateAhc(a) ==
    [Emptied(a) EXCEPT !.msg_flags = {}, !.msgin_index = 0, !.msg_type = "NONE",
                       !.ATN = FALSE, !.MSG_OUT = "NOP"]

ClearMsgState(a) ==
    [Emptied(a) EXCEPT !.send_msg_perror = "none", !.msg_flags = {},
                       !.msgin_index = 0, !.msg_type = "NONE", !.ATN = FALSE,
                       !.MSG_OUT = "NOP"]
-----------------------------------------------------------------------------
(* Messages coming in.                                                       *)

Freed(a, tags) ==
    [a EXCEPT !.scb  = [s \in Scbs |-> IF s \in tags THEN NoScb ELSE a.scb[s]],
              !.card = [s \in Scbs |-> a.card[s] /\ s \notin tags]]

\* The target refuses tagged commands: this one goes on without a tag, those
\* still in the queue are given back.
RefuseTags(a) ==
    Freed([a EXCEPT !.scb[a.scbptr].tagged = FALSE, !.MSG_OUT = "IDENTIFY",
                    !.ATN = TRUE],
          {t \in Scbs : a.scb[t].where = "queued"})

ForceRenegotiation(a) == UpdateNegRequest(a, "IF_NON_ASYNC")

\* A pair: the adapter, and whether there is something to send.
HandleMsgReject(a) ==
    LET Again(b) == [ahd |-> FromTop(BuildTransferMsg(Emptied(b))), response |-> TRUE]
        Quiet(b) == [ahd |-> b, response |-> FALSE]
        narrow   == SetWidth(a, 0, {"GOAL", "ACTIVE"})
    IN IF SentMsg(a, "EXTENDED_PPR") THEN Again([a EXCEPT !.goal.ppr_options = 0])
       ELSE IF SentMsg(a, "EXTENDED_WDTR")
       THEN IF narrow.goal.offset # narrow.curr.offset THEN Again(narrow)
            ELSE Quiet(narrow)
       ELSE IF SentMsg(a, "EXTENDED_SDTR")
       THEN Quiet(SetSyncrate(a, NoRate, 0, {"GOAL", "ACTIVE"}))
       ELSE IF Lookup(a) = None THEN Quiet(Panic(a, "no SCB"))
       ELSE IF a.scb[a.scbptr].tagged THEN Quiet(RefuseTags(a))
       ELSE IF SentMsg(a, "IDENTIFY")
       THEN Again(ForceRenegotiation(
                [a EXCEPT !.msg_flags = @ \cup {"EXPECT_PPR_BUSFREE", "IU_REQ_CHANGED"}]))
       ELSE Quiet(a)

Rejected(a) ==
    [a EXCEPT !.msgout_index = 0, !.msgout_len = 1, !.msgout_buf[0] = "MESSAGE_REJECT"]

Reply(a, length) == FromTop(Construct(Emptied(a), length))

HandleSdtr(a, m) ==
    LET rate   == DevlimitedSyncrate(a, 25, 0)
        offset == ValidateOffset(a, rate, m.offset)
        set    == SetSyncrate(a, rate, offset, {"GOAL", "ACTIVE"})
    IN IF ~SentMsg(a, "EXTENDED_SDTR") THEN Reply(set, Length.SDTR)
       ELSE IF m.offset # offset THEN Rejected(set) ELSE Emptied(set)

\* The settings of synchronous transfers are forgotten, so that they are
\* negotiated again.
HandleWdtr(a, m) ==
    LET width == ValidateWidth(a, m.width)
        ours  == SentMsg(a, "EXTENDED_WDTR")
        over  == ours /\ m.width > width
        set   == SetWidth(UpdateNegRequest(IF ours THEN a ELSE Reply(a, Length.WDTR), "ALWAYS"),
                          IF over THEN 0 ELSE width, {"GOAL", "ACTIVE"})
    IN IF over THEN Rejected(set)
       ELSE IF ours THEN FromTop(BuildTransferMsg(Emptied(set))) ELSE set

HandlePpr(a, m) ==
    LET width  == ValidateWidth(a, m.width)
        rate   == DevlimitedSyncrate(a, 25, 0)
        offset == ValidateOffset(a, rate, m.offset)
        ours   == SentMsg(a, "EXTENDED_PPR")
        over   == ours /\ (m.width > width \/ m.offset # offset)
        b      == IF ours THEN a ELSE Reply(a, Length.PPR)
        set    == SetSyncrate(SetWidth(b, IF over THEN 0 ELSE width, {"GOAL", "ACTIVE"}),
                              IF over THEN NoRate ELSE rate, IF over THEN 0 ELSE offset,
                              {"GOAL", "ACTIVE"})
    IN IF over THEN Rejected(set) ELSE IF ours THEN Emptied(set) ELSE set

\* ahd_parse_msg for one more byte of message m.
ParseMsg(a, m) ==
    LET complete  == a.msgin_index = m.length - 1
        Done(b)   == [ahd |-> b, done |-> "MSGCOMPLETE"]
        Whole(b)  == IF complete THEN Done(b) ELSE [ahd |-> a, done |-> "IN_PROG"]
        r         == HandleMsgReject(a)
    IN CASE m.type \in {"DISCONNECT", "COMMAND_COMPLETE"} ->
                [ahd |-> Emptied(a), done |-> "TERMINATED"]
         [] m.type = "NOP"            -> Done(Emptied(a))
         [] m.type = "MESSAGE_REJECT" -> Done(IF r.response THEN r.ahd ELSE Emptied(r.ahd))
         [] m.type = "SDTR"           -> Whole(HandleSdtr(a, m))
         [] m.type = "WDTR"           -> Whole(HandleWdtr(a, m))
         [] m.type = "PPR"            -> Whole(HandlePpr(a, m))
         [] m.type = "EXTENDED"       -> IF a.msgin_index = 2 THEN Done(Rejected(a))
                                         ELSE [ahd |-> a, done |-> "IN_PROG"]
         [] m.type = "QAS_REQUEST"    ->
                Done(Rejected([a EXCEPT !.msg_flags = @ \cup {"EXPECT_QASREJ_BUSFREE"}]))
         [] OTHER                     -> Done(Rejected(a))
-----------------------------------------------------------------------------
(* The message loop.                                                         *)

Exit(a) == [ClearMsgState(a) EXCEPT !.RETURN_1 = "EXIT_MSG_LOOP"]
Cont(a) == [a EXCEPT !.RETURN_1 = "CONT_MSG_LOOP"]

\* The byte goes out, the last one without ATN; asked for another, the message is
\* sent again.  A bug would be to keep ATN up.
SendByteHolding(a) ==
    LET b == IF a.msgout_index = a.msgout_len
             THEN [a EXCEPT !.msgout_index = 0, !.ATN = TRUE] ELSE a
    IN [b EXCEPT !.msgout_index = @ + 1]

SendByte(a) ==
    LET b == IF a.msgout_index = a.msgout_len
             THEN [a EXCEPT !.msgout_index = 0, !.ATN = TRUE] ELSE a
    IN [b EXCEPT !.ATN = @ /\ b.msgout_index # b.msgout_len - 1,
                 !.msgout_index = @ + 1]

\* A report of an error needs no message.  The aic7xxx has the bug of asking for
\* one all the same.
NothingToSend(a) == a.msgout_len = 0 /\ a.send_msg_perror = "none"

InitiatorMsgout(a) ==
    IF NothingToSend(a) THEN Panic(a, "no active message")
    ELSE IF a.send_msg_perror # "none" THEN Cont([a EXCEPT !.ATN = FALSE])
    ELSE Cont(SendByte(a))

MessageDone(a) == [a EXCEPT !.msgin_index = 0, !.ATN = @ \/ a.msgout_len # 0]

Continued(parsed) ==
    CASE parsed.done = "TERMINATED"  -> Exit(MessageDone(parsed.ahd))
      [] parsed.done = "MSGCOMPLETE" -> Cont(MessageDone(parsed.ahd))
      [] OTHER -> Cont([parsed.ahd EXCEPT !.msgin_index = @ + 1])

InitiatorMsgin(a, m) == Continued(ParseMsg(a, m))

HandleMessagePhase(a, m) ==
    IF a.msg_type = "INITIATOR_MSGOUT"
    THEN IF NothingToSend(a) THEN Panic(a, "no active message")
         ELSE IF a.LASTPHASE = "MESGOUT" THEN InitiatorMsgout(a)
         ELSE IF a.LASTPHASE # "MESGIN" THEN Exit(a)
         ELSE InitiatorMsgin([a EXCEPT !.ATN = FALSE, !.send_msg_perror = "none",
                                       !.msg_type = "INITIATOR_MSGIN",
                                       !.msgin_index = 0], m)
    ELSE IF a.LASTPHASE = "MESGIN" THEN InitiatorMsgin(a, m)
         ELSE IF /\ a.LASTPHASE = "MESGOUT"
                 /\ \/ a.send_msg_perror # "none"
                    \/ a.msgout_len # 0 /\ a.msgout_index = 0
         THEN InitiatorMsgout([a EXCEPT !.msgin_index = 0,
                                        !.msg_type = "INITIATOR_MSGOUT"])
         ELSE Exit(a)

\* p_mesgout and p_mesgin: which messages the sequencer leaves to the host.
ToHost(phase, m) ==
    \/ /\ phase = "MESGOUT"
       /\ \/ ahd.MSG_OUT = "HOST_MSG"
          \/ ahd.MSG_OUT = "IDENTIFY" /\ ahd.scbptr # None /\ ahd.card[ahd.scbptr]
    \/ phase = "MESGIN" /\ m.type \notin {"DISCONNECT", "COMMAND_COMPLETE", "NOP"}

\* The target's next byte: what it has begun it goes on with, what was not taken
\* it still holds, after a parity error it takes our message first, and it says
\* who it is before anything else.
Offers(phase, m) ==
    /\ target.bus = "busy" /\ ~target.reselecting
    /\ target.error => phase = "MESGOUT"
    /\ target.REQ => phase = ahd.LASTPHASE /\ m = target.msg
    /\ phase # "MESGIN" <=> m = NoMessage
    /\ phase = "MESGIN" /\ target.sent > 0 => m = target.msg

Busy == [NoTarget EXCEPT !.bus = "busy"]

\* A byte that ends the loop is left for the sequencer.
Answered(after, phase, m) ==
    LET goon == after.RETURN_1 = "CONT_MSG_LOOP"
    IN /\ ahd' = [after EXCEPT !.loop = goon, !.RETURN_1 = "CONT_MSG_LOOP"]
       /\ IF goon /\ (phase # "MESGIN" \/ after.msgin_index = 0) THEN target' = Busy
          ELSE target' = [Busy EXCEPT !.REQ = ~goon, !.msg = m,
                                      !.sent = IF goon THEN target.sent + 1 ELSE 0]

\* The first time, the kind of session is decided.
HostMsgLoop(phase, m) ==
    LET locked == [ahd EXCEPT !.LASTPHASE = phase]
        begun  == IF ahd.msg_type # "NONE" THEN locked
                  ELSE IF phase # "MESGOUT"
                  THEN [locked EXCEPT !.msg_type = "INITIATOR_MSGIN", !.msgin_index = 0]
                  ELSE SetupInitiatorMsgout(locked)
    IN /\ Offers(phase, m)
       /\ ahd.loop \/ ToHost(phase, m)
       /\ Answered(HandleMessagePhase(begun, m), phase, m)
-----------------------------------------------------------------------------
(* Errors.                                                                   *)

\* The sequencer starts again as if it had seen an identify message: SEQ_FLAGS
\* is 0, and SCBPTR stays.
Restart(a) ==
    [ClearMsgState(a) EXCEPT !.loop = FALSE, !.LASTPHASE = "BUSFREE",
                             !.NOT_IDENTIFIED = FALSE]

ToAsync(a) == SetSyncrate(SetWidth(a, 0, {}), NoRate, 0, {})

HandleDevreset(a) == ToAsync(Freed(a, Scbs))

\* A reset that no SCSI interrupt has followed yet keeps others from being done.
ResetChannel(a) ==
    IF a.BUS_RESET_ACTIVE THEN a
    ELSE [Restart(ToAsync(Freed(a, Scbs))) EXCEPT !.BUS_RESET_ACTIVE = TRUE]

Identified(a) == IF a.NOT_IDENTIFIED THEN None ELSE Lookup(a)

Requeued(a) ==
    IF Identified(a) = None THEN a
    ELSE [a EXCEPT !.scb[Identified(a)].where = "queued", !.card[Identified(a)] = FALSE]

\* The SCB, or without tags all SCBs of the target.
Nexus(a, s) == IF a.scb[s].tagged THEN {s} ELSE Scbs

Unexpected(a) ==
    LET b == IF Identified(a) = None THEN a ELSE Freed(a, Nexus(a, Identified(a)))
    IN IF a.LASTPHASE = "BUSFREE" THEN b ELSE ForceRenegotiation(b)

\* A bus free our message asked for, or nobody did.
HandleNonpktBusfree(a) ==
    LET s      == Identified(a)
        pprout == "EXPECT_PPR_BUSFREE" \in a.msg_flags
        Sent(message) == a.LASTPHASE = "MESGOUT" /\ SentMsg(a, message)
        asked  == \/ Sent("MESSAGE_REJECT") /\ "EXPECT_QASREJ_BUSFREE" \in a.msg_flags
    IN IF Sent("ABORT_TASK") THEN IF s = None THEN a ELSE Freed(a, {s})
       ELSE IF Sent("TARGET_RESET") THEN HandleDevreset(a)
       ELSE IF Sent("EXTENDED_PPR") /\ ~pprout
       THEN Requeued([a EXCEPT !.goal.ppr_options = 0])
       ELSE IF Sent("EXTENDED_WDTR") /\ ~pprout
       THEN Requeued(SetWidth(a, 0, {"GOAL"}))
       ELSE IF Sent("EXTENDED_SDTR") /\ ~pprout
       THEN Requeued(SetSyncrate(a, NoRate, 0, {"GOAL"}))
       ELSE IF asked THEN a
       ELSE IF s # None /\ pprout /\ a.LASTPHASE \in {"MESGIN", "MESGOUT"}
       THEN Freed(a, IF "IU_REQ_CHANGED" \in a.msg_flags THEN Scbs ELSE {s})
       ELSE Unexpected(a)

\* Before the first phase a bus free counts as one of a packetized connection:
\* no SCB is looked at.
HandleBusfree(a) == IF a.LASTPHASE = "BUSFREE" THEN a ELSE HandleNonpktBusfree(a)

Interrupted == [ahd EXCEPT !.BUS_RESET_ACTIVE = FALSE]

BusFree ==
    /\ target.bus = "busy" /\ ~target.REQ
    /\ ahd' = Restart(HandleBusfree(Interrupted))
    /\ target' = NoTarget

\* Parity of a byte coming in: the chip has asserted ATN.  A bug would be to leave
\* it to the message loop to ask for the report.
HandleTransmissionErrorQuietly(phase) ==
    /\ target.bus = "busy" /\ ~target.REQ /\ ~target.error /\ ~target.reselecting
    /\ ahd' = [Interrupted EXCEPT !.ATN = TRUE, !.LASTPHASE = phase,
                                  !.send_msg_perror = "INITIATOR_ERROR"]
    /\ target' = [Busy EXCEPT !.error = TRUE]

HandleTransmissionError(phase) ==
    /\ target.bus = "busy" /\ ~target.REQ /\ ~target.error /\ ~target.reselecting
    /\ \E error \in {"PARITY_ERROR", "INITIATOR_ERROR"} :
          /\ error = "PARITY_ERROR" => phase = "MESGIN"
          /\ ahd' = [Interrupted EXCEPT !.ATN = TRUE, !.LASTPHASE = phase,
                                        !.send_msg_perror = error, !.MSG_OUT = "HOST_MSG"]
    /\ target' = [Busy EXCEPT !.error = TRUE]

\* No target answers.
SelectionTimeout(s) ==
    /\ target.bus = "free" /\ ahd.scb[s].where = "queued"
    /\ ahd' = HandleDevreset(ClearMsgState(Interrupted))
    /\ UNCHANGED target

\* A bus reset that is not ours: one that may be the echo of ours is ignored.
ScsiReset ==
    /\ ahd' = IF ahd.BUS_RESET_ACTIVE THEN ahd ELSE ResetChannel(ahd)
    /\ target' = NoTarget

\* Aic79xx_HwResetBus
HwResetBus ==
    /\ ahd' = ResetChannel(ahd)
    /\ target' = IF ahd.BUS_RESET_ACTIVE THEN target ELSE NoTarget

AbortMessage(a, message) ==
    [Alone(a, message) EXCEPT !.msg_type = "INITIATOR_MSGOUT"]

\* For an SCB the abort waits until the message is asked for, otherwise it is
\* ready at once.  In a command or data phase only a reset helps.
HandleProtoViolation(a, data) ==
    LET s == Identified(a)
        b == [a EXCEPT !.ATN = TRUE, !.MSG_OUT = "HOST_MSG"]
    IN IF data \/ (~a.NOT_IDENTIFIED /\ s = None) THEN ResetChannel(a)
       ELSE IF s = None THEN AbortMessage(b, "ABORT_TASK")
       ELSE [b EXCEPT !.scb[s].flags = @ \cup {"ABORT"}]

NoMatch(a) ==
    AbortMessage([a EXCEPT !.ATN = TRUE, !.MSG_OUT = "HOST_MSG"], "TARGET_RESET")

\* A connection a reset may have ended.
StillThere == target' = IF ahd.BUS_RESET_ACTIVE' /\ ~ahd.BUS_RESET_ACTIVE THEN NoTarget
                        ELSE Busy

\* The bus went free before the host could look at the phase.
PuntMessage(phase) ==
    /\ ~ahd.loop /\ ahd.msg_type = "NONE" /\ target.bus = "busy"
    /\ phase = "MESGOUT" => ToHost("MESGOUT", NoMessage)
    /\ ahd' = Restart([ahd EXCEPT !.LASTPHASE = phase])
    /\ target' = NoTarget
-----------------------------------------------------------------------------
(* The sequencer, outside of the loop.                                       *)

StartIo(s) ==
    /\ ahd.scb[s].where = "free"
    /\ ahd' = [ahd EXCEPT !.scb[s].where = "queued", !.scb[s].tagged = TRUE]
    /\ UNCHANGED target

\* select_out, not packetized
Select(s) ==
    /\ target.bus = "free" /\ ahd.scb[s].where = "queued"
    /\ ahd' = [ahd EXCEPT !.scb[s].where = "connected", !.card[s] = ahd.scb[s].MK_MESSAGE,
                          !.scbptr = s, !.NOT_IDENTIFIED = FALSE, !.ATN = TRUE,
                          !.MSG_OUT = "IDENTIFY"]
    /\ target' = Busy

\* select_in: SEQ_FLAGS is left as it was.
SelectIn ==
    /\ target.bus = "free"
    /\ target' = [Busy EXCEPT !.reselecting = TRUE]
    /\ UNCHANGED ahd

\* mesgin_identify for an SCB that is disconnected; its host may want to send a
\* message.
MesginIdentify(s) ==
    /\ target.reselecting /\ ahd.scb[s].where = "disconnected"
    /\ ahd' = [ahd EXCEPT !.scb[s].where = "connected", !.scbptr = s,
                          !.NOT_IDENTIFIED = FALSE, !.LASTPHASE = "MESGIN",
                          !.ATN = @ \/ ahd.card[s],
                          !.MSG_OUT = IF ahd.card[s] THEN "HOST_MSG" ELSE @]
    /\ target' = Busy

\* While the tag is looked for SCBPTR is not that of the connection.
Snoop ==
    \E s \in Scbs \cup {None} : ahd' = [ahd EXCEPT !.scbptr = s, !.LASTPHASE = "MESGIN"]

SnoopTag == target.reselecting /\ ahd.LASTPHASE = "BUSFREE" /\ Snoop /\ UNCHANGED target

NotFound ==
    /\ target.reselecting
    /\ \E s \in Scbs \cup {None} :
          ahd' = NoMatch([ahd EXCEPT !.scbptr = s, !.LASTPHASE = "MESGIN"])
    /\ target' = Busy

\* A target that does not say who it is.
NoIdentify ==
    /\ target.reselecting
    /\ target' = Busy
    /\ UNCHANGED ahd

Locked(phase) == [ahd EXCEPT !.LASTPHASE = phase]

\* p_mesgout
Mesgout ==
    /\ ~ahd.loop /\ Offers("MESGOUT", NoMessage)
    /\ ~ToHost("MESGOUT", NoMessage)
    /\ ahd' = [Locked("MESGOUT") EXCEPT !.ATN = FALSE, !.MSG_OUT = "NOP"]
    /\ target' = Busy

\* p_mesgin
Mesgin(type) ==
    /\ ~ahd.loop
    /\ Offers("MESGIN", [type |-> type, length |-> 1])

MesginNop == Mesgin("NOP") /\ target' = Busy /\ ahd' = Locked("MESGIN")

\* mesgin_ign_wide_residue: transfers are not wide.
MesginReject ==
    /\ Mesgin("NOP") /\ ~target.REQ
    /\ ahd' = [Locked("MESGIN") EXCEPT !.ATN = TRUE, !.MSG_OUT = "MESSAGE_REJECT"]
    /\ target' = Busy

\* await_busfree: ATN is not looked at.  A target that goes on because of it is
\* not seen any more.
AwaitBusfree(a) ==
    LET b == [a EXCEPT !.NOT_IDENTIFIED = TRUE, !.LASTPHASE = "BUSFREE", !.ATN = FALSE]
    IN \/ ahd' = b /\ target' = NoTarget
       \/ ahd.ATN /\ ahd' = Restart(b) /\ target' = [NoTarget EXCEPT !.bus = "stuck"]

Disconnect ==
    /\ Mesgin("DISCONNECT") /\ Identified(ahd) # None
    /\ AwaitBusfree([ahd EXCEPT !.scb[ahd.scbptr].where = "disconnected"])

CommandComplete ==
    /\ Mesgin("COMMAND_COMPLETE") /\ Identified(ahd) # None
    /\ AwaitBusfree(Freed(ahd, {ahd.scbptr}))

\* The SCB becomes a REQUEST SENSE, untagged, which also negotiates if there is
\* a need to.
Sensing(scb, negotiate) ==
    [scb EXCEPT !.where = "queued", !.tagged = FALSE, !.MK_MESSAGE = negotiate,
                !.flags = (IF negotiate THEN (@ \ {"ABORT"}) \cup {"AUTO_NEGOTIATE"}
                           ELSE @) \cup {"SENSE"}]

\* Before any data was seen, doubt is cast on the settings.
CheckCondition ==
    /\ Mesgin("COMMAND_COMPLETE") /\ Identified(ahd) # None
    /\ "SENSE" \notin ahd.scb[ahd.scbptr].flags
    /\ LET s == ahd.scbptr
           b == ForceRenegotiation(ahd)
       IN AwaitBusfree([b EXCEPT !.card[s] = FALSE,
                                 !.scb[s] = Sensing(@, b.auto_negotiate)])

\* The bus goes free at last.
Unstuck == target.bus = "stuck" /\ target' = NoTarget /\ UNCHANGED ahd

\* Complete without a status, or a message before the nexus is known.
MesginProtoViolation ==
    /\ \/ Mesgin("COMMAND_COMPLETE")
       \/ Mesgin("DISCONNECT")
    /\ ahd' = HandleProtoViolation(Locked("MESGIN"), FALSE)
    /\ StillThere

\* A data, command or status phase.
OtherPhase ==
    /\ ~ahd.loop /\ Offers("other", NoMessage)
    /\ \/ ~ahd.NOT_IDENTIFIED /\ ahd' = Locked("other")
       \/ /\ ahd.NOT_IDENTIFIED
          /\ \E data \in BOOLEAN : ahd' = HandleProtoViolation(Locked("other"), data)
    /\ StillThere
-----------------------------------------------------------------------------
Fault == errors < MaxErrors /\ errors' = errors + 1

Next ==
    /\ ahd.panic = "none"
    /\ \/ /\ UNCHANGED errors
          /\ \/ BusFree \/ HwResetBus \/ SelectIn \/ Mesgout \/ MesginNop \/ SnoopTag
             \/ Disconnect \/ CommandComplete \/ CheckCondition \/ OtherPhase \/ Unstuck
             \/ \E s \in Scbs : StartIo(s) \/ Select(s) \/ MesginIdentify(s)
             \/ \E phase \in {"MESGOUT", "MESGIN", "other"},
                   m \in Messages \cup {NoMessage} : HostMsgLoop(phase, m)
       \/ /\ Fault
          /\ \/ \E phase \in {"MESGIN", "other"} :
                    HandleTransmissionError(phase) \/ PuntMessage(phase)
             \/ PuntMessage("MESGOUT")
             \/ ScsiReset \/ NotFound \/ NoIdentify \/ MesginReject \/ MesginProtoViolation
             \/ \E s \in Scbs : SelectionTimeout(s)

Spec == Init /\ [][Next]_vars
-----------------------------------------------------------------------------
(* Properties.                                                               *)

\* The host is only asked for a byte while it has one, which the panic in
\* ahd_handle_message_phase guards: a report of an error counts.
ActiveMessage == ahd.panic # "no active message"

\* With nothing left to negotiate the chip transfers the way that was agreed on.
ChipFollows == ~ahd.auto_negotiate => ahd.negtable = ahd.goal

\* When the target takes our message after a parity error, it is told about it.
ErrorIsReported ==
    [][target.error /\ ~target'.error /\ ahd'.LASTPHASE = "MESGOUT" =>
         ahd'.loop /\ ahd'.send_msg_perror # "none"]_vars

\* A report of an error is for the connection it was seen on.
ReportsStay == target.bus = "free" => ahd.send_msg_perror = "none"
=============================================================================
