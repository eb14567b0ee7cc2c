------------------------------ MODULE AhcStatus ------------------------------
(***************************************************************************)
(* How a command ends.  The core records what became of a command in its   *)
(* result word: a CAM status, which the first event that matters sets, and *)
(* in the same byte the bit that says its queue was frozen for it.         *)
(* ahc_done turns the word into the SrbStatus the port driver sees.  The   *)
(* commands are those of one device; the lists they are on are in          *)
(* AhcQinfifo and AhcCardScbs.                                             *)
(***************************************************************************)
EXTENDS Naturals

CONSTANT Commands

VARIABLES
    where,    \* "idle", "queued", "waiting" for selection, or on the "bus",
              \* which includes disconnected commands
    result,   \* the status byte of cmd->result
    scsi,     \* the SCSI status in it
    SENSE,    \* the commands with the SCB_SENSE flag
    violated, \* the commands the driver has answered with an abort message
    bus,      \* what the device did last with the command
    srb       \* the answer to the last request, and bus at that moment

core == <<where, result, scsi, SENSE, violated>>
statusVars == <<core, bus, srb>>

CAM_REQ_INPROG        == 0
CAM_REQ_CMP           == 1
CAM_REQ_ABORTED       == 2
CAM_REQ_CMP_ERR       == 4
CAM_SEL_TIMEOUT       == 8
CAM_CMD_TIMEOUT       == 9
CAM_SCSI_STATUS_ERROR == 10
CAM_SCSI_BUS_RESET    == 11
CAM_UNCOR_PARITY      == 12
CAM_AUTOSENSE_FAIL    == 13
CAM_DATA_RUN_ERR      == 15
CAM_UNEXP_BUSFREE     == 16
CAM_SEQUENCE_FAIL     == 17
CAM_BDR_SENT          == 20
CAM_REQUEUE_REQ       == 28
CAM_DEV_QFRZN         == 64
CAM_STATUS_MASK       == 255

Statuses == {CAM_REQ_INPROG, CAM_REQ_ABORTED, CAM_SEL_TIMEOUT,
             CAM_SCSI_STATUS_ERROR, CAM_SCSI_BUS_RESET, CAM_UNCOR_PARITY,
             CAM_AUTOSENSE_FAIL, CAM_DATA_RUN_ERR, CAM_UNEXP_BUSFREE,
             CAM_SEQUENCE_FAIL, CAM_BDR_SENT, CAM_REQUEUE_REQ}

BusEvents == {"nothing", "running", "good", "CHECK", "OTHER", "overrun",
              "violation", "no device", "sense", "sense data", "sense failed"}
NoAnswer == [SrbStatus |-> "none", ScsiStatus |-> "unset",
             autosense |-> FALSE, bus |-> "nothing"]

StatusTypeOK ==
    /\ where \in [Commands -> {"idle", "queued", "waiting", "bus"}]
    /\ result \in [Commands -> Statuses \cup {s + CAM_DEV_QFRZN : s \in Statuses}]
    /\ scsi \in [Commands -> {"GOOD", "CHECK", "OTHER"}]
    /\ SENSE \subseteq Commands /\ violated \subseteq Commands
    /\ bus \in [Commands -> BusEvents]
    /\ \A c \in Commands : srb[c].bus \in BusEvents

StatusInit ==
    /\ where = [c \in Commands |-> "idle"]
    /\ result = [c \in Commands |-> CAM_REQ_INPROG]
    /\ scsi = [c \in Commands |-> "GOOD"]
    /\ SENSE = {} /\ violated = {}
    /\ bus = [c \in Commands |-> "nothing"]
    /\ srb = [c \in Commands |-> NoAnswer]
-----------------------------------------------------------------------------
(* The result word. *)

SetStatus(word, status) ==
    (word \div (CAM_STATUS_MASK + 1)) * (CAM_STATUS_MASK + 1) + status
GetStatus(word) == word % (CAM_STATUS_MASK + 1)

\* ahc_freeze_scb
Freeze(word) ==
    IF (word \div CAM_DEV_QFRZN) % 2 = 0 THEN word + CAM_DEV_QFRZN ELSE word

\* Ending a command for a reason of the driver's own: an earlier status stays.
\* A bug would be to forget the reason.
EndedUnmarked(word, status) == word

Ended(word, status) ==
    LET marked == IF GetStatus(word) = CAM_REQ_INPROG
                  THEN SetStatus(word, status) ELSE word
    IN IF GetStatus(marked) # CAM_REQ_CMP THEN Freeze(marked) ELSE marked
-----------------------------------------------------------------------------
(* ahc_done *)

Outcomes ==
    [SUCCESS              |-> {CAM_REQ_INPROG, CAM_REQ_CMP, CAM_SCSI_STATUS_ERROR},
     BUSY                 |-> {CAM_REQUEUE_REQ},
     SELECTION_TIMEOUT    |-> {CAM_SEL_TIMEOUT},
     TIMEOUT              |-> {CAM_CMD_TIMEOUT},
     DATA_OVERRUN         |-> {CAM_DATA_RUN_ERR},
     ABORTED              |-> {CAM_REQ_ABORTED},
     PARITY_ERROR         |-> {CAM_UNCOR_PARITY},
     BUS_RESET            |-> {CAM_SCSI_BUS_RESET},
     UNEXPECTED_BUS_FREE  |-> {CAM_UNEXP_BUSFREE},
     SEQUENCE_FAILURE     |-> {CAM_SEQUENCE_FAIL},
     ERROR                |-> {CAM_REQ_CMP_ERR, CAM_BDR_SENT}]

SrbStatus(status) ==
    IF \E o \in DOMAIN Outcomes : status \in Outcomes[o]
    THEN CHOOSE o \in DOMAIN Outcomes : status \in Outcomes[o]
    ELSE "ERROR"

Answer(word, scsi_status, sense, event) ==
    LET status == GetStatus(word)
        check  == status = CAM_SCSI_STATUS_ERROR /\ scsi_status = "CHECK"
    IN [SrbStatus |-> IF check \/ status = CAM_AUTOSENSE_FAIL THEN "ERROR"
                      ELSE SrbStatus(status),
        ScsiStatus |-> IF status = CAM_SCSI_STATUS_ERROR THEN scsi_status
                       ELSE IF status # CAM_AUTOSENSE_FAIL THEN "unset"
                       ELSE IF scsi_status = "GOOD" THEN "CHECK" ELSE scsi_status,
        autosense |-> check /\ sense,
        bus |-> event]

\* ahc_done and ahc_free_scb for some commands, with these words, flags and
\* events; the others go to these places.
AhcDone(done, words, senses, events, places) ==
    /\ srb' = [c \in Commands |->
                 IF c \in done THEN Answer(words[c], scsi'[c], c \in senses, events[c])
                 ELSE srb[c]]
    /\ where' = [c \in Commands |-> IF c \in done THEN "idle" ELSE places[c]]
    /\ result' = words
    /\ SENSE' = senses \ done
    /\ violated' = violated \ done
    /\ bus' = events
-----------------------------------------------------------------------------
(* Commands in order. *)

StartIo(c) ==
    /\ where[c] = "idle"
    /\ where' = [where EXCEPT ![c] = "queued"]
    /\ result' = [result EXCEPT ![c] = CAM_REQ_INPROG]
    /\ scsi' = [scsi EXCEPT ![c] = "GOOD"]
    /\ bus' = [bus EXCEPT ![c] = "nothing"]
    /\ srb' = [srb EXCEPT ![c] = NoAnswer]
    /\ UNCHANGED <<SENSE, violated>>

Fetch(c) ==
    /\ where[c] = "queued"
    /\ where' = [where EXCEPT ![c] = "waiting"]
    /\ UNCHANGED <<result, scsi, SENSE, violated, bus, srb>>

Select(c) ==
    /\ where[c] = "waiting"
    /\ where' = [where EXCEPT ![c] = "bus"]
    /\ bus' = [bus EXCEPT ![c] = IF c \in SENSE THEN "sense" ELSE "running"]
    /\ UNCHANGED <<result, scsi, SENSE, violated, srb>>

\* The device answers GOOD, and ahc_run_qoutfifo completes the command.
Complete(c) ==
    /\ where[c] = "bus" /\ c \notin violated
    /\ UNCHANGED scsi
    /\ AhcDone({c}, result, SENSE,
               [bus EXCEPT ![c] = IF @ = "running" THEN "good"
                                  ELSE IF @ = "sense" THEN "sense data" ELSE @],
               where)
-----------------------------------------------------------------------------
(* Errors.  The queue of the device is searched for its commands not yet on  *)
(* the bus.                                                                  *)

Unselected     == {c \in Commands : where[c] \in {"queued", "waiting"}}
ActiveCommands == {c \in Commands : where[c] # "idle"}

Searched(words) ==
    [c \in Commands |->
        IF c \in Unselected THEN Ended(words[c], CAM_REQUEUE_REQ) ELSE words[c]]

\* BAD_STATUS for a REQUEST SENSE; a bug would be to leave the status alone.
AutosenseUnmarked(word) == word

AutosenseFailed(word) == SetStatus(word, CAM_AUTOSENSE_FAIL)

RequestSenseFails(c) ==
    /\ where[c] = "bus" /\ c \in SENSE \ violated
    /\ UNCHANGED scsi
    /\ AhcDone({c}, [result EXCEPT ![c] = AutosenseFailed(@)], SENSE \ {c},
               [bus EXCEPT ![c] = "sense failed"], where)

\* BAD_STATUS: after a check condition the SCB is queued for a REQUEST SENSE,
\* after any other status the command is complete.
BadStatus(c, status) ==
    /\ where[c] = "bus" /\ c \notin SENSE \cup violated
    /\ scsi' = [scsi EXCEPT ![c] = status]
    /\ LET words  == Searched([result EXCEPT ![c] =
                                 SetStatus(@, CAM_SCSI_STATUS_ERROR)])
           frozen == [words EXCEPT ![c] = Freeze(@)]
           events == [bus EXCEPT ![c] = status]
       IN IF status = "CHECK"
          THEN AhcDone(Unselected, frozen, SENSE \cup {c}, events,
                       [where EXCEPT ![c] = "queued"])
          ELSE AhcDone(Unselected \cup {c}, frozen, SENSE, events, where)

\* DATA_OVERRUN: the queue is frozen before the status is set.  The command
\* goes on.
DataOverrun(c) ==
    /\ where[c] = "bus" /\ c \notin violated
    /\ UNCHANGED scsi
    /\ LET words == Searched(result)
           set   == IF c \in SENSE THEN CAM_AUTOSENSE_FAIL ELSE CAM_DATA_RUN_ERR
       IN AhcDone(Unselected, [words EXCEPT ![c] = Freeze(SetStatus(@, set))],
                  SENSE \ {c}, [bus EXCEPT ![c] = "overrun"], where)

\* A selection timeout.  The search ends the SCB itself, and its word is read
\* after that; ahc_handle_devreset then ends what the device still has.
SelectionTimeout(c) ==
    /\ where[c] = "waiting"
    /\ UNCHANGED scsi
    /\ LET words == Searched([result EXCEPT ![c] = SetStatus(@, CAM_SEL_TIMEOUT)])
       IN AhcDone(ActiveCommands,
                  [d \in Commands |-> IF d \in ActiveCommands
                                      THEN Ended(words[d], CAM_SEL_TIMEOUT)
                                      ELSE words[d]],
                  SENSE, [bus EXCEPT ![c] = "no device"], where)

\* ahc_handle_proto_violation: the command stays until the device has taken
\* the abort message.
ProtoViolation(c) ==
    /\ where[c] = "bus" /\ c \notin violated
    /\ result' = [result EXCEPT ![c] = SetStatus(@, CAM_SEQUENCE_FAIL)]
    /\ violated' = violated \cup {c}
    /\ bus' = [bus EXCEPT ![c] = "violation"]
    /\ UNCHANGED <<where, scsi, SENSE, srb>>

\* ahc_abort_scbs for one command: the queue of the device as well.
AbortScbs(tags, words, status) ==
    LET searched == Searched(words)
    IN AhcDone(Unselected \cup tags,
               [c \in Commands |-> IF c \in tags \ Unselected
                                   THEN Ended(searched[c], status)
                                   ELSE searched[c]],
               SENSE, bus, where)

\* A bus free: with an abort message sent, or unexpected.
BusFree(c) ==
    /\ where[c] = "bus"
    /\ UNCHANGED scsi
    /\ AbortScbs({c}, result, IF c \in violated THEN CAM_REQ_ABORTED
                              ELSE CAM_UNEXP_BUSFREE)

\* Or after a negotiation message: ahc_qinfifo_requeue_tail.
NegotiationRejected(c) ==
    /\ where[c] = "bus" /\ bus[c] \in {"running", "sense"}
    /\ where' = [where EXCEPT ![c] = "queued"]
    /\ UNCHANGED <<result, scsi, SENSE, violated, bus, srb>>

\* ahc_handle_devreset after a BUS DEVICE RESET message.
DeviceReset ==
    /\ ActiveCommands # {}
    /\ UNCHANGED scsi
    /\ AbortScbs(ActiveCommands, result, CAM_BDR_SENT)

\* ahc_reset_channel, possibly for a parity error that will not clear.
ResetChannel ==
    /\ ActiveCommands # {}
    /\ UNCHANGED scsi
    /\ \/ AbortScbs(ActiveCommands, result, CAM_SCSI_BUS_RESET)
       \/ \E c \in Commands :
             /\ where[c] = "bus"
             /\ AbortScbs(ActiveCommands, [result EXCEPT ![c] = SetStatus(@, CAM_UNCOR_PARITY)],
                          CAM_SCSI_BUS_RESET)
-----------------------------------------------------------------------------
StatusNext ==
    \/ \E c \in Commands :
          \/ StartIo(c) \/ Fetch(c) \/ Select(c) \/ Complete(c)
          \/ RequestSenseFails(c) \/ DataOverrun(c) \/ SelectionTimeout(c)
          \/ ProtoViolation(c) \/ BusFree(c) \/ NegotiationRejected(c)
          \/ \E status \in {"CHECK", "OTHER"} : BadStatus(c, status)
    \/ DeviceReset
    \/ ResetChannel

StatusSpec == StatusInit /\ [][StatusNext]_statusVars
-----------------------------------------------------------------------------
(* Properties. *)

\* A request is answered with SUCCESS only if its command ran to the end on the
\* device, which answered GOOD, and no error was noticed on the way.
NoFalseSuccess ==
    \A c \in Commands : srb[c].SrbStatus = "SUCCESS" => srb[c].bus = "good"

\* No answer, and no other part of the state, leaves its type either: a status
\* written over another would be read as a third.
AnswersAreTrue == StatusTypeOK /\ NoFalseSuccess

\* When the REQUEST SENSE fails, the port driver still learns of the check
\* condition, and is not handed a sense buffer nobody filled.
FailedSenseIsACheck ==
    \A c \in Commands :
        srb[c].bus = "sense failed" =>
            srb[c].SrbStatus = "ERROR" /\ srb[c].ScsiStatus = "CHECK"
                                      /\ ~srb[c].autosense

\* Sense data that arrived is handed on.
SenseArrives ==
    \A c \in Commands : srb[c].bus = "sense data" => srb[c].autosense
=============================================================================
