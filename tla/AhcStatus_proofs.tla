-------------------------- MODULE AhcStatus_proofs --------------------------
(***************************************************************************)
(* AhcStatus for every set of commands.                                    *)
(*                                                                         *)
(* The inductive invariant says which result words an active command can   *)
(* have: still in progress, the unfrozen status of a protocol violation,   *)
(* or a status with the freeze bit in it.  Only the first can be answered  *)
(* with SUCCESS, and a command that has it and is on the bus has had no    *)
(* event but its selection.                                                *)
(***************************************************************************)
EXTENDS AhcStatus, TLAPS

Words  == Statuses \cup {s + CAM_DEV_QFRZN : s \in Statuses}
Places == {"idle", "queued", "waiting", "bus"}

\* What is true of one command: its place, word, SCSI status and last event,
\* and whether a REQUEST SENSE or an abort message is under way for it.
CommandOK(place, word, status, event, sensing, aborting) ==
    /\ sensing => status = "CHECK"
    /\ place = "idle" => ~sensing /\ ~aborting
    /\ place # "idle" =>
          /\ word \in {CAM_REQ_INPROG, CAM_SEQUENCE_FAIL} \/ word >= CAM_DEV_QFRZN
          /\ word = CAM_SEQUENCE_FAIL => aborting
          /\ word = CAM_REQ_INPROG => ~sensing /\ ~aborting
          /\ word = CAM_REQ_INPROG /\ place = "bus" => event = "running"
          /\ event # "sense failed"

AnswerOK(answer) ==
    /\ answer.bus \in BusEvents
    /\ answer.SrbStatus = "SUCCESS" => answer.bus = "good"
    /\ answer.bus = "sense failed" =>
          answer.SrbStatus = "ERROR" /\ answer.ScsiStatus = "CHECK"
                                     /\ ~answer.autosense

CommandsOK ==
    \A c \in Commands : CommandOK(where[c], result[c], scsi[c], bus[c],
                                  c \in SENSE, c \in violated)
AnswersOK ==
    /\ DOMAIN srb = Commands
    /\ \A c \in Commands : AnswerOK(srb[c])

IInv == StatusTypeOK /\ CommandsOK /\ AnswersOK

-----------------------------------------------------------------------------
(* The result word. *)

LEMMA StatusIsByte ==
    ASSUME NEW s \in Statuses
    PROVE  s \in Nat /\ s < CAM_DEV_QFRZN
BY DEF Statuses, CAM_REQ_INPROG, CAM_REQ_ABORTED, CAM_SEL_TIMEOUT,
       CAM_SCSI_STATUS_ERROR, CAM_SCSI_BUS_RESET, CAM_UNCOR_PARITY,
       CAM_AUTOSENSE_FAIL, CAM_DATA_RUN_ERR, CAM_UNEXP_BUSFREE,
       CAM_SEQUENCE_FAIL, CAM_BDR_SENT, CAM_REQUEUE_REQ, CAM_DEV_QFRZN

LEMMA WordIsByte ==
    ASSUME NEW w \in Words
    PROVE  w \in Nat /\ w < 2 * CAM_DEV_QFRZN
BY StatusIsByte DEF Words, CAM_DEV_QFRZN

\* Setting and reading the status, and freezing: no bit is lost or added.
LEMMA WordFacts ==
    ASSUME NEW w \in Words
    PROVE  /\ GetStatus(w) = w
           /\ \A s \in Statuses : SetStatus(w, s) = s
           /\ Freeze(w) \in Words /\ Freeze(w) >= CAM_DEV_QFRZN
<1>1. w \in Nat /\ w < 128
  BY WordIsByte DEF CAM_DEV_QFRZN
<1>2. GetStatus(w) = w
  BY <1>1 DEF GetStatus, CAM_STATUS_MASK
<1>3. ASSUME NEW s \in Statuses PROVE SetStatus(w, s) = s
  <2>1. s \in Nat
    BY StatusIsByte
  <2>2. w \div 256 = 0
    BY <1>1
  <2>3. QED BY <2>1, <2>2 DEF SetStatus, CAM_STATUS_MASK
<1>4. Freeze(w) \in Words /\ Freeze(w) >= CAM_DEV_QFRZN
  <2>1. CASE w \in Statuses
    <3>1. w \in Nat /\ w < 64
      BY <2>1, StatusIsByte DEF CAM_DEV_QFRZN
    <3>2. Freeze(w) = w + CAM_DEV_QFRZN
      BY <3>1 DEF Freeze, CAM_DEV_QFRZN
    <3>3. QED BY <2>1, <3>1, <3>2 DEF Words, CAM_DEV_QFRZN
  <2>2. CASE \E s \in Statuses : w = s + CAM_DEV_QFRZN
    <3>1. PICK s \in Statuses : w = s + CAM_DEV_QFRZN
      BY <2>2
    <3>2. w \in Nat /\ w >= 64 /\ w < 128
      BY <3>1, StatusIsByte DEF CAM_DEV_QFRZN
    <3>3. Freeze(w) = w
      BY <3>2 DEF Freeze, CAM_DEV_QFRZN
    <3>4. QED BY <3>2, <3>3 DEF CAM_DEV_QFRZN
  <2>3. QED BY <2>1, <2>2 DEF Words
<1>5. QED BY <1>2, <1>3, <1>4

\* A command the driver ends for a reason of its own is frozen, whatever
\* status it has already.
LEMMA EndedFacts ==
    ASSUME NEW w \in Words, NEW s \in Statuses \ {CAM_REQ_INPROG}
    PROVE  Ended(w, s) \in Words /\ Ended(w, s) >= CAM_DEV_QFRZN
<1>1. CAM_REQ_CMP \notin Words
  <2>1. CAM_REQ_CMP \notin Statuses
    BY DEF Statuses, CAM_REQ_INPROG, CAM_REQ_ABORTED, CAM_SEL_TIMEOUT,
       CAM_SCSI_STATUS_ERROR, CAM_SCSI_BUS_RESET, CAM_UNCOR_PARITY, CAM_REQ_CMP,
       CAM_AUTOSENSE_FAIL, CAM_DATA_RUN_ERR, CAM_UNEXP_BUSFREE,
       CAM_SEQUENCE_FAIL, CAM_BDR_SENT, CAM_REQUEUE_REQ
  <2>2. \A t \in Statuses : t + CAM_DEV_QFRZN # CAM_REQ_CMP
    BY StatusIsByte DEF CAM_DEV_QFRZN, CAM_REQ_CMP
  <2>3. QED BY <2>1, <2>2 DEF Words
<1>2. s \in Words
  BY DEF Words
<1>3. QED BY <1>1, <1>2, WordFacts DEF Ended

\* A frozen status is none that ahc_done knows.
LEMMA FrozenIsError ==
    ASSUME NEW w \in Words, w >= CAM_DEV_QFRZN
    PROVE  SrbStatus(w) = "ERROR"
<1>1. w \in Nat /\ w >= 64
  BY WordIsByte DEF CAM_DEV_QFRZN
<1>2. DOMAIN Outcomes =
         {"SUCCESS", "BUSY", "SELECTION_TIMEOUT", "TIMEOUT", "DATA_OVERRUN",
          "ABORTED", "PARITY_ERROR", "BUS_RESET", "UNEXPECTED_BUS_FREE",
          "SEQUENCE_FAILURE", "ERROR"}
  BY DEF Outcomes
<1>3. ASSUME NEW o \in DOMAIN Outcomes PROVE w \notin Outcomes[o]
  BY <1>1, <1>2
     DEF Outcomes, CAM_REQ_INPROG, CAM_REQ_CMP, CAM_REQ_ABORTED,
         CAM_REQ_CMP_ERR, CAM_SEL_TIMEOUT, CAM_CMD_TIMEOUT,
         CAM_SCSI_STATUS_ERROR, CAM_SCSI_BUS_RESET, CAM_UNCOR_PARITY,
         CAM_DATA_RUN_ERR, CAM_UNEXP_BUSFREE, CAM_SEQUENCE_FAIL,
         CAM_BDR_SENT, CAM_REQUEUE_REQ
<1>4. QED BY <1>3 DEF SrbStatus

\* Such a word is never answered with SUCCESS.
LEMMA FrozenAnswer ==
    ASSUME NEW w \in Words, w >= CAM_DEV_QFRZN,
           NEW status, NEW sensing, NEW event \in BusEvents \ {"sense failed"}
    PROVE  AnswerOK(Answer(w, status, sensing, event))
<1>1. GetStatus(w) = w /\ SrbStatus(w) = "ERROR"
  BY WordFacts, FrozenIsError
<1>2. QED BY <1>1 DEF Answer, AnswerOK

LEMMA GoodAnswer ==
    ASSUME NEW w, NEW status, NEW sensing
    PROVE  AnswerOK(Answer(w, status, sensing, "good"))
BY DEF Answer, AnswerOK, BusEvents

\* A failed REQUEST SENSE is answered with the check condition it was for.
LEMMA AutosenseAnswer ==
    ASSUME NEW w \in Words, w = CAM_AUTOSENSE_FAIL,
           NEW status \in {"GOOD", "CHECK"}, NEW sensing, NEW event \in BusEvents
    PROVE  AnswerOK(Answer(w, status, sensing, event))
<1>1. GetStatus(w) = CAM_AUTOSENSE_FAIL
  BY WordFacts
<1>2. CAM_AUTOSENSE_FAIL # CAM_SCSI_STATUS_ERROR
  BY DEF CAM_AUTOSENSE_FAIL, CAM_SCSI_STATUS_ERROR
<1> DEFINE answer == Answer(w, status, sensing, event)
<1>3. answer.SrbStatus = "ERROR" /\ answer.bus = event
  BY <1>1, <1>2 DEF Answer
<1>4. answer.ScsiStatus = "CHECK"
  BY <1>1, <1>2 DEF Answer
<1>5. ~answer.autosense
  BY <1>1, <1>2, Zenon DEF Answer
<1>6. QED BY <1>3, <1>4, <1>5 DEF AnswerOK
-----------------------------------------------------------------------------
(* The steps. *)

LEMMA InitIInv == StatusInit => IInv
<1> SUFFICES ASSUME StatusInit PROVE IInv
  OBVIOUS
<1>1. StatusTypeOK
  BY DEF StatusInit, StatusTypeOK, Statuses, BusEvents, NoAnswer
<1>2. CommandsOK
  BY DEF StatusInit, CommandsOK, CommandOK
<1>3. AnswersOK
  BY DEF StatusInit, AnswersOK, AnswerOK, NoAnswer, BusEvents
<1>4. QED BY <1>1, <1>2, <1>3 DEF IInv

\* ahc_done for some commands: what it needs of their words, and of the words
\* and events of the others.
LEMMA DoneStep ==
    ASSUME IInv,
           NEW done \in SUBSET Commands, NEW senses \in SUBSET Commands,
           NEW words \in [Commands -> Words],
           NEW events \in [Commands -> BusEvents],
           NEW places \in [Commands -> Places],
           scsi' \in [Commands -> {"GOOD", "CHECK", "OTHER"}],
           AhcDone(done, words, senses, events, places),
           \A c \in Commands \ done :
              CommandOK(places[c], words[c], scsi'[c], events[c],
                        c \in senses, c \in violated),
           \A c \in done :
              AnswerOK(Answer(words[c], scsi'[c], c \in senses, events[c]))
    PROVE  IInv'
<1>1. AnswersOK'
  BY DEF IInv, AnswersOK, AhcDone
<1>2. StatusTypeOK'
  <2>1. where' \in [Commands -> Places]
    BY DEF AhcDone, Places
  <2>2. violated' \subseteq Commands /\ SENSE' \subseteq Commands
    BY DEF AhcDone, IInv, StatusTypeOK
  <2>3. result' = words /\ bus' = events
    BY DEF AhcDone
  <2>4. \A c \in Commands : srb'[c].bus \in BusEvents
    BY <1>1 DEF AnswersOK, AnswerOK
  <2>5. QED BY <2>1, <2>2, <2>3, <2>4 DEF StatusTypeOK, Places, Words
<1>3. CommandsOK'
  <2>1. SUFFICES ASSUME NEW c \in Commands
                 PROVE  CommandOK(where'[c], result'[c], scsi'[c], bus'[c],
                                  c \in SENSE', c \in violated')
    BY DEF CommandsOK
  <2>2. CASE c \in done
    BY <2>2 DEF AhcDone, CommandOK
  <2>3. CASE c \notin done
    <3>1. /\ where'[c] = places[c] /\ result'[c] = words[c] /\ bus'[c] = events[c]
          /\ (c \in SENSE') <=> (c \in senses)
          /\ (c \in violated') <=> (c \in violated)
      BY <2>3 DEF AhcDone
    <3>2. CommandOK(places[c], words[c], scsi'[c], events[c],
                    c \in senses, c \in violated)
      BY <2>3
    <3>3. QED BY <3>1, <3>2 DEF CommandOK
  <2>4. QED BY <2>2, <2>3
<1>4. QED BY <1>1, <1>2, <1>3 DEF IInv

\* Under the invariant every active command is in one of these states.
LEMMA CommandFacts ==
    ASSUME IInv, NEW c \in Commands
    PROVE  /\ result[c] \in Words /\ bus[c] \in BusEvents
           /\ where[c] \in Places /\ scsi[c] \in {"GOOD", "CHECK", "OTHER"}
           /\ CommandOK(where[c], result[c], scsi[c], bus[c],
                        c \in SENSE, c \in violated)
BY DEF IInv, StatusTypeOK, CommandsOK, Words, Places

LEMMA TypeFacts ==
    ASSUME IInv
    PROVE  /\ where \in [Commands -> Places]
           /\ result \in [Commands -> Words]
           /\ scsi \in [Commands -> {"GOOD", "CHECK", "OTHER"}]
           /\ SENSE \in SUBSET Commands /\ violated \in SUBSET Commands
           /\ bus \in [Commands -> BusEvents]
BY DEF IInv, StatusTypeOK, Words, Places

LEMMA StartIoStep == ASSUME IInv, NEW c \in Commands, StartIo(c) PROVE IInv'
<1>1. AnswerOK(NoAnswer)
  BY DEF AnswerOK, NoAnswer, BusEvents
<1>2. AnswersOK'
  BY <1>1 DEF IInv, AnswersOK, StartIo
<1>3. StatusTypeOK'
  <2>1. \A d \in Commands : srb'[d].bus \in BusEvents
    BY <1>2 DEF AnswersOK, AnswerOK
  <2>2. QED BY <2>1 DEF IInv, StatusTypeOK, StartIo, Statuses, BusEvents
<1>4. CommandsOK'
  <2>1. SUFFICES ASSUME NEW d \in Commands
                 PROVE  CommandOK(where'[d], result'[d], scsi'[d], bus'[d],
                                  d \in SENSE', d \in violated')
    BY DEF CommandsOK
  <2>2. CASE d = c
    <3>1. /\ where'[c] = "queued" /\ result'[c] = CAM_REQ_INPROG
          /\ scsi'[c] = "GOOD" /\ bus'[c] = "nothing"
          /\ SENSE' = SENSE /\ violated' = violated
      BY TypeFacts DEF StartIo
    <3>2. c \notin SENSE /\ c \notin violated
      BY CommandFacts DEF CommandOK, StartIo
    <3>3. CAM_REQ_INPROG # CAM_SEQUENCE_FAIL
      BY DEF CAM_REQ_INPROG, CAM_SEQUENCE_FAIL
    <3>4. QED BY <2>2, <3>1, <3>2, <3>3 DEF CommandOK
  <2>3. CASE d # c
    BY <2>3, CommandFacts, TypeFacts DEF CommandOK, StartIo
  <2>4. QED BY <2>2, <2>3
<1>5. QED BY <1>2, <1>3, <1>4 DEF IInv

LEMMA FetchStep == ASSUME IInv, NEW c \in Commands, Fetch(c) PROVE IInv'
<1>1. StatusTypeOK' /\ AnswersOK'
  BY DEF IInv, StatusTypeOK, AnswersOK, Fetch
<1>2. CommandsOK'
  BY DEF IInv, StatusTypeOK, CommandsOK, CommandOK, Fetch
<1>3. QED BY <1>1, <1>2 DEF IInv

LEMMA SelectStep == ASSUME IInv, NEW c \in Commands, Select(c) PROVE IInv'
<1>1. StatusTypeOK' /\ AnswersOK'
  BY DEF IInv, StatusTypeOK, AnswersOK, Select, BusEvents
<1>2. CommandsOK'
  BY DEF IInv, StatusTypeOK, CommandsOK, CommandOK, Select
<1>3. QED BY <1>1, <1>2 DEF IInv

LEMMA ProtoViolationStep ==
    ASSUME IInv, NEW c \in Commands, ProtoViolation(c) PROVE IInv'
<1>1. result' = [result EXCEPT ![c] = CAM_SEQUENCE_FAIL]
  BY CommandFacts, WordFacts DEF ProtoViolation, IInv, StatusTypeOK, Statuses
<1>2. StatusTypeOK' /\ AnswersOK'
  BY <1>1 DEF IInv, StatusTypeOK, AnswersOK, ProtoViolation, BusEvents, Statuses
<1>3. CommandsOK'
  <2>1. SUFFICES ASSUME NEW d \in Commands
                 PROVE  CommandOK(where'[d], result'[d], scsi'[d], bus'[d],
                                  d \in SENSE', d \in violated')
    BY DEF CommandsOK
  <2>2. CASE d = c
    <3>1. /\ where'[c] = "bus" /\ result'[c] = CAM_SEQUENCE_FAIL
          /\ scsi'[c] = scsi[c] /\ bus'[c] = "violation"
          /\ SENSE' = SENSE /\ c \in violated'
      BY <1>1, TypeFacts DEF ProtoViolation
    <3>2. c \in SENSE => scsi[c] = "CHECK"
      BY CommandFacts DEF CommandOK
    <3>3. CAM_REQ_INPROG # CAM_SEQUENCE_FAIL
      BY DEF CAM_REQ_INPROG, CAM_SEQUENCE_FAIL
    <3>4. QED BY <2>2, <3>1, <3>2, <3>3 DEF CommandOK
  <2>3. CASE d # c
    BY <1>1, <2>3, CommandFacts, TypeFacts DEF CommandOK, ProtoViolation
  <2>4. QED BY <2>2, <2>3
<1>4. QED BY <1>2, <1>3 DEF IInv

LEMMA NegotiationRejectedStep ==
    ASSUME IInv, NEW c \in Commands, NegotiationRejected(c) PROVE IInv'
<1>1. StatusTypeOK' /\ AnswersOK'
  BY DEF IInv, StatusTypeOK, AnswersOK, NegotiationRejected
<1>2. CommandsOK'
  BY DEF IInv, StatusTypeOK, CommandsOK, CommandOK, NegotiationRejected
<1>3. QED BY <1>1, <1>2 DEF IInv

\* On the bus and not violated, a word in progress belongs to a command that
\* has just run.
LEMMA CompleteStep == ASSUME IInv, NEW c \in Commands, Complete(c) PROVE IInv'
<1> DEFINE events == [bus EXCEPT ![c] = IF @ = "running" THEN "good"
                                        ELSE IF @ = "sense" THEN "sense data"
                                        ELSE @]
<1>1. events \in [Commands -> BusEvents]
  BY DEF IInv, StatusTypeOK, BusEvents
<1>2. AhcDone({c}, result, SENSE, events, where) /\ scsi' = scsi
  BY DEF Complete
<1>3. \A d \in Commands \ {c} :
         CommandOK(where[d], result[d], scsi'[d], events[d],
                   d \in SENSE, d \in violated)
  BY <1>2 DEF IInv, StatusTypeOK, CommandsOK
<1>4. AnswerOK(Answer(result[c], scsi'[c], c \in SENSE, events[c]))
  <2>1. /\ where[c] = "bus" /\ c \notin violated
        /\ result[c] \in Words
        /\ events[c] \in BusEvents \ {"sense failed"}
        /\ CommandOK(where[c], result[c], scsi[c], bus[c],
                     c \in SENSE, c \in violated)
    BY <1>1, CommandFacts DEF Complete, CommandOK, IInv, StatusTypeOK
  <2>2. CASE result[c] >= CAM_DEV_QFRZN
    BY <2>1, <2>2, FrozenAnswer
  <2>3. CASE result[c] = CAM_REQ_INPROG
    <3>1. events[c] = "good"
      BY <2>1, <2>3 DEF CommandOK, IInv, StatusTypeOK
    <3>2. QED BY <3>1, GoodAnswer
  <2>4. QED BY <2>1, <2>2, <2>3 DEF CommandOK
<1> HIDE DEF events
<1>5. QED BY <1>1, <1>2, <1>3, <1>4, TypeFacts, DoneStep

-----------------------------------------------------------------------------
(* The errors. *)

LEMMA ReasonsAreStatuses ==
    /\ {CAM_REQUEUE_REQ, CAM_SEL_TIMEOUT, CAM_REQ_ABORTED, CAM_UNEXP_BUSFREE,
        CAM_BDR_SENT, CAM_SCSI_BUS_RESET, CAM_UNCOR_PARITY}
          \subseteq Statuses \ {CAM_REQ_INPROG}
    /\ {CAM_SCSI_STATUS_ERROR, CAM_AUTOSENSE_FAIL, CAM_DATA_RUN_ERR}
          \subseteq Statuses
BY DEF Statuses, CAM_REQ_INPROG, CAM_REQ_ABORTED, CAM_SEL_TIMEOUT,
       CAM_SCSI_STATUS_ERROR, CAM_SCSI_BUS_RESET, CAM_UNCOR_PARITY,
       CAM_AUTOSENSE_FAIL, CAM_DATA_RUN_ERR, CAM_UNEXP_BUSFREE,
       CAM_SEQUENCE_FAIL, CAM_BDR_SENT, CAM_REQUEUE_REQ

\* The search of the device's queue ends what is not on the bus, and nothing else.
LEMMA SearchedFacts ==
    ASSUME NEW words \in [Commands -> Words]
    PROVE  /\ Searched(words) \in [Commands -> Words]
           /\ \A d \in Unselected : Searched(words)[d] >= CAM_DEV_QFRZN
           /\ \A d \in Commands \ Unselected : Searched(words)[d] = words[d]
<1>1. \A d \in Commands : /\ Ended(words[d], CAM_REQUEUE_REQ) \in Words
                           /\ Ended(words[d], CAM_REQUEUE_REQ) >= CAM_DEV_QFRZN
  BY EndedFacts, ReasonsAreStatuses
<1>2. QED BY <1>1 DEF Searched, Unselected

LEMMA ActiveFacts ==
    ASSUME IInv
    PROVE  /\ Unselected \subseteq ActiveCommands /\ ActiveCommands \subseteq Commands
           /\ \A d \in ActiveCommands : bus[d] \in BusEvents \ {"sense failed"}
           /\ \A c \in Commands : where[c] = "bus" => c \in ActiveCommands \ Unselected
<1>1. \A d \in Commands : where[d] # "idle" => bus[d] # "sense failed"
  BY CommandFacts DEF CommandOK
<1>2. QED BY <1>1, TypeFacts DEF Unselected, ActiveCommands

LEMMA FrozenWord ==
    ASSUME NEW w \in Words, w >= CAM_DEV_QFRZN
    PROVE  w # CAM_REQ_INPROG /\ w # CAM_SEQUENCE_FAIL
BY WordIsByte DEF CAM_DEV_QFRZN, CAM_REQ_INPROG, CAM_SEQUENCE_FAIL

\* A command with a frozen word can wait anywhere.
LEMMA FrozenOK ==
    ASSUME NEW w \in Words, w >= CAM_DEV_QFRZN, NEW place \in Places \ {"idle"},
           NEW status, NEW event, event # "sense failed",
           NEW sensing, sensing => status = "CHECK", NEW aborting
    PROVE  CommandOK(place, w, status, event, sensing, aborting)
BY FrozenWord DEF CommandOK

LEMMA RequestSenseFailsStep ==
    ASSUME IInv, NEW c \in Commands, RequestSenseFails(c) PROVE IInv'
<1> DEFINE words  == [result EXCEPT ![c] = CAM_AUTOSENSE_FAIL]
           events == [bus EXCEPT ![c] = "sense failed"]
           senses == SENSE \ {c}
<1>1. AutosenseFailed(result[c]) = CAM_AUTOSENSE_FAIL
  BY CommandFacts, WordFacts, ReasonsAreStatuses DEF AutosenseFailed
<1>2. AhcDone({c}, words, senses, events, where) /\ scsi' = scsi
  BY <1>1, TypeFacts DEF RequestSenseFails
<1>3. CAM_AUTOSENSE_FAIL \in Words
  BY ReasonsAreStatuses DEF Words
<1>4. /\ words \in [Commands -> Words] /\ events \in [Commands -> BusEvents]
      /\ senses \in SUBSET Commands
  BY <1>3, TypeFacts DEF BusEvents
<1>5. ASSUME NEW d \in Commands \ {c}
      PROVE  CommandOK(where[d], words[d], scsi'[d], events[d],
                       d \in senses, d \in violated)
  <2>1. words[d] = result[d] /\ events[d] = bus[d] /\ (d \in senses <=> d \in SENSE)
    BY TypeFacts
  <2>2. QED BY <1>2, <2>1, CommandFacts DEF CommandOK
<1>6. AnswerOK(Answer(words[c], scsi'[c], c \in senses, events[c]))
  <2>1. words[c] = CAM_AUTOSENSE_FAIL /\ scsi'[c] = "CHECK"
    BY <1>2, TypeFacts, CommandFacts DEF RequestSenseFails, CommandOK
  <2>2. QED BY <1>4, <2>1, AutosenseAnswer
<1> HIDE DEF words, events, senses
<1>7. QED BY <1>2, <1>4, <1>5, <1>6, TypeFacts, DoneStep

LEMMA BadStatusStep ==
    ASSUME IInv, NEW c \in Commands, NEW status \in {"CHECK", "OTHER"},
           BadStatus(c, status)
    PROVE  IInv'
<1> DEFINE marked   == [result EXCEPT ![c] = CAM_SCSI_STATUS_ERROR]
           searched == Searched(marked)
           frozen   == [searched EXCEPT ![c] = Freeze(@)]
           events   == [bus EXCEPT ![c] = status]
           requeued == [where EXCEPT ![c] = "queued"]
<1>1. SetStatus(result[c], CAM_SCSI_STATUS_ERROR) = CAM_SCSI_STATUS_ERROR
  BY CommandFacts, WordFacts, ReasonsAreStatuses
<1>2. /\ scsi' = [scsi EXCEPT ![c] = status]
      /\ IF status = "CHECK"
         THEN AhcDone(Unselected, frozen, SENSE \cup {c}, events, requeued)
         ELSE AhcDone(Unselected \cup {c}, frozen, SENSE, events, where)
  BY <1>1 DEF BadStatus
<1>3. where[c] = "bus" /\ c \notin SENSE /\ c \notin violated
      /\ c \in ActiveCommands \ Unselected
  BY ActiveFacts DEF BadStatus
<1>4. marked \in [Commands -> Words]
  BY TypeFacts, ReasonsAreStatuses DEF Words
<1>5. /\ searched \in [Commands -> Words]
      /\ \A d \in Unselected : searched[d] >= CAM_DEV_QFRZN
      /\ \A d \in Commands \ Unselected : searched[d] = marked[d]
  BY <1>4, SearchedFacts
<1>6. Freeze(searched[c]) \in Words /\ Freeze(searched[c]) >= CAM_DEV_QFRZN
  BY <1>5, WordFacts
<1>7. /\ frozen \in [Commands -> Words]
      /\ \A d \in Unselected \cup {c} : frozen[d] >= CAM_DEV_QFRZN
      /\ \A d \in Commands \ (Unselected \cup {c}) : frozen[d] = result[d]
  <2>1. frozen \in [Commands -> Words]
    BY <1>5, <1>6
  <2>2. frozen[c] = Freeze(searched[c])
    BY <1>5
  <2>3. \A d \in Commands \ {c} : frozen[d] = searched[d] /\ marked[d] = result[d]
    BY <1>5, TypeFacts
  <2>4. QED BY <1>3, <1>5, <1>6, <2>1, <2>2, <2>3, ActiveFacts
<1>8. /\ events \in [Commands -> BusEvents]
      /\ \A d \in Unselected \cup {c} : events[d] \in BusEvents \ {"sense failed"}
      /\ \A d \in Commands \ {c} : events[d] = bus[d]
      /\ events[c] = status
  BY TypeFacts, ActiveFacts DEF BusEvents
<1>9. /\ requeued \in [Commands -> Places] /\ requeued[c] = "queued"
      /\ \A d \in Commands \ {c} : requeued[d] = where[d]
  BY TypeFacts DEF Places
<1>10. /\ scsi' \in [Commands -> {"GOOD", "CHECK", "OTHER"}] /\ scsi'[c] = status
       /\ \A d \in Commands \ {c} : scsi'[d] = scsi[d]
  BY <1>2, TypeFacts
<1>11. Unselected \subseteq Commands
  BY ActiveFacts
<1> HIDE DEF frozen, events, requeued
<1>12. ASSUME NEW senses
       PROVE  \A d \in Unselected \cup {c} :
                 AnswerOK(Answer(frozen[d], scsi'[d], d \in senses, events[d]))
  BY <1>7, <1>8, <1>11, FrozenAnswer
<1>13. ASSUME NEW d \in Commands \ (Unselected \cup {c})
       PROVE  CommandOK(where[d], frozen[d], scsi'[d], events[d],
                        d \in SENSE, d \in violated)
  BY <1>7, <1>8, <1>10, CommandFacts
<1>14. /\ frozen \in [Commands -> Words] /\ events \in [Commands -> BusEvents]
       /\ scsi' \in [Commands -> {"GOOD", "CHECK", "OTHER"}]
       /\ Unselected \in SUBSET Commands
       /\ Unselected \cup {c} \in SUBSET Commands
  BY <1>7, <1>8, <1>10, <1>11
<1>15. CASE status = "CHECK"
  <2>1. CommandOK(requeued[c], frozen[c], scsi'[c], events[c],
                  c \in SENSE \cup {c}, c \in violated)
    <3>1. events[c] # "sense failed" /\ requeued[c] \in Places \ {"idle"}
      BY <1>8, <1>9 DEF Places
    <3>2. QED BY <1>7, <1>10, <1>15, <3>1, FrozenOK
  <2>2. ASSUME NEW d \in Commands \ Unselected
        PROVE  CommandOK(requeued[d], frozen[d], scsi'[d], events[d],
                         d \in SENSE \cup {c}, d \in violated)
    <3>1. CASE d = c
      BY <2>1, <3>1
    <3>2. CASE d # c
      BY <1>9, <1>13, <3>2 DEF CommandOK
    <3>3. QED BY <3>1, <3>2
  <2>3. AhcDone(Unselected, frozen, SENSE \cup {c}, events, requeued)
    BY <1>2, <1>15
  <2>4. SENSE \cup {c} \in SUBSET Commands
    BY TypeFacts
  <2>5. \A d \in Unselected :
          AnswerOK(Answer(frozen[d], scsi'[d], d \in SENSE \cup {c}, events[d]))
    BY <1>12
  <2>6. QED BY <2>2, <2>3, <2>4, <2>5, <1>14, <1>9, DoneStep
<1>16. CASE status = "OTHER"
  <2>1. AhcDone(Unselected \cup {c}, frozen, SENSE, events, where)
    BY <1>2, <1>16
  <2>2. \A d \in Unselected \cup {c} :
          AnswerOK(Answer(frozen[d], scsi'[d], d \in SENSE, events[d]))
    BY <1>12
  <2>3. QED BY <1>13, <1>14, <2>1, <2>2, TypeFacts, DoneStep
<1>17. QED BY <1>15, <1>16

LEMMA DataOverrunStep ==
    ASSUME IInv, NEW c \in Commands, DataOverrun(c) PROVE IInv'
<1> DEFINE set    == IF c \in SENSE THEN CAM_AUTOSENSE_FAIL ELSE CAM_DATA_RUN_ERR
           words  == [Searched(result) EXCEPT ![c] = Freeze(SetStatus(@, set))]
           events == [bus EXCEPT ![c] = "overrun"]
           senses == SENSE \ {c}
<1>1. AhcDone(Unselected, words, senses, events, where) /\ scsi' = scsi
  BY DEF DataOverrun
<1>2. c \in ActiveCommands \ Unselected /\ where[c] = "bus" /\ c \notin violated
  BY ActiveFacts DEF DataOverrun
<1>3. /\ Searched(result) \in [Commands -> Words]
      /\ \A d \in Unselected : Searched(result)[d] >= CAM_DEV_QFRZN
      /\ \A d \in Commands \ Unselected : Searched(result)[d] = result[d]
  BY TypeFacts, SearchedFacts
<1>4. set \in Statuses /\ set \in Words
  BY ReasonsAreStatuses DEF Words
<1>5. /\ Freeze(SetStatus(Searched(result)[c], set)) \in Words
      /\ Freeze(SetStatus(Searched(result)[c], set)) >= CAM_DEV_QFRZN
  BY <1>3, <1>4, WordFacts
<1>6. /\ words \in [Commands -> Words]
      /\ \A d \in Unselected \cup {c} : words[d] >= CAM_DEV_QFRZN
      /\ \A d \in Commands \ (Unselected \cup {c}) : words[d] = result[d]
  <2> HIDE DEF set
  <2>1. QED BY <1>2, <1>3, <1>5, ActiveFacts
<1>7. /\ events \in [Commands -> BusEvents] /\ events[c] = "overrun"
      /\ \A d \in Commands \ {c} : events[d] = bus[d]
      /\ \A d \in Unselected : events[d] \in BusEvents \ {"sense failed"}
  BY TypeFacts, ActiveFacts DEF BusEvents
<1>8. senses \in SUBSET Commands /\ Unselected \in SUBSET Commands
  BY TypeFacts, ActiveFacts
<1> HIDE DEF words, events
<1>9. \A d \in Unselected :
         AnswerOK(Answer(words[d], scsi'[d], d \in senses, events[d]))
  BY <1>6, <1>7, <1>8, FrozenAnswer
<1>10. ASSUME NEW d \in Commands \ Unselected
       PROVE  CommandOK(where[d], words[d], scsi'[d], events[d],
                        d \in senses, d \in violated)
  <2>1. CASE d = c
    <3>1. where[c] \in Places \ {"idle"} /\ c \notin senses
      BY <1>2 DEF Places
    <3>2. QED BY <1>6, <1>7, <2>1, <3>1, FrozenOK
  <2>2. CASE d # c
    <3>1. words[d] = result[d] /\ events[d] = bus[d] /\ (d \in senses <=> d \in SENSE)
      BY <1>6, <1>7, <2>2
    <3>2. QED BY <1>1, <3>1, CommandFacts DEF CommandOK
  <2>3. QED BY <2>1, <2>2
<1> HIDE DEF senses
<1>11. QED BY <1>1, <1>6, <1>7, <1>8, <1>9, <1>10, TypeFacts, DoneStep

\* An idle command has no flags, whatever its old word says.
LEMMA IdleOK ==
    ASSUME IInv, NEW d \in Commands \ ActiveCommands, NEW word, NEW event
    PROVE  CommandOK(where[d], word, scsi[d], event, d \in SENSE, d \in violated)
<1>1. where[d] = "idle"
  BY DEF ActiveCommands
<1>2. d \notin SENSE /\ d \notin violated
  BY <1>1, CommandFacts DEF CommandOK
<1>3. QED BY <1>1, <1>2 DEF CommandOK

LEMMA SelectionTimeoutStep ==
    ASSUME IInv, NEW c \in Commands, SelectionTimeout(c) PROVE IInv'
<1> DEFINE marked   == [result EXCEPT ![c] = SetStatus(@, CAM_SEL_TIMEOUT)]
           searched == Searched(marked)
           words    == [d \in Commands |->
                          IF d \in ActiveCommands THEN Ended(searched[d], CAM_SEL_TIMEOUT)
                          ELSE searched[d]]
           events   == [bus EXCEPT ![c] = "no device"]
<1>1. AhcDone(ActiveCommands, words, SENSE, events, where) /\ scsi' = scsi
  BY DEF SelectionTimeout
<1>2. SetStatus(result[c], CAM_SEL_TIMEOUT) \in Words
  BY CommandFacts, WordFacts, ReasonsAreStatuses DEF Words
<1>3. searched \in [Commands -> Words]
  BY <1>2, TypeFacts, SearchedFacts
<1>4. \A d \in Commands : /\ Ended(searched[d], CAM_SEL_TIMEOUT) \in Words
                           /\ Ended(searched[d], CAM_SEL_TIMEOUT) >= CAM_DEV_QFRZN
  BY <1>3, EndedFacts, ReasonsAreStatuses
<1>5. /\ words \in [Commands -> Words]
      /\ \A d \in ActiveCommands : words[d] >= CAM_DEV_QFRZN
  <2> HIDE DEF searched
  <2>1. QED BY <1>3, <1>4, ActiveFacts
<1>6. /\ events \in [Commands -> BusEvents]
      /\ \A d \in ActiveCommands : events[d] \in BusEvents \ {"sense failed"}
  BY TypeFacts, ActiveFacts DEF BusEvents
<1>7. ActiveCommands \in SUBSET Commands
  BY ActiveFacts
<1> HIDE DEF words, events
<1>8. \A d \in ActiveCommands :
         AnswerOK(Answer(words[d], scsi'[d], d \in SENSE, events[d]))
  BY <1>5, <1>6, <1>7, FrozenAnswer
<1>9. \A d \in Commands \ ActiveCommands :
         CommandOK(where[d], words[d], scsi'[d], events[d], d \in SENSE, d \in violated)
  BY <1>1, IdleOK
<1>10. QED BY <1>1, <1>5, <1>6, <1>7, <1>8, <1>9, TypeFacts, DoneStep

\* ahc_abort_scbs ends active commands; the words of the others are as they were.
LEMMA AbortScbsStep ==
    ASSUME IInv, NEW tags \in SUBSET ActiveCommands, NEW words \in [Commands -> Words],
           \A d \in Commands \ tags : words[d] = result[d],
           NEW status \in Statuses \ {CAM_REQ_INPROG},
           AbortScbs(tags, words, status), scsi' = scsi
    PROVE  IInv'
<1> DEFINE searched == Searched(words)
           done     == Unselected \cup tags
           ended    == [c \in Commands |->
                          IF c \in tags \ Unselected THEN Ended(searched[c], status)
                          ELSE searched[c]]
<1>1. AhcDone(done, ended, SENSE, bus, where)
  BY DEF AbortScbs
<1>2. /\ searched \in [Commands -> Words]
      /\ \A d \in Unselected : searched[d] >= CAM_DEV_QFRZN
      /\ \A d \in Commands \ Unselected : searched[d] = words[d]
  BY SearchedFacts
<1> HIDE DEF searched
<1>3. \A d \in Commands : /\ Ended(searched[d], status) \in Words
                           /\ Ended(searched[d], status) >= CAM_DEV_QFRZN
  BY <1>2, EndedFacts
<1>4. /\ done \in SUBSET Commands
      /\ \A d \in done : bus[d] \in BusEvents \ {"sense failed"}
  BY ActiveFacts
<1>5. /\ ended \in [Commands -> Words]
      /\ \A d \in done : ended[d] >= CAM_DEV_QFRZN
      /\ \A d \in Commands \ done : ended[d] = result[d]
  BY <1>2, <1>3, <1>4
<1> HIDE DEF ended
<1>6. \A d \in done : AnswerOK(Answer(ended[d], scsi'[d], d \in SENSE, bus[d]))
  BY <1>4, <1>5, FrozenAnswer
<1>7. \A d \in Commands \ done :
         CommandOK(where[d], ended[d], scsi'[d], bus[d], d \in SENSE, d \in violated)
  BY <1>5, CommandFacts
<1> HIDE DEF done
<1>8. QED BY <1>1, <1>4, <1>5, <1>6, <1>7, TypeFacts, DoneStep

LEMMA BusFreeStep == ASSUME IInv, NEW c \in Commands, BusFree(c) PROVE IInv'
<1> DEFINE status == IF c \in violated THEN CAM_REQ_ABORTED ELSE CAM_UNEXP_BUSFREE
<1>1. {c} \in SUBSET ActiveCommands
  BY ActiveFacts DEF BusFree
<1>2. status \in Statuses \ {CAM_REQ_INPROG}
  BY ReasonsAreStatuses
<1>3. AbortScbs({c}, result, status) /\ scsi' = scsi
  BY DEF BusFree
<1> HIDE DEF status
<1>4. QED BY <1>1, <1>2, <1>3, TypeFacts, AbortScbsStep

LEMMA DeviceResetStep == ASSUME IInv, DeviceReset PROVE IInv'
<1>1. AbortScbs(ActiveCommands, result, CAM_BDR_SENT) /\ scsi' = scsi
  BY DEF DeviceReset
<1>2. ActiveCommands \in SUBSET ActiveCommands /\ CAM_BDR_SENT \in Statuses \ {CAM_REQ_INPROG}
  BY ReasonsAreStatuses
<1>3. QED BY <1>1, <1>2, TypeFacts, AbortScbsStep

LEMMA ResetChannelStep == ASSUME IInv, ResetChannel PROVE IInv'
<1>1. scsi' = scsi /\ ActiveCommands \in SUBSET ActiveCommands
      /\ CAM_SCSI_BUS_RESET \in Statuses \ {CAM_REQ_INPROG}
  BY ReasonsAreStatuses DEF ResetChannel
<1>2. CASE AbortScbs(ActiveCommands, result, CAM_SCSI_BUS_RESET)
  BY <1>1, <1>2, TypeFacts, AbortScbsStep
<1>3. ASSUME NEW c \in Commands, where[c] = "bus",
             AbortScbs(ActiveCommands,
                       [result EXCEPT ![c] = SetStatus(@, CAM_UNCOR_PARITY)],
                       CAM_SCSI_BUS_RESET)
      PROVE  IInv'
  <2> DEFINE words == [result EXCEPT ![c] = SetStatus(@, CAM_UNCOR_PARITY)]
  <2>1. c \in ActiveCommands
    BY <1>3, ActiveFacts
  <2>2. SetStatus(result[c], CAM_UNCOR_PARITY) \in Words
    BY CommandFacts, WordFacts, ReasonsAreStatuses DEF Words
  <2>3. /\ words \in [Commands -> Words]
        /\ \A d \in Commands \ ActiveCommands : words[d] = result[d]
    BY <2>1, <2>2, TypeFacts
  <2>4. AbortScbs(ActiveCommands, words, CAM_SCSI_BUS_RESET)
    BY <1>3
  <2> HIDE DEF words
  <2>5. QED BY <1>1, <2>3, <2>4, AbortScbsStep
<1>4. QED BY <1>2, <1>3 DEF ResetChannel
-----------------------------------------------------------------------------
LEMMA NextIInv == IInv /\ [StatusNext]_statusVars => IInv'
<1> SUFFICES ASSUME IInv, [StatusNext]_statusVars PROVE IInv'
  OBVIOUS
<1>1. ASSUME NEW c \in Commands, StartIo(c) \/ Fetch(c) \/ Select(c) PROVE IInv'
  BY <1>1, StartIoStep, FetchStep, SelectStep
<1>2. ASSUME NEW c \in Commands, Complete(c) \/ RequestSenseFails(c) PROVE IInv'
  BY <1>2, CompleteStep, RequestSenseFailsStep
<1>3. ASSUME NEW c \in Commands, NEW status \in {"CHECK", "OTHER"},
             BadStatus(c, status)
      PROVE  IInv'
  BY <1>3, BadStatusStep
<1>4. ASSUME NEW c \in Commands, DataOverrun(c) \/ SelectionTimeout(c) PROVE IInv'
  BY <1>4, DataOverrunStep, SelectionTimeoutStep
<1>5. ASSUME NEW c \in Commands,
             ProtoViolation(c) \/ BusFree(c) \/ NegotiationRejected(c)
      PROVE  IInv'
  BY <1>5, ProtoViolationStep, BusFreeStep, NegotiationRejectedStep
<1>6. CASE DeviceReset
  BY <1>6, DeviceResetStep
<1>7. CASE ResetChannel
  BY <1>7, ResetChannelStep
<1>8. CASE UNCHANGED statusVars
  BY <1>8 DEF statusVars, core, IInv, StatusTypeOK, CommandsOK, CommandOK, AnswersOK
<1>9. QED BY <1>1, <1>2, <1>3, <1>4, <1>5, <1>6, <1>7, <1>8 DEF StatusNext

\* What an active command's word can be, and what every answer says.
THEOREM Invariance == StatusSpec => []IInv
<1>1. StatusInit => IInv
  BY InitIInv
<1>2. IInv /\ [StatusNext]_statusVars => IInv'
  BY NextIInv
<1>3. QED BY <1>1, <1>2, PTL DEF StatusSpec

\* ahc_done answers SUCCESS only for a command that ran to GOOD status and met
\* no error on the way, and never reads one status as another.
THEOREM AnswersHold == StatusSpec => []AnswersAreTrue
<1>1. IInv => AnswersAreTrue
  BY DEF IInv, AnswersOK, AnswerOK, AnswersAreTrue, NoFalseSuccess
<1>2. QED BY <1>1, Invariance, PTL

\* When the REQUEST SENSE of ahc_handle_seqint's BAD_STATUS fails, the port
\* driver is told of the check condition and is given no sense data.
THEOREM CheckConditionIsReported == StatusSpec => []FailedSenseIsACheck
<1>1. IInv => FailedSenseIsACheck
  BY DEF IInv, AnswersOK, AnswerOK, FailedSenseIsACheck
<1>2. QED BY <1>1, Invariance, PTL
=============================================================================
