----------------------------- MODULE AhdConfig -----------------------------
(***************************************************************************)
(* How an aic79xx board is found, configured, stopped and started again:   *)
(* Aic79xx_HwFindAdapter, ahd_pci_config, ahd_check_extport, ahd_init and  *)
(* ahd_chip_init.                                                          *)
(*                                                                         *)
(* The settings come from the serial EEPROM, which a state machine of the  *)
(* chip reads, from a copy of it in the SCB RAM, or they are defaults.     *)
(* Termination is read from and written to a board register behind the     *)
(* flexport, and every access may time out.  A chip reset forgets where    *)
(* both queues are: ahd_chip_init starts them again on both sides, after   *)
(* ScsiRestartAdapter as well as in the middle of a bus reset that the     *)
(* first chips do not survive.                                             *)
(***************************************************************************)
EXTENDS Integers, Sequences, FiniteSets, Functions

CONSTANTS Targets,       \* 0 .. n - 1: the targets that are looked at
          Boards,
          Scbs,
          RingSize,      \* entries of the qoutfifo
          MaxOps,        \* no board sees more than so many commands, negotiations,
                         \* bus resets and stops; each has its own number, board.load
          LostInSleep    \* what else than registers a board loses: its "latch"

VARIABLES board,
          stage,         \* the function that runs next
          source,        \* where the settings came from
          sc,            \* the flags of the targets in ahd->seep_config
          softc,
          chip,          \* registers and scratch RAM
          latch,         \* FLXADDR_TERMCTL of the board
          memory,        \* the SCBs and the qoutfifo
          ops

vars == <<board, stage, source, sc, softc, chip, latch, memory, ops>>

Sentinel == "sentinel"
Hscbs    == Scbs \cup {Sentinel}
Ring     == 0 .. RingSize - 1

CFXFER_ASYNC         == 63
AHD_PERIOD_10MHz     == 25
AHD_ASYNC_XFER_PERIOD == 68
AHD_SYNCRATE_160     == 8
MAX_OFFSET           == 254
Halves == {"prilow", "prihigh", "seclow", "sechigh"}     \* of the termination

HasRti  == board.rev = "B"
ResetsChipWithBus == board.rev = "A"                     \* AHD_SCSIRST_BUG

NoUser  == [period |-> 0, offset |-> 0, ppr |-> {}, wide |-> FALSE]
NoEntry == [valid |-> FALSE, tag |-> Sentinel]
Async   == "async"                     \* the settings before any negotiation

Powered ==
    /\ stage = "off" /\ source = "none"
    /\ sc = board.flags
    /\ softc = [flags |-> {}, our_id |-> 0, disc |-> {}, tag |-> {},
                user |-> [i \in Targets |-> NoUser], curr |-> [i \in Targets |-> Async],
                pause |-> FALSE, unpause |-> FALSE, next |-> Sentinel,
                in |-> 0, out |-> 0, valid |-> TRUE,
                hscb |-> [s \in Scbs |-> s], pending |-> {}]
    /\ chip = [inten |-> board.inten, paused |-> FALSE, id |-> 0, stpwen |-> FALSE,
               spchk |-> FALSE, level |-> FALSE,
               neg |-> [i \in Targets |-> "unknown"],
               in |-> 0, got |-> 0, next |-> Sentinel, out |-> 0, valid |-> FALSE,
               have |-> {}]
    /\ latch = board.sense
    /\ memory = [link |-> [h \in Hscbs |-> h], tag |-> [h \in Hscbs |-> Sentinel],
                 ring |-> [i \in Ring |-> NoEntry]]
    /\ ops = 0

Init == board \in Boards /\ Powered

---------------------------------------------------------------------------
(* Start of day                                                            *)

\* The board fails in the middle: Aic79xx_HwFindAdapter returns an error.
Refuse ==
    /\ stage' = "refused"
    /\ UNCHANGED <<board, source, sc, softc, chip, latch, memory, ops>>

HwFindAdapter ==
    /\ stage = "off"
    /\ stage' = "setup"
    /\ softc' = [softc EXCEPT
          !.flags = {"SPCHK_ENB_A", "RESET_BUS_A", "TERM_ENB_A", "EXTENDED_TRANS_A",
                     "STPWLEVEL_A"}]
    /\ UNCHANGED <<board, source, sc, chip, latch, memory, ops>>

\* ahd_aic790X_setup: the first revisions are not supported.
ahd_aic790X_setup ==
    /\ stage = "setup"
    /\ \/ board.rev = "old" /\ Refuse
       \/ /\ board.rev # "old"
          /\ stage' = "probe"
          /\ UNCHANGED <<board, source, sc, softc, chip, latch, memory, ops>>

\* Pause, and keep what a BIOS has left in HCNTRL.
ahd_pci_test_register_access ==
    /\ stage = "probe"
    /\ \/ Refuse
       \/ /\ stage' = "reset"
          /\ chip' = [chip EXCEPT !.paused = TRUE]
          /\ UNCHANGED <<board, source, sc, softc, latch, memory, ops>>

\* The registers after ahd_reset; SXFRCTL1 is kept over it.
AfterReset(c) ==
    [c EXCEPT !.inten = softc.pause, !.paused = TRUE, !.id = 0,
              !.neg = [i \in Targets |-> "unknown"], !.in = 0, !.got = 0, !.have = {}]

\* ahd_softc_init, and the first ahd_reset.
ahd_reset ==
    /\ stage = "reset"
    /\ stage' = "seeprom"
    /\ softc' = [softc EXCEPT !.pause = FALSE, !.unpause = FALSE]
    /\ chip' = AfterReset([chip EXCEPT !.inten = FALSE])
    /\ UNCHANGED <<board, source, sc, latch, memory, ops>>

\* ahd_check_extport: a timeout of a word, or words with a wrong checksum.
ReadSeeprom ==
    /\ stage = "seeprom"
    /\ \/ board.seeprom /\ stage' = "parse" /\ source' = "seeprom"
       \/ stage' = "scratch" /\ UNCHANGED source
    /\ UNCHANGED <<board, sc, softc, chip, latch, memory, ops>>

\* A marked and sound copy in the SCB that SCB 0xFF names.
ReadScratchCopy ==
    /\ stage = "scratch"
    /\ IF board.copy
       THEN /\ stage' = "parse" /\ source' = "copy"
            /\ softc' = [softc EXCEPT !.flags = @ \cup {"SCB_CONFIG_USED"}]
       ELSE /\ stage' = "defaults" /\ source' = "defaults"
            /\ softc' = [softc EXCEPT !.flags = @ \cup {"USEDEFAULTS"}]
    /\ UNCHANGED <<board, sc, chip, latch, memory, ops>>

Rti == IF HasRti THEN {"RTI"} ELSE {}
Streaming == {"RD_STRM", "WR_FLOW", "HOLD_MCS", "IU_REQ"}

ahd_default_config ==
    /\ stage = "defaults"
    /\ \/ Refuse
       \/ /\ stage' = "terminate"
          /\ softc' = [softc EXCEPT
                !.our_id = 7, !.disc = Targets, !.tag = Targets,
                !.user = [i \in Targets |->
                    [period |-> AHD_SYNCRATE_160, offset |-> MAX_OFFSET, wide |-> TRUE,
                     ppr |-> Streaming \cup {"QAS_REQ", "DT_REQ"} \cup Rti]]]
          /\ UNCHANGED <<board, source, sc, chip, latch, memory, ops>>

\* A device that may not disconnect cannot be packetized: the flag is cleared in
\* the driver's copy of the words.
Packetized(f) == f.packetized /\ f.disc

Parsed(f) ==
    LET sync == f.xfer < CFXFER_ASYNC
        packetized == Packetized(f)
    IN  [period |-> IF sync THEN f.xfer ELSE AHD_ASYNC_XFER_PERIOD,
         offset |-> IF sync THEN MAX_OFFSET ELSE 0,
         wide   |-> f.wide,
         ppr    |-> (IF sync /\ f.xfer <= AHD_PERIOD_10MHz THEN {"DT_REQ"} ELSE {})
                    \cup (IF packetized THEN Streaming \cup Rti ELSE {})
                    \cup (IF f.qas THEN {"QAS_REQ"} ELSE {})]

Settable == {"SPCHK_ENB_A", "RESET_BUS_A", "EXTENDED_TRANS_A", "BIOS_ENABLED", "STPWLEVEL_A"}

ahd_parse_cfgdata ==
    /\ stage = "parse"
    /\ \/ Refuse
       \/ LET known == {i \in Targets : i < board.max}
          IN  /\ stage' = "terminate"
              /\ sc' = [i \in Targets |->
                           [sc[i] EXCEPT !.packetized = IF i \in known THEN Packetized(sc[i])
                                                        ELSE @]]
              /\ softc' = [softc EXCEPT
                    !.our_id = board.id,
                    !.disc = {i \in known : sc[i].disc},
                    !.tag  = {i \in known : sc[i].disc},
                    !.user = [i \in Targets |-> IF i \in known THEN Parsed(sc[i])
                                                ELSE NoUser],
                    !.flags = (@ \ Settable) \cup (board.control \cap Settable)]
              /\ UNCHANGED <<board, source, chip, latch, memory, ops>>

---------------------------------------------------------------------------
(* Termination                                                             *)

FromWords == source \in {"seeprom", "copy"}
CF(bit) == IF FromWords THEN bit \in board.control ELSE bit \in {"AUTOTERM", "SEAUTOTERM"}

Chosen(bits) == {h \in Halves : \E b \in bits : CF(b[1]) /\ b[2] = h}

\* Primary and secondary halves are sensed or set by hand on their own.  When
\* the flexport does not answer, a half that is sensed is enabled; the variable
\* holds what was on the stack.
Termctl(read, answered) ==
    LET Primary == {"prilow", "prihigh"}
        manual  == Chosen({<<"STERM", "prilow">>, <<"WSTERM", "prihigh">>})
        secondary == Chosen({<<"SELOWTERM", "seclow">>, <<"SEHIGHTERM", "sechigh">>})
        first == IF ~CF("AUTOTERM") THEN (read \ Primary) \cup manual
                 ELSE IF ~answered THEN Primary ELSE read
    IN  IF ~CF("SEAUTOTERM") THEN (first \cap Primary) \cup secondary
        ELSE IF ~answered THEN first \cup (Halves \ Primary) ELSE first

ahd_configure_termination ==
    /\ stage = "terminate"
    /\ stage' = "init"
    /\ \E answered \in BOOLEAN, written \in BOOLEAN, stack \in SUBSET Halves :
          LET termctl == Termctl(IF answered THEN board.sense ELSE stack, answered)
              low == "prilow" \in termctl
          IN  /\ answered => stack = {}
              /\ softc' = [softc EXCEPT
                    !.flags = (@ \ {"TERM_ENB_A"}) \cup (IF low THEN {"TERM_ENB_A"} ELSE {})]
              /\ chip' = [chip EXCEPT !.stpwen = low,
                                      !.level = "STPWLEVEL_A" \in softc.flags]
              /\ latch' = IF written THEN termctl ELSE latch
    /\ UNCHANGED <<board, source, sc, memory, ops>>

---------------------------------------------------------------------------
(* Chip initialisation                                                     *)

\* What ahd_chip_init writes, from nothing but the driver's own record.
ChipInit(c) ==
    [c EXCEPT !.id = softc.our_id, !.stpwen = "TERM_ENB_A" \in softc.flags,
              !.spchk = "SPCHK_ENB_A" \in softc.flags, !.neg = softc.curr,
              !.in = 0, !.got = 0, !.have = {}, !.out = 0, !.valid = TRUE,
              !.next = softc.next]

\* Mutated: the entries of the ring keep the mark of the last turn.
RingKept(m) == m

\* Its half in the host's memory.
QueuesEmpty(s) == [s EXCEPT !.in = 0, !.out = 0, !.valid = TRUE]
RingEmpty(m)   == [m EXCEPT !.ring = [i \in Ring |-> [@[i] EXCEPT !.valid = FALSE]]]

ahd_chip_init(c) ==
    /\ chip' = ChipInit(c)
    /\ softc' = QueuesEmpty(softc)
    /\ memory' = RingEmpty(memory)

\* ahd_restart: the sequencer starts at address 0.
ahd_restart(c) == [c EXCEPT !.paused = FALSE, !.inten = softc.unpause]

ahd_init ==
    /\ stage = "init"
    /\ \/ Refuse
       \/ /\ stage' = "found"
          /\ softc' = QueuesEmpty(softc)
          /\ memory' = RingEmpty(memory)
          /\ chip' = ahd_restart(ChipInit(chip))
          /\ UNCHANGED <<board, source, sc, latch, ops>>

\* ahd_intr_enable
Enable(s, on) == [s EXCEPT !.pause = on, !.unpause = on]

\* The end of Aic79xx_HwFindAdapter.
Found ==
    /\ stage = "found"
    /\ stage' = "running"
    /\ chip' = [chip EXCEPT !.inten = TRUE]
    /\ softc' = Enable(softc, TRUE)
    /\ UNCHANGED <<board, source, sc, latch, memory, ops>>

---------------------------------------------------------------------------
(* A running board                                                         *)

Step == stage = "running" /\ ops < board.load /\ ops' = ops + 1

\* ahd_queue_scb: the words of the command go to the SCB the chip fetches next.
ahd_queue_scb(s) ==
    /\ Step /\ s \notin softc.pending
    /\ memory' = [memory EXCEPT !.link[softc.next] = softc.hscb[s],
                                !.tag[softc.next] = s]
    /\ softc' = [softc EXCEPT !.next = softc.hscb[s], !.hscb[s] = softc.next,
                              !.in = @ + 1, !.pending = @ \cup {s}]
    /\ chip' = [chip EXCEPT !.in = softc.in + 1]
    /\ UNCHANGED <<board, stage, source, sc, latch>>

Sequencer ==
    /\ stage = "running" /\ ~chip.paused
    /\ UNCHANGED <<board, stage, source, sc, softc, latch, ops>>

FetchScb ==
    /\ Sequencer /\ chip.got # chip.in
    /\ chip' = [chip EXCEPT !.got = @ + 1, !.next = memory.link[chip.next],
                            !.have = @ \cup {memory.tag[chip.next]}]
    /\ UNCHANGED memory

\* fill_qoutfifo: the mark of an entry changes with every turn of the ring.
PostScb(s) ==
    /\ Sequencer /\ s \in chip.have
    /\ memory' = [memory EXCEPT !.ring[chip.out] = [valid |-> chip.valid, tag |-> s]]
    /\ chip' = [chip EXCEPT !.have = @ \ {s}, !.out = (@ + 1) % RingSize,
                            !.valid = IF chip.out = RingSize - 1 THEN ~@ ELSE @]

Seen == memory.ring[softc.out].valid = softc.valid

\* ahd_run_qoutfifo, one entry; a tag that names no command is only reported.
ahd_run_qoutfifo ==
    /\ stage = "running" /\ Seen
    /\ softc' = [softc EXCEPT !.pending = @ \ {memory.ring[softc.out].tag},
                              !.out = (@ + 1) % RingSize,
                              !.valid = IF softc.out = RingSize - 1 THEN ~@ ELSE @]
    /\ UNCHANGED <<board, stage, source, sc, chip, latch, memory, ops>>

\* A target negotiates: the driver's record, and the entry of the chip.
Negotiated(i) ==
    /\ Step /\ ~chip.paused /\ softc.curr[i] = Async
    /\ softc' = [softc EXCEPT !.curr[i] = "negotiated"]
    /\ chip' = [chip EXCEPT !.neg[i] = "negotiated"]
    /\ UNCHANGED <<board, stage, source, sc, latch, memory>>

\* Aic79xx_HwResetBus: the completions are run; ahd_reset_current_bus resets the
\* first chips altogether; ahd_abort_scbs ends every command and gives the chip
\* the queue without them; back to asynchronous transfers, and ahd_restart.
HwResetBus ==
    /\ Step
    /\ LET reset == ResetsChipWithBus
           ran   == [softc EXCEPT !.out = chip.out, !.valid = chip.valid]
           c     == IF reset THEN ChipInit(AfterReset(chip)) ELSE chip
           s     == IF reset THEN QueuesEmpty(ran) ELSE ran
       IN  /\ softc' = [s EXCEPT !.in = c.got, !.pending = {},
                                 !.curr = [i \in Targets |-> Async]]
           /\ chip' = ahd_restart([c EXCEPT !.in = c.got, !.have = {}, !.next = softc.next,
                                            !.neg = [i \in Targets |-> Async]])
           /\ memory' = IF reset THEN RingEmpty(memory) ELSE memory
    /\ UNCHANGED <<board, stage, source, sc, latch>>

---------------------------------------------------------------------------
(* Aic79xx_HwAdapterControl                                                *)

\* StorPort stops an adapter that has nothing to do.
ScsiStopAdapter ==
    /\ Step /\ softc.pending = {}
    /\ stage' = "stopped"
    /\ chip' = [chip EXCEPT !.inten = FALSE]
    /\ softc' = Enable(softc, FALSE)
    /\ UNCHANGED <<board, source, sc, latch, memory>>

\* The board sleeps: its registers and its scratch RAM are lost.
LosePower ==
    /\ stage = "stopped"
    /\ chip' = [chip EXCEPT !.id = 0, !.stpwen = FALSE, !.spchk = FALSE, !.out = 0,
                            !.valid = FALSE, !.next = Sentinel, !.paused = TRUE,
                            !.neg = [i \in Targets |-> "unknown"]]
    /\ latch' = IF "latch" \in LostInSleep THEN {} ELSE latch
    /\ UNCHANGED <<board, stage, source, sc, softc, memory, ops>>

\* ScsiRestartAdapter: ahd_reset and interrupts.  ahd_restart is not called: the
\* sequencer stays paused until something else lets it go.
ScsiRestartAdapter ==
    /\ stage = "stopped"
    /\ stage' = "found"
    /\ ahd_chip_init(AfterReset(chip))
    /\ UNCHANGED <<board, source, sc, latch, ops>>

Next ==
    \/ HwFindAdapter \/ ahd_aic790X_setup \/ ahd_pci_test_register_access \/ ahd_reset
    \/ ReadSeeprom \/ ReadScratchCopy \/ ahd_default_config \/ ahd_parse_cfgdata
    \/ ahd_configure_termination \/ ahd_init \/ Found
    \/ \E s \in Scbs : ahd_queue_scb(s) \/ PostScb(s)
    \/ FetchScb \/ ahd_run_qoutfifo \/ HwResetBus
    \/ \E i \in Targets : Negotiated(i)
    \/ ScsiStopAdapter \/ LosePower \/ ScsiRestartAdapter

Spec == Init /\ [][Next]_vars

---------------------------------------------------------------------------
Configured == stage \in {"found", "running", "stopped"}

\* What a target may be asked to do follows from its words, or is everything; no
\* option without the one it rests on (ahd_parse_cfgdata, ahd_default_config).
TargetAsAsked(i) ==
    LET f == board.flags[i]
        u == softc.user[i]
        iu == "IU_REQ" \in u.ppr
    IN  IF source = "defaults"
        THEN iu /\ {"DT_REQ", "QAS_REQ"} \subseteq u.ppr /\ u.wide /\ i \in softc.disc
        ELSE IF i >= board.max THEN u = NoUser /\ i \notin softc.disc
        ELSE /\ iu => i \in softc.disc /\ i \in softc.tag
             /\ iu = (f.packetized /\ f.disc) /\ ("QAS_REQ" \in u.ppr) = f.qas
             /\ \A o \in {"RD_STRM", "WR_FLOW", "HOLD_MCS", "RTI"} \cap u.ppr : iu
             /\ "RTI" \in u.ppr => board.rev = "B"
             /\ "DT_REQ" \in u.ppr => u.offset # 0 /\ u.period <= 25
             /\ (u.offset = 0) = (f.xfer = 63)
             /\ u.wide = f.wide /\ (i \in softc.disc) = f.disc

SettingsAreTaken ==
    Configured =>
        /\ \A i \in Targets : TargetAsAsked(i)
        /\ softc.our_id = IF source = "defaults" THEN 7 ELSE board.id
        /\ \A i \in Targets : FromWords /\ i < board.max /\ sc[i].packetized => sc[i].disc

\* The halves of the termination that are sensed, and those set by hand.
Sensed == (IF CF("AUTOTERM") THEN {"prilow", "prihigh"} ELSE {})
          \cup (IF CF("SEAUTOTERM") THEN {"seclow", "sechigh"} ELSE {})
ByHand == Chosen({<<"STERM", "prilow">>, <<"WSTERM", "prihigh">>, <<"SELOWTERM", "seclow">>,
                  <<"SEHIGHTERM", "sechigh">>}) \ Sensed

\* The sensed halves are as the board senses them, or all on if it cannot say; the
\* others are as the user asks.  The latch keeps its value if it cannot be written.
TerminationAsked ==
    /\ \/ latch = board.sense
       \/ latch \ Sensed = ByHand /\ latch \cap Sensed \in {board.sense \cap Sensed, Sensed}
    /\ chip.stpwen \in {"prilow" \in ByHand \cup (board.sense \cap Sensed),
                        "prilow" \in ByHand \cup Sensed}

\* While the board runs, the chip is set up from the driver's record after every
\* reset: the id, parity checking, the transfer settings of every target and the
\* termination; and it started to run when the board was found.
RunsAsAsked ==
    stage = "running" =>
        /\ chip.id = softc.our_id
        /\ chip.spchk = (FromWords => "SPCHK_ENB_A" \in board.control)
        /\ chip.level = (FromWords => "STPWLEVEL_A" \in board.control)
        /\ chip.neg = softc.curr
        /\ TerminationAsked
        /\ ops = 0 => ~chip.paused

\* Following the links, the chip comes from the SCB it fetches next to the one the
\* driver fills next.
Threaded(path, last) ==
    /\ path[0] = chip.next /\ path[last] = softc.next
    /\ \A j \in 1 .. last : path[j] = memory.link[path[j - 1]]

\* Driver and chip agree about both queues, whatever resets there were: the chip
\* fetches every command that was queued and then stands at the SCB the driver fills
\* next; it has only commands that are pending; and every entry that is seen
\* names one (ahd_chip_init, ahd_reset_current_bus, ahd_queue_scb).
QueuesAgree ==
    stage = "running" =>
        /\ chip.in = softc.in /\ chip.got <= chip.in
        /\ \E path \in [0 .. chip.in - chip.got -> Hscbs] : Threaded(path, chip.in - chip.got)
        /\ chip.have \subseteq softc.pending
        /\ Seen => memory.ring[softc.out].tag \in softc.pending
        /\ softc.pending = {} => ~Seen

\* Interrupts are off from the first reset to the end of Aic79xx_HwFindAdapter, and
\* while the board is stopped.
QuietUntilReady ==
    chip.inten => stage \in {"off", "setup", "probe", "reset", "refused", "running"}

TypeOK ==
    /\ stage \in {"off", "setup", "probe", "reset", "refused", "seeprom", "scratch",
                  "parse", "defaults", "terminate", "init", "found", "running", "stopped"}
    /\ source \in {"none", "seeprom", "copy", "defaults"}
    /\ latch \subseteq Halves /\ ops \in 0 .. board.load /\ board.load <= MaxOps
    /\ softc.out \in Ring /\ chip.out \in Ring /\ softc.pending \subseteq Scbs
=============================================================================
