------------------------------ MODULE MCConfig ------------------------------
(***************************************************************************)
(* Boards for TLC: every way the settings of a target can be written down, *)
(* every cabling, every external SRAM.  A behaviour is one of such a board *)
(* or one of the serial EEPROM it reads its settings from.                 *)
(***************************************************************************)
EXTENDS AhcConfig

CONSTANTS Starts, Count, Words, MaxCalls        \* of Seeprom93cx6

VARIABLES part_of, serChip, op, k, start_addr, buf, todo, v, serLeft, phase,
          calls, part, sh, out, unlocked, busy, memory

VARIABLES ahdBoard, ahdStage, ahdSource, sc, ahdSoftc, ahdChip, latch, ahdMemory, ops

ahdVars == <<ahdBoard, ahdStage, ahdSource, sc, ahdSoftc, ahdChip, latch, ahdMemory, ops>>

serVars == <<serChip, op, k, start_addr, buf, todo, v, serLeft, phase, calls,
             part, sh, out, unlocked, busy, memory>>

Eeprom == INSTANCE Seeprom93cx6 WITH sd_chip <- serChip, left <- serLeft

CONSTANTS Scbs, RingSize, MaxOps, AhdBoards      \* of AhdConfig

Ahd == INSTANCE AhdConfig WITH Boards <- AhdBoards, board <- ahdBoard, stage <- ahdStage,
           source <- ahdSource, softc <- ahdSoftc, chip <- ahdChip, memory <- ahdMemory

CONSTANT Extras          \* boards on which the code does not do what it says

Flags == [xfer : 0 .. 7, synch : BOOLEAN, disc : BOOLEAN, wideb : BOOLEAN,
          ultra : BOOLEAN]

Plain == [xfer |-> 0, synch |-> TRUE, disc |-> TRUE, wideb |-> FALSE, ultra |-> FALSE]
Quick == [Plain EXCEPT !.ultra = TRUE]

NoSram == [rate |-> [i \in Targets |-> 0], offset |-> [i \in Targets |-> 0],
           ultra |-> {}, dsb |-> {}, parity |-> FALSE, adpt |-> FALSE]

InternalRam == [ramps |-> FALSE, single |-> FALSE, fast |-> FALSE,
                parity |-> FALSE, scbs |-> 0]

Board == [chip |-> "aic7880", wide |-> TRUE, rext |-> TRUE, speedflex |-> FALSE,
          multi |-> FALSE, logic |-> TRUE, eeprom |-> C46,
          fresh |-> FALSE, powrdn |-> FALSE, bios |-> TRUE, oid |-> 6, stpwen |-> TRUE,
          id |-> 5, control |-> {"AUTOTERM", "SPARITY"},
          flags |-> [i \in Targets |-> Plain], sram |-> NoSram,
          cables |-> {"ext"}, sense |-> {}, ram |-> InternalRam]

Two(f, g) == [i \in Targets |-> IF i = 0 THEN f ELSE g]

\* A rate the chip has: a newer one 5 MHz to 40 MHz, 80 MHz only with DT.
Sound(chip, f) ==
    IF chip \in {"aic7890", "aic7892"}
    THEN (IF f.ultra THEN f.xfer <= 4 ELSE f.xfer # 1)
         /\ (f.xfer = 2 /\ ~f.ultra => chip = "aic7892")
    ELSE f.ultra => f.xfer \in {0, 1, 2, 4}

Chips == {"aic7850", "aic7870", "aic7880", "aic7890", "aic7892"}

WordBoards ==
    {b \in {[Board EXCEPT !.chip = c, !.flags = Two(f, g), !.rext = x,
                          !.wide = w, !.multi = e = C56_66, !.eeprom = e,
                          !.sram.adpt = e = Missing, !.control = @ \cup u] :
              c \in Chips, f \in Flags, g \in {Plain, Quick}, x \in BOOLEAN,
              w \in BOOLEAN, e \in {C46, C56_66, Missing}, u \in {{}, {"ULTRAEN"}}} :
        /\ Sound(b.chip, b.flags[0])
        /\ b.chip \in {"aic7890", "aic7892"} => b.wide /\ b.rext
        /\ b.chip = "aic7850" => ~b.wide
        /\ "ULTRAEN" \in b.control /\ ~b.flags[0].ultra /\ ~b.flags[1].ultra
               => b.chip \in {"aic7890", "aic7892"} \/ b.flags[0].xfer \in {0, 1, 2, 4}}

\* What a BIOS leaves: codes of the chip's own format, or none; and on an Ultra2
\* chip, before negotiation, codes of the format of the older ones.
Rates(c) == IF c \in {"aic7890", "aic7892"}
            THEN {w + r : w \in {0, 128},
                          r \in {0} \cup (3 .. 12) \cup {16 * s + 15 : s \in 0 .. 7}}
            ELSE {w + 16 * r + o : w \in {0, 128}, r \in 0 .. 7, o \in {0, 8}}

BiosBoards ==
    {b \in {[Board EXCEPT !.chip = c, !.eeprom = e, !.fresh = f, !.powrdn = p,
                          !.bios = s, !.stpwen = t, !.sram.rate = [i \in Targets |-> r],
                          !.sram.offset = [i \in Targets |-> o], !.sram.ultra = u,
                          !.sram.dsb = {1}] :
              c \in Chips \ {"aic7850"}, e \in {Missing, Blank}, f \in BOOLEAN,
              p \in BOOLEAN, s \in BOOLEAN, t \in BOOLEAN,
              r \in UNION {Rates(c) : c \in Chips}, o \in {0, 127}, u \in {{}, {0}}} :
        /\ b.sram.rate[0] \in Rates(b.chip)
        /\ b.fresh => ~b.bios
        /\ 0 \in b.sram.ultra =>
              \/ b.chip \in {"aic7890", "aic7892"}
              \/ b.chip = "aic7880" /\ Sxfr(b.sram.rate[0]) \in {0, 1, 2, 4}}

Controls == SUBSET {"AUTOTERM", "STERM", "WSTERM"}
SeControls == {a \cup s : a \in Controls,
                          s \in SUBSET {"SEAUTOTERM", "SELOWTERM", "SEHIGHTERM"}}

TermBoards ==
    {b \in {[Board EXCEPT !.chip = c, !.speedflex = s, !.wide = w, !.control = t,
                          !.cables = q] :
              c \in {"aic7870", "aic7880"}, s \in BOOLEAN, w \in BOOLEAN,
              t \in Controls, q \in SUBSET {"int50", "int68", "ext"}} :
        b.speedflex => b.wide /\ ~{"int68", "ext"} \subseteq b.cables}
    \cup {[Board EXCEPT !.chip = "aic7850", !.wide = FALSE, !.control = t, !.cables = q,
                        !.logic = l] :
        t \in Controls, q \in SUBSET {"int50", "ext"}, l \in BOOLEAN}
    \cup {[Board EXCEPT !.chip = "aic7892", !.control = t, !.sense = q] :
        t \in SeControls, q \in SUBSET {"BRDDAT3", "BRDDAT4", "BRDDAT5", "BRDDAT6"}}

RamBoards ==
    {[Board EXCEPT !.chip = c, !.wide = c # "aic7850", !.ram = [ramps |-> r, single |-> s,
                                                    fast |-> f, parity |-> p, scbs |-> n]] :
        c \in {"aic7850", "aic7880", "aic7892"}, r \in BOOLEAN, s \in BOOLEAN,
        f \in BOOLEAN, p \in BOOLEAN, n \in {0, 64, 128, 512}}

\* What the vendor's utility and BIOS write, and how boards are built and cabled.
SoundBoard(b) ==
    LET newer == b.chip \in {"aic7890", "aic7892"}
    IN  /\ b.chip \in Chips /\ b.eeprom \in {Missing, Blank, C46, C56_66}
        /\ {b.wide, b.rext, b.speedflex, b.multi, b.logic, b.fresh, b.powrdn, b.bios,
            b.stpwen} \subseteq BOOLEAN
        /\ {b.id, b.oid} \subseteq 0 .. 15
        /\ newer => b.wide /\ b.rext
        /\ b.chip = "aic7850" => ~b.wide
        /\ b.speedflex => b.wide /\ ~{"int68", "ext"} \subseteq b.cables
        /\ b.cables \subseteq {"int50", "int68", "ext"}
        /\ b.flags \in [Targets -> Flags]
        /\ \A i \in Targets :
              /\ Sound(b.chip, b.flags[i])
              /\ \/ newer \/ "ULTRAEN" \notin b.control
                 \/ (\E j \in Targets : b.flags[j].ultra) \/ b.flags[i].xfer \in {0, 1, 2, 4}
        /\ b.sram \in [rate : [Targets -> Rates(b.chip)], offset : [Targets -> {0, MAX_OFFSET}],
                       ultra : SUBSET Targets, dsb : SUBSET Targets,
                       parity : BOOLEAN, adpt : BOOLEAN]
        /\ \A i \in b.sram.ultra :
              \/ newer
              \/ b.chip = "aic7880" /\ b.rext /\ Sxfr(b.sram.rate[i]) \in {0, 1, 2, 4}
        /\ b.ram \in [ramps : BOOLEAN, single : BOOLEAN, fast : BOOLEAN, parity : BOOLEAN,
                      scbs : Nat]

ASSUME BoardsAssumption == \A b \in (Boards \ Extras) \cup {Board} : SoundBoard(b)

MCBoards ==
    WordBoards \cup BiosBoards \cup TermBoards \cup RamBoards \cup Extras

AhdFlags == [xfer : {0, 8, 25, 50, 63}, qas : BOOLEAN, packetized : BOOLEAN, disc : BOOLEAN,
             wide : BOOLEAN]

AhdPlain == [xfer |-> 9, qas |-> FALSE, packetized |-> TRUE, disc |-> TRUE, wide |-> TRUE]

AhdBoard == [rev |-> "B", load |-> 1, seeprom |-> TRUE, copy |-> FALSE, inten |-> FALSE, id |-> 5,
             max |-> 2, flags |-> Two(AhdPlain, AhdPlain), sense |-> {"prilow", "seclow"},
             control |-> {"AUTOTERM", "SEAUTOTERM", "SPCHK_ENB_A"}]

MCAhdBoards ==
    {[AhdBoard EXCEPT !.flags = Two(f, AhdPlain), !.max = n, !.rev = r] :
        f \in AhdFlags, n \in {1, 2}, r \in {"A", "B"}}
    \cup {[AhdBoard EXCEPT !.control = c \cup t, !.sense = q, !.max = 0, !.seeprom = e, !.copy = p] :
        c \in SUBSET {"AUTOTERM", "SEAUTOTERM", "STERM", "SEHIGHTERM"},
        t \in {{}, {"SPCHK_ENB_A", "STPWLEVEL_A"}},
        q \in {{}, {"prilow"}, {"prilow", "prihigh"}, {"prihigh", "sechigh"}},
        e \in BOOLEAN, p \in BOOLEAN}
    \cup {[AhdBoard EXCEPT !.rev = r, !.inten = x, !.load = MaxOps] : r \in {"old", "A", "B"}, x \in BOOLEAN}

SoundAhdBoard(b) ==
    /\ b.rev \in {"old", "A", "B"} /\ b.load \in 0 .. MaxOps /\ b.max \in Nat
    /\ {b.seeprom, b.copy, b.inten} \subseteq BOOLEAN
    /\ b.flags \in [Targets -> [xfer : 0 .. 63, qas : BOOLEAN, packetized : BOOLEAN,
                               disc : BOOLEAN, wide : BOOLEAN]]
    /\ b.sense \subseteq Ahd!Halves

ASSUME AhdBoardsAssumption == \A b \in AhdBoards \cup {AhdBoard} : SoundAhdBoard(b)

\* There is an entry of the qoutfifo for every SCB, and more.
ASSUME RingAssumption ==
    /\ IsFiniteSet(Scbs) /\ Ahd!Sentinel \notin Scbs
    /\ MaxOps \in Nat \ {0} /\ RingSize \in Nat /\ RingSize > Cardinality(Scbs)

ConfigInit ==
    /\ part_of \in {"board", "ahd", "eeprom"}
    /\ board    \in IF part_of = "board"  THEN Boards    ELSE {Board}
    /\ ahdBoard \in IF part_of = "ahd"    THEN AhdBoards ELSE {AhdBoard}
    /\ Powered /\ Ahd!Powered /\ Eeprom!Init
    /\ part_of # "eeprom" => part = C46

ConfigNext ==
    /\ UNCHANGED part_of
    /\ \/ part_of = "board" /\ Next /\ UNCHANGED <<ahdVars, serVars>>
       \/ part_of = "ahd" /\ Ahd!Next /\ UNCHANGED <<vars, serVars>>
       \/ part_of = "eeprom" /\ Eeprom!Next /\ UNCHANGED <<vars, ahdVars>>

ConfigSpec == ConfigInit /\ [][ConfigNext]_<<part_of, vars, ahdVars, serVars>>

\* Whatever the source, the driver's table holds what the user asked for: through
\* the three encodings of a rate, but for the targets that Misread names, after
\* restarts, and when the driver is loaded again over a source of Reload
\* (ahc_parse_pci_eeprom, ahc_init; ahd_parse_cfgdata).
SettingsTaken == SettingsAreTaken /\ Ahd!SettingsAreTaken

\* A running board is set up as asked, after any number of stops, restarts and
\* resets, and the aic79xx agrees with its driver about both queues (ahc_chip_init,
\* ahd_chip_init, the HwAdapterControl routines).
BoardRuns == RunsAsAsked /\ Ahd!RunsAsAsked /\ Ahd!QueuesAgree

\* The stages are of their types, and no interrupt is let through before the board
\* is ready (ahc_intr_enable, ahd_intr_enable, ahc_reset, ahd_reset).
BoardsHold == BoardConsistent /\ Ahd!QuietUntilReady /\ Ahd!TypeOK

\* A read with the right number of address bits returns what is stored; a write
\* stores what it is given and locks the part again; nothing but a write changes a
\* word, and a write only its own (the properties of Seeprom93cx6).
EepromHolds ==
    /\ [](Eeprom!TypeOK /\ Eeprom!ReadsWhatIsStored /\ Eeprom!WritesOnlyWhatIsAsked)
    /\ Eeprom!NothingElseChanges
=============================================================================
