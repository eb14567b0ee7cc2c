----------------------------- MODULE AhcConfig -----------------------------
(***************************************************************************)
(* How an aic7xxx board is found, configured, stopped and started again:   *)
(* Aic7xxx_HwFindAdapter, ahc_pci_config, check_extport, ahc_init and      *)
(* ahc_chip_init.                                                          *)
(*                                                                         *)
(* The settings of the user come from the serial EEPROM, from a copy of it *)
(* in scratch RAM, from what a BIOS has left in scratch RAM, or they are   *)
(* defaults.  Whatever the source, they pass through the scratch RAM: the  *)
(* words of the EEPROM are put there in the chip's own format and read     *)
(* back by ahc_init, before ahc_chip_init reuses the place for the command *)
(* length table.  Termination and the SCSI id live in registers that every *)
(* chip reset clears.                                                      *)
(*                                                                         *)
(* One step is one function of the start of day.  A board is fixed by its  *)
(* record; Boards is the set of boards a run looks at.                     *)
(***************************************************************************)
EXTENDS Integers, Sequences, FiniteSetsExt

CONSTANTS Targets,       \* 0 .. n - 1: the targets that are looked at
          Boards,
          MaxRestarts,   \* adapter control calls that start the board again
          Reload,        \* sources with which the driver is loaded twice
          LostInSleep    \* what else than the registers a board loses while it
                         \* is stopped: its "latch", its "scratch" RAM

ASSUME TargetsAssumption == \E n \in 1 .. 8 : Targets = 0 .. n - 1
ASSUME RestartsAssumption == MaxRestarts \in Nat

VARIABLES board,
          stage,         \* the function that runs next
          source,        \* where the settings came from
          sd_chip,       \* address bits tried on the EEPROM
          sram,          \* scratch RAM
          regs,          \* the registers a reset clears, and the board's latch
          left,          \* what the registers held before the first reset
          softc,
          restarts

vars == <<board, stage, source, sd_chip, sram, regs, left, softc, restarts>>

C46     == 6            \* board.eeprom: the number of address bits,
C56_66  == 8
Missing == 0            \* or there is none, or none with a good checksum
Blank   == 1
MAX_OFFSET == 127

Features(chip) ==
    CASE chip = "aic7850" -> {"SPIOCAP", "ULTRA"}
      [] chip = "aic7870" -> {}
      [] chip = "aic7880" -> {"ULTRA"}
      [] chip = "aic7890" -> {"ULTRA2", "NEW_TERMCTL", "LARGE_SCBS"}
      [] chip = "aic7892" -> {"ULTRA2", "NEW_TERMCTL", "LARGE_SCBS", "DT"}

Has(f) == f \in softc.features

---------------------------------------------------------------------------
(* The synchronous rates: codes of Ultra2 chips and of the others.         *)

ahc_syncrates ==
    << [u2 |-> 66, sxfr |->   0, period |->  9], [u2 |->  3, sxfr |->   0, period |-> 10],
       [u2 |->  4, sxfr |->   0, period |-> 11], [u2 |->  5, sxfr |-> 256, period |-> 12],
       [u2 |->  6, sxfr |-> 272, period |-> 15], [u2 |->  7, sxfr |-> 288, period |-> 18],
       [u2 |->  8, sxfr |->   0, period |-> 25], [u2 |-> 25, sxfr |->  16, period |-> 31],
       [u2 |-> 26, sxfr |->  32, period |-> 37], [u2 |-> 27, sxfr |->  48, period |-> 43],
       [u2 |-> 28, sxfr |->  64, period |-> 50], [u2 |->  0, sxfr |->  80, period |-> 56],
       [u2 |->  0, sxfr |->  96, period |-> 62], [u2 |->  0, sxfr |-> 112, period |-> 68] >>

AHC_SYNCRATE_DT     == 0
AHC_SYNCRATE_ULTRA2 == 1
AHC_SYNCRATE_ULTRA  == 3
AHC_SYNCRATE_FAST   == 6

Sxfr(rate)   == (rate \div 16) % 8     \* the code of a chip before Ultra2
Sofs(rate)   == rate % 16              \* its offset; the code of an Ultra2 chip
IsWide(rate) == rate >= 128

\* The search starts no higher than the chip can go.
FirstRate(maxsync) ==
    IF Has("DT") THEN maxsync
    ELSE Max({maxsync, IF Has("ULTRA2") THEN AHC_SYNCRATE_ULTRA2
                       ELSE IF Has("ULTRA") THEN AHC_SYNCRATE_ULTRA
                       ELSE AHC_SYNCRATE_FAST})

ahc_find_period(rate, maxsync) ==
    LET matches == {i \in FirstRate(maxsync) + 1 .. Len(ahc_syncrates) :
                      IF Has("ULTRA2")
                      THEN ahc_syncrates[i].u2 # 0 /\ ahc_syncrates[i].u2 % 16 = Sofs(rate)
                      ELSE Sxfr(ahc_syncrates[i].sxfr) = Sxfr(rate)}
    IN  IF matches = {} THEN 0 ELSE ahc_syncrates[Min(matches)].period

---------------------------------------------------------------------------
NoUser == [period |-> 0, wide |-> FALSE, dt |-> FALSE]

Powered ==
    /\ stage = "off" /\ source = "none" /\ sd_chip = C46
    /\ sram = board.sram
    /\ regs = [inten |-> FALSE, chiprst |-> board.fresh, powrdn |-> board.powrdn,
               scsiid |-> board.oid, stpwen |-> board.stpwen,
               scsiseq |-> board.bios, parity |-> FALSE, latch |-> {}]
    /\ left = [oid |-> 0, stpwen |-> FALSE, scsiseq |-> FALSE]
    /\ softc = [features |-> {}, flags |-> {}, our_id |-> 0, disc |-> {},
                user |-> [i \in Targets |-> NoUser],
                pause |-> FALSE, unpause |-> FALSE,
                ram |-> [enable |-> FALSE, pcheck |-> FALSE, fast |-> FALSE,
                         large |-> FALSE]]
    /\ restarts = 0

Init == board \in Boards /\ Powered

\* Mutated: only HCNTRL is masked.
OnlyHcntrl(on) ==
    /\ regs'  = [regs EXCEPT !.inten = on]
    /\ softc' = IF on THEN [softc EXCEPT !.pause = on, !.unpause = on] ELSE softc

\* ahc_intr_enable: the bit in HCNTRL and in both values the driver writes to
\* it when it pauses and unpauses the sequencer.
ahc_intr_enable(on) ==
    /\ regs'  = [regs EXCEPT !.inten = on]
    /\ softc' = [softc EXCEPT !.pause = on, !.unpause = on]

\* Aic7xxx_HwFindAdapter clears the extension; the entry's setup function says
\* what the chip can do.
HwFindAdapter ==
    /\ stage = "off"
    /\ stage' = "probe"
    /\ softc' = [softc EXCEPT
          !.features = Features(board.chip),
          !.flags = (IF board.chip \in {"aic7890", "aic7892"} THEN {"NEWEEPROM_FMT"} ELSE {})
                 \cup (IF board.speedflex THEN {"INT50_SPEEDFLEX"} ELSE {})
                 \cup (IF board.multi THEN {"LARGE_SEEPROM"} ELSE {}),
          !.our_id = 0, !.disc = {}, !.user = [i \in Targets |-> NoUser],
          !.pause = FALSE, !.unpause = FALSE]
    /\ UNCHANGED <<board, source, sd_chip, sram, regs, left, restarts>>

\* ahc_pci_test_register_access: a chip that nobody took out of reset has no
\* settings of a BIOS.  A board that does not answer is refused.
ahc_pci_test_register_access ==
    /\ stage = "probe"
    /\ stage' \in {"reset", "refused"}
    /\ softc' = [softc EXCEPT
          !.flags = @ \cup (IF regs.chiprst THEN {"NO_BIOS_INIT"} ELSE {})]
    /\ regs' = [regs EXCEPT !.inten = FALSE, !.chiprst = FALSE]
    /\ UNCHANGED <<board, source, sd_chip, sram, left, restarts>>

\* The registers after ahc_reset; SXFRCTL1 is kept over it.
AfterReset == [regs EXCEPT !.inten = softc.pause, !.powrdn = FALSE,
                           !.scsiid = 0, !.scsiseq = FALSE]

\* ahc_pci_config: remember how the card was set up, and reset it.
RememberAndReset ==
    /\ stage = "reset"
    /\ left' = IF regs.powrdn THEN [oid |-> 7, stpwen |-> TRUE, scsiseq |-> FALSE]
               ELSE [oid |-> regs.scsiid, stpwen |-> regs.stpwen,
                     scsiseq |-> regs.scsiseq]
    /\ regs' = AfterReset
    /\ softc' = [softc EXCEPT
          !.features = (@ \cup (IF board.wide THEN {"WIDE"} ELSE {}))
                       \ (IF board.rext THEN {} ELSE {"ULTRA"})]
    /\ sd_chip' = IF "LARGE_SEEPROM" \in softc.flags THEN C56_66 ELSE C46
    /\ stage' = IF board.eeprom = Missing THEN "scratch" ELSE "seeprom"
    /\ UNCHANGED <<board, source, sram, restarts>>

---------------------------------------------------------------------------
(* check_extport *)

\* Read with one number of address bits, then with the other.
ReadSeeprom ==
    /\ stage = "seeprom"
    /\ LET sound == board.eeprom = sd_chip
       IN  /\ stage' = IF sound THEN "parse"
                       ELSE IF sd_chip = C56_66 THEN "scratch" ELSE "seeprom"
           /\ source' = IF sound THEN "seeprom" ELSE source
           /\ sd_chip' = IF sound THEN sd_chip ELSE C56_66
    /\ UNCHANGED <<board, sram, regs, left, softc, restarts>>

\* A copy of the EEPROM in scratch RAM, marked in SCB 2.
ReadScratchCopy ==
    /\ stage = "scratch"
    /\ IF sram.adpt
       THEN /\ stage' = "parse" /\ source' = "adpt"
            /\ softc' = softc
       ELSE /\ stage' = "settle" /\ source' = source
            /\ softc' = [softc EXCEPT !.flags = @ \cup {"USEDEFAULTS"}]
    /\ UNCHANGED <<board, sd_chip, sram, regs, left, restarts>>

CF(bit) == bit \in board.control         \* adapter_control

\* CFULTRAEN, or CFSYNCHISULTRA of the target once any target has it.
NewFormat ==
    \/ "NEWEEPROM_FMT" \in softc.flags
    \/ CF("ULTRAEN") /\ \E i \in Targets : board.flags[i].ultra

Ultra(i) == IF NewFormat THEN board.flags[i].ultra ELSE CF("ULTRAEN")

\* 10 MHz is not an Ultra speed.
TenMHz(i) == board.flags[i].xfer = 4 /\ Ultra(i)

\* Mutated: its code is left as it is.
SameXfer(i) == board.flags[i].xfer

Xfer(i) == IF TenMHz(i) THEN 0 ELSE board.flags[i].xfer

Bit(b, value) == IF b THEN value ELSE 0

\* The byte of TARG_SCSIRATE.
ScsiRate(i) ==
    Bit(board.flags[i].wideb, 128) +
    IF Has("ULTRA2") THEN Xfer(i) + Bit(Ultra(i) /\ ~TenMHz(i), 8)
    ELSE Xfer(i) * 16 + Bit(board.flags[i].synch, 15)

ahc_parse_pci_eeprom ==
    /\ stage = "parse"
    /\ stage' = "terminate"
    /\ sram' = [sram EXCEPT
          !.rate   = [i \in Targets |-> ScsiRate(i)],
          !.offset = [i \in Targets |->
                         IF Has("ULTRA2") THEN Bit(board.flags[i].synch, MAX_OFFSET)
                         ELSE sram.offset[i]],
          !.ultra  = IF Has("ULTRA") /\ ~NewFormat /\ ~CF("ULTRAEN") THEN {}
                     ELSE {i \in Targets : Ultra(i) /\ ~TenMHz(i)},
          !.dsb    = {i \in Targets : ~board.flags[i].disc},
          !.parity = CF("SPARITY"), !.adpt = FALSE]
    /\ softc' = [softc EXCEPT !.our_id = board.id,
          !.flags = @ \cup (IF NewFormat /\ CF("ULTRAEN") THEN {"NEWEEPROM_FMT"} ELSE {})]
    /\ UNCHANGED <<board, source, sd_chip, regs, left, restarts>>

---------------------------------------------------------------------------
(* Termination.  The board has a latch behind BRDCTL; what its pins show   *)
(* depends on the bank that BRDDAT5 of the latch selects.                  *)

\* read_brdctl
Pins(latch) ==
    IF Has("NEW_TERMCTL") THEN board.sense
    ELSE IF "BRDDAT5" \in latch
         THEN (IF "ext" \in board.cables THEN {} ELSE {"BRDDAT6"})
         ELSE (IF "int50" \in board.cables THEN {} ELSE {"BRDDAT6"})
              \cup (IF "int68" \in board.cables THEN {} ELSE {"BRDDAT7"})

\* aic787X_cable_detect: the internal connectors in bank 0, the external in 1.
aic787X_cable_detect ==
    LET internal == Pins({})
        external == Pins({"BRDDAT5"})
    IN  (IF "BRDDAT6" \in internal THEN {} ELSE {"int50"})
        \cup (IF "BRDDAT7" \in internal THEN {} ELSE {"int68"})
        \cup (IF "BRDDAT6" \in external THEN {} ELSE {"ext"})

\* aic785X_cable_detect shows both connectors of the narrow board at once.
aic785X_cable_detect == board.cables \ {"int68"}

\* The connectors the table below goes by.
Connectors ==
    LET found == CASE Has("NEW_TERMCTL") -> {"int68", "ext"}
                   [] Has("SPIOCAP")     -> aic785X_cable_detect
                   [] OTHER              -> aic787X_cable_detect
        usable == (found \ (IF Has("WIDE") THEN {} ELSE {"int68"}))
                  \ (IF "INT50_SPEEDFLEX" \in softc.flags THEN {"int50"} ELSE {})
    IN  IF ~Has("ULTRA2") /\ Cardinality(usable) = 3 THEN {} ELSE usable

\* An enable of the newer scheme: detected by the board, or set by hand.
Enable(auto, bit, manual) ==
    Has("NEW_TERMCTL") /\ IF CF(auto) THEN bit \in Pins({}) ELSE CF(manual)

AutoTermination ==
    LET sec_high == Enable("SEAUTOTERM", "BRDDAT6", "SEHIGHTERM")
        sec_low  == Enable("SEAUTOTERM", "BRDDAT5", "SELOWTERM")
        pri_high == Enable("AUTOTERM", "BRDDAT4", "WSTERM")
        pri_low  == Enable("AUTOTERM", "BRDDAT3", "STERM")
        low      == Cardinality(Connectors) < 2 \/ sec_low
    IN  [stpwen |-> pri_low \/ (low /\ ~Has("ULTRA2")),
         latch  |-> (IF Has("WIDE") /\ (~{"ext", "int68"} \subseteq Connectors \/ sec_high)
                     THEN {"BRDDAT6"} ELSE {})
                    \cup (IF low /\ Has("ULTRA2") THEN {"BRDDAT5"} ELSE {})
                    \cup (IF pri_high THEN {"BRDDAT4"} ELSE {})]

ManualTermination ==
    [stpwen |-> CF("STERM"),
     latch  |-> IF ~Has("WIDE") THEN regs.latch
                ELSE IF CF("WSTERM") THEN {"BRDDAT6"} ELSE {}]

configure_termination ==
    IF CF("AUTOTERM") \/ Has("NEW_TERMCTL") THEN AutoTermination
    ELSE ManualTermination

\* The end of check_extport.  A 785x board tells whether it has the logic.
Terminate ==
    /\ stage = "terminate"
    /\ LET autoterm == ~Has("SPIOCAP") \/ board.logic
           term == IF autoterm THEN configure_termination
                   ELSE [stpwen |-> CF("STERM"), latch |-> regs.latch]
       IN  /\ left' = [left EXCEPT !.stpwen = term.stpwen]
           /\ regs' = [regs EXCEPT !.latch = term.latch,
                        !.stpwen = IF autoterm THEN term.stpwen ELSE @]
    /\ stage' = "settle"
    /\ UNCHANGED <<board, source, sd_chip, sram, softc, restarts>>

\* ahc_pci_config: without settings of the user, those a BIOS left, or defaults.
Settle ==
    /\ stage = "settle"
    /\ stage' = "sram"
    /\ LET defaults == "USEDEFAULTS" \in softc.flags
           bios     == defaults /\ "NO_BIOS_INIT" \notin softc.flags /\ left.scsiseq
           alone    == defaults /\ ~bios
           id       == CASE alone -> 7 [] bios -> left.oid [] OTHER -> softc.our_id
           stpwen   == alone \/ left.stpwen
       IN  /\ source' = CASE alone -> "defaults" [] bios -> "bios" [] OTHER -> source
           /\ left' = [left EXCEPT !.stpwen = stpwen]
           /\ sram' = [sram EXCEPT !.parity = defaults \/ @]
           /\ softc' = [softc EXCEPT !.our_id = id,
                 !.flags = (@ \ (IF bios THEN {"USEDEFAULTS"} ELSE {}))
                           \cup (IF stpwen THEN {"TERM_ENB_A"} ELSE {})]
    /\ UNCHANGED <<board, sd_chip, regs, restarts>>

---------------------------------------------------------------------------
(* External SRAM for the SCBs, as board.ram describes it.                  *)

AHC_SCB_MAX == 255

ahc_ext_scbram_present == board.ram.ramps /\ board.ram.single /\ board.chip # "aic7850"

\* ahc_scbram_config tells the timing only to the older chips.
FastTiming(c) == c.fast /\ ~Has("ULTRA2")

\* ahc_probe_scbs: a RAM that is too slow for fast timing shows nothing; SCBs
\* of 64 bytes are half as many.
ahc_probe_scbs(c) ==
    IF FastTiming(c) /\ ~board.ram.fast THEN 0
    ELSE Min({AHC_SCB_MAX, IF c.large THEN board.ram.scbs \div 2 ELSE board.ram.scbs})

\* A parity error is latched when RAM without parity bits is checked.
Mparerr(c) == c.pcheck /\ (~board.ram.parity \/ (FastTiming(c) /\ ~board.ram.fast))

NoRam == [enable |-> FALSE, pcheck |-> FALSE, fast |-> FALSE, large |-> FALSE]

ahc_probe_ext_scbram ==
    LET slow   == [NoRam EXCEPT !.enable = TRUE]
        check  == [slow EXCEPT !.pcheck = TRUE]
        parity == [slow EXCEPT !.pcheck = ~Mparerr(check)]
        quick  == [parity EXCEPT !.fast = TRUE]
        speed  == IF ahc_probe_scbs(quick) = ahc_probe_scbs(check) /\ ~Mparerr(quick)
                  THEN quick ELSE parity
        big    == [speed EXCEPT !.large = TRUE]
    IN  IF ~ahc_ext_scbram_present \/ ahc_probe_scbs(slow) = 0 THEN NoRam
        ELSE IF Has("LARGE_SCBS") /\ ahc_probe_scbs(big) >= ahc_probe_scbs(check)
             THEN big ELSE speed

ProbeRam ==
    /\ stage = "sram"
    /\ stage' = "init"
    /\ LET ram == ahc_probe_ext_scbram
       IN  softc' = [softc EXCEPT !.ram = ram,
             !.flags = (@ \ {"LSCBS_ENABLED"})
                \cup (IF ram.large THEN {"LSCBS_ENABLED"} ELSE {})
                \cup (IF ram.large /\ ahc_probe_scbs(ram) >= 64 THEN {"SCB_BTT"} ELSE {})]
    /\ UNCHANGED <<board, source, sd_chip, sram, regs, left, restarts>>

---------------------------------------------------------------------------
(* ahc_init *)

Default == [period |-> ahc_syncrates[1].period, wide |-> Has("WIDE"), dt |-> FALSE]

\* An Ultra2 target that has not negotiated is in the format of the older chips.
\* The expression of the source binds as (rate | ultra) ? 0x08 : (0 | wide).
Unnegotiated(rate, ultra) ==
    IF Sxfr(rate) # 0 \/ ultra THEN 8 ELSE Bit(IsWide(rate), 128)

DecodeUltra2(byte, offset, ultra) ==
    LET old  == Sofs(byte) = 15
        off  == IF old THEN MAX_OFFSET ELSE offset
        code == IF old THEN Unnegotiated(byte, ultra) ELSE byte
        rate == IF code % 128 = 0 /\ off # 0 THEN code + 28 ELSE code
    IN  [period |-> IF off = 0 THEN 0
                    ELSE ahc_find_period(rate, IF Has("DT") THEN AHC_SYNCRATE_DT
                                               ELSE AHC_SYNCRATE_ULTRA2),
         wide   |-> IsWide(rate) /\ Has("WIDE"),
         dt     |-> Sofs(rate) <= 8 /\ Has("DT")]

DecodeFast(byte, ultra) ==
    LET ten  == Sxfr(byte) = 4 /\ ultra
        rate == IF ten THEN byte - 64 ELSE byte
    IN  [period |-> IF Sofs(byte) = 0 THEN 0
                    ELSE ahc_find_period(rate, IF ultra /\ ~ten THEN AHC_SYNCRATE_ULTRA
                                               ELSE AHC_SYNCRATE_FAST),
         wide   |-> IsWide(byte) /\ Has("WIDE"),
         dt     |-> FALSE]

ultraenb == IF Has("ULTRA") \/ Has("ULTRA2") THEN sram.ultra ELSE {}

ahc_init ==
    /\ stage = "init"
    /\ stage' = "start"
    /\ LET defaults == "USEDEFAULTS" \in softc.flags
       IN  softc' = [softc EXCEPT
             !.our_id = IF defaults THEN 7 ELSE @,
             !.disc = IF defaults THEN Targets ELSE Targets \ sram.dsb,
             !.user = [i \in Targets |->
                 IF defaults THEN Default
                 ELSE IF Has("ULTRA2")
                 THEN DecodeUltra2(sram.rate[i], sram.offset[i], i \in ultraenb)
                 ELSE DecodeFast(sram.rate[i], i \in ultraenb)]]
    /\ UNCHANGED <<board, source, sd_chip, sram, regs, left, restarts>>

\* The first entries of CMDSIZE_TABLE, which is where TARG_SCSIRATE was.
CmdSize == [i \in Targets |-> <<5, 9, 9, 0, 15, 11, 0, 0>>[i + 1]]

\* ahc_chip_init; ahc_restart ends it by letting the sequencer go.
ChipRegs(r) ==
    [r EXCEPT !.scsiid = softc.our_id, !.parity = sram.parity,
              !.stpwen = "TERM_ENB_A" \in softc.flags,
              !.scsiseq = TRUE, !.inten = softc.unpause]

ahc_chip_init ==
    /\ stage = "start"
    /\ stage' = "found"
    /\ sram' = [sram EXCEPT !.rate = CmdSize]
    /\ regs' = ChipRegs(regs)
    /\ UNCHANGED <<board, source, sd_chip, left, softc, restarts>>

\* The end of Aic7xxx_HwFindAdapter.
Found ==
    /\ stage = "found"
    /\ stage' = "running"
    /\ ahc_intr_enable(TRUE)
    /\ UNCHANGED <<board, source, sd_chip, sram, left, restarts>>

---------------------------------------------------------------------------
(* Aic7xxx_HwAdapterControl *)

ScsiStopAdapter ==
    /\ stage = "running" /\ restarts < MaxRestarts
    /\ stage' = "stopped"
    /\ ahc_intr_enable(FALSE)
    /\ UNCHANGED <<board, source, sd_chip, sram, left, restarts>>

\* The board sleeps: its registers are lost.
LosePower ==
    /\ stage = "stopped"
    /\ regs' = [regs EXCEPT !.stpwen = FALSE, !.scsiid = 0, !.scsiseq = FALSE,
                !.latch = IF "latch" \in LostInSleep THEN {} ELSE @]
    /\ \E p \in BOOLEAN :
          /\ "scratch" \notin LostInSleep => p = sram.parity
          /\ sram' = [sram EXCEPT !.parity = p]
    /\ UNCHANGED <<board, stage, source, sd_chip, left, softc, restarts>>

\* ScsiRestartAdapter: ahc_reset(ahc, 1) and interrupts.
ScsiRestartAdapter ==
    /\ stage = "stopped"
    /\ restarts' = restarts + 1
    /\ stage' = "found"
    /\ sram' = [sram EXCEPT !.rate = CmdSize]
    /\ regs' = ChipRegs(AfterReset)
    /\ UNCHANGED <<board, source, sd_chip, left, softc>>

\* The driver is unloaded after ScsiStopAdapter and loaded again.
LoadAgain ==
    /\ stage = "stopped" /\ source \in Reload
    /\ restarts' = restarts + 1
    /\ stage' = "off"
    /\ UNCHANGED <<board, source, sd_chip, sram, regs, left, softc>>

Next ==
    \/ HwFindAdapter \/ ahc_pci_test_register_access \/ RememberAndReset
    \/ ReadSeeprom \/ ReadScratchCopy \/ ahc_parse_pci_eeprom \/ Terminate
    \/ Settle \/ ProbeRam \/ ahc_init \/ ahc_chip_init \/ Found
    \/ ScsiStopAdapter \/ LosePower \/ ScsiRestartAdapter \/ LoadAgain

Spec == Init /\ [][Next]_vars

---------------------------------------------------------------------------
(* What the settings mean, whatever way they take to the driver.           *)

Configured == stage \in {"found", "running", "stopped"}

Newer == board.chip \in {"aic7890", "aic7892"}

\* The transfer periods in the order of their codes, for each kind of chip.
FastPeriods   == <<25, 31, 37, 43, 50, 56, 62, 68>>
UltraPeriods  == <<12, 15, 18>>
Ultra2Periods == <<50, 0, 9, 10, 11, 12, 15, 18, 25, 31, 37, 43, 50>>

CanUltra == board.chip \in {"aic7850", "aic7880"} /\ board.rext

PeriodOf(code, ultra) ==
    IF Newer THEN Ultra2Periods[code + 1 + Bit(ultra, 8)]
    ELSE IF ultra /\ code = 4 THEN FastPeriods[1]
    ELSE IF ultra /\ CanUltra THEN UltraPeriods[code + 1]
    ELSE FastPeriods[code + 1]

\* A setting of each source: the code of the rate, whether it is one of the
\* Ultra rates, and whether the target may transfer synchronously at all.
OfWords(i) ==
    [code |-> board.flags[i].xfer, sync |-> board.flags[i].synch,
     ultra |-> IF Newer \/ \E j \in Targets : board.flags[j].ultra
               THEN (Newer \/ CF("ULTRAEN")) /\ board.flags[i].ultra
               ELSE CF("ULTRAEN"),
     wide |-> board.flags[i].wideb, disc |-> board.flags[i].disc]

OfBios(i) ==
    LET byte == board.sram.rate[i]
        old  == ~Newer \/ Sofs(byte) = 15
    IN  [code |-> IF old THEN Sxfr(byte) ELSE Sofs(byte),
         sync |-> IF Newer THEN Sofs(byte) = 15 \/ board.sram.offset[i] # 0
                  ELSE Sofs(byte) # 0,
         ultra |-> old /\ i \in board.sram.ultra,
         wide |-> IsWide(byte), disc |-> i \notin board.sram.dsb]

Meaning(i) == IF source = "bios" THEN OfBios(i) ELSE OfWords(i)

RateAsAsked(i) ==
    LET m == Meaning(i)
    IN  /\ softc.user[i].period = IF m.sync THEN PeriodOf(m.code, m.ultra) ELSE 0
        /\ softc.user[i].wide = (m.wide /\ board.wide)

\* What a BIOS leaves for an Ultra2 target that has not negotiated, where the
\* expression of Unnegotiated takes a rate for 10 MHz, or loses the width.
Misread(i) ==
    LET byte == board.sram.rate[i]
    IN  /\ source = "bios" /\ Newer /\ Sofs(byte) = 15
        /\ Sxfr(byte) # 0 \/ (i \in board.sram.ultra /\ IsWide(byte))

\* Rate, width and disconnection of a target are those that its settings ask
\* for, as far as the board can: no step between the EEPROM and the driver's
\* table takes a rate for another, but for the one that Misread names
\* (ahc_parse_pci_eeprom, ahc_init).
TargetAsAsked(i) ==
    /\ Misread(i) \/ RateAsAsked(i)
    /\ (i \in softc.disc) = Meaning(i).disc
    /\ softc.user[i].dt => board.chip = "aic7892"

SettingsAreTaken ==
    Configured =>
        IF source = "defaults"
        THEN softc.disc = Targets /\ \A i \in Targets : softc.user[i] = Default
        ELSE \A i \in Targets : TargetAsAsked(i)

\* The board ends the bus exactly where the bus ends, or as the user says.
\* Two cables mean that it sits in the middle; only the 68 pin connectors
\* carry the high byte.  The 50 pin connector of an AHA-2940 Pro is a bus of
\* its own, terminated whatever is on the other two.
TerminationAsked ==
    LET wordsThere == source \in {"seeprom", "adpt"}
        hand       == (board.chip = "aic7850" /\ ~board.logic) \/ ~CF("AUTOTERM")
        cables     == board.cables \ ((IF board.wide THEN {} ELSE {"int68"})
                                      \cup (IF board.speedflex THEN {"int50"} ELSE {}))
        many       == Cardinality(cables) = 3
    IN  CASE ~wordsThere ->
                 /\ regs.stpwen = (source = "defaults" \/ board.stpwen)
                 /\ regs.latch = {}
          [] wordsThere /\ Newer ->
                 /\ regs.stpwen = (IF CF("AUTOTERM") THEN "BRDDAT3" \in board.sense
                                   ELSE CF("STERM"))
                 /\ ("BRDDAT4" \in regs.latch) = (IF CF("AUTOTERM") THEN "BRDDAT4" \in board.sense
                                   ELSE CF("WSTERM"))
                 /\ ("BRDDAT5" \in regs.latch) = (IF CF("SEAUTOTERM") THEN "BRDDAT5" \in board.sense
                                   ELSE CF("SELOWTERM"))
                 /\ ("BRDDAT6" \in regs.latch) = (IF CF("SEAUTOTERM") THEN "BRDDAT6" \in board.sense
                                   ELSE CF("SEHIGHTERM"))
          [] wordsThere /\ ~Newer /\ hand ->
                 /\ regs.stpwen = CF("STERM")
                 /\ ("BRDDAT6" \in regs.latch) = (board.wide /\ CF("WSTERM"))
          [] OTHER ->
                 /\ regs.stpwen = (board.speedflex \/ many \/ Cardinality(cables) < 2)
                 /\ ("BRDDAT6" \in regs.latch) =
                        (board.wide /\ (many \/ ~{"ext", "int68"} \subseteq cables))

\* The id and the parity checking the chip runs with.
IdAsked == CASE source \in {"seeprom", "adpt"} -> board.id
             [] source = "bios"                -> board.oid
             [] OTHER                          -> 7

\* The external SRAM is used only in a way it can be used, and the table of busy
\* targets is moved to it only if there are 64 large SCBs for it.
RamIsUsable ==
    LET ram == softc.ram
    IN  /\ ram.enable => board.ram.single /\ board.ram.scbs > 0
        /\ ram.fast /\ ~Newer => board.ram.fast
        /\ ram.pcheck => board.ram.parity
        /\ "SCB_BTT" \in softc.flags => ram.large /\ board.ram.scbs >= 128

\* While the board runs, after every stop and restart, the registers a reset
\* clears are as the settings ask (ahc_pci_config, check_extport, ahc_reset,
\* ahc_chip_init, Aic7xxx_HwAdapterControl).
RunsAsAsked ==
    stage = "running" =>
        /\ regs.scsiid = IdAsked
        /\ regs.parity = (source \in {"seeprom", "adpt"} => CF("SPARITY"))
        /\ TerminationAsked
        /\ RamIsUsable

\* No interrupt reaches the port driver before the board is set up, nor from
\* ScsiStopAdapter to the end of the restart: every write of HCNTRL in between
\* uses a value without INTEN (ahc_intr_enable, ahc_pause, ahc_reset).
QuietUntilReady == regs.inten => stage = "running"

TypeOK ==
    /\ stage \in {"off", "probe", "reset", "refused", "seeprom", "scratch",
                  "parse", "terminate", "settle", "sram", "init", "start",
                  "found", "running", "stopped"}
    /\ source \in {"none", "seeprom", "adpt", "bios", "defaults"}
    /\ sram.rate \in [Targets -> 0 .. 255] /\ sram.ultra \subseteq Targets
    /\ sd_chip \in {C46, C56_66} /\ restarts \in 0 .. MaxRestarts

\* The stages and tables are of their types, and the board is quiet until it is
\* ready.
BoardConsistent == TypeOK /\ QuietUntilReady
=============================================================================
