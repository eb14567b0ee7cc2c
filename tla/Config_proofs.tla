--------------------------- MODULE Config_proofs ---------------------------
(***************************************************************************)
(* Finding, configuring, stopping and restarting a board of either family: *)
(* for any number of targets, boards, restarts, SCBs and entries of the    *)
(* qoutfifo.                                                               *)
(*                                                                         *)
(* The invariant is built up in layers.  Kept: both drivers' records are   *)
(* of their types and no write of HCNTRL lets an interrupt through too     *)
(* early.  Staged, AhdStaged: what each function of the start of day finds *)
(* done, from the words of the EEPROM to the driver's table.  SetUp,       *)
(* AhdSetUp: what the registers, the latches and the SRAM hold at each of  *)
(* these stages.  AhdAgree: driver and chip about both queues.             *)
(***************************************************************************)
EXTENDS MCConfig, FiniteSetTheorems, TLAPS

-----------------------------------------------------------------------------
(* The aic7xxx: types.                                                     *)

BothLatches == {"BRDDAT4", "BRDDAT5", "BRDDAT6"}
FeatureNames == {"SPIOCAP", "ULTRA", "ULTRA2", "NEW_TERMCTL", "LARGE_SCBS", "DT", "WIDE"}
FlagNames == {"NEWEEPROM_FMT", "INT50_SPEEDFLEX", "LARGE_SEEPROM", "NO_BIOS_INIT", "USEDEFAULTS",
              "TERM_ENB_A", "LSCBS_ENABLED", "SCB_BTT"}

RamType  == [enable : BOOLEAN, pcheck : BOOLEAN, fast : BOOLEAN, large : BOOLEAN]
UserType == [period : Nat, wide : BOOLEAN, dt : BOOLEAN]
SramType == [rate : [Targets -> 0 .. 255], offset : [Targets -> 0 .. MAX_OFFSET],
             ultra : SUBSET Targets, dsb : SUBSET Targets, parity : BOOLEAN, adpt : BOOLEAN]
RegsType == [inten : BOOLEAN, chiprst : BOOLEAN, powrdn : BOOLEAN, scsiid : 0 .. 15,
             stpwen : BOOLEAN, scsiseq : BOOLEAN, parity : BOOLEAN, latch : SUBSET BothLatches]
LeftType == [oid : 0 .. 15, stpwen : BOOLEAN, scsiseq : BOOLEAN]
SoftcType == [features : SUBSET FeatureNames, flags : SUBSET FlagNames, our_id : 0 .. 15,
              disc : SUBSET Targets, user : [Targets -> UserType],
              pause : BOOLEAN, unpause : BOOLEAN, ram : RamType]

Types ==
    /\ TypeOK
    /\ stage = "stopped" => restarts < MaxRestarts
    /\ sram \in SramType /\ regs \in RegsType /\ left \in LeftType /\ softc \in SoftcType

\* Nobody is let through, nor will be by a write of HCNTRL.
Quiet == regs.inten \/ softc.pause \/ softc.unpause => stage = "running"

LEMMA PlainBoard == SoundBoard(Board)
  BY BoardsAssumption

LEMMA RateByte ==
    ASSUME NEW c, NEW r \in Rates(c)
    PROVE  r \in 0 .. 255
  BY DEF Rates

LEMMA SoundSram ==
    ASSUME NEW b, SoundBoard(b)
    PROVE  b.sram \in SramType
<1>1. b.sram \in [rate : [Targets -> Rates(b.chip)], offset : [Targets -> {0, MAX_OFFSET}],
                       ultra : SUBSET Targets, dsb : SUBSET Targets,
                       parity : BOOLEAN, adpt : BOOLEAN]
  BY DEF SoundBoard
<1>2. b.sram.rate \in [Targets -> 0 .. 255]
  BY <1>1, RateByte
<1>3. b.sram.offset \in [Targets -> 0 .. MAX_OFFSET]
  BY <1>1 DEF MAX_OFFSET
<1> QED
  BY <1>1, <1>2, <1>3 DEF SramType

LEMMA InitTypes ==
    ASSUME board \in (Boards \ Extras) \cup {Board}, Powered
    PROVE  Types /\ Quiet
<1>1. SoundBoard(board)
  BY BoardsAssumption
<1>2. sram \in SramType
  BY <1>1, SoundSram DEF Powered
<1>3. regs \in RegsType
  BY <1>1 DEF Powered, RegsType, SoundBoard
<1>4. left \in LeftType
  BY DEF Powered, LeftType
<1>5. softc \in SoftcType
  BY DEF Powered, SoftcType, UserType, RamType, NoUser
<1>6. TypeOK
  BY <1>2, RestartsAssumption DEF Powered, TypeOK, SramType
<1>7. Quiet
  BY DEF Powered, Quiet
<1> QED
  BY <1>2, <1>3, <1>4, <1>5, <1>6, <1>7 DEF Types, Powered

(* Records with some fields written anew. *)

LEMMA RegsWritten ==
    ASSUME NEW r \in RegsType, NEW i \in 0 .. 15, NEW p \in BOOLEAN, NEW t \in BOOLEAN,
           NEW q \in BOOLEAN, NEW n \in BOOLEAN
    PROVE  /\ [r EXCEPT !.scsiid = i, !.parity = p, !.stpwen = t, !.scsiseq = q, !.inten = n]
                 \in RegsType
           /\ [r EXCEPT !.inten = n, !.powrdn = p, !.scsiid = i, !.scsiseq = q] \in RegsType
  BY ZenonT(40) DEF RegsType

LEMMA Cleared ==
    ASSUME regs \in RegsType, softc \in SoftcType
    PROVE  AfterReset \in RegsType
<1>1. 0 \in 0 .. 15 /\ FALSE \in BOOLEAN /\ softc.pause \in BOOLEAN
  BY DEF SoftcType
<1> QED
  BY <1>1, RegsWritten, Zenon DEF AfterReset

LEMMA Initialised ==
    ASSUME NEW r \in RegsType, sram \in SramType, softc \in SoftcType
    PROVE  ChipRegs(r) \in RegsType
<1> DEFINE t == "TERM_ENB_A" \in softc.flags
<1>1. t \in BOOLEAN
  OBVIOUS
<1> DEFINE i == softc.our_id
           p == sram.parity
           q == TRUE
           n == softc.unpause
<1>2. ChipRegs(r) = [r EXCEPT !.scsiid = i, !.parity = p, !.stpwen = t, !.scsiseq = q, !.inten = n]
  BY Zenon DEF ChipRegs
<1>3. i \in 0 .. 15 /\ p \in BOOLEAN /\ q \in BOOLEAN /\ n \in BOOLEAN
  BY DEF SoftcType, SramType
<1> HIDE DEF t, i, p, q, n
<1> QED
  BY <1>1, <1>2, <1>3 DEF RegsType

LEMMA Cmds == CmdSize \in [Targets -> 0 .. 255]
<1>1. \A i \in 0 .. 7 : <<5, 9, 9, 0, 15, 11, 0, 0>>[i + 1] \in 0 .. 255
  OBVIOUS
<1>2. Targets \subseteq 0 .. 7
  BY TargetsAssumption
<1> QED
  BY <1>1, <1>2 DEF CmdSize

-----------------------------------------------------------------------------
(* The table of rates. *)

LEMMA Syncrates ==
    /\ Len(ahc_syncrates) = 14
    /\ \A i \in 1 .. 14 : /\ ahc_syncrates[i].u2 \in Nat /\ ahc_syncrates[i].sxfr \in Nat
                          /\ ahc_syncrates[i].period \in Nat
  BY DEF ahc_syncrates

LEMMA MinIs ==
    ASSUME NEW S, NEW m \in S, S \subseteq Int, \A x \in S : m <= x
    PROVE  Min(S) = m
<1> DEFINE P(x) == \A y \in S : x <= y
<1>1. Min(S) = CHOOSE x \in S : P(x)
  BY DEF Min
<1>2. (CHOOSE x \in S : P(x)) \in S /\ P(CHOOSE x \in S : P(x))
  BY Zenon
<1> HIDE DEF P
<1>3. Min(S) \in S /\ P(Min(S))
  BY <1>1, <1>2
<1>4. Min(S) <= m /\ m <= Min(S) /\ Min(S) \in Int /\ m \in Int
  BY <1>3 DEF P
<1> QED
  BY <1>4

LEMMA MinIn ==
    ASSUME NEW S, S # {}, S \subseteq 1 .. 14
    PROVE  Min(S) \in S
<1>1. \E m \in S : \A x \in S : m <= x
  <2>1. SUFFICES ASSUME \A m \in S : \E x \in S : x < m
                 PROVE FALSE
    OBVIOUS
  <2>2. 1 \notin S
    BY <2>1
  <2>3. 2 \notin S /\ 3 \notin S /\ 4 \notin S
    BY <2>1, <2>2
  <2>4. 5 \notin S /\ 6 \notin S /\ 7 \notin S
    BY <2>1, <2>2, <2>3
  <2>5. 8 \notin S /\ 9 \notin S /\ 10 \notin S
    BY <2>1, <2>2, <2>3, <2>4
  <2>6. 11 \notin S /\ 12 \notin S /\ 13 \notin S /\ 14 \notin S
    BY <2>1, <2>2, <2>3, <2>4, <2>5
  <2>7. PICK x \in S : TRUE
    OBVIOUS
  <2>8. x \in 1 .. 14 /\ x \notin 1 .. 14
    BY <2>2, <2>3, <2>4, <2>5, <2>6, <2>7
  <2> QED
    BY <2>8
<1>2. PICK m \in S : \A x \in S : m <= x
  BY <1>1
<1>3. S \subseteq Int
  OBVIOUS
<1>4. Min(S) = m
  BY <1>2, <1>3, MinIs
<1> QED
  BY <1>4

LEMMA PeriodNat ==
    ASSUME NEW rate, NEW maxsync \in 0 .. 6
    PROVE  ahc_find_period(rate, maxsync) \in Nat
<1>1. FirstRate(maxsync) \in Nat
  <2>1. \A a \in Int, b \in Int : Max({a, b}) \in {a, b}
    <3> SUFFICES ASSUME NEW a \in Int, NEW b \in Int PROVE Max({a, b}) \in {a, b}
      OBVIOUS
    <3>1. \E x \in {a, b} : \A y \in {a, b} : x >= y
      OBVIOUS
    <3> QED
      BY <3>1, Zenon DEF Max
  <2> QED
    BY <2>1 DEF FirstRate, AHC_SYNCRATE_ULTRA2, AHC_SYNCRATE_ULTRA, AHC_SYNCRATE_FAST
<1> DEFINE matches == {i \in FirstRate(maxsync) + 1 .. Len(ahc_syncrates) :
                      IF Has("ULTRA2")
                      THEN ahc_syncrates[i].u2 # 0 /\ ahc_syncrates[i].u2 % 16 = Sofs(rate)
                      ELSE Sxfr(ahc_syncrates[i].sxfr) = Sxfr(rate)}
<1>2. ahc_find_period(rate, maxsync)
         = IF matches = {} THEN 0 ELSE ahc_syncrates[Min(matches)].period
  BY DEF ahc_find_period
<1>3. matches \subseteq 1 .. 14
  BY <1>1, Syncrates
<1> HIDE DEF matches
<1>4. matches # {} => Min(matches) \in 1 .. 14
  BY <1>3, MinIn
<1> QED
  BY <1>2, <1>4, Syncrates

LEMMA RateIsByte ==
    ASSUME SoundBoard(board), NEW i \in Targets
    PROVE  ScsiRate(i) \in 0 .. 255
<1> DEFINE x == Xfer(i)
           w == Bit(board.flags[i].wideb, 128)
           u == Bit(Ultra(i) /\ ~TenMHz(i), 8)
           y == Bit(board.flags[i].synch, 15)
<1>1. x \in 0 .. 7
  BY DEF Xfer, SoundBoard, Flags
<1>2. w \in {0, 128} /\ u \in {0, 8} /\ y \in {0, 15}
  BY DEF Bit
<1>3. ScsiRate(i) = w + (IF Has("ULTRA2") THEN x + u ELSE x * 16 + y)
  BY DEF ScsiRate
<1> HIDE DEF x, w, u, y
<1> QED
  BY <1>1, <1>2, <1>3

TermType == [stpwen : BOOLEAN, latch : SUBSET BothLatches]

LEMMA TerminationType ==
    ASSUME regs \in RegsType
    PROVE  configure_termination \in TermType
<1>1. AutoTermination \in TermType
  <2> DEFINE sec_high == Enable("SEAUTOTERM", "BRDDAT6", "SEHIGHTERM")
             sec_low  == Enable("SEAUTOTERM", "BRDDAT5", "SELOWTERM")
             pri_high == Enable("AUTOTERM", "BRDDAT4", "WSTERM")
             pri_low  == Enable("AUTOTERM", "BRDDAT3", "STERM")
             low      == Cardinality(Connectors) < 2 \/ sec_low
             s == pri_low \/ (low /\ ~Has("ULTRA2"))
             l == (IF Has("WIDE") /\ (~{"ext", "int68"} \subseteq Connectors \/ sec_high)
                     THEN {"BRDDAT6"} ELSE {})
                    \cup (IF low /\ Has("ULTRA2") THEN {"BRDDAT5"} ELSE {})
                    \cup (IF pri_high THEN {"BRDDAT4"} ELSE {})
  <2>1. AutoTermination = [stpwen |-> s, latch |-> l]
    BY Zenon DEF AutoTermination
  <2>2. l \in SUBSET BothLatches
    BY DEF BothLatches
  <2>3. s \in BOOLEAN
    BY DEF Enable
  <2> HIDE DEF s, l
  <2> QED
    BY <2>1, <2>2, <2>3 DEF TermType
<1>2. ManualTermination \in TermType
  <2> DEFINE s == CF("STERM")
             l == IF ~Has("WIDE") THEN regs.latch ELSE IF CF("WSTERM") THEN {"BRDDAT6"} ELSE {}
  <2>1. ManualTermination = [stpwen |-> s, latch |-> l]
    BY Zenon DEF ManualTermination
  <2>2. l \in SUBSET BothLatches
    BY DEF BothLatches, RegsType
  <2>3. s \in BOOLEAN
    BY DEF CF
  <2> HIDE DEF s, l
  <2> QED
    BY <2>1, <2>2, <2>3 DEF TermType
<1> QED
  BY <1>1, <1>2 DEF configure_termination

LEMMA UserTypes ==
    ASSUME NEW i \in Targets, sram \in SramType, NEW u \in BOOLEAN
    PROVE  /\ Default \in UserType
           /\ DecodeUltra2(sram.rate[i], sram.offset[i], u) \in UserType
           /\ DecodeFast(sram.rate[i], u) \in UserType
<1>0. \A p \in Nat, w \in BOOLEAN, d \in BOOLEAN :
         [period |-> p, wide |-> w, dt |-> d] \in UserType
  BY DEF UserType
<1>1. Default \in UserType
  <2>1. ahc_syncrates[1].period \in Nat /\ Has("WIDE") \in BOOLEAN
    BY Syncrates DEF Has
  <2> QED
    BY <1>0, <2>1 DEF Default
<1>2. DecodeUltra2(sram.rate[i], sram.offset[i], u) \in UserType
  <2> DEFINE byte == sram.rate[i]
             old  == Sofs(byte) = 15
             off  == IF old THEN MAX_OFFSET ELSE sram.offset[i]
             code == IF old THEN Unnegotiated(byte, u) ELSE byte
             rate == IF code % 128 = 0 /\ off # 0 THEN code + 28 ELSE code
             p == IF off = 0 THEN 0
                  ELSE ahc_find_period(rate, IF Has("DT") THEN AHC_SYNCRATE_DT
                                             ELSE AHC_SYNCRATE_ULTRA2)
             w == IsWide(rate) /\ Has("WIDE")
             d == Sofs(rate) <= 8 /\ Has("DT")
  <2>1. DecodeUltra2(sram.rate[i], sram.offset[i], u) = [period |-> p, wide |-> w, dt |-> d]
    BY Zenon DEF DecodeUltra2
  <2>2. p \in Nat
    BY PeriodNat DEF AHC_SYNCRATE_DT, AHC_SYNCRATE_ULTRA2
  <2>3. w \in BOOLEAN /\ d \in BOOLEAN
    OBVIOUS
  <2> HIDE DEF p, w, d
  <2> QED
    BY <1>0, <2>1, <2>2, <2>3
<1>3. DecodeFast(sram.rate[i], u) \in UserType
  <2> DEFINE byte == sram.rate[i]
             ten  == Sxfr(byte) = 4 /\ u
             rate == IF ten THEN byte - 64 ELSE byte
             p == IF Sofs(byte) = 0 THEN 0
                  ELSE ahc_find_period(rate, IF u /\ ~ten THEN AHC_SYNCRATE_ULTRA
                                             ELSE AHC_SYNCRATE_FAST)
             w == IsWide(byte) /\ Has("WIDE")
  <2>1. DecodeFast(sram.rate[i], u) = [period |-> p, wide |-> w, dt |-> FALSE]
    BY Zenon DEF DecodeFast
  <2>2. p \in Nat
    BY PeriodNat DEF AHC_SYNCRATE_ULTRA, AHC_SYNCRATE_FAST
  <2>3. w \in BOOLEAN
    OBVIOUS
  <2> HIDE DEF p, w
  <2> QED
    BY <1>0, <2>1, <2>2, <2>3
<1> QED
  BY <1>1, <1>2, <1>3

LEMMA RamProbed ==
    /\ ahc_probe_ext_scbram \in RamType
    /\ NoRam \in RamType
<1>1. NoRam \in RamType
  BY DEF NoRam, RamType
<1> DEFINE slow   == [NoRam EXCEPT !.enable = TRUE]
           check  == [slow EXCEPT !.pcheck = TRUE]
           m      == ~Mparerr(check)
           parity == [slow EXCEPT !.pcheck = m]
           quick  == [parity EXCEPT !.fast = TRUE]
           speed  == IF ahc_probe_scbs(quick) = ahc_probe_scbs(check) /\ ~Mparerr(quick)
                     THEN quick ELSE parity
           big    == [speed EXCEPT !.large = TRUE]
<1>2. ahc_probe_ext_scbram =
        IF ~ahc_ext_scbram_present \/ ahc_probe_scbs(slow) = 0 THEN NoRam
        ELSE IF Has("LARGE_SCBS") /\ ahc_probe_scbs(big) >= ahc_probe_scbs(check)
             THEN big ELSE speed
  BY DEF ahc_probe_ext_scbram
<1>3. slow \in RamType
  BY <1>1 DEF RamType
<1>4. m \in BOOLEAN
  OBVIOUS
<1> HIDE DEF m, slow
<1>5. parity \in RamType
  BY <1>3, <1>4 DEF RamType
<1> HIDE DEF parity
<1>6. speed \in RamType
  BY <1>5 DEF RamType
<1> HIDE DEF speed
<1>7. big \in RamType
  BY <1>6 DEF RamType
<1> QED
  BY <1>1, <1>2, <1>6, <1>7, Zenon

LEMMA StepTypes ==
    ASSUME Types, SoundBoard(board), [Next]_vars
    PROVE  Types'
<1> USE DEF Types
<1>1. CASE HwFindAdapter
  <2>1. sram' \in SramType
    BY <1>1 DEF HwFindAdapter, SramType
  <2>2. regs' \in RegsType
    BY <1>1 DEF HwFindAdapter, RegsType, BothLatches
  <2>3. left' \in LeftType
    BY <1>1 DEF HwFindAdapter, LeftType
  <2>4. softc' \in SoftcType
    <3> DEFINE g == (IF board.chip \in {"aic7890", "aic7892"} THEN {"NEWEEPROM_FMT"} ELSE {})
                 \cup (IF board.speedflex THEN {"INT50_SPEEDFLEX"} ELSE {})
                 \cup (IF board.multi THEN {"LARGE_SEEPROM"} ELSE {})
               f == Features(board.chip)
               u == [i \in Targets |-> NoUser]
    <3>1. g \in SUBSET FlagNames
      BY DEF FlagNames
    <3>2. f \in SUBSET FeatureNames
      BY DEF Features, FeatureNames, SoundBoard, Chips
    <3>3. u \in [Targets -> UserType]
      BY DEF NoUser, UserType
    <3>4. softc' = [softc EXCEPT !.features = f, !.flags = g, !.our_id = 0, !.disc = {},
                                 !.user = u, !.pause = FALSE, !.unpause = FALSE]
      BY <1>1, Zenon DEF HwFindAdapter
    <3>5. \A a \in SUBSET FeatureNames, b \in SUBSET FlagNames, c \in [Targets -> UserType],
             n \in 0 .. 15, p \in BOOLEAN, d \in SUBSET Targets :
             [softc EXCEPT !.features = a, !.flags = b, !.our_id = n, !.disc = d,
                           !.user = c, !.pause = p, !.unpause = p] \in SoftcType
      BY ZenonT(40) DEF SoftcType
    <3>6. 0 \in 0 .. 15 /\ FALSE \in BOOLEAN /\ {} \in SUBSET Targets
      OBVIOUS
    <3> HIDE DEF f, g, u
    <3> QED
      BY <3>1, <3>2, <3>3, <3>4, <3>5, <3>6, Zenon
  <2>5. TypeOK'
    BY <1>1, <2>1, TargetsAssumption, RestartsAssumption DEF HwFindAdapter, TypeOK, SramType, C46, C56_66
  <2>6. (stage = "stopped" => restarts < MaxRestarts)'
    BY <1>1 DEF HwFindAdapter
  <2> QED
    BY <2>1, <2>2, <2>3, <2>4, <2>5, <2>6
<1>2. CASE ahc_pci_test_register_access
  <2>1. sram' \in SramType
    BY <1>2 DEF ahc_pci_test_register_access, SramType
  <2>2. regs' \in RegsType
    BY <1>2 DEF ahc_pci_test_register_access, RegsType, BothLatches
  <2>3. left' \in LeftType
    BY <1>2 DEF ahc_pci_test_register_access, LeftType
  <2>4. softc' \in SoftcType
    BY <1>2 DEF ahc_pci_test_register_access, SoftcType, FeatureNames, FlagNames, RamType
  <2>5. TypeOK'
    BY <1>2, <2>1, TargetsAssumption, RestartsAssumption DEF ahc_pci_test_register_access, TypeOK, SramType, C46, C56_66
  <2>6. (stage = "stopped" => restarts < MaxRestarts)'
    BY <1>2 DEF ahc_pci_test_register_access
  <2> QED
    BY <2>1, <2>2, <2>3, <2>4, <2>5, <2>6
<1>3. CASE RememberAndReset
  <2>1. sram' \in SramType
    BY <1>3 DEF RememberAndReset, SramType, AfterReset
  <2>2. regs' \in RegsType
    BY <1>3, Cleared, Zenon DEF RememberAndReset
  <2>3. left' \in LeftType
    <3>1. regs.powrdn \in BOOLEAN /\ regs.scsiid \in 0 .. 15 /\ regs.stpwen \in BOOLEAN
          /\ regs.scsiseq \in BOOLEAN
      BY DEF RegsType
    <3>2. [oid |-> 7, stpwen |-> TRUE, scsiseq |-> FALSE] \in LeftType
      BY DEF LeftType
    <3>3. [oid |-> regs.scsiid, stpwen |-> regs.stpwen, scsiseq |-> regs.scsiseq] \in LeftType
      BY <3>1 DEF LeftType
    <3> QED
      BY <1>3, <3>2, <3>3, Zenon DEF RememberAndReset
  <2>4. softc' \in SoftcType
    BY <1>3 DEF RememberAndReset, SoftcType, AfterReset, FeatureNames, FlagNames, RamType
  <2>5. TypeOK'
    BY <1>3, <2>1, TargetsAssumption, RestartsAssumption DEF RememberAndReset, TypeOK, SramType, AfterReset, C46, C56_66
  <2>6. (stage = "stopped" => restarts < MaxRestarts)'
    BY <1>3 DEF RememberAndReset
  <2> QED
    BY <2>1, <2>2, <2>3, <2>4, <2>5, <2>6
<1>4. CASE ReadSeeprom
  <2>1. sram' \in SramType
    BY <1>4 DEF ReadSeeprom, SramType
  <2>2. regs' \in RegsType
    BY <1>4 DEF ReadSeeprom, RegsType, BothLatches
  <2>3. left' \in LeftType
    BY <1>4 DEF ReadSeeprom, LeftType
  <2>4. softc' \in SoftcType
    BY <1>4 DEF ReadSeeprom, SoftcType, FeatureNames, FlagNames, RamType
  <2>5. TypeOK'
    BY <1>4, <2>1, TargetsAssumption, RestartsAssumption DEF ReadSeeprom, TypeOK, SramType, C46, C56_66
  <2>6. (stage = "stopped" => restarts < MaxRestarts)'
    BY <1>4 DEF ReadSeeprom
  <2> QED
    BY <2>1, <2>2, <2>3, <2>4, <2>5, <2>6
<1>5. CASE ReadScratchCopy
  <2>1. sram' \in SramType
    BY <1>5 DEF ReadScratchCopy, SramType
  <2>2. regs' \in RegsType
    BY <1>5 DEF ReadScratchCopy, RegsType, BothLatches
  <2>3. left' \in LeftType
    BY <1>5 DEF ReadScratchCopy, LeftType
  <2>4. softc' \in SoftcType
    BY <1>5 DEF ReadScratchCopy, SoftcType, FeatureNames, FlagNames, RamType
  <2>5. TypeOK'
    BY <1>5, <2>1, TargetsAssumption, RestartsAssumption DEF ReadScratchCopy, TypeOK, SramType, C46, C56_66
  <2>6. (stage = "stopped" => restarts < MaxRestarts)'
    BY <1>5 DEF ReadScratchCopy
  <2> QED
    BY <2>1, <2>2, <2>3, <2>4, <2>5, <2>6
<1>6. CASE ahc_parse_pci_eeprom
  <2>1. sram' \in SramType
    <3> DEFINE r == [i \in Targets |-> ScsiRate(i)]
               o == [i \in Targets |-> IF Has("ULTRA2") THEN Bit(board.flags[i].synch, MAX_OFFSET)
                                       ELSE sram.offset[i]]
               u == IF Has("ULTRA") /\ ~NewFormat /\ ~CF("ULTRAEN") THEN {}
                    ELSE {i \in Targets : Ultra(i) /\ ~TenMHz(i)}
               d == {i \in Targets : ~board.flags[i].disc}
               p == CF("SPARITY")
    <3>1. r \in [Targets -> 0 .. 255]
      BY RateIsByte
    <3>2. o \in [Targets -> 0 .. MAX_OFFSET]
      BY DEF Bit, MAX_OFFSET, SramType
    <3>3. u \in SUBSET Targets /\ d \in SUBSET Targets
      OBVIOUS
    <3>4. p \in BOOLEAN
      BY DEF CF
    <3>5. sram' = [sram EXCEPT !.rate = r, !.offset = o, !.ultra = u, !.dsb = d, !.parity = p,
                               !.adpt = FALSE]
      BY <1>6, Zenon DEF ahc_parse_pci_eeprom
    <3> HIDE DEF r, o, u, d, p
    <3> QED
      BY <3>1, <3>2, <3>3, <3>4, <3>5, ZenonT(40) DEF SramType
  <2>2. regs' \in RegsType
    BY <1>6 DEF ahc_parse_pci_eeprom, RegsType, BothLatches
  <2>3. left' \in LeftType
    BY <1>6 DEF ahc_parse_pci_eeprom, LeftType
  <2>4. softc' \in SoftcType
    <3> DEFINE g == softc.flags \cup (IF NewFormat /\ CF("ULTRAEN") THEN {"NEWEEPROM_FMT"} ELSE {})
    <3>1. g \in SUBSET FlagNames
      BY DEF FlagNames, SoftcType
    <3>2. softc' = [softc EXCEPT !.our_id = board.id, !.flags = g]
      BY <1>6, Zenon DEF ahc_parse_pci_eeprom
    <3>3. board.id \in 0 .. 15
      BY DEF SoundBoard
    <3> HIDE DEF g
    <3> QED
      BY <3>1, <3>2, <3>3 DEF SoftcType
  <2>5. TypeOK'
    BY <1>6, <2>1, TargetsAssumption, RestartsAssumption DEF ahc_parse_pci_eeprom, TypeOK, SramType, C46, C56_66
  <2>6. (stage = "stopped" => restarts < MaxRestarts)'
    BY <1>6 DEF ahc_parse_pci_eeprom
  <2> QED
    BY <2>1, <2>2, <2>3, <2>4, <2>5, <2>6
<1>7. CASE Terminate
  <2>1. sram' \in SramType
    BY <1>7 DEF Terminate, SramType
  <2>2. regs' \in RegsType
    <3>1. regs.stpwen \in BOOLEAN
      BY DEF RegsType
    <3>2. PICK s \in BOOLEAN, l \in SUBSET BothLatches :
             regs' = [regs EXCEPT !.latch = l, !.stpwen = s]
      <4>1. CASE ~Has("SPIOCAP") \/ board.logic
        <5>1. regs' = [regs EXCEPT !.latch = configure_termination.latch,
                                   !.stpwen = configure_termination.stpwen]
          BY <1>7, <4>1, Zenon DEF Terminate
        <5> QED
          BY <5>1, TerminationType DEF TermType
      <4>2. CASE ~(~Has("SPIOCAP") \/ board.logic)
        <5>1. regs' = [regs EXCEPT !.latch = [stpwen |-> CF("STERM"), latch |-> regs.latch].latch,
                                   !.stpwen = regs.stpwen]
          BY <1>7, <4>2, Zenon DEF Terminate
        <5>2. [stpwen |-> CF("STERM"), latch |-> regs.latch].latch = regs.latch
          OBVIOUS
        <5>3. regs.latch \in SUBSET BothLatches
          BY DEF RegsType
        <5> QED
          BY <3>1, <5>1, <5>2, <5>3, Zenon
      <4> QED
        BY <4>1, <4>2
    <3> QED
      BY <3>2 DEF RegsType
  <2>3. left' \in LeftType
    <3>1. PICK s \in BOOLEAN : left' = [left EXCEPT !.stpwen = s]
      <4>1. CASE ~Has("SPIOCAP") \/ board.logic
        <5>1. left' = [left EXCEPT !.stpwen = configure_termination.stpwen]
          BY <1>7, <4>1, Zenon DEF Terminate
        <5> QED
          BY <5>1, TerminationType DEF TermType
      <4>2. CASE ~(~Has("SPIOCAP") \/ board.logic)
        <5>1. left' = [left EXCEPT !.stpwen =
                          [stpwen |-> CF("STERM"), latch |-> regs.latch].stpwen]
          BY <1>7, <4>2, Zenon DEF Terminate
        <5>2. [stpwen |-> CF("STERM"), latch |-> regs.latch].stpwen = CF("STERM")
          OBVIOUS
        <5>3. CF("STERM") \in BOOLEAN
          BY DEF CF
        <5> QED
          BY <5>1, <5>2, <5>3, Zenon
      <4> QED
        BY <4>1, <4>2
    <3> QED
      BY <3>1 DEF LeftType
  <2>4. softc' \in SoftcType
    BY <1>7 DEF Terminate, SoftcType, FeatureNames, FlagNames, RamType
  <2>5. TypeOK'
    BY <1>7, <2>1, TargetsAssumption, RestartsAssumption DEF Terminate, TypeOK, SramType, C46, C56_66
  <2>6. (stage = "stopped" => restarts < MaxRestarts)'
    BY <1>7 DEF Terminate
  <2> QED
    BY <2>1, <2>2, <2>3, <2>4, <2>5, <2>6
<1>8. CASE Settle
  <2>1. sram' \in SramType
    BY <1>8 DEF Settle, SramType
  <2>2. regs' \in RegsType
    BY <1>8 DEF Settle, RegsType, BothLatches
  <2>3. left' \in LeftType
    BY <1>8 DEF Settle, LeftType
  <2>4. softc' \in SoftcType
    <3> DEFINE defaults == "USEDEFAULTS" \in softc.flags
               bios     == defaults /\ "NO_BIOS_INIT" \notin softc.flags /\ left.scsiseq
               alone    == defaults /\ ~bios
               id       == CASE alone -> 7 [] bios -> left.oid [] OTHER -> softc.our_id
               stpwen   == alone \/ left.stpwen
               g == (softc.flags \ (IF bios THEN {"USEDEFAULTS"} ELSE {}))
                           \cup (IF stpwen THEN {"TERM_ENB_A"} ELSE {})
    <3>1. g \in SUBSET FlagNames
      BY DEF FlagNames, SoftcType
    <3>2. id \in 0 .. 15
      BY DEF SoftcType, LeftType
    <3>3. softc' = [softc EXCEPT !.our_id = id, !.flags = g]
      BY <1>8, Zenon DEF Settle
    <3> HIDE DEF g, id
    <3> QED
      BY <3>1, <3>2, <3>3 DEF SoftcType
  <2>5. TypeOK'
    BY <1>8, <2>1, TargetsAssumption, RestartsAssumption DEF Settle, TypeOK, SramType, C46, C56_66
  <2>6. (stage = "stopped" => restarts < MaxRestarts)'
    BY <1>8 DEF Settle
  <2> QED
    BY <2>1, <2>2, <2>3, <2>4, <2>5, <2>6
<1>9. CASE ProbeRam
  <2>1. sram' \in SramType
    BY <1>9 DEF ProbeRam, SramType
  <2>2. regs' \in RegsType
    BY <1>9 DEF ProbeRam, RegsType, BothLatches
  <2>3. left' \in LeftType
    BY <1>9 DEF ProbeRam, LeftType
  <2>4. softc' \in SoftcType
    <3> DEFINE ram == ahc_probe_ext_scbram
               g == (softc.flags \ {"LSCBS_ENABLED"})
                \cup (IF ram.large THEN {"LSCBS_ENABLED"} ELSE {})
                \cup (IF ram.large /\ ahc_probe_scbs(ram) >= 64 THEN {"SCB_BTT"} ELSE {})
    <3>1. g \in SUBSET FlagNames
      BY DEF FlagNames, SoftcType
    <3>2. ram \in RamType
      BY RamProbed
    <3>3. softc' = [softc EXCEPT !.ram = ram, !.flags = g]
      BY <1>9, Zenon DEF ProbeRam
    <3> HIDE DEF g, ram
    <3> QED
      BY <3>1, <3>2, <3>3 DEF SoftcType
  <2>5. TypeOK'
    BY <1>9, <2>1, TargetsAssumption, RestartsAssumption DEF ProbeRam, TypeOK, SramType, C46, C56_66
  <2>6. (stage = "stopped" => restarts < MaxRestarts)'
    BY <1>9 DEF ProbeRam
  <2> QED
    BY <2>1, <2>2, <2>3, <2>4, <2>5, <2>6
<1>10. CASE ahc_init
  <2>1. sram' \in SramType
    BY <1>10 DEF ahc_init, SramType
  <2>2. regs' \in RegsType
    BY <1>10 DEF ahc_init, RegsType, BothLatches
  <2>3. left' \in LeftType
    BY <1>10 DEF ahc_init, LeftType
  <2>4. softc' \in SoftcType
    <3> DEFINE defaults == "USEDEFAULTS" \in softc.flags
               id == IF defaults THEN 7 ELSE softc.our_id
               d == IF defaults THEN Targets ELSE Targets \ sram.dsb
               u == [i \in Targets |->
                 IF defaults THEN Default
                 ELSE IF Has("ULTRA2")
                 THEN DecodeUltra2(sram.rate[i], sram.offset[i], i \in ultraenb)
                 ELSE DecodeFast(sram.rate[i], i \in ultraenb)]
    <3>1. id \in 0 .. 15 /\ d \in SUBSET Targets
      BY DEF SoftcType
    <3>2. u \in [Targets -> UserType]
      <4> SUFFICES ASSUME NEW i \in Targets
                   PROVE  (IF defaults THEN Default
                           ELSE IF Has("ULTRA2")
                           THEN DecodeUltra2(sram.rate[i], sram.offset[i], i \in ultraenb)
                           ELSE DecodeFast(sram.rate[i], i \in ultraenb)) \in UserType
        BY Zenon
      <4>1. (i \in ultraenb) \in BOOLEAN
        OBVIOUS
      <4> QED
        BY <4>1, UserTypes
    <3>3. softc' = [softc EXCEPT !.our_id = id, !.disc = d, !.user = u]
      BY <1>10, Zenon DEF ahc_init
    <3> HIDE DEF id, d, u
    <3> QED
      BY <3>1, <3>2, <3>3 DEF SoftcType
  <2>5. TypeOK'
    BY <1>10, <2>1, TargetsAssumption, RestartsAssumption DEF ahc_init, TypeOK, SramType, C46, C56_66
  <2>6. (stage = "stopped" => restarts < MaxRestarts)'
    BY <1>10 DEF ahc_init
  <2> QED
    BY <2>1, <2>2, <2>3, <2>4, <2>5, <2>6
<1>11. CASE ahc_chip_init
  <2>1. sram' \in SramType
    BY <1>11, Cmds DEF ahc_chip_init, SramType
  <2>2. regs' \in RegsType
    BY <1>11, Initialised, Zenon DEF ahc_chip_init
  <2>3. left' \in LeftType
    BY <1>11 DEF ahc_chip_init, LeftType, ChipRegs, CmdSize
  <2>4. softc' \in SoftcType
    BY <1>11 DEF ahc_chip_init, SoftcType, ChipRegs, CmdSize, FeatureNames, FlagNames, RamType
  <2>5. TypeOK'
    BY <1>11, <2>1, TargetsAssumption, RestartsAssumption DEF ahc_chip_init, TypeOK, SramType, ChipRegs, CmdSize, C46, C56_66
  <2>6. (stage = "stopped" => restarts < MaxRestarts)'
    BY <1>11 DEF ahc_chip_init
  <2> QED
    BY <2>1, <2>2, <2>3, <2>4, <2>5, <2>6
<1>12. CASE Found
  <2>1. sram' \in SramType
    BY <1>12 DEF Found, SramType, ahc_intr_enable
  <2>2. regs' \in RegsType
    BY <1>12 DEF Found, RegsType, ahc_intr_enable, BothLatches
  <2>3. left' \in LeftType
    BY <1>12 DEF Found, LeftType, ahc_intr_enable
  <2>4. softc' \in SoftcType
    BY <1>12 DEF Found, SoftcType, ahc_intr_enable, FeatureNames, FlagNames, RamType
  <2>5. TypeOK'
    BY <1>12, <2>1, TargetsAssumption, RestartsAssumption DEF Found, TypeOK, SramType, ahc_intr_enable, C46, C56_66
  <2>6. (stage = "stopped" => restarts < MaxRestarts)'
    BY <1>12 DEF Found
  <2> QED
    BY <2>1, <2>2, <2>3, <2>4, <2>5, <2>6
<1>13. CASE ScsiStopAdapter
  <2>1. sram' \in SramType
    BY <1>13 DEF ScsiStopAdapter, SramType, ahc_intr_enable
  <2>2. regs' \in RegsType
    BY <1>13 DEF ScsiStopAdapter, RegsType, ahc_intr_enable, BothLatches
  <2>3. left' \in LeftType
    BY <1>13 DEF ScsiStopAdapter, LeftType, ahc_intr_enable
  <2>4. softc' \in SoftcType
    BY <1>13 DEF ScsiStopAdapter, SoftcType, ahc_intr_enable, FeatureNames, FlagNames, RamType
  <2>5. TypeOK'
    BY <1>13, <2>1, TargetsAssumption, RestartsAssumption DEF ScsiStopAdapter, TypeOK, SramType, ahc_intr_enable, C46, C56_66
  <2>6. (stage = "stopped" => restarts < MaxRestarts)'
    BY <1>13 DEF ScsiStopAdapter
  <2> QED
    BY <2>1, <2>2, <2>3, <2>4, <2>5, <2>6
<1>14. CASE LosePower
  <2>1. sram' \in SramType
    BY <1>14 DEF LosePower, SramType
  <2>2. regs' \in RegsType
    <3> DEFINE l == IF "latch" \in LostInSleep THEN {} ELSE regs.latch
    <3>1. l \in SUBSET BothLatches
      BY DEF RegsType
    <3>2. regs' = [regs EXCEPT !.stpwen = FALSE, !.scsiid = 0, !.scsiseq = FALSE, !.latch = l]
      BY <1>14, Zenon DEF LosePower
    <3>3. \A a \in SUBSET BothLatches, p \in BOOLEAN, n \in 0 .. 15 :
             [regs EXCEPT !.stpwen = p, !.scsiid = n, !.scsiseq = p, !.latch = a] \in RegsType
      BY DEF RegsType
    <3>4. 0 \in 0 .. 15 /\ FALSE \in BOOLEAN
      OBVIOUS
    <3> HIDE DEF l
    <3> QED
      BY <3>1, <3>2, <3>3, <3>4, Zenon
  <2>3. left' \in LeftType
    BY <1>14 DEF LosePower, LeftType
  <2>4. softc' \in SoftcType
    BY <1>14 DEF LosePower, SoftcType, FeatureNames, FlagNames, RamType
  <2>5. TypeOK'
    BY <1>14, <2>1, TargetsAssumption, RestartsAssumption DEF LosePower, TypeOK, SramType, C46, C56_66
  <2>6. (stage = "stopped" => restarts < MaxRestarts)'
    BY <1>14 DEF LosePower
  <2> QED
    BY <2>1, <2>2, <2>3, <2>4, <2>5, <2>6
<1>15. CASE ScsiRestartAdapter
  <2>1. sram' \in SramType
    BY <1>15, Cmds DEF ScsiRestartAdapter, SramType
  <2>2. regs' \in RegsType
    BY <1>15, Cleared, Initialised, Zenon DEF ScsiRestartAdapter
  <2>3. left' \in LeftType
    BY <1>15 DEF ScsiRestartAdapter, LeftType, ChipRegs, AfterReset, CmdSize
  <2>4. softc' \in SoftcType
    BY <1>15 DEF ScsiRestartAdapter, SoftcType, ChipRegs, AfterReset, CmdSize, FeatureNames, FlagNames, RamType
  <2>5. TypeOK'
    <3>1. stage = "stopped" /\ restarts' = restarts + 1 /\ stage' = "found" /\ sd_chip' = sd_chip
          /\ source' = source
      BY <1>15 DEF ScsiRestartAdapter
    <3> QED
      BY <2>1, <3>1, RestartsAssumption DEF TypeOK, SramType, C46, C56_66
  <2>6. (stage = "stopped" => restarts < MaxRestarts)'
    BY <1>15 DEF ScsiRestartAdapter
  <2> QED
    BY <2>1, <2>2, <2>3, <2>4, <2>5, <2>6
<1>16. CASE LoadAgain
  <2>1. sram' \in SramType
    BY <1>16 DEF LoadAgain, SramType
  <2>2. regs' \in RegsType
    BY <1>16 DEF LoadAgain, RegsType, BothLatches
  <2>3. left' \in LeftType
    BY <1>16 DEF LoadAgain, LeftType
  <2>4. softc' \in SoftcType
    BY <1>16 DEF LoadAgain, SoftcType, FeatureNames, FlagNames, RamType
  <2>5. TypeOK'
    BY <1>16, <2>1, TargetsAssumption, RestartsAssumption DEF LoadAgain, TypeOK, SramType, C46, C56_66
  <2>6. (stage = "stopped" => restarts < MaxRestarts)'
    BY <1>16 DEF LoadAgain
  <2> QED
    BY <2>1, <2>2, <2>3, <2>4, <2>5, <2>6
<1>17. CASE UNCHANGED vars
  BY <1>17 DEF vars, TypeOK
<1> QED
  BY <1>1, <1>2, <1>3, <1>4, <1>5, <1>6, <1>7, <1>8, <1>9, <1>10, <1>11, <1>12, <1>13, <1>14, <1>15, <1>16, <1>17 DEF Next

LEMMA StepQuiet ==
    ASSUME Types, Quiet, [Next]_vars
    PROVE  Quiet'
<1> USE DEF Types
<1>1. CASE HwFindAdapter
  BY <1>1, Zenon DEF HwFindAdapter, Quiet, RegsType, SoftcType
<1>2. CASE ahc_pci_test_register_access
  BY <1>2, Zenon DEF ahc_pci_test_register_access, Quiet, RegsType, SoftcType
<1>3. CASE RememberAndReset
  BY <1>3, Zenon DEF RememberAndReset, Quiet, RegsType, SoftcType, AfterReset
<1>4. CASE ReadSeeprom
  BY <1>4, Zenon DEF ReadSeeprom, Quiet, RegsType, SoftcType
<1>5. CASE ReadScratchCopy
  BY <1>5, Zenon DEF ReadScratchCopy, Quiet, RegsType, SoftcType
<1>6. CASE ahc_parse_pci_eeprom
  BY <1>6, Zenon DEF ahc_parse_pci_eeprom, Quiet, RegsType, SoftcType
<1>7. CASE Terminate
  BY <1>7, Zenon DEF Terminate, Quiet, RegsType, SoftcType
<1>8. CASE Settle
  BY <1>8, Zenon DEF Settle, Quiet, RegsType, SoftcType
<1>9. CASE ProbeRam
  BY <1>9, Zenon DEF ProbeRam, Quiet, RegsType, SoftcType
<1>10. CASE ahc_init
  BY <1>10, Zenon DEF ahc_init, Quiet, RegsType, SoftcType
<1>11. CASE ahc_chip_init
  BY <1>11, Zenon DEF ahc_chip_init, Quiet, RegsType, SoftcType, ChipRegs
<1>12. CASE Found
  BY <1>12, Zenon DEF Found, Quiet, RegsType, SoftcType, ahc_intr_enable
<1>13. CASE ScsiStopAdapter
  BY <1>13, Zenon DEF ScsiStopAdapter, Quiet, RegsType, SoftcType, ahc_intr_enable
<1>14. CASE LosePower
  BY <1>14, Zenon DEF LosePower, Quiet, RegsType, SoftcType
<1>15. CASE ScsiRestartAdapter
  BY <1>15, Zenon DEF ScsiRestartAdapter, Quiet, RegsType, SoftcType, ChipRegs, AfterReset
<1>16. CASE LoadAgain
  BY <1>16, Zenon DEF LoadAgain, Quiet, RegsType, SoftcType
<1>17. CASE UNCHANGED vars
  BY <1>17 DEF vars, Quiet
<1> QED
  BY <1>1, <1>2, <1>3, <1>4, <1>5, <1>6, <1>7, <1>8, <1>9, <1>10, <1>11, <1>12, <1>13, <1>14, <1>15, <1>16, <1>17 DEF Next

-----------------------------------------------------------------------------
(* The aic79xx: types. *)

AhdFlagNames == {"SPCHK_ENB_A", "RESET_BUS_A", "TERM_ENB_A", "EXTENDED_TRANS_A", "STPWLEVEL_A",
                 "BIOS_ENABLED", "SCB_CONFIG_USED", "USEDEFAULTS"}
Options == Ahd!Streaming \cup {"QAS_REQ", "DT_REQ", "RTI"}
Ids     == {0, 7, ahdBoard.id}
Settled == {Ahd!Async, "negotiated"}

AhdUserType  == [period : Nat, offset : Nat, ppr : SUBSET Options, wide : BOOLEAN]
WordsType    == [xfer : 0 .. 63, qas : BOOLEAN, packetized : BOOLEAN, disc : BOOLEAN, wide : BOOLEAN]
EntryType    == [valid : BOOLEAN, tag : Ahd!Hscbs]
AhdSoftcType == [flags : SUBSET AhdFlagNames, our_id : Ids, disc : SUBSET Targets,
                 tag : SUBSET Targets, user : [Targets -> AhdUserType],
                 curr : [Targets -> Settled], pause : BOOLEAN, unpause : BOOLEAN,
                 next : Ahd!Hscbs, in : Nat, out : Ahd!Ring, valid : BOOLEAN,
                 hscb : [Scbs -> Ahd!Hscbs], pending : SUBSET Scbs]
AhdChipType  == [inten : BOOLEAN, paused : BOOLEAN, id : Ids, stpwen : BOOLEAN, spchk : BOOLEAN,
                 level : BOOLEAN, neg : [Targets -> Settled \cup {"unknown"}], in : Nat,
                 got : Nat, next : Ahd!Hscbs, out : Ahd!Ring, valid : BOOLEAN,
                 have : SUBSET Ahd!Hscbs]
MemoryType   == [link : [Ahd!Hscbs -> Ahd!Hscbs], tag : [Ahd!Hscbs -> Ahd!Hscbs],
                 ring : [Ahd!Ring -> EntryType]]

AhdTypes ==
    /\ Ahd!TypeOK
    /\ ahdStage = "stopped" => ops > 0
    /\ sc \in [Targets -> WordsType]
    /\ ahdSoftc \in AhdSoftcType /\ ahdChip \in AhdChipType /\ ahdMemory \in MemoryType

AhdQuiet ==
    /\ ahdSoftc.pause \/ ahdSoftc.unpause => ahdStage = "running"
    /\ Ahd!QuietUntilReady

LEMMA RingFacts ==
    /\ 0 \in Ahd!Ring /\ RingSize \in Nat /\ RingSize > 0
    /\ \A i \in Ahd!Ring : i \in Nat /\ i < RingSize /\ (i + 1) % RingSize \in Ahd!Ring
    /\ \A i \in Ahd!Ring : (i + 1) % RingSize = IF i = RingSize - 1 THEN 0 ELSE i + 1
<1>1. RingSize \in Nat /\ RingSize > 0
  BY RingAssumption, FS_CardinalityType
<1>2. ASSUME NEW i \in 0 .. RingSize - 1
      PROVE  /\ (i + 1) % RingSize = IF i = RingSize - 1 THEN 0 ELSE i + 1
             /\ (i + 1) % RingSize \in 0 .. RingSize - 1
  BY <1>1
<1> QED
  BY <1>1, <1>2 DEF Ahd!Ring

LEMMA InitAhdTypes ==
    ASSUME ahdBoard \in AhdBoards \cup {AhdBoard}, Ahd!Powered
    PROVE  AhdTypes /\ AhdQuiet
<1>1. SoundAhdBoard(ahdBoard)
  BY AhdBoardsAssumption
<1>2. sc \in [Targets -> WordsType]
  BY <1>1 DEF Ahd!Powered, WordsType, SoundAhdBoard
<1>3. ahdSoftc \in AhdSoftcType
  BY <1>1, RingFacts DEF Ahd!Powered, AhdSoftcType, AhdUserType, Ahd!NoUser, Ids, Settled, Ahd!Async,
        Ahd!Hscbs
<1>4. ahdChip \in AhdChipType
  BY <1>1, RingFacts DEF Ahd!Powered, AhdChipType, SoundAhdBoard, Ids, Ahd!Hscbs
<1>5. ahdMemory \in MemoryType
  BY RingFacts DEF Ahd!Powered, MemoryType, EntryType, Ahd!NoEntry, Ahd!Hscbs
<1>6. Ahd!TypeOK
  BY <1>1, RingFacts, RingAssumption DEF Ahd!Powered, Ahd!TypeOK, SoundAhdBoard
<1>7. AhdQuiet
  BY DEF Ahd!Powered, AhdQuiet, Ahd!QuietUntilReady
<1> QED
  BY <1>2, <1>3, <1>4, <1>5, <1>6, <1>7 DEF AhdTypes, Ahd!Powered

(* What a reset and the initialisation leave of the records. *)

LEMMA AhdCleared ==
    ASSUME NEW c \in AhdChipType, ahdSoftc \in AhdSoftcType
    PROVE  Ahd!AfterReset(c) \in AhdChipType
<1> DEFINE n == ahdSoftc.pause
           p == TRUE
           d == 0
           g == [i \in Targets |-> "unknown"]
           h == {}
           z == [c EXCEPT !.inten = n, !.paused = p, !.id = d, !.neg = g]
<1>1. Ahd!AfterReset(c) = [z EXCEPT !.in = 0, !.got = 0, !.have = h]
  BY Zenon DEF Ahd!AfterReset
<1>2. /\ n \in BOOLEAN /\ p \in BOOLEAN /\ d \in Ids /\ h \in SUBSET Ahd!Hscbs
      /\ g \in [Targets -> Settled \cup {"unknown"}]
  BY DEF AhdSoftcType, Ids
<1> HIDE DEF n, p, d, g, h
<1>3. z \in AhdChipType
  BY <1>2 DEF AhdChipType
<1> HIDE DEF z
<1>4. [z EXCEPT !.in = 0, !.got = 0, !.have = h] \in AhdChipType
  BY <1>2, <1>3 DEF AhdChipType
<1> QED
  BY <1>1, <1>4

LEMMA AhdInitialised ==
    ASSUME NEW c \in AhdChipType, ahdSoftc \in AhdSoftcType
    PROVE  Ahd!ChipInit(c) \in AhdChipType
<1> DEFINE t == "TERM_ENB_A" \in ahdSoftc.flags
           e == "SPCHK_ENB_A" \in ahdSoftc.flags
           d == [c EXCEPT !.id = ahdSoftc.our_id, !.stpwen = t, !.spchk = e, !.neg = ahdSoftc.curr]
           z == Ahd!ChipInit(c)
<1>1. /\ ahdSoftc.our_id \in Ids /\ ahdSoftc.curr \in [Targets -> Settled \cup {"unknown"}]
      /\ 0 \in Nat /\ {} \in SUBSET Ahd!Hscbs /\ 0 \in Ahd!Ring /\ TRUE \in BOOLEAN
      /\ ahdSoftc.next \in Ahd!Hscbs
  BY RingFacts DEF AhdSoftcType
<1>2. t \in BOOLEAN /\ e \in BOOLEAN
  OBVIOUS
<1>3. z = [d EXCEPT !.in = 0, !.got = 0, !.have = {}, !.out = 0, !.valid = TRUE,
                    !.next = ahdSoftc.next]
  BY Zenon DEF Ahd!ChipInit
<1> HIDE DEF t, e, z
<1>4. d \in AhdChipType
  BY <1>1, <1>2 DEF AhdChipType
<1> HIDE DEF d
<1>5. \A y \in BOOLEAN, o \in Ahd!Ring, x \in Ahd!Hscbs, a \in Nat, h \in SUBSET Ahd!Hscbs :
         [d EXCEPT !.in = a, !.got = a, !.have = h, !.out = o, !.valid = y, !.next = x]
            \in AhdChipType
  BY <1>4, ZenonT(40) DEF AhdChipType
<1>6. z \in AhdChipType
  BY <1>1, <1>3, <1>5, Zenon
<1> QED
  BY <1>6 DEF z

LEMMA AhdRestarted ==
    ASSUME NEW c \in AhdChipType, ahdSoftc \in AhdSoftcType
    PROVE  Ahd!ahd_restart(c) \in AhdChipType
<1>1. \A p \in BOOLEAN, n \in BOOLEAN : [c EXCEPT !.paused = p, !.inten = n] \in AhdChipType
  BY DEF AhdChipType
<1>2. FALSE \in BOOLEAN /\ ahdSoftc.unpause \in BOOLEAN
  BY DEF AhdSoftcType
<1> QED
  BY <1>1, <1>2, Zenon DEF Ahd!ahd_restart

LEMMA AhdEmptied ==
    ASSUME NEW s \in AhdSoftcType, NEW m \in MemoryType
    PROVE  Ahd!QueuesEmpty(s) \in AhdSoftcType /\ Ahd!RingEmpty(m) \in MemoryType
<1>1. \A a \in Nat, o \in Ahd!Ring, y \in BOOLEAN :
         [s EXCEPT !.in = a, !.out = o, !.valid = y] \in AhdSoftcType
  BY DEF AhdSoftcType
<1>2. 0 \in Nat /\ 0 \in Ahd!Ring /\ TRUE \in BOOLEAN
  BY RingFacts
<1>3. Ahd!QueuesEmpty(s) \in AhdSoftcType
  BY <1>1, <1>2, Zenon DEF Ahd!QueuesEmpty
<1> DEFINE r == [i \in Ahd!Ring |-> [m.ring[i] EXCEPT !.valid = FALSE]]
<1>4. Ahd!RingEmpty(m) = [m EXCEPT !.ring = r]
  BY Zenon DEF Ahd!RingEmpty
<1>5. r \in [Ahd!Ring -> EntryType]
  <2> SUFFICES ASSUME NEW i \in Ahd!Ring PROVE [m.ring[i] EXCEPT !.valid = FALSE] \in EntryType
    BY Zenon
  <2>1. m.ring[i] \in EntryType
    BY DEF MemoryType
  <2> QED
    BY <2>1 DEF EntryType
<1> HIDE DEF r
<1>6. [m EXCEPT !.ring = r] \in MemoryType
  BY <1>5 DEF MemoryType
<1> QED
  BY <1>3, <1>4, <1>6, Zenon

LEMMA WordsParsed ==
    ASSUME NEW f \in WordsType
    PROVE  Ahd!Parsed(f) \in AhdUserType /\ Ahd!NoUser \in AhdUserType
<1> DEFINE sync == f.xfer < Ahd!CFXFER_ASYNC
           packetized == Ahd!Packetized(f)
           p == IF sync THEN f.xfer ELSE Ahd!AHD_ASYNC_XFER_PERIOD
           o == IF sync THEN Ahd!MAX_OFFSET ELSE 0
           x == (IF sync /\ f.xfer <= Ahd!AHD_PERIOD_10MHz THEN {"DT_REQ"} ELSE {})
                    \cup (IF packetized THEN Ahd!Streaming \cup Ahd!Rti ELSE {})
                    \cup (IF f.qas THEN {"QAS_REQ"} ELSE {})
<1>1. p \in Nat /\ o \in Nat /\ f.wide \in BOOLEAN
  BY DEF WordsType, Ahd!AHD_ASYNC_XFER_PERIOD, Ahd!MAX_OFFSET
<1>2. x \in SUBSET Options
  BY DEF Options, Ahd!Rti
<1>3. Ahd!Parsed(f) = [period |-> p, offset |-> o, wide |-> f.wide, ppr |-> x]
  BY Zenon DEF Ahd!Parsed
<1> HIDE DEF p, o, x
<1>4. Ahd!Parsed(f) \in AhdUserType
  BY <1>1, <1>2, <1>3 DEF AhdUserType
<1> QED
  BY <1>4 DEF Ahd!NoUser, AhdUserType

LEMMA StepAhdTypes ==
    ASSUME AhdTypes, SoundAhdBoard(ahdBoard), [Ahd!Next]_(Ahd!vars)
    PROVE  AhdTypes'
<1> USE DEF AhdTypes
<1>1. CASE Ahd!HwFindAdapter
  <2>1. sc' \in [Targets -> WordsType]
    BY <1>1, RingFacts DEF Ahd!HwFindAdapter, WordsType
  <2>2. ahdSoftc' \in AhdSoftcType'
    BY <1>1, RingFacts DEF Ahd!HwFindAdapter, AhdSoftcType, AhdFlagNames, Ids
  <2>3. ahdChip' \in AhdChipType'
    BY <1>1, RingFacts DEF Ahd!HwFindAdapter, AhdChipType, Ids
  <2>4. ahdMemory' \in MemoryType
    BY <1>1, RingFacts DEF Ahd!HwFindAdapter, MemoryType, EntryType
  <2>5. Ahd!TypeOK'
    BY <1>1, <2>2, <2>3, RingFacts DEF Ahd!HwFindAdapter, Ahd!TypeOK, SoundAhdBoard, AhdSoftcType, AhdChipType
  <2>6. (ahdStage = "stopped" => ops > 0)'
    BY <1>1, RingFacts DEF Ahd!HwFindAdapter, Ahd!TypeOK, SoundAhdBoard
  <2> QED
    BY <2>1, <2>2, <2>3, <2>4, <2>5, <2>6
<1>2. CASE Ahd!ahd_aic790X_setup
  <2>1. sc' \in [Targets -> WordsType]
    BY <1>2, RingFacts DEF Ahd!ahd_aic790X_setup, Ahd!Refuse, WordsType
  <2>2. ahdSoftc' \in AhdSoftcType'
    BY <1>2, RingFacts DEF Ahd!ahd_aic790X_setup, Ahd!Refuse, AhdSoftcType, AhdFlagNames, Ids
  <2>3. ahdChip' \in AhdChipType'
    BY <1>2, RingFacts DEF Ahd!ahd_aic790X_setup, Ahd!Refuse, AhdChipType, Ids
  <2>4. ahdMemory' \in MemoryType
    BY <1>2, RingFacts DEF Ahd!ahd_aic790X_setup, Ahd!Refuse, MemoryType, EntryType
  <2>5. Ahd!TypeOK'
    BY <1>2, <2>2, <2>3, RingFacts DEF Ahd!ahd_aic790X_setup, Ahd!Refuse, Ahd!TypeOK, SoundAhdBoard, AhdSoftcType, AhdChipType
  <2>6. (ahdStage = "stopped" => ops > 0)'
    BY <1>2, RingFacts DEF Ahd!ahd_aic790X_setup, Ahd!Refuse, Ahd!TypeOK, SoundAhdBoard
  <2> QED
    BY <2>1, <2>2, <2>3, <2>4, <2>5, <2>6
<1>3. CASE Ahd!ahd_pci_test_register_access
  <2>1. sc' \in [Targets -> WordsType]
    BY <1>3, RingFacts DEF Ahd!ahd_pci_test_register_access, Ahd!Refuse, WordsType
  <2>2. ahdSoftc' \in AhdSoftcType'
    BY <1>3, RingFacts DEF Ahd!ahd_pci_test_register_access, Ahd!Refuse, AhdSoftcType, AhdFlagNames, Ids
  <2>3. ahdChip' \in AhdChipType'
    BY <1>3, RingFacts DEF Ahd!ahd_pci_test_register_access, Ahd!Refuse, AhdChipType, Ids
  <2>4. ahdMemory' \in MemoryType
    BY <1>3, RingFacts DEF Ahd!ahd_pci_test_register_access, Ahd!Refuse, MemoryType, EntryType
  <2>5. Ahd!TypeOK'
    BY <1>3, <2>2, <2>3, RingFacts DEF Ahd!ahd_pci_test_register_access, Ahd!Refuse, Ahd!TypeOK, SoundAhdBoard, AhdSoftcType, AhdChipType
  <2>6. (ahdStage = "stopped" => ops > 0)'
    BY <1>3, RingFacts DEF Ahd!ahd_pci_test_register_access, Ahd!Refuse, Ahd!TypeOK, SoundAhdBoard
  <2> QED
    BY <2>1, <2>2, <2>3, <2>4, <2>5, <2>6
<1>4. CASE Ahd!ahd_reset
  <2>0. AhdChipType' = AhdChipType /\ AhdSoftcType' = AhdSoftcType
    BY <1>4 DEF Ahd!ahd_reset, Ahd!AfterReset, AhdChipType, AhdSoftcType, Ids
  <2>1. sc' \in [Targets -> WordsType]
    BY <1>4, RingFacts DEF Ahd!ahd_reset, Ahd!AfterReset, WordsType
  <2>2. ahdSoftc' \in AhdSoftcType'
    BY <1>4, RingFacts DEF Ahd!ahd_reset, Ahd!AfterReset, AhdSoftcType, AhdFlagNames, Ids
  <2>3. ahdChip' \in AhdChipType'
    <3>1. [ahdChip EXCEPT !.inten = FALSE] \in AhdChipType
      BY DEF AhdChipType
    <3> QED
      BY <1>4, <2>0, <3>1, AhdCleared, Zenon DEF Ahd!ahd_reset
  <2>4. ahdMemory' \in MemoryType
    BY <1>4, RingFacts DEF Ahd!ahd_reset, Ahd!AfterReset, MemoryType, EntryType
  <2>5. Ahd!TypeOK'
    BY <1>4, <2>2, <2>3, RingFacts DEF Ahd!ahd_reset, Ahd!AfterReset, Ahd!TypeOK, SoundAhdBoard, AhdSoftcType, AhdChipType
  <2>6. (ahdStage = "stopped" => ops > 0)'
    BY <1>4, RingFacts DEF Ahd!ahd_reset, Ahd!AfterReset, Ahd!TypeOK, SoundAhdBoard
  <2> QED
    BY <2>1, <2>2, <2>3, <2>4, <2>5, <2>6
<1>5. CASE Ahd!ReadSeeprom
  <2>1. sc' \in [Targets -> WordsType]
    BY <1>5, RingFacts DEF Ahd!ReadSeeprom, WordsType
  <2>2. ahdSoftc' \in AhdSoftcType'
    BY <1>5, RingFacts DEF Ahd!ReadSeeprom, AhdSoftcType, AhdFlagNames, Ids
  <2>3. ahdChip' \in AhdChipType'
    BY <1>5, RingFacts DEF Ahd!ReadSeeprom, AhdChipType, Ids
  <2>4. ahdMemory' \in MemoryType
    BY <1>5, RingFacts DEF Ahd!ReadSeeprom, MemoryType, EntryType
  <2>5. Ahd!TypeOK'
    BY <1>5, <2>2, <2>3, RingFacts DEF Ahd!ReadSeeprom, Ahd!TypeOK, SoundAhdBoard, AhdSoftcType, AhdChipType
  <2>6. (ahdStage = "stopped" => ops > 0)'
    BY <1>5, RingFacts DEF Ahd!ReadSeeprom, Ahd!TypeOK, SoundAhdBoard
  <2> QED
    BY <2>1, <2>2, <2>3, <2>4, <2>5, <2>6
<1>6. CASE Ahd!ReadScratchCopy
  <2>1. sc' \in [Targets -> WordsType]
    BY <1>6, RingFacts DEF Ahd!ReadScratchCopy, WordsType
  <2>2. ahdSoftc' \in AhdSoftcType'
    BY <1>6, RingFacts DEF Ahd!ReadScratchCopy, AhdSoftcType, AhdFlagNames, Ids
  <2>3. ahdChip' \in AhdChipType'
    BY <1>6, RingFacts DEF Ahd!ReadScratchCopy, AhdChipType, Ids
  <2>4. ahdMemory' \in MemoryType
    BY <1>6, RingFacts DEF Ahd!ReadScratchCopy, MemoryType, EntryType
  <2>5. Ahd!TypeOK'
    BY <1>6, <2>2, <2>3, RingFacts DEF Ahd!ReadScratchCopy, Ahd!TypeOK, SoundAhdBoard, AhdSoftcType, AhdChipType
  <2>6. (ahdStage = "stopped" => ops > 0)'
    BY <1>6, RingFacts DEF Ahd!ReadScratchCopy, Ahd!TypeOK, SoundAhdBoard
  <2> QED
    BY <2>1, <2>2, <2>3, <2>4, <2>5, <2>6
<1>7. CASE Ahd!ahd_default_config
  <2>0. AhdChipType' = AhdChipType /\ AhdSoftcType' = AhdSoftcType
    BY <1>7 DEF Ahd!ahd_default_config, Ahd!Refuse, AhdChipType, AhdSoftcType, Ids
  <2>1. sc' \in [Targets -> WordsType]
    BY <1>7, RingFacts DEF Ahd!ahd_default_config, Ahd!Refuse, WordsType
  <2>2. ahdSoftc' \in AhdSoftcType'
    <3> DEFINE u == [period |-> Ahd!AHD_SYNCRATE_160, offset |-> Ahd!MAX_OFFSET, wide |-> TRUE,
                     ppr |-> Ahd!Streaming \cup {"QAS_REQ", "DT_REQ"} \cup Ahd!Rti]
               us == [i \in Targets |-> u]
    <3>1. u \in AhdUserType
      BY DEF AhdUserType, Ahd!AHD_SYNCRATE_160, Ahd!MAX_OFFSET, Options, Ahd!Rti
    <3> HIDE DEF u
    <3>2. us \in [Targets -> AhdUserType]
      BY <3>1
    <3>3. ahdSoftc' = ahdSoftc \/
          ahdSoftc' = [ahdSoftc EXCEPT !.our_id = 7, !.disc = Targets, !.tag = Targets, !.user = us]
      BY <1>7, Zenon DEF Ahd!ahd_default_config, Ahd!Refuse, u
    <3> HIDE DEF us
    <3>4. \A n \in Ids, d \in SUBSET Targets, g \in [Targets -> AhdUserType] :
             [ahdSoftc EXCEPT !.our_id = n, !.disc = d, !.tag = d, !.user = g] \in AhdSoftcType
      BY DEF AhdSoftcType
    <3>5. 7 \in Ids
      BY DEF Ids
    <3>6. [ahdSoftc EXCEPT !.our_id = 7, !.disc = Targets, !.tag = Targets, !.user = us]
             \in AhdSoftcType
      BY <3>2, <3>4, <3>5
    <3> QED
      BY <2>0, <3>3, <3>6, Zenon
  <2>3. ahdChip' \in AhdChipType'
    BY <1>7, RingFacts DEF Ahd!ahd_default_config, Ahd!Refuse, AhdChipType, Ids
  <2>4. ahdMemory' \in MemoryType
    BY <1>7, RingFacts DEF Ahd!ahd_default_config, Ahd!Refuse, MemoryType, EntryType
  <2>5. Ahd!TypeOK'
    BY <1>7, <2>2, <2>3, RingFacts DEF Ahd!ahd_default_config, Ahd!Refuse, Ahd!TypeOK, SoundAhdBoard, AhdSoftcType, AhdChipType
  <2>6. (ahdStage = "stopped" => ops > 0)'
    BY <1>7, RingFacts DEF Ahd!ahd_default_config, Ahd!Refuse, Ahd!TypeOK, SoundAhdBoard
  <2> QED
    BY <2>1, <2>2, <2>3, <2>4, <2>5, <2>6
<1>8. CASE Ahd!ahd_parse_cfgdata
  <2>0. AhdChipType' = AhdChipType /\ AhdSoftcType' = AhdSoftcType
    BY <1>8 DEF Ahd!ahd_parse_cfgdata, Ahd!Refuse, AhdChipType, AhdSoftcType, Ids
  <2>1. sc' \in [Targets -> WordsType]
    <3> DEFINE p(i) == IF i \in {j \in Targets : j < ahdBoard.max} THEN Ahd!Packetized(sc[i])
                       ELSE sc[i].packetized
    <3>1. sc' = sc \/ sc' = [i \in Targets |-> [sc[i] EXCEPT !.packetized = p(i)]]
      BY <1>8, Zenon DEF Ahd!ahd_parse_cfgdata, Ahd!Refuse
    <3>2. ASSUME NEW i \in Targets
          PROVE  [sc[i] EXCEPT !.packetized = p(i)] \in WordsType
      <4>1. p(i) \in BOOLEAN
        BY DEF Ahd!Packetized, WordsType
      <4>2. sc[i] \in WordsType
        OBVIOUS
      <4> HIDE DEF p
      <4> QED
        BY <4>1, <4>2 DEF WordsType
    <3> HIDE DEF p
    <3> QED
      BY <3>1, <3>2, Zenon
  <2>2. ahdSoftc' \in AhdSoftcType'
    <3> DEFINE known == {i \in Targets : i < ahdBoard.max}
               d == {i \in known : sc[i].disc}
               us == [i \in Targets |-> IF i \in known THEN Ahd!Parsed(sc[i]) ELSE Ahd!NoUser]
               f == (ahdSoftc.flags \ Ahd!Settable) \cup (ahdBoard.control \cap Ahd!Settable)
    <3>1. d \in SUBSET Targets
      OBVIOUS
    <3>2. us \in [Targets -> AhdUserType]
      BY WordsParsed
    <3>3. f \in SUBSET AhdFlagNames
      BY DEF AhdSoftcType, AhdFlagNames, Ahd!Settable
    <3>4. ahdSoftc' = ahdSoftc \/
          ahdSoftc' = [ahdSoftc EXCEPT !.our_id = ahdBoard.id, !.disc = d, !.tag = d, !.user = us,
                                       !.flags = f]
      BY <1>8, Zenon DEF Ahd!ahd_parse_cfgdata, Ahd!Refuse
    <3> HIDE DEF known, d, us, f
    <3>5. \A n \in Ids, a \in SUBSET Targets, g \in [Targets -> AhdUserType],
             e \in SUBSET AhdFlagNames :
             [ahdSoftc EXCEPT !.our_id = n, !.disc = a, !.tag = a, !.user = g, !.flags = e]
                \in AhdSoftcType
      BY DEF AhdSoftcType
    <3>6. ahdBoard.id \in Ids
      BY DEF Ids
    <3>7. [ahdSoftc EXCEPT !.our_id = ahdBoard.id, !.disc = d, !.tag = d, !.user = us, !.flags = f]
             \in AhdSoftcType
      BY <3>1, <3>2, <3>3, <3>5, <3>6
    <3> QED
      BY <2>0, <3>4, <3>7, Zenon
  <2>3. ahdChip' \in AhdChipType'
    BY <1>8, RingFacts DEF Ahd!ahd_parse_cfgdata, Ahd!Refuse, AhdChipType, Ids
  <2>4. ahdMemory' \in MemoryType
    BY <1>8, RingFacts DEF Ahd!ahd_parse_cfgdata, Ahd!Refuse, MemoryType, EntryType
  <2>5. Ahd!TypeOK'
    BY <1>8, <2>2, <2>3, RingFacts DEF Ahd!ahd_parse_cfgdata, Ahd!Refuse, Ahd!TypeOK, SoundAhdBoard, AhdSoftcType, AhdChipType
  <2>6. (ahdStage = "stopped" => ops > 0)'
    BY <1>8, RingFacts DEF Ahd!ahd_parse_cfgdata, Ahd!Refuse, Ahd!TypeOK, SoundAhdBoard
  <2> QED
    BY <2>1, <2>2, <2>3, <2>4, <2>5, <2>6
<1>9. CASE Ahd!ahd_configure_termination
  <2>0. AhdChipType' = AhdChipType /\ AhdSoftcType' = AhdSoftcType
    BY <1>9 DEF Ahd!ahd_configure_termination, AhdChipType, AhdSoftcType, Ids
  <2>1. sc' \in [Targets -> WordsType]
    BY <1>9, RingFacts DEF Ahd!ahd_configure_termination, WordsType
  <2>2. ahdSoftc' \in AhdSoftcType'
    <3>1. PICK b \in BOOLEAN :
             ahdSoftc' = [ahdSoftc EXCEPT
                    !.flags = (ahdSoftc.flags \ {"TERM_ENB_A"})
                              \cup (IF b THEN {"TERM_ENB_A"} ELSE {})]
      BY <1>9, Zenon DEF Ahd!ahd_configure_termination
    <3> QED
      BY <2>0, <3>1 DEF AhdSoftcType, AhdFlagNames
  <2>3. ahdChip' \in AhdChipType'
    <3> DEFINE e == "STPWLEVEL_A" \in ahdSoftc.flags
    <3>1. PICK answered \in BOOLEAN, stack \in SUBSET Ahd!Halves :
             ahdChip' = [ahdChip EXCEPT
                !.stpwen = "prilow" \in Ahd!Termctl(IF answered THEN ahdBoard.sense ELSE stack, answered),
                !.level = e]
      BY <1>9, Zenon DEF Ahd!ahd_configure_termination
    <3> DEFINE b == "prilow" \in Ahd!Termctl(IF answered THEN ahdBoard.sense ELSE stack, answered)
    <3>2. b \in BOOLEAN /\ e \in BOOLEAN
      OBVIOUS
    <3>3. ahdChip' = [ahdChip EXCEPT !.stpwen = b, !.level = e]
      BY <3>1, Zenon
    <3> HIDE DEF b, e
    <3> QED
      BY <2>0, <3>2, <3>3 DEF AhdChipType
  <2>4. ahdMemory' \in MemoryType
    BY <1>9, RingFacts DEF Ahd!ahd_configure_termination, MemoryType, EntryType
  <2>5. Ahd!TypeOK'
    <3>1. \A a \in SUBSET Ahd!Halves, b \in BOOLEAN : Ahd!Termctl(a, b) \subseteq Ahd!Halves
      BY DEF Ahd!Termctl, Ahd!Chosen, Ahd!Halves
    <3>2. latch' \subseteq Ahd!Halves
      BY <1>9, <3>1, Zenon DEF Ahd!ahd_configure_termination, SoundAhdBoard, Ahd!TypeOK
    <3>3. /\ ahdStage' = "init" /\ ahdSource' = ahdSource /\ ops' = ops /\ ahdBoard' = ahdBoard
      BY <1>9 DEF Ahd!ahd_configure_termination
    <3> QED
      BY <2>2, <2>3, <3>2, <3>3 DEF Ahd!TypeOK, AhdSoftcType, AhdChipType
  <2>6. (ahdStage = "stopped" => ops > 0)'
    BY <1>9, RingFacts DEF Ahd!ahd_configure_termination, Ahd!TypeOK, SoundAhdBoard
  <2> QED
    BY <2>1, <2>2, <2>3, <2>4, <2>5, <2>6
<1>10. CASE Ahd!ahd_init
  <2>0. AhdChipType' = AhdChipType /\ AhdSoftcType' = AhdSoftcType
    BY <1>10 DEF Ahd!ahd_init, Ahd!Refuse, Ahd!QueuesEmpty, Ahd!RingEmpty, Ahd!ahd_restart, Ahd!ChipInit, AhdChipType, AhdSoftcType, Ids
  <2>1. sc' \in [Targets -> WordsType]
    BY <1>10, RingFacts DEF Ahd!ahd_init, Ahd!Refuse, Ahd!QueuesEmpty, Ahd!RingEmpty, Ahd!ahd_restart, Ahd!ChipInit, WordsType
  <2>2. ahdSoftc' \in AhdSoftcType'
    BY <1>10, <2>0, AhdEmptied, Zenon DEF Ahd!ahd_init, Ahd!Refuse
  <2>3. ahdChip' \in AhdChipType'
    <3>1. Ahd!ahd_restart(Ahd!ChipInit(ahdChip)) \in AhdChipType
      BY AhdInitialised, AhdRestarted, Zenon
    <3> QED
      BY <1>10, <2>0, <3>1, Zenon DEF Ahd!ahd_init, Ahd!Refuse
  <2>4. ahdMemory' \in MemoryType
    BY <1>10, AhdEmptied, Zenon DEF Ahd!ahd_init, Ahd!Refuse
  <2>5. Ahd!TypeOK'
    BY <1>10, <2>2, <2>3, RingFacts DEF Ahd!ahd_init, Ahd!Refuse, Ahd!QueuesEmpty, Ahd!RingEmpty, Ahd!ahd_restart, Ahd!ChipInit, Ahd!TypeOK, SoundAhdBoard, AhdSoftcType, AhdChipType
  <2>6. (ahdStage = "stopped" => ops > 0)'
    BY <1>10, RingFacts DEF Ahd!ahd_init, Ahd!Refuse, Ahd!QueuesEmpty, Ahd!RingEmpty, Ahd!ahd_restart, Ahd!ChipInit, Ahd!TypeOK, SoundAhdBoard
  <2> QED
    BY <2>1, <2>2, <2>3, <2>4, <2>5, <2>6
<1>11. CASE Ahd!Found
  <2>1. sc' \in [Targets -> WordsType]
    BY <1>11, RingFacts DEF Ahd!Found, Ahd!Enable, WordsType
  <2>2. ahdSoftc' \in AhdSoftcType'
    BY <1>11, RingFacts DEF Ahd!Found, Ahd!Enable, AhdSoftcType, AhdFlagNames, Ids
  <2>3. ahdChip' \in AhdChipType'
    BY <1>11, RingFacts DEF Ahd!Found, Ahd!Enable, AhdChipType, Ids
  <2>4. ahdMemory' \in MemoryType
    BY <1>11, RingFacts DEF Ahd!Found, Ahd!Enable, MemoryType, EntryType
  <2>5. Ahd!TypeOK'
    BY <1>11, <2>2, <2>3, RingFacts DEF Ahd!Found, Ahd!Enable, Ahd!TypeOK, SoundAhdBoard, AhdSoftcType, AhdChipType
  <2>6. (ahdStage = "stopped" => ops > 0)'
    BY <1>11, RingFacts DEF Ahd!Found, Ahd!Enable, Ahd!TypeOK, SoundAhdBoard
  <2> QED
    BY <2>1, <2>2, <2>3, <2>4, <2>5, <2>6
<1>12. ASSUME NEW s \in Scbs, Ahd!ahd_queue_scb(s) PROVE AhdTypes'
  <2>0. AhdChipType' = AhdChipType /\ AhdSoftcType' = AhdSoftcType
    BY <1>12 DEF Ahd!ahd_queue_scb, Ahd!Step, AhdChipType, AhdSoftcType, Ids
  <2>1. sc' \in [Targets -> WordsType]
    BY <1>12, RingFacts DEF Ahd!ahd_queue_scb, Ahd!Step, WordsType
  <2>2. ahdSoftc' \in AhdSoftcType'
    <3> DEFINE h == [ahdSoftc.hscb EXCEPT ![s] = ahdSoftc.next]
    <3>1. /\ ahdSoftc.hscb[s] \in Ahd!Hscbs /\ ahdSoftc.in + 1 \in Nat
          /\ ahdSoftc.pending \cup {s} \in SUBSET Scbs
          /\ h \in [Scbs -> Ahd!Hscbs]
      BY DEF AhdSoftcType
    <3>2. ahdSoftc' = [ahdSoftc EXCEPT !.next = ahdSoftc.hscb[s], !.hscb = h,
                                       !.in = ahdSoftc.in + 1,
                                       !.pending = ahdSoftc.pending \cup {s}]
      BY <1>12, Zenon DEF Ahd!ahd_queue_scb
    <3> HIDE DEF h
    <3>3. \A x \in Ahd!Hscbs, a \in Nat, p \in SUBSET Scbs, g \in [Scbs -> Ahd!Hscbs] :
             [ahdSoftc EXCEPT !.next = x, !.hscb = g, !.in = a, !.pending = p] \in AhdSoftcType
      BY DEF AhdSoftcType
    <3> QED
      BY <2>0, <3>1, <3>2, <3>3, Zenon
  <2>3. ahdChip' \in AhdChipType'
    <3>1. ahdSoftc.in + 1 \in Nat
      BY DEF AhdSoftcType
    <3>2. \A a \in Nat : [ahdChip EXCEPT !.in = a] \in AhdChipType
      BY DEF AhdChipType
    <3> QED
      BY <1>12, <2>0, <3>1, <3>2, Zenon DEF Ahd!ahd_queue_scb
  <2>4. ahdMemory' \in MemoryType
    <3> DEFINE l == [ahdMemory.link EXCEPT ![ahdSoftc.next] = ahdSoftc.hscb[s]]
               g == [ahdMemory.tag EXCEPT ![ahdSoftc.next] = s]
    <3>1. l \in [Ahd!Hscbs -> Ahd!Hscbs] /\ g \in [Ahd!Hscbs -> Ahd!Hscbs]
      BY DEF MemoryType, AhdSoftcType, Ahd!Hscbs
    <3>2. ahdMemory' = [ahdMemory EXCEPT !.link = l, !.tag = g]
      BY <1>12, Zenon DEF Ahd!ahd_queue_scb
    <3> HIDE DEF l, g
    <3> QED
      BY <3>1, <3>2 DEF MemoryType
  <2>5. Ahd!TypeOK'
    BY <1>12, <2>2, <2>3, RingFacts DEF Ahd!ahd_queue_scb, Ahd!Step, Ahd!TypeOK, SoundAhdBoard, AhdSoftcType, AhdChipType
  <2>6. (ahdStage = "stopped" => ops > 0)'
    BY <1>12, RingFacts DEF Ahd!ahd_queue_scb, Ahd!Step, Ahd!TypeOK, SoundAhdBoard
  <2> QED
    BY <2>1, <2>2, <2>3, <2>4, <2>5, <2>6
<1>13. ASSUME NEW s \in Scbs, Ahd!PostScb(s) PROVE AhdTypes'
  <2>1. sc' \in [Targets -> WordsType]
    BY <1>13, RingFacts DEF Ahd!PostScb, Ahd!Sequencer, WordsType
  <2>2. ahdSoftc' \in AhdSoftcType'
    BY <1>13, RingFacts DEF Ahd!PostScb, Ahd!Sequencer, AhdSoftcType, AhdFlagNames, Ids
  <2>3. ahdChip' \in AhdChipType'
    BY <1>13, RingFacts DEF Ahd!PostScb, Ahd!Sequencer, AhdChipType, Ids
  <2>4. ahdMemory' \in MemoryType
    <3> DEFINE r == [ahdMemory.ring EXCEPT ![ahdChip.out] = [valid |-> ahdChip.valid, tag |-> s]]
    <3>1. r \in [Ahd!Ring -> EntryType]
      BY DEF MemoryType, AhdChipType, Ahd!Hscbs, EntryType
    <3>2. ahdMemory' = [ahdMemory EXCEPT !.ring = r]
      BY <1>13, Zenon DEF Ahd!PostScb
    <3> HIDE DEF r
    <3> QED
      BY <3>1, <3>2 DEF MemoryType
  <2>5. Ahd!TypeOK'
    BY <1>13, <2>2, <2>3, RingFacts DEF Ahd!PostScb, Ahd!Sequencer, Ahd!TypeOK, SoundAhdBoard, AhdSoftcType, AhdChipType
  <2>6. (ahdStage = "stopped" => ops > 0)'
    BY <1>13, RingFacts DEF Ahd!PostScb, Ahd!Sequencer, Ahd!TypeOK, SoundAhdBoard
  <2> QED
    BY <2>1, <2>2, <2>3, <2>4, <2>5, <2>6
<1>14. CASE Ahd!FetchScb
  <2>0. AhdChipType' = AhdChipType /\ AhdSoftcType' = AhdSoftcType
    BY <1>14 DEF Ahd!FetchScb, Ahd!Sequencer, AhdChipType, AhdSoftcType, Ids
  <2>1. sc' \in [Targets -> WordsType]
    BY <1>14, RingFacts DEF Ahd!FetchScb, Ahd!Sequencer, WordsType
  <2>2. ahdSoftc' \in AhdSoftcType'
    BY <1>14, RingFacts DEF Ahd!FetchScb, Ahd!Sequencer, AhdSoftcType, AhdFlagNames, Ids
  <2>3. ahdChip' \in AhdChipType'
    <3>1. /\ ahdChip.got + 1 \in Nat /\ ahdMemory.link[ahdChip.next] \in Ahd!Hscbs
          /\ ahdChip.have \cup {ahdMemory.tag[ahdChip.next]} \in SUBSET Ahd!Hscbs
      BY DEF AhdChipType, MemoryType
    <3>2. ahdChip' = [ahdChip EXCEPT !.got = ahdChip.got + 1, !.next = ahdMemory.link[ahdChip.next],
                         !.have = ahdChip.have \cup {ahdMemory.tag[ahdChip.next]}]
      BY <1>14, Zenon DEF Ahd!FetchScb
    <3>3. \A a \in Nat, x \in Ahd!Hscbs, h \in SUBSET Ahd!Hscbs :
             [ahdChip EXCEPT !.got = a, !.next = x, !.have = h] \in AhdChipType
      BY DEF AhdChipType
    <3> QED
      BY <2>0, <3>1, <3>2, <3>3, Zenon
  <2>4. ahdMemory' \in MemoryType
    BY <1>14, RingFacts DEF Ahd!FetchScb, Ahd!Sequencer, MemoryType, EntryType
  <2>5. Ahd!TypeOK'
    BY <1>14, <2>2, <2>3, RingFacts DEF Ahd!FetchScb, Ahd!Sequencer, Ahd!TypeOK, SoundAhdBoard, AhdSoftcType, AhdChipType
  <2>6. (ahdStage = "stopped" => ops > 0)'
    BY <1>14, RingFacts DEF Ahd!FetchScb, Ahd!Sequencer, Ahd!TypeOK, SoundAhdBoard
  <2> QED
    BY <2>1, <2>2, <2>3, <2>4, <2>5, <2>6
<1>15. CASE Ahd!ahd_run_qoutfifo
  <2>1. sc' \in [Targets -> WordsType]
    BY <1>15, RingFacts DEF Ahd!ahd_run_qoutfifo, WordsType
  <2>2. ahdSoftc' \in AhdSoftcType'
    BY <1>15, RingFacts DEF Ahd!ahd_run_qoutfifo, AhdSoftcType, AhdFlagNames, Ids
  <2>3. ahdChip' \in AhdChipType'
    BY <1>15, RingFacts DEF Ahd!ahd_run_qoutfifo, AhdChipType, Ids
  <2>4. ahdMemory' \in MemoryType
    BY <1>15, RingFacts DEF Ahd!ahd_run_qoutfifo, MemoryType, EntryType
  <2>5. Ahd!TypeOK'
    BY <1>15, <2>2, <2>3, RingFacts DEF Ahd!ahd_run_qoutfifo, Ahd!TypeOK, SoundAhdBoard, AhdSoftcType, AhdChipType
  <2>6. (ahdStage = "stopped" => ops > 0)'
    BY <1>15, RingFacts DEF Ahd!ahd_run_qoutfifo, Ahd!TypeOK, SoundAhdBoard
  <2> QED
    BY <2>1, <2>2, <2>3, <2>4, <2>5, <2>6
<1>16. CASE Ahd!HwResetBus
  <2>0. AhdChipType' = AhdChipType /\ AhdSoftcType' = AhdSoftcType
    BY <1>16 DEF Ahd!HwResetBus, Ahd!Step, Ahd!QueuesEmpty, Ahd!RingEmpty, Ahd!ahd_restart, Ahd!ChipInit, Ahd!AfterReset, AhdChipType, AhdSoftcType, Ids
  <2>1. sc' \in [Targets -> WordsType]
    BY <1>16, RingFacts DEF Ahd!HwResetBus, Ahd!Step, Ahd!QueuesEmpty, Ahd!RingEmpty, Ahd!ahd_restart, Ahd!ChipInit, Ahd!AfterReset, WordsType
  <2>2. ahdSoftc' \in AhdSoftcType'
    <3> DEFINE ran == [ahdSoftc EXCEPT !.out = ahdChip.out, !.valid = ahdChip.valid]
               c   == IF Ahd!ResetsChipWithBus THEN Ahd!ChipInit(Ahd!AfterReset(ahdChip)) ELSE ahdChip
               x   == IF Ahd!ResetsChipWithBus THEN Ahd!QueuesEmpty(ran) ELSE ran
               g   == [i \in Targets |-> Ahd!Async]
    <3>1. c \in AhdChipType
      BY AhdCleared, AhdInitialised, Zenon
    <3>2. ran \in AhdSoftcType
      BY DEF AhdSoftcType, AhdChipType
    <3>3. x \in AhdSoftcType
      BY <3>2, AhdEmptied, Zenon
    <3>4. ahdSoftc' = [x EXCEPT !.in = c.got, !.pending = {}, !.curr = g]
      BY <1>16, Zenon DEF Ahd!HwResetBus
    <3>5. g \in [Targets -> Settled]
      BY DEF Settled
    <3> HIDE DEF ran, c, x, g
    <3>6. c.got \in Nat
      BY <3>1 DEF AhdChipType
    <3>7. \A a \in Nat, p \in SUBSET Scbs, n \in [Targets -> Settled] :
             [x EXCEPT !.in = a, !.pending = p, !.curr = n] \in AhdSoftcType
      BY <3>3 DEF AhdSoftcType
    <3> QED
      BY <2>0, <3>4, <3>5, <3>6, <3>7
  <2>3. ahdChip' \in AhdChipType'
    <3> DEFINE c == IF Ahd!ResetsChipWithBus THEN Ahd!ChipInit(Ahd!AfterReset(ahdChip)) ELSE ahdChip
               g == [i \in Targets |-> Ahd!Async]
               z == [c EXCEPT !.in = c.got, !.have = {}, !.next = ahdSoftc.next, !.neg = g]
    <3>1. c \in AhdChipType
      BY AhdCleared, AhdInitialised, Zenon
    <3>2. g \in [Targets -> Settled \cup {"unknown"}]
      BY DEF Settled
    <3>3. ahdChip' = Ahd!ahd_restart(z)
      BY <1>16, Zenon DEF Ahd!HwResetBus
    <3> HIDE DEF c, g
    <3>4. c.got \in Nat /\ ahdSoftc.next \in Ahd!Hscbs
      BY <3>1 DEF AhdChipType, AhdSoftcType
    <3>5. \A a \in Nat, h \in SUBSET Ahd!Hscbs, x \in Ahd!Hscbs,
             n \in [Targets -> Settled \cup {"unknown"}] :
             [c EXCEPT !.in = a, !.have = h, !.next = x, !.neg = n] \in AhdChipType
      BY <3>1 DEF AhdChipType
    <3>6. z \in AhdChipType
      BY <3>2, <3>4, <3>5
    <3> HIDE DEF z
    <3> QED
      BY <2>0, <3>3, <3>6, AhdRestarted, Zenon
  <2>4. ahdMemory' \in MemoryType
    BY <1>16, RingFacts DEF Ahd!HwResetBus, Ahd!Step, Ahd!QueuesEmpty, Ahd!RingEmpty, Ahd!ahd_restart, Ahd!ChipInit, Ahd!AfterReset, MemoryType, EntryType
  <2>5. Ahd!TypeOK'
    <3>1. /\ ahdStage' = "running" /\ ahdSource' = ahdSource /\ ops' = ops + 1 /\ ops < ahdBoard.load
          /\ ahdBoard' = ahdBoard /\ latch' = latch
      BY <1>16 DEF Ahd!HwResetBus, Ahd!Step
    <3> QED
      BY <2>2, <2>3, <3>1, RingAssumption DEF Ahd!TypeOK, AhdSoftcType, AhdChipType, SoundAhdBoard
  <2>6. (ahdStage = "stopped" => ops > 0)'
    BY <1>16, RingFacts DEF Ahd!HwResetBus, Ahd!Step, Ahd!QueuesEmpty, Ahd!RingEmpty, Ahd!ahd_restart, Ahd!ChipInit, Ahd!AfterReset, Ahd!TypeOK, SoundAhdBoard
  <2> QED
    BY <2>1, <2>2, <2>3, <2>4, <2>5, <2>6
<1>17. ASSUME NEW i \in Targets, Ahd!Negotiated(i) PROVE AhdTypes'
  <2>0. AhdChipType' = AhdChipType /\ AhdSoftcType' = AhdSoftcType
    BY <1>17 DEF Ahd!Negotiated, Ahd!Step, AhdChipType, AhdSoftcType, Ids
  <2>1. sc' \in [Targets -> WordsType]
    BY <1>17, RingFacts DEF Ahd!Negotiated, Ahd!Step, WordsType
  <2>2. ahdSoftc' \in AhdSoftcType'
    <3> DEFINE g == [ahdSoftc.curr EXCEPT ![i] = "negotiated"]
    <3>1. g \in [Targets -> Settled]
      BY DEF AhdSoftcType, Settled
    <3>2. ahdSoftc' = [ahdSoftc EXCEPT !.curr = g]
      BY <1>17, Zenon DEF Ahd!Negotiated
    <3> HIDE DEF g
    <3> QED
      BY <2>0, <3>1, <3>2 DEF AhdSoftcType
  <2>3. ahdChip' \in AhdChipType'
    <3> DEFINE g == [ahdChip.neg EXCEPT ![i] = "negotiated"]
    <3>1. g \in [Targets -> Settled \cup {"unknown"}]
      BY DEF AhdChipType, Settled
    <3>2. ahdChip' = [ahdChip EXCEPT !.neg = g]
      BY <1>17, Zenon DEF Ahd!Negotiated
    <3> HIDE DEF g
    <3> QED
      BY <2>0, <3>1, <3>2 DEF AhdChipType
  <2>4. ahdMemory' \in MemoryType
    BY <1>17, RingFacts DEF Ahd!Negotiated, Ahd!Step, MemoryType, EntryType
  <2>5. Ahd!TypeOK'
    BY <1>17, <2>2, <2>3, RingFacts DEF Ahd!Negotiated, Ahd!Step, Ahd!TypeOK, SoundAhdBoard, AhdSoftcType, AhdChipType
  <2>6. (ahdStage = "stopped" => ops > 0)'
    BY <1>17, RingFacts DEF Ahd!Negotiated, Ahd!Step, Ahd!TypeOK, SoundAhdBoard
  <2> QED
    BY <2>1, <2>2, <2>3, <2>4, <2>5, <2>6
<1>18. CASE Ahd!ScsiStopAdapter
  <2>1. sc' \in [Targets -> WordsType]
    BY <1>18, RingFacts DEF Ahd!ScsiStopAdapter, Ahd!Step, Ahd!Enable, WordsType
  <2>2. ahdSoftc' \in AhdSoftcType'
    BY <1>18, RingFacts DEF Ahd!ScsiStopAdapter, Ahd!Step, Ahd!Enable, AhdSoftcType, AhdFlagNames, Ids
  <2>3. ahdChip' \in AhdChipType'
    BY <1>18, RingFacts DEF Ahd!ScsiStopAdapter, Ahd!Step, Ahd!Enable, AhdChipType, Ids
  <2>4. ahdMemory' \in MemoryType
    BY <1>18, RingFacts DEF Ahd!ScsiStopAdapter, Ahd!Step, Ahd!Enable, MemoryType, EntryType
  <2>5. Ahd!TypeOK'
    BY <1>18, <2>2, <2>3, RingFacts DEF Ahd!ScsiStopAdapter, Ahd!Step, Ahd!Enable, Ahd!TypeOK, SoundAhdBoard, AhdSoftcType, AhdChipType
  <2>6. (ahdStage = "stopped" => ops > 0)'
    BY <1>18, RingFacts DEF Ahd!ScsiStopAdapter, Ahd!Step, Ahd!Enable, Ahd!TypeOK, SoundAhdBoard
  <2> QED
    BY <2>1, <2>2, <2>3, <2>4, <2>5, <2>6
<1>19. CASE Ahd!LosePower
  <2>0. AhdChipType' = AhdChipType /\ AhdSoftcType' = AhdSoftcType
    BY <1>19 DEF Ahd!LosePower, AhdChipType, AhdSoftcType, Ids
  <2>1. sc' \in [Targets -> WordsType]
    BY <1>19, RingFacts DEF Ahd!LosePower, WordsType
  <2>2. ahdSoftc' \in AhdSoftcType'
    BY <1>19, RingFacts DEF Ahd!LosePower, AhdSoftcType, AhdFlagNames, Ids
  <2>3. ahdChip' \in AhdChipType'
    <3> DEFINE g == [i \in Targets |-> "unknown"]
    <3>1. /\ g \in [Targets -> Settled \cup {"unknown"}] /\ 0 \in Ids /\ FALSE \in BOOLEAN
          /\ TRUE \in BOOLEAN /\ Ahd!Sentinel \in Ahd!Hscbs
      BY DEF Ids, Ahd!Hscbs
    <3> HIDE DEF g
    <3>2. \A d \in Ids, p \in BOOLEAN, o \in Ahd!Ring, n \in [Targets -> Settled \cup {"unknown"}] :
             [ahdChip EXCEPT !.id = d, !.stpwen = p, !.spchk = p, !.out = o, !.neg = n]
                \in AhdChipType
      BY DEF AhdChipType
    <3> DEFINE c == [ahdChip EXCEPT !.id = 0, !.stpwen = FALSE, !.spchk = FALSE, !.out = 0,
                                    !.neg = g]
    <3>3. c \in AhdChipType
      BY <3>1, <3>2, RingFacts
    <3>4. ahdChip' = [c EXCEPT !.valid = FALSE, !.next = Ahd!Sentinel, !.paused = TRUE]
      BY <1>19, Zenon DEF Ahd!LosePower, g
    <3> HIDE DEF c
    <3> QED
      BY <2>0, <3>1, <3>3, <3>4 DEF AhdChipType
  <2>4. ahdMemory' \in MemoryType
    BY <1>19, RingFacts DEF Ahd!LosePower, MemoryType, EntryType
  <2>5. Ahd!TypeOK'
    BY <1>19, <2>2, <2>3, RingFacts DEF Ahd!LosePower, Ahd!TypeOK, SoundAhdBoard, AhdSoftcType, AhdChipType
  <2>6. (ahdStage = "stopped" => ops > 0)'
    BY <1>19, RingFacts DEF Ahd!LosePower, Ahd!TypeOK, SoundAhdBoard
  <2> QED
    BY <2>1, <2>2, <2>3, <2>4, <2>5, <2>6
<1>20. CASE Ahd!ScsiRestartAdapter
  <2>0. AhdChipType' = AhdChipType /\ AhdSoftcType' = AhdSoftcType
    BY <1>20 DEF Ahd!ScsiRestartAdapter, Ahd!ahd_chip_init, Ahd!ChipInit, Ahd!QueuesEmpty, Ahd!RingEmpty, Ahd!AfterReset, AhdChipType, AhdSoftcType, Ids
  <2>1. sc' \in [Targets -> WordsType]
    BY <1>20, RingFacts DEF Ahd!ScsiRestartAdapter, Ahd!ahd_chip_init, Ahd!ChipInit, Ahd!QueuesEmpty, Ahd!RingEmpty, Ahd!AfterReset, WordsType
  <2>2. ahdSoftc' \in AhdSoftcType'
    BY <1>20, <2>0, AhdEmptied, Zenon DEF Ahd!ScsiRestartAdapter, Ahd!ahd_chip_init
  <2>3. ahdChip' \in AhdChipType'
    BY <1>20, <2>0, AhdCleared, AhdInitialised, Zenon DEF Ahd!ScsiRestartAdapter, Ahd!ahd_chip_init
  <2>4. ahdMemory' \in MemoryType
    BY <1>20, AhdEmptied, Zenon DEF Ahd!ScsiRestartAdapter, Ahd!ahd_chip_init
  <2>5. Ahd!TypeOK'
    BY <1>20, <2>2, <2>3, RingFacts DEF Ahd!ScsiRestartAdapter, Ahd!ahd_chip_init, Ahd!ChipInit, Ahd!QueuesEmpty, Ahd!RingEmpty, Ahd!AfterReset, Ahd!TypeOK, SoundAhdBoard, AhdSoftcType, AhdChipType
  <2>6. (ahdStage = "stopped" => ops > 0)'
    BY <1>20, RingFacts DEF Ahd!ScsiRestartAdapter, Ahd!ahd_chip_init, Ahd!ChipInit, Ahd!QueuesEmpty, Ahd!RingEmpty, Ahd!AfterReset, Ahd!TypeOK, SoundAhdBoard
  <2> QED
    BY <2>1, <2>2, <2>3, <2>4, <2>5, <2>6
<1>21. CASE UNCHANGED Ahd!vars
  BY <1>21 DEF Ahd!vars, Ahd!TypeOK, AhdSoftcType, AhdChipType, Ids
<1> QED
  BY <1>1, <1>2, <1>3, <1>4, <1>5, <1>6, <1>7, <1>8, <1>9, <1>10, <1>11, <1>12, <1>13, <1>14, <1>15, <1>16, <1>17, <1>18, <1>19, <1>20, <1>21 DEF Ahd!Next

LEMMA StepAhdQuiet ==
    ASSUME AhdTypes, AhdQuiet, [Ahd!Next]_(Ahd!vars)
    PROVE  AhdQuiet'
<1> USE DEF AhdTypes
<1>1. CASE Ahd!HwFindAdapter
  BY <1>1, Zenon DEF Ahd!HwFindAdapter, AhdQuiet, Ahd!QuietUntilReady, AhdSoftcType, AhdChipType
<1>2. CASE Ahd!ahd_aic790X_setup
  BY <1>2, Zenon DEF Ahd!ahd_aic790X_setup, Ahd!Refuse, AhdQuiet, Ahd!QuietUntilReady, AhdSoftcType, AhdChipType
<1>3. CASE Ahd!ahd_pci_test_register_access
  BY <1>3, Zenon DEF Ahd!ahd_pci_test_register_access, Ahd!Refuse, AhdQuiet, Ahd!QuietUntilReady, AhdSoftcType, AhdChipType
<1>4. CASE Ahd!ahd_reset
  BY <1>4, Zenon DEF Ahd!ahd_reset, Ahd!AfterReset, AhdQuiet, Ahd!QuietUntilReady, AhdSoftcType, AhdChipType
<1>5. CASE Ahd!ReadSeeprom
  BY <1>5, Zenon DEF Ahd!ReadSeeprom, AhdQuiet, Ahd!QuietUntilReady, AhdSoftcType, AhdChipType
<1>6. CASE Ahd!ReadScratchCopy
  BY <1>6, Zenon DEF Ahd!ReadScratchCopy, AhdQuiet, Ahd!QuietUntilReady, AhdSoftcType, AhdChipType
<1>7. CASE Ahd!ahd_default_config
  BY <1>7, Zenon DEF Ahd!ahd_default_config, Ahd!Refuse, AhdQuiet, Ahd!QuietUntilReady, AhdSoftcType, AhdChipType
<1>8. CASE Ahd!ahd_parse_cfgdata
  BY <1>8, Zenon DEF Ahd!ahd_parse_cfgdata, Ahd!Refuse, AhdQuiet, Ahd!QuietUntilReady, AhdSoftcType, AhdChipType
<1>9. CASE Ahd!ahd_configure_termination
  BY <1>9, Zenon DEF Ahd!ahd_configure_termination, AhdQuiet, Ahd!QuietUntilReady, AhdSoftcType, AhdChipType
<1>10. CASE Ahd!ahd_init
  BY <1>10, ZenonT(40) DEF Ahd!ahd_init, Ahd!Refuse, Ahd!QueuesEmpty, Ahd!RingEmpty, Ahd!ahd_restart, Ahd!ChipInit, AhdQuiet, Ahd!QuietUntilReady, AhdSoftcType, AhdChipType
<1>11. CASE Ahd!Found
  BY <1>11, Zenon DEF Ahd!Found, Ahd!Enable, AhdQuiet, Ahd!QuietUntilReady, AhdSoftcType, AhdChipType
<1>12. ASSUME NEW s \in Scbs, Ahd!ahd_queue_scb(s) PROVE AhdQuiet'
  BY <1>12, Zenon DEF Ahd!ahd_queue_scb, Ahd!Step, AhdQuiet, Ahd!QuietUntilReady, AhdSoftcType, AhdChipType
<1>13. ASSUME NEW s \in Scbs, Ahd!PostScb(s) PROVE AhdQuiet'
  BY <1>13, Zenon DEF Ahd!PostScb, Ahd!Sequencer, AhdQuiet, Ahd!QuietUntilReady, AhdSoftcType, AhdChipType
<1>14. CASE Ahd!FetchScb
  BY <1>14, Zenon DEF Ahd!FetchScb, Ahd!Sequencer, AhdQuiet, Ahd!QuietUntilReady, AhdSoftcType, AhdChipType
<1>15. CASE Ahd!ahd_run_qoutfifo
  BY <1>15, Zenon DEF Ahd!ahd_run_qoutfifo, AhdQuiet, Ahd!QuietUntilReady, AhdSoftcType, AhdChipType
<1>16. CASE Ahd!HwResetBus
  BY <1>16, Zenon DEF Ahd!HwResetBus, Ahd!Step, Ahd!QueuesEmpty, Ahd!RingEmpty, Ahd!ahd_restart, Ahd!ChipInit, Ahd!AfterReset, AhdQuiet, Ahd!QuietUntilReady, AhdSoftcType, AhdChipType
<1>17. ASSUME NEW i \in Targets, Ahd!Negotiated(i) PROVE AhdQuiet'
  BY <1>17, Zenon DEF Ahd!Negotiated, Ahd!Step, AhdQuiet, Ahd!QuietUntilReady, AhdSoftcType, AhdChipType
<1>18. CASE Ahd!ScsiStopAdapter
  BY <1>18, Zenon DEF Ahd!ScsiStopAdapter, Ahd!Step, Ahd!Enable, AhdQuiet, Ahd!QuietUntilReady, AhdSoftcType, AhdChipType
<1>19. CASE Ahd!LosePower
  BY <1>19, Zenon DEF Ahd!LosePower, AhdQuiet, Ahd!QuietUntilReady, AhdSoftcType, AhdChipType
<1>20. CASE Ahd!ScsiRestartAdapter
  BY <1>20, Zenon DEF Ahd!ScsiRestartAdapter, Ahd!ahd_chip_init, Ahd!ChipInit, Ahd!QueuesEmpty, Ahd!RingEmpty, Ahd!AfterReset, AhdQuiet, Ahd!QuietUntilReady, AhdSoftcType, AhdChipType
<1>21. CASE UNCHANGED Ahd!vars
  BY <1>21 DEF Ahd!vars, AhdQuiet, Ahd!QuietUntilReady
<1> QED
  BY <1>1, <1>2, <1>3, <1>4, <1>5, <1>6, <1>7, <1>8, <1>9, <1>10, <1>11, <1>12, <1>13, <1>14, <1>15, <1>16, <1>17, <1>18, <1>19, <1>20, <1>21 DEF Ahd!Next

-----------------------------------------------------------------------------
(* One behaviour is of one board of either family, or of an EEPROM.        *)

OneBoard ==
    /\ board \in (Boards \ Extras) \cup {Board}
    /\ ahdBoard \in AhdBoards \cup {AhdBoard}

Kept == OneBoard /\ Types /\ Quiet /\ AhdTypes /\ AhdQuiet

LEMMA Known == OneBoard => SoundBoard(board) /\ SoundAhdBoard(ahdBoard)
  BY BoardsAssumption, AhdBoardsAssumption DEF OneBoard

LEMMA SameBoards ==
    ASSUME [ConfigNext]_<<part_of, vars, ahdVars, serVars>>
    PROVE  /\ [Next]_vars /\ [Ahd!Next]_(Ahd!vars)
           /\ board' = board /\ ahdBoard' = ahdBoard
<1>1. [Next]_vars /\ [Ahd!Next]_(Ahd!vars)
  BY DEF ConfigNext, ahdVars, Ahd!vars
<1>2. board' = board
  BY <1>1 DEF vars, Next, HwFindAdapter, ahc_pci_test_register_access, RememberAndReset,
     ReadSeeprom, ReadScratchCopy, ahc_parse_pci_eeprom, Terminate, Settle, ProbeRam, ahc_init,
     ahc_chip_init, Found, ScsiStopAdapter, LosePower, ScsiRestartAdapter, LoadAgain
<1>3. ahdBoard' = ahdBoard
  BY <1>1 DEF Ahd!vars, Ahd!Next, Ahd!HwFindAdapter, Ahd!ahd_aic790X_setup,
     Ahd!ahd_pci_test_register_access, Ahd!ahd_reset, Ahd!ReadSeeprom, Ahd!ReadScratchCopy,
     Ahd!ahd_default_config, Ahd!ahd_parse_cfgdata, Ahd!ahd_configure_termination, Ahd!ahd_init,
     Ahd!Found, Ahd!ahd_queue_scb, Ahd!PostScb, Ahd!FetchScb, Ahd!ahd_run_qoutfifo,
     Ahd!HwResetBus, Ahd!Negotiated, Ahd!ScsiStopAdapter, Ahd!LosePower, Ahd!ScsiRestartAdapter,
     Ahd!Refuse, Ahd!Sequencer
<1> QED
  BY <1>1, <1>2, <1>3

LEMMA InitKept ==
    ASSUME Extras = {}, ConfigInit
    PROVE  Kept
<1>1. OneBoard
  BY DEF ConfigInit, OneBoard
<1>2. Types /\ Quiet
  BY <1>1, InitTypes DEF ConfigInit, OneBoard
<1>3. AhdTypes /\ AhdQuiet
  BY <1>1, InitAhdTypes DEF ConfigInit, OneBoard
<1> QED
  BY <1>1, <1>2, <1>3 DEF Kept

LEMMA StepKept ==
    ASSUME Kept, [ConfigNext]_<<part_of, vars, ahdVars, serVars>>
    PROVE  Kept'
<1>1. SoundBoard(board) /\ SoundAhdBoard(ahdBoard)
  BY Known DEF Kept
<1>2. /\ [Next]_vars /\ [Ahd!Next]_(Ahd!vars)
      /\ board' = board /\ ahdBoard' = ahdBoard
  BY SameBoards
<1>3. Types' /\ Quiet'
  BY <1>1, <1>2, StepTypes, StepQuiet DEF Kept
<1>4. AhdTypes' /\ AhdQuiet'
  BY <1>1, <1>2, StepAhdTypes, StepAhdQuiet DEF Kept
<1>5. OneBoard'
  BY <1>2 DEF Kept, OneBoard
<1> QED
  BY <1>3, <1>4, <1>5 DEF Kept

LEMMA AlwaysKept ==
    ASSUME Extras = {}
    PROVE  ConfigSpec => []Kept
<1>1. ConfigInit => Kept
  BY InitKept
<1>2. Kept /\ [ConfigNext]_<<part_of, vars, ahdVars, serVars>> => Kept'
  BY StepKept
<1> QED
  BY <1>1, <1>2, PTL DEF ConfigSpec

\* The stages and tables of both drivers are of their types, and no interrupt is let
\* through before a board is ready, nor from a stop to the end of the restart
\* (ahc_intr_enable, ahd_intr_enable and every write of HCNTRL).
THEOREM BoardsAreQuiet ==
    ASSUME Extras = {}
    PROVE  ConfigSpec => []BoardsHold
<1>1. Kept => BoardsHold
  BY DEF Kept, BoardsHold, BoardConsistent, Types, Quiet, QuietUntilReady, AhdTypes, AhdQuiet
<1> QED
  BY <1>1, AlwaysKept, PTL

-----------------------------------------------------------------------------
(* The table of rates, read by code.                                       *)

Rate(i) == ahc_syncrates[i]

LEMMA Codes ==
    /\ \A i \in 1 .. 14 : Rate(i).u2 # 0 /\ Rate(i).u2 % 16 = 2 <=> i = 1
    /\ \A i \in 1 .. 14, r \in 3 .. 12 : Rate(i).u2 # 0 /\ Rate(i).u2 % 16 = r <=> i = r - 1
    /\ \A i \in 4 .. 6 : Sxfr(Rate(i).sxfr) = i - 4
    /\ \A i \in 7 .. 14 : Sxfr(Rate(i).sxfr) = i - 7
<1>1. /\ Rate(1).u2 = 66 /\ Rate(2).u2 = 3 /\ Rate(3).u2 = 4 /\ Rate(4).u2 = 5
      /\ Rate(5).u2 = 6 /\ Rate(6).u2 = 7 /\ Rate(7).u2 = 8 /\ Rate(8).u2 = 25
      /\ Rate(9).u2 = 26 /\ Rate(10).u2 = 27 /\ Rate(11).u2 = 28 /\ Rate(12).u2 = 0
      /\ Rate(13).u2 = 0 /\ Rate(14).u2 = 0
  BY DEF Rate, ahc_syncrates
<1>2. /\ Rate(4).sxfr = 256 /\ Rate(5).sxfr = 272 /\ Rate(6).sxfr = 288 /\ Rate(7).sxfr = 0
      /\ Rate(8).sxfr = 16 /\ Rate(9).sxfr = 32 /\ Rate(10).sxfr = 48 /\ Rate(11).sxfr = 64
      /\ Rate(12).sxfr = 80 /\ Rate(13).sxfr = 96 /\ Rate(14).sxfr = 112
  BY DEF Rate, ahc_syncrates
<1>3. \A i \in 1 .. 14 : Rate(i).u2 # 0 /\ Rate(i).u2 % 16 = 2 <=> i = 1
  BY <1>1
<1>4. \A i \in 1 .. 14, r \in 3 .. 12 : Rate(i).u2 # 0 /\ Rate(i).u2 % 16 = r <=> i = r - 1
  BY <1>1
<1>5. \A i \in 4 .. 6 : Sxfr(Rate(i).sxfr) = i - 4
  BY <1>2 DEF Sxfr
<1>6. \A i \in 7 .. 14 : Sxfr(Rate(i).sxfr) = i - 7
  BY <1>2 DEF Sxfr
<1> QED
  BY <1>3, <1>4, <1>5, <1>6

LEMMA Tables ==
    /\ \A r \in 3 .. 12 : Rate(r - 1).period = Ultra2Periods[r + 1]
    /\ Rate(1).period = Ultra2Periods[3] /\ Ultra2Periods[1] = Ultra2Periods[13]
    /\ \A c \in 0 .. 2 : Rate(c + 4).period = UltraPeriods[c + 1]
    /\ \A c \in 0 .. 7 : Rate(c + 7).period = FastPeriods[c + 1]
  BY DEF Rate, ahc_syncrates, Ultra2Periods, UltraPeriods, FastPeriods

LEMMA MaxOf ==
    ASSUME NEW a \in Int, NEW b \in Int
    PROVE  Max({a, b}) = IF a >= b THEN a ELSE b
<1> DEFINE m == IF a >= b THEN a ELSE b
           Top(x) == \A y \in {a, b} : x >= y
<1>1. m \in {a, b} /\ Top(m)
  OBVIOUS
<1>2. Max({a, b}) = CHOOSE x \in {a, b} : Top(x)
  BY DEF Max
<1>3. (CHOOSE x \in {a, b} : Top(x)) \in {a, b} /\ Top(CHOOSE x \in {a, b} : Top(x))
  BY <1>1, Zenon
<1> HIDE DEF Top
<1>4. Max({a, b}) \in {a, b} /\ Top(Max({a, b}))
  BY <1>2, <1>3
<1> QED
  BY <1>4 DEF Top

LEMMA PeriodIs ==
    ASSUME NEW rate, NEW maxsync, NEW m \in 1 .. 14, FirstRate(maxsync) \in 0 .. 6,
           FirstRate(maxsync) < m,
           IF Has("ULTRA2") THEN Rate(m).u2 # 0 /\ Rate(m).u2 % 16 = Sofs(rate)
                            ELSE Sxfr(Rate(m).sxfr) = Sxfr(rate),
           \A i \in FirstRate(maxsync) + 1 .. m - 1 :
              IF Has("ULTRA2") THEN ~(Rate(i).u2 # 0 /\ Rate(i).u2 % 16 = Sofs(rate))
                               ELSE Sxfr(Rate(i).sxfr) # Sxfr(rate)
    PROVE  ahc_find_period(rate, maxsync) = Rate(m).period
<1> DEFINE Fits(i) == IF Has("ULTRA2")
                      THEN ahc_syncrates[i].u2 # 0 /\ ahc_syncrates[i].u2 % 16 = Sofs(rate)
                      ELSE Sxfr(ahc_syncrates[i].sxfr) = Sxfr(rate)
           matches == {i \in FirstRate(maxsync) + 1 .. Len(ahc_syncrates) : Fits(i)}
<1>1. ahc_find_period(rate, maxsync)
         = IF matches = {} THEN 0 ELSE ahc_syncrates[Min(matches)].period
  BY DEF ahc_find_period
<1>2. Fits(m) /\ \A i \in FirstRate(maxsync) + 1 .. m - 1 : ~Fits(i)
  BY DEF Rate
<1> HIDE DEF Fits
<1>3. m \in matches /\ \A i \in matches : m <= i /\ i \in Int
  BY <1>2, Syncrates
<1> HIDE DEF matches
<1>4. Min(matches) = m
  BY <1>3, MinIs
<1> QED
  BY <1>1, <1>3, <1>4 DEF Rate

LEMMA NewPeriod ==
    ASSUME Has("ULTRA2"), NEW rate, NEW r \in 2 .. 12, Sofs(rate) = r, r = 2 => Has("DT")
    PROVE  ahc_find_period(rate, IF Has("DT") THEN AHC_SYNCRATE_DT ELSE AHC_SYNCRATE_ULTRA2)
              = Ultra2Periods[r + 1]
<1> DEFINE top == IF Has("DT") THEN AHC_SYNCRATE_DT ELSE AHC_SYNCRATE_ULTRA2
<1>1. FirstRate(top) = IF Has("DT") THEN 0 ELSE 1
  <2>1. CASE Has("DT")
    BY <2>1 DEF FirstRate, AHC_SYNCRATE_DT
  <2>2. CASE ~Has("DT")
    <3>1. top = 1
      BY <2>2 DEF AHC_SYNCRATE_ULTRA2
    <3>2. Max({1, 1}) = 1
      BY MaxOf
    <3>3. FirstRate(1) = Max({1, 1})
      BY <2>2, Zenon DEF FirstRate, AHC_SYNCRATE_ULTRA2
    <3> QED
      BY <2>2, <3>1, <3>2, <3>3
  <2> QED
    BY <2>1, <2>2
<1> HIDE DEF top
<1>2. CASE r = 2
  <2>1. ahc_find_period(rate, top) = Rate(1).period
    <3>1. FirstRate(top) = 0 /\ 1 \in 1 .. 14 /\ Sofs(rate) = 2
      BY <1>1, <1>2
    <3>2. Rate(1).u2 # 0 /\ Rate(1).u2 % 16 = 2
      BY Codes
    <3>3. \A i \in FirstRate(top) + 1 .. 1 - 1 : FALSE
      BY <3>1
    <3>4. FirstRate(top) \in 0 .. 6 /\ FirstRate(top) < 1
      BY <3>1
    <3> QED
      BY <3>1, <3>2, <3>3, <3>4, PeriodIs
  <2> QED
    BY <1>2, <2>1, Tables DEF top
<1>3. CASE r \in 3 .. 12
  <2>1. \A i \in 1 .. 14 : Rate(i).u2 # 0 /\ Rate(i).u2 % 16 = r <=> i = r - 1
    BY <1>3, Codes
  <2>2. r - 1 \in 1 .. 14 /\ FirstRate(top) \in 0 .. 6 /\ FirstRate(top) < r - 1
    BY <1>1, <1>3
  <2>3. \A i \in FirstRate(top) + 1 .. (r - 1) - 1 : ~(Rate(i).u2 # 0 /\ Rate(i).u2 % 16 = r)
    BY <2>1, <2>2
  <2>4. ahc_find_period(rate, top) = Rate(r - 1).period
    BY <2>1, <2>2, <2>3, PeriodIs
  <2> QED
    BY <1>3, <2>4, Tables DEF top
<1> QED
  BY <1>2, <1>3

LEMMA FastPeriod ==
    ASSUME ~Has("ULTRA2"), ~Has("DT"), NEW rate, NEW c \in 0 .. 7, Sxfr(rate) = c
    PROVE  /\ ahc_find_period(rate, AHC_SYNCRATE_FAST) = FastPeriods[c + 1]
           /\ Has("ULTRA") /\ c <= 2 =>
                 ahc_find_period(rate, AHC_SYNCRATE_ULTRA) = UltraPeriods[c + 1]
<1>1. FirstRate(AHC_SYNCRATE_FAST) = 6
  BY MaxOf DEF FirstRate, AHC_SYNCRATE_FAST, AHC_SYNCRATE_ULTRA
<1>2. ahc_find_period(rate, AHC_SYNCRATE_FAST) = Rate(c + 7).period
  <2>1. c + 7 \in 1 .. 14 /\ FirstRate(AHC_SYNCRATE_FAST) < c + 7
    BY <1>1
  <2>2. Sxfr(Rate(c + 7).sxfr) = c
    BY Codes
  <2>3. \A i \in FirstRate(AHC_SYNCRATE_FAST) + 1 .. (c + 7) - 1 : Sxfr(Rate(i).sxfr) # c
    BY <1>1, Codes
  <2> QED
    BY <1>1, <2>1, <2>2, <2>3, PeriodIs
<1>3. ASSUME Has("ULTRA"), c <= 2
      PROVE  ahc_find_period(rate, AHC_SYNCRATE_ULTRA) = Rate(c + 4).period
  <2>1. FirstRate(AHC_SYNCRATE_ULTRA) = 3
    BY <1>3, MaxOf DEF FirstRate, AHC_SYNCRATE_ULTRA
  <2>2. c + 4 \in 4 .. 6 /\ c + 4 \in 1 .. 14 /\ FirstRate(AHC_SYNCRATE_ULTRA) < c + 4
    BY <1>3, <2>1
  <2>3. Sxfr(Rate(c + 4).sxfr) = c
    BY <2>2, Codes
  <2>4. \A i \in FirstRate(AHC_SYNCRATE_ULTRA) + 1 .. (c + 4) - 1 : Sxfr(Rate(i).sxfr) # c
    BY <1>3, <2>1, Codes
  <2> QED
    BY <2>1, <2>2, <2>3, <2>4, PeriodIs
<1> QED
  BY <1>2, <1>3, Tables

-----------------------------------------------------------------------------
(* The settings of a target through scratch RAM and back.                  *)

\* What the chip of the board can do on this board.
Feats == (Features(board.chip) \cup (IF board.wide THEN {"WIDE"} ELSE {}))
            \ (IF board.rext THEN {} ELSE {"ULTRA"})

NewFmt     == Newer \/ (CF("ULTRAEN") /\ \E j \in Targets : board.flags[j].ultra)
UltraOf(i) == IF NewFmt THEN board.flags[i].ultra ELSE CF("ULTRAEN")
AtTen(i)   == board.flags[i].xfer = 4 /\ UltraOf(i)
CodeOf(i)  == IF AtTen(i) THEN 0 ELSE board.flags[i].xfer

RateOf(i) ==
    Bit(board.flags[i].wideb, 128) +
    IF Newer THEN CodeOf(i) + Bit(UltraOf(i) /\ ~AtTen(i), 8)
    ELSE CodeOf(i) * 16 + Bit(board.flags[i].synch, 15)

\* The scratch RAM holds the words of the EEPROM.
WordsStored ==
    \A i \in Targets :
       /\ sram.rate[i] = RateOf(i)
       /\ Newer => sram.offset[i] = Bit(board.flags[i].synch, MAX_OFFSET)
       /\ i \in sram.ultra <=> UltraOf(i) /\ ~AtTen(i)
       /\ i \in sram.dsb <=> ~board.flags[i].disc

Decoded(i) ==
    IF Has("ULTRA2") THEN DecodeUltra2(sram.rate[i], sram.offset[i], i \in ultraenb)
    ELSE DecodeFast(sram.rate[i], i \in ultraenb)

LEMMA FeatureFacts ==
    ASSUME SoundBoard(board), softc.features = Feats
    PROVE  /\ Has("ULTRA2") <=> Newer
           /\ Has("NEW_TERMCTL") <=> Newer
           /\ Has("LARGE_SCBS") <=> Newer
           /\ Has("DT") <=> board.chip = "aic7892"
           /\ Has("WIDE") <=> board.wide
           /\ Has("SPIOCAP") <=> board.chip = "aic7850"
           /\ Has("ULTRA") <=> CanUltra
<1>1. board.wide \in BOOLEAN /\ board.rext \in BOOLEAN /\ board.chip \in Chips
  BY DEF SoundBoard
<1>2. CASE board.chip = "aic7850"
  BY <1>1, <1>2 DEF Feats, Features, Has, Newer, CanUltra
<1>3. CASE board.chip = "aic7870"
  BY <1>1, <1>3 DEF Feats, Features, Has, Newer, CanUltra
<1>4. CASE board.chip = "aic7880"
  BY <1>1, <1>4 DEF Feats, Features, Has, Newer, CanUltra
<1>5. CASE board.chip = "aic7890"
  BY <1>1, <1>5 DEF Feats, Features, Has, Newer, CanUltra, SoundBoard
<1>6. CASE board.chip = "aic7892"
  BY <1>1, <1>6 DEF Feats, Features, Has, Newer, CanUltra, SoundBoard
<1> QED
  BY <1>1, <1>2, <1>3, <1>4, <1>5, <1>6 DEF Chips

LEMMA WordsMean ==
    ASSUME SoundBoard(board), NEW i \in Targets
    PROVE  /\ OfWords(i).code = board.flags[i].xfer
           /\ OfWords(i).sync = board.flags[i].synch
           /\ OfWords(i).wide = board.flags[i].wideb
           /\ OfWords(i).disc = board.flags[i].disc
           /\ OfWords(i).ultra <=> UltraOf(i)
           /\ board.flags[i].xfer \in 0 .. 7
           /\ {board.flags[i].ultra, board.flags[i].synch, board.flags[i].wideb,
               board.flags[i].disc} \subseteq BOOLEAN
<1>1. board.flags[i] \in Flags
  BY DEF SoundBoard
<1> DEFINE a == IF Newer \/ \E j \in Targets : board.flags[j].ultra
                THEN (Newer \/ CF("ULTRAEN")) /\ board.flags[i].ultra
                ELSE CF("ULTRAEN")
<1>2. OfWords(i) = [code |-> board.flags[i].xfer, sync |-> board.flags[i].synch, ultra |-> a,
                    wide |-> board.flags[i].wideb, disc |-> board.flags[i].disc]
  BY Zenon DEF OfWords
<1>3. a <=> UltraOf(i)
  BY <1>1 DEF UltraOf, NewFmt, Flags
<1> HIDE DEF a
<1>4. /\ OfWords(i).code = board.flags[i].xfer /\ OfWords(i).sync = board.flags[i].synch
      /\ OfWords(i).wide = board.flags[i].wideb /\ OfWords(i).disc = board.flags[i].disc
      /\ OfWords(i).ultra = a
  BY <1>2
<1>5. /\ board.flags[i].xfer \in 0 .. 7
      /\ {board.flags[i].ultra, board.flags[i].synch, board.flags[i].wideb,
          board.flags[i].disc} \subseteq BOOLEAN
  BY <1>1 DEF Flags
<1> QED
  BY <1>3, <1>4, <1>5, Zenon

LEMMA Ultra2Is ==
    ASSUME NEW byte, NEW offset, NEW u,
           NEW rate, NEW off, Sofs(byte) # 15, off = offset,
           rate = IF byte % 128 = 0 /\ off # 0 THEN byte + 28 ELSE byte
    PROVE  /\ DecodeUltra2(byte, offset, u).period =
                 IF off = 0 THEN 0
                 ELSE ahc_find_period(rate, IF Has("DT") THEN AHC_SYNCRATE_DT
                                            ELSE AHC_SYNCRATE_ULTRA2)
           /\ DecodeUltra2(byte, offset, u).wide = (IsWide(rate) /\ Has("WIDE"))
           /\ DecodeUltra2(byte, offset, u).dt => Has("DT")
<1> DEFINE p == IF off = 0 THEN 0
                ELSE ahc_find_period(rate, IF Has("DT") THEN AHC_SYNCRATE_DT
                                           ELSE AHC_SYNCRATE_ULTRA2)
           w == IsWide(rate) /\ Has("WIDE")
           d == Sofs(rate) <= 8 /\ Has("DT")
<1>1. DecodeUltra2(byte, offset, u) = [period |-> p, wide |-> w, dt |-> d]
  BY Zenon DEF DecodeUltra2
<1>2. d => Has("DT")
  OBVIOUS
<1> HIDE DEF p, w, d
<1>3. /\ DecodeUltra2(byte, offset, u).period = p /\ DecodeUltra2(byte, offset, u).wide = w
      /\ DecodeUltra2(byte, offset, u).dt = d
  BY <1>1
<1> QED
  BY <1>2, <1>3, Zenon DEF p, w

LEMMA FastIs ==
    ASSUME NEW byte, NEW u \in BOOLEAN
    PROVE  /\ DecodeFast(byte, u).period =
                 IF Sofs(byte) = 0 THEN 0
                 ELSE ahc_find_period(IF Sxfr(byte) = 4 /\ u THEN byte - 64 ELSE byte,
                                      IF u /\ ~(Sxfr(byte) = 4 /\ u) THEN AHC_SYNCRATE_ULTRA
                                      ELSE AHC_SYNCRATE_FAST)
           /\ DecodeFast(byte, u).wide = (IsWide(byte) /\ Has("WIDE"))
           /\ DecodeFast(byte, u).dt = FALSE
<1> DEFINE ten == Sxfr(byte) = 4 /\ u
           p == IF Sofs(byte) = 0 THEN 0
                ELSE ahc_find_period(IF ten THEN byte - 64 ELSE byte,
                                     IF u /\ ~ten THEN AHC_SYNCRATE_ULTRA
                                     ELSE AHC_SYNCRATE_FAST)
           w == IsWide(byte) /\ Has("WIDE")
<1>1. DecodeFast(byte, u) = [period |-> p, wide |-> w, dt |-> FALSE]
  BY Zenon DEF DecodeFast
<1> HIDE DEF p, w
<1>2. /\ DecodeFast(byte, u).period = p /\ DecodeFast(byte, u).wide = w
      /\ DecodeFast(byte, u).dt = FALSE
  BY <1>1
<1> QED
  BY <1>2, Zenon DEF p, w

LEMMA NewWords ==
    ASSUME SoundBoard(board), softc.features = Feats, Newer, NEW i \in Targets, WordsStored
    PROVE  /\ Decoded(i).period = IF board.flags[i].synch
                                  THEN PeriodOf(board.flags[i].xfer, UltraOf(i)) ELSE 0
           /\ Decoded(i).wide <=> board.flags[i].wideb /\ board.wide
           /\ Decoded(i).dt => board.chip = "aic7892"
<1> DEFINE u == UltraOf(i)
           x == board.flags[i].xfer
           c == IF u THEN (IF x = 4 THEN 0 ELSE x + 8) ELSE x
           w == IF board.flags[i].wideb THEN 128 ELSE 0
           byte == sram.rate[i]
           off == sram.offset[i]
           rate == IF byte % 128 = 0 /\ off # 0 THEN byte + 28 ELSE byte
           ub == i \in ultraenb
           r == IF c = 0 THEN 12 ELSE c
<1>1. /\ x \in 0 .. 7 /\ board.flags[i].synch \in BOOLEAN /\ board.flags[i].wideb \in BOOLEAN
      /\ board.flags[i].ultra \in BOOLEAN
  BY WordsMean
<1>2. u = board.flags[i].ultra
  BY DEF UltraOf, NewFmt
<1>3. /\ Sound(board.chip, board.flags[i]) /\ board.wide
  BY DEF SoundBoard, Newer
<1>4. /\ u => x <= 4
      /\ ~u => x # 1 /\ (x = 2 => board.chip = "aic7892")
  BY <1>2, <1>3 DEF Sound, Newer
<1>5. byte = w + c
  <2>1. CodeOf(i) + Bit(UltraOf(i) /\ ~AtTen(i), 8) = c
    BY <1>1 DEF CodeOf, AtTen, Bit
  <2>2. Bit(board.flags[i].wideb, 128) = w
    BY DEF Bit
  <2>3. byte = w + (CodeOf(i) + Bit(UltraOf(i) /\ ~AtTen(i), 8))
    BY <2>2 DEF WordsStored, RateOf
  <2> QED
    BY <2>1, <2>3
<1>6. off = IF board.flags[i].synch THEN MAX_OFFSET ELSE 0
  BY DEF WordsStored, Bit
<1>7. /\ c \in 0 .. 11 /\ c # 1 /\ w \in {0, 128} /\ (w = 128 <=> board.flags[i].wideb)
      /\ (c = 2 => board.chip = "aic7892")
  BY <1>1, <1>2, <1>4
<1>8. Decoded(i) = DecodeUltra2(byte, off, ub)
  BY FeatureFacts DEF Decoded
<1>9. (Has("DT") <=> board.chip = "aic7892") /\ Has("WIDE")
  BY <1>3, FeatureFacts
<1>10. PeriodOf(x, u) = Ultra2Periods[x + 1 + Bit(u, 8)]
  BY Zenon DEF PeriodOf
<1>11. x + 1 + Bit(u, 8) = IF u /\ x = 4 THEN 13 ELSE c + 1
  BY <1>1 DEF Bit
<1>12. PeriodOf(x, u) = Ultra2Periods[r + 1]
  BY <1>1, <1>2, <1>10, <1>11, Tables
<1> HIDE DEF c, w, byte, off, ub
<1>13. Sofs(byte) = c /\ Sofs(byte) # 15 /\ byte % 128 = c
  BY <1>5, <1>7 DEF Sofs
<1>14. off # 0 => Sofs(rate) = r /\ r \in 2 .. 12 /\ (r = 2 => Has("DT"))
  BY <1>5, <1>7, <1>9, <1>13 DEF Sofs
<1>15. IsWide(rate) <=> board.flags[i].wideb
  BY <1>5, <1>7 DEF IsWide
<1> HIDE DEF rate, r
<1>16. /\ Decoded(i).period =
               IF off = 0 THEN 0
               ELSE ahc_find_period(rate, IF Has("DT") THEN AHC_SYNCRATE_DT
                                          ELSE AHC_SYNCRATE_ULTRA2)
       /\ Decoded(i).wide = (IsWide(rate) /\ Has("WIDE"))
       /\ Decoded(i).dt => Has("DT")
  BY <1>8, <1>13, Ultra2Is DEF rate
<1>17. off # 0 => Decoded(i).period = PeriodOf(x, u)
  <2>1. Has("ULTRA2")
    BY FeatureFacts
  <2> QED
    BY <1>12, <1>14, <1>16, <2>1, NewPeriod
<1>18. off = 0 <=> ~board.flags[i].synch
  BY <1>1, <1>6 DEF MAX_OFFSET
<1>19. Decoded(i).period = IF board.flags[i].synch THEN PeriodOf(x, u) ELSE 0
  BY <1>1, <1>16, <1>17, <1>18
<1> QED
  BY <1>3, <1>9, <1>15, <1>16, <1>19

LEMMA FastWords ==
    ASSUME SoundBoard(board), softc.features = Feats, ~Newer, NEW i \in Targets, WordsStored
    PROVE  /\ Decoded(i).period = IF board.flags[i].synch
                                  THEN PeriodOf(board.flags[i].xfer, UltraOf(i)) ELSE 0
           /\ Decoded(i).wide <=> board.flags[i].wideb /\ board.wide
           /\ Decoded(i).dt => board.chip = "aic7892"
<1> DEFINE u == UltraOf(i)
           x == board.flags[i].xfer
           c == IF u /\ x = 4 THEN 0 ELSE x
           w == IF board.flags[i].wideb THEN 128 ELSE 0
           y == IF board.flags[i].synch THEN 15 ELSE 0
           byte == sram.rate[i]
           ub == i \in ultraenb
<1>1. /\ x \in 0 .. 7 /\ board.flags[i].synch \in BOOLEAN /\ board.flags[i].wideb \in BOOLEAN
      /\ board.flags[i].ultra \in BOOLEAN
  BY WordsMean
<1>2. u => x \in {0, 1, 2, 4}
  <2>1. Sound(board.chip, board.flags[i]) /\
        (\/ Newer \/ "ULTRAEN" \notin board.control
         \/ (\E j \in Targets : board.flags[j].ultra) \/ board.flags[i].xfer \in {0, 1, 2, 4})
    BY DEF SoundBoard, Newer
  <2>2. board.flags[i].ultra => x \in {0, 1, 2, 4}
    BY <2>1 DEF Sound, Newer
  <2> QED
    BY <2>1, <2>2 DEF UltraOf, NewFmt, CF
<1>3. byte = w + (c * 16 + y)
  <2>1. CodeOf(i) = c
    BY DEF CodeOf, AtTen
  <2> QED
    BY <2>1 DEF WordsStored, RateOf, Bit
<1>4. c \in 0 .. 7 /\ w \in {0, 128} /\ y \in {0, 15} /\ (w = 128 <=> board.flags[i].wideb)
      /\ (y = 0 <=> ~board.flags[i].synch)
  BY <1>1
<1>5. ub <=> CanUltra /\ u /\ x # 4
  BY FeatureFacts DEF WordsStored, ultraenb, AtTen
<1>6. Decoded(i) = DecodeFast(byte, ub)
  BY FeatureFacts DEF Decoded
<1>7. PeriodOf(x, u) = IF CanUltra /\ u /\ x # 4 THEN UltraPeriods[c + 1] ELSE FastPeriods[c + 1]
  BY <1>1 DEF PeriodOf
<1>8. ub => c <= 2 /\ c # 4
  BY <1>1, <1>2, <1>5
<1> HIDE DEF c, w, y, byte, ub
<1>9. Sxfr(byte) = c /\ (IsWide(byte) <=> board.flags[i].wideb) /\ Sofs(byte) = y
  BY <1>3, <1>4 DEF Sxfr, IsWide, Sofs
<1>10. ~(Sxfr(byte) = 4 /\ ub)
  BY <1>8, <1>9
<1>11. ub \in BOOLEAN
  BY DEF ub
<1>12. /\ DecodeFast(byte, ub).period =
                 IF Sofs(byte) = 0 THEN 0
                 ELSE ahc_find_period(byte, IF ub THEN AHC_SYNCRATE_ULTRA ELSE AHC_SYNCRATE_FAST)
       /\ DecodeFast(byte, ub).wide = (IsWide(byte) /\ Has("WIDE"))
       /\ DecodeFast(byte, ub).dt = FALSE
  BY <1>10, <1>11, FastIs
<1>13. ahc_find_period(byte, IF ub THEN AHC_SYNCRATE_ULTRA ELSE AHC_SYNCRATE_FAST)
         = PeriodOf(x, u)
  <2>1. ~Has("ULTRA2") /\ ~Has("DT") /\ (Has("ULTRA") <=> CanUltra)
    BY FeatureFacts DEF Newer
  <2>2. CASE ub
    BY <1>4, <1>5, <1>7, <1>8, <1>9, <1>10, <2>1, <2>2, FastPeriod
  <2>3. CASE ~ub
    BY <1>4, <1>5, <1>7, <1>9, <1>10, <2>1, <2>3, FastPeriod
  <2> QED
    BY <2>2, <2>3
<1>14. Decoded(i).period = IF board.flags[i].synch THEN PeriodOf(x, u) ELSE 0
  BY <1>1, <1>4, <1>6, <1>9, <1>12, <1>13
<1>15. Has("WIDE") <=> board.wide
  BY FeatureFacts
<1> QED
  BY <1>6, <1>9, <1>12, <1>14, <1>15

\* The scratch RAM holds what the BIOS has left.
BiosStored ==
    /\ sram.rate = board.sram.rate /\ sram.offset = board.sram.offset
    /\ sram.ultra = board.sram.ultra /\ sram.dsb = board.sram.dsb

LEMMA BiosMeans ==
    ASSUME SoundBoard(board), NEW i \in Targets
    PROVE  LET byte == board.sram.rate[i]
               old  == ~Newer \/ Sofs(byte) = 15
           IN  /\ OfBios(i).code = IF old THEN Sxfr(byte) ELSE Sofs(byte)
               /\ OfBios(i).sync = IF Newer THEN Sofs(byte) = 15 \/ board.sram.offset[i] # 0
                                   ELSE Sofs(byte) # 0
               /\ OfBios(i).ultra = (old /\ i \in board.sram.ultra)
               /\ OfBios(i).wide = IsWide(byte)
               /\ OfBios(i).disc = (i \notin board.sram.dsb)
<1> DEFINE byte == board.sram.rate[i]
           old == ~Newer \/ Sofs(byte) = 15
           c == IF old THEN Sxfr(byte) ELSE Sofs(byte)
           y == IF Newer THEN Sofs(byte) = 15 \/ board.sram.offset[i] # 0 ELSE Sofs(byte) # 0
           u == old /\ i \in board.sram.ultra
           w == IsWide(byte)
           d == i \notin board.sram.dsb
<1>1. OfBios(i) = [code |-> c, sync |-> y, ultra |-> u, wide |-> w, disc |-> d]
  BY Zenon DEF OfBios
<1> HIDE DEF c, y, u, w, d
<1>2. /\ OfBios(i).code = c /\ OfBios(i).sync = y /\ OfBios(i).ultra = u /\ OfBios(i).wide = w
      /\ OfBios(i).disc = d
  BY <1>1
<1> QED
  BY <1>2, Zenon DEF c, y, u, w, d

LEMMA Ultra2Old ==
    ASSUME NEW byte, NEW offset, NEW u, NEW code, NEW rate, Sofs(byte) = 15,
           code = Unnegotiated(byte, u), rate = IF code % 128 = 0 THEN code + 28 ELSE code
    PROVE  /\ DecodeUltra2(byte, offset, u).period =
                 ahc_find_period(rate, IF Has("DT") THEN AHC_SYNCRATE_DT
                                       ELSE AHC_SYNCRATE_ULTRA2)
           /\ DecodeUltra2(byte, offset, u).wide = (IsWide(rate) /\ Has("WIDE"))
<1> DEFINE p == ahc_find_period(rate, IF Has("DT") THEN AHC_SYNCRATE_DT
                                      ELSE AHC_SYNCRATE_ULTRA2)
           w == IsWide(rate) /\ Has("WIDE")
           d == Sofs(rate) <= 8 /\ Has("DT")
<1>1. DecodeUltra2(byte, offset, u) = [period |-> p, wide |-> w, dt |-> d]
  BY DEF DecodeUltra2, MAX_OFFSET
<1> HIDE DEF p, w, d
<1>2. DecodeUltra2(byte, offset, u).period = p /\ DecodeUltra2(byte, offset, u).wide = w
  BY <1>1
<1> QED
  BY <1>2, Zenon DEF p, w

LEMMA DtOf ==
    ASSUME NEW byte, NEW offset, NEW u
    PROVE  DecodeUltra2(byte, offset, u).dt => Has("DT")
<1> DEFINE old  == Sofs(byte) = 15
           off  == IF old THEN MAX_OFFSET ELSE offset
           code == IF old THEN Unnegotiated(byte, u) ELSE byte
           rate == IF code % 128 = 0 /\ off # 0 THEN code + 28 ELSE code
           p == IF off = 0 THEN 0
                ELSE ahc_find_period(rate, IF Has("DT") THEN AHC_SYNCRATE_DT
                                           ELSE AHC_SYNCRATE_ULTRA2)
           w == IsWide(rate) /\ Has("WIDE")
           d == Sofs(rate) <= 8 /\ Has("DT")
<1>1. DecodeUltra2(byte, offset, u) = [period |-> p, wide |-> w, dt |-> d]
  BY Zenon DEF DecodeUltra2
<1>2. d => Has("DT")
  OBVIOUS
<1> HIDE DEF p, w, d
<1>3. DecodeUltra2(byte, offset, u).dt = d
  BY <1>1
<1> QED
  BY <1>2, <1>3, Zenon

\* A target that has not negotiated, where the expression of Unnegotiated is right.
LEMMA OldBios ==
    ASSUME SoundBoard(board), softc.features = Feats, Newer, NEW i \in Targets, BiosStored,
           source = "bios", Sofs(board.sram.rate[i]) = 15, ~Misread(i)
    PROVE  /\ Decoded(i).period = IF OfBios(i).sync
                                  THEN PeriodOf(OfBios(i).code, OfBios(i).ultra) ELSE 0
           /\ Decoded(i).wide = (OfBios(i).wide /\ board.wide)
<1> DEFINE byte == sram.rate[i]
           off == sram.offset[i]
           ub == i \in ultraenb
           code == Unnegotiated(byte, ub)
           rate == IF code % 128 = 0 THEN code + 28 ELSE code
           top == IF Has("DT") THEN AHC_SYNCRATE_DT ELSE AHC_SYNCRATE_ULTRA2
<1>1. byte = board.sram.rate[i]
  BY DEF BiosStored
<1>2. /\ Decoded(i) = DecodeUltra2(byte, off, ub)
      /\ Has("ULTRA2") /\ (Has("WIDE") <=> board.wide)
  BY FeatureFacts DEF Decoded
<1>3. ub = (i \in board.sram.ultra)
  BY <1>2 DEF ultraenb, BiosStored
<1>4. Sxfr(byte) = 0 /\ Sofs(byte) = 15 /\ ~(ub /\ IsWide(byte))
  BY <1>1, <1>3 DEF Misread
<1>5. /\ OfBios(i).code = 0 /\ OfBios(i).sync
      /\ OfBios(i).ultra = ub /\ OfBios(i).wide = IsWide(byte)
  <2>1. ((~Newer \/ Sofs(board.sram.rate[i]) = 15) /\ i \in board.sram.ultra)
           = (i \in board.sram.ultra)
    OBVIOUS
  <2>2. OfBios(i).ultra = ((~Newer \/ Sofs(board.sram.rate[i]) = 15) /\ i \in board.sram.ultra)
    BY BiosMeans, Zenon
  <2>3. OfBios(i).ultra = ub
    BY <1>3, <2>1, <2>2, Zenon
  <2>4. OfBios(i).code = 0
    BY <1>1, <1>4, BiosMeans, Zenon
  <2>5. OfBios(i).wide = IsWide(byte)
    BY <1>1, BiosMeans, Zenon
  <2>6. OfBios(i).sync
    BY BiosMeans
  <2> QED
    BY <2>3, <2>4, <2>5, <2>6, Zenon
<1> HIDE DEF byte, off, ub
<1>6. code = IF ub THEN 8 ELSE IF IsWide(byte) THEN 128 ELSE 0
  BY <1>4 DEF Unnegotiated, Bit
<1> DEFINE r == IF ub THEN 8 ELSE 12
<1>7. Sofs(rate) = r /\ (IsWide(rate) <=> IsWide(byte))
  <2>1. CASE ub
    BY <1>4, <1>6, <2>1 DEF Sofs, IsWide
  <2>2. CASE ~ub /\ IsWide(byte)
    <3>1. rate = 156
      BY <1>6, <2>2
    <3> HIDE DEF rate
    <3> QED
      BY <2>2, <3>1 DEF Sofs, IsWide
  <2>3. CASE ~ub /\ ~IsWide(byte)
    <3>1. rate = 28
      BY <1>6, <2>3
    <3> HIDE DEF rate
    <3> QED
      BY <2>3, <3>1 DEF Sofs, IsWide
  <2> QED
    BY <2>1, <2>2, <2>3
<1>8. /\ Decoded(i).period = ahc_find_period(rate, top)
      /\ Decoded(i).wide = (IsWide(rate) /\ Has("WIDE"))
  BY <1>2, <1>4, Ultra2Old
<1> HIDE DEF code, rate
<1>9. ahc_find_period(rate, top) = Ultra2Periods[r + 1]
  <2>1. r \in 2 .. 12 /\ r # 2
    OBVIOUS
  <2> HIDE DEF r
  <2> QED
    BY <1>2, <1>7, <2>1, NewPeriod
<1>10. PeriodOf(0, ub) = Ultra2Periods[r + 1]
  <2>1. PeriodOf(0, ub) = Ultra2Periods[0 + 1 + Bit(ub, 8)]
    BY Zenon DEF PeriodOf
  <2>2. 0 + 1 + Bit(ub, 8) = IF ub THEN 9 ELSE 1
    BY DEF Bit
  <2>3. PeriodOf(0, ub) = Ultra2Periods[IF ub THEN 9 ELSE 1]
    BY <2>1, <2>2, Zenon
  <2>4. Ultra2Periods[IF ub THEN 9 ELSE 1] = Ultra2Periods[r + 1]
    BY Tables
  <2> QED
    BY <2>3, <2>4, Zenon
<1> HIDE DEF top, r
<1>11. Decoded(i).period = PeriodOf(0, ub)
  BY <1>8, <1>9, <1>10
<1>12. (IsWide(rate) /\ Has("WIDE")) = (IsWide(byte) /\ board.wide)
  <2>1. IsWide(rate) \in BOOLEAN /\ IsWide(byte) \in BOOLEAN
    BY DEF IsWide
  <2>2. board.wide \in BOOLEAN
    BY DEF SoundBoard
  <2> QED
    BY <1>2, <1>7, <2>1, <2>2
<1> QED
  BY <1>5, <1>8, <1>11, <1>12, Zenon

LEMMA NewBios ==
    ASSUME SoundBoard(board), softc.features = Feats, Newer, NEW i \in Targets, BiosStored,
           Sofs(board.sram.rate[i]) # 15
    PROVE  /\ Decoded(i).period = IF OfBios(i).sync
                                  THEN PeriodOf(OfBios(i).code, OfBios(i).ultra) ELSE 0
           /\ Decoded(i).wide = (OfBios(i).wide /\ board.wide)
           /\ Decoded(i).dt => board.chip = "aic7892"
<1> DEFINE byte == sram.rate[i]
           off == sram.offset[i]
           rate == IF byte % 128 = 0 /\ off # 0 THEN byte + 28 ELSE byte
           ub == i \in ultraenb
<1>1. PICK w \in {0, 128}, c \in {0} \cup (3 .. 12) : byte = w + c
  <2>1. byte \in Rates(board.chip) /\ Sofs(byte) # 15
    BY DEF SoundBoard, BiosStored
  <2>2. PICK w \in {0, 128}, c \in {0} \cup (3 .. 12) \cup {16 * s + 15 : s \in 0 .. 7} :
           byte = w + c
    BY <2>1 DEF Rates, Newer
  <2>3. c \notin {16 * s + 15 : s \in 0 .. 7}
    <3> SUFFICES ASSUME NEW s \in 0 .. 7, c = 16 * s + 15 PROVE FALSE
      OBVIOUS
    <3> QED
      BY <2>1, <2>2 DEF Sofs
  <2> QED
    BY <2>2, <2>3
<1>2. off \in {0, 127} /\ board.wide
  BY DEF SoundBoard, BiosStored, Newer, MAX_OFFSET
<1>3. Decoded(i) = DecodeUltra2(byte, off, ub)
  BY FeatureFacts DEF Decoded
<1>4. (Has("DT") <=> board.chip = "aic7892") /\ Has("WIDE") /\ Has("ULTRA2")
  BY <1>2, FeatureFacts
<1>5. Sofs(byte) = c /\ Sofs(byte) # 15 /\ byte % 128 = c
  BY <1>1 DEF Sofs
<1> DEFINE r == IF c = 0 THEN 12 ELSE c
<1>6. off # 0 => Sofs(rate) = r /\ r \in 2 .. 12 /\ r # 2
  BY <1>1, <1>5 DEF Sofs
<1>7. IsWide(rate) <=> IsWide(byte)
  BY <1>1, <1>5 DEF IsWide
<1>8. byte = board.sram.rate[i] /\ off = board.sram.offset[i]
  BY DEF BiosStored
<1> HIDE DEF byte, off, ub
<1>9. /\ OfBios(i).code = c /\ OfBios(i).ultra = FALSE
      /\ OfBios(i).wide = IsWide(byte) /\ OfBios(i).sync = (off # 0)
  BY <1>5, <1>8, BiosMeans
<1>10. PeriodOf(c, FALSE) = Ultra2Periods[r + 1]
  <2>1. PeriodOf(c, FALSE) = Ultra2Periods[c + 1 + Bit(FALSE, 8)]
    BY Zenon DEF PeriodOf
  <2>2. c + 1 + Bit(FALSE, 8) = c + 1
    BY <1>1 DEF Bit
  <2>3. Ultra2Periods[c + 1] = Ultra2Periods[r + 1]
    BY <1>1, Tables
  <2> QED
    BY <2>1, <2>2, <2>3
<1> HIDE DEF rate, r
<1>11. /\ DecodeUltra2(byte, off, ub).period =
                 IF off = 0 THEN 0
                 ELSE ahc_find_period(rate, IF Has("DT") THEN AHC_SYNCRATE_DT
                                            ELSE AHC_SYNCRATE_ULTRA2)
       /\ DecodeUltra2(byte, off, ub).wide = (IsWide(rate) /\ Has("WIDE"))
       /\ DecodeUltra2(byte, off, ub).dt => Has("DT")
  BY <1>5, Ultra2Is DEF rate
<1>12. off # 0 => ahc_find_period(rate, IF Has("DT") THEN AHC_SYNCRATE_DT
                                        ELSE AHC_SYNCRATE_ULTRA2) = PeriodOf(c, FALSE)
  <2> SUFFICES ASSUME off # 0
               PROVE  ahc_find_period(rate, IF Has("DT") THEN AHC_SYNCRATE_DT
                                            ELSE AHC_SYNCRATE_ULTRA2) = PeriodOf(c, FALSE)
    OBVIOUS
  <2>1. Sofs(rate) = r /\ r \in 2 .. 12 /\ (r = 2 => Has("DT"))
    BY <1>6
  <2>2. ahc_find_period(rate, IF Has("DT") THEN AHC_SYNCRATE_DT ELSE AHC_SYNCRATE_ULTRA2)
           = Ultra2Periods[r + 1]
    BY <1>4, <2>1, NewPeriod
  <2> QED
    BY <1>10, <2>2
<1>13. Decoded(i).period = IF OfBios(i).sync
                           THEN PeriodOf(OfBios(i).code, OfBios(i).ultra) ELSE 0
  <2>1. Decoded(i).period = IF off = 0 THEN 0 ELSE PeriodOf(c, FALSE)
    BY <1>3, <1>11, <1>12, Zenon
  <2>2. PeriodOf(OfBios(i).code, OfBios(i).ultra) = PeriodOf(c, FALSE)
    BY <1>9, Zenon
  <2> QED
    BY <1>9, <2>1, <2>2, Zenon
<1>14. Decoded(i).wide = (OfBios(i).wide /\ board.wide)
  BY <1>2, <1>3, <1>4, <1>7, <1>9, <1>11 DEF IsWide
<1> QED
  BY <1>3, <1>4, <1>11, <1>13, <1>14

LEMMA FastBios ==
    ASSUME SoundBoard(board), softc.features = Feats, ~Newer, NEW i \in Targets, BiosStored
    PROVE  /\ Decoded(i).period = IF OfBios(i).sync
                                  THEN PeriodOf(OfBios(i).code, OfBios(i).ultra) ELSE 0
           /\ Decoded(i).wide = (OfBios(i).wide /\ board.wide)
           /\ Decoded(i).dt => board.chip = "aic7892"
<1> DEFINE byte == sram.rate[i]
           u == i \in board.sram.ultra
           ub == i \in ultraenb
<1>1. PICK w \in {0, 128}, c \in 0 .. 7, o \in {0, 8} : byte = w + 16 * c + o
  BY DEF SoundBoard, BiosStored, Rates, Newer
<1>2. Sxfr(byte) = c /\ Sofs(byte) = o
  BY <1>1 DEF Sxfr, Sofs
<1>3. byte = board.sram.rate[i]
  BY DEF BiosStored
<1>4. u => board.chip = "aic7880" /\ board.rext /\ c \in {0, 1, 2, 4}
  BY <1>2, <1>3 DEF SoundBoard, Newer
<1>5. ub <=> u
  BY <1>4, FeatureFacts DEF ultraenb, BiosStored, CanUltra
<1>6. Decoded(i) = DecodeFast(byte, ub)
  BY FeatureFacts DEF Decoded
<1>7. ~Has("ULTRA2") /\ ~Has("DT") /\ (Has("ULTRA") <=> CanUltra) /\ (Has("WIDE") <=> board.wide)
  BY FeatureFacts DEF Newer
<1>8. u => CanUltra
  BY <1>4 DEF CanUltra
<1>9. /\ OfBios(i).code = c /\ OfBios(i).ultra = u
      /\ OfBios(i).wide = IsWide(byte) /\ OfBios(i).sync = (o # 0)
  BY <1>2, <1>3, BiosMeans
<1>10. PeriodOf(c, u) = IF u /\ c = 4 THEN FastPeriods[1]
                        ELSE IF u THEN UltraPeriods[c + 1] ELSE FastPeriods[c + 1]
  BY <1>8 DEF PeriodOf
<1> HIDE DEF byte, u, ub
<1>11. ub \in BOOLEAN
  BY DEF ub
<1>12. /\ DecodeFast(byte, ub).period =
               IF Sofs(byte) = 0 THEN 0
               ELSE ahc_find_period(IF Sxfr(byte) = 4 /\ ub THEN byte - 64 ELSE byte,
                                    IF ub /\ ~(Sxfr(byte) = 4 /\ ub) THEN AHC_SYNCRATE_ULTRA
                                    ELSE AHC_SYNCRATE_FAST)
      /\ DecodeFast(byte, ub).wide = (IsWide(byte) /\ Has("WIDE"))
      /\ DecodeFast(byte, ub).dt = FALSE
  BY <1>11, FastIs
<1> DEFINE ten == Sxfr(byte) = 4 /\ ub
           rate == IF ten THEN byte - 64 ELSE byte
           max == IF ub /\ ~ten THEN AHC_SYNCRATE_ULTRA ELSE AHC_SYNCRATE_FAST
<1>13. ahc_find_period(rate, max) = PeriodOf(c, u)
  <2>1. CASE u /\ c = 4
    <3>1. Sxfr(rate) = 0 /\ max = AHC_SYNCRATE_FAST
      BY <1>1, <1>2, <1>5, <2>1 DEF Sxfr
    <3> HIDE DEF rate, max
    <3> QED
      BY <1>7, <1>10, <2>1, <3>1, FastPeriod
  <2>2. CASE u /\ c # 4
    <3>1. c <= 2 /\ rate = byte /\ max = AHC_SYNCRATE_ULTRA
      BY <1>2, <1>4, <1>5, <2>2 DEF u
    <3> HIDE DEF rate, max
    <3> QED
      BY <1>2, <1>7, <1>8, <1>10, <2>2, <3>1, FastPeriod
  <2>3. CASE ~u
    <3>1. rate = byte /\ max = AHC_SYNCRATE_FAST
      BY <1>5, <2>3
    <3> HIDE DEF rate, max
    <3> QED
      BY <1>2, <1>7, <1>10, <2>3, <3>1, FastPeriod
  <2> QED
    BY <2>1, <2>2, <2>3
<1>14. /\ DecodeFast(byte, ub).period = IF Sofs(byte) = 0 THEN 0 ELSE ahc_find_period(rate, max)
       /\ DecodeFast(byte, ub).wide = (IsWide(byte) /\ Has("WIDE"))
       /\ DecodeFast(byte, ub).dt = FALSE
  BY <1>12
<1> HIDE DEF rate, max
<1>15. Decoded(i).period = IF OfBios(i).sync
                           THEN PeriodOf(OfBios(i).code, OfBios(i).ultra) ELSE 0
  <2>1. Decoded(i).period = IF Sofs(byte) = 0 THEN 0 ELSE PeriodOf(c, u)
    BY <1>6, <1>13, <1>14, Zenon
  <2>2. (Sofs(byte) = 0) <=> (o = 0)
    BY <1>2, Zenon
  <2> QED
    BY <2>1, <2>2, <1>9, Zenon
<1>16. board.wide \in BOOLEAN
  BY DEF SoundBoard
<1>17. Decoded(i).wide = (OfBios(i).wide /\ board.wide)
  BY <1>6, <1>7, <1>9, <1>14, <1>16 DEF IsWide
<1> QED
  BY <1>6, <1>14, <1>15, <1>17

-----------------------------------------------------------------------------
(* The settings, stage by stage.                                           *)

\* One of the two attempts finds the EEPROM.
Findable == board.eeprom = C56_66 \/ (board.eeprom = C46 /\ ~board.multi)

FromEeprom == source \in {"seeprom", "adpt"}

\* The flags of a board that nobody has configured yet.
FlagsFresh ==
    /\ "NEWEEPROM_FMT" \in softc.flags <=> Newer
    /\ "INT50_SPEEDFLEX" \in softc.flags <=> board.speedflex
    /\ "LARGE_SEEPROM" \in softc.flags <=> board.multi
    /\ "USEDEFAULTS" \notin softc.flags /\ "TERM_ENB_A" \notin softc.flags

Taken == IF source = "defaults"
         THEN softc.disc = Targets /\ \A i \in Targets : softc.user[i] = Default
         ELSE \A i \in Targets : TargetAsAsked(i)

Early == {"off", "probe", "reset", "refused", "seeprom", "scratch"}

\* From the words or the BIOS to scratch RAM, and from there to the driver's table.
Staged ==
    /\ source = "seeprom" => Findable
    /\ stage \in Early => source \in {"none", "seeprom"}
    /\ stage \in Early \cup {"settle"} /\ source = "none" => sram = board.sram
    /\ stage \in {"probe", "reset"} => softc.features = Features(board.chip)
    /\ stage \notin {"off", "probe", "reset", "refused"} => softc.features = Feats
    /\ stage \in {"probe", "reset", "seeprom", "scratch", "parse"} => FlagsFresh
    /\ stage = "seeprom" =>
          /\ board.eeprom # Missing
          /\ IF sd_chip = C56_66 THEN board.multi \/ board.eeprom # C46 ELSE ~board.multi
    /\ stage = "scratch" => ~Findable
    /\ stage \in {"parse", "terminate"} => FromEeprom
    /\ stage = "terminate" => "USEDEFAULTS" \notin softc.flags
    /\ stage = "settle" => source \in {"none", "seeprom", "adpt"}
                           /\ ("USEDEFAULTS" \in softc.flags <=> source = "none")
    /\ stage \in {"sram", "init"} =>
          /\ source # "none" /\ ("USEDEFAULTS" \in softc.flags <=> source = "defaults")
          /\ source = "bios" => BiosStored
    /\ stage \in {"terminate", "settle", "sram", "init"} /\ FromEeprom => WordsStored
    /\ stage \in {"start", "found", "running", "stopped"} => source # "none" /\ Taken

LEMMA InitStaged ==
    ASSUME Powered
    PROVE  Staged
  BY DEF Powered, Staged, Early, FromEeprom

\* Once the words are in scratch RAM in the chip's own format (ahc_parse_pci_eeprom).
LEMMA WordsArrive ==
    ASSUME Types, SoundBoard(board), Staged, ahc_parse_pci_eeprom
    PROVE  WordsStored'
<1>1. stage = "parse" /\ softc.features = Feats /\ FlagsFresh
  BY DEF ahc_parse_pci_eeprom, Staged, Early
<1>2. board' = board
  BY DEF ahc_parse_pci_eeprom
<1>3. Has("ULTRA2") <=> Newer
  BY <1>1, FeatureFacts
<1>4. NewFormat <=> NewFmt
  BY <1>1 DEF NewFormat, NewFmt, FlagsFresh
<1>5. \A i \in Targets : board.flags[i] \in Flags
  BY DEF SoundBoard
<1>6. \A i \in Targets : board.flags[i].ultra \in BOOLEAN
  BY <1>5 DEF Flags
<1>7. \A i \in Targets : (Ultra(i) <=> UltraOf(i)) /\ (TenMHz(i) <=> AtTen(i))
  BY <1>4 DEF Ultra, UltraOf, TenMHz, AtTen
<1>8. \A i \in Targets : Xfer(i) = CodeOf(i)
  BY <1>7 DEF Xfer, CodeOf
<1>9. \A i \in Targets : ScsiRate(i) = RateOf(i)
  BY <1>3, <1>7, <1>8 DEF ScsiRate, RateOf, Bit
<1> DEFINE r == [i \in Targets |-> ScsiRate(i)]
           o == [i \in Targets |-> IF Has("ULTRA2") THEN Bit(board.flags[i].synch, MAX_OFFSET)
                                   ELSE sram.offset[i]]
           u == IF Has("ULTRA") /\ ~NewFormat /\ ~CF("ULTRAEN") THEN {}
                ELSE {i \in Targets : Ultra(i) /\ ~TenMHz(i)}
           d == {i \in Targets : ~board.flags[i].disc}
           p == CF("SPARITY")
<1>10. sram' = [sram EXCEPT !.rate = r, !.offset = o, !.ultra = u, !.dsb = d, !.parity = p,
                            !.adpt = FALSE]
  BY Zenon DEF ahc_parse_pci_eeprom
<1>11. \A i \in Targets : r[i] = RateOf(i)
  BY <1>9
<1>12. \A i \in Targets : Newer => o[i] = Bit(board.flags[i].synch, MAX_OFFSET)
  BY <1>3
<1>13. \A i \in Targets : i \in u <=> UltraOf(i) /\ ~AtTen(i)
  BY <1>4, <1>7 DEF UltraOf, NewFmt
<1>14. \A i \in Targets : i \in d <=> ~board.flags[i].disc
  OBVIOUS
<1> HIDE DEF r, o, u, d, p
<1>15. sram'.rate = r /\ sram'.offset = o /\ sram'.ultra = u /\ sram'.dsb = d
  BY <1>10 DEF Types, SramType
<1>16. \A i \in Targets :
          /\ sram'.rate[i] = RateOf(i)
          /\ Newer => sram'.offset[i] = Bit(board.flags[i].synch, MAX_OFFSET)
          /\ i \in sram'.ultra <=> UltraOf(i) /\ ~AtTen(i)
          /\ i \in sram'.dsb <=> ~board.flags[i].disc
  BY <1>11, <1>12, <1>13, <1>14, <1>15
<1> QED
  BY <1>2, <1>16 DEF WordsStored, RateOf, UltraOf, NewFmt, AtTen, CodeOf, Newer, CF, Bit

LEMMA DecodedAsAsked ==
    ASSUME Types, SoundBoard(board), softc.features = Feats, NEW i \in Targets,
           \/ FromEeprom /\ WordsStored
           \/ source = "bios" /\ BiosStored
    PROVE  /\ ~Misread(i) =>
                 /\ Decoded(i).period = IF Meaning(i).sync
                                        THEN PeriodOf(Meaning(i).code, Meaning(i).ultra) ELSE 0
                 /\ Decoded(i).wide = (Meaning(i).wide /\ board.wide)
           /\ (i \notin sram.dsb) = Meaning(i).disc
           /\ Decoded(i).dt => board.chip = "aic7892"
<1>1. CASE FromEeprom /\ WordsStored
  <2>1. Meaning(i) = OfWords(i)
    BY <1>1 DEF Meaning, FromEeprom
  <2>2. /\ Decoded(i).period = IF board.flags[i].synch
                               THEN PeriodOf(board.flags[i].xfer, UltraOf(i)) ELSE 0
        /\ Decoded(i).wide <=> board.flags[i].wideb /\ board.wide
        /\ Decoded(i).dt => board.chip = "aic7892"
    BY <1>1, NewWords, FastWords
  <2>3. /\ OfWords(i).code = board.flags[i].xfer
        /\ OfWords(i).sync = board.flags[i].synch
        /\ OfWords(i).wide = board.flags[i].wideb
        /\ OfWords(i).disc = board.flags[i].disc
        /\ OfWords(i).ultra <=> UltraOf(i)
        /\ board.flags[i].xfer \in 0 .. 7
        /\ {board.flags[i].ultra, board.flags[i].synch, board.flags[i].wideb,
            board.flags[i].disc} \subseteq BOOLEAN
    BY WordsMean
  <2>4. PeriodOf(OfWords(i).code, OfWords(i).ultra) = PeriodOf(board.flags[i].xfer, UltraOf(i))
    BY <2>3 DEF PeriodOf, Bit
  <2>5. Decoded(i).wide \in BOOLEAN
    <3>1. (i \in ultraenb) \in BOOLEAN
      OBVIOUS
    <3>2. Decoded(i) \in UserType
      BY <3>1, UserTypes DEF Decoded, Types
    <3> QED
      BY <3>2 DEF UserType
  <2>6. board.wide \in BOOLEAN
    BY DEF SoundBoard
  <2>7. (i \notin sram.dsb) = board.flags[i].disc
    BY <1>1, <2>3 DEF WordsStored
  <2>8. Decoded(i).period = IF OfWords(i).sync THEN PeriodOf(OfWords(i).code, OfWords(i).ultra)
                            ELSE 0
    BY <2>2, <2>3, <2>4
  <2>9. Decoded(i).wide = (OfWords(i).wide /\ board.wide)
    BY <2>2, <2>3, <2>5, <2>6
  <2> QED
    BY <2>1, <2>2, <2>3, <2>7, <2>8, <2>9
<1>2. CASE source = "bios" /\ BiosStored
  <2>1. Meaning(i) = OfBios(i)
    BY <1>2 DEF Meaning
  <2> DEFINE OldFormat == Newer /\ Sofs(board.sram.rate[i]) = 15
  <2>2. /\ ~Misread(i) =>
              /\ Decoded(i).period = IF OfBios(i).sync
                                     THEN PeriodOf(OfBios(i).code, OfBios(i).ultra) ELSE 0
              /\ Decoded(i).wide = (OfBios(i).wide /\ board.wide)
        /\ Decoded(i).dt => board.chip = "aic7892"
    <3>1. CASE OldFormat
      <4>1. Decoded(i).dt => board.chip = "aic7892"
        BY <3>1, DtOf, FeatureFacts DEF Decoded
      <4> QED
        BY <1>2, <3>1, <4>1, OldBios
    <3>2. CASE ~OldFormat
      BY <1>2, <3>2, NewBios, FastBios
    <3> QED
      BY <3>1, <3>2
  <2>3. (i \notin sram.dsb) = OfBios(i).disc
    BY <1>2, BiosMeans DEF BiosStored
  <2> QED
    BY <2>1, <2>2, <2>3
<1> QED
  BY <1>1, <1>2

\* The driver's table is filled from scratch RAM (ahc_init).
LEMMA TableTaken ==
    ASSUME Types, SoundBoard(board), Staged, ahc_init
    PROVE  Taken'
<1>1. /\ stage = "init" /\ softc.features = Feats /\ source # "none"
      /\ ("USEDEFAULTS" \in softc.flags <=> source = "defaults")
      /\ (source = "bios" => BiosStored) /\ (FromEeprom => WordsStored)
  BY DEF ahc_init, Staged
<1>2. board' = board /\ source' = source /\ sram' = sram
  BY DEF ahc_init
<1> DEFINE o == IF "USEDEFAULTS" \in softc.flags THEN 7 ELSE softc.our_id
           d == IF "USEDEFAULTS" \in softc.flags THEN Targets ELSE Targets \ sram.dsb
           u == [i \in Targets |->
                 IF "USEDEFAULTS" \in softc.flags THEN Default
                 ELSE IF Has("ULTRA2")
                 THEN DecodeUltra2(sram.rate[i], sram.offset[i], i \in ultraenb)
                 ELSE DecodeFast(sram.rate[i], i \in ultraenb)]
<1>3. softc' = [softc EXCEPT !.our_id = o, !.disc = d, !.user = u]
  BY Zenon DEF ahc_init
<1>4. /\ source = "defaults" => d = Targets /\ \A i \in Targets : u[i] = Default
      /\ source # "defaults" => d = Targets \ sram.dsb /\ \A i \in Targets : u[i] = Decoded(i)
  BY <1>1 DEF Decoded
<1> HIDE DEF o, d, u
<1>5. softc'.disc = d /\ softc'.user = u /\ softc'.features = softc.features
  BY <1>3 DEF Types, SoftcType
<1>6. CASE source = "defaults"
  <2>1. Default' = Default
    BY <1>5 DEF Default, Has
  <2> QED
    BY <1>2, <1>4, <1>5, <1>6, <2>1 DEF Taken
<1>7. CASE source # "defaults"
  <2>1. FromEeprom \/ source = "bios"
    BY <1>1, <1>7 DEF FromEeprom, Types, TypeOK
  <2> SUFFICES ASSUME NEW i \in Targets PROVE TargetAsAsked(i)'
    BY <1>2, <1>7 DEF Taken
  <2>2. Meaning(i)' = Meaning(i)
    BY <1>2 DEF Meaning, OfBios, OfWords, Newer, CF
  <2>0. Misread(i)' = Misread(i)
    BY <1>2 DEF Misread, Newer
  <2>3. /\ ~Misread(i) =>
              /\ Decoded(i).period = IF Meaning(i).sync
                                     THEN PeriodOf(Meaning(i).code, Meaning(i).ultra) ELSE 0
              /\ Decoded(i).wide = (Meaning(i).wide /\ board.wide)
        /\ (i \notin sram.dsb) = Meaning(i).disc
        /\ Decoded(i).dt => board.chip = "aic7892"
    BY <1>1, <2>1, DecodedAsAsked
  <2>4. softc'.user[i] = Decoded(i) /\ (i \in softc'.disc <=> i \notin sram.dsb)
    BY <1>4, <1>5, <1>7
  <2>5. PeriodOf(Meaning(i).code, Meaning(i).ultra)' = PeriodOf(Meaning(i).code, Meaning(i).ultra)
    BY <1>2, <2>2 DEF PeriodOf, Newer, CanUltra
  <2> DEFINE c == Meaning(i).code  y == Meaning(i).sync  l == Meaning(i).ultra
             w == Meaning(i).wide  s == Meaning(i).disc
  <2>6. /\ ~Misread(i) => /\ softc'.user[i].period = IF y THEN PeriodOf(c, l) ELSE 0
                         /\ softc'.user[i].wide = (w /\ board.wide)
        /\ (i \in softc'.disc) = s
        /\ softc'.user[i].dt => board.chip = "aic7892"
    BY <2>3, <2>4
  <2>7. ~Misread(i) => RateAsAsked(i)'
    BY <1>2, <2>2, <2>5, <2>6, Zenon DEF RateAsAsked
  <2> QED
    BY <1>2, <2>0, <2>2, <2>6, <2>7, Zenon DEF TargetAsAsked
<1> QED
  BY <1>6, <1>7

LEMMA TakenKept ==
    ASSUME Taken, board' = board, source' = source, softc'.features = softc.features,
           softc'.user = softc.user, softc'.disc = softc.disc
    PROVE  Taken'
<1>1. Default' = Default
  BY DEF Default, Has
<1>2. CASE source = "defaults"
  BY <1>1, <1>2 DEF Taken
<1>3. CASE source # "defaults"
  <2> SUFFICES ASSUME NEW i \in Targets PROVE TargetAsAsked(i)'
    BY <1>3 DEF Taken
  <2>1. Meaning(i)' = Meaning(i)
    BY DEF Meaning, OfBios, OfWords, Newer, CF
  <2>2. PeriodOf(Meaning(i).code, Meaning(i).ultra)' = PeriodOf(Meaning(i).code, Meaning(i).ultra)
    BY <2>1 DEF PeriodOf, Newer, CanUltra
  <2>3. TargetAsAsked(i)
    BY <1>3 DEF Taken
  <2>4. Misread(i)' = Misread(i)
    BY DEF Misread, Newer
  <2>5. RateAsAsked(i) => RateAsAsked(i)'
    BY <2>1, <2>2, Zenon DEF RateAsAsked
  <2> QED
    BY <2>1, <2>3, <2>4, <2>5, Zenon DEF TargetAsAsked
<1> QED
  BY <1>2, <1>3

\* What the definitions above depend on.
LEMMA SameStores ==
    ASSUME board' = board
    PROVE  /\ Findable' = Findable /\ Feats' = Feats /\ Newer' = Newer
           /\ source' = source => FromEeprom' = FromEeprom
           /\ WordsStored /\ sram'.rate = sram.rate /\ sram'.offset = sram.offset
                 /\ sram'.ultra = sram.ultra /\ sram'.dsb = sram.dsb => WordsStored'
           /\ FlagsFresh /\ softc'.flags = softc.flags => FlagsFresh'
<1>1. Findable' = Findable /\ Feats' = Feats /\ Newer' = Newer
  BY DEF Findable, Feats, Newer
<1>2. source' = source => FromEeprom' = FromEeprom
  BY DEF FromEeprom
<1>3. \A i \in Targets : RateOf(i)' = RateOf(i) /\ (UltraOf(i)' <=> UltraOf(i)) /\ (AtTen(i)' <=> AtTen(i))
  BY DEF RateOf, UltraOf, NewFmt, AtTen, CodeOf, Newer, CF, Bit
<1>4. WordsStored /\ sram'.rate = sram.rate /\ sram'.offset = sram.offset
        /\ sram'.ultra = sram.ultra /\ sram'.dsb = sram.dsb => WordsStored'
  BY <1>1, <1>3 DEF WordsStored, Bit
<1>5. FlagsFresh /\ softc'.flags = softc.flags => FlagsFresh'
  BY <1>1 DEF FlagsFresh
<1> QED
  BY <1>1, <1>2, <1>4, <1>5

LEMMA StepStaged ==
    ASSUME Types, SoundBoard(board), Staged, Reload \subseteq {"seeprom"}, [Next]_vars
    PROVE  Staged'
<1>0. softc \in SoftcType /\ sram \in SramType /\ source \in {"none", "seeprom", "adpt", "bios", "defaults"}
  BY DEF Types, TypeOK
<1>1. CASE HwFindAdapter
  <2>1. /\ stage = "off" /\ stage' = "probe" /\ board' = board /\ source' = source
        /\ sram' = sram
    BY <1>1 DEF HwFindAdapter
  <2>2. softc'.features = Features(board.chip)
        /\ softc'.flags = (IF board.chip \in {"aic7890", "aic7892"} THEN {"NEWEEPROM_FMT"} ELSE {})
                 \cup (IF board.speedflex THEN {"INT50_SPEEDFLEX"} ELSE {})
                 \cup (IF board.multi THEN {"LARGE_SEEPROM"} ELSE {})
    BY <1>0, <1>1 DEF HwFindAdapter, SoftcType
  <2>3. FlagsFresh'
    BY <2>1, <2>2 DEF FlagsFresh, Newer
  <2> QED
    BY <1>0, <2>1, <2>2, <2>3, SameStores DEF Staged, Early
<1>2. CASE ahc_pci_test_register_access
  <2>1. /\ stage = "probe" /\ stage' \in {"reset", "refused"} /\ board' = board
        /\ source' = source /\ sram' = sram
    BY <1>2 DEF ahc_pci_test_register_access
  <2>2. softc'.features = softc.features
        /\ softc'.flags = softc.flags \cup (IF regs.chiprst THEN {"NO_BIOS_INIT"} ELSE {})
    BY <1>0, <1>2 DEF ahc_pci_test_register_access, SoftcType
  <2>3. FlagsFresh'
    BY <2>1, <2>2, SameStores DEF FlagsFresh, Staged
  <2> QED
    BY <1>0, <2>1, <2>2, <2>3, SameStores DEF Staged, Early
<1>3. CASE RememberAndReset
  <2>1. /\ stage = "reset" /\ board' = board /\ source' = source /\ sram' = sram
        /\ sd_chip' = IF "LARGE_SEEPROM" \in softc.flags THEN C56_66 ELSE C46
        /\ stage' = IF board.eeprom = Missing THEN "scratch" ELSE "seeprom"
    BY <1>3 DEF RememberAndReset
  <2>2. softc'.flags = softc.flags
        /\ softc'.features = (softc.features \cup (IF board.wide THEN {"WIDE"} ELSE {}))
                       \ (IF board.rext THEN {} ELSE {"ULTRA"})
    BY <1>0, <1>3 DEF RememberAndReset, SoftcType
  <2>3. softc'.features = Feats
    BY <2>1, <2>2 DEF Staged, Feats
  <2>4. FlagsFresh /\ FlagsFresh'
    BY <2>1, <2>2, SameStores DEF Staged
  <2>5. stage' = "scratch" => ~Findable
    BY <2>1 DEF Findable, Missing, C46, C56_66
  <2> QED
    BY <1>0, <2>1, <2>3, <2>4, <2>5, SameStores DEF Staged, Early, FlagsFresh, C46, C56_66
<1>4. CASE ReadSeeprom
  <2>1. /\ stage = "seeprom" /\ board' = board /\ sram' = sram /\ softc' = softc
        /\ stage' = (IF board.eeprom = sd_chip THEN "parse"
                     ELSE IF sd_chip = C56_66 THEN "scratch" ELSE "seeprom")
        /\ source' = (IF board.eeprom = sd_chip THEN "seeprom" ELSE source)
        /\ sd_chip' = (IF board.eeprom = sd_chip THEN sd_chip ELSE C56_66)
        /\ sd_chip \in {C46, C56_66}
    BY <1>4 DEF ReadSeeprom, Types, TypeOK
  <2>2. FlagsFresh'
    BY <2>1, SameStores DEF Staged
  <2>3. source' = "seeprom" => Findable
    BY <2>1 DEF Staged, Findable, C46, C56_66
  <2>4. source' = "seeprom" => FromEeprom'
    BY DEF FromEeprom
  <2> QED
    BY <1>0, <2>1, <2>2, <2>3, <2>4, SameStores DEF Staged, Early, C46, C56_66, Findable
<1>5. CASE ReadScratchCopy
  <2>1. /\ stage = "scratch" /\ board' = board /\ sram' = sram
        /\ source = "none" /\ softc.features = Feats /\ FlagsFresh
    BY <1>0, <1>5 DEF ReadScratchCopy, Staged, Early
  <2>2. CASE sram.adpt
    <3>1. stage' = "parse" /\ source' = "adpt" /\ softc' = softc
      BY <1>5, <2>2 DEF ReadScratchCopy
    <3> QED
      BY <2>1, <3>1, SameStores DEF Staged, Early, FromEeprom
  <2>3. CASE ~sram.adpt
    <3>1. stage' = "settle" /\ source' = source
          /\ softc' = [softc EXCEPT !.flags = @ \cup {"USEDEFAULTS"}]
      BY <1>5, <2>3 DEF ReadScratchCopy
    <3>2. softc'.features = Feats /\ "USEDEFAULTS" \in softc'.flags
      BY <1>0, <2>1, <3>1 DEF SoftcType
    <3> QED
      BY <2>1, <3>1, <3>2, SameStores DEF Staged, Early, FromEeprom
  <2> QED
    BY <2>2, <2>3
<1>6. CASE ahc_parse_pci_eeprom
  <2>1. /\ stage = "parse" /\ stage' = "terminate" /\ board' = board /\ source' = source
    BY <1>6 DEF ahc_parse_pci_eeprom
  <2>2. softc'.features = softc.features
        /\ softc'.flags = softc.flags \cup (IF NewFormat /\ CF("ULTRAEN") THEN {"NEWEEPROM_FMT"} ELSE {})
    BY <1>0, <1>6 DEF ahc_parse_pci_eeprom, SoftcType
  <2>3. "USEDEFAULTS" \notin softc'.flags
    BY <2>1, <2>2 DEF Staged, FlagsFresh
  <2>4. WordsStored'
    BY <1>6, WordsArrive
  <2> QED
    BY <2>1, <2>2, <2>3, <2>4, SameStores DEF Staged, Early
<1>7. CASE Terminate
  <2>1. /\ stage = "terminate" /\ stage' = "settle" /\ board' = board /\ source' = source
        /\ sram' = sram /\ softc' = softc
    BY <1>7 DEF Terminate
  <2> QED
    BY <2>1, SameStores DEF Staged, Early, FromEeprom
<1>8. CASE Settle
  <2> DEFINE defaults == "USEDEFAULTS" \in softc.flags
             bios == defaults /\ "NO_BIOS_INIT" \notin softc.flags /\ left.scsiseq
             alone == defaults /\ ~bios
             stpwen == alone \/ left.stpwen
             p == defaults \/ sram.parity
             f == (softc.flags \ (IF bios THEN {"USEDEFAULTS"} ELSE {}))
                           \cup (IF stpwen THEN {"TERM_ENB_A"} ELSE {})
             d == CASE alone -> 7 [] bios -> left.oid [] OTHER -> softc.our_id
  <2>1. /\ stage = "settle" /\ stage' = "sram" /\ board' = board
        /\ source' = IF alone THEN "defaults" ELSE IF bios THEN "bios" ELSE source
    BY <1>8 DEF Settle
  <2>2. sram' = [sram EXCEPT !.parity = p] /\ softc' = [softc EXCEPT !.our_id = d, !.flags = f]
    BY <1>8, Zenon DEF Settle
  <2>3. "USEDEFAULTS" \in f <=> alone
    OBVIOUS
  <2> HIDE DEF p, f, d
  <2>4. /\ softc'.features = softc.features /\ softc'.flags = f
        /\ sram'.rate = sram.rate /\ sram'.offset = sram.offset
        /\ sram'.ultra = sram.ultra /\ sram'.dsb = sram.dsb
    BY <1>0, <2>2 DEF SoftcType, SramType
  <2>5. defaults <=> source = "none"
    BY <2>1 DEF Staged
  <2>6. source' = "bios" => BiosStored'
    BY <2>1, <2>4, <2>5 DEF Staged, BiosStored
  <2>7. FromEeprom' => FromEeprom
    BY <2>1 DEF FromEeprom
  <2>8. source' # "none" /\ (source' = "defaults" <=> alone) /\ (source' = "seeprom" => source = "seeprom")
    BY <2>1, <2>5 DEF Staged
  <2> QED
    BY <2>1, <2>3, <2>4, <2>6, <2>7, <2>8, SameStores DEF Staged, Early
<1>9. CASE ProbeRam
  <2>1. /\ stage = "sram" /\ stage' = "init" /\ board' = board /\ source' = source
        /\ sram' = sram
    BY <1>9 DEF ProbeRam
  <2>2. softc'.features = softc.features
        /\ ("USEDEFAULTS" \in softc'.flags <=> "USEDEFAULTS" \in softc.flags)
    BY <1>0, <1>9 DEF ProbeRam, SoftcType
  <2>3. BiosStored => BiosStored'
    BY <2>1 DEF BiosStored
  <2> QED
    BY <2>1, <2>2, <2>3, SameStores DEF Staged, Early
<1>10. CASE ahc_init
  <2>1. /\ stage = "init" /\ stage' = "start" /\ board' = board /\ source' = source
    BY <1>10 DEF ahc_init
  <2>2. softc'.features = softc.features
    BY <1>0, <1>10 DEF ahc_init, SoftcType
  <2>3. Taken'
    BY <1>10, TableTaken
  <2> QED
    BY <2>1, <2>2, <2>3, SameStores DEF Staged, Early
<1>11. CASE ahc_chip_init \/ Found \/ ScsiStopAdapter \/ LosePower \/ ScsiRestartAdapter
  <2>1. /\ stage \in {"start", "found", "running", "stopped"}
        /\ stage' \in {"found", "running", "stopped"}
        /\ board' = board /\ source' = source
    BY <1>11 DEF ahc_chip_init, Found, ScsiStopAdapter, LosePower, ScsiRestartAdapter
  <2>2. \/ softc' = softc
        \/ softc' = [softc EXCEPT !.pause = TRUE, !.unpause = TRUE]
        \/ softc' = [softc EXCEPT !.pause = FALSE, !.unpause = FALSE]
    BY <1>11 DEF ahc_chip_init, Found, ScsiStopAdapter, LosePower, ScsiRestartAdapter,
       ahc_intr_enable
  <2>3. softc'.features = softc.features /\ softc'.user = softc.user /\ softc'.disc = softc.disc
    BY <1>0, <2>2 DEF SoftcType
  <2>4. Taken'
    BY <2>1, <2>3, TakenKept DEF Staged
  <2> QED
    BY <2>1, <2>3, <2>4, SameStores DEF Staged, Early
<1>12. CASE LoadAgain
  <2>1. /\ stage = "stopped" /\ stage' = "off" /\ board' = board /\ source' = source
        /\ source = "seeprom"
    BY <1>12 DEF LoadAgain
  <2> QED
    BY <2>1, SameStores DEF Staged, Early
<1>13. CASE UNCHANGED vars
  <2>1. /\ board' = board /\ stage' = stage /\ source' = source /\ sd_chip' = sd_chip
        /\ sram' = sram /\ softc' = softc
    BY <1>13 DEF vars
  <2>2. (Taken => Taken') /\ (FlagsFresh => FlagsFresh') /\ (WordsStored => WordsStored')
        /\ FromEeprom' = FromEeprom /\ Findable' = Findable /\ Feats' = Feats
    BY <2>1, SameStores, TakenKept
  <2>3. BiosStored => BiosStored'
    BY <2>1 DEF BiosStored
  <2> QED
    BY <2>1, <2>2, <2>3 DEF Staged, Early
<1> QED
  BY <1>1, <1>2, <1>3, <1>4, <1>5, <1>6, <1>7, <1>8, <1>9, <1>10, <1>11, <1>12, <1>13 DEF Next

-----------------------------------------------------------------------------
(* The aic79xx: what a target may be asked.                                *)

AhdTaken ==
    /\ ahdSource # "none"
    /\ \A i \in Targets : Ahd!TargetAsAsked(i)
    /\ ahdSoftc.our_id = IF ahdSource = "defaults" THEN 7 ELSE ahdBoard.id
    /\ \A i \in Targets : Ahd!FromWords /\ i < ahdBoard.max /\ sc[i].packetized => sc[i].disc

\* From the words or their copy to the driver's table.
AhdStaged ==
    /\ ahdStage \in {"off", "setup", "probe", "reset", "seeprom", "scratch", "parse"}
          => sc = ahdBoard.flags
    /\ ahdStage = "parse" => ahdSource \in {"seeprom", "copy"}
    /\ ahdStage = "defaults" => ahdSource = "defaults"
    /\ ahdStage \in {"terminate", "init", "found", "running", "stopped"} => AhdTaken

LEMMA InitAhdStaged ==
    ASSUME Ahd!Powered
    PROVE  AhdStaged
  BY DEF Ahd!Powered, AhdStaged

LEMMA AhdTakenKept ==
    ASSUME AhdTaken, ahdBoard' = ahdBoard, ahdSource' = ahdSource, sc' = sc,
           ahdSoftc'.user = ahdSoftc.user, ahdSoftc'.disc = ahdSoftc.disc,
           ahdSoftc'.tag = ahdSoftc.tag, ahdSoftc'.our_id = ahdSoftc.our_id
    PROVE  AhdTaken'
<1>1. \A i \in Targets : Ahd!TargetAsAsked(i)'
  <2> SUFFICES ASSUME NEW i \in Targets PROVE Ahd!TargetAsAsked(i)'
    OBVIOUS
  <2>1. Ahd!TargetAsAsked(i)
    BY DEF AhdTaken
  <2> QED
    BY <2>1, Zenon DEF Ahd!TargetAsAsked
<1> QED
  BY <1>1 DEF AhdTaken, Ahd!FromWords

LEMMA ParsedFields ==
    ASSUME NEW f \in WordsType
    PROVE  LET u == Ahd!Parsed(f)
               sync == f.xfer < 63
           IN  /\ u.period = IF sync THEN f.xfer ELSE 68
               /\ u.offset = IF sync THEN 254 ELSE 0
               /\ u.wide = f.wide
               /\ "DT_REQ" \in u.ppr <=> sync /\ f.xfer <= 25
               /\ "QAS_REQ" \in u.ppr <=> f.qas
               /\ \A o \in Ahd!Streaming : o \in u.ppr <=> f.packetized /\ f.disc
               /\ "RTI" \in u.ppr <=> f.packetized /\ f.disc /\ ahdBoard.rev = "B"
<1> DEFINE sync == f.xfer < Ahd!CFXFER_ASYNC
           packetized == Ahd!Packetized(f)
           p == IF sync THEN f.xfer ELSE Ahd!AHD_ASYNC_XFER_PERIOD
           o == IF sync THEN Ahd!MAX_OFFSET ELSE 0
           x == (IF sync /\ f.xfer <= Ahd!AHD_PERIOD_10MHz THEN {"DT_REQ"} ELSE {})
                    \cup (IF packetized THEN Ahd!Streaming \cup Ahd!Rti ELSE {})
                    \cup (IF f.qas THEN {"QAS_REQ"} ELSE {})
<1>1. Ahd!Parsed(f) = [period |-> p, offset |-> o, wide |-> f.wide, ppr |-> x]
  BY Zenon DEF Ahd!Parsed
<1>2. p = (IF f.xfer < 63 THEN f.xfer ELSE 68) /\ o = (IF f.xfer < 63 THEN 254 ELSE 0)
  BY DEF Ahd!CFXFER_ASYNC, Ahd!AHD_ASYNC_XFER_PERIOD, Ahd!MAX_OFFSET
<1>3. /\ "DT_REQ" \in x <=> f.xfer < 63 /\ f.xfer <= 25
      /\ "QAS_REQ" \in x <=> f.qas
      /\ \A a \in Ahd!Streaming : a \in x <=> f.packetized /\ f.disc
      /\ "RTI" \in x <=> f.packetized /\ f.disc /\ ahdBoard.rev = "B"
  BY DEF Ahd!CFXFER_ASYNC, Ahd!AHD_PERIOD_10MHz, Ahd!Packetized, Ahd!Streaming, Ahd!Rti, Ahd!HasRti
<1> HIDE DEF p, o, x
<1>4. /\ Ahd!Parsed(f).period = p /\ Ahd!Parsed(f).offset = o /\ Ahd!Parsed(f).wide = f.wide
      /\ Ahd!Parsed(f).ppr = x
  BY <1>1
<1> QED
  BY <1>2, <1>3, <1>4

\* The words of the EEPROM or its copy (ahd_parse_cfgdata).
LEMMA AhdWordsTaken ==
    ASSUME AhdTypes, SoundAhdBoard(ahdBoard), AhdStaged, Ahd!ahd_parse_cfgdata,
           ahdStage' = "terminate"
    PROVE  AhdTaken'
<1>1. /\ ahdStage = "parse" /\ sc = ahdBoard.flags /\ ahdSource \in {"seeprom", "copy"}
      /\ ahdBoard' = ahdBoard /\ ahdSource' = ahdSource
  BY DEF Ahd!ahd_parse_cfgdata, AhdStaged, Ahd!Refuse
<1> DEFINE known == {i \in Targets : i < ahdBoard.max}
           d == {i \in known : sc[i].disc}
           u == [i \in Targets |-> IF i \in known THEN Ahd!Parsed(sc[i]) ELSE Ahd!NoUser]
           f == (ahdSoftc.flags \ Ahd!Settable) \cup (ahdBoard.control \cap Ahd!Settable)
<1>2. /\ sc' = [i \in Targets |->
                   [sc[i] EXCEPT !.packetized = IF i \in known THEN Ahd!Packetized(sc[i]) ELSE @]]
      /\ ahdSoftc' = [ahdSoftc EXCEPT !.our_id = ahdBoard.id, !.disc = d, !.tag = d, !.user = u,
                                      !.flags = f]
  BY Zenon DEF Ahd!ahd_parse_cfgdata, Ahd!Refuse
<1> HIDE DEF f
<1>3. /\ ahdSoftc'.our_id = ahdBoard.id /\ ahdSoftc'.disc = d /\ ahdSoftc'.tag = d
      /\ ahdSoftc'.user = u
  BY <1>2 DEF AhdTypes, AhdSoftcType
<1>4. \A i \in Targets : sc[i] \in WordsType /\ i \in Nat
  BY TargetsAssumption DEF AhdTypes
<1>5. \A i \in Targets : i < ahdBoard.max /\ sc'[i].packetized => sc'[i].disc
  <2> SUFFICES ASSUME NEW i \in Targets, i < ahdBoard.max, sc'[i].packetized PROVE sc'[i].disc
    OBVIOUS
  <2>1. sc'[i] = [sc[i] EXCEPT !.packetized = Ahd!Packetized(sc[i])]
    BY <1>2
  <2>2. sc'[i].packetized = Ahd!Packetized(sc[i]) /\ sc'[i].disc = sc[i].disc
    BY <1>4, <2>1 DEF WordsType
  <2> QED
    BY <2>2 DEF Ahd!Packetized
<1>6. \A i \in Targets : Ahd!TargetAsAsked(i)'
  <2> SUFFICES ASSUME NEW i \in Targets PROVE Ahd!TargetAsAsked(i)'
    OBVIOUS
  <2> DEFINE w == ahdBoard.flags[i]
  <2>1. w = sc[i] /\ w \in WordsType
    BY <1>1, <1>4
  <2>2. CASE i < ahdBoard.max
    <3>1. ahdSoftc'.user[i] = Ahd!Parsed(w) /\ (i \in ahdSoftc'.disc <=> w.disc)
          /\ (i \in ahdSoftc'.tag <=> w.disc)
      BY <1>3, <2>1, <2>2
    <3> HIDE DEF w, u, d
    <3> DEFINE x == Ahd!Parsed(w)
    <3>2. /\ x.period = (IF w.xfer < 63 THEN w.xfer ELSE 68)
          /\ x.offset = (IF w.xfer < 63 THEN 254 ELSE 0)
          /\ x.wide = w.wide
          /\ "DT_REQ" \in x.ppr <=> w.xfer < 63 /\ w.xfer <= 25
          /\ "QAS_REQ" \in x.ppr <=> w.qas
          /\ \A o \in Ahd!Streaming : o \in x.ppr <=> w.packetized /\ w.disc
          /\ "RTI" \in x.ppr <=> w.packetized /\ w.disc /\ ahdBoard.rev = "B"
      BY <2>1, ParsedFields
    <3>3. {w.packetized, w.disc, w.qas} \subseteq BOOLEAN /\ w.xfer \in 0 .. 63
      BY <2>1 DEF WordsType
    <3> HIDE DEF x
    <3> DEFINE iu == "IU_REQ" \in x.ppr
    <3>4. iu <=> w.packetized /\ w.disc
      BY <3>2 DEF Ahd!Streaming
    <3>5. \A o \in {"RD_STRM", "WR_FLOW", "HOLD_MCS", "RTI"} \cap x.ppr : iu
      BY <3>2, <3>4 DEF Ahd!Streaming
    <3>6. iu = (w.packetized /\ w.disc) /\ ("QAS_REQ" \in x.ppr) = w.qas
      BY <3>2, <3>3, <3>4
    <3>7. /\ "DT_REQ" \in x.ppr => x.offset # 0 /\ x.period <= 25
          /\ (x.offset = 0) = (w.xfer = 63)
      BY <3>2, <3>3
    <3>8. ~(i >= ahdBoard.max)
      BY <1>4, <2>2 DEF SoundAhdBoard
    <3>9. (i \in ahdSoftc'.disc) = w.disc
      BY <3>1, <3>3
    <3>10. /\ iu => i \in ahdSoftc'.disc /\ i \in ahdSoftc'.tag
           /\ iu = (w.packetized /\ w.disc) /\ ("QAS_REQ" \in x.ppr) = w.qas
           /\ \A o \in {"RD_STRM", "WR_FLOW", "HOLD_MCS", "RTI"} \cap x.ppr : iu
           /\ "RTI" \in x.ppr => ahdBoard.rev = "B"
           /\ "DT_REQ" \in x.ppr => x.offset # 0 /\ x.period <= 25
           /\ (x.offset = 0) = (w.xfer = 63)
           /\ x.wide = w.wide /\ (i \in ahdSoftc'.disc) = w.disc
      BY <3>1, <3>2, <3>4, <3>5, <3>6, <3>7, <3>9
    <3>11. ahdSource # "defaults" /\ ahdSoftc'.user[i] = x
      BY <1>1, <3>1 DEF x
    <3> QED
      BY <1>1, <3>8, <3>10, <3>11, Zenon DEF Ahd!TargetAsAsked, w
  <2>3. CASE ~(i < ahdBoard.max)
    <3>1. i >= ahdBoard.max /\ ahdSoftc'.user[i] = Ahd!NoUser /\ i \notin ahdSoftc'.disc
      BY <1>3, <1>4, <2>3 DEF SoundAhdBoard
    <3>2. Ahd!NoUser' = Ahd!NoUser /\ ahdSource' # "defaults"
      BY <1>1 DEF Ahd!NoUser
    <3> QED
      BY <1>1, <3>1, <3>2 DEF Ahd!TargetAsAsked
  <2> QED
    BY <2>2, <2>3
<1> QED
  BY <1>1, <1>3, <1>5, <1>6 DEF AhdTaken

LEMMA AhdDefaultsTaken ==
    ASSUME AhdTypes, SoundAhdBoard(ahdBoard), AhdStaged, Ahd!ahd_default_config,
           ahdStage' = "terminate"
    PROVE  AhdTaken'
<1>1. /\ ahdStage = "defaults" /\ ahdSource = "defaults" /\ ahdSource' = "defaults"
      /\ ahdBoard' = ahdBoard
  BY DEF Ahd!ahd_default_config, AhdStaged, Ahd!Refuse
<1> DEFINE p == Ahd!Streaming \cup {"QAS_REQ", "DT_REQ"} \cup Ahd!Rti
           x == [period |-> Ahd!AHD_SYNCRATE_160, offset |-> Ahd!MAX_OFFSET, wide |-> TRUE,
                 ppr |-> p]
           u == [i \in Targets |-> x]
<1>2. ahdSoftc' = [ahdSoftc EXCEPT !.our_id = 7, !.disc = Targets, !.tag = Targets, !.user = u]
  BY Zenon DEF Ahd!ahd_default_config, Ahd!Refuse
<1>3. {"IU_REQ", "DT_REQ", "QAS_REQ"} \subseteq p
  BY DEF Ahd!Streaming
<1> HIDE DEF p
<1>4. x.ppr = p /\ x.wide = TRUE
  OBVIOUS
<1> HIDE DEF x
<1>5. \A i \in Targets : u[i] = x
  OBVIOUS
<1> HIDE DEF u
<1>6. ahdSoftc'.our_id = 7 /\ ahdSoftc'.disc = Targets /\ ahdSoftc'.user = u
  BY <1>2 DEF AhdTypes, AhdSoftcType
<1>7. \A i \in Targets : Ahd!TargetAsAsked(i)'
  BY <1>1, <1>3, <1>4, <1>5, <1>6 DEF Ahd!TargetAsAsked
<1>8. ~Ahd!FromWords'
  BY <1>1 DEF Ahd!FromWords
<1> QED
  BY <1>1, <1>6, <1>7, <1>8 DEF AhdTaken

\* The driver's record of what was asked; nothing after the start of day touches it.
Asked(s) == <<s.user, s.disc, s.tag, s.our_id>>

LEMMA AhdLater ==
    ASSUME AhdTypes, Ahd!Next, ahdStage \in {"terminate", "init", "found", "running", "stopped"}
    PROVE  /\ sc' = sc /\ ahdSource' = ahdSource /\ Asked(ahdSoftc') = Asked(ahdSoftc)
           /\ ahdStage' \in {"terminate", "init", "found", "running", "stopped", "refused"}
<1> USE DEF AhdTypes
<1>0. ahdSoftc \in AhdSoftcType
  OBVIOUS
<1>1. ~ (\/ Ahd!HwFindAdapter \/ Ahd!ahd_aic790X_setup \/ Ahd!ahd_pci_test_register_access
         \/ Ahd!ahd_reset \/ Ahd!ReadSeeprom \/ Ahd!ReadScratchCopy \/ Ahd!ahd_default_config
         \/ Ahd!ahd_parse_cfgdata)
  BY DEF Ahd!HwFindAdapter, Ahd!ahd_aic790X_setup, Ahd!ahd_pci_test_register_access,
     Ahd!ahd_reset, Ahd!ReadSeeprom, Ahd!ReadScratchCopy, Ahd!ahd_default_config,
     Ahd!ahd_parse_cfgdata
<1>2. CASE Ahd!ahd_configure_termination
  <2>1. /\ ahdStage' = "init" /\ sc' = sc /\ ahdSource' = ahdSource
        /\ \E f : ahdSoftc' = [ahdSoftc EXCEPT !.flags = f]
    BY <1>2, Zenon DEF Ahd!ahd_configure_termination
  <2> QED
    BY <1>0, <2>1 DEF Asked, AhdSoftcType
<1>3. CASE Ahd!ahd_init
  <2>1. /\ ahdStage' \in {"found", "refused"} /\ sc' = sc /\ ahdSource' = ahdSource
        /\ ahdSoftc' \in {ahdSoftc, Ahd!QueuesEmpty(ahdSoftc)}
    BY <1>3 DEF Ahd!ahd_init, Ahd!Refuse
  <2> QED
    BY <1>0, <2>1 DEF Asked, AhdSoftcType, Ahd!QueuesEmpty
<1>4. CASE Ahd!Found
  <2>1. /\ ahdStage' = "running" /\ sc' = sc /\ ahdSource' = ahdSource
        /\ ahdSoftc' = Ahd!Enable(ahdSoftc, TRUE)
    BY <1>4 DEF Ahd!Found
  <2> QED
    BY <1>0, <2>1 DEF Asked, AhdSoftcType, Ahd!Enable
<1>5. ASSUME NEW s \in Scbs, Ahd!ahd_queue_scb(s)
      PROVE  /\ sc' = sc /\ ahdSource' = ahdSource /\ Asked(ahdSoftc') = Asked(ahdSoftc)
             /\ ahdStage' \in {"terminate", "init", "found", "running", "stopped", "refused"}
  <2>1. /\ ahdStage' = ahdStage /\ sc' = sc /\ ahdSource' = ahdSource
        /\ ahdSoftc' = [ahdSoftc EXCEPT !.next = ahdSoftc.hscb[s], !.hscb[s] = ahdSoftc.next,
                              !.in = @ + 1, !.pending = @ \cup {s}]
    BY <1>5, Zenon DEF Ahd!ahd_queue_scb
  <2> QED
    BY <1>0, <2>1 DEF Asked, AhdSoftcType
<1>6. ASSUME NEW s \in Scbs, Ahd!PostScb(s) \/ Ahd!FetchScb
      PROVE  /\ sc' = sc /\ ahdSource' = ahdSource /\ Asked(ahdSoftc') = Asked(ahdSoftc)
             /\ ahdStage' \in {"terminate", "init", "found", "running", "stopped", "refused"}
  BY <1>6 DEF Ahd!PostScb, Ahd!FetchScb, Ahd!Sequencer
<1>7. CASE Ahd!FetchScb \/ Ahd!LosePower
  BY <1>7 DEF Ahd!FetchScb, Ahd!Sequencer, Ahd!LosePower
<1>8. CASE Ahd!ahd_run_qoutfifo
  <2>1. /\ ahdStage' = ahdStage /\ sc' = sc /\ ahdSource' = ahdSource
        /\ \E p, o, y : ahdSoftc' = [ahdSoftc EXCEPT !.pending = p, !.out = o, !.valid = y]
    BY <1>8, Zenon DEF Ahd!ahd_run_qoutfifo
  <2> QED
    BY <1>0, <2>1 DEF Asked, AhdSoftcType
<1>9. CASE Ahd!HwResetBus
  <2> DEFINE ran == [ahdSoftc EXCEPT !.out = ahdChip.out, !.valid = ahdChip.valid]
             t == IF Ahd!ResetsChipWithBus THEN Ahd!QueuesEmpty(ran) ELSE ran
  <2>1. /\ ahdStage' = ahdStage /\ sc' = sc /\ ahdSource' = ahdSource
        /\ \E n, c : ahdSoftc' = [t EXCEPT !.in = n, !.pending = {}, !.curr = c]
    BY <1>9, Zenon DEF Ahd!HwResetBus
  <2>2. Asked(t) = Asked(ahdSoftc)
        /\ DOMAIN t = DOMAIN ahdSoftc
    BY <1>0 DEF Asked, AhdSoftcType, Ahd!QueuesEmpty
  <2>3. {"user", "disc", "tag", "our_id"} \subseteq DOMAIN ahdSoftc
    BY <1>0 DEF AhdSoftcType
  <2> HIDE DEF t
  <2>4. PICK n, c : ahdSoftc' = [t EXCEPT !.in = n, !.pending = {}, !.curr = c]
    BY <2>1
  <2>5. Asked(ahdSoftc') = Asked(t)
    BY <2>2, <2>3, <2>4 DEF Asked
  <2> QED
    BY <2>1, <2>2, <2>5
<1>10. ASSUME NEW i \in Targets, Ahd!Negotiated(i)
       PROVE  /\ sc' = sc /\ ahdSource' = ahdSource /\ Asked(ahdSoftc') = Asked(ahdSoftc)
              /\ ahdStage' \in {"terminate", "init", "found", "running", "stopped", "refused"}
  <2>1. /\ ahdStage' = ahdStage /\ sc' = sc /\ ahdSource' = ahdSource
        /\ ahdSoftc' = [ahdSoftc EXCEPT !.curr[i] = "negotiated"]
    BY <1>10, Zenon DEF Ahd!Negotiated
  <2> QED
    BY <1>0, <2>1 DEF Asked, AhdSoftcType
<1>11. CASE Ahd!ScsiStopAdapter
  <2>1. /\ ahdStage' = "stopped" /\ sc' = sc /\ ahdSource' = ahdSource
        /\ ahdSoftc' = Ahd!Enable(ahdSoftc, FALSE)
    BY <1>11 DEF Ahd!ScsiStopAdapter
  <2> QED
    BY <1>0, <2>1 DEF Asked, AhdSoftcType, Ahd!Enable
<1>12. CASE Ahd!ScsiRestartAdapter
  <2>1. /\ ahdStage' = "found" /\ sc' = sc /\ ahdSource' = ahdSource
        /\ ahdSoftc' = Ahd!QueuesEmpty(ahdSoftc)
    BY <1>12 DEF Ahd!ScsiRestartAdapter, Ahd!ahd_chip_init
  <2> QED
    BY <1>0, <2>1 DEF Asked, AhdSoftcType, Ahd!QueuesEmpty
<1> QED
  BY <1>1, <1>2, <1>3, <1>4, <1>5, <1>6, <1>7, <1>8, <1>9, <1>10, <1>11, <1>12 DEF Ahd!Next

LEMMA StepAhdStaged ==
    ASSUME AhdTypes, SoundAhdBoard(ahdBoard), AhdStaged, [Ahd!Next]_(Ahd!vars),
           ahdBoard' = ahdBoard
    PROVE  AhdStaged'
<1>1. CASE Ahd!Next /\ ahdStage \in {"terminate", "init", "found", "running", "stopped"}
  <2>1. /\ sc' = sc /\ ahdSource' = ahdSource /\ Asked(ahdSoftc') = Asked(ahdSoftc)
        /\ ahdStage' \in {"terminate", "init", "found", "running", "stopped", "refused"}
    BY <1>1, AhdLater
  <2>2. /\ ahdSoftc'.user = ahdSoftc.user /\ ahdSoftc'.disc = ahdSoftc.disc
        /\ ahdSoftc'.tag = ahdSoftc.tag /\ ahdSoftc'.our_id = ahdSoftc.our_id
    BY <2>1 DEF Asked
  <2>3. AhdTaken'
    BY <1>1, <2>1, <2>2, AhdTakenKept DEF AhdStaged
  <2> QED
    BY <2>1, <2>3 DEF AhdStaged
<1>2. CASE Ahd!Next /\ ahdStage \notin {"terminate", "init", "found", "running", "stopped"}
  <2>1. CASE Ahd!HwFindAdapter
    BY <2>1 DEF Ahd!HwFindAdapter, AhdStaged
  <2>2. CASE Ahd!ahd_aic790X_setup
    BY <2>2 DEF Ahd!ahd_aic790X_setup, Ahd!Refuse, AhdStaged
  <2>3. CASE Ahd!ahd_pci_test_register_access
    BY <2>3 DEF Ahd!ahd_pci_test_register_access, Ahd!Refuse, AhdStaged
  <2>4. CASE Ahd!ahd_reset
    BY <2>4 DEF Ahd!ahd_reset, AhdStaged
  <2>5. CASE Ahd!ReadSeeprom
    BY <2>5 DEF Ahd!ReadSeeprom, AhdStaged
  <2>6. CASE Ahd!ReadScratchCopy
    BY <2>6 DEF Ahd!ReadScratchCopy, AhdStaged
  <2>7. CASE Ahd!ahd_default_config
    <3>1. ahdStage' \in {"terminate", "refused"}
      BY <2>7 DEF Ahd!ahd_default_config, Ahd!Refuse
    <3> QED
      BY <2>7, <3>1, AhdDefaultsTaken DEF AhdStaged
  <2>8. CASE Ahd!ahd_parse_cfgdata
    <3>1. ahdStage' \in {"terminate", "refused"}
      BY <2>8 DEF Ahd!ahd_parse_cfgdata, Ahd!Refuse
    <3> QED
      BY <2>8, <3>1, AhdWordsTaken DEF AhdStaged
  <2>9. ~ (\/ Ahd!ahd_configure_termination \/ Ahd!ahd_init \/ Ahd!Found
           \/ \E s \in Scbs : Ahd!ahd_queue_scb(s) \/ Ahd!PostScb(s)
           \/ Ahd!FetchScb \/ Ahd!ahd_run_qoutfifo \/ Ahd!HwResetBus
           \/ \E i \in Targets : Ahd!Negotiated(i)
           \/ Ahd!ScsiStopAdapter \/ Ahd!LosePower \/ Ahd!ScsiRestartAdapter)
    BY <1>2 DEF Ahd!ahd_configure_termination, Ahd!ahd_init, Ahd!Found, Ahd!ahd_queue_scb,
       Ahd!PostScb, Ahd!FetchScb, Ahd!ahd_run_qoutfifo, Ahd!HwResetBus, Ahd!Negotiated,
       Ahd!ScsiStopAdapter, Ahd!LosePower, Ahd!ScsiRestartAdapter, Ahd!Step, Ahd!Sequencer
  <2> QED
    BY <1>2, <2>1, <2>2, <2>3, <2>4, <2>5, <2>6, <2>7, <2>8, <2>9 DEF Ahd!Next
<1>3. CASE UNCHANGED Ahd!vars
  <2>1. AhdTaken => AhdTaken'
    BY <1>3, AhdTakenKept DEF Ahd!vars
  <2> QED
    BY <1>3, <2>1 DEF Ahd!vars, AhdStaged
<1> QED
  BY <1>1, <1>2, <1>3

-----------------------------------------------------------------------------
(* Settings                                                                *)

Reaching == Kept /\ Staged /\ AhdStaged

LEMMA InitReaching ==
    ASSUME Extras = {}, ConfigInit
    PROVE  Reaching
<1>1. Kept
  BY InitKept
<1>2. Staged
  BY InitStaged DEF ConfigInit
<1>3. AhdStaged
  BY InitAhdStaged DEF ConfigInit
<1> QED
  BY <1>1, <1>2, <1>3 DEF Reaching

LEMMA StepReaching ==
    ASSUME Reaching, Reload \subseteq {"seeprom"},
           [ConfigNext]_<<part_of, vars, ahdVars, serVars>>
    PROVE  Reaching'
<1>1. /\ Types /\ AhdTypes /\ SoundBoard(board) /\ SoundAhdBoard(ahdBoard)
  BY Known DEF Reaching, Kept
<1>2. [Next]_vars /\ [Ahd!Next]_(Ahd!vars) /\ ahdBoard' = ahdBoard
  BY SameBoards
<1>3. Kept'
  BY StepKept DEF Reaching
<1>4. Staged'
  BY <1>1, <1>2, StepStaged DEF Reaching
<1>5. AhdStaged'
  BY <1>1, <1>2, StepAhdStaged DEF Reaching
<1> QED
  BY <1>3, <1>4, <1>5 DEF Reaching

LEMMA AlwaysReaching ==
    ASSUME Extras = {}, Reload \subseteq {"seeprom"}
    PROVE  ConfigSpec => []Reaching
<1>1. ConfigInit => Reaching
  BY InitReaching
<1>2. Reaching /\ [ConfigNext]_<<part_of, vars, ahdVars, serVars>> => Reaching'
  BY StepReaching
<1> QED
  BY <1>1, <1>2, PTL DEF ConfigSpec

\* From the EEPROM, a copy, a BIOS or defaults, and through the encodings of the
\* scratch RAM, the driver's table gets what the user asked for, but for the
\* rates that Misread names; so after a stop and a restart, and when a driver is
\* loaded again over words that can still be read (ahc_parse_pci_eeprom, ahc_init,
\* ahd_parse_cfgdata, ahd_default_config).
THEOREM SettingsReachTheTable ==
    ASSUME Extras = {}, Reload \subseteq {"seeprom"}
    PROVE  ConfigSpec => []SettingsTaken
<1>1. Reaching => SettingsTaken
  <2> SUFFICES ASSUME Reaching PROVE SettingsTaken
    OBVIOUS
  <2>1. SettingsAreTaken
    BY DEF Reaching, Staged, Taken, SettingsAreTaken, Configured
  <2>2. Ahd!SettingsAreTaken
    BY DEF Reaching, AhdStaged, AhdTaken, Ahd!SettingsAreTaken, Ahd!Configured
  <2> QED
    BY <2>1, <2>2 DEF SettingsTaken
<1> QED
  BY <1>1, AlwaysReaching, PTL

-----------------------------------------------------------------------------
(* Termination: what check_extport finds out is what the board needs.      *)

\* What TerminationAsked says of an enable and a latch.
Ends(s, l) ==
    LET hand   == (board.chip = "aic7850" /\ ~board.logic) \/ ~CF("AUTOTERM")
        cables == board.cables \ ((IF board.wide THEN {} ELSE {"int68"})
                                  \cup (IF board.speedflex THEN {"int50"} ELSE {}))
        many   == Cardinality(cables) = 3
    IN  /\ ~FromEeprom => s = (source = "defaults" \/ board.stpwen) /\ l = {}
        /\ FromEeprom /\ Newer =>
              /\ s = (IF CF("AUTOTERM") THEN "BRDDAT3" \in board.sense ELSE CF("STERM"))
              /\ ("BRDDAT4" \in l) = (IF CF("AUTOTERM") THEN "BRDDAT4" \in board.sense
                                      ELSE CF("WSTERM"))
              /\ ("BRDDAT5" \in l) = (IF CF("SEAUTOTERM") THEN "BRDDAT5" \in board.sense
                                      ELSE CF("SELOWTERM"))
              /\ ("BRDDAT6" \in l) = (IF CF("SEAUTOTERM") THEN "BRDDAT6" \in board.sense
                                      ELSE CF("SEHIGHTERM"))
        /\ FromEeprom /\ ~Newer /\ hand =>
              s = CF("STERM") /\ ("BRDDAT6" \in l) = (board.wide /\ CF("WSTERM"))
        /\ FromEeprom /\ ~Newer /\ ~hand =>
              /\ s = (board.speedflex \/ many \/ Cardinality(cables) < 2)
              /\ ("BRDDAT6" \in l) = (board.wide /\ (many \/ ~{"ext", "int68"} \subseteq cables))

LEMMA EndsAsAsked ==
    Ends(regs.stpwen, regs.latch) => TerminationAsked
<1> SUFFICES ASSUME Ends(regs.stpwen, regs.latch) PROVE TerminationAsked
  OBVIOUS
<1>1. CASE ~FromEeprom
  BY <1>1 DEF Ends, TerminationAsked, FromEeprom
<1>2. CASE FromEeprom /\ Newer
  BY <1>2 DEF Ends, TerminationAsked, FromEeprom
<1>3. CASE FromEeprom /\ ~Newer
  BY <1>3 DEF Ends, TerminationAsked, FromEeprom
<1> QED
  BY <1>1, <1>2, <1>3

LEMMA FewCables ==
    ASSUME NEW S, S \subseteq {"int50", "int68", "ext"}
    PROVE  /\ Cardinality(S) \in Nat
           /\ Cardinality(S) = 3 <=> S = {"int50", "int68", "ext"}
           /\ "int50" \notin S /\ ~{"int68", "ext"} \subseteq S => Cardinality(S) < 2
           /\ S = {"int68", "ext"} => Cardinality(S) = 2
           /\ S = {} => Cardinality(S) = 0
<1> DEFINE a == {"int50", "int68", "ext"}
<1>1. IsFiniteSet({}) /\ Cardinality({}) = 0
  BY FS_EmptySet
<1>2. \A x : IsFiniteSet({x}) /\ Cardinality({x}) = 1
  BY FS_Singleton
<1>3. \A x, y : x # y => IsFiniteSet({x, y}) /\ Cardinality({x, y}) = 2
  <2> SUFFICES ASSUME NEW x, NEW y, x # y
               PROVE  IsFiniteSet({x, y}) /\ Cardinality({x, y}) = 2
    OBVIOUS
  <2>1. {x} \cup {y} = {x, y} /\ y \notin {x}
    OBVIOUS
  <2>2. IsFiniteSet({x} \cup {y}) /\ Cardinality({x} \cup {y}) = Cardinality({x}) + 1
    BY <1>2, <2>1, FS_AddElement
  <2>3. Cardinality({x}) = 1
    BY <1>2, Zenon
  <2> QED
    BY <2>1, <2>2, <2>3
<1>4. IsFiniteSet(a) /\ Cardinality(a) = 3
  <2>1. {"int50", "int68"} \cup {"ext"} = a /\ "ext" \notin {"int50", "int68"}
    OBVIOUS
  <2>2. IsFiniteSet({"int50", "int68"}) /\ Cardinality({"int50", "int68"}) = 2
    BY <1>3
  <2> QED
    BY <2>1, <2>2, FS_AddElement
<1> HIDE DEF a
<1>5. IsFiniteSet(S) /\ Cardinality(S) <= 3 /\ Cardinality(S) \in Nat
  BY <1>4, FS_Subset, FS_CardinalityType, ZenonT(40) DEF a
<1>6. Cardinality(S) = 3 => S = a
  BY <1>4, FS_Subset DEF a
<1>7. "int50" \notin S /\ ~{"int68", "ext"} \subseteq S =>
         S = {} \/ S = {"int68"} \/ S = {"ext"}
  OBVIOUS
<1>8. Cardinality(S) = 3 <=> S = a
  BY <1>4, <1>6
<1>9. "int50" \notin S /\ ~{"int68", "ext"} \subseteq S => Cardinality(S) < 2
  <2>1. Cardinality({"int68"}) = 1 /\ Cardinality({"ext"}) = 1
    BY <1>2, Zenon
  <2>2. "int50" \notin S /\ ~{"int68", "ext"} \subseteq S =>
           Cardinality(S) = 0 \/ Cardinality(S) = 1
    BY <1>1, <1>7, <2>1, Zenon
  <2> QED
    BY <2>2
<1>10. S = {"int68", "ext"} => Cardinality(S) = 2
  BY <1>3
<1> QED
  BY <1>1, <1>5, <1>8, <1>9, <1>10 DEF a

\* The connectors that an older board is seen to use.
LEMMA CablesSeen ==
    ASSUME SoundBoard(board), softc.features = Feats, ~Newer,
           "INT50_SPEEDFLEX" \in softc.flags <=> board.speedflex
    PROVE  LET cables == board.cables \ ((IF board.wide THEN {} ELSE {"int68"})
                                         \cup (IF board.speedflex THEN {"int50"} ELSE {}))
           IN  Connectors = IF Cardinality(cables) = 3 THEN {} ELSE cables
<1> DEFINE cables == board.cables \ ((IF board.wide THEN {} ELSE {"int68"})
                                     \cup (IF board.speedflex THEN {"int50"} ELSE {}))
           found == CASE Has("NEW_TERMCTL") -> {"int68", "ext"}
                      [] Has("SPIOCAP")     -> aic785X_cable_detect
                      [] OTHER              -> aic787X_cable_detect
           usable == (found \ (IF Has("WIDE") THEN {} ELSE {"int68"}))
                        \ (IF "INT50_SPEEDFLEX" \in softc.flags THEN {"int50"} ELSE {})
<1>1. /\ ~Has("ULTRA2") /\ ~Has("NEW_TERMCTL") /\ (Has("SPIOCAP") <=> board.chip = "aic7850")
      /\ (Has("WIDE") <=> board.wide)
  BY FeatureFacts
<1>2. board.cables \subseteq {"int50", "int68", "ext"} /\ (board.chip = "aic7850" => ~board.wide)
  BY DEF SoundBoard
<1>3. aic787X_cable_detect = board.cables
  BY <1>1, <1>2 DEF aic787X_cable_detect, Pins
<1>4. aic785X_cable_detect = board.cables \ {"int68"}
  BY DEF aic785X_cable_detect
<1>5. found = IF board.chip = "aic7850" THEN board.cables \ {"int68"} ELSE board.cables
  BY <1>1, <1>3, <1>4
<1>6. Connectors = IF ~Has("ULTRA2") /\ Cardinality(usable) = 3 THEN {} ELSE usable
  BY Zenon DEF Connectors
<1> HIDE DEF found
<1>7. usable = cables
  BY <1>1, <1>2, <1>5
<1> HIDE DEF usable, cables
<1>8. Connectors = IF Cardinality(cables) = 3 THEN {} ELSE cables
  BY <1>1, <1>6, <1>7
<1> QED
  BY <1>8 DEF cables

LEMMA AutoParts ==
    LET sec_high == Enable("SEAUTOTERM", "BRDDAT6", "SEHIGHTERM")
        sec_low  == Enable("SEAUTOTERM", "BRDDAT5", "SELOWTERM")
        pri_high == Enable("AUTOTERM", "BRDDAT4", "WSTERM")
        pri_low  == Enable("AUTOTERM", "BRDDAT3", "STERM")
        low      == Cardinality(Connectors) < 2 \/ sec_low
        t        == AutoTermination
    IN  /\ t.stpwen = (pri_low \/ (low /\ ~Has("ULTRA2")))
        /\ "BRDDAT6" \in t.latch <=>
              Has("WIDE") /\ (~{"ext", "int68"} \subseteq Connectors \/ sec_high)
        /\ "BRDDAT5" \in t.latch <=> low /\ Has("ULTRA2")
        /\ "BRDDAT4" \in t.latch <=> pri_high
<1> DEFINE sec_high == Enable("SEAUTOTERM", "BRDDAT6", "SEHIGHTERM")
           sec_low  == Enable("SEAUTOTERM", "BRDDAT5", "SELOWTERM")
           pri_high == Enable("AUTOTERM", "BRDDAT4", "WSTERM")
           pri_low  == Enable("AUTOTERM", "BRDDAT3", "STERM")
           low      == Cardinality(Connectors) < 2 \/ sec_low
           s == pri_low \/ (low /\ ~Has("ULTRA2"))
           l == (IF Has("WIDE") /\ (~{"ext", "int68"} \subseteq Connectors \/ sec_high)
                   THEN {"BRDDAT6"} ELSE {})
                  \cup (IF low /\ Has("ULTRA2") THEN {"BRDDAT5"} ELSE {})
                  \cup (IF pri_high THEN {"BRDDAT4"} ELSE {})
<1>1. AutoTermination = [stpwen |-> s, latch |-> l]
  BY Zenon DEF AutoTermination
<1> HIDE DEF pri_high, low, sec_high
<1>2. /\ "BRDDAT6" \in l <=>
            Has("WIDE") /\ (~{"ext", "int68"} \subseteq Connectors \/ sec_high)
      /\ "BRDDAT5" \in l <=> low /\ Has("ULTRA2")
      /\ "BRDDAT4" \in l <=> pri_high
  OBVIOUS
<1> HIDE DEF s, l
<1>3. AutoTermination.stpwen = s /\ AutoTermination.latch = l
  BY <1>1
<1> QED
  BY <1>2, <1>3, Zenon DEF s, pri_high, low, sec_high

LEMMA ManualParts ==
    /\ ManualTermination.stpwen = CF("STERM")
    /\ ManualTermination.latch = IF ~Has("WIDE") THEN regs.latch
                                 ELSE IF CF("WSTERM") THEN {"BRDDAT6"} ELSE {}
<1> DEFINE s == CF("STERM")
           l == IF ~Has("WIDE") THEN regs.latch ELSE IF CF("WSTERM") THEN {"BRDDAT6"} ELSE {}
<1>1. ManualTermination = [stpwen |-> s, latch |-> l]
  BY Zenon DEF ManualTermination
<1> HIDE DEF s, l
<1>2. ManualTermination.stpwen = s /\ ManualTermination.latch = l
  BY <1>1
<1> QED
  BY <1>2, Zenon DEF s, l

\* What check_extport makes of the words and of the cables.
LEMMA TerminationFound ==
    ASSUME SoundBoard(board), softc.features = Feats, FromEeprom,
           "INT50_SPEEDFLEX" \in softc.flags <=> board.speedflex,
           ~board.wide => "BRDDAT6" \notin regs.latch,
           NEW t, t = IF ~Has("SPIOCAP") \/ board.logic THEN configure_termination
                      ELSE [stpwen |-> CF("STERM"), latch |-> regs.latch]
    PROVE  /\ Ends(t.stpwen, t.latch)
           /\ ~board.wide => "BRDDAT6" \notin t.latch
<1> DEFINE cables == board.cables \ ((IF board.wide THEN {} ELSE {"int68"})
                                     \cup (IF board.speedflex THEN {"int50"} ELSE {}))
           many == Cardinality(cables) = 3
           hand == (board.chip = "aic7850" /\ ~board.logic) \/ ~CF("AUTOTERM")
<1>1. /\ (Has("ULTRA2") <=> Newer) /\ (Has("NEW_TERMCTL") <=> Newer) /\ (Has("WIDE") <=> board.wide)
      /\ (Has("SPIOCAP") <=> board.chip = "aic7850")
  BY FeatureFacts
<1>2. /\ board.cables \subseteq {"int50", "int68", "ext"} /\ {board.wide, board.logic, board.speedflex} \subseteq BOOLEAN
      /\ (board.chip = "aic7850" => ~board.wide)
      /\ (board.speedflex => board.wide /\ ~{"int68", "ext"} \subseteq board.cables)
      /\ (Newer => board.wide)
  BY DEF SoundBoard, Newer
<1>3. cables \subseteq {"int50", "int68", "ext"}
  BY <1>2
<1>4. /\ Cardinality(cables) \in Nat
      /\ many <=> cables = {"int50", "int68", "ext"}
      /\ "int50" \notin cables /\ ~{"int68", "ext"} \subseteq cables => Cardinality(cables) < 2
  BY <1>3, FewCables
<1>5. CASE Newer
  <2>1. t = AutoTermination
    BY <1>1, <1>5 DEF configure_termination, Newer
  <2>2. Connectors = {"int68", "ext"}
    <3> DEFINE found == CASE Has("NEW_TERMCTL") -> {"int68", "ext"}
                          [] Has("SPIOCAP")     -> aic785X_cable_detect
                          [] OTHER              -> aic787X_cable_detect
               usable == (found \ (IF Has("WIDE") THEN {} ELSE {"int68"}))
                            \ (IF "INT50_SPEEDFLEX" \in softc.flags THEN {"int50"} ELSE {})
    <3>1. Connectors = IF ~Has("ULTRA2") /\ Cardinality(usable) = 3 THEN {} ELSE usable
      BY Zenon DEF Connectors
    <3>2. found = {"int68", "ext"}
      BY <1>1, <1>5 DEF Newer
    <3> HIDE DEF found
    <3>3. usable = {"int68", "ext"}
      BY <1>1, <1>2, <1>5, <3>2
    <3> QED
      BY <1>1, <1>5, <3>1, <3>3
  <2>3. ~(Cardinality(Connectors) < 2)
    <3>1. {"int68", "ext"} \subseteq {"int50", "int68", "ext"}
      OBVIOUS
    <3>2. Cardinality({"int68", "ext"}) = 2
      BY <3>1, FewCables
    <3> QED
      BY <2>2, <3>2
  <2>4. Pins({}) = board.sense
    BY <1>1, <1>5 DEF Pins
  <2>5. \A a, b, m : Enable(a, b, m) = (IF CF(a) THEN b \in board.sense ELSE CF(m))
    BY <1>1, <1>5, <2>4 DEF Enable, CF
  <2> DEFINE sec_high == Enable("SEAUTOTERM", "BRDDAT6", "SEHIGHTERM")
             sec_low  == Enable("SEAUTOTERM", "BRDDAT5", "SELOWTERM")
             pri_high == Enable("AUTOTERM", "BRDDAT4", "WSTERM")
             pri_low  == Enable("AUTOTERM", "BRDDAT3", "STERM")
  <2>6. /\ t.stpwen = pri_low
        /\ "BRDDAT6" \in t.latch <=> sec_high
        /\ "BRDDAT5" \in t.latch <=> sec_low
        /\ "BRDDAT4" \in t.latch <=> pri_high
    <3>1. pri_low \in BOOLEAN
      BY DEF Enable
    <3> QED
      BY <1>1, <1>2, <1>5, <2>1, <2>2, <2>3, <3>1, AutoParts
  <2>7. /\ sec_high = (IF CF("SEAUTOTERM") THEN "BRDDAT6" \in board.sense ELSE CF("SEHIGHTERM"))
        /\ sec_low = (IF CF("SEAUTOTERM") THEN "BRDDAT5" \in board.sense ELSE CF("SELOWTERM"))
        /\ pri_high = (IF CF("AUTOTERM") THEN "BRDDAT4" \in board.sense ELSE CF("WSTERM"))
        /\ pri_low = (IF CF("AUTOTERM") THEN "BRDDAT3" \in board.sense ELSE CF("STERM"))
    BY <2>5, Zenon
  <2>8. {sec_high, sec_low, pri_high} \subseteq BOOLEAN
    BY DEF Enable
  <2> HIDE DEF sec_high, sec_low, pri_high, pri_low
  <2>9. /\ t.stpwen = (IF CF("AUTOTERM") THEN "BRDDAT3" \in board.sense ELSE CF("STERM"))
        /\ ("BRDDAT4" \in t.latch) = (IF CF("AUTOTERM") THEN "BRDDAT4" \in board.sense
                                      ELSE CF("WSTERM"))
        /\ ("BRDDAT5" \in t.latch) = (IF CF("SEAUTOTERM") THEN "BRDDAT5" \in board.sense
                                      ELSE CF("SELOWTERM"))
        /\ ("BRDDAT6" \in t.latch) = (IF CF("SEAUTOTERM") THEN "BRDDAT6" \in board.sense
                                      ELSE CF("SEHIGHTERM"))
    BY <2>6, <2>7, <2>8
  <2> QED
    BY <1>2, <1>5, <2>9 DEF Ends
<1>6. CASE ~Newer /\ hand
  <2>1. t.stpwen = CF("STERM")
        /\ t.latch = (IF ~board.wide THEN regs.latch ELSE IF CF("WSTERM") THEN {"BRDDAT6"} ELSE {})
    <3>1. CASE board.chip = "aic7850" /\ ~board.logic
      BY <1>1, <1>2, <3>1
    <3>2. CASE ~(board.chip = "aic7850" /\ ~board.logic)
      BY <1>1, <1>6, <3>2, ManualParts DEF configure_termination
    <3> QED
      BY <3>1, <3>2
  <2>2. ("BRDDAT6" \in t.latch) = (board.wide /\ CF("WSTERM"))
    BY <1>2, <2>1
  <2>3. t.stpwen = CF("STERM") /\ (~board.wide => "BRDDAT6" \notin t.latch)
    BY <2>1
  <2> QED
    BY <1>6, <2>2, <2>3 DEF Ends
<1>7. CASE ~Newer /\ ~hand
  <2>1. t = AutoTermination
    BY <1>1, <1>7 DEF configure_termination
  <2>2. Connectors = IF many THEN {} ELSE cables
    BY <1>7, CablesSeen
  <2> HIDE DEF cables
  <2>3. \A a, b, m : Enable(a, b, m) = FALSE
    BY <1>1, <1>7 DEF Enable
  <2>4. Cardinality({}) = 0
    BY FS_EmptySet
  <2>5. Cardinality(Connectors) < 2 <=> many \/ Cardinality(cables) < 2
    BY <2>2, <2>4
  <2>6. /\ t.stpwen = (Cardinality(Connectors) < 2)
        /\ "BRDDAT6" \in t.latch <=> board.wide /\ ~{"ext", "int68"} \subseteq Connectors
    BY <1>1, <1>7, <2>1, <2>3, AutoParts
  <2>7. board.speedflex => Cardinality(cables) < 2
    BY <1>2, <1>4 DEF cables
  <2>8. t.stpwen = (board.speedflex \/ many \/ Cardinality(cables) < 2)
    BY <1>2, <2>5, <2>6, <2>7
  <2>9. ("BRDDAT6" \in t.latch) = (board.wide /\ (many \/ ~{"ext", "int68"} \subseteq cables))
    BY <1>2, <2>2, <2>6
  <2> QED
    BY <1>7, <2>6, <2>8, <2>9 DEF Ends, cables
<1> QED
  BY <1>5, <1>6, <1>7

-----------------------------------------------------------------------------
(* The external SRAM is probed before it is used.                          *)

LEMMA LeastOf ==
    ASSUME NEW a \in Nat
    PROVE  Min({AHC_SCB_MAX, a}) = IF a < 255 THEN a ELSE 255
<1>1. CASE a < 255
  <2>1. a \in {AHC_SCB_MAX, a} /\ {AHC_SCB_MAX, a} \subseteq Int
        /\ \A x \in {AHC_SCB_MAX, a} : a <= x
    BY <1>1 DEF AHC_SCB_MAX
  <2> QED
    BY <1>1, <2>1, MinIs
<1>2. CASE a >= 255
  <2>1. 255 \in {AHC_SCB_MAX, a} /\ {AHC_SCB_MAX, a} \subseteq Int
        /\ \A x \in {AHC_SCB_MAX, a} : 255 <= x
    BY <1>2 DEF AHC_SCB_MAX
  <2> QED
    BY <1>2, <2>1, MinIs
<1> QED
  BY <1>1, <1>2

LEMMA ScbsSeen ==
    ASSUME SoundBoard(board), NEW c \in RamType
    PROVE  /\ FastTiming(c) /\ ~board.ram.fast => ahc_probe_scbs(c) = 0
           /\ ~c.fast /\ ~c.large /\ ahc_probe_scbs(c) # 0 => board.ram.scbs > 0
           /\ c.large /\ ahc_probe_scbs(c) >= 64 => board.ram.scbs >= 128
<1>0. ~c.fast => ~FastTiming(c)
  BY DEF FastTiming
<1>1. board.ram.scbs \in Nat
  BY DEF SoundBoard
<1>2. board.ram.scbs \div 2 \in Nat
  BY <1>1
<1>3. ahc_probe_scbs(c) = IF FastTiming(c) /\ ~board.ram.fast THEN 0
                          ELSE IF c.large
                               THEN (IF board.ram.scbs \div 2 < 255 THEN board.ram.scbs \div 2 ELSE 255)
                               ELSE (IF board.ram.scbs < 255 THEN board.ram.scbs ELSE 255)
  BY <1>1, <1>2, LeastOf DEF ahc_probe_scbs
<1>4. ASSUME c.large, ahc_probe_scbs(c) >= 64, ~(FastTiming(c) /\ ~board.ram.fast)
      PROVE  board.ram.scbs >= 128
  <2>1. board.ram.scbs \div 2 >= 64
    BY <1>2, <1>3, <1>4
  <2> QED
    BY <1>1, <2>1
<1>5. c.large /\ ahc_probe_scbs(c) >= 64 => board.ram.scbs >= 128
  BY <1>3, <1>4
<1> QED
  BY <1>0, <1>1, <1>3, <1>5

RamOf(e, p, f, l) == [enable |-> e, pcheck |-> p, fast |-> f, large |-> l]

LEMMA RamFound ==
    ASSUME SoundBoard(board), softc.features = Feats
    PROVE  LET ram == ahc_probe_ext_scbram
           IN  /\ ram.enable => board.ram.single /\ board.ram.scbs > 0
               /\ ram.fast /\ ~Newer => board.ram.fast
               /\ ram.pcheck => board.ram.parity
<1> DEFINE yes    == TRUE
           no     == FALSE
           slow   == [NoRam EXCEPT !.enable = yes]
           check  == [slow EXCEPT !.pcheck = yes]
           m      == ~Mparerr(check)
           parity == [slow EXCEPT !.pcheck = m]
           quick  == [parity EXCEPT !.fast = yes]
           speed  == IF ahc_probe_scbs(quick) = ahc_probe_scbs(check) /\ ~Mparerr(quick)
                     THEN quick ELSE parity
           big    == [speed EXCEPT !.large = yes]
           none   == ~ahc_ext_scbram_present \/ ahc_probe_scbs(slow) = 0
<1>1. ahc_probe_ext_scbram =
        IF none THEN NoRam
        ELSE IF Has("LARGE_SCBS") /\ ahc_probe_scbs(big) >= ahc_probe_scbs(check)
             THEN big ELSE speed
  BY DEF ahc_probe_ext_scbram
<1>2. NoRam = RamOf(no, no, no, no)
  BY Zenon DEF NoRam, RamOf
<1>3. yes \in BOOLEAN /\ no \in BOOLEAN /\ yes /\ ~no
  OBVIOUS
<1> HIDE DEF yes, no
<1>4. slow = RamOf(yes, no, no, no)
  BY <1>2 DEF RamOf
<1> HIDE DEF slow
<1>5. check = RamOf(yes, yes, no, no)
  BY <1>4 DEF RamOf
<1>6. m = board.ram.parity
  <2>1. check.pcheck = yes /\ check.fast = no
    BY <1>5 DEF RamOf
  <2>2. board.ram.parity \in BOOLEAN
    BY DEF SoundBoard
  <2> QED
    BY <1>3, <2>1, <2>2 DEF Mparerr, FastTiming
<1>7. m \in BOOLEAN
  OBVIOUS
<1> HIDE DEF m
<1>8. parity = RamOf(yes, m, no, no)
  BY <1>4 DEF RamOf
<1> HIDE DEF parity
<1>9. quick = RamOf(yes, m, yes, no)
  BY <1>8 DEF RamOf
<1>10. slow \in RamType /\ check \in RamType /\ quick \in RamType
  BY <1>4, <1>5, <1>7, <1>9, <1>3 DEF RamOf, RamType
<1> HIDE DEF quick, check
<1>11. ahc_probe_scbs(check) = ahc_probe_scbs(slow)
  <2>1. slow.fast = no /\ check.fast = no /\ slow.large = no /\ check.large = no
    BY <1>4, <1>5 DEF RamOf
  <2> QED
    BY <1>3, <2>1 DEF ahc_probe_scbs, FastTiming
<1>12. ~none => ahc_probe_scbs(check) # 0 /\ board.ram.scbs > 0 /\ board.ram.single
  <2>1. ~slow.fast /\ ~slow.large
    BY <1>4, <1>3 DEF RamOf
  <2> QED
    BY <1>10, <1>11, <2>1, ScbsSeen DEF ahc_ext_scbram_present
<1>13. ~none /\ ~board.ram.fast /\ ~Newer => speed = parity
  <2>1. quick.fast
    BY <1>9, <1>3 DEF RamOf
  <2>2. ~Newer => FastTiming(quick)
    BY <2>1, FeatureFacts DEF FastTiming
  <2> QED
    BY <1>10, <1>12, <2>2, ScbsSeen
<1>14. \/ speed = parity
       \/ speed = quick
  OBVIOUS
<1> HIDE DEF speed
<1>15. /\ speed.pcheck = m /\ speed.enable = yes
       /\ ~none /\ speed.fast /\ ~Newer => board.ram.fast
       /\ DOMAIN speed = {"enable", "pcheck", "fast", "large"}
  <2>1. CASE speed = parity
    <3>1. speed.pcheck = m /\ speed.enable = yes /\ speed.fast = no
          /\ DOMAIN speed = {"enable", "pcheck", "fast", "large"}
      BY <1>8, <2>1 DEF RamOf
    <3> QED
      BY <1>3, <3>1
  <2>2. CASE speed = quick /\ speed # parity
    <3>1. speed.pcheck = m /\ speed.enable = yes
          /\ DOMAIN speed = {"enable", "pcheck", "fast", "large"}
      BY <1>9, <2>2 DEF RamOf
    <3> QED
      BY <1>3, <1>13, <2>2, <3>1
  <2> QED
    BY <1>14, <2>1, <2>2
<1>16. big.pcheck = speed.pcheck /\ big.fast = speed.fast /\ big.enable = speed.enable
  BY <1>15
<1>17. ~NoRam.enable /\ ~NoRam.fast /\ ~NoRam.pcheck
  BY <1>2, <1>3 DEF RamOf
<1> HIDE DEF none, big
<1> QED
  BY <1>1, <1>6, <1>12, <1>15, <1>16, <1>17

-----------------------------------------------------------------------------
(* What the registers are set up from, stage by stage.                     *)

Late == {"sram", "init", "start", "found", "running", "stopped"}

SpAsked == FromEeprom => CF("SPARITY")

TermBit   == "TERM_ENB_A" \in softc.flags
AsEnded   == Ends(TermBit, regs.latch)
LeftEnded == Ends(left.stpwen, regs.latch)

\* What ahc_pci_config remembers of a board as the BIOS left it.
AsLeft == /\ left.oid = IF board.powrdn THEN 7 ELSE board.oid
          /\ left.stpwen = (board.powrdn \/ board.stpwen)
          /\ left.scsiseq = (~board.powrdn /\ board.bios)

\* From the termination and the probe of the SRAM to the chip's registers.
SetUp ==
    /\ ~board.wide => "BRDDAT6" \notin regs.latch
    /\ stage \in {"off", "probe", "reset"} /\ source = "none" =>
          /\ regs.latch = {} /\ regs.stpwen = board.stpwen /\ regs.scsiid = board.oid
          /\ regs.powrdn = board.powrdn /\ regs.scsiseq = board.bios
    /\ stage \in {"seeprom", "scratch", "settle"} /\ source = "none" => AsLeft /\ regs.latch = {}
    /\ stage \in {"probe", "reset", "seeprom", "scratch", "parse", "terminate", "settle", "sram"}
          => "SCB_BTT" \notin softc.flags
    /\ stage \in {"terminate", "settle"} => ~TermBit
    /\ stage = "terminate" => ("INT50_SPEEDFLEX" \in softc.flags <=> board.speedflex)
    /\ stage \in {"terminate", "settle"} /\ FromEeprom =>
          softc.our_id = board.id /\ sram.parity = CF("SPARITY")
    /\ stage = "settle" /\ FromEeprom => LeftEnded
    /\ stage \in Late => /\ softc.our_id = IdAsked /\ sram.parity = SpAsked
                         /\ AsEnded
    /\ stage \in {"init", "start", "found", "running", "stopped"} => RamIsUsable
    /\ stage \in {"found", "running"} =>
          /\ regs.scsiid = softc.our_id /\ regs.parity = sram.parity
          /\ regs.stpwen = TermBit

LEMMA InitSetUp ==
    ASSUME SoundBoard(board), Powered
    PROVE  SetUp
<1>1. board.bios \in BOOLEAN
  BY DEF SoundBoard
<1>2. /\ stage = "off" /\ source = "none" /\ regs.latch = {} /\ regs.stpwen = board.stpwen
      /\ regs.scsiid = board.oid /\ regs.powrdn = board.powrdn /\ regs.scsiseq = board.bios
  BY DEF Powered
<1> QED
  BY <1>2 DEF SetUp, Late, FromEeprom

LEMMA SetUpMeans ==
    ASSUME SetUp, Staged
    PROVE  RunsAsAsked
<1> SUFFICES ASSUME stage = "running" PROVE RunsAsAsked
  BY DEF RunsAsAsked
<1>1. /\ regs.scsiid = IdAsked /\ regs.parity = SpAsked
      /\ Ends(regs.stpwen, regs.latch) /\ RamIsUsable
  BY DEF SetUp, Late, AsEnded
<1>2. SpAsked = (source \in {"seeprom", "adpt"} => CF("SPARITY"))
  BY DEF SpAsked, FromEeprom
<1> QED
  BY <1>1, <1>2, EndsAsAsked DEF RunsAsAsked

\* What the definitions above depend on.
LEMMA SameAsked ==
    ASSUME board' = board, source' = source
    PROVE  /\ IdAsked' = IdAsked /\ SpAsked' = SpAsked
           /\ RamIsUsable /\ softc'.ram = softc.ram
                 /\ ("SCB_BTT" \in softc'.flags => "SCB_BTT" \in softc.flags) => RamIsUsable'
           /\ AsLeft /\ left' = left => AsLeft'
           /\ AsEnded /\ TermBit' = TermBit /\ regs'.latch = regs.latch => AsEnded'
           /\ LeftEnded /\ TermBit' = left.stpwen /\ regs'.latch = regs.latch => AsEnded'
           /\ LeftEnded /\ left' = left /\ regs'.latch = regs.latch => LeftEnded'
<1>1. IdAsked' = IdAsked /\ SpAsked' = SpAsked
  BY DEF IdAsked, SpAsked, FromEeprom, CF
<1>2. RamIsUsable /\ softc'.ram = softc.ram
        /\ ("SCB_BTT" \in softc'.flags => "SCB_BTT" \in softc.flags) => RamIsUsable'
  BY Zenon DEF RamIsUsable, Newer
<1>3. AsLeft /\ left' = left => AsLeft'
  BY DEF AsLeft
<1> HIDE DEF TermBit
<1>4. AsEnded /\ TermBit' = TermBit /\ regs'.latch = regs.latch => AsEnded'
  BY Zenon DEF AsEnded, Ends, FromEeprom, CF, Newer
<1>5. LeftEnded /\ TermBit' = left.stpwen /\ regs'.latch = regs.latch => AsEnded'
  BY Zenon DEF AsEnded, LeftEnded, Ends, FromEeprom, CF, Newer
<1>6. LeftEnded /\ left' = left /\ regs'.latch = regs.latch => LeftEnded'
  BY Zenon DEF LeftEnded, Ends, FromEeprom, CF, Newer
<1> QED
  BY <1>1, <1>2, <1>3, <1>4, <1>5, <1>6

-----------------------------------------------------------------------------
(* One step of the start of day, or of a stop and a restart.               *)

\* The registers as the chip is initialised, and as it is reset.
LEMMA ChipWritten ==
    ASSUME NEW r \in RegsType, softc \in SoftcType, sram \in SramType
    PROVE  /\ ChipRegs(r).scsiid = softc.our_id /\ ChipRegs(r).parity = sram.parity
           /\ ChipRegs(r).stpwen = TermBit /\ ChipRegs(r).latch = r.latch
<1> DEFINE t == TermBit
<1>1. ChipRegs(r) = [r EXCEPT !.scsiid = softc.our_id, !.parity = sram.parity, !.stpwen = t,
                              !.scsiseq = TRUE, !.inten = softc.unpause]
  BY Zenon DEF ChipRegs, TermBit
<1> HIDE DEF t
<1>2. /\ ChipRegs(r).scsiid = softc.our_id /\ ChipRegs(r).parity = sram.parity
      /\ ChipRegs(r).stpwen = t /\ ChipRegs(r).latch = r.latch
  BY <1>1 DEF RegsType
<1> QED
  BY <1>2 DEF t

LEMMA ResetKeeps ==
    ASSUME regs \in RegsType
    PROVE  AfterReset.latch = regs.latch
  BY DEF AfterReset, RegsType

LEMMA StepSetUp ==
    ASSUME Types, SoundBoard(board), Staged, SetUp, Reload \subseteq {"seeprom"},
           LostInSleep = {}, [Next]_vars
    PROVE  SetUp'
<1>0. /\ softc \in SoftcType /\ sram \in SramType /\ regs \in RegsType /\ left \in LeftType
      /\ source \in {"none", "seeprom", "adpt", "bios", "defaults"}
  BY DEF Types, TypeOK
<1> USE DEF Late
<1>1. CASE HwFindAdapter
  <2>1. /\ stage = "off" /\ stage' = "probe" /\ board' = board /\ source' = source
        /\ regs' = regs
    BY <1>1 DEF HwFindAdapter
  <2>2. softc'.flags = (IF board.chip \in {"aic7890", "aic7892"} THEN {"NEWEEPROM_FMT"} ELSE {})
                 \cup (IF board.speedflex THEN {"INT50_SPEEDFLEX"} ELSE {})
                 \cup (IF board.multi THEN {"LARGE_SEEPROM"} ELSE {})
    BY <1>0, <1>1 DEF HwFindAdapter, SoftcType
  <2>3. "SCB_BTT" \notin softc'.flags
    BY <2>2
  <2> QED
    BY <2>1, <2>3 DEF SetUp
<1>2. CASE ahc_pci_test_register_access
  <2>1. /\ stage = "probe" /\ stage' \in {"reset", "refused"} /\ board' = board
        /\ source' = source
    BY <1>2 DEF ahc_pci_test_register_access
  <2>2. softc'.flags = softc.flags \cup (IF regs.chiprst THEN {"NO_BIOS_INIT"} ELSE {})
    BY <1>0, <1>2 DEF ahc_pci_test_register_access, SoftcType
  <2>3. /\ regs'.latch = regs.latch /\ regs'.stpwen = regs.stpwen /\ regs'.scsiid = regs.scsiid
        /\ regs'.powrdn = regs.powrdn /\ regs'.scsiseq = regs.scsiseq
    BY <1>0, <1>2 DEF ahc_pci_test_register_access, RegsType
  <2>4. "SCB_BTT" \notin softc'.flags
    BY <2>1, <2>2 DEF SetUp
  <2> QED
    BY <2>1, <2>3, <2>4 DEF SetUp
<1>3. CASE RememberAndReset
  <2>1. /\ stage = "reset" /\ stage' \in {"scratch", "seeprom"} /\ board' = board
        /\ source' = source /\ regs' = AfterReset
        /\ left' = IF regs.powrdn THEN [oid |-> 7, stpwen |-> TRUE, scsiseq |-> FALSE]
                   ELSE [oid |-> regs.scsiid, stpwen |-> regs.stpwen, scsiseq |-> regs.scsiseq]
    BY <1>3 DEF RememberAndReset
  <2>2. softc'.flags = softc.flags
    BY <1>0, <1>3 DEF RememberAndReset, SoftcType
  <2>3. regs'.latch = regs.latch
    BY <1>0, <2>1, ResetKeeps
  <2>4. source = "none" => AsLeft'
    <3> SUFFICES ASSUME source = "none" PROVE AsLeft'
      OBVIOUS
    <3>1. /\ regs.stpwen = board.stpwen /\ regs.scsiid = board.oid
          /\ regs.powrdn = board.powrdn /\ regs.scsiseq = board.bios
      BY <2>1 DEF SetUp
    <3>2. {board.powrdn, board.stpwen, board.bios} \subseteq BOOLEAN
      BY DEF SoundBoard
    <3>3. CASE regs.powrdn
      BY <2>1, <3>1, <3>2, <3>3 DEF AsLeft
    <3>4. CASE ~regs.powrdn
      BY <2>1, <3>1, <3>2, <3>4 DEF AsLeft
    <3> QED
      BY <3>3, <3>4
  <2> QED
    BY <2>1, <2>2, <2>3, <2>4 DEF SetUp
<1>4. CASE ReadSeeprom
  <2>1. /\ stage = "seeprom" /\ stage' \in {"parse", "scratch", "seeprom"} /\ board' = board
        /\ softc' = softc /\ regs' = regs /\ left' = left
        /\ source' = "none" => source = "none"
    BY <1>4 DEF ReadSeeprom
  <2>2. source' = "none" => (AsLeft => AsLeft')
    BY <2>1 DEF AsLeft
  <2> QED
    BY <2>1, <2>2 DEF SetUp
<1>5. CASE ReadScratchCopy
  <2>1. /\ stage = "scratch" /\ stage' \in {"parse", "settle"} /\ board' = board
        /\ regs' = regs /\ left' = left
        /\ stage' = "settle" => source' = source
    BY <1>5 DEF ReadScratchCopy
  <2>2. softc'.flags \in {softc.flags, softc.flags \cup {"USEDEFAULTS"}}
    BY <1>0, <1>5 DEF ReadScratchCopy, SoftcType
  <2>3. source = "none"
    BY <1>0, <2>1 DEF Staged, Early, FromEeprom
  <2>4. AsLeft => AsLeft'
    BY <2>1 DEF AsLeft
  <2>5. stage' = "settle" => ~FromEeprom' /\ "SCB_BTT" \notin softc'.flags /\ ~TermBit'
    BY <2>1, <2>2, <2>3 DEF FromEeprom, SetUp, TermBit, Staged, FlagsFresh
  <2>6. "SCB_BTT" \notin softc'.flags
    BY <2>1, <2>2 DEF SetUp
  <2> QED
    BY <2>1, <2>2, <2>3, <2>4, <2>5, <2>6 DEF SetUp
<1>6. CASE ahc_parse_pci_eeprom
  <2>1. /\ stage = "parse" /\ stage' = "terminate" /\ board' = board /\ source' = source
        /\ regs' = regs
    BY <1>6 DEF ahc_parse_pci_eeprom
  <2>2. softc'.our_id = board.id
        /\ softc'.flags = softc.flags \cup (IF NewFormat /\ CF("ULTRAEN") THEN {"NEWEEPROM_FMT"} ELSE {})
    BY <1>0, <1>6 DEF ahc_parse_pci_eeprom, SoftcType
  <2>3. sram'.parity = CF("SPARITY")
    <3> DEFINE p == CF("SPARITY")
    <3>1. sram'.parity = p
      BY <1>0, <1>6 DEF ahc_parse_pci_eeprom, SramType
    <3> QED
      BY <3>1
  <2>4. CF("SPARITY")' = CF("SPARITY")
    BY <2>1 DEF CF
  <2>5. FlagsFresh /\ "SCB_BTT" \notin softc.flags
    BY <2>1 DEF Staged, SetUp
  <2>6. "SCB_BTT" \notin softc'.flags /\ ~TermBit'
        /\ ("INT50_SPEEDFLEX" \in softc'.flags <=> board.speedflex)
    BY <2>2, <2>5 DEF FlagsFresh, TermBit
  <2> QED
    BY <2>1, <2>2, <2>3, <2>4, <2>6 DEF SetUp
<1>7. CASE Terminate
  <2> DEFINE autoterm == ~Has("SPIOCAP") \/ board.logic
             t == IF autoterm THEN configure_termination
                  ELSE [stpwen |-> CF("STERM"), latch |-> regs.latch]
             e == IF autoterm THEN t.stpwen ELSE regs.stpwen
  <2>1. /\ stage = "terminate" /\ stage' = "settle" /\ board' = board /\ source' = source
        /\ softc' = softc /\ sram' = sram
    BY <1>7 DEF Terminate
  <2>2. /\ left' = [left EXCEPT !.stpwen = t.stpwen]
        /\ regs' = [regs EXCEPT !.latch = t.latch, !.stpwen = e]
    BY <1>7 DEF Terminate
  <2>3. /\ FromEeprom /\ softc.features = Feats
        /\ ("INT50_SPEEDFLEX" \in softc.flags <=> board.speedflex)
        /\ (~board.wide => "BRDDAT6" \notin regs.latch)
    BY <2>1 DEF Staged, SetUp, Early
  <2>4. Ends(t.stpwen, t.latch) /\ (~board.wide => "BRDDAT6" \notin t.latch)
    BY <2>3, TerminationFound
  <2> HIDE DEF t, e
  <2>5. left'.stpwen = t.stpwen /\ regs'.latch = t.latch
    BY <1>0, <2>2 DEF LeftType, RegsType
  <2>6. FromEeprom' /\ source' # "none"
    BY <2>1, <2>3 DEF FromEeprom
  <2>7. LeftEnded'
    BY <2>1, <2>4, <2>5, Zenon DEF LeftEnded, Ends, FromEeprom, CF, Newer
  <2>8. ~TermBit' /\ CF("SPARITY")' = CF("SPARITY")
    BY <2>1 DEF SetUp, TermBit, CF
  <2> QED
    BY <2>1, <2>3, <2>4, <2>5, <2>6, <2>7, <2>8 DEF SetUp
<1>8. CASE Settle
  <2> DEFINE defaults == "USEDEFAULTS" \in softc.flags
             bios == defaults /\ "NO_BIOS_INIT" \notin softc.flags /\ left.scsiseq
             alone == defaults /\ ~bios
             stpwen == alone \/ left.stpwen
             p == defaults \/ sram.parity
             f == (softc.flags \ (IF bios THEN {"USEDEFAULTS"} ELSE {}))
                           \cup (IF stpwen THEN {"TERM_ENB_A"} ELSE {})
             d == CASE alone -> 7 [] bios -> left.oid [] OTHER -> softc.our_id
  <2>1. /\ stage = "settle" /\ stage' = "sram" /\ board' = board /\ regs' = regs
        /\ source' = IF alone THEN "defaults" ELSE IF bios THEN "bios" ELSE source
    BY <1>8 DEF Settle
  <2>2. sram' = [sram EXCEPT !.parity = p] /\ softc' = [softc EXCEPT !.our_id = d, !.flags = f]
    BY <1>8, Zenon DEF Settle
  <2>3. ~TermBit /\ "SCB_BTT" \notin softc.flags
    BY <2>1 DEF SetUp
  <2>4. ("TERM_ENB_A" \in f <=> stpwen) /\ "SCB_BTT" \notin f
    BY <2>3 DEF TermBit
  <2>5. d = IF alone THEN 7 ELSE IF bios THEN left.oid ELSE softc.our_id
    OBVIOUS
  <2>6. defaults <=> source = "none"
    BY <2>1 DEF Staged
  <2>7. p \in BOOLEAN /\ defaults \in BOOLEAN /\ bios \in BOOLEAN /\ alone \in BOOLEAN
        /\ stpwen \in BOOLEAN
    BY <1>0 DEF LeftType
  <2>8. source \in {"none", "seeprom", "adpt"}
    BY <2>1 DEF Staged
  <2> HIDE DEF f, d
  <2>9. /\ softc'.our_id = d /\ softc'.flags = f
    BY <1>0, <2>2 DEF SoftcType
  <2>10. sram'.parity = p
    <3> HIDE DEF p
    <3> QED
      BY <1>0, <2>2 DEF SramType
  <2>11. TermBit' = stpwen
    BY <2>4, <2>7, <2>9 DEF TermBit
  <2>12. ~board.wide => "BRDDAT6" \notin regs.latch
    BY DEF SetUp
  <2>13. CASE source = "none"
    <3>1. AsLeft /\ regs.latch = {}
      BY <2>1, <2>13 DEF SetUp
    <3>2. source' \in {"defaults", "bios"} /\ (source' = "defaults" <=> alone) /\ ~FromEeprom'
      BY <2>1, <2>6, <2>13 DEF FromEeprom
    <3>3. {board.powrdn, board.stpwen, board.bios} \subseteq BOOLEAN
      BY DEF SoundBoard
    <3>4. ~alone => ~board.powrdn /\ left.oid = board.oid /\ left.stpwen = board.stpwen
      BY <2>6, <2>13, <3>1, <3>3 DEF AsLeft
    <3>5. stpwen = (source' = "defaults" \/ board.stpwen)
      BY <2>7, <3>2, <3>3, <3>4
    <3>6. AsEnded'
      BY <2>1, <2>11, <3>1, <3>2, <3>5 DEF AsEnded, Ends
    <3>7. p = TRUE /\ SpAsked' = TRUE
      BY <2>6, <2>13, <3>2 DEF SpAsked
    <3>8. d = IdAsked'
      BY <2>1, <2>5, <2>6, <2>13, <3>2, <3>4 DEF IdAsked
    <3> QED
      BY <2>1, <2>4, <2>9, <2>10, <2>12, <3>2, <3>6, <3>7, <3>8 DEF SetUp
  <2>14. CASE source \in {"seeprom", "adpt"}
    <3>1. ~defaults /\ source' = source /\ FromEeprom /\ FromEeprom' /\ stpwen = left.stpwen
      BY <1>0, <2>1, <2>6, <2>14 DEF FromEeprom, LeftType
    <3>2. softc.our_id = board.id /\ sram.parity = CF("SPARITY") /\ LeftEnded
      BY <2>1, <3>1 DEF SetUp
    <3>3. AsEnded'
      BY <2>1, <2>11, <3>1, <3>2, SameAsked
    <3>4. SpAsked' = CF("SPARITY") /\ IdAsked' = board.id
      BY <2>1, <2>14, <3>1 DEF SpAsked, IdAsked, CF
    <3>5. p = CF("SPARITY") /\ d = board.id
      <4>1. p = sram.parity
        BY <1>0, <3>1 DEF SramType
      <4>2. ~alone /\ ~bios
        BY <3>1
      <4> HIDE DEF p, alone, bios
      <4> QED
        BY <2>5, <3>2, <4>1, <4>2
    <3> QED
      BY <2>1, <2>4, <2>9, <2>10, <2>12, <3>1, <3>3, <3>4, <3>5 DEF SetUp
  <2> QED
    BY <2>8, <2>13, <2>14
<1>9. CASE ProbeRam
  <2> DEFINE ram == ahc_probe_ext_scbram
             f == (softc.flags \ {"LSCBS_ENABLED"})
                \cup (IF ram.large THEN {"LSCBS_ENABLED"} ELSE {})
                \cup (IF ram.large /\ ahc_probe_scbs(ram) >= 64 THEN {"SCB_BTT"} ELSE {})
  <2>1. /\ stage = "sram" /\ stage' = "init" /\ board' = board /\ source' = source
        /\ sram' = sram /\ regs' = regs /\ softc' = [softc EXCEPT !.ram = ram, !.flags = f]
    BY <1>9 DEF ProbeRam
  <2>2. ram \in RamType
    BY RamProbed
  <2>3. /\ ram.enable => board.ram.single /\ board.ram.scbs > 0
        /\ ram.fast /\ ~Newer => board.ram.fast
        /\ ram.pcheck => board.ram.parity
    BY <2>1, RamFound DEF Staged
  <2>4. "SCB_BTT" \notin softc.flags
    BY <2>1 DEF SetUp
  <2>5. ram.large /\ ahc_probe_scbs(ram) >= 64 => board.ram.scbs >= 128
    BY <2>2, ScbsSeen
  <2>6. "SCB_BTT" \in f => ram.large /\ board.ram.scbs >= 128
    BY <2>4, <2>5
  <2>7. "TERM_ENB_A" \in f <=> "TERM_ENB_A" \in softc.flags
    OBVIOUS
  <2> HIDE DEF ram, f
  <2>8. softc'.ram = ram /\ softc'.flags = f /\ softc'.our_id = softc.our_id
    BY <1>0, <2>1 DEF SoftcType
  <2>9. RamIsUsable'
    BY <2>1, <2>3, <2>6, <2>8 DEF RamIsUsable, Newer
  <2>10. TermBit' = TermBit
    BY <2>7, <2>8 DEF TermBit
  <2>11. AsEnded' /\ IdAsked' = IdAsked /\ SpAsked' = SpAsked
    BY <2>1, <2>10, SameAsked DEF SetUp
  <2> QED
    BY <2>1, <2>8, <2>9, <2>11 DEF SetUp
<1>10. CASE ahc_init
  <2>1. /\ stage = "init" /\ stage' = "start" /\ board' = board /\ source' = source
        /\ sram' = sram /\ regs' = regs
    BY <1>10 DEF ahc_init
  <2>2. softc'.flags = softc.flags /\ softc'.ram = softc.ram
        /\ softc'.our_id = IF "USEDEFAULTS" \in softc.flags THEN 7 ELSE softc.our_id
    BY <1>0, <1>10 DEF ahc_init, SoftcType
  <2>3. "USEDEFAULTS" \in softc.flags => IdAsked = 7
    BY <2>1 DEF Staged, IdAsked
  <2>4. TermBit' = TermBit
    BY <2>2 DEF TermBit
  <2>5. AsEnded' /\ IdAsked' = IdAsked /\ SpAsked' = SpAsked /\ RamIsUsable'
    BY <2>1, <2>2, <2>4, SameAsked DEF SetUp
  <2> QED
    BY <2>1, <2>2, <2>3, <2>5 DEF SetUp
<1>11. CASE ahc_chip_init \/ ScsiRestartAdapter
  <2>1. /\ stage \in {"start", "stopped"} /\ stage' = "found" /\ board' = board
        /\ source' = source /\ softc' = softc
        /\ regs' \in {ChipRegs(regs), ChipRegs(AfterReset)}
    BY <1>11 DEF ahc_chip_init, ScsiRestartAdapter
  <2>2. sram'.parity = sram.parity
    BY <1>0, <1>11 DEF ahc_chip_init, ScsiRestartAdapter, SramType
  <2>3. /\ regs'.scsiid = softc.our_id /\ regs'.parity = sram.parity
        /\ regs'.stpwen = TermBit /\ regs'.latch = regs.latch
    <3>1. AfterReset \in RegsType /\ AfterReset.latch = regs.latch
      BY <1>0, Cleared, ResetKeeps
    <3>2. CASE regs' = ChipRegs(regs)
      BY <1>0, <3>2, ChipWritten
    <3>3. CASE regs' = ChipRegs(AfterReset)
      BY <1>0, <3>1, <3>3, ChipWritten
    <3> QED
      BY <2>1, <3>2, <3>3
  <2>4. TermBit' = TermBit
    BY <2>1 DEF TermBit
  <2>5. AsEnded' /\ IdAsked' = IdAsked /\ SpAsked' = SpAsked /\ RamIsUsable'
    BY <2>1, <2>3, <2>4, SameAsked DEF SetUp
  <2> QED
    BY <2>1, <2>2, <2>3, <2>4, <2>5 DEF SetUp
<1>12. CASE Found \/ ScsiStopAdapter
  <2>1. /\ stage \in {"found", "running"} /\ stage' \in {"running", "stopped"}
        /\ board' = board /\ source' = source /\ sram' = sram
    BY <1>12 DEF Found, ScsiStopAdapter
  <2>2. softc'.flags = softc.flags /\ softc'.ram = softc.ram /\ softc'.our_id = softc.our_id
    BY <1>0, <1>12 DEF Found, ScsiStopAdapter, ahc_intr_enable, SoftcType
  <2>3. /\ regs'.scsiid = regs.scsiid /\ regs'.parity = regs.parity
        /\ regs'.stpwen = regs.stpwen /\ regs'.latch = regs.latch
    BY <1>0, <1>12 DEF Found, ScsiStopAdapter, ahc_intr_enable, RegsType
  <2>4. TermBit' = TermBit
    BY <2>2 DEF TermBit
  <2>5. AsEnded' /\ IdAsked' = IdAsked /\ SpAsked' = SpAsked /\ RamIsUsable'
    BY <2>1, <2>2, <2>3, <2>4, SameAsked DEF SetUp
  <2> QED
    BY <2>1, <2>2, <2>3, <2>4, <2>5 DEF SetUp
<1>13. CASE LosePower
  <2>1. /\ stage = "stopped" /\ stage' = stage /\ board' = board /\ source' = source
        /\ softc' = softc
    BY <1>13 DEF LosePower
  <2>2. regs'.latch = regs.latch
    BY <1>0, <1>13 DEF LosePower, RegsType
  <2>3. sram'.parity = sram.parity
    <3>1. sram' = [sram EXCEPT !.parity = sram.parity]
      BY <1>13 DEF LosePower
    <3> QED
      BY <1>0, <3>1 DEF SramType
  <2>4. TermBit' = TermBit
    BY <2>1 DEF TermBit
  <2>5. AsEnded' /\ IdAsked' = IdAsked /\ SpAsked' = SpAsked /\ RamIsUsable'
    BY <2>1, <2>2, <2>4, SameAsked DEF SetUp
  <2> QED
    BY <2>1, <2>2, <2>3, <2>5 DEF SetUp
<1>14. CASE LoadAgain
  <2>1. /\ stage = "stopped" /\ stage' = "off" /\ board' = board /\ source' = source
        /\ source = "seeprom" /\ regs' = regs
    BY <1>14 DEF LoadAgain
  <2> QED
    BY <2>1 DEF SetUp
<1>15. CASE UNCHANGED vars
  <2>1. /\ board' = board /\ stage' = stage /\ source' = source /\ regs' = regs
        /\ left' = left /\ sram' = sram /\ softc' = softc
    BY <1>15 DEF vars
  <2>2. /\ IdAsked' = IdAsked /\ SpAsked' = SpAsked /\ (RamIsUsable => RamIsUsable')
        /\ (AsLeft => AsLeft') /\ (AsEnded => AsEnded') /\ (LeftEnded => LeftEnded')
    BY <2>1, SameAsked DEF TermBit
  <2>3. FromEeprom' = FromEeprom /\ CF("SPARITY")' = CF("SPARITY") /\ TermBit' = TermBit
    BY <2>1 DEF FromEeprom, CF, TermBit
  <2> QED
    BY <2>1, <2>2, <2>3 DEF SetUp
<1> QED
  BY <1>1, <1>2, <1>3, <1>4, <1>5, <1>6, <1>7, <1>8, <1>9, <1>10, <1>11, <1>12, <1>13, <1>14,
     <1>15 DEF Next

-----------------------------------------------------------------------------
(* The aic79xx: what the resets and the initialisation write, by field.    *)

EnableBit == "TERM_ENB_A" \in ahdSoftc.flags
CheckBit  == "SPCHK_ENB_A" \in ahdSoftc.flags
LevelBit  == "STPWLEVEL_A" \in ahdSoftc.flags

AsyncAll == [i \in Targets |-> Ahd!Async]

LEMMA ChipInitFields ==
    ASSUME NEW c \in AhdChipType
    PROVE  LET z == Ahd!ChipInit(c)
           IN  /\ z.id = ahdSoftc.our_id /\ z.stpwen = EnableBit /\ z.spchk = CheckBit
               /\ z.neg = ahdSoftc.curr /\ z.in = 0 /\ z.got = 0 /\ z.have = {}
               /\ z.out = 0 /\ z.valid = TRUE /\ z.next = ahdSoftc.next
               /\ z.level = c.level /\ z.paused = c.paused
<1> DEFINE t == EnableBit
           e == CheckBit
           yes == TRUE
           d == [c EXCEPT !.id = ahdSoftc.our_id, !.stpwen = t, !.spchk = e, !.neg = ahdSoftc.curr]
           z == Ahd!ChipInit(c)
<1>1. z = [d EXCEPT !.in = 0, !.got = 0, !.have = {}, !.out = 0, !.valid = yes,
                    !.next = ahdSoftc.next]
  BY Zenon DEF Ahd!ChipInit, EnableBit, CheckBit
<1> HIDE DEF t, e, z, yes
<1>2. /\ DOMAIN d = DOMAIN c
      /\ d.id = ahdSoftc.our_id /\ d.stpwen = t /\ d.spchk = e /\ d.neg = ahdSoftc.curr
      /\ d.level = c.level /\ d.paused = c.paused
  BY DEF AhdChipType
<1>3. DOMAIN c = {"inten", "paused", "id", "stpwen", "spchk", "level", "neg", "in", "got", "next",
                  "out", "valid", "have"}
  BY DEF AhdChipType
<1> HIDE DEF d
<1>4. /\ z.id = ahdSoftc.our_id /\ z.stpwen = t /\ z.spchk = e
      /\ z.neg = ahdSoftc.curr /\ z.in = 0 /\ z.got = 0 /\ z.have = {}
      /\ z.out = 0 /\ z.valid = yes /\ z.next = ahdSoftc.next
      /\ z.level = c.level /\ z.paused = c.paused
  BY <1>1, <1>2, <1>3
<1> QED
  BY <1>4 DEF z, t, e, yes

LEMMA AfterResetFields ==
    ASSUME NEW c \in AhdChipType
    PROVE  LET z == Ahd!AfterReset(c)
           IN  z.level = c.level /\ z.paused = TRUE
<1> DEFINE yes == TRUE
           z == Ahd!AfterReset(c)
           g == [i \in Targets |-> "unknown"]
<1>1. z = [c EXCEPT !.inten = ahdSoftc.pause, !.paused = yes, !.id = 0, !.neg = g, !.in = 0,
                    !.got = 0, !.have = {}]
  BY Zenon DEF Ahd!AfterReset
<1> HIDE DEF yes, z, g
<1>2. z.level = c.level /\ z.paused = yes
  BY <1>1 DEF AhdChipType
<1> QED
  BY <1>2 DEF z, yes

LEMMA RestartFields ==
    ASSUME NEW c \in AhdChipType
    PROVE  LET z == Ahd!ahd_restart(c)
           IN  /\ z.id = c.id /\ z.stpwen = c.stpwen /\ z.spchk = c.spchk /\ z.level = c.level
               /\ z.neg = c.neg /\ z.in = c.in /\ z.got = c.got /\ z.have = c.have
               /\ z.out = c.out /\ z.valid = c.valid /\ z.next = c.next /\ z.paused = FALSE
<1> DEFINE no == FALSE
           z == Ahd!ahd_restart(c)
<1>1. z = [c EXCEPT !.paused = no, !.inten = ahdSoftc.unpause]
  BY Zenon DEF Ahd!ahd_restart
<1> HIDE DEF no, z
<1>2. /\ z.id = c.id /\ z.stpwen = c.stpwen /\ z.spchk = c.spchk /\ z.level = c.level
      /\ z.neg = c.neg /\ z.in = c.in /\ z.got = c.got /\ z.have = c.have
      /\ z.out = c.out /\ z.valid = c.valid /\ z.next = c.next /\ z.paused = no
  BY <1>1 DEF AhdChipType
<1> QED
  BY <1>2 DEF z, no

LEMMA EmptyFields ==
    ASSUME NEW s \in AhdSoftcType
    PROVE  LET z == Ahd!QueuesEmpty(s)
           IN  /\ z.in = 0 /\ z.out = 0 /\ z.valid = TRUE
               /\ z.flags = s.flags /\ z.our_id = s.our_id /\ z.curr = s.curr
               /\ z.next = s.next /\ z.hscb = s.hscb /\ z.pending = s.pending
<1> DEFINE yes == TRUE
           z == Ahd!QueuesEmpty(s)
<1>1. z = [s EXCEPT !.in = 0, !.out = 0, !.valid = yes]
  BY Zenon DEF Ahd!QueuesEmpty
<1> HIDE DEF yes, z
<1>2. /\ z.in = 0 /\ z.out = 0 /\ z.valid = yes
      /\ z.flags = s.flags /\ z.our_id = s.our_id /\ z.curr = s.curr
      /\ z.next = s.next /\ z.hscb = s.hscb /\ z.pending = s.pending
  BY <1>1 DEF AhdSoftcType
<1> QED
  BY <1>2 DEF z, yes

LEMMA EmptyRing ==
    ASSUME NEW m \in MemoryType
    PROVE  /\ Ahd!RingEmpty(m).link = m.link /\ Ahd!RingEmpty(m).tag = m.tag
           /\ \A i \in Ahd!Ring : Ahd!RingEmpty(m).ring[i].valid = FALSE
<1> DEFINE no == FALSE
           r == [i \in Ahd!Ring |-> [m.ring[i] EXCEPT !.valid = no]]
           z == Ahd!RingEmpty(m)
<1>1. z = [m EXCEPT !.ring = r]
  BY Zenon DEF Ahd!RingEmpty
<1>2. \A i \in Ahd!Ring : r[i].valid = no
  <2> SUFFICES ASSUME NEW i \in Ahd!Ring PROVE r[i].valid = no
    OBVIOUS
  <2>1. m.ring[i] \in EntryType
    BY DEF MemoryType
  <2>2. r[i] = [m.ring[i] EXCEPT !.valid = no]
    OBVIOUS
  <2> HIDE DEF r, no
  <2> QED
    BY <2>1, <2>2 DEF EntryType
<1> HIDE DEF r, z, no
<1>3. z.link = m.link /\ z.tag = m.tag /\ z.ring = r
  BY <1>1 DEF MemoryType
<1> QED
  BY <1>2, <1>3 DEF z, no

\* Aic79xx_HwResetBus, by field.
LEMMA ResetBusFields ==
    ASSUME AhdTypes, Ahd!HwResetBus
    PROVE  LET reset == Ahd!ResetsChipWithBus
           IN  /\ ahdStage = "running" /\ ahdStage' = ahdStage /\ ops' = ops + 1
               /\ ahdSource' = ahdSource /\ sc' = sc /\ latch' = latch /\ ahdBoard' = ahdBoard
               /\ ahdChip'.id = (IF reset THEN ahdSoftc.our_id ELSE ahdChip.id)
               /\ ahdChip'.stpwen = (IF reset THEN EnableBit ELSE ahdChip.stpwen)
               /\ ahdChip'.spchk = (IF reset THEN CheckBit ELSE ahdChip.spchk)
               /\ ahdChip'.level = ahdChip.level /\ ahdChip'.neg = AsyncAll
               /\ ahdChip'.paused = FALSE
               /\ ahdChip'.got = (IF reset THEN 0 ELSE ahdChip.got)
               /\ ahdChip'.in = ahdChip'.got /\ ahdChip'.have = {}
               /\ ahdChip'.next = ahdSoftc.next
               /\ ahdChip'.out = (IF reset THEN 0 ELSE ahdChip.out)
               /\ ahdChip'.valid = (IF reset THEN TRUE ELSE ahdChip.valid)
               /\ ahdSoftc'.in = ahdChip'.in /\ ahdSoftc'.out = ahdChip'.out
               /\ ahdSoftc'.valid = ahdChip'.valid /\ ahdSoftc'.pending = {}
               /\ ahdSoftc'.curr = AsyncAll /\ ahdSoftc'.next = ahdSoftc.next
               /\ ahdSoftc'.hscb = ahdSoftc.hscb /\ ahdSoftc'.flags = ahdSoftc.flags
               /\ ahdSoftc'.our_id = ahdSoftc.our_id
               /\ ahdMemory' = IF reset THEN Ahd!RingEmpty(ahdMemory) ELSE ahdMemory
<1> USE DEF AhdTypes
<1> DEFINE reset == Ahd!ResetsChipWithBus
           ran == [ahdSoftc EXCEPT !.out = ahdChip.out, !.valid = ahdChip.valid]
           c == IF reset THEN Ahd!ChipInit(Ahd!AfterReset(ahdChip)) ELSE ahdChip
           s == IF reset THEN Ahd!QueuesEmpty(ran) ELSE ran
           a == AsyncAll
           d == [c EXCEPT !.in = c.got, !.have = {}, !.next = ahdSoftc.next, !.neg = a]
<1>1. /\ ahdStage = "running" /\ ahdStage' = ahdStage /\ ops' = ops + 1
      /\ ahdSource' = ahdSource /\ sc' = sc /\ latch' = latch /\ ahdBoard' = ahdBoard
      /\ ahdMemory' = IF reset THEN Ahd!RingEmpty(ahdMemory) ELSE ahdMemory
  BY DEF Ahd!HwResetBus, Ahd!Step
<1>2. /\ ahdSoftc' = [s EXCEPT !.in = c.got, !.pending = {}, !.curr = a]
      /\ ahdChip' = Ahd!ahd_restart(d)
  BY Zenon DEF Ahd!HwResetBus, AsyncAll
<1>3. ran \in AhdSoftcType
  BY DEF AhdSoftcType, AhdChipType
<1>4. ran.out = ahdChip.out /\ ran.valid = ahdChip.valid /\ ran.next = ahdSoftc.next
      /\ ran.hscb = ahdSoftc.hscb /\ ran.flags = ahdSoftc.flags /\ ran.our_id = ahdSoftc.our_id
  BY DEF AhdSoftcType
<1>5. a \in [Targets -> Settled]
  BY DEF AsyncAll, Settled
<1> HIDE DEF ran, a
<1>6. Ahd!AfterReset(ahdChip) \in AhdChipType
  BY AhdCleared
<1>7. Ahd!ChipInit(Ahd!AfterReset(ahdChip)) \in AhdChipType
  BY <1>6, AhdInitialised
<1>8. c \in AhdChipType
  BY <1>7
<1>9. s \in AhdSoftcType
  BY <1>3, AhdEmptied DEF MemoryType
<1>10. /\ c.id = (IF reset THEN ahdSoftc.our_id ELSE ahdChip.id)
       /\ c.stpwen = (IF reset THEN EnableBit ELSE ahdChip.stpwen)
       /\ c.spchk = (IF reset THEN CheckBit ELSE ahdChip.spchk)
       /\ c.level = ahdChip.level
       /\ c.got = (IF reset THEN 0 ELSE ahdChip.got)
       /\ c.out = (IF reset THEN 0 ELSE ahdChip.out)
       /\ c.valid = (IF reset THEN TRUE ELSE ahdChip.valid)
  <2>1. CASE reset
    <3>1. c = Ahd!ChipInit(Ahd!AfterReset(ahdChip))
      BY <2>1
    <3> HIDE DEF c, reset
    <3> QED
      BY <1>6, <2>1, <3>1, ChipInitFields, AfterResetFields
  <2>2. CASE ~reset
    <3>1. c = ahdChip
      BY <2>2
    <3> HIDE DEF c, reset
    <3> QED
      BY <2>2, <3>1
  <2> QED
    BY <2>1, <2>2
<1>11. /\ s.out = c.out /\ s.valid = c.valid /\ s.next = ahdSoftc.next
       /\ s.hscb = ahdSoftc.hscb /\ s.flags = ahdSoftc.flags /\ s.our_id = ahdSoftc.our_id
  <2>1. CASE reset
    <3>1. s = Ahd!QueuesEmpty(ran)
      BY <2>1
    <3> HIDE DEF s, c, reset
    <3> QED
      BY <1>3, <1>4, <1>10, <2>1, <3>1, EmptyFields
  <2>2. CASE ~reset
    <3>1. s = ran /\ c = ahdChip
      BY <2>2
    <3> HIDE DEF s, c, reset
    <3> QED
      BY <1>4, <3>1
  <2> QED
    BY <2>1, <2>2
<1> HIDE DEF c, s, reset
<1>12. ahdSoftc.next \in Ahd!Hscbs /\ {} \in SUBSET Ahd!Hscbs
  BY DEF AhdSoftcType
<1>13. d \in AhdChipType
  BY <1>5, <1>8, <1>12 DEF AhdChipType
<1>14. /\ d.id = c.id /\ d.stpwen = c.stpwen /\ d.spchk = c.spchk /\ d.level = c.level
       /\ d.neg = a /\ d.in = c.got /\ d.got = c.got /\ d.have = {} /\ d.out = c.out
       /\ d.valid = c.valid /\ d.next = ahdSoftc.next
  BY <1>8 DEF AhdChipType
<1> HIDE DEF d
<1>15. /\ ahdSoftc'.in = c.got /\ ahdSoftc'.out = s.out
       /\ ahdSoftc'.valid = s.valid /\ ahdSoftc'.pending = {}
       /\ ahdSoftc'.curr = a /\ ahdSoftc'.next = s.next
       /\ ahdSoftc'.hscb = s.hscb /\ ahdSoftc'.flags = s.flags
       /\ ahdSoftc'.our_id = s.our_id
  BY <1>2, <1>9 DEF AhdSoftcType
<1>16. /\ ahdChip'.id = d.id /\ ahdChip'.stpwen = d.stpwen /\ ahdChip'.spchk = d.spchk
       /\ ahdChip'.level = d.level /\ ahdChip'.neg = d.neg /\ ahdChip'.in = d.in
       /\ ahdChip'.got = d.got /\ ahdChip'.have = d.have /\ ahdChip'.out = d.out
       /\ ahdChip'.valid = d.valid /\ ahdChip'.next = d.next /\ ahdChip'.paused = FALSE
  BY <1>2, <1>13, RestartFields
<1> QED
  BY <1>1, <1>10, <1>11, <1>14, <1>15, <1>16, Zenon DEF a, reset

-----------------------------------------------------------------------------
(* The aic79xx: what the chip is set up from, stage by stage.              *)

AhdLate == {"terminate", "init", "found", "running", "stopped"}

CheckAsked == Ahd!FromWords => "SPCHK_ENB_A" \in ahdBoard.control
LevelAsked == Ahd!FromWords => "STPWLEVEL_A" \in ahdBoard.control

\* What TerminationAsked says of the latch and of an enable.
LatchRight(l) ==
    \/ l = ahdBoard.sense
    \/ l \ Ahd!Sensed = Ahd!ByHand /\ l \cap Ahd!Sensed \in {ahdBoard.sense \cap Ahd!Sensed, Ahd!Sensed}
BitRight(t) ==
    t \in {"prilow" \in Ahd!ByHand \cup (ahdBoard.sense \cap Ahd!Sensed),
           "prilow" \in Ahd!ByHand \cup Ahd!Sensed}

\* From the flags and the latch to the chip's registers.
AhdSetUp ==
    /\ ahdStage \in {"setup", "probe", "reset", "seeprom", "scratch", "parse", "defaults"} =>
          CheckBit /\ LevelBit
    /\ ahdStage \notin AhdLate \ {"terminate"} => latch = ahdBoard.sense \/ ahdStage = "refused"
    /\ ahdStage \in AhdLate => (CheckBit <=> CheckAsked) /\ (LevelBit <=> LevelAsked)
    /\ ahdStage \in AhdLate \ {"terminate"} =>
          LatchRight(latch) /\ BitRight(EnableBit) /\ (ahdChip.level <=> LevelBit)
    /\ ahdStage \in {"found", "running"} =>
          /\ ahdChip.id = ahdSoftc.our_id /\ ahdChip.neg = ahdSoftc.curr
          /\ (ahdChip.spchk <=> CheckBit) /\ (ahdChip.stpwen <=> EnableBit)
          /\ ops = 0 => ~ahdChip.paused

LEMMA InitAhdSetUp ==
    ASSUME Ahd!Powered
    PROVE  AhdSetUp
  BY DEF Ahd!Powered, AhdSetUp, AhdLate

LEMMA AhdSetUpMeans ==
    ASSUME AhdTypes, AhdSetUp
    PROVE  Ahd!RunsAsAsked
<1> SUFFICES ASSUME ahdStage = "running" PROVE Ahd!RunsAsAsked
  BY DEF Ahd!RunsAsAsked
<1>1. /\ ahdChip.id = ahdSoftc.our_id /\ ahdChip.neg = ahdSoftc.curr
      /\ (ahdChip.spchk <=> CheckBit) /\ (ahdChip.stpwen <=> EnableBit)
      /\ ops = 0 => ~ahdChip.paused
      /\ LatchRight(latch) /\ BitRight(EnableBit) /\ (ahdChip.level <=> LevelBit)
      /\ (CheckBit <=> CheckAsked) /\ (LevelBit <=> LevelAsked)
  BY DEF AhdSetUp, AhdLate
<1>2. {ahdChip.spchk, ahdChip.level, ahdChip.stpwen} \subseteq BOOLEAN
  BY DEF AhdTypes, AhdChipType
<1>3. ahdChip.spchk = CheckAsked /\ ahdChip.level = LevelAsked
  BY <1>1, <1>2 DEF CheckAsked, LevelAsked
<1>4. ahdChip.stpwen = EnableBit
  BY <1>1, <1>2 DEF EnableBit
<1>5. Ahd!TerminationAsked
  BY <1>1, <1>4 DEF Ahd!TerminationAsked, LatchRight, BitRight
<1> QED
  BY <1>1, <1>3, <1>5 DEF Ahd!RunsAsAsked, CheckAsked, LevelAsked

\* Whether the board answered or not, the halves are sensed, all on, or by hand.
LEMMA TermctlRight ==
    ASSUME SoundAhdBoard(ahdBoard), NEW read \in SUBSET Ahd!Halves, NEW answered \in BOOLEAN,
           answered => read = ahdBoard.sense
    PROVE  LatchRight(Ahd!Termctl(read, answered))
           /\ BitRight("prilow" \in Ahd!Termctl(read, answered))
<1> DEFINE Primary == {"prilow", "prihigh"}
           Second == {"seclow", "sechigh"}
           auto == Ahd!CF("AUTOTERM")
           se == Ahd!CF("SEAUTOTERM")
           manual == Ahd!Chosen({<<"STERM", "prilow">>, <<"WSTERM", "prihigh">>})
           secondary == Ahd!Chosen({<<"SELOWTERM", "seclow">>, <<"SEHIGHTERM", "sechigh">>})
           first == IF ~auto THEN (read \ Primary) \cup manual
                    ELSE IF ~answered THEN Primary ELSE read
           t == Ahd!Termctl(read, answered)
           all == Ahd!Chosen({<<"STERM", "prilow">>, <<"WSTERM", "prihigh">>,
                              <<"SELOWTERM", "seclow">>, <<"SEHIGHTERM", "sechigh">>})
<1>1. t = IF ~se THEN (first \cap Primary) \cup secondary
          ELSE IF ~answered THEN first \cup (Ahd!Halves \ Primary) ELSE first
  BY Zenon DEF Ahd!Termctl
<1>2. /\ Ahd!Halves = Primary \cup Second
      /\ ahdBoard.sense \subseteq Ahd!Halves
  BY DEF Ahd!Halves, SoundAhdBoard
<1>3. /\ manual \subseteq Primary /\ secondary \subseteq Second /\ all = manual \cup secondary
  BY DEF Ahd!Chosen, Ahd!Halves
<1> HIDE DEF manual, secondary, all
<1>4. Ahd!Sensed = (IF auto THEN Primary ELSE {}) \cup (IF se THEN Second ELSE {})
  BY Zenon DEF Ahd!Sensed
<1>5. Ahd!ByHand = all \ Ahd!Sensed
  BY Zenon DEF Ahd!ByHand, all
<1> HIDE DEF auto, se, t
<1>6. Ahd!ByHand = (IF auto THEN {} ELSE manual) \cup (IF se THEN {} ELSE secondary)
  BY <1>3, <1>4, <1>5
<1>7. CASE answered
  <2>1. first = IF ~auto THEN (read \ Primary) \cup manual ELSE read
    BY <1>7
  <2>2. t = IF ~se THEN (first \cap Primary) \cup secondary ELSE first
    BY <1>1, <1>7
  <2> HIDE DEF first
  <2>3. t \ Ahd!Sensed = Ahd!ByHand /\ t \cap Ahd!Sensed = ahdBoard.sense \cap Ahd!Sensed
    BY <1>2, <1>3, <1>4, <1>6, <1>7, <2>1, <2>2
  <2> QED
    BY <2>3 DEF LatchRight, BitRight, t
<1>8. CASE ~answered
  <2>1. first = IF ~auto THEN (read \ Primary) \cup manual ELSE Primary
    BY <1>8
  <2>2. t = IF ~se THEN (first \cap Primary) \cup secondary ELSE first \cup Second
    BY <1>1, <1>2, <1>8
  <2> HIDE DEF first
  <2>3. t \ Ahd!Sensed = Ahd!ByHand /\ t \cap Ahd!Sensed = Ahd!Sensed
    BY <1>2, <1>3, <1>4, <1>6, <2>1, <2>2
  <2> QED
    BY <2>3 DEF LatchRight, BitRight, t
<1> QED
  BY <1>7, <1>8

LEMMA SameAhdAsked ==
    ASSUME ahdBoard' = ahdBoard, ahdSource' = ahdSource
    PROVE  /\ CheckAsked' = CheckAsked /\ LevelAsked' = LevelAsked
           /\ LatchRight(latch) /\ latch' = latch => LatchRight(latch)'
           /\ BitRight(EnableBit) /\ EnableBit' = EnableBit => BitRight(EnableBit)'
<1>1. Ahd!FromWords' = Ahd!FromWords
  BY DEF Ahd!FromWords
<1>2. CheckAsked' = CheckAsked /\ LevelAsked' = LevelAsked
  BY <1>1, Zenon DEF CheckAsked, LevelAsked
<1>3. \A b : Ahd!CF(b)' = Ahd!CF(b)
  BY <1>1, Zenon DEF Ahd!CF
<1>4. Ahd!Sensed' = Ahd!Sensed
  BY <1>3, Zenon DEF Ahd!Sensed
<1>5. Ahd!ByHand' = Ahd!ByHand
  BY <1>1, <1>4, Zenon DEF Ahd!ByHand, Ahd!Chosen, Ahd!CF
<1> HIDE DEF EnableBit
<1> QED
  BY <1>2, <1>4, <1>5, Zenon DEF LatchRight, BitRight

LEMMA StepAhdSetUp ==
    ASSUME AhdTypes, SoundAhdBoard(ahdBoard), AhdStaged, AhdSetUp, [Ahd!Next]_(Ahd!vars),
           LostInSleep = {}, ahdBoard' = ahdBoard
    PROVE  AhdSetUp'
<1> USE DEF AhdTypes, AhdLate
<1>0. /\ ahdSoftc \in AhdSoftcType /\ ahdChip \in AhdChipType /\ ops \in Nat
  BY DEF Ahd!TypeOK, SoundAhdBoard
<1> DEFINE bits == EnableBit' = EnableBit /\ CheckBit' = CheckBit /\ LevelBit' = LevelBit
           same == ahdSource' = ahdSource /\ latch' = latch
<1>1. ASSUME ahdSource' = ahdSource, latch' = latch, ahdSoftc'.flags = ahdSoftc.flags
      PROVE  /\ EnableBit' = EnableBit /\ CheckBit' = CheckBit /\ LevelBit' = LevelBit
             /\ CheckAsked' = CheckAsked /\ LevelAsked' = LevelAsked
             /\ LatchRight(latch) => LatchRight(latch)'
             /\ BitRight(EnableBit) => BitRight(EnableBit)'
  <2>1. EnableBit' = EnableBit /\ CheckBit' = CheckBit /\ LevelBit' = LevelBit
    BY <1>1 DEF EnableBit, CheckBit, LevelBit
  <2> QED
    BY <1>1, <2>1, SameAhdAsked
<1> HIDE DEF EnableBit, CheckBit, LevelBit
<1>2. CASE Ahd!HwFindAdapter
  <2>1. ahdStage' = "setup" /\ latch' = latch /\ ahdStage = "off"
    BY <1>2 DEF Ahd!HwFindAdapter
  <2>2. CheckBit' /\ LevelBit'
    BY <1>0, <1>2 DEF Ahd!HwFindAdapter, CheckBit, LevelBit, AhdSoftcType
  <2> QED
    BY <2>1, <2>2 DEF AhdSetUp
<1>3. CASE Ahd!ahd_aic790X_setup \/ Ahd!ahd_pci_test_register_access \/ Ahd!ReadSeeprom
  <2>1. /\ ahdStage \in {"setup", "probe", "seeprom"}
        /\ ahdStage' \in {"probe", "reset", "refused", "parse", "scratch"}
        /\ latch' = latch /\ ahdSoftc' = ahdSoftc
    BY <1>3 DEF Ahd!ahd_aic790X_setup, Ahd!ahd_pci_test_register_access, Ahd!ReadSeeprom, Ahd!Refuse
  <2>2. CheckBit' = CheckBit /\ LevelBit' = LevelBit
    BY <2>1 DEF CheckBit, LevelBit
  <2> QED
    BY <2>1, <2>2 DEF AhdSetUp
<1>4. CASE Ahd!ahd_reset
  <2>1. ahdStage = "reset" /\ ahdStage' = "seeprom" /\ latch' = latch
    BY <1>4 DEF Ahd!ahd_reset
  <2>2. ahdSoftc'.flags = ahdSoftc.flags
    BY <1>0, <1>4 DEF Ahd!ahd_reset, AhdSoftcType
  <2>3. CheckBit' = CheckBit /\ LevelBit' = LevelBit
    BY <2>2 DEF CheckBit, LevelBit
  <2> QED
    BY <2>1, <2>3 DEF AhdSetUp
<1>5. CASE Ahd!ReadScratchCopy
  <2>1. ahdStage = "scratch" /\ ahdStage' \in {"parse", "defaults"} /\ latch' = latch
    BY <1>5 DEF Ahd!ReadScratchCopy
  <2>2. ahdSoftc.flags \subseteq ahdSoftc'.flags
    BY <1>0, <1>5 DEF Ahd!ReadScratchCopy, AhdSoftcType
  <2>3. CheckBit' /\ LevelBit'
    BY <2>1, <2>2 DEF CheckBit, LevelBit, AhdSetUp
  <2> QED
    BY <2>1, <2>3 DEF AhdSetUp
<1>6. CASE Ahd!ahd_default_config
  <2>1. /\ ahdStage = "defaults" /\ ahdStage' \in {"terminate", "refused"} /\ latch' = latch
        /\ ahdSource' = ahdSource
    BY <1>6 DEF Ahd!ahd_default_config, Ahd!Refuse
  <2>2. ahdSoftc'.flags = ahdSoftc.flags
    <3>1. \/ ahdSoftc' = ahdSoftc
          \/ \E a, b, u : ahdSoftc' = [ahdSoftc EXCEPT !.our_id = 7, !.disc = a, !.tag = b, !.user = u]
      BY <1>6, Zenon DEF Ahd!ahd_default_config, Ahd!Refuse
    <3> QED
      BY <1>0, <3>1 DEF AhdSoftcType
  <2>3. CheckAsked' /\ LevelAsked'
    BY <2>1 DEF AhdStaged, CheckAsked, LevelAsked, Ahd!FromWords
  <2>4. CheckBit' /\ LevelBit'
    BY <2>1, <2>2 DEF CheckBit, LevelBit, AhdSetUp
  <2> QED
    BY <2>1, <2>3, <2>4 DEF AhdSetUp
<1>7. CASE Ahd!ahd_parse_cfgdata
  <2>1. /\ ahdStage = "parse" /\ ahdStage' \in {"terminate", "refused"} /\ latch' = latch
        /\ ahdSource' = ahdSource
    BY <1>7 DEF Ahd!ahd_parse_cfgdata, Ahd!Refuse
  <2>2. Ahd!FromWords'
    BY <2>1 DEF AhdStaged, Ahd!FromWords
  <2>3. ahdStage' = "terminate" =>
           ahdSoftc'.flags = (ahdSoftc.flags \ Ahd!Settable) \cup (ahdBoard.control \cap Ahd!Settable)
    <3> SUFFICES ASSUME ahdStage' = "terminate"
                 PROVE  ahdSoftc'.flags = (ahdSoftc.flags \ Ahd!Settable)
                                             \cup (ahdBoard.control \cap Ahd!Settable)
      OBVIOUS
    <3> DEFINE f == (ahdSoftc.flags \ Ahd!Settable) \cup (ahdBoard.control \cap Ahd!Settable)
    <3>1. \E w, a, b, u : ahdSoftc' = [ahdSoftc EXCEPT !.our_id = w, !.disc = a, !.tag = b, !.user = u,
                                                  !.flags = f]
      BY <1>7, Zenon DEF Ahd!ahd_parse_cfgdata, Ahd!Refuse
    <3> HIDE DEF f
    <3>2. ahdSoftc'.flags = f
      BY <1>0, <3>1 DEF AhdSoftcType
    <3> QED
      BY <3>2 DEF f
  <2>4. ahdStage' = "terminate" => (CheckBit' <=> CheckAsked') /\ (LevelBit' <=> LevelAsked')
    BY <2>2, <2>3 DEF CheckBit, LevelBit, CheckAsked, LevelAsked, Ahd!Settable
  <2> QED
    BY <2>1, <2>4 DEF AhdSetUp
<1>8. CASE Ahd!ahd_configure_termination
  <2>1. ahdStage = "terminate" /\ ahdStage' = "init" /\ ahdSource' = ahdSource
    BY <1>8 DEF Ahd!ahd_configure_termination
  <2>2. PICK answered \in BOOLEAN, written \in BOOLEAN, stack \in SUBSET Ahd!Halves :
          LET termctl == Ahd!Termctl(IF answered THEN ahdBoard.sense ELSE stack, answered)
              low == "prilow" \in termctl
          IN  /\ answered => stack = {}
              /\ ahdSoftc' = [ahdSoftc EXCEPT
                    !.flags = (@ \ {"TERM_ENB_A"}) \cup (IF low THEN {"TERM_ENB_A"} ELSE {})]
              /\ ahdChip' = [ahdChip EXCEPT !.stpwen = low,
                                      !.level = "STPWLEVEL_A" \in ahdSoftc.flags]
              /\ latch' = IF written THEN termctl ELSE latch
    BY <1>8, Zenon DEF Ahd!ahd_configure_termination
  <2> DEFINE read == IF answered THEN ahdBoard.sense ELSE stack
             t == Ahd!Termctl(read, answered)
             low == "prilow" \in t
             f == (ahdSoftc.flags \ {"TERM_ENB_A"}) \cup (IF low THEN {"TERM_ENB_A"} ELSE {})
             lv == LevelBit
  <2>3. read \in SUBSET Ahd!Halves
    BY DEF SoundAhdBoard
  <2>4. answered => read = ahdBoard.sense
    OBVIOUS
  <2> HIDE DEF read
  <2>5. LatchRight(t) /\ BitRight(low)
    BY <2>3, <2>4, TermctlRight
  <2>6. /\ ahdSoftc' = [ahdSoftc EXCEPT !.flags = f]
        /\ ahdChip' = [ahdChip EXCEPT !.stpwen = low, !.level = lv]
        /\ latch' = IF written THEN t ELSE latch
    BY <2>2, Zenon DEF LevelBit, read
  <2> HIDE DEF t
  <2>7. low \in BOOLEAN /\ ("TERM_ENB_A" \in f <=> low)
        /\ ("SPCHK_ENB_A" \in f <=> CheckBit) /\ ("STPWLEVEL_A" \in f <=> LevelBit)
    BY DEF CheckBit, LevelBit
  <2> HIDE DEF low, f, lv
  <2>8. ahdSoftc'.flags = f /\ ahdChip'.level = lv
    BY <1>0, <2>6 DEF AhdSoftcType, AhdChipType
  <2>9. (EnableBit' <=> low) /\ (CheckBit' <=> CheckBit) /\ (LevelBit' <=> LevelBit)
    BY <2>7, <2>8 DEF EnableBit, CheckBit, LevelBit
  <2>10. EnableBit' = low
    BY <2>7, <2>9 DEF EnableBit
  <2>11. latch = ahdBoard.sense
    BY <2>1 DEF AhdSetUp
  <2>12. LatchRight(latch')
    BY <2>5, <2>6, <2>11 DEF LatchRight
  <2>13. Ahd!Sensed' = Ahd!Sensed /\ Ahd!ByHand' = Ahd!ByHand
    <3>1. Ahd!FromWords' = Ahd!FromWords
      BY <2>1 DEF Ahd!FromWords
    <3>2. \A b : Ahd!CF(b)' = Ahd!CF(b)
      BY <3>1, Zenon DEF Ahd!CF
    <3>3. Ahd!Sensed' = Ahd!Sensed
      BY <3>2, Zenon DEF Ahd!Sensed
    <3> QED
      BY <3>1, <3>3, Zenon DEF Ahd!ByHand, Ahd!Chosen, Ahd!CF
  <2>14. LatchRight(latch)' /\ BitRight(EnableBit)'
    BY <2>5, <2>10, <2>12, <2>13, Zenon DEF LatchRight, BitRight
  <2>15. CheckAsked' = CheckAsked /\ LevelAsked' = LevelAsked
    BY <2>1, SameAhdAsked
  <2>16. ahdChip'.level <=> LevelBit'
    BY <2>8, <2>9 DEF lv
  <2> QED
    BY <2>1, <2>9, <2>14, <2>15, <2>16 DEF AhdSetUp
<1>9. CASE Ahd!ahd_init \/ Ahd!ScsiRestartAdapter
  <2>0. Ahd!AfterReset(ahdChip) \in AhdChipType
    BY AhdCleared
  <2>1. CASE ahdStage' = "refused"
    BY <2>1 DEF AhdSetUp
  <2>2. CASE ahdStage' # "refused"
    <3>1. /\ ahdStage \in {"init", "stopped"} /\ ahdStage' = "found" /\ ahdSource' = ahdSource
          /\ latch' = latch /\ ahdSoftc' = Ahd!QueuesEmpty(ahdSoftc) /\ ops' = ops
          /\ \/ ahdChip' = Ahd!ahd_restart(Ahd!ChipInit(ahdChip))
             \/ ahdStage = "stopped" /\ ahdChip' = Ahd!ChipInit(Ahd!AfterReset(ahdChip))
      BY <1>9, <2>2 DEF Ahd!ahd_init, Ahd!ScsiRestartAdapter, Ahd!ahd_chip_init, Ahd!Refuse
    <3>2. /\ ahdSoftc'.flags = ahdSoftc.flags /\ ahdSoftc'.our_id = ahdSoftc.our_id
          /\ ahdSoftc'.curr = ahdSoftc.curr
      BY <1>0, <3>1, EmptyFields
    <3>3. /\ ahdChip'.id = ahdSoftc.our_id /\ ahdChip'.stpwen = EnableBit
          /\ ahdChip'.spchk = CheckBit /\ ahdChip'.neg = ahdSoftc.curr
          /\ ahdChip'.level = ahdChip.level
          /\ ops = 0 => ~ahdChip'.paused
      <4>1. CASE ahdChip' = Ahd!ahd_restart(Ahd!ChipInit(ahdChip))
        <5> DEFINE z == Ahd!ChipInit(ahdChip)
        <5>1. z \in AhdChipType
          BY AhdInitialised
        <5>2. /\ z.id = ahdSoftc.our_id /\ z.stpwen = EnableBit /\ z.spchk = CheckBit
              /\ z.neg = ahdSoftc.curr /\ z.level = ahdChip.level
          BY <1>0, ChipInitFields
        <5> HIDE DEF z
        <5>3. /\ ahdChip'.id = z.id /\ ahdChip'.stpwen = z.stpwen /\ ahdChip'.spchk = z.spchk
              /\ ahdChip'.neg = z.neg /\ ahdChip'.level = z.level /\ ~ahdChip'.paused
          BY <4>1, <5>1, RestartFields DEF z
        <5> QED
          BY <5>2, <5>3
      <4>2. CASE ahdStage = "stopped" /\ ahdChip' = Ahd!ChipInit(Ahd!AfterReset(ahdChip))
        <5>1. ops # 0
          BY <1>0, <4>2
        <5> QED
          BY <1>0, <2>0, <4>2, <5>1, ChipInitFields, AfterResetFields
      <4> QED
        BY <3>1, <4>1, <4>2
    <3>4. /\ EnableBit' = EnableBit /\ CheckBit' = CheckBit /\ LevelBit' = LevelBit
          /\ CheckAsked' = CheckAsked /\ LevelAsked' = LevelAsked
          /\ LatchRight(latch) => LatchRight(latch)'
          /\ BitRight(EnableBit) => BitRight(EnableBit)'
      BY <1>1, <3>1, <3>2
    <3> QED
      BY <3>1, <3>2, <3>3, <3>4 DEF AhdSetUp
  <2> QED
    BY <2>1, <2>2
<1>10. ASSUME ahdStage' \in {"running", "stopped"}, ahdStage \in {"found", "running"},
             ahdSource' = ahdSource, latch' = latch, ahdSoftc'.flags = ahdSoftc.flags,
             ahdSoftc'.our_id = ahdSoftc.our_id,
             ahdChip'.id = ahdChip.id, ahdChip'.spchk = ahdChip.spchk,
             ahdChip'.stpwen = ahdChip.stpwen, ahdChip'.level = ahdChip.level,
             (ahdChip.neg = ahdSoftc.curr) => (ahdChip'.neg = ahdSoftc'.curr),
             ops' # 0 \/ (ops' = ops /\ ahdChip'.paused = ahdChip.paused)
      PROVE  AhdSetUp'
  <2>1. /\ EnableBit' = EnableBit /\ CheckBit' = CheckBit /\ LevelBit' = LevelBit
        /\ CheckAsked' = CheckAsked /\ LevelAsked' = LevelAsked
        /\ LatchRight(latch) => LatchRight(latch)'
        /\ BitRight(EnableBit) => BitRight(EnableBit)'
    BY <1>1, <1>10
  <2> QED
    BY <1>10, <2>1 DEF AhdSetUp
<1>11. CASE Ahd!Found \/ Ahd!ScsiStopAdapter
  <2>1. /\ ahdStage' \in {"running", "stopped"} /\ ahdStage \in {"found", "running"}
        /\ ahdSource' = ahdSource /\ latch' = latch /\ (ops' = ops \/ ops' = ops + 1)
        /\ \E on : ahdChip' = [ahdChip EXCEPT !.inten = on]
        /\ \E on : ahdSoftc' = [ahdSoftc EXCEPT !.pause = on, !.unpause = on]
    BY <1>11, Zenon DEF Ahd!Found, Ahd!ScsiStopAdapter, Ahd!Step, Ahd!Enable
  <2>2. /\ ahdSoftc'.flags = ahdSoftc.flags /\ ahdSoftc'.our_id = ahdSoftc.our_id
        /\ ahdSoftc'.curr = ahdSoftc.curr
    BY <1>0, <2>1 DEF AhdSoftcType
  <2>3. /\ ahdChip'.id = ahdChip.id /\ ahdChip'.spchk = ahdChip.spchk
        /\ ahdChip'.stpwen = ahdChip.stpwen /\ ahdChip'.level = ahdChip.level
        /\ ahdChip'.neg = ahdChip.neg /\ ahdChip'.paused = ahdChip.paused
    BY <1>0, <2>1 DEF AhdChipType
  <2>4. ops' # 0 \/ ops' = ops
    BY <1>0, <2>1
  <2> QED
    BY <1>10, <2>1, <2>2, <2>3, <2>4
<1>12. ASSUME NEW s \in Scbs, Ahd!ahd_queue_scb(s) PROVE AhdSetUp'
  <2>1. /\ ahdStage = "running" /\ ahdStage' = ahdStage /\ ops' = ops + 1
        /\ ahdSource' = ahdSource /\ latch' = latch
        /\ \E n : ahdChip' = [ahdChip EXCEPT !.in = n]
        /\ \E n, h, a, p : ahdSoftc' = [ahdSoftc EXCEPT !.next = n, !.hscb[s] = h, !.in = a, !.pending = p]
    BY <1>12, Zenon DEF Ahd!ahd_queue_scb, Ahd!Step
  <2>2. /\ ahdSoftc'.flags = ahdSoftc.flags /\ ahdSoftc'.our_id = ahdSoftc.our_id
        /\ ahdSoftc'.curr = ahdSoftc.curr
    BY <1>0, <2>1 DEF AhdSoftcType
  <2>3. /\ ahdChip'.id = ahdChip.id /\ ahdChip'.spchk = ahdChip.spchk
        /\ ahdChip'.stpwen = ahdChip.stpwen /\ ahdChip'.level = ahdChip.level
        /\ ahdChip'.neg = ahdChip.neg
    BY <1>0, <2>1 DEF AhdChipType
  <2>4. ops' # 0
    BY <1>0, <2>1
  <2> QED
    BY <1>10, <2>1, <2>2, <2>3, <2>4
<1>13. CASE (\E s \in Scbs : Ahd!PostScb(s)) \/ Ahd!FetchScb
  <2>1. /\ ahdStage = "running" /\ ahdStage' = ahdStage /\ ops' = ops
        /\ ahdSource' = ahdSource /\ latch' = latch /\ ahdSoftc' = ahdSoftc
    BY <1>13 DEF Ahd!PostScb, Ahd!FetchScb, Ahd!Sequencer
  <2>2. CASE Ahd!FetchScb
    <3>1. \E g, n, h : ahdChip' = [ahdChip EXCEPT !.got = g, !.next = n, !.have = h]
      BY <2>2, Zenon DEF Ahd!FetchScb
    <3>2. /\ ahdChip'.id = ahdChip.id /\ ahdChip'.spchk = ahdChip.spchk
          /\ ahdChip'.stpwen = ahdChip.stpwen /\ ahdChip'.level = ahdChip.level
          /\ ahdChip'.neg = ahdChip.neg /\ ahdChip'.paused = ahdChip.paused
      BY <1>0, <3>1 DEF AhdChipType
    <3> QED
      BY <1>10, <2>1, <3>2
  <2>3. ASSUME NEW s \in Scbs, Ahd!PostScb(s) PROVE AhdSetUp'
    <3>1. \E h, o, y : ahdChip' = [ahdChip EXCEPT !.have = h, !.out = o, !.valid = y]
      BY <2>3, Zenon DEF Ahd!PostScb
    <3>2. /\ ahdChip'.id = ahdChip.id /\ ahdChip'.spchk = ahdChip.spchk
          /\ ahdChip'.stpwen = ahdChip.stpwen /\ ahdChip'.level = ahdChip.level
          /\ ahdChip'.neg = ahdChip.neg /\ ahdChip'.paused = ahdChip.paused
      BY <1>0, <3>1 DEF AhdChipType
    <3> QED
      BY <1>10, <2>1, <3>2
  <2> QED
    BY <1>13, <2>2, <2>3
<1>14. CASE Ahd!ahd_run_qoutfifo
  <2>1. /\ ahdStage = "running" /\ ahdStage' = ahdStage /\ ops' = ops
        /\ ahdSource' = ahdSource /\ latch' = latch /\ ahdChip' = ahdChip
        /\ \E p, o, y : ahdSoftc' = [ahdSoftc EXCEPT !.pending = p, !.out = o, !.valid = y]
    BY <1>14, Zenon DEF Ahd!ahd_run_qoutfifo
  <2>2. /\ ahdSoftc'.flags = ahdSoftc.flags /\ ahdSoftc'.our_id = ahdSoftc.our_id
        /\ ahdSoftc'.curr = ahdSoftc.curr
    BY <1>0, <2>1 DEF AhdSoftcType
  <2> QED
    BY <1>10, <2>1, <2>2
<1>15. CASE Ahd!HwResetBus
  <2>1. LET reset == Ahd!ResetsChipWithBus
        IN  /\ ahdStage = "running" /\ ahdStage' = ahdStage /\ ops' = ops + 1
            /\ ahdSource' = ahdSource /\ latch' = latch
            /\ ahdChip'.id = (IF reset THEN ahdSoftc.our_id ELSE ahdChip.id)
            /\ ahdChip'.stpwen = (IF reset THEN EnableBit ELSE ahdChip.stpwen)
            /\ ahdChip'.spchk = (IF reset THEN CheckBit ELSE ahdChip.spchk)
            /\ ahdChip'.level = ahdChip.level /\ ahdChip'.neg = AsyncAll
            /\ ahdSoftc'.curr = AsyncAll /\ ahdSoftc'.flags = ahdSoftc.flags
            /\ ahdSoftc'.our_id = ahdSoftc.our_id
    BY <1>15, ResetBusFields
  <2>2. /\ EnableBit' = EnableBit /\ CheckBit' = CheckBit /\ LevelBit' = LevelBit
        /\ CheckAsked' = CheckAsked /\ LevelAsked' = LevelAsked
        /\ LatchRight(latch) => LatchRight(latch)'
        /\ BitRight(EnableBit) => BitRight(EnableBit)'
    BY <1>1, <2>1
  <2>3. ops' # 0
    BY <1>0, <2>1
  <2> QED
    BY <2>1, <2>2, <2>3 DEF AhdSetUp
<1>16. ASSUME NEW i \in Targets, Ahd!Negotiated(i) PROVE AhdSetUp'
  <2>1. /\ ahdStage = "running" /\ ahdStage' = ahdStage /\ ops' = ops + 1
        /\ ahdSource' = ahdSource /\ latch' = latch
        /\ ahdChip' = [ahdChip EXCEPT !.neg[i] = "negotiated"]
        /\ ahdSoftc' = [ahdSoftc EXCEPT !.curr[i] = "negotiated"]
    BY <1>16, Zenon DEF Ahd!Negotiated, Ahd!Step
  <2>2. /\ ahdSoftc'.flags = ahdSoftc.flags /\ ahdSoftc'.our_id = ahdSoftc.our_id
        /\ ahdSoftc'.curr = [ahdSoftc.curr EXCEPT ![i] = "negotiated"]
    BY <1>0, <2>1 DEF AhdSoftcType
  <2>3. /\ ahdChip'.id = ahdChip.id /\ ahdChip'.spchk = ahdChip.spchk
        /\ ahdChip'.stpwen = ahdChip.stpwen /\ ahdChip'.level = ahdChip.level
        /\ ahdChip'.neg = [ahdChip.neg EXCEPT ![i] = "negotiated"]
    BY <1>0, <2>1 DEF AhdChipType
  <2>4. ops' # 0
    BY <1>0, <2>1
  <2> QED
    BY <1>10, <2>1, <2>2, <2>3, <2>4
<1>17. CASE Ahd!LosePower
  <2>1. /\ ahdStage = "stopped" /\ ahdStage' = ahdStage /\ ahdSource' = ahdSource
        /\ latch' = latch /\ ahdSoftc' = ahdSoftc
    BY <1>17 DEF Ahd!LosePower
  <2>2. ahdChip'.level = ahdChip.level
    <3>1. \E a, b, c, d, e, f, g, n : ahdChip' =
             [ahdChip EXCEPT !.id = a, !.stpwen = b, !.spchk = c, !.out = d,
                             !.valid = e, !.next = f, !.paused = g, !.neg = n]
      BY <1>17, Zenon DEF Ahd!LosePower
    <3> QED
      BY <1>0, <3>1 DEF AhdChipType
  <2>3. /\ EnableBit' = EnableBit /\ CheckBit' = CheckBit /\ LevelBit' = LevelBit
        /\ CheckAsked' = CheckAsked /\ LevelAsked' = LevelAsked
        /\ LatchRight(latch) => LatchRight(latch)'
        /\ BitRight(EnableBit) => BitRight(EnableBit)'
    BY <1>1, <2>1
  <2> QED
    BY <2>1, <2>2, <2>3 DEF AhdSetUp
<1>18. CASE UNCHANGED Ahd!vars
  <2>1. /\ ahdStage' = ahdStage /\ ahdSource' = ahdSource /\ latch' = latch /\ ops' = ops
        /\ ahdSoftc' = ahdSoftc /\ ahdChip' = ahdChip
    BY <1>18 DEF Ahd!vars
  <2>2. /\ EnableBit' = EnableBit /\ CheckBit' = CheckBit /\ LevelBit' = LevelBit
        /\ CheckAsked' = CheckAsked /\ LevelAsked' = LevelAsked
        /\ LatchRight(latch) => LatchRight(latch)'
        /\ BitRight(EnableBit) => BitRight(EnableBit)'
    BY <1>1, <2>1
  <2> QED
    BY <2>1, <2>2 DEF AhdSetUp
<1> QED
  BY <1>2, <1>3, <1>4, <1>5, <1>6, <1>7, <1>8, <1>9, <1>11, <1>12, <1>13, <1>14, <1>15, <1>16,
     <1>17, <1>18 DEF Ahd!Next

-----------------------------------------------------------------------------
(* The aic79xx: driver and chip about both queues.                         *)

\* Every SCB but the one the driver fills next belongs to one command.
Perm == \A s \in Scbs : /\ ahdSoftc.hscb[s] # ahdSoftc.next
                        /\ \A t \in Scbs : s # t => ahdSoftc.hscb[s] # ahdSoftc.hscb[t]

\* The entries between the driver's place in the qoutfifo and the chip's.
SameTurn  == ahdSoftc.valid = ahdChip.valid
InRing(i) == IF SameTurn THEN ahdSoftc.out <= i /\ i < ahdChip.out
             ELSE ahdSoftc.out <= i \/ i < ahdChip.out

\* The chip is never a whole turn ahead, and what it wrote in this turn has its mark.
Turned == IF SameTurn THEN ahdSoftc.out <= ahdChip.out ELSE ahdChip.out < ahdSoftc.out
Marks  == \A i \in Ahd!Ring :
             ahdMemory.ring[i].valid = IF i < ahdChip.out THEN ahdChip.valid ELSE ~ahdChip.valid

\* Each posted entry names a pending command of its own.
Named == \A i \in Ahd!Ring : InRing(i) =>
            /\ ahdMemory.ring[i].tag \in ahdSoftc.pending \ ahdChip.have
            /\ \A j \in Ahd!Ring : InRing(j) /\ i # j => ahdMemory.ring[i].tag # ahdMemory.ring[j].tag

Ahead == ahdChip.in - ahdChip.got

\* So does each SCB on the way to the one the driver fills next.
OnPath(path) ==
    /\ Ahd!Threaded(path, Ahead)
    /\ \A i \in 0 .. Ahead - 1 :
          /\ ahdMemory.tag[path[i]] \in ahdSoftc.pending \ ahdChip.have
          /\ ahdSoftc.hscb[ahdMemory.tag[path[i]]] = path[i]
          /\ \A j \in Ahd!Ring : InRing(j) => ahdMemory.ring[j].tag # ahdMemory.tag[path[i]]
          /\ \A j \in 0 .. Ahead - 1 : i # j => path[i] # path[j]

\* Whatever the chip has, posts or is still to fetch is a different pending command.
Agree ==
    /\ ahdChip.in = ahdSoftc.in /\ ahdChip.got <= ahdChip.in
    /\ ahdChip.have \subseteq ahdSoftc.pending
    /\ Turned /\ Marks /\ Named
    /\ \E path \in [0 .. Ahead -> Ahd!Hscbs] : OnPath(path)

AhdAgree == Perm /\ (ahdStage \in {"found", "running"} => Agree)

LEMMA InitAgree ==
    ASSUME Ahd!Powered
    PROVE  AhdAgree
<1>1. ahdStage = "off" /\ ahdSoftc.next = Ahd!Sentinel /\ ahdSoftc.hscb = [s \in Scbs |-> s]
  BY DEF Ahd!Powered
<1>2. Ahd!Sentinel \notin Scbs
  BY RingAssumption
<1> QED
  BY <1>1, <1>2 DEF AhdAgree, Perm

LEMMA AgreeMeans ==
    ASSUME AhdTypes, AhdAgree
    PROVE  Ahd!QueuesAgree
<1> SUFFICES ASSUME ahdStage = "running" PROVE Ahd!QueuesAgree
  BY DEF Ahd!QueuesAgree
<1>1. Agree
  BY DEF AhdAgree
<1>2. /\ ahdSoftc.out \in Ahd!Ring /\ ahdChip.out \in Ahd!Ring
      /\ {ahdSoftc.valid, ahdChip.valid} \subseteq BOOLEAN
  BY DEF AhdTypes, AhdSoftcType, AhdChipType
<1>3. ASSUME Ahd!Seen PROVE InRing(ahdSoftc.out)
  <2>1. ahdSoftc.valid = IF ahdSoftc.out < ahdChip.out THEN ahdChip.valid ELSE ~ahdChip.valid
    BY <1>1, <1>2, <1>3 DEF Ahd!Seen, Agree, Marks
  <2>2. ahdSoftc.out \in Nat /\ ahdChip.out \in Nat
    BY <1>2, RingFacts
  <2>3. SameTurn => ahdSoftc.out < ahdChip.out
    BY <1>2, <2>1 DEF SameTurn
  <2> QED
    BY <2>2, <2>3 DEF InRing
<1>4. Ahd!Seen => ahdMemory.ring[ahdSoftc.out].tag \in ahdSoftc.pending
  BY <1>1, <1>2, <1>3 DEF Agree, Named
<1>5. \E path \in [0 .. ahdChip.in - ahdChip.got -> Ahd!Hscbs] :
         Ahd!Threaded(path, ahdChip.in - ahdChip.got)
  BY <1>1 DEF Agree, OnPath, Ahead
<1>6. /\ ahdChip.in = ahdSoftc.in /\ ahdChip.got <= ahdChip.in
      /\ ahdChip.have \subseteq ahdSoftc.pending
  BY <1>1 DEF Agree
<1>7. ahdSoftc.pending = {} => ~Ahd!Seen
  BY <1>4
<1> QED
  BY <1>4, <1>5, <1>6, <1>7 DEF Ahd!QueuesAgree

\* Both queues are empty.
LEMMA FreshQueues ==
    ASSUME AhdTypes, AhdTypes', Perm', ahdChip'.in = ahdChip'.got, ahdSoftc'.in = ahdChip'.in,
           ahdChip'.have = {}, ahdChip'.next = ahdSoftc'.next,
           ahdSoftc'.out = ahdChip'.out, ahdSoftc'.valid = ahdChip'.valid, Marks'
    PROVE  AhdAgree'
<1>1. /\ ahdChip'.in \in Nat /\ ahdChip'.out \in Ahd!Ring /\ ahdSoftc'.next \in Ahd!Hscbs
  BY DEF AhdTypes, AhdChipType, AhdSoftcType
<1>2. SameTurn' /\ Turned' /\ Ahead' = 0
  BY <1>1, RingFacts DEF SameTurn, Turned, Ahead
<1>3. \A i \in Ahd!Ring : ~InRing(i)'
  BY <1>1, <1>2, RingFacts DEF InRing
<1>4. Named'
  BY <1>3 DEF Named
<1> DEFINE p == [i \in 0 .. 0 |-> ahdSoftc'.next]
<1>5. p \in [0 .. 0 -> Ahd!Hscbs] /\ p[0] = ahdSoftc'.next
  BY <1>1
<1> HIDE DEF p
<1>6. PICK path \in [0 .. 0 -> Ahd!Hscbs] : path[0] = ahdSoftc'.next
  BY <1>5
<1>7. Ahd!Threaded(path, Ahead)'
  BY <1>2, <1>6 DEF Ahd!Threaded
<1>8. OnPath(path)'
  BY <1>2, <1>7 DEF OnPath
<1> QED
  BY <1>1, <1>2, <1>4, <1>6, <1>8 DEF AhdAgree, Agree

\* Nothing of the queues has changed.
LEMMA SameQueues ==
    ASSUME AhdAgree, ahdMemory' = ahdMemory,
           ahdStage' \in {"found", "running"} => ahdStage \in {"found", "running"},
           ahdSoftc'.hscb = ahdSoftc.hscb, ahdSoftc'.next = ahdSoftc.next,
           ahdStage' \in {"found", "running"} =>
              /\ ahdSoftc'.in = ahdSoftc.in /\ ahdSoftc'.out = ahdSoftc.out
              /\ ahdSoftc'.valid = ahdSoftc.valid /\ ahdSoftc'.pending = ahdSoftc.pending
              /\ ahdChip'.in = ahdChip.in /\ ahdChip'.got = ahdChip.got
              /\ ahdChip'.have = ahdChip.have /\ ahdChip'.next = ahdChip.next
              /\ ahdChip'.out = ahdChip.out /\ ahdChip'.valid = ahdChip.valid
    PROVE  AhdAgree'
<1>1. Perm'
  BY DEF AhdAgree, Perm
<1>2. ASSUME ahdStage' \in {"found", "running"} PROVE Agree'
  <2>1. /\ ahdSoftc'.in = ahdSoftc.in /\ ahdSoftc'.out = ahdSoftc.out
        /\ ahdSoftc'.valid = ahdSoftc.valid /\ ahdSoftc'.pending = ahdSoftc.pending
        /\ ahdChip'.in = ahdChip.in /\ ahdChip'.got = ahdChip.got
        /\ ahdChip'.have = ahdChip.have /\ ahdChip'.next = ahdChip.next
        /\ ahdChip'.out = ahdChip.out /\ ahdChip'.valid = ahdChip.valid
    BY <1>2
  <2>2. Agree
    BY <1>2 DEF AhdAgree
  <2>3. SameTurn' = SameTurn /\ Turned' = Turned /\ Ahead' = Ahead
    BY <2>1, Zenon DEF SameTurn, Turned, Ahead
  <2>4. \A i : InRing(i)' = InRing(i)
    BY <2>1, <2>3, Zenon DEF InRing
  <2>5. Marks' /\ Named'
    <3>1. Marks'
      BY <2>1, <2>2, Zenon DEF Agree, Marks
    <3>2. Named'
      BY <2>1, <2>2, <2>4, Zenon DEF Agree, Named
    <3> QED
      BY <3>1, <3>2
  <2>6. PICK path \in [0 .. Ahead -> Ahd!Hscbs] : OnPath(path)
    BY <2>2 DEF Agree
  <2>7. OnPath(path)'
    BY <2>1, <2>3, <2>4, <2>6, ZenonT(40) DEF OnPath, Ahd!Threaded
  <2> QED
    BY <2>1, <2>2, <2>3, <2>5, <2>6, <2>7 DEF Agree
<1> QED
  BY <1>1, <1>2 DEF AhdAgree

\* The commands in the ring and one more are too few to fill it.
LEMMA Room ==
    ASSUME AhdTypes, Named, NEW s \in ahdChip.have, ahdChip.have \subseteq ahdSoftc.pending,
           \A i \in Ahd!Ring \ {ahdChip.out} : InRing(i)
    PROVE  FALSE
<1> DEFINE f == [i \in Ahd!Ring |-> IF i = ahdChip.out THEN s ELSE ahdMemory.ring[i].tag]
<1>1. ahdSoftc.pending \subseteq Scbs
  BY DEF AhdTypes, AhdSoftcType
<1>2. f \in [Ahd!Ring -> Scbs]
  BY <1>1 DEF Named
<1>3. IsFiniteSet(Ahd!Ring) /\ Cardinality(Ahd!Ring) = RingSize
  BY FS_Interval, RingFacts DEF Ahd!Ring
<1>4. IsFiniteSet(Scbs) /\ Cardinality(Scbs) < Cardinality(Ahd!Ring)
  BY <1>3, RingAssumption, FS_CardinalityType
<1>5. \A i, j \in Ahd!Ring : i # j => f[i] # f[j]
  BY DEF Named
<1> HIDE DEF f
<1>6. \E i, j \in Ahd!Ring : i # j /\ f[i] = f[j]
  BY <1>2, <1>3, <1>4, FS_PigeonHole, Zenon
<1> QED
  BY <1>5, <1>6

\* The chip's place in the ring after one more entry.
LEMMA PostMoves ==
    ASSUME AhdTypes, Turned, Marks, Named, ahdChip.have \subseteq ahdSoftc.pending,
           NEW s \in ahdChip.have,
           ahdSoftc'.out = ahdSoftc.out, ahdSoftc'.valid = ahdSoftc.valid,
           ahdChip'.out = (ahdChip.out + 1) % RingSize,
           ahdChip'.valid = (IF ahdChip.out = RingSize - 1 THEN ~ahdChip.valid ELSE ahdChip.valid),
           ahdMemory'.ring[ahdChip.out].valid = ahdChip.valid,
           \A i \in Ahd!Ring \ {ahdChip.out} : ahdMemory'.ring[i].valid = ahdMemory.ring[i].valid
    PROVE  /\ ~InRing(ahdChip.out)
           /\ \A i \in Ahd!Ring : InRing(i)' <=> InRing(i) \/ i = ahdChip.out
           /\ Turned' /\ Marks'
<1> DEFINE o == ahdSoftc.out
           c == ahdChip.out
<1>1. /\ o \in Ahd!Ring /\ c \in Ahd!Ring
      /\ {ahdSoftc.valid, ahdChip.valid} \subseteq BOOLEAN
  BY DEF AhdTypes, AhdSoftcType, AhdChipType
<1>2. o \in Nat /\ c \in Nat /\ RingSize \in Nat /\ o < RingSize /\ c < RingSize
      /\ \A i \in Ahd!Ring : i \in Nat /\ i < RingSize
  BY <1>1, RingFacts
<1>3. ahdChip'.out = IF c = RingSize - 1 THEN 0 ELSE c + 1
  BY <1>1, RingFacts
<1>4. \E i \in Ahd!Ring \ {c} : ~InRing(i)
  BY Room
<1> HIDE DEF o, c
<1>5. ahdChip.valid \in BOOLEAN
  BY <1>1
<1>6. CASE SameTurn
  <2>1. o <= c /\ \A i : InRing(i) <=> o <= i /\ i < c
    BY <1>6 DEF Turned, InRing, o, c
  <2>2. CASE c = RingSize - 1
    <3>1. ~SameTurn' /\ ahdChip'.out = 0 /\ ahdChip'.valid = ~ahdChip.valid
      BY <1>1, <1>3, <1>6, <2>2 DEF SameTurn, c
    <3>2. 0 < o
      BY <1>2, <1>4, <2>1, <2>2
    <3>3. Turned'
      BY <3>1, <3>2 DEF Turned, o
    <3>4. \A i \in Ahd!Ring : InRing(i)' <=> InRing(i) \/ i = c
      BY <1>2, <2>1, <2>2, <3>1 DEF InRing, o
    <3>5. Marks'
      <4>1. ASSUME NEW i \in Ahd!Ring PROVE ahdMemory'.ring[i].valid = ahdChip.valid
        BY <1>2, <2>2 DEF Marks, c
      <4>2. ahdChip.valid = ~ahdChip'.valid
        BY <1>5, <3>1, Zenon
      <4>3. \A i \in Ahd!Ring : ~(i < ahdChip'.out)
        BY <1>2, <3>1
      <4> QED
        BY <4>1, <4>2, <4>3, Zenon DEF Marks
    <3> QED
      BY <1>2, <2>1, <3>3, <3>4, <3>5 DEF c
  <2>3. CASE c # RingSize - 1
    <3>1. SameTurn' /\ ahdChip'.out = c + 1 /\ ahdChip'.valid = ahdChip.valid
      BY <1>3, <1>6, <2>3 DEF SameTurn, c
    <3>2. Turned'
      BY <1>2, <2>1, <3>1 DEF Turned, o
    <3>3. \A i \in Ahd!Ring : InRing(i)' <=> InRing(i) \/ i = c
      BY <1>2, <2>1, <3>1 DEF InRing, o
    <3>4. Marks'
      BY <1>1, <1>2, <3>1 DEF Marks, c
    <3> QED
      BY <1>2, <2>1, <3>2, <3>3, <3>4 DEF c
  <2> QED
    BY <2>2, <2>3
<1>7. CASE ~SameTurn
  <2>1. c < o /\ \A i : InRing(i) <=> o <= i \/ i < c
    BY <1>7 DEF Turned, InRing, o, c
  <2>2. ~SameTurn' /\ ahdChip'.out = c + 1 /\ ahdChip'.valid = ahdChip.valid
    BY <1>2, <1>3, <1>7, <2>1 DEF SameTurn, c
  <2>3. c + 1 < o
    BY <1>2, <1>4, <2>1
  <2>4. Turned'
    BY <2>2, <2>3 DEF Turned, o
  <2>5. \A i \in Ahd!Ring : InRing(i)' <=> InRing(i) \/ i = c
    BY <1>2, <2>1, <2>2 DEF InRing, o
  <2>6. Marks'
    BY <1>1, <1>2, <2>2 DEF Marks, c
  <2> QED
    BY <1>2, <2>1, <2>4, <2>5, <2>6 DEF c
<1> QED
  BY <1>6, <1>7

\* The driver's place after it has seen one.
LEMMA RunMoves ==
    ASSUME AhdTypes, Turned, Marks, Ahd!Seen,
           ahdChip' = ahdChip, ahdMemory' = ahdMemory,
           ahdSoftc'.out = (ahdSoftc.out + 1) % RingSize,
           ahdSoftc'.valid = (IF ahdSoftc.out = RingSize - 1 THEN ~ahdSoftc.valid ELSE ahdSoftc.valid)
    PROVE  /\ InRing(ahdSoftc.out)
           /\ \A i \in Ahd!Ring : InRing(i)' <=> InRing(i) /\ i # ahdSoftc.out
           /\ Turned' /\ Marks'
<1> DEFINE o == ahdSoftc.out
           c == ahdChip.out
<1>1. /\ o \in Ahd!Ring /\ c \in Ahd!Ring
      /\ {ahdSoftc.valid, ahdChip.valid} \subseteq BOOLEAN
  BY DEF AhdTypes, AhdSoftcType, AhdChipType
<1>2. o \in Nat /\ c \in Nat /\ RingSize \in Nat /\ o < RingSize /\ c < RingSize
      /\ \A i \in Ahd!Ring : i \in Nat /\ i < RingSize
  BY <1>1, RingFacts
<1>3. ahdSoftc'.out = IF o = RingSize - 1 THEN 0 ELSE o + 1
  BY <1>1, RingFacts
<1>4. Marks'
  BY DEF Marks
<1>5. SameTurn => o < c
  BY <1>1, <1>2 DEF Turned, Marks, Ahd!Seen, SameTurn
<1> HIDE DEF o, c
<1>6. CASE SameTurn
  <2>1. o < c /\ \A i : InRing(i) <=> o <= i /\ i < c
    BY <1>5, <1>6 DEF InRing, o, c
  <2>2. SameTurn' /\ ahdSoftc'.out = o + 1
    BY <1>2, <1>3, <1>6, <2>1 DEF SameTurn, o
  <2>3. Turned'
    BY <1>2, <2>1, <2>2 DEF Turned, c
  <2>4. \A i \in Ahd!Ring : InRing(i)' <=> InRing(i) /\ i # o
    BY <1>2, <2>1, <2>2 DEF InRing, c
  <2> QED
    BY <1>2, <1>4, <2>1, <2>3, <2>4 DEF o
<1>7. CASE ~SameTurn
  <2>1. c < o /\ \A i : InRing(i) <=> o <= i \/ i < c
    BY <1>7 DEF Turned, InRing, o, c
  <2>2. CASE o = RingSize - 1
    <3>1. SameTurn' /\ ahdSoftc'.out = 0
      BY <1>1, <1>3, <1>7, <2>2 DEF SameTurn, o
    <3>2. Turned'
      BY <1>2, <3>1 DEF Turned, c
    <3>3. \A i \in Ahd!Ring : InRing(i)' <=> InRing(i) /\ i # o
      BY <1>2, <2>1, <2>2, <3>1 DEF InRing, c
    <3> QED
      BY <1>2, <1>4, <2>1, <3>2, <3>3 DEF o
  <2>3. CASE o # RingSize - 1
    <3>1. ~SameTurn' /\ ahdSoftc'.out = o + 1
      BY <1>3, <1>7, <2>3 DEF SameTurn, o
    <3>2. Turned'
      BY <1>2, <2>1, <3>1 DEF Turned, c
    <3>3. \A i \in Ahd!Ring : InRing(i)' <=> InRing(i) /\ i # o
      BY <1>2, <2>1, <3>1 DEF InRing, c
    <3> QED
      BY <1>2, <1>4, <2>1, <3>2, <3>3 DEF o
  <2> QED
    BY <2>2, <2>3
<1> QED
  BY <1>6, <1>7

LEMMA QueueAgrees ==
    ASSUME AhdTypes, AhdAgree, NEW s \in Scbs, Ahd!ahd_queue_scb(s)
    PROVE  AhdAgree'
<1>0. /\ ahdSoftc \in AhdSoftcType /\ ahdChip \in AhdChipType /\ ahdMemory \in MemoryType
      /\ ahdStage = "running" /\ ahdStage' = ahdStage /\ s \notin ahdSoftc.pending
  BY DEF AhdTypes, Ahd!ahd_queue_scb, Ahd!Step
<1> DEFINE h == ahdSoftc.hscb[s]
           x == ahdSoftc.next
           n == ahdSoftc.in + 1
           pnd == ahdSoftc.pending \cup {s}
<1>1. /\ ahdSoftc' = [ahdSoftc EXCEPT !.next = h, !.hscb[s] = x, !.in = n, !.pending = pnd]
      /\ ahdChip' = [ahdChip EXCEPT !.in = n]
      /\ ahdMemory' = [ahdMemory EXCEPT !.link[x] = h, !.tag[x] = s]
  BY <1>0 DEF Ahd!ahd_queue_scb, AhdSoftcType
<1>2. /\ h \in Ahd!Hscbs /\ x \in Ahd!Hscbs /\ n \in Nat /\ pnd \in SUBSET Scbs
  BY <1>0 DEF AhdSoftcType
<1> HIDE DEF h, x, n, pnd
<1>3. /\ ahdSoftc'.next = h /\ ahdSoftc'.hscb = [ahdSoftc.hscb EXCEPT ![s] = x]
      /\ ahdSoftc'.in = n /\ ahdSoftc'.pending = pnd
      /\ ahdSoftc'.out = ahdSoftc.out /\ ahdSoftc'.valid = ahdSoftc.valid
  BY <1>0, <1>1 DEF AhdSoftcType
<1>4. /\ ahdChip'.in = n /\ ahdChip'.got = ahdChip.got /\ ahdChip'.have = ahdChip.have
      /\ ahdChip'.next = ahdChip.next /\ ahdChip'.out = ahdChip.out
      /\ ahdChip'.valid = ahdChip.valid
  BY <1>0, <1>1 DEF AhdChipType
<1>5. /\ ahdMemory'.link = [ahdMemory.link EXCEPT ![x] = h]
      /\ ahdMemory'.tag = [ahdMemory.tag EXCEPT ![x] = s]
      /\ ahdMemory'.ring = ahdMemory.ring
  BY <1>0, <1>1 DEF MemoryType
<1>6. /\ Perm /\ Agree
  BY <1>0 DEF AhdAgree
<1>7. /\ ahdSoftc.hscb \in [Scbs -> Ahd!Hscbs] /\ ahdMemory.link \in [Ahd!Hscbs -> Ahd!Hscbs]
      /\ ahdMemory.tag \in [Ahd!Hscbs -> Ahd!Hscbs] /\ ahdSoftc.pending \subseteq Scbs
      /\ ahdChip.in \in Nat /\ ahdChip.got \in Nat
  BY <1>0 DEF AhdSoftcType, MemoryType, AhdChipType
<1>8. Perm'
  BY <1>3, <1>6, <1>7 DEF Perm, h, x
<1>9. SameTurn' = SameTurn /\ Turned' = Turned
  BY <1>3, <1>4, Zenon DEF SameTurn, Turned
<1>10. \A i : InRing(i)' = InRing(i)
  BY <1>3, <1>4, <1>9, Zenon DEF InRing
<1>11. Turned' /\ Marks'
  BY <1>4, <1>5, <1>6, <1>9 DEF Agree, Marks
<1>12. Named'
  <2>1. ahdSoftc.pending \subseteq pnd
    BY DEF pnd
  <2> QED
    BY <1>3, <1>4, <1>5, <1>6, <1>10, <2>1 DEF Agree, Named
<1>13. ahdChip'.have \subseteq ahdSoftc'.pending /\ ahdChip'.in = ahdSoftc'.in
       /\ ahdChip'.got <= ahdChip'.in
  BY <1>3, <1>4, <1>6, <1>7 DEF Agree, pnd, n
<1> DEFINE a == Ahead
<1>14. a \in Nat /\ Ahead' = a + 1
  BY <1>3, <1>4, <1>6, <1>7 DEF Ahead, Agree, n
<1>15. PICK path \in [0 .. a -> Ahd!Hscbs] : OnPath(path)
  BY <1>6 DEF Agree
<1> HIDE DEF a
<1>16. \A i \in 0 .. a - 1 :
          /\ ahdMemory.tag[path[i]] \in ahdSoftc.pending \ ahdChip.have
          /\ ahdSoftc.hscb[ahdMemory.tag[path[i]]] = path[i]
          /\ \A j \in Ahd!Ring : InRing(j) => ahdMemory.ring[j].tag # ahdMemory.tag[path[i]]
          /\ \A j \in 0 .. a - 1 : i # j => path[i] # path[j]
  BY <1>15 DEF OnPath, a
<1>17. path[0] = ahdChip.next /\ path[a] = x /\ \A j \in 1 .. a : path[j] = ahdMemory.link[path[j - 1]]
  BY <1>15 DEF OnPath, Ahd!Threaded, a, x
<1>18. \A i \in 0 .. a - 1 : path[i] # x
  BY <1>6, <1>7, <1>16 DEF Perm, x
<1> DEFINE q == [j \in 0 .. a + 1 |-> IF j <= a THEN path[j] ELSE h]
<1>19. q \in [0 .. a + 1 -> Ahd!Hscbs]
  BY <1>2, <1>14
<1>20. q[a + 1] = h /\ \A j \in 0 .. a : q[j] = path[j]
  BY <1>14
<1> HIDE DEF q
<1>21. PICK m \in Nat : m = a + 1
  BY <1>14
<1>22. PICK p \in [0 .. m -> Ahd!Hscbs] : p = q
  BY <1>19, <1>21
<1>23. Ahd!Threaded(p, m)'
  <2>1. q[0] = ahdChip'.next /\ q[a + 1] = ahdSoftc'.next
    BY <1>3, <1>4, <1>14, <1>17, <1>20
  <2>2. ASSUME NEW j \in 1 .. a + 1 PROVE q[j] = ahdMemory'.link[q[j - 1]]
    <3>1. CASE j <= a
      <4>1. j \in 1 .. a /\ j - 1 \in 0 .. a - 1 /\ j \in 0 .. a /\ j - 1 \in 0 .. a
        BY <1>14, <3>1
      <4>2. path[j - 1] # x /\ path[j - 1] \in Ahd!Hscbs
        BY <1>15, <1>18, <4>1
      <4> QED
        BY <1>5, <1>7, <1>17, <1>20, <4>1, <4>2
    <3>2. CASE j = a + 1
      <4>1. q[j - 1] = x
        BY <1>14, <1>17, <1>20, <3>2
      <4> QED
        BY <1>2, <1>5, <1>7, <1>20, <3>2, <4>1
    <3> QED
      BY <1>14, <3>1, <3>2
  <2>3. q[0] = ahdChip'.next /\ q[a + 1] = ahdSoftc'.next
        /\ \A j \in 1 .. a + 1 : q[j] = ahdMemory'.link[q[j - 1]]
    BY <2>1, <2>2
  <2>4. /\ p[0] = ahdChip'.next /\ p[m] = ahdSoftc'.next
        /\ \A j \in 1 .. m : p[j] = ahdMemory'.link[p[j - 1]]
    BY <1>21, <1>22, <2>3
  <2> QED
    BY <2>4, Zenon DEF Ahd!Threaded
<1>24. ASSUME NEW i \in 0 .. a
       PROVE  /\ ahdMemory'.tag[q[i]] \in ahdSoftc'.pending \ ahdChip'.have
              /\ ahdSoftc'.hscb[ahdMemory'.tag[q[i]]] = q[i]
              /\ \A j \in Ahd!Ring : InRing(j)' => ahdMemory'.ring[j].tag # ahdMemory'.tag[q[i]]
              /\ \A j \in 0 .. a : i # j => q[i] # q[j]
  <2>1. \A j \in Ahd!Ring : InRing(j) => ahdMemory.ring[j].tag \in ahdSoftc.pending
    BY <1>6 DEF Agree, Named
  <2>2. s \notin ahdChip.have
    BY <1>0, <1>6 DEF Agree
  <2>3. CASE i = a
    <3>1. q[i] = x /\ ahdMemory'.tag[q[i]] = s
      BY <1>2, <1>5, <1>7, <1>14, <1>17, <1>20, <2>3
    <3>2. \A j \in 0 .. a : i # j => q[j] # x
      <4>1. \A j \in 0 .. a : i # j => j \in 0 .. a - 1
        BY <1>14, <2>3
      <4> QED
        BY <1>18, <1>20, <4>1
    <3>3. ahdSoftc'.hscb[s] = x
      BY <1>2, <1>3, <1>7
    <3>4. s \in ahdSoftc'.pending
      BY <1>3 DEF pnd
    <3> QED
      BY <1>0, <1>4, <1>5, <1>10, <2>1, <2>2, <3>1, <3>2, <3>3, <3>4
  <2>4. CASE i # a
    <3>1. i \in 0 .. a - 1 /\ q[i] = path[i] /\ path[i] # x /\ path[i] \in Ahd!Hscbs
      BY <1>14, <1>15, <1>18, <1>20, <2>4
    <3>2. ahdMemory'.tag[q[i]] = ahdMemory.tag[path[i]]
      BY <1>5, <1>7, <3>1
    <3> DEFINE t == ahdMemory.tag[path[i]]
    <3>3. t \in ahdSoftc.pending \ ahdChip.have /\ ahdSoftc.hscb[t] = path[i]
          /\ \A j \in Ahd!Ring : InRing(j) => ahdMemory.ring[j].tag # t
      BY <1>16, <3>1
    <3> HIDE DEF t
    <3>4. t # s /\ t \in Scbs /\ t \in pnd
      BY <1>0, <1>7, <3>3 DEF pnd
    <3>5. ahdSoftc'.hscb[t] = path[i]
      BY <1>3, <1>7, <3>3, <3>4
    <3>6. \A j \in 0 .. a : i # j => path[i] # path[j]
      <4> SUFFICES ASSUME NEW j \in 0 .. a, i # j PROVE path[i] # path[j]
        OBVIOUS
      <4>1. CASE j = a
        BY <1>17, <3>1, <4>1
      <4>2. CASE j # a
        <5>1. j \in 0 .. a - 1
          BY <1>14, <4>2
        <5> QED
          BY <1>16, <3>1, <5>1
      <4> QED
        BY <4>1, <4>2
    <3>7. \A j \in 0 .. a : i # j => q[i] # q[j]
      BY <1>20, <3>1, <3>6
    <3> QED
      BY <1>3, <1>4, <1>5, <1>10, <3>1, <3>2, <3>3, <3>4, <3>5, <3>7 DEF t
  <2> QED
    BY <2>3, <2>4
<1>25. OnPath(p)'
  <2>1. Ahead' = m /\ m - 1 = a
    BY <1>14, <1>21
  <2>2. \A i \in 0 .. m - 1 :
              /\ ahdMemory'.tag[p[i]] \in ahdSoftc'.pending \ ahdChip'.have
              /\ ahdSoftc'.hscb[ahdMemory'.tag[p[i]]] = p[i]
              /\ \A j \in Ahd!Ring : InRing(j)' => ahdMemory'.ring[j].tag # ahdMemory'.tag[p[i]]
              /\ \A j \in 0 .. m - 1 : i # j => p[i] # p[j]
    BY <1>24, <1>22, <2>1
  <2>3. Ahd!Threaded(p, Ahead)'
    BY <1>23, <2>1, Zenon
  <2>4. \A i \in 0 .. Ahead' - 1 :
              /\ ahdMemory'.tag[p[i]] \in ahdSoftc'.pending \ ahdChip'.have
              /\ ahdSoftc'.hscb[ahdMemory'.tag[p[i]]] = p[i]
              /\ \A j \in Ahd!Ring : InRing(j)' => ahdMemory'.ring[j].tag # ahdMemory'.tag[p[i]]
              /\ \A j \in 0 .. Ahead' - 1 : i # j => p[i] # p[j]
    BY <2>1, <2>2, Zenon
  <2> QED
    BY <2>3, <2>4, Zenon DEF OnPath
<1>26. \E r \in [0 .. Ahead' -> Ahd!Hscbs] : OnPath(r)'
  <2>1. Ahead' = m
    BY <1>14, <1>21
  <2> QED
    BY <1>25, <1>22, <2>1
<1> QED
  BY <1>8, <1>11, <1>12, <1>13, <1>26 DEF AhdAgree, Agree

LEMMA FetchAgrees ==
    ASSUME AhdTypes, AhdAgree, Ahd!FetchScb
    PROVE  AhdAgree'
<1>0. /\ ahdSoftc \in AhdSoftcType /\ ahdChip \in AhdChipType /\ ahdMemory \in MemoryType
      /\ ahdStage = "running" /\ ahdStage' = ahdStage
      /\ ahdMemory' = ahdMemory /\ ahdSoftc' = ahdSoftc /\ ahdChip.got # ahdChip.in
  BY DEF AhdTypes, Ahd!FetchScb, Ahd!Sequencer
<1> DEFINE t == ahdMemory.tag[ahdChip.next]
           l == ahdMemory.link[ahdChip.next]
           hv == ahdChip.have \cup {t}
           g == ahdChip.got + 1
           a == Ahead
<1>1. ahdChip' = [ahdChip EXCEPT !.got = g, !.next = l, !.have = hv]
  BY <1>0 DEF Ahd!FetchScb, AhdChipType
<1>2. /\ ahdChip.in \in Nat /\ ahdChip.got \in Nat
  BY <1>0 DEF AhdChipType
<1>3. Perm /\ Agree
  BY <1>0 DEF AhdAgree
<1> HIDE DEF t, l, hv, g
<1>4. /\ ahdChip'.in = ahdChip.in /\ ahdChip'.got = g /\ ahdChip'.have = hv
      /\ ahdChip'.next = l /\ ahdChip'.out = ahdChip.out /\ ahdChip'.valid = ahdChip.valid
  BY <1>0, <1>1 DEF AhdChipType
<1>5. Perm'
  BY <1>0, <1>3 DEF Perm
<1>6. SameTurn' = SameTurn /\ Turned' = Turned
  BY <1>0, <1>4, Zenon DEF SameTurn, Turned
<1>7. \A i : InRing(i)' = InRing(i)
  BY <1>0, <1>4, <1>6, Zenon DEF InRing
<1>8. Turned' /\ Marks'
  BY <1>0, <1>3, <1>4, <1>6 DEF Agree, Marks
<1>9. a \in Nat /\ a > 0 /\ Ahead' = a - 1
  BY <1>0, <1>2, <1>3, <1>4 DEF Ahead, Agree, g
<1>10. PICK path \in [0 .. a -> Ahd!Hscbs] : OnPath(path)
  BY <1>3 DEF Agree
<1> HIDE DEF a
<1>11. \A i \in 0 .. a - 1 :
          /\ ahdMemory.tag[path[i]] \in ahdSoftc.pending \ ahdChip.have
          /\ ahdSoftc.hscb[ahdMemory.tag[path[i]]] = path[i]
          /\ \A j \in Ahd!Ring : InRing(j) => ahdMemory.ring[j].tag # ahdMemory.tag[path[i]]
          /\ \A j \in 0 .. a - 1 : i # j => path[i] # path[j]
  BY <1>10 DEF OnPath, a
<1>12. /\ path[0] = ahdChip.next /\ path[a] = ahdSoftc.next
       /\ \A j \in 1 .. a : path[j] = ahdMemory.link[path[j - 1]]
  BY <1>10 DEF OnPath, Ahd!Threaded, a
<1>13. 0 \in 0 .. a - 1 /\ ahdMemory.tag[path[0]] = t
  BY <1>9, <1>12 DEF t
<1>14. /\ t \in ahdSoftc.pending \ ahdChip.have /\ ahdSoftc.hscb[t] = path[0]
       /\ \A j \in Ahd!Ring : InRing(j) => ahdMemory.ring[j].tag # t
  BY <1>11, <1>13
<1>15. Named'
  BY <1>0, <1>3, <1>4, <1>7, <1>14 DEF Agree, Named, hv
<1>16. /\ ahdChip'.have \subseteq ahdSoftc'.pending /\ ahdChip'.in = ahdSoftc'.in
       /\ ahdChip'.got <= ahdChip'.in
  BY <1>0, <1>2, <1>3, <1>4, <1>14 DEF Agree, hv, g
<1> DEFINE q == [j \in 0 .. a - 1 |-> path[j + 1]]
<1>17. q \in [0 .. a - 1 -> Ahd!Hscbs]
  BY <1>9
<1>18. \A j \in 0 .. a - 1 : q[j] = path[j + 1]
  OBVIOUS
<1> HIDE DEF q
<1>19. PICK m \in Nat : m = a - 1
  BY <1>9
<1>20. PICK p \in [0 .. m -> Ahd!Hscbs] : p = q
  BY <1>17, <1>19
<1>21. p[0] = ahdChip'.next /\ p[m] = ahdSoftc'.next
  <2>1. p[0] = path[1] /\ p[m] = path[a] /\ 1 \in 1 .. a
    BY <1>9, <1>13, <1>18, <1>19, <1>20
  <2>2. path[1] = l
    BY <1>12, <2>1 DEF l
  <2> QED
    BY <1>0, <1>4, <1>12, <2>1, <2>2
<1>22. ASSUME NEW j \in 1 .. m PROVE p[j] = ahdMemory'.link[p[j - 1]]
  <2>1. j + 1 \in 1 .. a /\ j \in 0 .. a - 1 /\ j - 1 \in 0 .. a - 1 /\ (j - 1) + 1 = j
        /\ (j + 1) - 1 = j
    BY <1>9, <1>19
  <2>2. p[j] = path[j + 1] /\ p[j - 1] = path[j]
    BY <1>18, <1>20, <2>1
  <2> QED
    BY <1>0, <1>12, <2>1, <2>2
<1>23. Ahd!Threaded(p, m)'
  BY <1>21, <1>22, Zenon DEF Ahd!Threaded
<1>24. ASSUME NEW i \in 0 .. m - 1
       PROVE  /\ ahdMemory'.tag[p[i]] \in ahdSoftc'.pending \ ahdChip'.have
              /\ ahdSoftc'.hscb[ahdMemory'.tag[p[i]]] = p[i]
              /\ \A j \in Ahd!Ring : InRing(j)' => ahdMemory'.ring[j].tag # ahdMemory'.tag[p[i]]
              /\ \A j \in 0 .. m - 1 : i # j => p[i] # p[j]
  <2>1. i \in 0 .. a - 1 /\ i + 1 \in 0 .. a - 1 /\ i + 1 # 0
    BY <1>9, <1>19
  <2>2. p[i] = path[i + 1]
    BY <1>18, <1>20, <2>1
  <2>3. path[i + 1] # path[0]
    BY <1>11, <1>13, <2>1
  <2>4. ahdMemory.tag[path[i + 1]] # t
    BY <1>11, <1>14, <2>1, <2>3
  <2>5. \A j \in 0 .. m - 1 : i # j => p[i] # p[j]
    <3> SUFFICES ASSUME NEW j \in 0 .. m - 1, i # j PROVE p[i] # p[j]
      OBVIOUS
    <3>1. j \in 0 .. a - 1 /\ j + 1 \in 0 .. a - 1 /\ i + 1 # j + 1
      BY <1>9, <1>19
    <3>2. p[j] = path[j + 1]
      BY <1>18, <1>20, <3>1
    <3> QED
      BY <1>11, <2>1, <2>2, <3>1, <3>2
  <2> QED
    BY <1>0, <1>4, <1>7, <1>11, <2>1, <2>2, <2>4, <2>5 DEF hv
<1>25. OnPath(p)'
  <2>1. Ahead' = m
    BY <1>9, <1>19
  <2>2. Ahd!Threaded(p, Ahead)'
    BY <1>23, <2>1, Zenon
  <2>3. \A i \in 0 .. Ahead' - 1 :
              /\ ahdMemory'.tag[p[i]] \in ahdSoftc'.pending \ ahdChip'.have
              /\ ahdSoftc'.hscb[ahdMemory'.tag[p[i]]] = p[i]
              /\ \A j \in Ahd!Ring : InRing(j)' => ahdMemory'.ring[j].tag # ahdMemory'.tag[p[i]]
              /\ \A j \in 0 .. Ahead' - 1 : i # j => p[i] # p[j]
    BY <1>24, <2>1, Zenon
  <2> QED
    BY <2>2, <2>3, Zenon DEF OnPath
<1>26. \E r \in [0 .. Ahead' -> Ahd!Hscbs] : OnPath(r)'
  <2>1. Ahead' = m
    BY <1>9, <1>19
  <2> QED
    BY <1>20, <1>25, <2>1
<1> QED
  BY <1>5, <1>8, <1>15, <1>16, <1>26 DEF AhdAgree, Agree

LEMMA PostAgrees ==
    ASSUME AhdTypes, AhdAgree, NEW s \in Scbs, Ahd!PostScb(s)
    PROVE  AhdAgree'
<1>0. /\ ahdSoftc \in AhdSoftcType /\ ahdChip \in AhdChipType /\ ahdMemory \in MemoryType
      /\ ahdStage = "running" /\ ahdStage' = ahdStage /\ ahdSoftc' = ahdSoftc /\ s \in ahdChip.have
  BY DEF AhdTypes, Ahd!PostScb, Ahd!Sequencer
<1> DEFINE c == ahdChip.out
           hv == ahdChip.have \ {s}
           y == IF ahdChip.out = RingSize - 1 THEN ~ahdChip.valid ELSE ahdChip.valid
           e == [valid |-> ahdChip.valid, tag |-> s]
           o == (c + 1) % RingSize
<1>1. /\ ahdChip' = [ahdChip EXCEPT !.have = hv, !.out = o, !.valid = y]
      /\ ahdMemory' = [ahdMemory EXCEPT !.ring[c] = e]
  BY <1>0 DEF Ahd!PostScb, AhdChipType
<1>2. c \in Ahd!Ring /\ ahdMemory.ring \in [Ahd!Ring -> EntryType]
  BY <1>0 DEF AhdChipType, MemoryType
<1>3. Perm /\ Agree
  BY <1>0 DEF AhdAgree
<1>4. e.valid = ahdChip.valid /\ e.tag = s
  OBVIOUS
<1> HIDE DEF c, hv, y, e, o
<1>5. /\ ahdChip'.in = ahdChip.in /\ ahdChip'.got = ahdChip.got /\ ahdChip'.have = hv
      /\ ahdChip'.next = ahdChip.next /\ ahdChip'.out = o /\ ahdChip'.valid = y
  BY <1>0, <1>1 DEF AhdChipType
<1>6. /\ ahdMemory'.link = ahdMemory.link /\ ahdMemory'.tag = ahdMemory.tag
      /\ ahdMemory'.ring = [ahdMemory.ring EXCEPT ![c] = e]
  BY <1>0, <1>1 DEF MemoryType
<1>7. ahdMemory'.ring[c] = e /\ \A i \in Ahd!Ring \ {c} : ahdMemory'.ring[i] = ahdMemory.ring[i]
  BY <1>2, <1>6
<1>8. Perm'
  BY <1>0, <1>3 DEF Perm
<1>9. /\ ~InRing(c)
      /\ \A i \in Ahd!Ring : InRing(i)' <=> InRing(i) \/ i = c
      /\ Turned' /\ Marks'
  <2>1. /\ ahdChip'.out = (ahdChip.out + 1) % RingSize
        /\ ahdChip'.valid = (IF ahdChip.out = RingSize - 1 THEN ~ahdChip.valid ELSE ahdChip.valid)
        /\ ahdMemory'.ring[ahdChip.out].valid = ahdChip.valid
        /\ \A i \in Ahd!Ring \ {ahdChip.out} : ahdMemory'.ring[i].valid = ahdMemory.ring[i].valid
    BY <1>4, <1>5, <1>7 DEF c, o, y
  <2> QED
    BY <1>0, <1>3, <2>1, PostMoves DEF Agree, c
<1>10. Named'
  <2>1. ASSUME NEW i \in Ahd!Ring, InRing(i)'
        PROVE  /\ ahdMemory'.ring[i].tag \in ahdSoftc.pending \ hv
               /\ i # c => ahdMemory'.ring[i].tag = ahdMemory.ring[i].tag /\ InRing(i)
                           /\ ahdMemory.ring[i].tag # s
               /\ i = c => ahdMemory'.ring[i].tag = s
    BY <1>0, <1>3, <1>4, <1>7, <1>9, <2>1 DEF Agree, Named, hv
  <2>2. ASSUME NEW i \in Ahd!Ring, InRing(i)', NEW j \in Ahd!Ring, InRing(j)', i # j
        PROVE  ahdMemory'.ring[i].tag # ahdMemory'.ring[j].tag
    BY <1>3, <2>1, <2>2 DEF Agree, Named
  <2> QED
    BY <1>0, <1>5, <2>1, <2>2 DEF Named
<1>11. /\ ahdChip'.have \subseteq ahdSoftc'.pending /\ ahdChip'.in = ahdSoftc'.in
       /\ ahdChip'.got <= ahdChip'.in /\ Ahead' = Ahead
  BY <1>0, <1>3, <1>5 DEF Agree, Ahead, hv
<1>12. PICK path \in [0 .. Ahead -> Ahd!Hscbs] : OnPath(path)
  BY <1>3 DEF Agree
<1>13. Ahd!Threaded(path, Ahead)'
  BY <1>0, <1>5, <1>6, <1>11, <1>12, Zenon DEF OnPath, Ahd!Threaded
<1>14. ASSUME NEW i \in 0 .. Ahead - 1
       PROVE  /\ ahdMemory.tag[path[i]] \in ahdSoftc.pending \ hv
              /\ \A j \in Ahd!Ring : InRing(j)' => ahdMemory'.ring[j].tag # ahdMemory.tag[path[i]]
  <2> DEFINE t == ahdMemory.tag[path[i]]
  <2>1. /\ t \in ahdSoftc.pending \ ahdChip.have
        /\ \A j \in Ahd!Ring : InRing(j) => ahdMemory.ring[j].tag # t
    BY <1>12 DEF OnPath
  <2> HIDE DEF t
  <2>2. \A j \in Ahd!Ring : InRing(j)' => ahdMemory'.ring[j].tag # t
    BY <1>0, <1>4, <1>7, <1>9, <2>1
  <2> QED
    BY <2>1, <2>2 DEF t, hv
<1>15. OnPath(path)'
  <2>1. \A i \in 0 .. Ahead - 1 :
              /\ ahdMemory'.tag[path[i]] \in ahdSoftc'.pending \ ahdChip'.have
              /\ ahdSoftc'.hscb[ahdMemory'.tag[path[i]]] = path[i]
              /\ \A j \in Ahd!Ring : InRing(j)' => ahdMemory'.ring[j].tag # ahdMemory'.tag[path[i]]
              /\ \A j \in 0 .. Ahead - 1 : i # j => path[i] # path[j]
    BY <1>0, <1>5, <1>6, <1>12, <1>14, ZenonT(40) DEF OnPath
  <2>2. \A i \in 0 .. Ahead' - 1 :
              /\ ahdMemory'.tag[path[i]] \in ahdSoftc'.pending \ ahdChip'.have
              /\ ahdSoftc'.hscb[ahdMemory'.tag[path[i]]] = path[i]
              /\ \A j \in Ahd!Ring : InRing(j)' => ahdMemory'.ring[j].tag # ahdMemory'.tag[path[i]]
              /\ \A j \in 0 .. Ahead' - 1 : i # j => path[i] # path[j]
    BY <1>11, <2>1, Zenon
  <2> QED
    BY <1>13, <2>2, Zenon DEF OnPath
<1>16. \E r \in [0 .. Ahead' -> Ahd!Hscbs] : OnPath(r)'
  BY <1>11, <1>12, <1>15
<1> QED
  BY <1>8, <1>9, <1>10, <1>11, <1>16 DEF AhdAgree, Agree

LEMMA RunAgrees ==
    ASSUME AhdTypes, AhdAgree, Ahd!ahd_run_qoutfifo
    PROVE  AhdAgree'
<1>0. /\ ahdSoftc \in AhdSoftcType /\ ahdChip \in AhdChipType /\ ahdMemory \in MemoryType
      /\ ahdStage = "running" /\ ahdStage' = ahdStage /\ ahdChip' = ahdChip
      /\ ahdMemory' = ahdMemory /\ Ahd!Seen
  BY DEF AhdTypes, Ahd!ahd_run_qoutfifo
<1> DEFINE o == ahdSoftc.out
           t == ahdMemory.ring[o].tag
           pnd == ahdSoftc.pending \ {t}
           y == IF ahdSoftc.out = RingSize - 1 THEN ~ahdSoftc.valid ELSE ahdSoftc.valid
           n == (o + 1) % RingSize
<1>1. ahdSoftc' = [ahdSoftc EXCEPT !.pending = pnd, !.out = n, !.valid = y]
  BY <1>0 DEF Ahd!ahd_run_qoutfifo, AhdSoftcType
<1>2. o \in Ahd!Ring
  BY <1>0 DEF AhdSoftcType
<1>3. Perm /\ Agree
  BY <1>0 DEF AhdAgree
<1> HIDE DEF o, t, pnd, y, n
<1>4. /\ ahdSoftc'.next = ahdSoftc.next /\ ahdSoftc'.hscb = ahdSoftc.hscb
      /\ ahdSoftc'.in = ahdSoftc.in /\ ahdSoftc'.pending = pnd
      /\ ahdSoftc'.out = n /\ ahdSoftc'.valid = y
  BY <1>0, <1>1 DEF AhdSoftcType
<1>5. Perm'
  BY <1>3, <1>4 DEF Perm
<1>6. /\ InRing(o)
      /\ \A i \in Ahd!Ring : InRing(i)' <=> InRing(i) /\ i # o
      /\ Turned' /\ Marks'
  <2>1. /\ ahdSoftc'.out = (ahdSoftc.out + 1) % RingSize
        /\ ahdSoftc'.valid = (IF ahdSoftc.out = RingSize - 1 THEN ~ahdSoftc.valid ELSE ahdSoftc.valid)
    BY <1>4 DEF o, y, n
  <2> QED
    BY <1>0, <1>3, <2>1, RunMoves DEF Agree, o
<1>7. t \in ahdSoftc.pending \ ahdChip.have
      /\ \A i \in Ahd!Ring : InRing(i) /\ i # o => ahdMemory.ring[i].tag # t
  BY <1>2, <1>3, <1>6 DEF Agree, Named, t
<1>8. Named'
  BY <1>0, <1>3, <1>4, <1>6, <1>7 DEF Agree, Named, pnd
<1>9. /\ ahdChip'.have \subseteq ahdSoftc'.pending /\ ahdChip'.in = ahdSoftc'.in
      /\ ahdChip'.got <= ahdChip'.in /\ Ahead' = Ahead
  BY <1>0, <1>3, <1>4, <1>7 DEF Agree, Ahead, pnd
<1>10. PICK path \in [0 .. Ahead -> Ahd!Hscbs] : OnPath(path)
  BY <1>3 DEF Agree
<1>11. Ahd!Threaded(path, Ahead)'
  BY <1>0, <1>4, <1>9, <1>10, Zenon DEF OnPath, Ahd!Threaded
<1>12. ASSUME NEW i \in 0 .. Ahead - 1
       PROVE  /\ ahdMemory.tag[path[i]] \in pnd \ ahdChip.have
              /\ \A j \in Ahd!Ring : InRing(j)' => ahdMemory.ring[j].tag # ahdMemory.tag[path[i]]
  <2>1. /\ ahdMemory.tag[path[i]] \in ahdSoftc.pending \ ahdChip.have
        /\ \A j \in Ahd!Ring : InRing(j) => ahdMemory.ring[j].tag # ahdMemory.tag[path[i]]
    BY <1>10 DEF OnPath
  <2> QED
    BY <1>2, <1>6, <2>1 DEF pnd, t
<1>13. OnPath(path)'
  <2>1. \A i \in 0 .. Ahead - 1 :
              /\ ahdMemory'.tag[path[i]] \in ahdSoftc'.pending \ ahdChip'.have
              /\ ahdSoftc'.hscb[ahdMemory'.tag[path[i]]] = path[i]
              /\ \A j \in Ahd!Ring : InRing(j)' => ahdMemory'.ring[j].tag # ahdMemory'.tag[path[i]]
              /\ \A j \in 0 .. Ahead - 1 : i # j => path[i] # path[j]
    BY <1>0, <1>4, <1>10, <1>12, Zenon DEF OnPath
  <2>2. \A i \in 0 .. Ahead' - 1 :
              /\ ahdMemory'.tag[path[i]] \in ahdSoftc'.pending \ ahdChip'.have
              /\ ahdSoftc'.hscb[ahdMemory'.tag[path[i]]] = path[i]
              /\ \A j \in Ahd!Ring : InRing(j)' => ahdMemory'.ring[j].tag # ahdMemory'.tag[path[i]]
              /\ \A j \in 0 .. Ahead' - 1 : i # j => path[i] # path[j]
    BY <1>9, <2>1, Zenon
  <2> QED
    BY <1>11, <2>2, Zenon DEF OnPath
<1>14. \E r \in [0 .. Ahead' -> Ahd!Hscbs] : OnPath(r)'
  BY <1>9, <1>10, <1>13
<1> QED
  BY <1>5, <1>6, <1>8, <1>9, <1>14 DEF AhdAgree, Agree

LEMMA StepAgree ==
    ASSUME AhdTypes, AhdTypes', AhdAgree, [Ahd!Next]_(Ahd!vars)
    PROVE  AhdAgree'
<1>0. /\ ahdSoftc \in AhdSoftcType /\ ahdChip \in AhdChipType /\ ahdMemory \in MemoryType
  BY DEF AhdTypes
<1>1. ASSUME ahdSoftc'.hscb = ahdSoftc.hscb, ahdSoftc'.next = ahdSoftc.next
      PROVE  Perm'
  BY <1>1 DEF AhdAgree, Perm
<1>2. CASE Ahd!HwFindAdapter \/ Ahd!ahd_reset \/ Ahd!ReadScratchCopy \/ Ahd!ahd_default_config \/ Ahd!ahd_configure_termination
  <2>1. /\ ahdStage' \notin {"found", "running"} /\ ahdMemory' = ahdMemory
        /\ \/ ahdSoftc' = ahdSoftc
           \/ \E f : ahdSoftc' = [ahdSoftc EXCEPT !.flags = f]
           \/ \E a, b : ahdSoftc' = [ahdSoftc EXCEPT !.pause = a, !.unpause = b]
           \/ \E d, t, u : ahdSoftc' = [ahdSoftc EXCEPT !.our_id = 7, !.disc = d, !.tag = t, !.user = u]
    <3>1. CASE Ahd!HwFindAdapter
      BY <3>1, Zenon DEF Ahd!HwFindAdapter
    <3>2. CASE Ahd!ahd_reset
      BY <3>2, Zenon DEF Ahd!ahd_reset
    <3>3. CASE Ahd!ReadScratchCopy
      <4>1. ahdStage' \in {"parse", "defaults"} /\ ahdMemory' = ahdMemory
        BY <3>3 DEF Ahd!ReadScratchCopy
      <4>2. ahdSoftc' = ahdSoftc \/ \E f : ahdSoftc' = [ahdSoftc EXCEPT !.flags = f]
        BY <3>3, Zenon DEF Ahd!ReadScratchCopy
      <4> QED
        BY <4>1, <4>2
    <3>4. CASE Ahd!ahd_default_config
      <4>1. ahdStage' \in {"terminate", "refused"} /\ ahdMemory' = ahdMemory
        BY <3>4 DEF Ahd!ahd_default_config, Ahd!Refuse
      <4>2. \/ ahdSoftc' = ahdSoftc
            \/ \E d, t, u : ahdSoftc' = [ahdSoftc EXCEPT !.our_id = 7, !.disc = d, !.tag = t, !.user = u]
        BY <3>4, Zenon DEF Ahd!ahd_default_config, Ahd!Refuse
      <4> QED
        BY <4>1, <4>2
    <3>5. CASE Ahd!ahd_configure_termination
      <4>1. ahdStage' = "init" /\ ahdMemory' = ahdMemory
        BY <3>5 DEF Ahd!ahd_configure_termination
      <4>2. \E f : ahdSoftc' = [ahdSoftc EXCEPT !.flags = f]
        BY <3>5, Zenon DEF Ahd!ahd_configure_termination
      <4> QED
        BY <4>1, <4>2
    <3> QED
      BY <1>2, <3>1, <3>2, <3>3, <3>4, <3>5
  <2>2. ahdSoftc'.hscb = ahdSoftc.hscb /\ ahdSoftc'.next = ahdSoftc.next
    BY <1>0, <2>1 DEF AhdSoftcType
  <2> QED
    BY <2>1, <2>2, SameQueues
<1>3. CASE Ahd!ahd_aic790X_setup \/ Ahd!ahd_pci_test_register_access \/ Ahd!ReadSeeprom
              \/ ((Ahd!ahd_init \/ Ahd!ahd_parse_cfgdata) /\ ahdStage' = "refused")
  <2>1. ahdStage' \notin {"found", "running"} /\ ahdMemory' = ahdMemory /\ ahdSoftc' = ahdSoftc
    BY <1>3 DEF Ahd!ahd_aic790X_setup, Ahd!ahd_pci_test_register_access, Ahd!ReadSeeprom, Ahd!ahd_init,
                Ahd!ahd_parse_cfgdata, Ahd!Refuse
  <2> QED
    BY <2>1, SameQueues
<1>4. CASE (Ahd!ahd_init \/ Ahd!ScsiRestartAdapter) /\ ahdStage' # "refused"
  <2>0. Ahd!AfterReset(ahdChip) \in AhdChipType
    BY AhdCleared DEF AhdTypes
  <2>1. /\ ahdSoftc' = Ahd!QueuesEmpty(ahdSoftc) /\ ahdMemory' = Ahd!RingEmpty(ahdMemory)
        /\ \/ ahdChip' = Ahd!ahd_restart(Ahd!ChipInit(ahdChip))
           \/ ahdChip' = Ahd!ChipInit(Ahd!AfterReset(ahdChip))
    BY <1>4 DEF Ahd!ahd_init, Ahd!ScsiRestartAdapter, Ahd!ahd_chip_init, Ahd!Refuse
  <2>2. /\ ahdSoftc'.in = 0 /\ ahdSoftc'.out = 0 /\ ahdSoftc'.valid = TRUE
        /\ ahdSoftc'.next = ahdSoftc.next /\ ahdSoftc'.hscb = ahdSoftc.hscb
    BY <1>0, <2>1, EmptyFields
  <2>3. /\ ahdChip'.in = 0 /\ ahdChip'.got = 0 /\ ahdChip'.have = {}
        /\ ahdChip'.out = 0 /\ ahdChip'.valid = TRUE /\ ahdChip'.next = ahdSoftc.next
    <3>1. CASE ahdChip' = Ahd!ahd_restart(Ahd!ChipInit(ahdChip))
      <4> DEFINE z == Ahd!ChipInit(ahdChip)
      <4>1. z \in AhdChipType
        BY AhdInitialised DEF AhdTypes
      <4>2. /\ z.in = 0 /\ z.got = 0 /\ z.have = {}
            /\ z.out = 0 /\ z.valid = TRUE /\ z.next = ahdSoftc.next
        BY <1>0, ChipInitFields
      <4> HIDE DEF z
      <4>3. /\ ahdChip'.in = z.in /\ ahdChip'.got = z.got /\ ahdChip'.have = z.have
            /\ ahdChip'.out = z.out /\ ahdChip'.valid = z.valid /\ ahdChip'.next = z.next
        BY <3>1, <4>1, RestartFields DEF z
      <4> QED
        BY <4>2, <4>3
    <3>2. CASE ahdChip' = Ahd!ChipInit(Ahd!AfterReset(ahdChip))
      BY <2>0, <3>2, ChipInitFields
    <3> QED
      BY <2>1, <3>1, <3>2
  <2>4. \A i \in Ahd!Ring : ahdMemory'.ring[i].valid = FALSE
    BY <1>0, <2>1, EmptyRing
  <2>5. Marks'
    <3>1. \A i \in Ahd!Ring : ~(i < ahdChip'.out)
      BY <2>3, RingFacts
    <3>2. \A i \in Ahd!Ring : ahdMemory'.ring[i].valid = ~ahdChip'.valid
      BY <2>3, <2>4
    <3> QED
      BY <3>1, <3>2, Zenon DEF Marks
  <2> QED
    BY <1>1, <2>2, <2>3, <2>5, FreshQueues
<1>5. CASE Ahd!Found \/ Ahd!ScsiStopAdapter
  <2>1. /\ ahdMemory' = ahdMemory /\ ahdStage \in {"found", "running"}
        /\ \E a : ahdChip' = [ahdChip EXCEPT !.inten = a]
        /\ \E a : ahdSoftc' = [ahdSoftc EXCEPT !.pause = a, !.unpause = a]
    BY <1>5, Zenon DEF Ahd!Found, Ahd!ScsiStopAdapter, Ahd!Step, Ahd!Enable
  <2>2. /\ ahdSoftc'.hscb = ahdSoftc.hscb /\ ahdSoftc'.next = ahdSoftc.next
        /\ ahdSoftc'.in = ahdSoftc.in /\ ahdSoftc'.out = ahdSoftc.out
        /\ ahdSoftc'.valid = ahdSoftc.valid /\ ahdSoftc'.pending = ahdSoftc.pending
    BY <1>0, <2>1 DEF AhdSoftcType
  <2>3. /\ ahdChip'.in = ahdChip.in /\ ahdChip'.got = ahdChip.got
        /\ ahdChip'.have = ahdChip.have /\ ahdChip'.next = ahdChip.next
        /\ ahdChip'.out = ahdChip.out /\ ahdChip'.valid = ahdChip.valid
    BY <1>0, <2>1 DEF AhdChipType
  <2> QED
    BY <2>1, <2>2, <2>3, SameQueues
<1>6. ASSUME NEW i \in Targets, Ahd!Negotiated(i) PROVE AhdAgree'
  <2>1. /\ ahdMemory' = ahdMemory /\ ahdStage' = ahdStage
        /\ ahdChip' = [ahdChip EXCEPT !.neg[i] = "negotiated"]
        /\ ahdSoftc' = [ahdSoftc EXCEPT !.curr[i] = "negotiated"]
    BY <1>6, Zenon DEF Ahd!Negotiated
  <2>2. /\ ahdSoftc'.hscb = ahdSoftc.hscb /\ ahdSoftc'.next = ahdSoftc.next
        /\ ahdSoftc'.in = ahdSoftc.in /\ ahdSoftc'.out = ahdSoftc.out
        /\ ahdSoftc'.valid = ahdSoftc.valid /\ ahdSoftc'.pending = ahdSoftc.pending
    BY <1>0, <2>1 DEF AhdSoftcType
  <2>3. /\ ahdChip'.in = ahdChip.in /\ ahdChip'.got = ahdChip.got
        /\ ahdChip'.have = ahdChip.have /\ ahdChip'.next = ahdChip.next
        /\ ahdChip'.out = ahdChip.out /\ ahdChip'.valid = ahdChip.valid
    BY <1>0, <2>1 DEF AhdChipType
  <2> QED
    BY <2>1, <2>2, <2>3, SameQueues
<1>7. CASE Ahd!LosePower \/ UNCHANGED Ahd!vars
  <2>1. CASE Ahd!LosePower
    <3>1. ahdMemory' = ahdMemory /\ ahdStage' = "stopped" /\ ahdSoftc' = ahdSoftc
      BY <2>1 DEF Ahd!LosePower
    <3> QED
      BY <3>1, SameQueues
  <2>2. CASE UNCHANGED Ahd!vars
    <3>1. ahdMemory' = ahdMemory /\ ahdStage' = ahdStage /\ ahdSoftc' = ahdSoftc /\ ahdChip' = ahdChip
      BY <2>2 DEF Ahd!vars
    <3> QED
      BY <3>1, SameQueues
  <2> QED
    BY <1>7, <2>1, <2>2
<1>8. CASE Ahd!HwResetBus
  <2>1. LET reset == Ahd!ResetsChipWithBus
        IN  /\ ahdStage = "running"
            /\ ahdChip'.in = ahdChip'.got /\ ahdChip'.have = {}
            /\ ahdChip'.next = ahdSoftc.next
            /\ ahdChip'.out = (IF reset THEN 0 ELSE ahdChip.out)
            /\ ahdChip'.valid = (IF reset THEN TRUE ELSE ahdChip.valid)
            /\ ahdSoftc'.in = ahdChip'.in /\ ahdSoftc'.out = ahdChip'.out
            /\ ahdSoftc'.valid = ahdChip'.valid /\ ahdSoftc'.next = ahdSoftc.next
            /\ ahdSoftc'.hscb = ahdSoftc.hscb
    BY <1>8, ResetBusFields
  <2>2. ahdMemory' = IF Ahd!ResetsChipWithBus THEN Ahd!RingEmpty(ahdMemory) ELSE ahdMemory
    BY <1>8, Zenon DEF Ahd!HwResetBus
  <2>3. Marks'
    <3>1. CASE Ahd!ResetsChipWithBus
      <4>1. \A i \in Ahd!Ring : ahdMemory'.ring[i].valid = FALSE
        BY <1>0, <2>2, <3>1, EmptyRing
      <4>2. \A i \in Ahd!Ring : ~(i < ahdChip'.out)
        BY <2>1, <3>1, RingFacts
      <4>3. \A i \in Ahd!Ring : ahdMemory'.ring[i].valid = ~ahdChip'.valid
        BY <2>1, <3>1, <4>1
      <4> QED
        BY <4>2, <4>3, Zenon DEF Marks
    <3>2. CASE ~Ahd!ResetsChipWithBus
      <4>1. Marks
        BY <2>1 DEF AhdAgree, Agree
      <4>2. ahdMemory' = ahdMemory /\ ahdChip'.out = ahdChip.out /\ ahdChip'.valid = ahdChip.valid
        BY <2>1, <2>2, <3>2
      <4> QED
        BY <4>1, <4>2, Zenon DEF Marks
    <3> QED
      BY <3>1, <3>2
  <2> QED
    BY <1>1, <2>1, <2>3, FreshQueues
<1>9. CASE (\E s \in Scbs : Ahd!ahd_queue_scb(s) \/ Ahd!PostScb(s)) \/ Ahd!FetchScb
              \/ Ahd!ahd_run_qoutfifo
  BY <1>9, QueueAgrees, PostAgrees, FetchAgrees, RunAgrees
<1>10. CASE Ahd!ahd_parse_cfgdata /\ ahdStage' # "refused"
  <2> DEFINE f == (ahdSoftc.flags \ Ahd!Settable) \cup (ahdBoard.control \cap Ahd!Settable)
  <2>1. ahdStage' = "terminate" /\ ahdMemory' = ahdMemory
    BY <1>10 DEF Ahd!ahd_parse_cfgdata, Ahd!Refuse
  <2>2. \E w, a, b, u : ahdSoftc' = [ahdSoftc EXCEPT !.our_id = w, !.disc = a, !.tag = b, !.user = u,
                                                !.flags = f]
    BY <1>10, <2>1, Zenon DEF Ahd!ahd_parse_cfgdata, Ahd!Refuse
  <2> HIDE DEF f
  <2>3. ahdSoftc'.hscb = ahdSoftc.hscb /\ ahdSoftc'.next = ahdSoftc.next
    BY <1>0, <2>2 DEF AhdSoftcType
  <2> QED
    BY <2>1, <2>3, SameQueues
<1> HIDE DEF AhdAgree
<1>11. CASE Ahd!ahd_init \/ Ahd!ahd_parse_cfgdata \/ Ahd!ScsiRestartAdapter
  <2>1. CASE ahdStage' = "refused"
    <3>1. ~Ahd!ScsiRestartAdapter
      BY <2>1 DEF Ahd!ScsiRestartAdapter
    <3> QED
      BY <1>3, <1>11, <2>1, <3>1, Zenon
  <2>2. CASE ahdStage' # "refused"
    BY <1>4, <1>10, <1>11, <2>2, Zenon
  <2> QED
    BY <2>1, <2>2
<1>12. CASE \E i \in Targets : Ahd!Negotiated(i)
  BY <1>6, <1>12
<1>13. CASE Ahd!Next
  BY <1>2, <1>3, <1>5, <1>7, <1>8, <1>9, <1>11, <1>12, <1>13, Zenon DEF Ahd!Next
<1> QED
  BY <1>7, <1>13

-----------------------------------------------------------------------------
(* A running board.                                                        *)

Runs == Reaching /\ SetUp /\ AhdSetUp /\ AhdAgree

LEMMA InitRuns ==
    ASSUME Extras = {}, ConfigInit
    PROVE  Runs
<1>1. Reaching /\ Powered /\ Ahd!Powered
  BY InitReaching DEF ConfigInit
<1>2. SoundBoard(board)
  BY <1>1, Known DEF Reaching, Kept
<1> QED
  BY <1>1, <1>2, InitSetUp, InitAhdSetUp, InitAgree DEF Runs

LEMMA StepRuns ==
    ASSUME Runs, Reload \subseteq {"seeprom"}, LostInSleep = {},
           [ConfigNext]_<<part_of, vars, ahdVars, serVars>>
    PROVE  Runs'
<1>1. /\ Types /\ AhdTypes /\ SoundBoard(board) /\ SoundAhdBoard(ahdBoard)
      /\ Staged /\ AhdStaged
  BY Known DEF Runs, Reaching, Kept
<1>2. [Next]_vars /\ [Ahd!Next]_(Ahd!vars) /\ ahdBoard' = ahdBoard
  BY SameBoards
<1>3. Reaching'
  BY StepReaching DEF Runs
<1>4. SetUp'
  BY <1>1, <1>2, StepSetUp DEF Runs
<1>5. AhdSetUp'
  BY <1>1, <1>2, StepAhdSetUp DEF Runs
<1>6. AhdTypes'
  BY <1>3 DEF Reaching, Kept
<1>7. AhdAgree'
  BY <1>1, <1>2, <1>6, StepAgree DEF Runs
<1> QED
  BY <1>3, <1>4, <1>5, <1>7 DEF Runs

\* A running board is set up as its user asked, after any number of stops, restarts,
\* bus resets and chip resets in the middle of them; and whatever the number of SCBs
\* and of entries, the aic79xx and its driver agree about both queues: the chip comes
\* to every command that was queued, and every entry seen names a pending one
\* (ahc_chip_init, ahd_chip_init, ahd_reset_current_bus, the HwAdapterControl routines).
THEOREM BoardsRunAsAsked ==
    ASSUME Extras = {}, Reload \subseteq {"seeprom"}, LostInSleep = {}
    PROVE  ConfigSpec => []BoardRuns
<1>1. ConfigInit => Runs
  BY InitRuns
<1>2. Runs /\ [ConfigNext]_<<part_of, vars, ahdVars, serVars>> => Runs'
  BY StepRuns
<1>3. Runs => BoardRuns
  BY SetUpMeans, AhdSetUpMeans, AgreeMeans DEF Runs, Reaching, Kept, BoardRuns
<1> QED
  BY <1>1, <1>2, <1>3, PTL DEF ConfigSpec
=============================================================================
