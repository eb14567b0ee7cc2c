------------------------------- MODULE MCStart -------------------------------
(***************************************************************************)
(* Instances of what happens before the first command, for TLC.  A         *)
(* behaviour is one of the shared memory (MCDmaLayout) or one of the       *)
(* firmware, from its assembler to its download (SeqLoad); the other       *)
(* stands still at one of its initial states.                              *)
(***************************************************************************)
EXTENDS MCDmaLayout, TLC

CONSTANTS Funcs, Labels, MaxInstr, MaxScopes, MaxSections, MaxJumps, MaxSize,
          EmptyBodies, RamSize, MaxSteps, MaxPauses

VARIABLES part, pass, seq_program, scopes, scope_stack, linfo, cs_tailq, patches,
          features, instr, cur_patch, skip_addr, cur_cs, cs_table, image, SEQADDR,
          steps, pauses

Firmware == INSTANCE SeqLoad WITH i <- instr

memoryVars == <<family, base, ptr, failures, ahcVars, ahdVars>>
firmwareVars ==
    <<pass, seq_program, scopes, scope_stack, linfo, cs_tailq, patches, features,
      instr, cur_patch, skip_addr, cur_cs, cs_table, image, SEQADDR, steps, pauses>>

StartInit ==
    /\ FamilyInit /\ Firmware!Init
    /\ \/ part = "memory"
       \/ /\ part = "firmware"
          /\ family = "aic7xxx" /\ base = 8192 /\ sgSize = 1024

StartNext ==
    /\ UNCHANGED part
    /\ \/ part = "memory" /\ FamilyNext /\ UNCHANGED firmwareVars
       \/ part = "firmware" /\ Firmware!Next /\ UNCHANGED memoryVars

StartSpec == StartInit /\ [][StartNext]_<<part, memoryVars, firmwareVars>>

\* What a chip is given of the firmware is what its features select (SeqLoad).
ImageIsSelected == Firmware!ImageIsSelected

\* A jump reaches the instruction its label stands before (SeqLoad).
JumpsReachTheirLabel == Firmware!JumpsReachTheirLabel

\* The driver pauses the sequencer outside of critical sections (SeqLoad).
PausedOutsideSections == Firmware!PausedOutsideSections

\* No definition tells the conditions apart, nor the labels.
Symmetries == Permutations(Funcs)
=============================================================================
