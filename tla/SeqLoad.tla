------------------------------ MODULE SeqLoad ------------------------------
(***************************************************************************)
(* The firmware reaches the chip: ahc_loadseq and ahd_loadseq download the *)
(* instructions that apply to the chip, one per step, relocate the jumps   *)
(* among them and the table of critical sections.  Then the sequencer runs *)
(* and the host pauses it: ahc_clear_critical_section and its twin         *)
(* single-step a sequencer that was caught inside a section out of it.     *)
(*                                                                         *)
(* An instruction is its address in the program and, if it jumps, its      *)
(* target: the rest of ahc_download_instr (downloaded constants, the older *)
(* chips' encoding, the parity bit) changes neither.  Interrupt masks that *)
(* are closed while stepping are left out: a step here always completes.   *)
(***************************************************************************)
EXTENDS Aicasm

CONSTANTS RamSize,       \* instruction_ram_size; ahd_loadseq has no such test
          MaxSteps,      \* AHC_MAX_STEPS, AHD_MAX_STEPS
          MaxPauses

VARIABLES features,      \* the conditions that hold for this chip
          i, cur_patch, skip_addr,           \* ahc_loadseq
          cur_cs, cs_table,                  \* its last entry may be open
          image,         \* SEQRAM: [at, address], `at' in seq_program
          SEQADDR,       \* the instruction the sequencer executes next
          steps, pauses

loadVars == <<features, i, cur_patch, skip_addr, cur_cs, cs_table,
              image, SEQADDR, steps, pauses>>
vars == <<asmVars, loadVars>>

downloaded == Len(image)

\* num_critical_sections, the first so many of cs_table
critical_sections == SelectSeq(cs_table, LAMBDA cs : cs.end # Undefined)

Init ==
    /\ AsmInit
    /\ features = {}
    /\ i = 0 /\ cur_patch = 1 /\ skip_addr = 0
    /\ cur_cs = 1 /\ cs_table = <<>>
    /\ image = <<>> /\ SEQADDR = 0 /\ steps = 0 /\ pauses = 0

Assemble == AsmNext /\ UNCHANGED loadVars

\* A driver that was built with this program meets a chip: those conditions
\* hold for it that the program asks for.
LoadBegins ==
    /\ pass = "assembled"
    /\ pass' = "load"
    /\ features' \in SUBSET ({patches[p].func : p \in DOMAIN patches} \ {Never})
    /\ UNCHANGED <<seq_program, scopes, scope_stack, linfo, cs_tailq, patches,
                   i, cur_patch, skip_addr, cur_cs, cs_table, image, SEQADDR,
                   steps, pauses>>

---------------------------------------------------------------------------
(* ahc_check_patch: follow the patches that begin at this instruction.     *)

RECURSIVE check_patch(_, _)
check_patch(at, p) ==
    IF p.cur > Len(patches) \/ patches[p.cur].begin # at
    THEN p
    ELSE check_patch(at,
             IF patches[p.cur].func \in features
             THEN [p EXCEPT !.cur = @ + 1]
             ELSE [cur |-> p.cur + patches[p.cur].skip_patch,
                   skip |-> at + patches[p.cur].skip_instr])

\* The jump target less the instructions below it that are not downloaded.
RECURSIVE WholeStrides(_, _, _, _)
\* Mutated: a stride that ends behind the target is taken off whole.
WholeStrides(at, address, p, offset) ==
    IF at >= address
    THEN address - offset
    ELSE LET q == check_patch(at, p)
         IN  IF q.skip > at
             THEN WholeStrides(q.skip, address, q, offset + q.skip - at)
             ELSE WholeStrides(at + 1, address, q, offset)

RECURSIVE resolve_seqaddr(_, _, _, _)
resolve_seqaddr(at, address, p, offset) ==
    IF at >= address
    THEN address - offset
    ELSE LET q == check_patch(at, p)
         IN  IF q.skip > at
             THEN resolve_seqaddr(q.skip, address, q,
                      offset + (IF q.skip < address THEN q.skip ELSE address)
                             - at)
             ELSE resolve_seqaddr(at + 1, address, q, offset)

Downloaded(at) ==
    [at |-> at,
     address |-> IF seq_program[at + 1].jump = NoJump THEN Undefined
                 ELSE resolve_seqaddr(0, seq_program[at + 1].address,
                                      [cur |-> 1, skip |-> 0], 0)]

(***************************************************************************)
(* The walk through the critical sections.  begin_set and end_set of the   *)
(* section at hand tell whether cs_table ends in an open entry.            *)
(***************************************************************************)
Open(table) == table # <<>> /\ Last(table).end = Undefined

Passed(k) == k > Len(cs_tailq) \/ cs_tailq[k].end > i

NextCs == CHOOSE k \in cur_cs .. Len(cs_tailq) + 1 :
              Passed(k) /\ \A j \in cur_cs .. k - 1 : ~Passed(j)

Closed(table) ==
    IF Open(table) THEN [table EXCEPT ![Len(table)].end = downloaded] ELSE table

Opened(table, k) ==
    IF k <= Len(cs_tailq) /\ cs_tailq[k].begin <= i /\ ~Open(table)
    THEN Append(table, [begin |-> downloaded, end |-> Undefined])
    ELSE table

LoadInstr ==
    /\ pass = "load" /\ i < instruction_ptr
    /\ \E p \in {check_patch(i, [cur |-> cur_patch, skip |-> skip_addr])} :
         /\ cur_patch' = p.cur /\ skip_addr' = p.skip
         /\ \/ /\ i < p.skip
               /\ i' = i + 1
               /\ UNCHANGED <<pass, image, cur_cs, cs_table>>
            \/ /\ i >= p.skip
               /\ downloaded = RamSize
               /\ pass' = "ENOMEM"
               /\ UNCHANGED <<i, image, cur_cs, cs_table>>
            \/ /\ i >= p.skip
               /\ downloaded < RamSize
               /\ cur_cs' = NextCs
               /\ cs_table' = Opened(IF NextCs > cur_cs THEN Closed(cs_table)
                                     ELSE cs_table, NextCs)
               /\ image' = Append(image, Downloaded(i))
               /\ i' = i + 1
               /\ UNCHANGED pass
    /\ UNCHANGED <<seq_program, scopes, scope_stack, linfo, cs_tailq, patches,
                   features, SEQADDR, steps, pauses>>

\* The sequencer is restarted at 0.
LoadEnds ==
    /\ pass = "load" /\ i = instruction_ptr
    /\ pass' = "run"
    /\ cs_table' = critical_sections
    /\ UNCHANGED <<seq_program, scopes, scope_stack, linfo, cs_tailq, patches,
                   features, i, cur_patch, skip_addr, cur_cs, image,
                   SEQADDR, steps, pauses>>

---------------------------------------------------------------------------
(* The sequencer.  A jump may be taken or not; a program that runs off its *)
(* end starts over.                                                        *)

Successors(a) ==
    {(a + 1) % downloaded} \union
    (IF image[a + 1].address = Undefined THEN {}
     ELSE {image[a + 1].address % downloaded})

Execute ==
    /\ SEQADDR' \in Successors(SEQADDR)
    /\ UNCHANGED <<asmVars, features, i, cur_patch, skip_addr, cur_cs,
                   cs_table, image, pauses>>

\* Without critical sections ahc_clear_critical_section returns at once.
Run == pass = "run" /\ cs_table # <<>> /\ pauses < MaxPauses
       /\ Execute /\ UNCHANGED steps

Pause ==
    /\ pass = "run" /\ cs_table # <<>> /\ pauses < MaxPauses
    /\ pass' = "clear" /\ pauses' = pauses + 1 /\ steps' = 0
    /\ UNCHANGED <<seq_program, scopes, scope_stack, linfo, cs_tailq, patches,
                   features, i, cur_patch, skip_addr, cur_cs, cs_table,
                   image, SEQADDR>>

\* Mutated: one is taken off an address that is not ahead.
ReadOneBehind ==
    \E k \in DOMAIN cs_table :
        cs_table[k].begin < SEQADDR - 1 /\ SEQADDR - 1 <= cs_table[k].end

\* The aic7xxx reads the address of the next fetch and takes one off.
InSection ==
    \E k \in DOMAIN cs_table :
        cs_table[k].begin < SEQADDR /\ SEQADDR <= cs_table[k].end

Step == pass = "clear" /\ InSection /\ steps <= MaxSteps
        /\ Execute /\ steps' = steps + 1

Becomes(p) ==
    /\ pass' = p
    /\ UNCHANGED <<seq_program, scopes, scope_stack, linfo, cs_tailq, patches,
                   loadVars>>

PanicCriticalSectionLoop == pass = "clear" /\ InSection /\ steps > MaxSteps
                            /\ Becomes("panic")
Cleared  == pass = "clear" /\ ~InSection /\ Becomes("paused")
Unpause  == pass = "paused" /\ Becomes("run")

Next == \/ Assemble \/ LoadBegins \/ LoadInstr \/ LoadEnds
        \/ Run \/ Pause \/ Step \/ PanicCriticalSectionLoop \/ Cleared
        \/ Unpause

Spec == Init /\ [][Next]_vars

---------------------------------------------------------------------------
(* What a reader of the source expects.                                    *)

Applies(when) == when.yes \subseteq features /\ when.no \cap features = {}

Loaded == pass \in {"run", "clear", "paused", "panic"}

Below(a) == {n \in 0 .. a - 1 : Applies(seq_program[n + 1].when)}

TypeOK ==
    /\ pass \in {"parse", "assembled", "load", "ENOMEM", "run", "clear", "paused", "panic"}
    /\ i \in 0 .. instruction_ptr
    /\ cur_patch \in 1 .. Len(patches) + 1
    /\ skip_addr \in 0 .. instruction_ptr
    /\ cur_cs \in 1 .. Len(cs_tailq) + 1
    /\ \A k \in DOMAIN cs_table :
         cs_table[k].begin \in 0 .. downloaded /\
         cs_table[k].end \in {Undefined} \union 0 .. downloaded
    /\ Loaded => SEQADDR \in 0 .. downloaded - 1

\* The chip gets the instructions whose conditions hold for it, in order, and
\* no other, however conditionals are nested and chained (process_scope,
\* emit_patch, ahc_check_patch): the skip counts of a patch depend on every
\* scope inside it and behind it.
LoadedIsSelected ==
    Loaded => image = [n \in 1 .. Cardinality(Below(instruction_ptr)) |->
                          [image[n] EXCEPT !.at =
                               CHOOSE a \in Below(instruction_ptr) :
                                   Cardinality(Below(a)) = n - 1]]

\* And the walk stays inside the program, its patches and its sections.
ImageIsSelected == TypeOK /\ LoadedIsSelected

\* A jump goes to the first instruction at or behind its label that was
\* downloaded: the patches are walked once more for every jump, from the start
\* and with strides (ahd_resolve_seqaddr), and must give the same answer.
JumpsReachTheirLabel ==
    Loaded =>
        \A n \in DOMAIN image :
            LET jump == seq_program[image[n].at + 1].jump
            IN  jump # NoJump =>
                    image[n].address = Cardinality(Below(linfo[jump]))

\* No section of which something was downloaded is lost or blurred: while the
\* sequencer stands where ahc_clear_critical_section left it, it has not
\* executed a part of a section whose rest comes next, in the source's terms.
PausedOutsideSections ==
    pass = "paused" =>
        \A k \in DOMAIN cs_tailq :
            LET at == image[SEQADDR + 1].at
            IN  at \in cs_tailq[k].begin .. cs_tailq[k].end - 1 =>
                    Below(at) \subseteq Below(cs_tailq[k].begin)

=============================================================================
