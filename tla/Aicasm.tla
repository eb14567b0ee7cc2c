------------------------------- MODULE Aicasm -------------------------------
(***************************************************************************)
(* The firmware assembler (common/aicasm): conditional code, labels, jumps *)
(* and critical sections of a sequencer program, and the tables it leaves  *)
(* for the driver.                                                         *)
(*                                                                         *)
(* One action stands for one production of aicasm_gram.y, so that a        *)
(* behaviour assembles any program within the bounds.  The instructions    *)
(* under every condition are put into the program: which of them a chip    *)
(* gets is decided by the driver (SeqLoad) from the table of patches.  A   *)
(* patch says: if my function does not hold, skip so many instructions,    *)
(* and so many patches of the table.                                       *)
(*                                                                         *)
(* Addresses count from 0 and tables from 1.  Programs the parser rejects  *)
(* (`stop') are left out, and so are those that it takes although they     *)
(* mean nothing: an `else' that does not follow its `if' at once or        *)
(* follows an `else'.                                                      *)
(***************************************************************************)
EXTENDS Integers, Sequences, FiniteSets, SequencesExt

CONSTANTS Funcs,         \* the conditions, in the order of their first use
          Labels,
          MaxInstr, MaxScopes, MaxSections, MaxJumps,
          MaxSize,       \* of the program altogether, see Size
          EmptyBodies    \* may a conditional enclose no instruction?

VARIABLES pass,          \* "parse", "assembled", ...
          seq_program,   \* the instructions: [jump, address, when]
          scopes,        \* scope 1 is the root
          scope_stack,   \* the open scopes, the innermost one last
          linfo,         \* label -> address, or Undefined
          cs_tailq,      \* critical sections [begin, end]
          patches        \* [func, begin, skip_instr, skip_patch]

asmVars == <<pass, seq_program, scopes, scope_stack, linfo, cs_tailq, patches>>

Undefined == -1
NoJump    == "no jump"
Never     == "patch0_func"      \* return (0)
Always    == [yes |-> {}, no |-> {}]

instruction_ptr == Len(seq_program)
Context == Last(scope_stack)
InnerLast == Last(scopes[Context].inner)
in_critical_section ==
    cs_tailq # <<>> /\ Last(cs_tailq).end = Undefined

Jumps == {i \in DOMAIN seq_program : seq_program[i].jump # NoJump}

\* What the bound MaxSize counts: any program so large is assembled.
Size == instruction_ptr + (Len(scopes) - 1)
        + 2 * (Len(cs_tailq) + Cardinality(Jumps))

(***************************************************************************)
(* A scope.  `when' and `chain' are not the assembler's: the conditions a  *)
(* reader of the source sees on the code in the scope, and those of the    *)
(* if ... else if chain up to it.                                          *)
(***************************************************************************)
NoPatch == [instr |-> 0, patch |-> 0]

Scope(type, func, when, chain) ==
    [type |-> type, func |-> func, begin |-> instruction_ptr,
     end |-> Undefined, inner |-> <<>>, inner_scope_patches |-> 0,
     head |-> NoPatch, tail |-> NoPatch, when |-> when, chain |-> chain]

AsmInit ==
    /\ pass = "parse"
    /\ seq_program = <<>>
    /\ scopes = << [type |-> "root", func |-> Never, begin |-> 0,
                    end |-> Undefined, inner |-> <<>>,
                    inner_scope_patches |-> 0, head |-> NoPatch,
                    tail |-> NoPatch, when |-> Always, chain |-> {}] >>
    /\ scope_stack = <<1>>
    /\ linfo = [l \in Labels |-> Undefined]
    /\ cs_tailq = <<>>
    /\ patches = <<>>

---------------------------------------------------------------------------
(* code: an instruction, or a jump to a label that may still be undefined, *)
(* behind its labels.                                                      *)

Code(jump, labels) ==
    /\ pass = "parse" /\ instruction_ptr < MaxInstr
    /\ Size < MaxSize
    /\ jump # NoJump => Cardinality(Jumps) < MaxJumps /\ Size < MaxSize - 2
    /\ \A l \in labels : linfo[l] = Undefined
    /\ linfo' = [l \in Labels |-> IF l \in labels THEN instruction_ptr
                                  ELSE linfo[l]]
    /\ seq_program' = Append(seq_program,
           [jump |-> jump,
            address |-> IF jump = NoJump THEN Undefined ELSE linfo'[jump],
            when |-> scopes[Context].when])
    /\ UNCHANGED <<pass, scopes, scope_stack, cs_tailq, patches>>

BeginCs ==
    /\ pass = "parse" /\ ~in_critical_section
    /\ Len(cs_tailq) < MaxSections /\ Size < MaxSize - 1
    /\ cs_tailq' = Append(cs_tailq,
                          [begin |-> instruction_ptr, end |-> Undefined])
    /\ UNCHANGED <<pass, seq_program, scopes, scope_stack, linfo, patches>>

EndCs ==
    /\ pass = "parse" /\ in_critical_section
    /\ Last(cs_tailq).begin < instruction_ptr
    /\ cs_tailq' = [cs_tailq EXCEPT ![Len(cs_tailq)].end = instruction_ptr]
    /\ UNCHANGED <<pass, seq_program, scopes, scope_stack, linfo, patches>>

---------------------------------------------------------------------------
(* conditional: if (...) {, else if (...) {, else {                        *)

scope_alloc(scope) ==
    /\ Len(scopes) <= MaxScopes /\ Size < MaxSize
    /\ scopes' = Append([scopes EXCEPT ![Context].inner =
                             Append(@, Len(scopes) + 1)], scope)
    /\ scope_stack' = Append(scope_stack, Len(scopes) + 1)
    /\ UNCHANGED <<pass, seq_program, linfo, cs_tailq, patches>>

If(f) ==
    /\ pass = "parse"
    /\ scope_alloc(Scope("if", f,
           [scopes[Context].when EXCEPT !.yes = @ \union {f}], {f}))

\* An else branch directly follows the end of a branch of the chain.
FollowsIf ==
    /\ scopes[Context].inner # <<>>
    /\ scopes[InnerLast].type # "else"
    /\ scopes[InnerLast].end = instruction_ptr
    /\ EmptyBodies \/ scopes[InnerLast].begin < instruction_ptr

ElseIf(f) ==
    /\ pass = "parse" /\ FollowsIf
    /\ scope_alloc(Scope("else if", f,
           [yes |-> scopes[Context].when.yes \union {f},
            no |-> scopes[Context].when.no \union scopes[InnerLast].chain],
           scopes[InnerLast].chain \union {f}))

Else ==
    /\ pass = "parse" /\ FollowsIf
    /\ scope_alloc(Scope("else", Never,
           [scopes[Context].when EXCEPT !.no =
                @ \union scopes[InnerLast].chain], {}))

(***************************************************************************)
(* process_scope: when a scope ends, the patches of the scopes directly    *)
(* inside it are sized from the last one back.  A branch that others       *)
(* follow gets a tail patch that skips them.                               *)
(***************************************************************************)
\* Mutated: the patches inside a scope are not counted.
InnerNotCounted(c, acc) ==
    LET cur  == acc.scopes[c]
        len  == cur.end - cur.begin
        tail == IF acc.instrs = 0 THEN NoPatch
                ELSE [instr |-> acc.instrs, patch |-> acc.patches + 1]
        head == IF tail = NoPatch THEN 1 ELSE 2
    IN  IF cur.type = "else"
        THEN [acc EXCEPT !.instrs = @ + len]
        ELSE [scopes |-> [acc.scopes EXCEPT
                             ![c].tail = tail,
                             ![c].head = [instr |-> len, patch |-> head]],
              patches |-> IF cur.type = "if" THEN 0 ELSE acc.patches + head,
              instrs |-> IF cur.type = "if" THEN 0 ELSE acc.instrs + len,
              total |-> 0]

Sized(c, acc) ==
    LET cur  == acc.scopes[c]
        len  == cur.end - cur.begin
        tail == IF acc.instrs = 0 THEN NoPatch
                ELSE [instr |-> acc.instrs, patch |-> acc.patches + 1]
        head == cur.inner_scope_patches + (IF tail = NoPatch THEN 1 ELSE 2)
    IN  IF cur.type = "else"
        THEN [acc EXCEPT !.patches = @ + cur.inner_scope_patches,
                         !.instrs = @ + len]
        ELSE [scopes |-> [acc.scopes EXCEPT
                             ![c].tail = tail,
                             ![c].head = [instr |-> len, patch |-> head]],
              patches |-> IF cur.type = "if" THEN 0 ELSE acc.patches + head,
              instrs |-> IF cur.type = "if" THEN 0 ELSE acc.instrs + len,
              total |-> acc.total +
                        (IF cur.type = "if" THEN acc.patches + head ELSE 0)]

process_scope(s, sc) ==
    LET acc == FoldRight(Sized, sc[s].inner,
                   [scopes |-> sc, patches |-> 0, instrs |-> 0, total |-> 0])
    IN  [acc.scopes EXCEPT ![s].inner_scope_patches = @ + acc.total]

\* conditional: }
Close ==
    /\ pass = "parse" /\ Context # 1
    /\ EmptyBodies \/ scopes[Context].begin < instruction_ptr
    /\ scopes' = process_scope(Context,
                     [scopes EXCEPT ![Context].end = instruction_ptr])
    /\ scope_stack' = Front(scope_stack)
    /\ UNCHANGED <<pass, seq_program, linfo, cs_tailq, patches>>

---------------------------------------------------------------------------
(* The end of the source: main() sizes the root, writes the patches of the *)
(* tree of scopes and resolves the forward jumps.                          *)

emit_patch(patch, func, begin) ==
    IF patch.instr = 0 THEN <<>>
    ELSE << [func |-> func, begin |-> begin, skip_instr |-> patch.instr,
             skip_patch |-> patch.patch] >>

RECURSIVE dump_scope(_, _)
dump_scope(s, sc) ==
    emit_patch(sc[s].head, sc[s].func, sc[s].begin)
        \o FoldLeft(LAMBDA acc, c : acc \o dump_scope(c, sc), <<>>, sc[s].inner)
        \o emit_patch(sc[s].tail, Never, sc[s].end)

back_patch ==
    [i \in DOMAIN seq_program |->
        IF seq_program[i].jump = NoJump \/ seq_program[i].address # Undefined
        THEN seq_program[i]
        ELSE [seq_program[i] EXCEPT !.address = linfo[seq_program[i].jump]]]

\* Every label is used and defined, and both programs end in unconditional code outside of critical sections.
EndOfSource ==
    /\ pass = "parse" /\ scope_stack = <<1>>
    /\ instruction_ptr > 0 /\ Last(seq_program).when = Always
    /\ \A k \in DOMAIN cs_tailq : cs_tailq[k].end \in 1 .. instruction_ptr - 1
    /\ \A l \in Labels : linfo[l] # Undefined <=>
                            \E i \in Jumps : seq_program[i].jump = l
    /\ pass' = "assembled"
    /\ scopes' = process_scope(1, scopes)
    /\ patches' = dump_scope(1, scopes')
    /\ seq_program' = back_patch
    /\ UNCHANGED <<scope_stack, linfo, cs_tailq>>

AsmNext ==
    \/ \E j \in Labels \union {NoJump}, labels \in SUBSET Labels :
         Code(j, labels)
    \/ BeginCs \/ EndCs
    \/ \E f \in Funcs : If(f) \/ ElseIf(f)
    \/ Else \/ Close
    \/ EndOfSource
=============================================================================
