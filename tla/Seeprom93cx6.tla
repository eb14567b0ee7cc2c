---------------------------- MODULE Seeprom93cx6 ----------------------------
(***************************************************************************)
(* The serial EEPROM of an aic7xxx board, read and written bit by bit      *)
(* through SEECTL (aic7xxx_93cx6.c).                                       *)
(*                                                                         *)
(* One step is one clock of the host: it sets the data out line with the   *)
(* clock low, looks at the data in line when it is reading, and raises the *)
(* clock.  The wait for SEERDY in CLOCK_PULSE is part of the step.  The    *)
(* part (C46 with 6 address bits, C56/C66 with 8) takes a bit at a rising  *)
(* clock, acts when a command is complete, and begins to program a word    *)
(* when chip select falls.                                                 *)
(*                                                                         *)
(* Nobody tells the host which part is fitted: check_extport reads with 6  *)
(* address bits first, and with 8 if the checksum is wrong.                *)
(***************************************************************************)
EXTENDS Integers, Sequences, SequencesExt

CONSTANTS Starts,      \* values of start_addr
          Count,       \* words of one call
          Words,       \* what is written
          MaxCalls

C46    == 6            \* enum: the number of address bits
C56_66 == 8

VARIABLES sd_chip,     \* the part the host thinks is there
          op, k, start_addr, buf,          \* arguments and progress
          todo,        \* bits still to be sent before CS falls
          v, left,     \* the word read so far, the bits still to read
          phase,       \* "idle", "send", "receive", "program", "reset"
          calls,
          part,        \* the part that is fitted
          sh,          \* the bits it took since its start bit
          out,         \* the bits it is about to present
          unlocked, busy, memory

hostVars == <<sd_chip, op, k, start_addr, buf, todo, v, left, phase, calls>>
partVars == <<part, sh, out, unlocked, busy, memory>>
vars     == <<hostVars, partVars>>

\* Mutated: the least significant first.
LowFirst(x, n) == [j \in 1 .. n |-> (x \div 2 ^ (j - 1)) % 2]

\* n bits of x, the most significant first
Bits(x, n) == [j \in 1 .. n |-> (x \div 2 ^ (n - j)) % 2]

Number(bits) == FoldLeft(LAMBDA acc, b : 2 * acc + b, 0, bits)

seeprom_read  == <<1, 1, 0>>
seeprom_write == <<1, 0, 1>>
seeprom_ewen(chip) == <<1, 0, 0, 1, 1>> \o Bits(0, chip - 2)
seeprom_ewds(chip) == <<1, 0, 0, 0, 0>> \o Bits(0, chip - 2)

---------------------------------------------------------------------------
(* The part.  Memory holds what was written; every other word holds a      *)
(* value of its own, so that a word read from a wrong address shows.       *)

Stored(m, a) == IF a \in DOMAIN m THEN m[a] ELSE (a * 2571 + 40961) % 65536

\* A word follows a leading zero.  The line is high when nothing is shifted out.
DI == IF busy THEN 0 ELSE IF out = <<>> THEN 1 ELSE Head(out)

\* What the part does when it has all address bits of a command.
Presented(bits) ==
    IF Len(bits) = 3 + part /\ SubSeq(bits, 1, 3) = seeprom_read
    THEN <<0>> \o Bits(Stored(memory, Number(SubSeq(bits, 4, 3 + part))), 16)
    ELSE <<>>

Unlocked(bits) ==
    IF Len(bits) = 3 + part /\ SubSeq(bits, 1, 3) = <<1, 0, 0>>
    THEN SubSeq(bits, 4, 5) = <<1, 1>> \/
         (unlocked /\ SubSeq(bits, 4, 5) # <<0, 0>>)
    ELSE unlocked

\* A rising clock with CS high.  Until the start bit the part ignores zeros.
Rise(bit) ==
    /\ UNCHANGED <<part, memory>>
    /\ \/ /\ out # <<>>
          /\ out' = Tail(out) /\ UNCHANGED <<sh, unlocked>>
       \/ /\ out = <<>> /\ sh = <<>> /\ bit = 0
          /\ UNCHANGED <<sh, out, unlocked>>
       \/ /\ out = <<>> /\ (sh # <<>> \/ bit = 1)
          /\ sh' = Append(sh, bit)
          /\ out' = Presented(sh') /\ unlocked' = Unlocked(sh')

\* CS falls: a write command that has all its bits is carried out.
Programmed ==
    IF Len(sh) = 3 + part + 16 /\ SubSeq(sh, 1, 3) = seeprom_write /\ unlocked
    THEN (Number(SubSeq(sh, 4, 3 + part)) :> Number(SubSeq(sh, 4 + part, Len(sh))))
             @@ memory
    ELSE memory

Deselect ==
    /\ memory' = Programmed
    /\ busy' = (Programmed # memory)
    /\ sh' = <<>> /\ out' = <<>>
    /\ UNCHANGED <<part, unlocked>>

\* A part that is busy becomes ready when it likes.
Ready == busy' \in {busy, FALSE}

---------------------------------------------------------------------------
Init ==
    /\ sd_chip = C46 /\ op = "none" /\ k = 0 /\ start_addr = 0
    /\ buf = <<>> /\ todo = <<>> /\ v = 0 /\ left = 0 /\ phase = "idle"
    /\ calls = 0
    /\ part \in {C46, C56_66}
    /\ sh = <<>> /\ out = <<>> /\ unlocked = FALSE /\ busy = FALSE
    /\ memory = [a \in {} |-> 0]

\* The bits of one command, CS high in front of it for one clock.
Command(bits) == todo' = <<0>> \o bits /\ phase' = "send"

WordCommand(o, address, word) ==
    IF o = "read" THEN seeprom_read \o Bits(address, sd_chip')
    ELSE seeprom_write \o Bits(address, sd_chip') \o Bits(word, 16)

Call(o, chip, start) ==
    /\ phase = "idle" /\ calls < MaxCalls
    /\ calls' = calls + 1
    /\ op' = o /\ sd_chip' = chip /\ start_addr' = start /\ k' = start
    /\ v' = 0
    /\ UNCHANGED <<left, partVars>>

\* ahc_read_seeprom
Read(chip, start) ==
    /\ Call("read", chip, start)
    /\ buf' = <<>>
    /\ Command(WordCommand("read", start, 0))

\* ahc_write_seeprom: writing is enabled first.
Write(start, words) ==
    /\ Call("ewen", part, start)
    /\ buf' = words
    /\ Command(seeprom_ewen(part))

Unchanged == UNCHANGED <<sd_chip, op, k, start_addr, calls>>

\* One bit of a command, its address or its data.
Send ==
    /\ phase = "send" /\ todo # <<>>
    /\ Rise(Head(todo)) /\ Ready
    /\ todo' = Tail(todo)
    /\ Unchanged /\ UNCHANGED <<buf, v, left, phase>>

\* The command is out: a read goes on with 17 clocks.
Sent ==
    /\ phase = "send" /\ todo = <<>>
    /\ phase' = IF op = "read" THEN "receive" ELSE "reset"
    /\ left' = 17 /\ v' = 0
    /\ Unchanged /\ UNCHANGED <<buf, todo, partVars>>

\* The leading zero is shifted off the top of the word.
Receive ==
    /\ phase = "receive" /\ left > 0
    /\ v' = (2 * v + DI) % 65536
    /\ Rise(0) /\ Ready
    /\ left' = left - 1
    /\ Unchanged /\ UNCHANGED <<buf, todo, phase>>

Received ==
    /\ phase = "receive" /\ left = 0
    /\ buf' = Append(buf, v)
    /\ phase' = "reset"
    /\ Unchanged /\ UNCHANGED <<todo, v, left, partVars>>

\* A write waits with CS high until the part is ready.
Poll ==
    /\ phase = "program" /\ DI = 0
    /\ Rise(0) /\ Ready
    /\ Unchanged /\ UNCHANGED <<buf, todo, v, left, phase>>

NextWord ==
    /\ op' = IF k + 1 = start_addr + Count /\ op # "read" THEN "ewds" ELSE op
    /\ k' = k + 1
    /\ IF op' = "ewds" THEN Command(seeprom_ewds(sd_chip))
       ELSE Command(WordCommand(op', k + 1,
                                IF op' = "read" THEN 0
                                ELSE buf[k + 2 - start_addr]))

\* reset_seeprom: CS falls.
Reset ==
    /\ phase = "reset"
    /\ Deselect
    /\ UNCHANGED <<sd_chip, start_addr, buf, v, left, calls>>
    /\ \/ /\ op = "ewen"
          /\ op' = "write" /\ k' = k
          /\ Command(WordCommand("write", k, buf[1]))
       \/ /\ op = "write"
          /\ phase' = "program" /\ UNCHANGED <<op, k, todo>>
       \/ /\ op = "read" /\ k + 1 < start_addr + Count
          /\ NextWord
       \/ /\ op = "read" /\ k + 1 = start_addr + Count
          /\ phase' = "idle" /\ k' = k + 1 /\ UNCHANGED <<op, todo>>
       \/ /\ op = "ewds"
          /\ phase' = "idle" /\ UNCHANGED <<op, k, todo>>

\* The part is ready: CS falls once more and the next command follows.
Written ==
    /\ phase = "program" /\ DI = 1
    /\ Deselect
    /\ UNCHANGED <<sd_chip, start_addr, buf, v, left, calls>>
    /\ NextWord

Next ==
    \/ \E chip \in {C46, C56_66}, s \in Starts : Read(chip, s)
    \/ \E s \in Starts, words \in [1 .. Count -> Words] : Write(s, words)
    \/ Send \/ Sent \/ Receive \/ Received \/ Poll \/ Reset \/ Written

Spec == Init /\ [][Next]_vars

---------------------------------------------------------------------------
Asked == {start_addr + j : j \in 0 .. Count - 1}

TypeOK ==
    /\ sd_chip \in {C46, C56_66} /\ part \in {C46, C56_66}
    /\ phase \in {"idle", "send", "receive", "program", "reset"}
    /\ op \in {"none", "ewen", "ewds", "read", "write"}
    /\ left \in 0 .. 17 /\ v \in 0 .. 65535
    /\ DOMAIN memory \subseteq 0 .. 255

\* A read with the right number of address bits returns the words that are
\* stored, whatever was written or misread before (ahc_read_seeprom).
ReadsWhatIsStored ==
    phase = "idle" /\ op = "read" /\ sd_chip = part =>
        buf = [j \in 1 .. Count |-> Stored(memory, start_addr + j - 1)]

\* A write leaves its words, and them alone, in the part and locks it again; a
\* read, with whatever number of address bits, changes nothing: check_extport
\* tries 6 bits on every part and 8 on a part of 6 whose checksum is wrong.
WritesOnlyWhatIsAsked ==
    /\ phase = "idle" => ~unlocked
    /\ phase = "idle" /\ op = "ewds" =>
         \A j \in 1 .. Count : Stored(memory, start_addr + j - 1) = buf[j]

NothingElseChanges ==
    [][memory' # memory =>
          /\ op = "write" /\ k \in Asked
          /\ \A a \in 0 .. 255 : Stored(memory', a) # Stored(memory, a) => a = k]_vars
=============================================================================
