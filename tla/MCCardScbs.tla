------------------------------ MODULE MCCardScbs ------------------------------
(***************************************************************************)
(* Instances of AhcCardScbs for TLC: more commands than slots, so that     *)
(* SCBs are paged.                                                         *)
(***************************************************************************)
EXTENDS AhcCardScbs, TLC

Symmetries == Permutations(Tags) \cup Permutations(Devices)

\* What the future depends on: not which slots make up the lists, but what is
\* in them; nor the links and data of other slots, the target and data of a tag
\* without a command, or what the sequencer moved last.
Contents(s)      == <<ram.tag[s], ram.data[s]>>
TagsOf(list)     == [i \in DOMAIN list |-> ram.tag[list[i]]]
ContentsOf(list) == [i \in DOMAIN list |-> Contents(list[i])]
Busy == {t \in Tags : where[t] # "none"}
LiveState ==
    <<TagsOf(FreeList), ContentsOf(WaitingList), ContentsOf(DiscList),
      {<<ram.tag[s], s \in left, s \in forgotten>> : s \in Lost},
      <<Cardinality(Held), Lost \cap Held = {}>>,
      where, unsaved \cap Busy, doubled,
      {<<t, target[t], hostdata[t], saved[t]>> : t \in Busy},
      IF seq = "poll" THEN <<seq>> ELSE <<seq, Contents(SCBPTR)>>,
      IF seq \in Moving THEN <<job, ARG_1, target[ARG_1]>> ELSE <<>>,
      SCB_DMA,
      IF seq = "poll" /\ SCB_DMA
      THEN {list \in {FreeList, WaitingList, DiscList} : SCBPTR \in SlotsOf(list)}
      ELSE {}>>

\* States in which a slot has been freed twice, of whose lists nothing is
\* claimed, or two of the three slots are lost, are checked and not followed any
\* further.
Followed == ~doubled /\ Cardinality(Slots \ Lost) >= 2
=============================================================================
