------------------------------ MODULE MCCardLists ------------------------------
(***************************************************************************)
(* Instances of the lists on the card of both families for TLC.  A         *)
(* behaviour is one of the aic7xxx (AhcCardScbs) or one of the aic79xx     *)
(* (AhdQueues); the other family stands still.  The commands and their     *)
(* targets have the same names in both, so that both have the same         *)
(* symmetries.                                                             *)
(***************************************************************************)
EXTENDS MCAhdQueues

CONSTANTS NumSlots, Twin

\* Of AhcCardScbs.
ASSUME CardScbsAssumption ==
    /\ NumSlots \in Nat /\ NumSlots >= 2
    /\ SCB_LIST_NULL \notin 0 .. NumSlots - 1
    /\ Twin \in BOOLEAN

VARIABLES family, ram, SCBPTR, SCB_DMA, seq, job, ARG_1, where, target, hostdata,
          saved, left, forgotten, unsaved, doubled

Ahc == INSTANCE MCCardScbs WITH Tags <- Scbs, Devices <- Targets

ahcVars == <<ram, SCBPTR, SCB_DMA, seq, job, ARG_1, where, target, hostdata,
             saved, left, forgotten, unsaved, doubled>>

FamilyInit == family \in {"aic7xxx", "aic79xx"} /\ Init /\ Ahc!Init

FamilyNext ==
    /\ UNCHANGED family
    /\ \/ family = "aic7xxx" /\ Ahc!Next /\ UNCHANGED vars
       \/ family = "aic79xx" /\ Next /\ UNCHANGED ahcVars

FamilySpec == FamilyInit /\ [][FamilyNext]_<<family, vars, ahcVars>>

\* What the future depends on, and what is followed (MCCardScbs, MCAhdQueues).
FamilyState ==
    <<family, IF family = "aic7xxx" THEN Ahc!LiveState ELSE LiveState>>
Followed == Ahc!Followed

\* The lists of an aic7xxx account for every slot (AhcCardScbs).
SlotsConsistent == Ahc!SlotsConsistent

\* An aic7xxx always finds a slot for the next command (AhcCardScbs).
AlwaysAScb == Ahc!AlwaysAScb

\* On an aic7xxx data pointers survive paging (AhcCardScbs).
DataPointersSurvive == Ahc!DataPointersSurvive
=============================================================================
