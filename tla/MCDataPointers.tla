--------------------------- MODULE MCDataPointers ---------------------------
(***************************************************************************)
(* Instances of the data path of both families for TLC.  A behaviour is    *)
(* one of the aic7xxx (AhcDataPointers) or one of the aic79xx (AhdDataFifo);*)
(* the other family stands still.                                          *)
(***************************************************************************)
EXTENDS AhdDataFifo

CONSTANTS PointerLists, AfterResidue, MaxPhases

\* Of AhcDataPointers: a segment is not empty, and there is at least one.
ASSUME PointersAssumption ==
    /\ \A list \in PointerLists :
          /\ list \in Seq(Nat \ {0}) /\ list # <<>>
          /\ \A i, j \in DOMAIN list : i < j => list[i] < list[j]
    /\ AfterResidue \subseteq {"save", "restore"}
    /\ MaxPhases \in Nat

VARIABLES family, ahcList, ahcScb, residual, odd, DPHASE, shaddr, phase,
          overrun, greedy, written, target, phases, ahcResid

Ahc == INSTANCE AhcDataPointers
           WITH SgLists <- PointerLists, sg_list <- ahcList, scb <- ahcScb,
                memory <- written, resid <- ahcResid

ahcVars == <<ahcList, ahcScb, residual, odd, DPHASE, shaddr, phase, overrun,
             greedy, written, target, phases, ahcResid>>

MCFifoLists    == {<<>>, <<2>>, <<1, 3>>, <<1, 2, 3>>}
MCPointerLists == {<<4>>, <<3>>, <<2, 5>>, <<3, 4, 6>>, <<1, 5>>}

FamilyInit ==
    /\ Init /\ Ahc!Init
    /\ \/ family = "aic7xxx" /\ sg_list = <<>>
       \/ family = "aic79xx" /\ ahcList = <<4>>

FamilyNext ==
    /\ UNCHANGED family
    /\ \/ family = "aic7xxx" /\ Ahc!Next /\ UNCHANGED vars
       \/ family = "aic79xx" /\ Next /\ UNCHANGED ahcVars

FamilySpec ==
    /\ FamilyInit
    /\ [][FamilyNext]_<<family, vars, ahcVars>>
    /\ Fairness

\* Every byte of an aic7xxx transfer ends up at its place (AhcDataPointers).
BytesInPlace == Ahc!TypeOK /\ Ahc!BytesInPlace

\* The residual an aic7xxx transfer reports is right (AhcDataPointers).
ResidualIsRight == Ahc!ResidualIsRight

\* The data of a packetized command are in memory before it is completed
\* (AhdDataFifo).
DataComesFirst == TypeOK /\ DataBeforeCompletion
=============================================================================
