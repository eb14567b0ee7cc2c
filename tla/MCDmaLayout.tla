----------------------------- MODULE MCDmaLayout -----------------------------
(***************************************************************************)
(* Instances of the memory of both families for TLC: the extension at the  *)
(* start of a page, just behind it, in the middle and just before the next *)
(* one.  A behaviour is one of the aic7xxx or one of the aic79xx.          *)
(***************************************************************************)
EXTENDS AhcDmaLayout

CONSTANTS AhdPoolFailures, SgListSizes

\* Of AhdDmaLayout.
ASSUME PoolsAssumption == /\ SgListSizes \subseteq {1024, 2048}
                          /\ AhdPoolFailures \in Nat

VARIABLES family, sgSize, ahdStep, shared, page, left, scbs, ahdRefused

Ahd == INSTANCE AhdDmaLayout
           WITH step <- ahdStep, refused <- ahdRefused,
                PoolFailures <- AhdPoolFailures

ahdVars == <<sgSize, ahdStep, shared, page, left, scbs, ahdRefused>>
ahcVars == <<remain, step, qoutfifo, hscbs, sense, sg_list, numscbs, refused>>

MCBases == {8192, 8193, 10240, 12287}

FamilyInit == family \in {"aic7xxx", "aic79xx"} /\ Init /\ Ahd!Init

FamilyNext ==
    /\ UNCHANGED family
    /\ \/ family = "aic7xxx" /\ Next /\ UNCHANGED ahdVars
       \/ family = "aic79xx" /\ Ahd!Next /\ UNCHANGED ahcVars

FamilySpec ==
    FamilyInit /\ [][FamilyNext]_<<family, base, ptr, failures, ahcVars, ahdVars>>

\* No piece of memory belongs to two SCBs of the aic79xx (AhdDmaLayout).
AhdPiecesApart == TypeOK /\ Ahd!TypeOK /\ Ahd!PiecesApart

\* Failures of pool memory cost the aic79xx no SCB (AhdDmaLayout).
AhdNothingIsLost == Ahd!NothingIsLost
=============================================================================
