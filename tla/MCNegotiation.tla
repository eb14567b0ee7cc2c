----------------------------- MODULE MCNegotiation -----------------------------
(***************************************************************************)
(* Instances of the negotiation of both families for TLC: a behaviour is   *)
(* one of the aic7xxx or one of the aic79xx.                               *)
(***************************************************************************)
EXTENDS AhcNegotiation, TLC

CONSTANTS AhdScbs, AhdMaxErrors

VARIABLES family, ahd, ahdTarget, ahdErrors

Ahd == INSTANCE AhdMessages
           WITH Scbs <- AhdScbs, MaxErrors <- AhdMaxErrors,
                target <- ahdTarget, errors <- ahdErrors

ahdVars == <<ahd, ahdTarget, ahdErrors>>

FamilyInit == family \in {"aic7xxx", "aic79xx"} /\ Init /\ Ahd!Init

FamilyNext ==
    /\ UNCHANGED family
    /\ \/ family = "aic7xxx" /\ Next /\ UNCHANGED ahdVars
       \/ family = "aic79xx" /\ Ahd!Next /\ UNCHANGED vars

FamilySpec == FamilyInit /\ [][FamilyNext]_<<family, vars, ahdVars>>

\* A message session always has a message: ahc_setup_initiator_msgout finds a
\* reason to have been called, and ahd_handle_message_phase a byte to send.
SessionHasMessage == TypeOK /\ Ahd!TypeOK /\ AlwaysAReason /\ Ahd!ActiveMessage

\* ATN tells the target of the aic7xxx when there is a message for it, and when
\* that is over.
AtnFollowsTheMessage == AtnEndsTheMessage /\ AnswerIsAnnounced

\* A setting that is not known will be negotiated, and where none will be the
\* chip transfers as agreed (AhcNegotiation, AhdMessages).
SettingsKnown == DoubtIsRemembered /\ Ahd!ChipFollows

\* A report of an error is for the connection it was seen on (AhdMessages).
AhdReportsStay == Ahd!ReportsStay

\* After a parity error the target is told about it (AhdMessages).
AhdErrorIsReported == Ahd!ErrorIsReported

Symmetries == Permutations(Scbs)
=============================================================================
