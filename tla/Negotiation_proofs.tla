-------------------------- MODULE Negotiation_proofs --------------------------
(***************************************************************************)
(* What is proved of the negotiation of both families.                     *)
(***************************************************************************)
EXTENDS MCNegotiation, TLAPS

-----------------------------------------------------------------------------
(* The aic79xx.  Its handlers are operators from the adapter's state to     *)
(* the state after them, so there is one lemma for each: what it leaves     *)
(* alone, and that it keeps what is known of the settings.                  *)

AhdFields == {"curr", "goal", "negtable", "auto_negotiate", "scb", "card",
              "scbptr", "NOT_IDENTIFIED", "LASTPHASE", "ATN", "loop", "MSG_OUT",
              "msg_type", "msg_flags", "msgout_buf", "msgout_len",
              "msgout_index", "msgin_index", "send_msg_perror", "RETURN_1",
              "BUS_RESET_ACTIVE", "panic"}

\* What is not known will be negotiated; what was agreed on the chip does.
AhdSettings(a) ==
    /\ a.goal = Ahd!Async
    /\ "period" \in DOMAIN a.curr
    /\ a.curr # a.goal => a.auto_negotiate
    /\ a.curr = a.goal => a.negtable = a.goal

\* The fields that say how far a session and its report of an error are.
SameReport(a, b) ==
    /\ b.RETURN_1 = a.RETURN_1
    /\ b.loop = a.loop
    /\ b.LASTPHASE = a.LASTPHASE
    /\ b.send_msg_perror = a.send_msg_perror
    /\ b.BUS_RESET_ACTIVE = a.BUS_RESET_ACTIVE

SameSettings(a, b) ==
    /\ b.curr = a.curr
    /\ b.goal = a.goal
    /\ b.negtable = a.negtable
    /\ b.auto_negotiate = a.auto_negotiate

\* From a to b nothing happened to the settings or to the report.
Plain(a, b) ==
    /\ DOMAIN b = AhdFields
    /\ SameSettings(a, b)
    /\ SameReport(a, b)

\* From a to b the settings were at most set as they should be.
Tuned(a, b) ==
    /\ DOMAIN b = AhdFields
    /\ AhdSettings(a) => AhdSettings(b)
    /\ SameReport(a, b)

LEMMA PlainTuned == ASSUME NEW a, NEW b, Plain(a, b) PROVE Tuned(a, b)
  BY DEF Plain, Tuned, SameSettings, AhdSettings

LEMMA TunedTwice ==
  ASSUME NEW a, NEW b, NEW c, Tuned(a, b), Tuned(b, c) PROVE Tuned(a, c)
  BY DEF Tuned, SameReport

LEMMA PlainTwice ==
  ASSUME NEW a, NEW b, NEW c, Plain(a, b), Plain(b, c) PROVE Plain(a, c)
  BY DEF Plain, SameReport, SameSettings

LEMMA PlainSelf == ASSUME NEW a, DOMAIN a = AhdFields PROVE Plain(a, a)
  BY DEF Plain, SameReport, SameSettings

\* The buffer of a message going out.
LEMMA PlainBuffer ==
  ASSUME NEW a, DOMAIN a = AhdFields, NEW n, NEW bytes
  PROVE  /\ Plain(a, Ahd!Emptied(a))
         /\ Plain(a, Ahd!FromTop(a))
         /\ Plain(a, Ahd!Construct(a, n))
         /\ Plain(a, Ahd!Panic(a, n))
         /\ Plain(a, Ahd!Rejected(a))
         /\ Plain(a, Ahd!Put(a, bytes))
         /\ Plain(a, Ahd!MessageDone(a))
         /\ Plain(a, Ahd!SendByte(a))
  <1> USE DEF Plain, SameReport, SameSettings, AhdFields
  <1>1. Plain(a, Ahd!Emptied(a)) BY DEF Ahd!Emptied
  <1>2. Plain(a, Ahd!FromTop(a)) BY DEF Ahd!FromTop
  <1>3. Plain(a, Ahd!Construct(a, n)) BY DEF Ahd!Construct
  <1>4. Plain(a, Ahd!Panic(a, n)) BY DEF Ahd!Panic
  <1>5. Plain(a, Ahd!Rejected(a)) BY DEF Ahd!Rejected
  <1>6. Plain(a, Ahd!Put(a, bytes)) BY DEF Ahd!Put
  <1>7. Plain(a, Ahd!MessageDone(a)) BY DEF Ahd!MessageDone
  <1>8. Plain(a, Ahd!SendByte(a)) BY DEF Ahd!SendByte
  <1> QED BY <1>1, <1>2, <1>3, <1>4, <1>5, <1>6, <1>7, <1>8

LEMMA PlainMessages ==
  ASSUME NEW a, DOMAIN a = AhdFields, NEW n, NEW message
  PROVE  /\ Plain(a, Ahd!Reply(a, n))
         /\ Plain(a, Ahd!Alone(a, message))
         /\ Plain(a, Ahd!BuildTransferMsg(a))
         /\ Plain(a, Ahd!FromTop(Ahd!BuildTransferMsg(Ahd!Emptied(a))))
         /\ Plain(a, Ahd!AbortMessage(a, message))
  <1>1. Plain(a, Ahd!Emptied(a)) BY PlainBuffer
  <1>2. DOMAIN Ahd!Emptied(a) = AhdFields BY <1>1 DEF Plain
  <1>3. ASSUME NEW b, DOMAIN b = AhdFields PROVE Plain(b, Ahd!BuildTransferMsg(b))
    <2>1. PICK k : Ahd!BuildTransferMsg(b) = Ahd!Construct(b, k)
      BY DEF Ahd!BuildTransferMsg
    <2> QED BY <1>3, <2>1, PlainBuffer
  <1>4. ASSUME NEW b, Plain(a, b) PROVE Plain(a, Ahd!FromTop(b))
    <2>1. DOMAIN b = AhdFields BY <1>4 DEF Plain
    <2>2. Plain(b, Ahd!FromTop(b)) BY <2>1, PlainBuffer
    <2> QED BY <1>4, <2>2, PlainTwice
  <1>5. Plain(a, Ahd!Reply(a, n))
    <2>1. Plain(Ahd!Emptied(a), Ahd!Construct(Ahd!Emptied(a), n))
      BY <1>2, PlainBuffer
    <2>2. Plain(a, Ahd!Construct(Ahd!Emptied(a), n))
      BY <1>1, <2>1, PlainTwice
    <2> QED BY <2>2, <1>4 DEF Ahd!Reply
  <1>6. Plain(a, Ahd!Alone(a, message))
    <2>1. Plain(Ahd!Emptied(a), Ahd!Put(Ahd!Emptied(a), <<message>>))
      BY <1>2, PlainBuffer
    <2>2. Plain(a, Ahd!Put(Ahd!Emptied(a), <<message>>))
      BY <1>1, <2>1, PlainTwice
    <2> QED BY <2>2, <1>4 DEF Ahd!Alone
  <1>7. Plain(a, Ahd!BuildTransferMsg(a)) BY <1>3
  <1>8. Plain(a, Ahd!FromTop(Ahd!BuildTransferMsg(Ahd!Emptied(a))))
    <2>1. Plain(Ahd!Emptied(a), Ahd!BuildTransferMsg(Ahd!Emptied(a)))
      BY <1>2, <1>3
    <2>2. Plain(a, Ahd!BuildTransferMsg(Ahd!Emptied(a)))
      BY <1>1, <2>1, PlainTwice
    <2> QED BY <2>2, <1>4
  <1>9. Plain(a, Ahd!AbortMessage(a, message))
    BY <1>6 DEF Ahd!AbortMessage, Plain, SameReport, SameSettings, AhdFields
  <1> QED BY <1>5, <1>6, <1>7, <1>8, <1>9

LEMMA PlainScbs ==
  ASSUME NEW a, DOMAIN a = AhdFields, NEW tags
  PROVE  /\ Plain(a, Ahd!Freed(a, tags))
         /\ Plain(a, Ahd!RefuseTags(a))
         /\ Plain(a, Ahd!UpdatePendingScbs(a))
         /\ Plain(a, Ahd!Requeued(a))
  <1> USE DEF Plain, SameReport, SameSettings, AhdFields
  <1>1. ASSUME NEW b, DOMAIN b = AhdFields, NEW t PROVE Plain(b, Ahd!Freed(b, t))
    BY <1>1 DEF Ahd!Freed
  <1>2. Plain(a, Ahd!RefuseTags(a))
    <2> DEFINE b == [a EXCEPT !.scb[a.scbptr].tagged = FALSE,
                              !.MSG_OUT = "IDENTIFY", !.ATN = TRUE]
    <2>1. Plain(a, b) OBVIOUS
    <2>2. DOMAIN b = AhdFields BY <2>1
    <2>3. PICK t : Ahd!RefuseTags(a) = Ahd!Freed(b, t) BY DEF Ahd!RefuseTags
    <2>4. Plain(b, Ahd!Freed(b, t)) BY <1>1, <2>2, ZenonT(40)
    <2> HIDE DEF b
    <2> QED BY <2>1, <2>3, <2>4, PlainTwice
  <1>3. Plain(a, Ahd!UpdatePendingScbs(a))
    BY DEF Ahd!UpdatePendingScbs, Ahd!UpdatePendingHscbs
  <1>4. Plain(a, Ahd!Requeued(a))
    BY DEF Ahd!Requeued
  <1> QED BY <1>1, <1>2, <1>3, <1>4


-----------------------------------------------------------------------------
(* The settings.  A goal is asynchronous, and every function that sets one  *)
(* takes nothing but zeros.                                                 *)

\* Settings that are part of an asynchronous agreement.
Zeros(settings) == Ahd!Taking(settings, Ahd!Async) = Ahd!Async

LEMMA ZeroSettings ==
  /\ Zeros([width |-> 0])
  /\ Zeros([period |-> 0, offset |-> 0, ppr_options |-> 0])
  BY DEF Zeros, Ahd!Taking, Ahd!Async

LEMMA UpdateNegRequestTuned ==
  ASSUME NEW a, DOMAIN a = AhdFields, NEW type
  PROVE  Tuned(a, Ahd!UpdateNegRequest(a, type))
  <1> DEFINE b == Ahd!UpdateNegRequest(a, type)
             unknown == [a.curr EXCEPT !.width = IF WIDE THEN Ahd!UNKNOWN ELSE @,
                                       !.period = Ahd!UNKNOWN,
                                       !.offset = Ahd!UNKNOWN]
             curr == IF type # "ALWAYS" THEN a.curr ELSE unknown
  <1>1. /\ DOMAIN b = AhdFields
        /\ SameReport(a, b)
        /\ b.goal = a.goal /\ b.negtable = a.negtable /\ b.curr = curr
    BY DEF Ahd!UpdateNegRequest, SameReport, AhdFields
  <1>2. curr # a.goal => b.auto_negotiate
    BY DEF Ahd!UpdateNegRequest, AhdFields
  <1>3. ASSUME AhdSettings(a) PROVE AhdSettings(b)
    <2>1. CASE type # "ALWAYS" BY <1>1, <1>2, <1>3, <2>1 DEF AhdSettings
    <2>2. CASE type = "ALWAYS"
      <3>1. curr.period = 255 /\ "period" \in DOMAIN curr
        BY <1>3, <2>2 DEF AhdSettings, Ahd!UNKNOWN
      <3>2. a.goal.period = 0 BY <1>3 DEF AhdSettings, Ahd!Async
      <3> HIDE DEF curr, b
      <3>3. curr # a.goal BY <3>1, <3>2
      <3> QED BY <1>1, <1>2, <1>3, <3>1, <3>3 DEF AhdSettings
    <2> QED BY <2>1, <2>2
  <1> QED BY <1>1, <1>3 DEF Tuned

LEMMA SetSettingsTuned ==
  ASSUME NEW a, DOMAIN a = AhdFields, NEW settings, Zeros(settings), NEW type
  PROVE  Tuned(a, Ahd!SetSettings(a, settings, type))
  <1> DEFINE goal == [a EXCEPT !.goal = IF "GOAL" \in type
                                        THEN Ahd!Taking(settings, @) ELSE @]
             curr == Ahd!Taking(settings, a.curr)
             new  == IF curr = a.curr THEN goal
                     ELSE Ahd!UpdateNegTable([goal EXCEPT !.curr = curr])
             set  == Ahd!UpdateNegRequest(new, "TO_GOAL")
             b    == Ahd!SetSettings(a, settings, type)
  <1>1. b \in {Ahd!UpdatePendingScbs(set), set} BY DEF Ahd!SetSettings
  <1>2. DOMAIN goal = AhdFields /\ SameReport(a, goal)
    BY DEF SameReport, AhdFields
  <1>3. DOMAIN new = AhdFields /\ SameReport(a, new)
    BY DEF SameReport, AhdFields, Ahd!UpdateNegTable
  <1>4. DOMAIN set = AhdFields /\ SameReport(a, set)
    <2> HIDE DEF new
    <2> QED BY <1>3, UpdateNegRequestTuned DEF Tuned, SameReport
  <1>5. ASSUME AhdSettings(a) PROVE AhdSettings(set)
    <2>1. set.goal = Ahd!Async
      <3>1. new.goal = Ahd!Async
        BY <1>5 DEF AhdSettings, Zeros, AhdFields, Ahd!UpdateNegTable
      <3> HIDE DEF new
      <3> QED BY <1>3, <3>1 DEF Ahd!UpdateNegRequest, AhdFields
    <2>2. set.curr = curr
      <3>1. new.curr = curr BY DEF AhdFields, Ahd!UpdateNegTable
      <3> HIDE DEF new, curr
      <3> QED BY <1>3, <3>1 DEF Ahd!UpdateNegRequest, AhdFields
    <2>3. "period" \in DOMAIN curr BY <1>5 DEF AhdSettings, Ahd!Taking
    <2>4. set.curr # set.goal => set.auto_negotiate
      <3> HIDE DEF new
      <3> QED BY <1>3 DEF Ahd!UpdateNegRequest, AhdFields
    <2>5. ASSUME curr = Ahd!Async PROVE set.negtable = Ahd!Async
      <3>1. new.negtable = Ahd!Async
        <4>1. CASE curr = a.curr
          <5>1. a.negtable = Ahd!Async BY <1>5, <2>5, <4>1 DEF AhdSettings
          <5> HIDE DEF curr
          <5> QED BY <4>1, <5>1 DEF AhdFields
        <4>2. CASE curr # a.curr
          BY <2>5, <4>2 DEF AhdFields, Ahd!UpdateNegTable
        <4> QED BY <4>1, <4>2
      <3> HIDE DEF new
      <3> QED BY <1>3, <3>1 DEF Ahd!UpdateNegRequest, AhdFields
    <2> HIDE DEF set, curr
    <2> QED BY <2>1, <2>2, <2>3, <2>4, <2>5 DEF AhdSettings
  <1>6. Tuned(a, set) BY <1>4, <1>5 DEF Tuned
  <1>7. Tuned(set, Ahd!UpdatePendingScbs(set)) BY <1>4, PlainScbs, PlainTuned
  <1>8. Tuned(a, b)
    <2> HIDE DEF b, set
    <2> QED BY <1>1, <1>6, <1>7, TunedTwice
  <1> QED BY <1>8

LEMMA WidthTuned ==
  ASSUME NEW a, DOMAIN a = AhdFields, NEW type
  PROVE  Tuned(a, Ahd!SetWidth(a, 0, type))
  BY SetSettingsTuned, ZeroSettings DEF Ahd!SetWidth

LEMMA SyncrateTuned ==
  ASSUME NEW a, DOMAIN a = AhdFields, NEW type, NEW offset,
         NEW rate, rate.ppr_options = 0, rate.period = 0
  PROVE  Tuned(a, Ahd!SetSyncrate(a, rate, offset, type))
  BY SetSettingsTuned, ZeroSettings DEF Ahd!SetSyncrate

LEMMA ToAsyncTuned ==
  ASSUME NEW a, DOMAIN a = AhdFields
  PROVE  Tuned(a, Ahd!ToAsync(a)) /\ Tuned(a, Ahd!HandleDevreset(a))
  <1>1. ASSUME NEW b, DOMAIN b = AhdFields PROVE Tuned(b, Ahd!ToAsync(b))
    <2>1. Tuned(b, Ahd!SetWidth(b, 0, {})) BY <1>1, WidthTuned
    <2>2. Ahd!NoRate.ppr_options = 0 /\ Ahd!NoRate.period = 0 BY DEF Ahd!NoRate
    <2>3. Tuned(Ahd!SetWidth(b, 0, {}), Ahd!ToAsync(b))
      BY <2>1, <2>2, SyncrateTuned DEF Ahd!ToAsync, Tuned
    <2> QED BY <2>1, <2>3, TunedTwice
  <1>2. Plain(a, Ahd!Freed(a, AhdScbs)) BY PlainScbs
  <1>3. Tuned(Ahd!Freed(a, AhdScbs), Ahd!HandleDevreset(a))
    BY <1>1, <1>2 DEF Ahd!HandleDevreset, Plain
  <1> QED BY <1>1, <1>2, <1>3, PlainTuned, TunedTwice

-----------------------------------------------------------------------------
(* Messages coming in.                                                      *)

Ready(a) == DOMAIN a = AhdFields /\ AhdSettings(a)

LEMMA TunedReady ==
  ASSUME NEW a, NEW b, Ready(a), Tuned(a, b) PROVE Ready(b)
  BY DEF Ready, Tuned

\* A buffer is emptied or filled after the settings were set.
LEMMA TunedBuffer ==
  ASSUME NEW a, NEW b, Tuned(a, b), NEW n
  PROVE  /\ Tuned(a, Ahd!Emptied(b))
         /\ Tuned(a, Ahd!Rejected(b))
         /\ Tuned(a, Ahd!Panic(b, n))
         /\ Tuned(a, Ahd!Reply(b, n))
         /\ Tuned(a, Ahd!RefuseTags(b))
         /\ Tuned(a, Ahd!FromTop(Ahd!BuildTransferMsg(Ahd!Emptied(b))))
  <1>1. DOMAIN b = AhdFields BY DEF Tuned
  <1>2. /\ Plain(b, Ahd!Emptied(b))
        /\ Plain(b, Ahd!Rejected(b))
        /\ Plain(b, Ahd!Panic(b, n))
        /\ Plain(b, Ahd!Reply(b, n))
        /\ Plain(b, Ahd!RefuseTags(b))
        /\ Plain(b, Ahd!FromTop(Ahd!BuildTransferMsg(Ahd!Emptied(b))))
    BY <1>1, PlainBuffer, PlainMessages, PlainScbs
  <1> QED BY <1>2, PlainTuned, TunedTwice

LEMMA HandleMsgRejectTuned ==
  ASSUME NEW a, Ready(a)
  PROVE  Tuned(a, Ahd!HandleMsgReject(a).ahd)
  <1> DEFINE Again(b) == Ahd!FromTop(Ahd!BuildTransferMsg(Ahd!Emptied(b)))
             narrow   == Ahd!SetWidth(a, 0, {"GOAL", "ACTIVE"})
             async    == Ahd!SetSyncrate(a, Ahd!NoRate, 0, {"GOAL", "ACTIVE"})
             noppr    == [a EXCEPT !.goal.ppr_options = 0]
             flagged  == [a EXCEPT !.msg_flags =
                            @ \cup {"EXPECT_PPR_BUSFREE", "IU_REQ_CHANGED"}]
             forced   == Ahd!ForceRenegotiation(flagged)
  <1>1. DOMAIN a = AhdFields /\ Plain(a, a) /\ Tuned(a, a)
    BY PlainSelf, PlainTuned DEF Ready
  <1>2. Tuned(a, narrow) BY <1>1, WidthTuned
  <1>3. Tuned(a, async)
    <2>1. Ahd!NoRate.ppr_options = 0 /\ Ahd!NoRate.period = 0 BY DEF Ahd!NoRate
    <2> QED BY <1>1, <2>1, SyncrateTuned
  <1>4. Tuned(a, noppr)
    <2>1. noppr.goal = a.goal BY DEF Ready, AhdSettings, Ahd!Async, AhdFields
    <2>2. Plain(a, noppr)
      BY <1>1, <2>1 DEF Plain, SameSettings, SameReport, AhdFields
    <2> QED BY <2>2, PlainTuned
  <1>5. Tuned(a, forced)
    <2>1. Plain(a, flagged)
      BY <1>1 DEF Plain, SameSettings, SameReport, AhdFields
    <2>2. DOMAIN flagged = AhdFields BY <2>1 DEF Plain
    <2> HIDE DEF flagged
    <2>3. Tuned(flagged, forced)
      BY <2>2, UpdateNegRequestTuned DEF Ahd!ForceRenegotiation
    <2> QED BY <2>1, <2>3, PlainTuned, TunedTwice
  <1>6. Ahd!HandleMsgReject(a).ahd \in
          {Again(noppr), Again(narrow), narrow, async, Ahd!Panic(a, "no SCB"),
           Ahd!RefuseTags(a), Again(forced), a}
    <2> HIDE DEF narrow, async, noppr, forced
    <2> QED BY DEF Ahd!HandleMsgReject, narrow, async, noppr, forced
  <1> HIDE DEF narrow, async, noppr, forced
  <1> QED BY <1>1, <1>2, <1>3, <1>4, <1>5, <1>6, TunedBuffer

\* What the target asks for is cut down to the goal.
LEMMA AsyncOnly ==
  ASSUME NEW a, Ready(a), NEW period, NEW offset, NEW ppr
  PROVE  /\ Ahd!DevlimitedSyncrate(a, period, ppr) = [period |-> 0, ppr_options |-> 0]
         /\ Ahd!ValidateWidth(a, 1) = 0
         /\ Ahd!ValidateOffset(a, Ahd!DevlimitedSyncrate(a, period, ppr), offset) = 0
  BY DEF Ready, AhdSettings, Ahd!Async, Ahd!DevlimitedSyncrate,
         Ahd!ValidateWidth, Ahd!ValidateOffset, Ahd!Smaller

LEMMA HandleSdtrTuned ==
  ASSUME NEW a, Ready(a), NEW m
  PROVE  Tuned(a, Ahd!HandleSdtr(a, m))
  <1> DEFINE rate   == Ahd!DevlimitedSyncrate(a, 25, 0)
             offset == Ahd!ValidateOffset(a, rate, m.offset)
             set    == Ahd!SetSyncrate(a, rate, offset, {"GOAL", "ACTIVE"})
  <1>1. rate.period = 0 /\ rate.ppr_options = 0 BY AsyncOnly
  <1>2. Tuned(a, set)
    <2> HIDE DEF rate, offset
    <2> QED BY <1>1, SyncrateTuned DEF Ready
  <1>3. Ahd!HandleSdtr(a, m) \in
          {Ahd!Reply(set, Ahd!Length.SDTR), Ahd!Rejected(set), Ahd!Emptied(set)}
    BY DEF Ahd!HandleSdtr
  <1> HIDE DEF set
  <1> QED BY <1>2, <1>3, TunedBuffer

LEMMA HandleWdtrTuned ==
  ASSUME NEW a, Ready(a), NEW m, m.width = 1
  PROVE  Tuned(a, Ahd!HandleWdtr(a, m))
  <1> DEFINE ours  == Ahd!SentMsg(a, "EXTENDED_WDTR")
             b     == IF ours THEN a ELSE Ahd!Reply(a, Ahd!Length.WDTR)
             doubt == Ahd!UpdateNegRequest(b, "ALWAYS")
             set   == Ahd!SetWidth(doubt, 0, {"GOAL", "ACTIVE"})
  <1>1. Tuned(a, a) BY PlainSelf, PlainTuned DEF Ready
  <1>2. Tuned(a, b) BY <1>1, TunedBuffer
  <1>3. Tuned(b, doubt)
    <2> HIDE DEF b
    <2> QED BY <1>2, UpdateNegRequestTuned DEF Tuned
  <1>4. Tuned(doubt, set)
    <2> HIDE DEF doubt
    <2> QED BY <1>3, WidthTuned DEF Tuned
  <1>5. Tuned(a, set)
    <2> HIDE DEF b, doubt, set
    <2> QED BY <1>2, <1>3, <1>4, TunedTwice
  <1>6. Ahd!ValidateWidth(a, m.width) = 0 BY AsyncOnly
  <1>7. Ahd!HandleWdtr(a, m) \in
          {Ahd!Rejected(set), set,
           Ahd!FromTop(Ahd!BuildTransferMsg(Ahd!Emptied(set)))}
    BY <1>6 DEF Ahd!HandleWdtr
  <1> HIDE DEF set
  <1> QED BY <1>5, <1>7, TunedBuffer

LEMMA HandlePprTuned ==
  ASSUME NEW a, Ready(a), NEW m, m.width = 1
  PROVE  Tuned(a, Ahd!HandlePpr(a, m))
  <1> DEFINE ours  == Ahd!SentMsg(a, "EXTENDED_PPR")
             b     == IF ours THEN a ELSE Ahd!Reply(a, Ahd!Length.PPR)
             wide  == Ahd!SetWidth(b, 0, {"GOAL", "ACTIVE"})
             none  == [period |-> 0, ppr_options |-> 0]
             set   == Ahd!SetSyncrate(wide, none, 0, {"GOAL", "ACTIVE"})
  <1>1. Tuned(a, a) BY PlainSelf, PlainTuned DEF Ready
  <1>2. Tuned(a, b) BY <1>1, TunedBuffer
  <1>3. Tuned(b, wide)
    <2> HIDE DEF b
    <2> QED BY <1>2, WidthTuned DEF Tuned
  <1>4. Tuned(wide, set)
    <2> HIDE DEF wide
    <2>1. none.period = 0 /\ none.ppr_options = 0 OBVIOUS
    <2> HIDE DEF none
    <2> QED BY <1>3, <2>1, SyncrateTuned DEF Tuned
  <1>5. Tuned(a, set)
    <2> HIDE DEF b, wide, set
    <2> QED BY <1>2, <1>3, <1>4, TunedTwice
  <1>6. /\ Ahd!ValidateWidth(a, m.width) = 0
        /\ Ahd!DevlimitedSyncrate(a, 25, 0) = none
        /\ Ahd!ValidateOffset(a, none, m.offset) = 0
        /\ Ahd!NoRate = none
    BY AsyncOnly DEF Ahd!NoRate
  <1>7. Ahd!HandlePpr(a, m) \in {Ahd!Rejected(set), set, Ahd!Emptied(set)}
    <2> HIDE DEF none
    <2> QED BY <1>6 DEF Ahd!HandlePpr
  <1> HIDE DEF set
  <1> QED BY <1>5, <1>7, TunedBuffer

LEMMA MessageKinds ==
  ASSUME NEW m \in Ahd!Messages, m.type \in {"WDTR", "PPR"}
  PROVE  m.width = 1
  BY DEF Ahd!Messages, Ahd!Length

LEMMA ParseMsgTuned ==
  ASSUME NEW a, Ready(a), NEW m \in Ahd!Messages
  PROVE  Tuned(a, Ahd!ParseMsg(a, m).ahd)
  <1> DEFINE b == Ahd!ParseMsg(a, m).ahd
             r == Ahd!HandleMsgReject(a)
             asked == [a EXCEPT !.msg_flags = @ \cup {"EXPECT_QASREJ_BUSFREE"}]
  <1>1. Tuned(a, a) BY PlainSelf, PlainTuned DEF Ready
  <1>2. Tuned(a, r.ahd) BY HandleMsgRejectTuned
  <1>3. Tuned(a, Ahd!HandleSdtr(a, m)) BY HandleSdtrTuned
  <1>4. CASE m.type \in {"DISCONNECT", "COMMAND_COMPLETE", "NOP"}
    <2>1. b = Ahd!Emptied(a) BY <1>4 DEF Ahd!ParseMsg
    <2> QED BY <1>1, <2>1, TunedBuffer
  <1>5. CASE m.type = "MESSAGE_REJECT"
    <2>1. b \in {r.ahd, Ahd!Emptied(r.ahd)} BY <1>5 DEF Ahd!ParseMsg
    <2> HIDE DEF r
    <2> QED BY <1>2, <2>1, TunedBuffer
  <1>6. CASE m.type = "SDTR"
    <2>1. b \in {a, Ahd!HandleSdtr(a, m)} BY <1>6 DEF Ahd!ParseMsg
    <2> QED BY <1>1, <1>3, <2>1
  <1>7. CASE m.type = "WDTR"
    <2>1. b \in {a, Ahd!HandleWdtr(a, m)} BY <1>7 DEF Ahd!ParseMsg
    <2> QED BY <1>1, <1>7, <2>1, MessageKinds, HandleWdtrTuned
  <1>8. CASE m.type = "PPR"
    <2>1. b \in {a, Ahd!HandlePpr(a, m)} BY <1>8 DEF Ahd!ParseMsg
    <2> QED BY <1>1, <1>8, <2>1, MessageKinds, HandlePprTuned
  <1>9. CASE m.type \in {"EXTENDED", "OTHER"}
    <2>1. b \in {a, Ahd!Rejected(a)} BY <1>9 DEF Ahd!ParseMsg
    <2> QED BY <1>1, <2>1, TunedBuffer
  <1>10. CASE m.type = "QAS_REQUEST"
    <2>1. b = Ahd!Rejected(asked) BY <1>10 DEF Ahd!ParseMsg
    <2>2. Plain(a, asked)
      BY DEF Ready, Plain, SameSettings, SameReport, AhdFields
    <2> HIDE DEF asked
    <2> QED BY <2>1, <2>2, PlainTuned, TunedBuffer
  <1>11. m.type \in {"SDTR", "WDTR", "PPR", "EXTENDED", "DISCONNECT",
                     "COMMAND_COMPLETE", "MESSAGE_REJECT", "NOP",
                     "QAS_REQUEST", "OTHER"}
    BY DEF Ahd!Messages
  <1> QED BY <1>4, <1>5, <1>6, <1>7, <1>8, <1>9, <1>10, <1>11

LEMMA SetupInitiatorMsgoutTuned ==
  ASSUME NEW a, DOMAIN a = AhdFields
  PROVE  /\ Tuned(a, Ahd!SetupInitiatorMsgout(a))
         /\ Ahd!SetupInitiatorMsgout(a).msg_type = "INITIATOR_MSGOUT"
  <1> DEFINE begun == [Ahd!Emptied(a) EXCEPT !.msg_type = "INITIATOR_MSGOUT"]
             out(b) == Plain(a, b) /\ b.msg_type = "INITIATOR_MSGOUT"
  <1> USE DEF Plain, SameSettings, SameReport, AhdFields
  <1>1. out(begun) BY DEF Ahd!Emptied
  <1>2. ASSUME NEW b, out(b), NEW bytes PROVE out(Ahd!Put(b, bytes))
    BY <1>2 DEF Ahd!Put
  <1>3. ASSUME NEW b, out(b) PROVE out(Ahd!BuildTransferMsg(b))
    <2>1. PICK k : Ahd!BuildTransferMsg(b) = Ahd!Construct(b, k)
      BY DEF Ahd!BuildTransferMsg
    <2> QED BY <1>3, <2>1 DEF Ahd!Construct
  <1>4. ASSUME NEW b, out(b), NEW why PROVE out(Ahd!Panic(b, why))
    BY <1>4 DEF Ahd!Panic
  <1>5. ASSUME NEW b, out(b), NEW s
        PROVE  out([Ahd!FromTop(b) EXCEPT !.scb[s].MK_MESSAGE = FALSE,
                                          !.card[s] = FALSE])
    BY <1>5 DEF Ahd!FromTop
  <1>6. out(Ahd!SetupInitiatorMsgout(a))
    <2> DEFINE s == Ahd!Lookup(a)
               ident == IF a.MSG_OUT # "IDENTIFY" THEN begun
                        ELSE Ahd!Put(begun, IF a.scb[s].tagged
                                            THEN <<"IDENTIFY", "other">>
                                            ELSE <<"IDENTIFY">>)
               full == IF "ABORT" \in a.scb[s].flags
                       THEN Ahd!Put(ident, <<"ABORT_TASK">>)
                       ELSE IF "AUTO_NEGOTIATE" \in a.scb[s].flags
                       THEN Ahd!BuildTransferMsg(ident)
                       ELSE Ahd!Panic(ident, "no waiting message")
    <2> HIDE DEF out, begun
    <2>1. out(ident) BY <1>1, <1>2
    <2>2. out(full)
      <3> HIDE DEF ident
      <3> QED BY <2>1, <1>2, <1>3, <1>4
    <2>3. Ahd!SetupInitiatorMsgout(a) \in
            {Ahd!Put(begun, <<"other">>),
             [Ahd!FromTop(full) EXCEPT !.scb[s].MK_MESSAGE = FALSE,
                                       !.card[s] = FALSE]}
      BY DEF Ahd!SetupInitiatorMsgout, begun
    <2> HIDE DEF full
    <2>4. out([Ahd!FromTop(full) EXCEPT !.scb[s].MK_MESSAGE = FALSE,
                                        !.card[s] = FALSE])
      BY <1>5, <2>2
    <2>5. out(Ahd!Put(begun, <<"other">>)) BY <1>1, <1>2
    <2> QED BY <2>3, <2>4, <2>5, Zenon
  <1> QED BY <1>6, PlainTuned

-----------------------------------------------------------------------------
(* The message loop.                                                        *)

Going(a) == a.RETURN_1 = "CONT_MSG_LOOP"

\* After a byte of a session that was at a: either the session goes on, or it
\* ends and the report of an error is dropped.
Handled(a, b) ==
    /\ Ready(b)
    /\ b.LASTPHASE = a.LASTPHASE
    /\ b.BUS_RESET_ACTIVE = a.BUS_RESET_ACTIVE
    /\ b.send_msg_perror \in {a.send_msg_perror, "none"}
    /\ Going(b) \/ b.send_msg_perror = "none"

LEMMA TunedHandled ==
  ASSUME NEW a, NEW b, NEW c, Tuned(a, b), Handled(b, c) PROVE Handled(a, c)
  BY DEF Tuned, SameReport, Handled

LEMMA StillGoing ==
  ASSUME NEW a, Ready(a), Going(a), NEW b, Tuned(a, b) PROVE Handled(a, b)
  BY TunedReady DEF Tuned, SameReport, Handled, Going

LEMMA Cleared ==
  ASSUME NEW a, DOMAIN a = AhdFields
  PROVE  LET b == Ahd!ClearMsgState(a)
         IN  /\ DOMAIN b = AhdFields
             /\ SameSettings(a, b)
             /\ b.send_msg_perror = "none"
             /\ b.LASTPHASE = a.LASTPHASE
             /\ b.loop = a.loop
             /\ b.BUS_RESET_ACTIVE = a.BUS_RESET_ACTIVE
             /\ b.RETURN_1 = a.RETURN_1
  BY DEF Ahd!ClearMsgState, Ahd!Emptied, SameSettings, AhdFields

LEMMA ExitHandled ==
  ASSUME NEW a, Ready(a) PROVE Handled(a, Ahd!Exit(a))
  <1> DEFINE b == Ahd!ClearMsgState(a)
  <1>1. /\ DOMAIN b = AhdFields
        /\ SameSettings(a, b)
        /\ b.send_msg_perror = "none"
        /\ b.LASTPHASE = a.LASTPHASE
        /\ b.BUS_RESET_ACTIVE = a.BUS_RESET_ACTIVE
    BY Cleared DEF Ready
  <1> HIDE DEF b
  <1>2. DOMAIN Ahd!Exit(a) = AhdFields /\ SameSettings(a, Ahd!Exit(a))
    BY <1>1 DEF Ahd!Exit, b, SameSettings, AhdFields
  <1>3. /\ Ahd!Exit(a).send_msg_perror = "none"
        /\ Ahd!Exit(a).LASTPHASE = a.LASTPHASE
        /\ Ahd!Exit(a).BUS_RESET_ACTIVE = a.BUS_RESET_ACTIVE
    BY <1>1 DEF Ahd!Exit, b, AhdFields
  <1> QED BY <1>2, <1>3 DEF Handled, Ready, AhdSettings, SameSettings

LEMMA ContHandled ==
  ASSUME NEW a, Ready(a), NEW b, Tuned(a, b)
  PROVE  /\ Handled(a, Ahd!Cont(b))
         /\ Ahd!Cont(b).send_msg_perror = a.send_msg_perror
         /\ Going(Ahd!Cont(b))
  <1>1. Ready(b) BY TunedReady
  <1>2. /\ DOMAIN Ahd!Cont(b) = AhdFields
        /\ SameSettings(b, Ahd!Cont(b))
        /\ Going(Ahd!Cont(b))
        /\ Ahd!Cont(b).send_msg_perror = b.send_msg_perror
        /\ Ahd!Cont(b).LASTPHASE = b.LASTPHASE
        /\ Ahd!Cont(b).BUS_RESET_ACTIVE = b.BUS_RESET_ACTIVE
    BY <1>1 DEF Ahd!Cont, Going, SameSettings, Ready, AhdFields
  <1>3. Ready(Ahd!Cont(b)) BY <1>1, <1>2 DEF Ready, AhdSettings, SameSettings
  <1> QED BY <1>2, <1>3 DEF Tuned, SameReport, Handled

LEMMA InitiatorMsgoutHandled ==
  ASSUME NEW a, Ready(a), Going(a)
  PROVE  LET b == Ahd!InitiatorMsgout(a)
         IN  /\ Handled(a, b)
             /\ a.send_msg_perror # "none" =>
                    b.send_msg_perror = a.send_msg_perror /\ Going(b)
  <1> DEFINE quiet == [a EXCEPT !.ATN = FALSE]
             panic == Ahd!Panic(a, "no active message")
  <1>1. Tuned(a, quiet) /\ Tuned(a, panic) /\ Tuned(a, Ahd!SendByte(a))
    <2>1. Plain(a, quiet)
      BY DEF Ready, Plain, SameSettings, SameReport, AhdFields
    <2>2. Plain(a, panic) /\ Plain(a, Ahd!SendByte(a))
      BY PlainBuffer DEF Ready
    <2> HIDE DEF quiet, panic
    <2> QED BY <2>1, <2>2, PlainTuned
  <1>2. Ahd!InitiatorMsgout(a) = IF Ahd!NothingToSend(a) THEN panic
                                 ELSE IF a.send_msg_perror # "none"
                                      THEN Ahd!Cont(quiet)
                                      ELSE Ahd!Cont(Ahd!SendByte(a))
    BY DEF Ahd!InitiatorMsgout
  <1>3. a.send_msg_perror # "none" => ~Ahd!NothingToSend(a)
    BY DEF Ahd!NothingToSend
  <1> HIDE DEF quiet, panic
  <1> QED BY <1>1, <1>2, <1>3, ContHandled, StillGoing

LEMMA InitiatorMsginHandled ==
  ASSUME NEW a, Ready(a), NEW m \in Ahd!Messages
  PROVE  Handled(a, Ahd!InitiatorMsgin(a, m))
  <1> DEFINE b    == Ahd!ParseMsg(a, m).ahd
             done == Ahd!MessageDone(b)
             next == [b EXCEPT !.msgin_index = @ + 1]
  <1>1. Tuned(a, b) BY ParseMsgTuned
  <1>2. Tuned(a, done)
    <2> HIDE DEF b
    <2>1. Plain(b, done) BY <1>1, PlainBuffer DEF Tuned
    <2> QED BY <1>1, <2>1, PlainTuned, TunedTwice
  <1>3. Tuned(a, next)
    <2> HIDE DEF b
    <2>1. Plain(b, next)
      BY <1>1 DEF Tuned, Plain, SameSettings, SameReport, AhdFields
    <2> QED BY <1>1, <2>1, PlainTuned, TunedTwice
  <1>4. Ahd!InitiatorMsgin(a, m) \in {Ahd!Exit(done), Ahd!Cont(done), Ahd!Cont(next)}
    <2>1. Ahd!ParseMsg(a, m).done \in {"TERMINATED", "MSGCOMPLETE"} \/
            Ahd!ParseMsg(a, m).done \notin {"TERMINATED", "MSGCOMPLETE"}
      OBVIOUS
    <2> QED BY <2>1 DEF Ahd!InitiatorMsgin, Ahd!Continued
  <1>5. Handled(a, Ahd!Exit(done))
    <2> HIDE DEF done
    <2> QED BY <1>2, TunedReady, ExitHandled, TunedHandled
  <1>6. Handled(a, Ahd!Cont(done)) /\ Handled(a, Ahd!Cont(next))
    <2> HIDE DEF done, next
    <2> QED BY <1>2, <1>3, ContHandled
  <1> HIDE DEF done, next
  <1> QED BY <1>4, <1>5, <1>6

\* A byte of a session; a report of an error that the target takes stays until
\* the session ends.
LEMMA HandleMessagePhaseHandled ==
  ASSUME NEW a, Ready(a), Going(a),
         NEW m, a.LASTPHASE = "MESGIN" => m \in Ahd!Messages
  PROVE  LET b == Ahd!HandleMessagePhase(a, m)
         IN  /\ Handled(a, b)
             /\ a.LASTPHASE = "MESGOUT" /\ a.send_msg_perror # "none" =>
                    b.send_msg_perror # "none" /\ Going(b)
  <1> DEFINE b    == Ahd!HandleMessagePhase(a, m)
             turn == [a EXCEPT !.ATN = FALSE, !.send_msg_perror = "none",
                               !.msg_type = "INITIATOR_MSGIN",
                               !.msgin_index = 0]
             back == [a EXCEPT !.msgin_index = 0,
                               !.msg_type = "INITIATOR_MSGOUT"]
             panic == Ahd!Panic(a, "no active message")
  <1>1. Handled(a, panic)
    <2> HIDE DEF panic
    <2>1. Tuned(a, panic) BY PlainBuffer, PlainTuned DEF panic, Ready
    <2> QED BY <2>1, StillGoing
  <1>2. Handled(a, Ahd!Exit(a)) BY ExitHandled
  <1>3. Ready(back) /\ Going(back) /\ Tuned(a, back)
    <2>1. Plain(a, back)
      BY DEF Ready, Plain, SameSettings, SameReport, AhdFields
    <2> HIDE DEF back
    <2>2. Tuned(a, back) BY <2>1, PlainTuned
    <2> QED BY <2>2, TunedReady DEF Going, Tuned, SameReport
  <1>4. ASSUME a.LASTPHASE = "MESGIN"
        PROVE  Handled(a, Ahd!InitiatorMsgin(turn, m))
    <2>1. /\ DOMAIN turn = AhdFields
          /\ SameSettings(a, turn)
          /\ turn.LASTPHASE = a.LASTPHASE
          /\ turn.BUS_RESET_ACTIVE = a.BUS_RESET_ACTIVE
          /\ turn.send_msg_perror = "none"
      BY DEF Ready, SameSettings, AhdFields
    <2> HIDE DEF turn
    <2>2. Ready(turn) BY <2>1 DEF Ready, AhdSettings, SameSettings
    <2>3. Handled(turn, Ahd!InitiatorMsgin(turn, m))
      BY <1>4, <2>2, InitiatorMsginHandled
    <2> QED BY <2>1, <2>3 DEF Handled
  <1>5. ASSUME a.LASTPHASE = "MESGIN"
        PROVE  Handled(a, Ahd!InitiatorMsgin(a, m))
    BY <1>5, InitiatorMsginHandled
  <1>6. /\ Handled(a, Ahd!InitiatorMsgout(a))
        /\ Handled(a, Ahd!InitiatorMsgout(back))
        /\ a.send_msg_perror # "none" =>
             /\ Ahd!InitiatorMsgout(a).send_msg_perror # "none"
             /\ Going(Ahd!InitiatorMsgout(a))
             /\ Ahd!InitiatorMsgout(back).send_msg_perror # "none"
             /\ Going(Ahd!InitiatorMsgout(back))
    <2>1. a.send_msg_perror = back.send_msg_perror
      BY <1>3 DEF Tuned, SameReport
    <2> HIDE DEF back
    <2> QED BY <1>3, <2>1, InitiatorMsgoutHandled, TunedHandled
  <1>7. CASE a.msg_type = "INITIATOR_MSGOUT"
    <2>1. a.send_msg_perror # "none" => ~Ahd!NothingToSend(a)
      BY DEF Ahd!NothingToSend
    <2>2. b = IF Ahd!NothingToSend(a) THEN panic
              ELSE IF a.LASTPHASE = "MESGOUT" THEN Ahd!InitiatorMsgout(a)
              ELSE IF a.LASTPHASE # "MESGIN" THEN Ahd!Exit(a)
              ELSE Ahd!InitiatorMsgin(turn, m)
      BY <1>7 DEF Ahd!HandleMessagePhase
    <2> HIDE DEF b, panic, turn
    <2>3. Handled(a, b) BY <1>1, <1>2, <1>4, <1>6, <2>2
    <2>4. a.LASTPHASE = "MESGOUT" /\ a.send_msg_perror # "none" =>
              b = Ahd!InitiatorMsgout(a)
      BY <2>1, <2>2
    <2> QED BY <1>6, <2>3, <2>4 DEF b
  <1>8. CASE a.msg_type # "INITIATOR_MSGOUT"
    <2>1. a.LASTPHASE = "MESGIN" => b = Ahd!InitiatorMsgin(a, m)
      BY <1>8 DEF Ahd!HandleMessagePhase
    <2>2. a.LASTPHASE # "MESGIN" => b \in {Ahd!InitiatorMsgout(back), Ahd!Exit(a)}
      BY <1>8 DEF Ahd!HandleMessagePhase
    <2>3. a.LASTPHASE = "MESGOUT" /\ a.send_msg_perror # "none" =>
              b = Ahd!InitiatorMsgout(back)
      BY <1>8 DEF Ahd!HandleMessagePhase
    <2> HIDE DEF b, back
    <2>4. Handled(a, b) BY <1>2, <1>5, <1>6, <2>1, <2>2
    <2> QED BY <1>6, <2>3, <2>4 DEF b
  <1> QED BY <1>7, <1>8

-----------------------------------------------------------------------------
(* When a connection goes wrong.                                            *)

\* A handler that may drop the report of an error but never makes one.
Calm(a, b) ==
    /\ Ready(b)
    /\ b.RETURN_1 = a.RETURN_1
    /\ b.send_msg_perror \in {a.send_msg_perror, "none"}

LEMMA TunedCalm ==
  ASSUME NEW a, Ready(a), NEW b, Tuned(a, b) PROVE Calm(a, b)
  BY TunedReady DEF Tuned, SameReport, Calm

LEMMA ClearMsgStateCalm ==
  ASSUME NEW a, Ready(a)
  PROVE  /\ Calm(a, Ahd!ClearMsgState(a))
         /\ Ahd!ClearMsgState(a).send_msg_perror = "none"
  BY Cleared DEF Ready, Calm, AhdSettings, SameSettings

LEMMA RestartCalm ==
  ASSUME NEW a, Ready(a)
  PROVE  LET b == Ahd!Restart(a)
         IN  /\ Calm(a, b)
             /\ b.send_msg_perror = "none"
             /\ b.LASTPHASE = "BUSFREE"
  <1> DEFINE b == Ahd!ClearMsgState(a)
             c == [b EXCEPT !.loop = FALSE, !.LASTPHASE = "BUSFREE",
                            !.NOT_IDENTIFIED = FALSE]
  <1>1. Calm(a, b) /\ b.send_msg_perror = "none" BY ClearMsgStateCalm
  <1>2. Ahd!Restart(a) = c BY DEF Ahd!Restart
  <1> HIDE DEF b
  <1>3. /\ DOMAIN c = AhdFields
        /\ SameSettings(b, c)
        /\ c.send_msg_perror = b.send_msg_perror
        /\ c.RETURN_1 = b.RETURN_1
        /\ c.LASTPHASE = "BUSFREE"
    BY <1>1 DEF Calm, Ready, SameSettings, AhdFields
  <1> HIDE DEF c
  <1>4. Ready(c) BY <1>1, <1>3 DEF Calm, Ready, AhdSettings, SameSettings
  <1> QED BY <1>1, <1>2, <1>3, <1>4 DEF Calm

LEMMA ResetChannelCalm ==
  ASSUME NEW a, Ready(a)
  PROVE  /\ Calm(a, Ahd!ResetChannel(a))
         /\ ~a.BUS_RESET_ACTIVE => Ahd!ResetChannel(a).send_msg_perror = "none"
         /\ Ahd!ResetChannel(a).LASTPHASE \in {a.LASTPHASE, "BUSFREE"}
  <1> DEFINE async == Ahd!ToAsync(Ahd!Freed(a, AhdScbs))
             fresh == Ahd!Restart(async)
             b     == [fresh EXCEPT !.BUS_RESET_ACTIVE = TRUE]
  <1>1. Tuned(a, async) BY ToAsyncTuned DEF Ready, Ahd!HandleDevreset
  <1>2. Calm(a, fresh) /\ fresh.send_msg_perror = "none" /\ fresh.LASTPHASE = "BUSFREE"
    <2> HIDE DEF async
    <2>1. Ready(async) BY <1>1, TunedReady
    <2> QED BY <1>1, <2>1, RestartCalm DEF Calm, Tuned, SameReport
  <1>3. Ahd!ResetChannel(a) = IF a.BUS_RESET_ACTIVE THEN a ELSE b
    BY DEF Ahd!ResetChannel
  <1> HIDE DEF fresh
  <1>4. /\ DOMAIN b = AhdFields
        /\ SameSettings(fresh, b)
        /\ b.send_msg_perror = fresh.send_msg_perror
        /\ b.RETURN_1 = fresh.RETURN_1
        /\ b.LASTPHASE = fresh.LASTPHASE
    BY <1>2 DEF Calm, Ready, SameSettings, AhdFields
  <1> HIDE DEF b
  <1>5. Calm(a, b) /\ b.send_msg_perror = "none" /\ b.LASTPHASE = "BUSFREE"
    BY <1>2, <1>4 DEF Calm, Ready, AhdSettings, SameSettings
  <1>6. Calm(a, a) BY DEF Calm
  <1> QED BY <1>3, <1>5, <1>6

LEMMA UnexpectedTuned ==
  ASSUME NEW a, DOMAIN a = AhdFields PROVE Tuned(a, Ahd!Unexpected(a))
  <1> DEFINE b == IF Ahd!Identified(a) = None THEN a
                  ELSE Ahd!Freed(a, Ahd!Nexus(a, Ahd!Identified(a)))
  <1>1. Tuned(a, b) /\ DOMAIN b = AhdFields
    <2>1. Plain(a, b) BY PlainSelf, PlainScbs
    <2> HIDE DEF b
    <2> QED BY <2>1, PlainTuned DEF Plain
  <1>2. Ahd!Unexpected(a) \in {b, Ahd!UpdateNegRequest(b, "IF_NON_ASYNC")}
    BY DEF Ahd!Unexpected, Ahd!ForceRenegotiation
  <1> HIDE DEF b
  <1> QED BY <1>1, <1>2, UpdateNegRequestTuned, TunedTwice

LEMMA HandleBusfreeTuned ==
  ASSUME NEW a, Ready(a) PROVE Tuned(a, Ahd!HandleBusfree(a))
  <1> DEFINE noppr  == [a EXCEPT !.goal.ppr_options = 0]
             narrow == Ahd!SetWidth(a, 0, {"GOAL"})
             async  == Ahd!SetSyncrate(a, Ahd!NoRate, 0, {"GOAL"})
  <1>1. ASSUME NEW b, Tuned(a, b) PROVE Tuned(a, Ahd!Requeued(b))
    <2>1. Plain(b, Ahd!Requeued(b)) BY <1>1, PlainScbs DEF Tuned
    <2> QED BY <1>1, <2>1, PlainTuned, TunedTwice
  <1>2. Tuned(a, a) BY PlainSelf, PlainTuned DEF Ready
  <1>3. \A tags : Tuned(a, Ahd!Freed(a, tags))
    BY PlainScbs, PlainTuned DEF Ready
  <1>4. Tuned(a, Ahd!HandleDevreset(a)) BY ToAsyncTuned DEF Ready
  <1>5. Tuned(a, noppr)
    <2>1. noppr.goal = a.goal BY DEF Ready, AhdSettings, Ahd!Async, AhdFields
    <2>2. Plain(a, noppr)
      BY <2>1 DEF Ready, Plain, SameSettings, SameReport, AhdFields
    <2> QED BY <2>2, PlainTuned
  <1>6. Tuned(a, narrow) BY WidthTuned DEF Ready
  <1>7. Tuned(a, async) BY SyncrateTuned DEF Ready, Ahd!NoRate
  <1>8. Tuned(a, Ahd!Unexpected(a)) BY UnexpectedTuned DEF Ready
  <1>9. Tuned(a, Ahd!HandleNonpktBusfree(a))
    <2>1. \/ Ahd!HandleNonpktBusfree(a) \in
               {a, Ahd!HandleDevreset(a), Ahd!Requeued(noppr),
                Ahd!Requeued(narrow), Ahd!Requeued(async), Ahd!Unexpected(a)}
          \/ \E tags : Ahd!HandleNonpktBusfree(a) = Ahd!Freed(a, tags)
      <3> HIDE DEF noppr, narrow, async
      <3> QED BY DEF Ahd!HandleNonpktBusfree, noppr, narrow, async
    <2> HIDE DEF noppr, narrow, async
    <2>2. /\ Tuned(a, Ahd!Requeued(noppr))
          /\ Tuned(a, Ahd!Requeued(narrow))
          /\ Tuned(a, Ahd!Requeued(async))
      BY <1>1, <1>5, <1>6, <1>7
    <2> QED BY <1>2, <1>3, <1>4, <1>8, <2>1, <2>2
  <1> QED BY <1>2, <1>9 DEF Ahd!HandleBusfree

LEMMA HandleProtoViolationCalm ==
  ASSUME NEW a, Ready(a), NEW data
  PROVE  Calm(a, Ahd!HandleProtoViolation(a, data))
  <1> DEFINE b == [a EXCEPT !.ATN = TRUE, !.MSG_OUT = "HOST_MSG"]
             abort == [b EXCEPT !.scb[Ahd!Identified(a)].flags = @ \cup {"ABORT"}]
  <1>1. Plain(a, b) BY DEF Ready, Plain, SameSettings, SameReport, AhdFields
  <1>2. Plain(a, abort) BY DEF Ready, Plain, SameSettings, SameReport, AhdFields
  <1>3. Plain(a, Ahd!AbortMessage(b, "ABORT_TASK"))
    <2> HIDE DEF b
    <2>1. Plain(b, Ahd!AbortMessage(b, "ABORT_TASK"))
      BY <1>1, PlainMessages DEF Plain
    <2> QED BY <1>1, <2>1, PlainTwice
  <1>4. Ahd!HandleProtoViolation(a, data) \in
          {Ahd!ResetChannel(a), Ahd!AbortMessage(b, "ABORT_TASK"), abort}
    BY DEF Ahd!HandleProtoViolation
  <1> HIDE DEF b, abort
  <1> QED BY <1>2, <1>3, <1>4, PlainTuned, TunedCalm, ResetChannelCalm

-----------------------------------------------------------------------------
(* The actions.  A report of an error waits for the target to take it, or   *)
(* for the session that sends it to end.                                    *)

AhdOK(a, t) ==
    /\ Ready(a)
    /\ Going(a)
    /\ a.send_msg_perror # "none" => /\ t.error \/ a.loop
                                     /\ ~a.BUS_RESET_ACTIVE
    /\ t.error => /\ a.send_msg_perror # "none"
                  /\ a.MSG_OUT = "HOST_MSG"
                  /\ t.bus = "busy"
                  /\ ~t.reselecting
    /\ t.bus # "busy" => a.send_msg_perror = "none"

AhdInv == AhdOK(ahd, ahdTarget)

\* The step that ErrorIsReported asks for.
AhdReported ==
    ahdTarget.error /\ ~ahdTarget'.error /\ ahd'.LASTPHASE = "MESGOUT"
        => ahd'.loop /\ ahd'.send_msg_perror # "none"

AhdStep == AhdOK(ahd', ahdTarget') /\ AhdReported

\* The target's state after a step that is not an error.
LEMMA TargetFields ==
  /\ ~Ahd!NoTarget.error /\ ~Ahd!Busy.error
  /\ Ahd!NoTarget.bus = "free" /\ Ahd!Busy.bus = "busy"
  /\ ~Ahd!Busy.reselecting
  BY DEF Ahd!NoTarget, Ahd!Busy

\* A step to a state without a report of an error.
LEMMA Quiet ==
  ASSUME NEW a, NEW t, Ready(a), Going(a), a.send_msg_perror = "none", ~t.error
  PROVE  AhdOK(a, t)
  BY DEF AhdOK

LEMMA CalmGoing ==
  ASSUME NEW a, Going(a), NEW b, Calm(a, b)
  PROVE  Ready(b) /\ Going(b)
  BY DEF Calm, Going

\* Outside of a session the target ends a connection only when there is
\* nothing to be told.
LEMMA OutsideOfASession ==
  ASSUME AhdInv, NEW phase, NEW m, Ahd!Offers(phase, m), ~ahd.loop,
         phase # "MESGOUT"
  PROVE  ahd.send_msg_perror = "none" /\ ~ahdTarget.error
  BY DEF AhdInv, AhdOK, Ahd!Offers

LEMMA MesgoutOutsideOfASession ==
  ASSUME AhdInv, ~Ahd!ToHost("MESGOUT", Ahd!NoMessage), ~ahd.loop
  PROVE  ahd.send_msg_perror = "none" /\ ~ahdTarget.error
  BY DEF AhdInv, AhdOK, Ahd!ToHost

LEMMA InterruptedReady ==
  ASSUME AhdInv
  PROVE  /\ Ready(Ahd!Interrupted)
         /\ Going(Ahd!Interrupted)
         /\ SameSettings(ahd, Ahd!Interrupted)
  <1>1. /\ DOMAIN Ahd!Interrupted = AhdFields
        /\ SameSettings(ahd, Ahd!Interrupted)
        /\ Ahd!Interrupted.RETURN_1 = ahd.RETURN_1
    BY DEF AhdInv, AhdOK, Ready, Ahd!Interrupted, SameSettings, AhdFields
  <1> QED BY <1>1 DEF AhdInv, AhdOK, Ready, Going, AhdSettings, SameSettings

LEMMA LockedPlain ==
  ASSUME AhdInv, NEW phase
  PROVE  /\ DOMAIN Ahd!Locked(phase) = AhdFields
         /\ SameSettings(ahd, Ahd!Locked(phase))
         /\ Ready(Ahd!Locked(phase))
         /\ Going(Ahd!Locked(phase))
         /\ Ahd!Locked(phase).LASTPHASE = phase
         /\ Ahd!Locked(phase).send_msg_perror = ahd.send_msg_perror
         /\ Ahd!Locked(phase).BUS_RESET_ACTIVE = ahd.BUS_RESET_ACTIVE
         /\ Ahd!Locked(phase).loop = ahd.loop
         /\ Ahd!Locked(phase).MSG_OUT = ahd.MSG_OUT
         /\ Ahd!Locked(phase).msg_type = ahd.msg_type
  <1> DEFINE b == Ahd!Locked(phase)
  <1>1. /\ DOMAIN b = AhdFields
        /\ SameSettings(ahd, b)
        /\ b.RETURN_1 = ahd.RETURN_1
        /\ b.LASTPHASE = phase
        /\ b.send_msg_perror = ahd.send_msg_perror
        /\ b.BUS_RESET_ACTIVE = ahd.BUS_RESET_ACTIVE
        /\ b.loop = ahd.loop
        /\ b.MSG_OUT = ahd.MSG_OUT
        /\ b.msg_type = ahd.msg_type
    BY DEF AhdInv, AhdOK, Ready, Ahd!Locked, SameSettings, AhdFields
  <1> HIDE DEF b
  <1>2. Ready(b) /\ Going(b)
    BY <1>1 DEF AhdInv, AhdOK, Ready, AhdSettings, SameSettings, Going
  <1> QED BY <1>1, <1>2 DEF b

\* A byte of a session.  The report of an error is ready when the target
\* comes for it.
LEMMA HostMsgLoopStep ==
  ASSUME AhdInv, NEW phase \in {"MESGOUT", "MESGIN", "other"},
         NEW m \in Ahd!Messages \cup {Ahd!NoMessage},
         Ahd!HostMsgLoop(phase, m)
  PROVE  AhdStep
  <1> DEFINE locked == Ahd!Locked(phase)
             begun  == IF ahd.msg_type # "NONE" THEN locked
                       ELSE IF phase # "MESGOUT"
                       THEN [locked EXCEPT !.msg_type = "INITIATOR_MSGIN",
                                           !.msgin_index = 0]
                       ELSE Ahd!SetupInitiatorMsgout(locked)
             after  == Ahd!HandleMessagePhase(begun, m)
             goon   == Going(after)
  <1>1. /\ DOMAIN locked = AhdFields
        /\ Ready(locked)
        /\ Going(locked)
        /\ locked.LASTPHASE = phase
        /\ locked.send_msg_perror = ahd.send_msg_perror
        /\ locked.BUS_RESET_ACTIVE = ahd.BUS_RESET_ACTIVE
    BY LockedPlain
  <1>2. Tuned(locked, begun)
    <2> HIDE DEF locked
    <2>1. Tuned(locked, locked) BY <1>1, PlainSelf, PlainTuned
    <2>2. Plain(locked, [locked EXCEPT !.msg_type = "INITIATOR_MSGIN",
                                       !.msgin_index = 0])
      BY <1>1 DEF Plain, SameSettings, SameReport, AhdFields
    <2>3. Tuned(locked, Ahd!SetupInitiatorMsgout(locked))
      BY <1>1, SetupInitiatorMsgoutTuned
    <2> QED BY <2>1, <2>2, <2>3, PlainTuned
  <1>3. /\ Ready(begun) /\ Going(begun)
        /\ begun.LASTPHASE = phase
        /\ begun.send_msg_perror = ahd.send_msg_perror
        /\ begun.BUS_RESET_ACTIVE = ahd.BUS_RESET_ACTIVE
    <2> HIDE DEF begun, locked
    <2> QED BY <1>1, <1>2, TunedReady DEF Tuned, SameReport, Going
  <1>4. Ahd!Offers(phase, m) /\ Ahd!Answered(after, phase, m)
    BY DEF Ahd!HostMsgLoop, Ahd!Locked
  <1>5. phase = "MESGIN" => m \in Ahd!Messages
    <2>1. phase = "MESGIN" => m # Ahd!NoMessage BY <1>4 DEF Ahd!Offers
    <2> QED BY <2>1
  <1>6. /\ Handled(begun, after)
        /\ phase = "MESGOUT" /\ ahd.send_msg_perror # "none" =>
               after.send_msg_perror # "none" /\ goon
    <2> HIDE DEF begun
    <2> QED BY <1>3, <1>5, HandleMessagePhaseHandled
  <1>7. /\ DOMAIN ahd' = AhdFields
        /\ SameSettings(after, ahd')
        /\ ahd'.loop = goon
        /\ Going(ahd')
        /\ ahd'.send_msg_perror = after.send_msg_perror
        /\ ahd'.LASTPHASE = after.LASTPHASE
        /\ ahd'.BUS_RESET_ACTIVE = after.BUS_RESET_ACTIVE
    <2> HIDE DEF after
    <2>1. ahd' = [after EXCEPT !.loop = goon, !.RETURN_1 = "CONT_MSG_LOOP"]
      BY <1>4 DEF Ahd!Answered, Going
    <2>2. DOMAIN after = AhdFields BY <1>6 DEF Handled, Ready
    <2> HIDE DEF goon
    <2> QED BY <2>1, <2>2 DEF Going, SameSettings, AhdFields
  <1>8. ~ahdTarget'.error /\ ahdTarget'.bus = "busy"
    <2> HIDE DEF after
    <2> QED BY <1>4 DEF Ahd!Answered, Ahd!Busy, Ahd!NoTarget
  <1> HIDE DEF begun, after
  <1>9. AhdOK(ahd', ahdTarget')
    <2>1. Ready(ahd')
      BY <1>6, <1>7 DEF Handled, Ready, AhdSettings, SameSettings
    <2>2. ahd'.send_msg_perror # "none" => ahd'.loop /\ ~ahd'.BUS_RESET_ACTIVE
      <3> SUFFICES ASSUME ahd'.send_msg_perror # "none"
                   PROVE  ahd'.loop /\ ~ahd'.BUS_RESET_ACTIVE
        OBVIOUS
      <3>1. goon BY <1>6, <1>7 DEF Handled
      <3>2. ahd.send_msg_perror # "none" BY <1>3, <1>6, <1>7 DEF Handled
      <3>3. ~ahd.BUS_RESET_ACTIVE BY <3>2 DEF AhdInv, AhdOK
      <3>4. ahd'.BUS_RESET_ACTIVE = ahd.BUS_RESET_ACTIVE
        BY <1>3, <1>6, <1>7 DEF Handled
      <3> QED BY <1>7, <3>1, <3>3, <3>4
    <2> QED BY <1>7, <1>8, <2>1, <2>2 DEF AhdOK
  <1>10. AhdReported
    <2> SUFFICES ASSUME ahdTarget.error, ahd'.LASTPHASE = "MESGOUT"
                 PROVE  ahd'.loop /\ ahd'.send_msg_perror # "none"
      BY DEF AhdReported
    <2>1. phase = "MESGOUT" BY <1>4 DEF Ahd!Offers
    <2>2. ahd.send_msg_perror # "none" BY DEF AhdInv, AhdOK
    <2> QED BY <1>6, <1>7, <2>1, <2>2
  <1> QED BY <1>9, <1>10 DEF AhdStep

\* The ways a connection ends or goes wrong.
LEMMA AhdErrorSteps ==
  ASSUME AhdInv,
         \/ Ahd!BusFree \/ Ahd!HwResetBus \/ Ahd!ScsiReset
         \/ \E s \in AhdScbs : Ahd!SelectionTimeout(s)
         \/ \E phase \in {"MESGIN", "other"} : Ahd!HandleTransmissionError(phase)
         \/ \E phase : Ahd!PuntMessage(phase)
  PROVE  AhdStep
  <1>1. Ready(ahd) /\ Going(ahd) BY DEF AhdInv, AhdOK
  <1>2. Ready(Ahd!Interrupted) /\ Going(Ahd!Interrupted) BY InterruptedReady
  <1>3. CASE Ahd!BusFree
    <2> DEFINE b == Ahd!HandleBusfree(Ahd!Interrupted)
    <2>1. Ready(b) /\ Going(b)
      BY <1>2, HandleBusfreeTuned, TunedCalm, CalmGoing
    <2>2. ahd' = Ahd!Restart(b) /\ ahdTarget' = Ahd!NoTarget
      BY <1>3 DEF Ahd!BusFree
    <2> HIDE DEF b
    <2>3. Calm(b, ahd') /\ ahd'.send_msg_perror = "none" /\ ahd'.LASTPHASE = "BUSFREE"
      BY <2>1, <2>2, RestartCalm
    <2>4. Ready(ahd') /\ Going(ahd') BY <2>1, <2>3, CalmGoing
    <2>5. AhdOK(ahd', ahdTarget') BY <2>2, <2>3, <2>4, TargetFields, Quiet
    <2> QED BY <2>3, <2>5 DEF AhdStep, AhdReported
  <1>4. ASSUME ~ahd.BUS_RESET_ACTIVE, ahd' = Ahd!ResetChannel(ahd),
               ahdTarget' = Ahd!NoTarget
        PROVE  AhdStep
    <2>1. Calm(ahd, ahd') /\ ahd'.send_msg_perror = "none"
      BY <1>1, <1>4, ResetChannelCalm
    <2>2. Ready(ahd') /\ Going(ahd') BY <1>1, <2>1, CalmGoing
    <2>3. AhdOK(ahd', ahdTarget') BY <1>4, <2>1, <2>2, TargetFields, Quiet
    <2>4. ahd'.LASTPHASE = "BUSFREE"
      <3> DEFINE c == Ahd!ToAsync(Ahd!Freed(ahd, AhdScbs))
      <3>1. Ready(c)
        BY <1>1, ToAsyncTuned, TunedReady DEF Ready, Ahd!HandleDevreset
      <3>2. ahd' = [Ahd!Restart(c) EXCEPT !.BUS_RESET_ACTIVE = TRUE]
        BY <1>4 DEF Ahd!ResetChannel
      <3> HIDE DEF c
      <3>3. DOMAIN Ahd!Restart(c) = AhdFields /\ Ahd!Restart(c).LASTPHASE = "BUSFREE"
        BY <3>1, RestartCalm DEF Calm, Ready
      <3> QED BY <3>2, <3>3 DEF AhdFields
    <2> QED BY <2>3, <2>4 DEF AhdStep, AhdReported
  <1>5. CASE Ahd!HwResetBus
    <2>1. CASE ahd.BUS_RESET_ACTIVE
      <3>1. ahd' = ahd /\ ahdTarget' = ahdTarget
        BY <1>5, <2>1 DEF Ahd!HwResetBus, Ahd!ResetChannel
      <3> QED BY <3>1 DEF AhdInv, AhdStep, AhdReported
    <2>2. CASE ~ahd.BUS_RESET_ACTIVE BY <1>4, <1>5, <2>2 DEF Ahd!HwResetBus
    <2> QED BY <2>1, <2>2
  <1>6. CASE Ahd!ScsiReset
    <2>1. CASE ahd.BUS_RESET_ACTIVE
      <3>1. ahd' = ahd /\ ahdTarget' = Ahd!NoTarget
        BY <1>6, <2>1 DEF Ahd!ScsiReset
      <3>2. ahd.send_msg_perror = "none" /\ ~ahdTarget.error
        BY <2>1 DEF AhdInv, AhdOK
      <3>3. AhdOK(ahd', ahdTarget') BY <1>1, <3>1, <3>2, TargetFields, Quiet
      <3> QED BY <3>2, <3>3 DEF AhdStep, AhdReported
    <2>2. CASE ~ahd.BUS_RESET_ACTIVE BY <1>4, <1>6, <2>2 DEF Ahd!ScsiReset
    <2> QED BY <2>1, <2>2
  <1>7. CASE \E s \in AhdScbs : Ahd!SelectionTimeout(s)
    <2> DEFINE b == Ahd!ClearMsgState(Ahd!Interrupted)
    <2>1. /\ ahd' = Ahd!HandleDevreset(b)
          /\ ahdTarget' = ahdTarget /\ ahdTarget.bus = "free"
      BY <1>7 DEF Ahd!SelectionTimeout
    <2>2. Calm(Ahd!Interrupted, b) /\ b.send_msg_perror = "none"
      BY <1>2, ClearMsgStateCalm
    <2>3. Ready(b) /\ Going(b) BY <1>2, <2>2, CalmGoing
    <2> HIDE DEF b
    <2>4. Calm(b, ahd') BY <2>1, <2>3, ToAsyncTuned, TunedCalm DEF Ready
    <2>5. Ready(ahd') /\ Going(ahd') /\ ahd'.send_msg_perror = "none"
      BY <2>2, <2>3, <2>4, CalmGoing DEF Calm
    <2>6. ~ahdTarget.error BY <2>1 DEF AhdInv, AhdOK
    <2>7. AhdOK(ahd', ahdTarget') BY <2>1, <2>5, <2>6, Quiet
    <2> QED BY <2>6, <2>7 DEF AhdStep, AhdReported
  <1>8. CASE \E phase \in {"MESGIN", "other"} : Ahd!HandleTransmissionError(phase)
    <2>1. PICK phase \in {"MESGIN", "other"} : Ahd!HandleTransmissionError(phase)
      BY <1>8
    <2>2. PICK error \in {"PARITY_ERROR", "INITIATOR_ERROR"} :
            ahd' = [Ahd!Interrupted EXCEPT
                      !.ATN = TRUE, !.LASTPHASE = phase,
                      !.send_msg_perror = error, !.MSG_OUT = "HOST_MSG"]
      BY <2>1 DEF Ahd!HandleTransmissionError
    <2>3. ahdTarget' = [Ahd!Busy EXCEPT !.error = TRUE]
      BY <2>1 DEF Ahd!HandleTransmissionError
    <2>4. /\ ahdTarget'.error /\ ahdTarget'.bus = "busy"
          /\ ~ahdTarget'.reselecting
      BY <2>3 DEF Ahd!Busy, Ahd!NoTarget
    <2>5. ~Ahd!Interrupted.BUS_RESET_ACTIVE
      BY <1>1 DEF Ahd!Interrupted, Ready, AhdFields
    <2>6. /\ DOMAIN ahd' = AhdFields
          /\ SameSettings(Ahd!Interrupted, ahd')
          /\ ahd'.send_msg_perror = error
          /\ ahd'.MSG_OUT = "HOST_MSG"
          /\ ahd'.RETURN_1 = Ahd!Interrupted.RETURN_1
          /\ ahd'.BUS_RESET_ACTIVE = Ahd!Interrupted.BUS_RESET_ACTIVE
      BY <1>2, <2>2 DEF Ready, SameSettings, AhdFields
    <2>7. Ready(ahd') /\ Going(ahd')
      BY <1>2, <2>6 DEF Ready, AhdSettings, SameSettings, Going
    <2>8. AhdOK(ahd', ahdTarget') BY <2>4, <2>5, <2>6, <2>7 DEF AhdOK
    <2> QED BY <2>4, <2>8 DEF AhdStep, AhdReported
  <1>9. CASE \E phase : Ahd!PuntMessage(phase)
    <2>1. PICK phase : Ahd!PuntMessage(phase) BY <1>9
    <2>2. ahd' = Ahd!Restart(Ahd!Locked(phase)) /\ ahdTarget' = Ahd!NoTarget
      BY <2>1 DEF Ahd!PuntMessage, Ahd!Locked
    <2>3. Ready(Ahd!Locked(phase)) /\ Going(Ahd!Locked(phase)) BY LockedPlain
    <2>4. /\ Calm(Ahd!Locked(phase), ahd')
          /\ ahd'.send_msg_perror = "none" /\ ahd'.LASTPHASE = "BUSFREE"
      BY <2>2, <2>3, RestartCalm
    <2>5. Ready(ahd') /\ Going(ahd') BY <2>3, <2>4, CalmGoing
    <2>6. AhdOK(ahd', ahdTarget') BY <2>2, <2>4, <2>5, TargetFields, Quiet
    <2> QED BY <2>4, <2>6 DEF AhdStep, AhdReported
  <1> QED BY <1>3, <1>5, <1>6, <1>7, <1>8, <1>9

\* The sequencer begins a connection, or finds one it cannot place.
LEMMA AhdConnectionSteps ==
  ASSUME AhdInv,
         \/ Ahd!SelectIn \/ Ahd!SnoopTag \/ Ahd!Unstuck
         \/ Ahd!NotFound \/ Ahd!NoIdentify
         \/ \E s \in AhdScbs : Ahd!StartIo(s) \/ Ahd!Select(s) \/ Ahd!MesginIdentify(s)
  PROVE  AhdStep
  <1>1. Ready(ahd) /\ Going(ahd) BY DEF AhdInv, AhdOK
  <1>2. DOMAIN ahd = AhdFields BY <1>1 DEF Ready
  <1>3. ASSUME ahdTarget.bus # "busy", ~ahdTarget'.error,
               Ready(ahd'), Going(ahd'),
               ahd'.send_msg_perror = ahd.send_msg_perror
        PROVE  AhdStep
    BY <1>3, Quiet DEF AhdInv, AhdOK, AhdStep, AhdReported
  <1>4. ASSUME ahdTarget.reselecting, ~ahdTarget'.error,
               ahdTarget'.bus = "busy" \/ ahdTarget' = ahdTarget,
               Ready(ahd'), Going(ahd'),
               ahd'.send_msg_perror = ahd.send_msg_perror,
               ahd'.loop = ahd.loop,
               ahd'.BUS_RESET_ACTIVE = ahd.BUS_RESET_ACTIVE
        PROVE  AhdStep
    BY <1>4 DEF AhdInv, AhdOK, AhdStep, AhdReported
  <1>5. ASSUME NEW b, Plain(ahd, b)
        PROVE  /\ Ready(b) /\ Going(b)
               /\ b.send_msg_perror = ahd.send_msg_perror
               /\ b.loop = ahd.loop
               /\ b.BUS_RESET_ACTIVE = ahd.BUS_RESET_ACTIVE
    BY <1>1, <1>5, PlainTuned, TunedReady DEF Plain, SameReport, Going
  <1>6. CASE Ahd!SelectIn
    <2>1. ahd' = ahd /\ ahdTarget.bus = "free" /\ ~ahdTarget'.error
      BY <1>6 DEF Ahd!SelectIn, Ahd!Busy, Ahd!NoTarget
    <2> QED BY <1>1, <1>3, <2>1
  <1>7. CASE Ahd!Unstuck
    <2>1. ahd' = ahd /\ ahdTarget.bus = "stuck" /\ ~ahdTarget'.error
      BY <1>7, TargetFields DEF Ahd!Unstuck
    <2> QED BY <1>1, <1>3, <2>1
  <1>8. ASSUME ahdTarget.reselecting, ahdTarget' \in {ahdTarget, Ahd!Busy},
               NEW s, NEW b, Tuned([ahd EXCEPT !.scbptr = s, !.LASTPHASE = "MESGIN"], b),
               ahd' = b
        PROVE  AhdStep
    <2> DEFINE c == [ahd EXCEPT !.scbptr = s, !.LASTPHASE = "MESGIN"]
    <2>1. /\ DOMAIN c = AhdFields
          /\ SameSettings(ahd, c)
          /\ c.RETURN_1 = ahd.RETURN_1
          /\ c.send_msg_perror = ahd.send_msg_perror
          /\ c.loop = ahd.loop
          /\ c.BUS_RESET_ACTIVE = ahd.BUS_RESET_ACTIVE
      BY <1>2 DEF SameSettings, AhdFields
    <2>2. Tuned(c, ahd') BY <1>8
    <2> HIDE DEF c
    <2>3. Ready(c) /\ Going(c)
      BY <1>1, <2>1 DEF Ready, AhdSettings, SameSettings, Going
    <2>4. Ready(ahd') /\ Going(ahd') BY <2>2, <2>3, TunedReady DEF Tuned, SameReport, Going
    <2>5. ~ahdTarget.error BY <1>8 DEF AhdInv, AhdOK
    <2>6. ~ahdTarget'.error /\ (ahdTarget'.bus = "busy" \/ ahdTarget' = ahdTarget)
      BY <1>8, <2>5, TargetFields
    <2> QED BY <1>4, <1>8, <2>1, <2>2, <2>4, <2>6 DEF Tuned, SameReport
  <1>9. ASSUME NEW s, DOMAIN ahd = AhdFields
        PROVE  DOMAIN [ahd EXCEPT !.scbptr = s, !.LASTPHASE = "MESGIN"] = AhdFields
    BY <1>9
  <1>10. CASE Ahd!SnoopTag
    <2>1. PICK s \in AhdScbs \cup {None} :
            ahd' = [ahd EXCEPT !.scbptr = s, !.LASTPHASE = "MESGIN"]
      BY <1>10 DEF Ahd!SnoopTag, Ahd!Snoop
    <2>2. ahdTarget.reselecting /\ ahdTarget' = ahdTarget
      BY <1>10 DEF Ahd!SnoopTag
    <2> QED BY <1>2, <1>8, <1>9, <2>1, <2>2, PlainSelf, PlainTuned
  <1>11. CASE Ahd!NotFound
    <2>1. PICK s \in AhdScbs \cup {None} :
            ahd' = Ahd!NoMatch([ahd EXCEPT !.scbptr = s, !.LASTPHASE = "MESGIN"])
      BY <1>11 DEF Ahd!NotFound
    <2>2. ahdTarget.reselecting /\ ahdTarget' = Ahd!Busy
      BY <1>11 DEF Ahd!NotFound
    <2>3. ASSUME NEW c, DOMAIN c = AhdFields PROVE Tuned(c, Ahd!NoMatch(c))
      <3> DEFINE d == [c EXCEPT !.ATN = TRUE, !.MSG_OUT = "HOST_MSG"]
      <3>1. Plain(c, d) BY <2>3 DEF Plain, SameSettings, SameReport, AhdFields
      <3> HIDE DEF d
      <3>2. Plain(d, Ahd!AbortMessage(d, "TARGET_RESET"))
        BY <3>1, PlainMessages DEF Plain
      <3> QED BY <3>1, <3>2, PlainTwice, PlainTuned DEF Ahd!NoMatch, d
    <2> QED BY <1>2, <1>8, <1>9, <2>1, <2>2, <2>3
  <1>12. CASE Ahd!NoIdentify
    <2>1. ahd' = ahd /\ ahdTarget.reselecting /\ ahdTarget' = Ahd!Busy
      BY <1>12 DEF Ahd!NoIdentify
    <2> QED BY <1>1, <1>4, <2>1, TargetFields
  <1>13. ASSUME NEW s \in AhdScbs, Ahd!StartIo(s) PROVE AhdStep
    <2>1. ahdTarget' = ahdTarget BY <1>13 DEF Ahd!StartIo
    <2>2. Plain(ahd, ahd') /\ ahd'.MSG_OUT = ahd.MSG_OUT
      BY <1>2, <1>13 DEF Ahd!StartIo, Plain, SameSettings, SameReport, AhdFields
    <2>3. AhdOK(ahd', ahdTarget')
      BY <1>5, <2>1, <2>2 DEF AhdInv, AhdOK
    <2> QED BY <2>1, <2>3 DEF AhdStep, AhdReported
  <1>14. ASSUME NEW s \in AhdScbs, Ahd!Select(s) PROVE AhdStep
    <2>1. Plain(ahd, ahd')
      BY <1>2, <1>14 DEF Ahd!Select, Plain, SameSettings, SameReport, AhdFields
    <2>2. ahdTarget.bus = "free" /\ ahdTarget' = Ahd!Busy BY <1>14 DEF Ahd!Select
    <2> QED BY <1>3, <1>5, <2>1, <2>2, TargetFields
  <1>15. ASSUME NEW s \in AhdScbs, Ahd!MesginIdentify(s) PROVE AhdStep
    <2>1. /\ DOMAIN ahd' = AhdFields
          /\ SameSettings(ahd, ahd')
          /\ ahd'.RETURN_1 = ahd.RETURN_1
          /\ ahd'.loop = ahd.loop
          /\ ahd'.send_msg_perror = ahd.send_msg_perror
          /\ ahd'.BUS_RESET_ACTIVE = ahd.BUS_RESET_ACTIVE
      BY <1>2, <1>15 DEF Ahd!MesginIdentify, SameSettings, AhdFields
    <2>2. Ready(ahd') /\ Going(ahd')
      BY <1>1, <2>1 DEF Ready, AhdSettings, SameSettings, Going
    <2>3. ahdTarget.reselecting /\ ahdTarget' = Ahd!Busy
      BY <1>15 DEF Ahd!MesginIdentify
    <2> QED BY <1>4, <2>1, <2>2, <2>3, TargetFields
  <1> QED BY <1>6, <1>7, <1>10, <1>11, <1>12, <1>13, <1>14, <1>15

\* What the sequencer does by itself between two sessions: no error waits then.
LEMMA AhdSequencerSteps ==
  ASSUME AhdInv,
         \/ Ahd!Mesgout \/ Ahd!MesginNop \/ Ahd!MesginReject
         \/ Ahd!Disconnect \/ Ahd!CommandComplete \/ Ahd!CheckCondition
         \/ Ahd!MesginProtoViolation \/ Ahd!OtherPhase
  PROVE  AhdStep
  <1>1. Ready(ahd) /\ Going(ahd) BY DEF AhdInv, AhdOK
  <1>2. DOMAIN ahd = AhdFields BY <1>1 DEF Ready
  <1>3. ahd.send_msg_perror = "none" /\ ~ahdTarget.error
    <2>1. CASE Ahd!Mesgout
      BY <2>1, MesgoutOutsideOfASession DEF Ahd!Mesgout
    <2>2. CASE ~Ahd!Mesgout
      <3>1. ~ahd.loop /\ \E phase, m : phase # "MESGOUT" /\ Ahd!Offers(phase, m)
        BY <2>2, Zenon
           DEF Ahd!MesginNop, Ahd!MesginReject, Ahd!Disconnect,
               Ahd!CommandComplete, Ahd!CheckCondition,
               Ahd!MesginProtoViolation, Ahd!OtherPhase, Ahd!Mesgin
      <3> QED BY <3>1, OutsideOfASession
    <2> QED BY <2>1, <2>2
  <1>4. ASSUME NEW b, Ready(b), Going(b), b.send_msg_perror = "none",
               ahd' = b, ~ahdTarget'.error
        PROVE  AhdStep
    BY <1>3, <1>4, Quiet DEF AhdStep, AhdReported
  <1>5. ASSUME NEW phase
        PROVE  LET b == Ahd!Locked(phase)
               IN DOMAIN b = AhdFields /\ Ready(b) /\ Going(b) /\ b.send_msg_perror = "none"
    BY <1>3, LockedPlain
  <1>6. ASSUME NEW b, Ready(b), Going(b), b.send_msg_perror = "none",
               NEW c, Calm(b, c)
        PROVE  Ready(c) /\ Going(c) /\ c.send_msg_perror = "none"
    BY <1>6, CalmGoing DEF Calm
  <1>7. ASSUME NEW b, Calm(ahd, b), Ahd!AwaitBusfree(b) PROVE AhdStep
    <2> DEFINE c == [b EXCEPT !.NOT_IDENTIFIED = TRUE, !.LASTPHASE = "BUSFREE",
                              !.ATN = FALSE]
    <2>1. Ready(b) /\ Going(b) /\ b.send_msg_perror = "none"
      BY <1>1, <1>3, <1>6, <1>7
    <2>2. /\ DOMAIN c = AhdFields
          /\ SameSettings(b, c)
          /\ c.RETURN_1 = b.RETURN_1
          /\ c.send_msg_perror = b.send_msg_perror
      BY <2>1 DEF Ready, SameSettings, AhdFields
    <2>3. /\ ahd' = c \/ ahd' = Ahd!Restart(c)
          /\ ~ahdTarget'.error
      BY <1>7 DEF Ahd!AwaitBusfree, Ahd!NoTarget
    <2> HIDE DEF c
    <2>4. Ready(c) /\ Going(c) /\ c.send_msg_perror = "none"
      BY <2>1, <2>2 DEF Ready, AhdSettings, SameSettings, Going
    <2>5. Calm(c, Ahd!Restart(c)) BY <2>4, RestartCalm
    <2> QED BY <1>4, <1>6, <2>3, <2>4, <2>5
  <1>8. CASE Ahd!Mesgout
    <2> DEFINE b == Ahd!Locked("MESGOUT")
               c == [b EXCEPT !.ATN = FALSE, !.MSG_OUT = "NOP"]
    <2>1. ahd' = c /\ ahdTarget' = Ahd!Busy BY <1>8 DEF Ahd!Mesgout
    <2>2. DOMAIN b = AhdFields /\ Ready(b) /\ Going(b) /\ b.send_msg_perror = "none"
      BY <1>5
    <2> HIDE DEF b
    <2>3. Plain(b, c) BY <2>2 DEF Plain, SameSettings, SameReport, AhdFields
    <2> HIDE DEF c
    <2>4. Calm(b, c) BY <2>2, <2>3, PlainTuned, TunedCalm
    <2> QED BY <1>4, <1>6, <2>1, <2>2, <2>4, TargetFields
  <1>9. CASE Ahd!MesginNop
    BY <1>4, <1>5, <1>9, TargetFields DEF Ahd!MesginNop
  <1>10. CASE Ahd!MesginReject
    <2> DEFINE b == Ahd!Locked("MESGIN")
               c == [b EXCEPT !.ATN = TRUE, !.MSG_OUT = "MESSAGE_REJECT"]
    <2>1. ahd' = c /\ ahdTarget' = Ahd!Busy BY <1>10 DEF Ahd!MesginReject
    <2>2. DOMAIN b = AhdFields /\ Ready(b) /\ Going(b) /\ b.send_msg_perror = "none"
      BY <1>5
    <2> HIDE DEF b
    <2>3. Plain(b, c) BY <2>2 DEF Plain, SameSettings, SameReport, AhdFields
    <2> HIDE DEF c
    <2>4. Calm(b, c) BY <2>2, <2>3, PlainTuned, TunedCalm
    <2> QED BY <1>4, <1>6, <2>1, <2>2, <2>4, TargetFields
  <1>11. CASE Ahd!Disconnect
    <2> DEFINE b == [ahd EXCEPT !.scb[ahd.scbptr].where = "disconnected"]
    <2>1. Plain(ahd, b) BY <1>2 DEF Plain, SameSettings, SameReport, AhdFields
    <2>2. Ahd!AwaitBusfree(b) BY <1>11 DEF Ahd!Disconnect
    <2> HIDE DEF b
    <2> QED BY <1>1, <1>7, <2>1, <2>2, PlainTuned, TunedCalm
  <1>12. CASE Ahd!CommandComplete
    BY <1>1, <1>2, <1>7, <1>12, PlainScbs, PlainTuned, TunedCalm
       DEF Ahd!CommandComplete
  <1>13. CASE Ahd!CheckCondition
    <2> DEFINE b == Ahd!UpdateNegRequest(ahd, "IF_NON_ASYNC")
    <2>1. Tuned(ahd, b) BY <1>2, UpdateNegRequestTuned
    <2>2. PICK new :
            Ahd!AwaitBusfree([b EXCEPT !.card[ahd.scbptr] = FALSE,
                                       !.scb[ahd.scbptr] = new])
      BY <1>13 DEF Ahd!CheckCondition, Ahd!ForceRenegotiation
    <2> DEFINE c == [b EXCEPT !.card[ahd.scbptr] = FALSE,
                              !.scb[ahd.scbptr] = new]
    <2> HIDE DEF b
    <2>3. Plain(b, c) BY <2>1 DEF Tuned, Plain, SameSettings, SameReport, AhdFields
    <2>4. Ahd!AwaitBusfree(c) BY <2>2
    <2> HIDE DEF c
    <2>5. Tuned(ahd, c) BY <2>1, <2>3, PlainTuned, TunedTwice
    <2> QED BY <1>1, <1>7, <2>4, <2>5, TunedCalm
  <1>14. ~Ahd!StillThere \/ ~ahdTarget'.error
    BY TargetFields DEF Ahd!StillThere
  <1>15. CASE Ahd!MesginProtoViolation
    <2> DEFINE b == Ahd!Locked("MESGIN")
               c == Ahd!HandleProtoViolation(b, FALSE)
    <2>1. ahd' = c /\ Ahd!StillThere BY <1>15 DEF Ahd!MesginProtoViolation
    <2>2. Ready(b) /\ Going(b) /\ b.send_msg_perror = "none" BY <1>5
    <2> HIDE DEF b
    <2>3. Calm(b, c) BY <2>2, HandleProtoViolationCalm
    <2> HIDE DEF c
    <2> QED BY <1>4, <1>6, <1>14, <2>1, <2>2, <2>3
  <1>16. CASE Ahd!OtherPhase
    <2> DEFINE b == Ahd!Locked("other")
    <2>1. /\ Ahd!StillThere
          /\ ahd' = b \/ \E data : ahd' = Ahd!HandleProtoViolation(b, data)
      BY <1>16 DEF Ahd!OtherPhase
    <2>2. Ready(b) /\ Going(b) /\ b.send_msg_perror = "none" BY <1>5
    <2> HIDE DEF b
    <2>3. \A data : Calm(b, Ahd!HandleProtoViolation(b, data))
      BY <2>2, HandleProtoViolationCalm
    <2> QED BY <1>4, <1>6, <1>14, <2>1, <2>2, <2>3
  <1> QED BY <1>8, <1>9, <1>10, <1>11, <1>12, <1>13, <1>15, <1>16

LEMMA AhdInitially == Ahd!Init => AhdInv
  <1> SUFFICES ASSUME Ahd!Init PROVE AhdInv OBVIOUS
  <1>1. DOMAIN ahd = AhdFields BY DEF Ahd!Init, AhdFields
  <1>2. /\ ahd.curr = Ahd!Async /\ ahd.goal = Ahd!Async
        /\ ahd.negtable = Ahd!Async
        /\ ahd.send_msg_perror = "none" /\ ahd.RETURN_1 = "CONT_MSG_LOOP"
        /\ ahdTarget = Ahd!NoTarget
    BY DEF Ahd!Init
  <1>3. "period" \in DOMAIN Ahd!Async BY DEF Ahd!Async
  <1>4. Ready(ahd) BY <1>1, <1>2, <1>3 DEF Ready, AhdSettings
  <1> QED BY <1>2, <1>4, TargetFields, Quiet DEF AhdInv, Going

LEMMA AhdInductive == AhdInv /\ Ahd!Next => AhdStep
  <1> SUFFICES ASSUME AhdInv, Ahd!Next PROVE AhdStep OBVIOUS
  <1>1. CASE \E phase \in {"MESGOUT", "MESGIN", "other"},
                m \in Ahd!Messages \cup {Ahd!NoMessage} : Ahd!HostMsgLoop(phase, m)
    BY <1>1, HostMsgLoopStep
  <1>2. CASE \/ Ahd!BusFree \/ Ahd!HwResetBus \/ Ahd!ScsiReset
             \/ \E s \in AhdScbs : Ahd!SelectionTimeout(s)
             \/ \E phase \in {"MESGIN", "other"} : Ahd!HandleTransmissionError(phase)
             \/ \E phase : Ahd!PuntMessage(phase)
    BY <1>2, AhdErrorSteps
  <1>3. CASE \/ Ahd!SelectIn \/ Ahd!SnoopTag \/ Ahd!Unstuck
             \/ Ahd!NotFound \/ Ahd!NoIdentify
             \/ \E s \in AhdScbs : Ahd!StartIo(s) \/ Ahd!Select(s) \/ Ahd!MesginIdentify(s)
    BY <1>3, AhdConnectionSteps
  <1>4. CASE \/ Ahd!Mesgout \/ Ahd!MesginNop \/ Ahd!MesginReject
             \/ Ahd!Disconnect \/ Ahd!CommandComplete \/ Ahd!CheckCondition
             \/ Ahd!MesginProtoViolation \/ Ahd!OtherPhase
    BY <1>4, AhdSequencerSteps
  <1> QED BY <1>1, <1>2, <1>3, <1>4, Zenon DEF Ahd!Next

-----------------------------------------------------------------------------
(* The theorems of the aic79xx.                                             *)

LEMMA AhdInvariance == FamilySpec => [](AhdInv)
  <1>1. FamilyInit => AhdInv BY AhdInitially DEF FamilyInit
  <1>2. AhdInv /\ [FamilyNext]_<<family, vars, ahdVars>> => AhdInv'
    <2> SUFFICES ASSUME AhdInv, [FamilyNext]_<<family, vars, ahdVars>>
                 PROVE  AhdInv'
      OBVIOUS
    <2>1. CASE Ahd!Next BY <2>1, AhdInductive DEF AhdStep, AhdInv
    <2>2. CASE ~Ahd!Next
      <3>1. ahd' = ahd /\ ahdTarget' = ahdTarget
        BY <2>2 DEF FamilyNext, ahdVars
      <3> QED BY <3>1 DEF AhdInv
    <2> QED BY <2>1, <2>2
  <1> QED BY <1>1, <1>2, PTL DEF FamilySpec

\* A report of an error is for the connection it was seen on: none is left when
\* the bus is free, whatever ended the connection (ahd_clear_msg_state).
THEOREM ReportsStay == FamilySpec => []AhdReportsStay
  <1>1. AhdInv => AhdReportsStay
    BY DEF AhdInv, AhdOK, AhdReportsStay, Ahd!ReportsStay
  <1> QED BY <1>1, AhdInvariance, PTL

\* When the target takes our message after a parity error it is told about the
\* error (ahd_handle_transmission_error, ahd_handle_message_phase).
THEOREM ErrorIsReported == FamilySpec => AhdErrorIsReported
  <1>1. AhdInv /\ [FamilyNext]_<<family, vars, ahdVars>> => [AhdReported]_Ahd!vars
    <2> SUFFICES ASSUME AhdInv, [FamilyNext]_<<family, vars, ahdVars>>
                 PROVE  [AhdReported]_Ahd!vars
      OBVIOUS
    <2>1. CASE Ahd!Next BY <2>1, AhdInductive DEF AhdStep
    <2>2. CASE ~Ahd!Next
      <3>1. UNCHANGED Ahd!vars BY <2>2 DEF FamilyNext, ahdVars, Ahd!vars
      <3> QED BY <3>1
    <2> QED BY <2>1, <2>2
  <1>2. FamilySpec => [][AhdReported]_Ahd!vars
    BY <1>1, AhdInvariance, PTL DEF FamilySpec
  <1> QED BY <1>2 DEF AhdErrorIsReported, Ahd!ErrorIsReported, AhdReported

-----------------------------------------------------------------------------
(* The aic7xxx.  Here the invariant also covers the SCBs and their copies   *)
(* on the card, for the sequencer asks for a message when a copy says so    *)
(* and the host takes its reason from the SCB.                              *)

AhcFields == {"curr", "goal", "auto_negotiate", "scb", "card", "scbptr",
              "nexus", "ATN", "loop", "MSG_OUT", "msg_type", "msgout_buf",
              "msgout_len", "msgout_index", "msgin_index", "send_msg_perror",
              "RETURN_1", "panic"}

Transfer == [width : {0, UNKNOWN}, period : {0, UNKNOWN},
             offset : {0, UNKNOWN}, ppr_options : {0}]

\* What is not known will be negotiated.
AhcSettings(a) ==
    /\ a.curr \in Transfer
    /\ a.goal = Async
    /\ a.auto_negotiate \in BOOLEAN
    /\ a.curr # a.goal => a.auto_negotiate

\* An SCB asks for a message only with a reason, and its copy only along with
\* it, while it is on the card.
ScbOK(r, c) ==
    /\ DOMAIN r = {"where", "flags", "MK_MESSAGE", "tagged", "scsioffset"}
    /\ DOMAIN c = {"MK_MESSAGE", "scsioffset"}
    /\ r.where \in {"free", "queued", "connected", "disconnected"}
    /\ r.flags \subseteq {"AUTO_NEGOTIATE", "ABORT", "SENSE"}
    /\ r.MK_MESSAGE \in BOOLEAN /\ r.tagged \in BOOLEAN
    /\ r.scsioffset \in {0, UNKNOWN} /\ c.scsioffset \in {0, UNKNOWN}
    /\ c.MK_MESSAGE \in BOOLEAN
    /\ r.MK_MESSAGE => "AUTO_NEGOTIATE" \in r.flags
    /\ c.MK_MESSAGE => r.MK_MESSAGE /\ r.where \in {"connected", "disconnected"}

AhcScbs(a) ==
    /\ DOMAIN a.scb = Scbs /\ DOMAIN a.card = Scbs
    /\ \A s \in Scbs : ScbOK(a.scb[s], a.card[s])

\* The buffer of the message that goes out.
AhcBuffer(a) ==
    /\ a.msgout_buf \in [0 .. 2 -> Contents]
    /\ a.msgout_len \in 0 .. 5
    /\ a.msgout_index \in 0 .. 5
    /\ a.msgout_index <= a.msgout_len

AhcSignals(a) ==
    /\ a.ATN \in BOOLEAN
    /\ a.MSG_OUT \in {"NOP", "IDENTIFY", "HOST_MSG", "PARITY_ERROR"}

AhcSession(a) ==
    /\ a.loop \in BOOLEAN
    /\ a.nexus \in {"free", "identified", "not identified"}
    /\ a.scbptr \in Scbs \cup {None}
    /\ a.nexus = "identified" => a.scbptr \in Scbs
    /\ a.msg_type \in {"NONE", "INITIATOR_MSGOUT", "INITIATOR_MSGIN"}
    /\ a.msgin_index \in 0 .. 2
    /\ a.send_msg_perror \in BOOLEAN
    /\ a.RETURN_1 \in {"CONT_MSG_LOOP", "EXIT_MSG_LOOP"}
    /\ a.panic # "no waiting message"

Sound(a) ==
    /\ DOMAIN a = AhcFields
    /\ AhcSettings(a)
    /\ AhcScbs(a)
    /\ AhcBuffer(a)
    /\ AhcSignals(a)
    /\ AhcSession(a)

\* From a to b the session stayed where it was.
SameSession(a, b) ==
    /\ b.loop = a.loop
    /\ b.nexus = a.nexus
    /\ b.scbptr = a.scbptr
    /\ b.msg_type = a.msg_type
    /\ b.msgin_index = a.msgin_index
    /\ b.send_msg_perror = a.send_msg_perror
    /\ b.RETURN_1 = a.RETURN_1

Steady(a, b) == Sound(b) /\ SameSession(a, b)

LEMMA SteadyTwice ==
  ASSUME NEW a, NEW b, NEW c, Steady(a, b), Steady(b, c) PROVE Steady(a, c)
  BY DEF Steady, SameSession

LEMMA SteadySelf == ASSUME NEW a, Sound(a) PROVE Steady(a, a)
  BY DEF Steady, SameSession

\* Nothing but the buffer.
LEMMA BufferSteady ==
  ASSUME NEW a, Sound(a), NEW b, DOMAIN b = AhcFields, AhcBuffer(b),
         b.curr = a.curr, b.goal = a.goal, b.auto_negotiate = a.auto_negotiate,
         b.scb = a.scb, b.card = a.card, b.ATN \in BOOLEAN, b.MSG_OUT = a.MSG_OUT,
         SameSession(a, b), b.panic # "no waiting message"
  PROVE  Steady(a, b)
  BY DEF Steady, Sound, AhcSettings, AhcScbs, AhcSignals, AhcSession, SameSession

LEMMA AhcBufferSteady ==
  ASSUME NEW a, Sound(a)
  PROVE  /\ Steady(a, Emptied(a))
         /\ Steady(a, FromTop(a))
         /\ \A why : why # "no waiting message" => Steady(a, Panic(a, why))
         /\ Steady(a, Rejected(a))
         /\ \A n \in 0 .. 3 : a.msgout_len <= 2 => Steady(a, Construct(a, n))
  <1> USE DEF AhcFields
  <1>1. /\ DOMAIN a = AhcFields /\ AhcBuffer(a)
        /\ a.ATN \in BOOLEAN /\ a.panic # "no waiting message"
    BY DEF Sound, AhcSignals, AhcSession
  <1>buffer. AhcBuffer(a) BY DEF Sound
  <1>2. Steady(a, Emptied(a))
    <2> DEFINE b == Emptied(a)
    <2>1. /\ DOMAIN b = AhcFields
          /\ b.curr = a.curr /\ b.goal = a.goal /\ b.auto_negotiate = a.auto_negotiate
          /\ b.scb = a.scb /\ b.card = a.card /\ b.ATN = a.ATN /\ b.MSG_OUT = a.MSG_OUT
          /\ b.panic = a.panic /\ SameSession(a, b)
      BY <1>1 DEF Emptied, SameSession
    <2>2. b.msgout_buf = a.msgout_buf /\ b.msgout_len = 0 /\ b.msgout_index = 0
      BY <1>1 DEF Emptied
    <2>3. AhcBuffer(b)
      <3> HIDE DEF b, AhcFields
      <3> QED BY <1>buffer, <2>2 DEF AhcBuffer
    <2> HIDE DEF AhcFields
    <2> QED BY <1>1, <2>1, <2>3, BufferSteady
  <1>3. Steady(a, FromTop(a))
    <2> DEFINE b == FromTop(a)
    <2>1. /\ DOMAIN b = AhcFields
          /\ b.curr = a.curr /\ b.goal = a.goal /\ b.auto_negotiate = a.auto_negotiate
          /\ b.scb = a.scb /\ b.card = a.card /\ b.ATN = a.ATN /\ b.MSG_OUT = a.MSG_OUT
          /\ b.panic = a.panic /\ SameSession(a, b)
      BY <1>1 DEF FromTop, SameSession
    <2>2. b.msgout_buf = a.msgout_buf /\ b.msgout_len = a.msgout_len /\ b.msgout_index = 0
      BY <1>1 DEF FromTop
    <2>3. AhcBuffer(b)
      <3> HIDE DEF b, AhcFields
      <3> QED BY <1>buffer, <2>2 DEF AhcBuffer
    <2> HIDE DEF AhcFields
    <2> QED BY <1>1, <2>1, <2>3, BufferSteady
  <1>4. ASSUME NEW why, why # "no waiting message" PROVE Steady(a, Panic(a, why))
    <2> DEFINE b == Panic(a, why)
    <2>1. /\ DOMAIN b = AhcFields
          /\ b.curr = a.curr /\ b.goal = a.goal /\ b.auto_negotiate = a.auto_negotiate
          /\ b.scb = a.scb /\ b.card = a.card /\ b.ATN = a.ATN /\ b.MSG_OUT = a.MSG_OUT
          /\ SameSession(a, b)
      BY <1>1 DEF Panic, SameSession
    <2>2. b.msgout_buf = a.msgout_buf /\ b.msgout_len = a.msgout_len
          /\ b.msgout_index = a.msgout_index
      BY <1>1 DEF Panic
    <2>3. AhcBuffer(b)
      <3> HIDE DEF b, AhcFields
      <3> QED BY <1>buffer, <2>2 DEF AhcBuffer
    <2>4. b.panic \in {a.panic, why} BY <1>1 DEF Panic
    <2> HIDE DEF AhcFields
    <2> QED BY <1>1, <1>4, <2>1, <2>3, <2>4, BufferSteady
  <1>5. Steady(a, Rejected(a))
    <2> DEFINE b == Rejected(a)
    <2>1. /\ DOMAIN b = AhcFields
          /\ b.curr = a.curr /\ b.goal = a.goal /\ b.auto_negotiate = a.auto_negotiate
          /\ b.scb = a.scb /\ b.card = a.card /\ b.ATN = a.ATN /\ b.MSG_OUT = a.MSG_OUT
          /\ b.panic = a.panic /\ SameSession(a, b)
      BY <1>1 DEF Rejected, SameSession
    <2>2. b.msgout_buf = [a.msgout_buf EXCEPT ![0] = "other"]
          /\ b.msgout_len = 1 /\ b.msgout_index = 0
      BY <1>1 DEF Rejected
    <2>3. AhcBuffer(b)
      <3> HIDE DEF b, AhcFields
      <3> QED BY <1>buffer, <2>2 DEF AhcBuffer, Contents
    <2> HIDE DEF AhcFields
    <2> QED BY <1>1, <2>1, <2>3, BufferSteady
  <1>6. ASSUME NEW n \in 0 .. 3, a.msgout_len <= 2 PROVE Steady(a, Construct(a, n))
    <2> DEFINE b == Construct(a, n)
    <2>1. /\ DOMAIN b = AhcFields
          /\ b.curr = a.curr /\ b.goal = a.goal /\ b.auto_negotiate = a.auto_negotiate
          /\ b.scb = a.scb /\ b.card = a.card /\ b.ATN = a.ATN /\ b.MSG_OUT = a.MSG_OUT
          /\ b.panic = a.panic /\ SameSession(a, b)
      BY <1>1 DEF Construct, SameSession
    <2>2. b.msgout_buf = a.msgout_buf /\ b.msgout_len = a.msgout_len + n
          /\ b.msgout_index = a.msgout_index
      BY <1>1 DEF Construct
    <2>3. AhcBuffer(b)
      <3> HIDE DEF b, AhcFields
      <3> QED BY <1>buffer, <1>6, <2>2 DEF AhcBuffer
    <2> HIDE DEF AhcFields
    <2> QED BY <1>1, <2>1, <2>3, BufferSteady
  <1> QED BY <1>2, <1>3, <1>4, <1>5, <1>6

LEMMA BuildTransferMsgSteady ==
  ASSUME NEW a, Sound(a), a.msgout_len <= 2
  PROVE  /\ BuildTransferMsg(a) = Construct(a, 3)
         /\ Steady(a, BuildTransferMsg(a))
  <1>1. Length.PPR = 3 /\ Length.SDTR = 3 /\ Length.WDTR = 3 BY DEF Length
  <1>2. BuildTransferMsg(a) = Construct(a, 3) BY <1>1 DEF BuildTransferMsg
  <1>3. 3 \in 0 .. 3 OBVIOUS
  <1> QED BY <1>2, <1>3, AhcBufferSteady

LEMMA AhcAnswersSteady ==
  ASSUME NEW a, NEW b, Steady(a, b)
  PROVE  /\ Steady(a, Emptied(b))
         /\ Steady(a, Rejected(b))
         /\ Steady(a, Reply(b, 3))
         /\ Steady(a, FromTop(BuildTransferMsg(Emptied(b))))
  <1>1. Sound(b) BY DEF Steady
  <1>2. Steady(b, Emptied(b)) /\ Steady(b, Rejected(b)) BY <1>1, AhcBufferSteady
  <1> DEFINE c == Emptied(b)
  <1>3. Steady(a, c) /\ Sound(c) BY <1>2, SteadyTwice DEF Steady
  <1>4. c.msgout_len <= 2
    <2>1. c.msgout_len = 0 BY <1>1 DEF Sound, Emptied, AhcFields
    <2> HIDE DEF c
    <2> QED BY <2>1
  <1>5. ASSUME NEW d, Steady(a, d) PROVE Steady(a, FromTop(d))
    BY <1>5, AhcBufferSteady, SteadyTwice DEF Steady
  <1>6. Steady(a, Construct(c, 3)) /\ Steady(a, BuildTransferMsg(c))
    <2> HIDE DEF c
    <2>1. 3 \in 0 .. 3 OBVIOUS
    <2>2. Steady(c, Construct(c, 3)) BY <1>3, <1>4, <2>1, AhcBufferSteady
    <2>3. Steady(c, BuildTransferMsg(c)) BY <1>3, <1>4, BuildTransferMsgSteady
    <2> QED BY <1>3, <2>2, <2>3, SteadyTwice
  <1>7. Steady(a, FromTop(Construct(c, 3))) /\ Steady(a, FromTop(BuildTransferMsg(c)))
    BY <1>5, <1>6
  <1> QED BY <1>2, <1>7, SteadyTwice DEF Reply

\* The settings.
AhcZeros(settings) ==
    /\ Taking(settings, Async) = Async
    /\ \A old \in Transfer : Taking(settings, old) \in Transfer

LEMMA AhcZeroSettings ==
  /\ AhcZeros([width |-> 0])
  /\ AhcZeros([period |-> 0, ppr_options |-> 0, offset |-> 0])
  <1>1. /\ Taking([width |-> 0], Async) = Async
        /\ Taking([period |-> 0, ppr_options |-> 0, offset |-> 0], Async) = Async
    BY DEF Taking, Async
  <1>2. ASSUME NEW old \in Transfer
        PROVE  /\ Taking([width |-> 0], old) \in Transfer
               /\ Taking([period |-> 0, ppr_options |-> 0, offset |-> 0], old)
                    \in Transfer
    BY <1>2 DEF Transfer, Taking
  <1> QED BY <1>1, <1>2 DEF AhcZeros

LEMMA KnownTransfer ==
  ASSUME NEW a, a.curr \in Transfer, NEW type
  PROVE  Known(a, type) \in Transfer
  <1>1. CASE type # "ALWAYS" BY <1>1 DEF Known
  <1>2. CASE type = "ALWAYS"
    <2>1. PICK w : w = IF WIDE THEN UNKNOWN ELSE a.curr.width OBVIOUS
    <2>2. w \in {0, UNKNOWN} BY <2>1 DEF Transfer
    <2>3. Known(a, type) =
            [a.curr EXCEPT !.width = w, !.period = UNKNOWN, !.offset = UNKNOWN]
      BY <1>2, <2>1 DEF Known
    <2> QED BY <2>2, <2>3 DEF Transfer
  <1> QED BY <1>1, <1>2

\* Only the settings.
LEMMA SettingsSteady ==
  ASSUME NEW a, Sound(a), NEW b, DOMAIN b = AhcFields, AhcSettings(b),
         b.scb = a.scb, b.card = a.card, b.ATN = a.ATN, b.MSG_OUT = a.MSG_OUT,
         b.msgout_buf = a.msgout_buf, b.msgout_len = a.msgout_len,
         b.msgout_index = a.msgout_index, SameSession(a, b), b.panic = a.panic
  PROVE  Steady(a, b)
  BY DEF Steady, Sound, AhcScbs, AhcBuffer, AhcSignals, AhcSession, SameSession

LEMMA UpdateNegRequestSteady ==
  ASSUME NEW a, Sound(a), NEW type
  PROVE  Steady(a, UpdateNegRequest(a, type))
  <1> DEFINE b == UpdateNegRequest(a, type)
             curr == Known(a, type)
  <1>1. DOMAIN a = AhcFields /\ AhcSettings(a) BY DEF Sound
  <1>2. /\ DOMAIN b = AhcFields
        /\ b.scb = a.scb /\ b.card = a.card /\ b.ATN = a.ATN /\ b.MSG_OUT = a.MSG_OUT
        /\ b.msgout_buf = a.msgout_buf /\ b.msgout_len = a.msgout_len
        /\ b.msgout_index = a.msgout_index /\ b.panic = a.panic
        /\ SameSession(a, b)
    BY <1>1 DEF UpdateNegRequest, SameSession, AhcFields
  <1>3. /\ b.curr = curr /\ b.goal = a.goal
        /\ b.auto_negotiate = (curr # a.goal \/ (type = "IF_NON_ASYNC" /\ a.goal # Async))
    BY <1>1 DEF UpdateNegRequest, AhcFields
  <1>4. AhcSettings(b)
    <2>1. curr \in Transfer BY <1>1, KnownTransfer DEF AhcSettings
    <2> HIDE DEF b, curr
    <2>2. b.auto_negotiate \in BOOLEAN BY <1>3
    <2>3. b.curr # b.goal => b.auto_negotiate BY <1>3
    <2> QED BY <1>1, <1>3, <2>1, <2>2, <2>3 DEF AhcSettings
  <1> QED BY <1>2, <1>4, SettingsSteady

\* Only the SCBs.
LEMMA ScbsSteady ==
  ASSUME NEW a, Sound(a), NEW b, DOMAIN b = AhcFields, AhcScbs(b),
         b.curr = a.curr, b.goal = a.goal, b.auto_negotiate = a.auto_negotiate,
         AhcSignals(b),
         b.msgout_buf = a.msgout_buf, b.msgout_len = a.msgout_len,
         b.msgout_index = a.msgout_index, SameSession(a, b), b.panic = a.panic
  PROVE  Steady(a, b)
  BY DEF Steady, Sound, AhcSettings, AhcBuffer, AhcSession, SameSession

LEMMA UpdatePendingScbsSteady ==
  ASSUME NEW a, Sound(a) PROVE Steady(a, UpdatePendingScbs(a))
  <1> DEFINE b == UpdatePendingHscbs(a)
             c == UpdatePendingScbs(a)
  <1>1. DOMAIN a = AhcFields /\ AhcScbs(a) /\ AhcSignals(a) /\ a.curr \in Transfer
    BY DEF Sound, AhcSettings
  <1>2. /\ DOMAIN b = AhcFields
        /\ b.curr = a.curr /\ b.goal = a.goal /\ b.auto_negotiate = a.auto_negotiate
        /\ b.card = a.card /\ b.ATN = a.ATN /\ b.MSG_OUT = a.MSG_OUT
        /\ b.msgout_buf = a.msgout_buf /\ b.msgout_len = a.msgout_len
        /\ b.msgout_index = a.msgout_index /\ b.panic = a.panic
        /\ SameSession(a, b)
    BY <1>1 DEF UpdatePendingHscbs, SameSession, AhcFields
  <1>3. DOMAIN b.scb = Scbs
    BY <1>1 DEF UpdatePendingHscbs, AhcFields
  <1>4. ASSUME NEW s \in Scbs
        PROVE  b.scb[s] = IF a.scb[s].where = "free" THEN a.scb[s]
                          ELSE [a.scb[s] EXCEPT
                    !.scsioffset = a.curr.offset,
                    !.flags = IF Settled(a, s) THEN @ \ {"AUTO_NEGOTIATE"} ELSE @,
                    !.MK_MESSAGE = @ /\ ~Settled(a, s)]
    BY <1>1 DEF UpdatePendingHscbs, AhcFields
  <1> HIDE DEF b
  <1>5. /\ DOMAIN c = AhcFields
        /\ c.curr = b.curr /\ c.goal = b.goal /\ c.auto_negotiate = b.auto_negotiate
        /\ c.scb = b.scb /\ c.ATN = b.ATN /\ c.MSG_OUT = b.MSG_OUT
        /\ c.msgout_buf = b.msgout_buf /\ c.msgout_len = b.msgout_len
        /\ c.msgout_index = b.msgout_index /\ c.panic = b.panic
        /\ SameSession(b, c)
    BY <1>2 DEF UpdatePendingScbs, SameSession, AhcFields, b
  <1>6. /\ DOMAIN c.card = Scbs
        /\ \A s \in Scbs :
             c.card[s] = IF b.scb[s].where \notin {"connected", "disconnected"}
                         THEN b.card[s]
                         ELSE [MK_MESSAGE |-> b.scb[s].MK_MESSAGE,
                               scsioffset |-> b.scb[s].scsioffset]
    BY <1>2 DEF UpdatePendingScbs, AhcFields, b
  <1> HIDE DEF c
  <1>7. ASSUME NEW s \in Scbs PROVE ScbOK(c.scb[s], c.card[s])
    <2> DEFINE r == a.scb[s]
               q == b.scb[s]
    <2>1. ScbOK(r, a.card[s]) BY <1>1 DEF AhcScbs
    <2>2. a.curr.offset \in {0, UNKNOWN} BY <1>1 DEF Transfer
    <2>3. CASE r.where = "free"
      <3>1. q = r /\ c.scb[s] = r BY <1>4, <1>5, <2>3
      <3>2. c.card[s] = a.card[s] BY <1>2, <1>6, <2>3, <3>1
      <3> HIDE DEF r, q
      <3> QED BY <2>1, <3>1, <3>2
    <2>4. CASE r.where # "free"
      <3>1. q = [r EXCEPT
                    !.scsioffset = a.curr.offset,
                    !.flags = IF Settled(a, s) THEN @ \ {"AUTO_NEGOTIATE"} ELSE @,
                    !.MK_MESSAGE = @ /\ ~Settled(a, s)]
        BY <1>4, <2>4
      <3> HIDE DEF r, q
      <3>2. DOMAIN r = {"where", "flags", "MK_MESSAGE", "tagged", "scsioffset"}
        BY <2>1 DEF ScbOK
      <3>3. /\ DOMAIN q = DOMAIN r /\ q.where = r.where /\ q.tagged = r.tagged
            /\ q.scsioffset = a.curr.offset
        BY <3>1, <3>2
      <3>4. q.flags = IF Settled(a, s) THEN r.flags \ {"AUTO_NEGOTIATE"} ELSE r.flags
        BY <3>1, <3>2
      <3>5. q.MK_MESSAGE = (r.MK_MESSAGE /\ ~Settled(a, s))
        BY <3>1, <3>2
      <3>6. q.MK_MESSAGE => "AUTO_NEGOTIATE" \in q.flags
        BY <2>1, <3>4, <3>5 DEF ScbOK
      <3>7. q.flags \subseteq {"AUTO_NEGOTIATE", "ABORT", "SENSE"}
        BY <2>1, <3>4 DEF ScbOK
      <3>8. q.MK_MESSAGE \in BOOLEAN BY <3>5
      <3>9. c.scb[s] = q BY <1>5 DEF q
      <3>10. CASE q.where \in {"connected", "disconnected"}
        <4>1. c.card[s] = [MK_MESSAGE |-> q.MK_MESSAGE, scsioffset |-> q.scsioffset]
          BY <1>6, <3>10 DEF q
        <4>2. /\ DOMAIN c.card[s] = {"MK_MESSAGE", "scsioffset"}
              /\ c.card[s].MK_MESSAGE = q.MK_MESSAGE
              /\ c.card[s].scsioffset = q.scsioffset
          BY <4>1
        <4> QED BY <2>1, <2>2, <3>2, <3>3, <3>6, <3>7, <3>8, <3>9, <3>10, <4>2 DEF ScbOK
      <3>11. CASE q.where \notin {"connected", "disconnected"}
        <4>1. c.card[s] = a.card[s] BY <1>2, <1>6, <3>11 DEF q
        <4>2. ~a.card[s].MK_MESSAGE BY <2>1, <3>3, <3>11 DEF ScbOK
        <4> QED BY <2>1, <2>2, <3>2, <3>3, <3>6, <3>7, <3>8, <3>9, <4>1, <4>2 DEF ScbOK
      <3> QED BY <3>10, <3>11
    <2> QED BY <2>3, <2>4
  <1>8. AhcScbs(c) BY <1>3, <1>5, <1>6, <1>7 DEF AhcScbs
  <1>9. SameSession(a, c) BY <1>2, <1>5 DEF SameSession
  <1>10. AhcSignals(c) BY <1>1, <1>2, <1>5 DEF AhcSignals
  <1>11. Steady(a, c) BY <1>2, <1>5, <1>8, <1>9, <1>10, ScbsSteady
  <1> QED BY <1>11 DEF c

LEMMA SetSettingsSteady ==
  ASSUME NEW a, Sound(a), NEW settings, AhcZeros(settings), NEW goal
  PROVE  Steady(a, SetSettings(a, settings, goal))
  <1> DEFINE new == [a EXCEPT !.curr = Taking(settings, @),
                              !.goal = IF goal THEN Taking(settings, @) ELSE @]
             set == UpdateNegRequest(new, "TO_GOAL")
             curr == Taking(settings, a.curr)
  <1>1. DOMAIN a = AhcFields /\ AhcSettings(a) BY DEF Sound
  <1>2. /\ DOMAIN new = AhcFields
        /\ new.scb = a.scb /\ new.card = a.card
        /\ new.ATN = a.ATN /\ new.MSG_OUT = a.MSG_OUT
        /\ new.msgout_buf = a.msgout_buf /\ new.msgout_len = a.msgout_len
        /\ new.msgout_index = a.msgout_index /\ new.panic = a.panic
        /\ SameSession(a, new)
    BY <1>1 DEF SameSession, AhcFields
  <1>3. new.curr = curr
    BY <1>1 DEF AhcFields
  <1>4. new.goal = Async
    <2>1. new.goal \in {a.goal, Taking(settings, a.goal)} BY <1>1 DEF AhcFields
    <2> HIDE DEF new
    <2> QED BY <1>1, <2>1 DEF AhcSettings, AhcZeros
  <1>5. curr \in Transfer BY <1>1 DEF AhcSettings, AhcZeros
  <1> HIDE DEF new, curr
  <1>6. /\ DOMAIN set = AhcFields
        /\ set.scb = new.scb /\ set.card = new.card
        /\ set.ATN = new.ATN /\ set.MSG_OUT = new.MSG_OUT
        /\ set.msgout_buf = new.msgout_buf /\ set.msgout_len = new.msgout_len
        /\ set.msgout_index = new.msgout_index /\ set.panic = new.panic
        /\ SameSession(new, set)
    BY <1>2 DEF UpdateNegRequest, SameSession, AhcFields
  <1>7. /\ set.curr = curr /\ set.goal = Async
        /\ set.auto_negotiate = (curr # Async)
    <2>1. /\ set.curr = Known(new, "TO_GOAL") /\ set.goal = new.goal
          /\ set.auto_negotiate = (Known(new, "TO_GOAL") # new.goal
                                   \/ ("TO_GOAL" = "IF_NON_ASYNC" /\ new.goal # Async))
      BY <1>2 DEF UpdateNegRequest, AhcFields
    <2>2. Known(new, "TO_GOAL") = curr BY <1>3 DEF Known
    <2> HIDE DEF set
    <2> QED BY <1>4, <2>1, <2>2
  <1>8. AhcSettings(set)
    <2> HIDE DEF set
    <2> QED BY <1>5, <1>7 DEF AhcSettings
  <1>9. SameSession(a, set) BY <1>2, <1>6 DEF SameSession
  <1>10. Steady(a, set)
    <2> HIDE DEF set
    <2> QED BY <1>2, <1>6, <1>8, <1>9, SettingsSteady
  <1>11. Steady(a, UpdatePendingScbs(set))
    <2> HIDE DEF set
    <2> QED BY <1>10, UpdatePendingScbsSteady, SteadyTwice DEF Steady
  <1>12. SetSettings(a, settings, goal) \in {set, UpdatePendingScbs(set)}
    BY DEF SetSettings, new
  <1> HIDE DEF set
  <1> QED BY <1>10, <1>11, <1>12

LEMMA SetWidthSteady ==
  ASSUME NEW a, Sound(a), NEW goal PROVE Steady(a, SetWidth(a, 0, goal))
  BY SetSettingsSteady, AhcZeroSettings DEF SetWidth

LEMMA SetSyncrateSteady ==
  ASSUME NEW a, Sound(a), NEW goal, NEW offset,
         NEW rate, rate.period = 0, rate.ppr_options = 0
  PROVE  Steady(a, SetSyncrate(a, rate, offset, goal))
  BY SetSettingsSteady, AhcZeroSettings DEF SetSyncrate

LEMMA ToAsyncSteady ==
  ASSUME NEW a, Sound(a) PROVE Steady(a, ToAsync(a))
  <1> DEFINE none == [period |-> 0, ppr_options |-> 0]
             b    == SetWidth(a, 0, FALSE)
  <1>1. Steady(a, b) BY SetWidthSteady
  <1>2. none.period = 0 /\ none.ppr_options = 0 OBVIOUS
  <1>3. ToAsync(a) = SetSyncrate(b, none, 0, FALSE) BY DEF ToAsync
  <1> HIDE DEF none, b
  <1>4. Steady(b, ToAsync(a)) BY <1>1, <1>2, <1>3, SetSyncrateSteady DEF Steady
  <1> QED BY <1>1, <1>4, SteadyTwice

\* SCBs given back, with their copies or without.
LEMMA FreedScbOK ==
  ASSUME NEW r, NEW c, ScbOK(r, c)
  PROVE  /\ ScbOK([NoScb EXCEPT !.scsioffset = r.scsioffset], NoSlot)
         /\ ~c.MK_MESSAGE => ScbOK([NoScb EXCEPT !.scsioffset = r.scsioffset], c)
  <1> DEFINE q == [NoScb EXCEPT !.scsioffset = r.scsioffset]
  <1>1. /\ DOMAIN q = {"where", "flags", "MK_MESSAGE", "tagged", "scsioffset"}
        /\ q.where = "free" /\ q.flags = {} /\ q.MK_MESSAGE = FALSE
        /\ q.tagged = FALSE /\ q.scsioffset = r.scsioffset
    BY DEF NoScb
  <1>2. /\ DOMAIN NoSlot = {"MK_MESSAGE", "scsioffset"}
        /\ NoSlot.MK_MESSAGE = FALSE /\ NoSlot.scsioffset = 0
    BY DEF NoSlot
  <1> HIDE DEF q
  <1>3. ScbOK(q, NoSlot) BY <1>1, <1>2 DEF ScbOK
  <1>4. ~c.MK_MESSAGE => ScbOK(q, c) BY <1>1 DEF ScbOK
  <1> QED BY <1>3, <1>4 DEF q

LEMMA FreedSteady ==
  ASSUME NEW a, Sound(a), NEW tags PROVE Steady(a, Freed(a, tags))
  <1> DEFINE b == Freed(a, tags)
  <1>1. DOMAIN a = AhcFields /\ AhcScbs(a) /\ AhcSignals(a) BY DEF Sound
  <1>2. /\ DOMAIN b = AhcFields
        /\ b.curr = a.curr /\ b.goal = a.goal /\ b.auto_negotiate = a.auto_negotiate
        /\ b.ATN = a.ATN /\ b.MSG_OUT = a.MSG_OUT
        /\ b.msgout_buf = a.msgout_buf /\ b.msgout_len = a.msgout_len
        /\ b.msgout_index = a.msgout_index /\ b.panic = a.panic
        /\ SameSession(a, b)
    BY <1>1 DEF Freed, SameSession, AhcFields
  <1>3. DOMAIN b.scb = Scbs /\ DOMAIN b.card = Scbs
    BY <1>1 DEF Freed, AhcFields
  <1>4. ASSUME NEW s \in Scbs PROVE ScbOK(b.scb[s], b.card[s])
    <2>1. ScbOK(a.scb[s], a.card[s]) BY <1>1 DEF AhcScbs
    <2>2. s \in tags => /\ b.scb[s] = [NoScb EXCEPT !.scsioffset = a.scb[s].scsioffset]
                        /\ b.card[s] = NoSlot
      BY <1>1 DEF Freed, AhcFields
    <2>3. s \notin tags => b.scb[s] = a.scb[s] /\ b.card[s] = a.card[s]
      BY <1>1 DEF Freed, AhcFields
    <2> HIDE DEF b
    <2> QED BY <2>1, <2>2, <2>3, FreedScbOK
  <1> HIDE DEF b
  <1>5. AhcScbs(b) BY <1>3, <1>4 DEF AhcScbs
  <1>6. AhcSignals(b) BY <1>1, <1>2 DEF AhcSignals
  <1>7. Steady(a, b) BY <1>2, <1>5, <1>6, ScbsSteady
  <1> QED BY <1>7 DEF b

LEMMA RefuseTagsSteady ==
  ASSUME NEW a, Sound(a), a.scbptr \in Scbs PROVE Steady(a, RefuseTags(a))
  <1> DEFINE s == a.scbptr
             b == [a EXCEPT !.scb[s].tagged = FALSE, !.MSG_OUT = "IDENTIFY", !.ATN = TRUE]
             c == RefuseTags(a)
  <1>1. DOMAIN a = AhcFields /\ AhcScbs(a) BY DEF Sound
  <1>2. /\ DOMAIN b = AhcFields
        /\ b.scb = [a.scb EXCEPT ![s].tagged = FALSE]
        /\ b.curr = a.curr /\ b.goal = a.goal /\ b.auto_negotiate = a.auto_negotiate
        /\ b.card = a.card /\ b.ATN = TRUE /\ b.MSG_OUT = "IDENTIFY"
        /\ b.msgout_buf = a.msgout_buf /\ b.msgout_len = a.msgout_len
        /\ b.msgout_index = a.msgout_index /\ b.panic = a.panic
        /\ SameSession(a, b)
    BY <1>1 DEF SameSession, AhcFields
  <1>3. c = [b EXCEPT !.scb =
                [t \in Scbs |-> IF b.scb[t].where = "queued"
                                THEN [NoScb EXCEPT !.scsioffset = b.scb[t].scsioffset]
                                ELSE b.scb[t]]]
    BY DEF RefuseTags
  <1> HIDE DEF b
  <1>4. /\ DOMAIN c = AhcFields
        /\ c.curr = b.curr /\ c.goal = b.goal /\ c.auto_negotiate = b.auto_negotiate
        /\ c.card = b.card /\ c.ATN = TRUE /\ c.MSG_OUT = "IDENTIFY"
        /\ c.msgout_buf = b.msgout_buf /\ c.msgout_len = b.msgout_len
        /\ c.msgout_index = b.msgout_index /\ c.panic = b.panic
        /\ SameSession(b, c)
        /\ DOMAIN c.scb = Scbs
    BY <1>2, <1>3 DEF SameSession, AhcFields
  <1>5. \A t \in Scbs :
            c.scb[t] = IF b.scb[t].where = "queued"
                       THEN [NoScb EXCEPT !.scsioffset = b.scb[t].scsioffset]
                       ELSE b.scb[t]
    <2> DEFINE new == [t \in Scbs |->
                         IF b.scb[t].where = "queued"
                         THEN [NoScb EXCEPT !.scsioffset = b.scb[t].scsioffset]
                         ELSE b.scb[t]]
    <2>1. c.scb = new BY <1>2, <1>3 DEF AhcFields
    <2> HIDE DEF c
    <2> QED BY <2>1
  <1> HIDE DEF c
  <1>6. ASSUME NEW t \in Scbs PROVE ScbOK(c.scb[t], c.card[t])
    <2> DEFINE r == a.scb[t]
               q == b.scb[t]
    <2>1. ScbOK(r, a.card[t]) BY <1>1 DEF AhcScbs
    <2>2. q = IF t = s THEN [r EXCEPT !.tagged = FALSE] ELSE r
      BY <1>1, <1>2 DEF AhcScbs
    <2>3. ScbOK(q, a.card[t]) /\ q.where = r.where
      <3> HIDE DEF q, r
      <3>1. CASE q = r BY <2>1, <3>1
      <3>2. CASE q = [r EXCEPT !.tagged = FALSE]
        <4>1. DOMAIN r = {"where", "flags", "MK_MESSAGE", "tagged", "scsioffset"}
          BY <2>1 DEF ScbOK
        <4>2. /\ DOMAIN q = DOMAIN r /\ q.where = r.where /\ q.flags = r.flags
              /\ q.MK_MESSAGE = r.MK_MESSAGE /\ q.tagged = FALSE
              /\ q.scsioffset = r.scsioffset
          BY <3>2, <4>1
        <4> QED BY <2>1, <4>2 DEF ScbOK
      <3> QED BY <2>2, <3>1, <3>2
    <2>4. c.card[t] = a.card[t] BY <1>2, <1>4
    <2>5. CASE q.where = "queued"
      <3>1. ~a.card[t].MK_MESSAGE BY <2>3, <2>5 DEF ScbOK
      <3>2. c.scb[t] = [NoScb EXCEPT !.scsioffset = q.scsioffset] BY <1>5, <2>5
      <3> HIDE DEF q
      <3> QED BY <2>3, <2>4, <3>1, <3>2, FreedScbOK
    <2>6. CASE q.where # "queued"
      <3>1. c.scb[t] = q BY <1>5, <2>6
      <3> HIDE DEF q
      <3> QED BY <2>3, <2>4, <3>1
    <2> QED BY <2>5, <2>6
  <1>7. DOMAIN c.card = Scbs BY <1>1, <1>2, <1>4 DEF AhcScbs
  <1>8. AhcScbs(c) BY <1>4, <1>6, <1>7 DEF AhcScbs
  <1>9. AhcSignals(c) BY <1>4 DEF AhcSignals
  <1>10. SameSession(a, c) BY <1>2, <1>4 DEF SameSession
  <1>11. Steady(a, c) BY <1>2, <1>4, <1>8, <1>9, <1>10, ScbsSteady
  <1> QED BY <1>11 DEF c

LEMMA PutSteady ==
  ASSUME NEW a, Sound(a), a.msgout_len <= 2,
         NEW bytes \in Seq(Contents), Len(bytes) \in 1 .. 2
  PROVE  /\ Steady(a, Put(a, bytes))
         /\ Put(a, bytes).msgout_len = a.msgout_len + Len(bytes)
  <1> DEFINE b == Put(a, bytes)
             buf == [i \in 0 .. BufSize - 1 |->
                        IF i - a.msgout_index \in 0 .. Len(bytes) - 1
                        THEN bytes[i - a.msgout_index + 1] ELSE a.msgout_buf[i]]
  <1>1. DOMAIN a = AhcFields /\ a.ATN \in BOOLEAN /\ a.panic # "no waiting message"
    BY DEF Sound, AhcSignals, AhcSession
  <1>2. AhcBuffer(a) BY DEF Sound
  <1>3. /\ DOMAIN b = AhcFields
        /\ b.curr = a.curr /\ b.goal = a.goal /\ b.auto_negotiate = a.auto_negotiate
        /\ b.scb = a.scb /\ b.card = a.card /\ b.ATN = a.ATN /\ b.MSG_OUT = a.MSG_OUT
        /\ b.panic = a.panic /\ SameSession(a, b)
    BY <1>1 DEF Put, SameSession, AhcFields
  <1>4. /\ b.msgout_buf = buf
        /\ b.msgout_len = a.msgout_len + Len(bytes)
        /\ b.msgout_index = a.msgout_index + Len(bytes)
    BY <1>1 DEF Put, AhcFields
  <1>5. buf \in [0 .. 2 -> Contents]
    <2>1. 0 .. BufSize - 1 = 0 .. 2 BY DEF BufSize
    <2>2. ASSUME NEW i \in 0 .. 2 PROVE buf[i] \in Contents
      <3>1. a.msgout_buf[i] \in Contents BY <1>2 DEF AhcBuffer
      <3>2. a.msgout_index \in Nat BY <1>2 DEF AhcBuffer
      <3>3. i - a.msgout_index \in 0 .. Len(bytes) - 1 =>
                i - a.msgout_index + 1 \in 1 .. Len(bytes)
        BY <3>2
      <3>4. i - a.msgout_index \in 0 .. Len(bytes) - 1 =>
                bytes[i - a.msgout_index + 1] \in Contents
        BY <3>3
      <3>5. buf[i] = IF i - a.msgout_index \in 0 .. Len(bytes) - 1
                     THEN bytes[i - a.msgout_index + 1] ELSE a.msgout_buf[i]
        BY <2>1
      <3> HIDE DEF buf
      <3> QED BY <3>1, <3>4, <3>5, Zenon
    <2>3. buf = [i \in 0 .. 2 |-> buf[i]] BY <2>1, Zenon
    <2> HIDE DEF buf
    <2> QED BY <2>2, <2>3, Zenon
  <1>6. AhcBuffer(b)
    <2> HIDE DEF b, buf
    <2>1. PICK n \in 1 .. 2 : n = Len(bytes) OBVIOUS
    <2>2. /\ a.msgout_len \in 0 .. 5 /\ a.msgout_index \in 0 .. 5
          /\ a.msgout_index <= a.msgout_len
      BY <1>2 DEF AhcBuffer
    <2>3. ASSUME NEW len \in 0 .. 5, NEW index \in 0 .. 5, index <= len, len <= 2
          PROVE  /\ len + n \in 0 .. 5 /\ index + n \in 0 .. 5
                 /\ index + n <= len + n
      BY <2>3
    <2>4. /\ b.msgout_len = a.msgout_len + n
          /\ b.msgout_index = a.msgout_index + n
      BY <1>4, <2>1
    <2>5. /\ b.msgout_len \in 0 .. 5 /\ b.msgout_index \in 0 .. 5
          /\ b.msgout_index <= b.msgout_len
      BY <2>2, <2>3, <2>4
    <2> QED BY <1>4, <1>5, <2>5 DEF AhcBuffer
  <1>7. Steady(a, b) BY <1>1, <1>3, <1>6, BufferSteady
  <1> QED BY <1>4, <1>7

LEMMA AhcHandleMsgRejectSteady ==
  ASSUME NEW a, Sound(a) PROVE Steady(a, HandleMsgReject(a).ahc)
  <1> DEFINE again(b) == FromTop(BuildTransferMsg(Emptied(b)))
             narrow   == SetWidth(a, 0, TRUE)
             async    == SetSyncrate(a, [period |-> 0, ppr_options |-> 0], 0, TRUE)
             noppr    == [a EXCEPT !.goal.ppr_options = 0]
  <1>1. Steady(a, a) BY SteadySelf
  <1>2. Steady(a, narrow) BY SetWidthSteady
  <1>3. Steady(a, async)
    <2> DEFINE none == [period |-> 0, ppr_options |-> 0]
    <2>1. none.period = 0 /\ none.ppr_options = 0 OBVIOUS
    <2> HIDE DEF none
    <2>2. Steady(a, SetSyncrate(a, none, 0, TRUE)) BY <2>1, SetSyncrateSteady
    <2> QED BY <2>2 DEF none
  <1>4. Steady(a, noppr)
    <2>1. DOMAIN a = AhcFields /\ AhcSettings(a) /\ a.goal = Async
      BY DEF Sound, AhcSettings
    <2>2. noppr.goal = [a.goal EXCEPT !.ppr_options = 0] BY <2>1 DEF AhcFields
    <2>3. noppr.goal = Async BY <2>1, <2>2 DEF Async
    <2>4. /\ DOMAIN noppr = AhcFields
          /\ noppr.curr = a.curr /\ noppr.auto_negotiate = a.auto_negotiate
          /\ noppr.scb = a.scb /\ noppr.card = a.card
          /\ noppr.ATN = a.ATN /\ noppr.MSG_OUT = a.MSG_OUT
          /\ noppr.msgout_buf = a.msgout_buf /\ noppr.msgout_len = a.msgout_len
          /\ noppr.msgout_index = a.msgout_index /\ noppr.panic = a.panic
          /\ SameSession(a, noppr)
      BY <2>1 DEF SameSession, AhcFields
    <2> HIDE DEF noppr
    <2>5. AhcSettings(noppr) BY <2>1, <2>3, <2>4 DEF AhcSettings
    <2> QED BY <2>4, <2>5, SettingsSteady
  <1>5. a.scbptr # None => Steady(a, RefuseTags(a))
    BY RefuseTagsSteady DEF Sound, AhcSession
  <1>6. Steady(a, Panic(a, "no SCB")) BY AhcBufferSteady
  <1>7. \/ HandleMsgReject(a).ahc \in
              {again(noppr), again(narrow), narrow, async, Panic(a, "no SCB"), a}
        \/ a.scbptr # None /\ HandleMsgReject(a).ahc = RefuseTags(a)
    <2> HIDE DEF noppr, narrow, async
    <2> QED BY DEF HandleMsgReject, noppr, narrow, async
  <1> HIDE DEF narrow, async, noppr
  <1> QED BY <1>1, <1>2, <1>3, <1>4, <1>5, <1>6, <1>7, AhcAnswersSteady

LEMMA AhcAsyncOnly ==
  ASSUME NEW a, Sound(a), NEW period, NEW offset, NEW ppr
  PROVE  /\ DevlimitedSyncrate(a, period, ppr) = [period |-> 0, ppr_options |-> 0]
         /\ ValidateWidth(a, 1) = 0
         /\ ValidateOffset(a, DevlimitedSyncrate(a, period, ppr), offset) = 0
  BY DEF Sound, AhcSettings, Async, DevlimitedSyncrate, ValidateWidth,
         ValidateOffset, Smaller

LEMMA HandleSdtrSteady ==
  ASSUME NEW a, Sound(a), NEW m
  PROVE  Steady(a, HandleSdtr(a, m))
  <1> DEFINE rate   == DevlimitedSyncrate(a, 25, 0)
             offset == ValidateOffset(a, rate, m.offset)
             set    == SetSyncrate(a, rate, offset, TRUE)
  <1>1. rate.period = 0 /\ rate.ppr_options = 0 BY AhcAsyncOnly
  <1>2. Steady(a, set)
    <2> HIDE DEF rate, offset
    <2> QED BY <1>1, SetSyncrateSteady
  <1>3. HandleSdtr(a, m) \in {Reply(set, 3), Rejected(set), Emptied(set)}
    BY DEF HandleSdtr, Length
  <1> HIDE DEF set
  <1> QED BY <1>2, <1>3, AhcAnswersSteady

LEMMA HandleWdtrSteady ==
  ASSUME NEW a, Sound(a), NEW m, m.width = 1
  PROVE  Steady(a, HandleWdtr(a, m))
  <1> DEFINE ours  == SentMsg(a, "EXTENDED_WDTR")
             b     == IF ours THEN a ELSE Reply(a, 3)
             doubt == UpdateNegRequest(b, "ALWAYS")
             set   == SetWidth(doubt, 0, TRUE)
  <1>1. Steady(a, b) BY SteadySelf, AhcAnswersSteady
  <1>2. Steady(b, doubt)
    <2> HIDE DEF b
    <2> QED BY <1>1, UpdateNegRequestSteady DEF Steady
  <1>3. Steady(doubt, set)
    <2> HIDE DEF doubt
    <2> QED BY <1>2, SetWidthSteady DEF Steady
  <1>4. Steady(a, set)
    <2> HIDE DEF b, doubt, set
    <2> QED BY <1>1, <1>2, <1>3, SteadyTwice
  <1>5. ValidateWidth(a, m.width) = 0 BY AhcAsyncOnly
  <1>6. HandleWdtr(a, m) \in
          {Rejected(set), set, FromTop(BuildTransferMsg(Emptied(set)))}
    BY <1>5 DEF HandleWdtr, Length
  <1> HIDE DEF set
  <1> QED BY <1>4, <1>6, AhcAnswersSteady

LEMMA HandlePprSteady ==
  ASSUME NEW a, Sound(a), NEW m, m.width = 1
  PROVE  Steady(a, HandlePpr(a, m))
  <1> DEFINE ours  == SentMsg(a, "EXTENDED_PPR")
             b     == IF ours THEN a ELSE Reply(a, 3)
             wide  == SetWidth(b, 0, TRUE)
             none  == [period |-> 0, ppr_options |-> 0]
             set   == SetSyncrate(wide, none, 0, TRUE)
  <1>1. Steady(a, b) BY SteadySelf, AhcAnswersSteady
  <1>2. Steady(b, wide)
    <2> HIDE DEF b
    <2> QED BY <1>1, SetWidthSteady DEF Steady
  <1>3. Steady(wide, set)
    <2> HIDE DEF wide
    <2>1. none.period = 0 /\ none.ppr_options = 0 OBVIOUS
    <2> HIDE DEF none
    <2> QED BY <1>2, <2>1, SetSyncrateSteady DEF Steady
  <1>4. Steady(a, set)
    <2> HIDE DEF b, wide, set
    <2> QED BY <1>1, <1>2, <1>3, SteadyTwice
  <1>5. /\ ValidateWidth(a, m.width) = 0
        /\ DevlimitedSyncrate(a, 25, 0) = none
        /\ ValidateOffset(a, none, m.offset) = 0
    BY AhcAsyncOnly
  <1>6. Length.PPR = 3 BY DEF Length
  <1>7. HandlePpr(a, m) \in {Rejected(set), set, Emptied(set)}
    <2> HIDE DEF none
    <2> QED BY <1>5, <1>6 DEF HandlePpr, none
  <1> HIDE DEF set
  <1> QED BY <1>4, <1>7, AhcAnswersSteady

LEMMA AhcMessageKinds ==
  ASSUME NEW m \in Messages
  PROVE  /\ m.type \in {"SDTR", "WDTR", "PPR", "EXTENDED", "DISCONNECT",
                        "COMMAND_COMPLETE", "MESSAGE_REJECT", "NOP", "OTHER"}
         /\ m.type \in {"WDTR", "PPR"} => m.width = 1
         /\ m.type \in {"SDTR", "WDTR", "PPR"} => m.length = 3
  BY DEF Messages, Length

\* A message that is not over is of two bytes or less so far.
LEMMA ParseMsgSteady ==
  ASSUME NEW a, Sound(a), NEW m \in Messages
  PROVE  /\ Steady(a, ParseMsg(a, m).ahc)
         /\ \/ ParseMsg(a, m).done \in {"TERMINATED", "MSGCOMPLETE"}
            \/ /\ ParseMsg(a, m) = [ahc |-> a, done |-> "IN_PROG"]
               /\ a.msgin_index # 2
  <1> DEFINE p == ParseMsg(a, m)
             r == HandleMsgReject(a)
             over(b) == [ahc |-> b, done |-> "MSGCOMPLETE"]
             more == [ahc |-> a, done |-> "IN_PROG"]
  <1>1. Steady(a, a) BY SteadySelf
  <1>2. Steady(a, Emptied(a)) /\ Steady(a, Rejected(a)) BY AhcBufferSteady
  <1>3. ASSUME NEW b, Steady(a, b), p = over(b) \/ (p = more /\ a.msgin_index # 2)
        PROVE  /\ Steady(a, p.ahc)
               /\ \/ p.done \in {"TERMINATED", "MSGCOMPLETE"}
                  \/ p = more /\ a.msgin_index # 2
    <2> HIDE DEF p
    <2>1. CASE p = over(b)
      <3>1. p.ahc = b /\ p.done = "MSGCOMPLETE" BY <2>1
      <3> QED BY <1>3, <3>1
    <2>2. CASE p = more /\ a.msgin_index # 2 BY <1>1, <2>2
    <2> QED BY <1>3, <2>1, <2>2
  <1>4. CASE m.type \in {"DISCONNECT", "COMMAND_COMPLETE"}
    <2>1. p = [ahc |-> Emptied(a), done |-> "TERMINATED"] BY <1>4 DEF ParseMsg
    <2> HIDE DEF p
    <2>2. p.ahc = Emptied(a) /\ p.done = "TERMINATED" BY <2>1
    <2> QED BY <1>2, <2>2 DEF p
  <1>5. CASE m.type = "NOP"
    <2>1. p = over(Emptied(a)) BY <1>5 DEF ParseMsg
    <2> QED BY <1>2, <1>3, <2>1
  <1>6. CASE m.type = "MESSAGE_REJECT"
    <2>1. p \in {over(r.ahc), over(Emptied(r.ahc))} BY <1>6 DEF ParseMsg
    <2>2. Steady(a, r.ahc) BY AhcHandleMsgRejectSteady
    <2> HIDE DEF r, p
    <2>3. Steady(a, Emptied(r.ahc)) BY <2>2, AhcAnswersSteady
    <2> QED BY <1>3, <2>1, <2>2, <2>3 DEF p
  <1>7. CASE m.type = "SDTR"
    <2>1. p = IF a.msgin_index = m.length - 1 THEN over(HandleSdtr(a, m)) ELSE more
      BY <1>7 DEF ParseMsg
    <2>2. m.length - 1 = 2 BY <1>7, AhcMessageKinds
    <2> HIDE DEF p
    <2> QED BY <1>3, <2>1, <2>2, HandleSdtrSteady DEF p
  <1>8. CASE m.type = "WDTR"
    <2>1. p = IF a.msgin_index = m.length - 1 THEN over(HandleWdtr(a, m)) ELSE more
      BY <1>8 DEF ParseMsg
    <2>2. m.length - 1 = 2 BY <1>8, AhcMessageKinds
    <2>3. Steady(a, HandleWdtr(a, m)) BY <1>8, AhcMessageKinds, HandleWdtrSteady
    <2> HIDE DEF p
    <2> QED BY <1>3, <2>1, <2>2, <2>3 DEF p
  <1>9. CASE m.type = "PPR"
    <2>1. p = IF a.msgin_index = m.length - 1 THEN over(HandlePpr(a, m)) ELSE more
      BY <1>9 DEF ParseMsg
    <2>2. m.length - 1 = 2 BY <1>9, AhcMessageKinds
    <2>3. Steady(a, HandlePpr(a, m)) BY <1>9, AhcMessageKinds, HandlePprSteady
    <2> HIDE DEF p
    <2> QED BY <1>3, <2>1, <2>2, <2>3 DEF p
  <1>10. CASE m.type = "EXTENDED"
    <2>1. p = IF a.msgin_index = 2 THEN over(Rejected(a)) ELSE more
      BY <1>10 DEF ParseMsg
    <2> HIDE DEF p
    <2> QED BY <1>2, <1>3, <2>1 DEF p
  <1>11. CASE m.type = "OTHER"
    <2>1. p = over(Rejected(a)) BY <1>11 DEF ParseMsg
    <2> QED BY <1>2, <1>3, <2>1
  <1> HIDE DEF p
  <1>12. /\ Steady(a, p.ahc)
         /\ \/ p.done \in {"TERMINATED", "MSGCOMPLETE"}
            \/ p = more /\ a.msgin_index # 2
    BY <1>4, <1>5, <1>6, <1>7, <1>8, <1>9, <1>10, <1>11, AhcMessageKinds DEF p
  <1> QED BY <1>12 DEF p

-----------------------------------------------------------------------------
(* The session of the aic7xxx.                                               *)

\* A session is open while the loop runs, or it is one of our own for a target
\* that has not identified itself.  Outside of one a message only waits with
\* ATN, and the sequencer only announces the host's when the SCB has a reason
\* for one.
AhcOpen(a) ==
    /\ a.msg_type = "INITIATOR_MSGIN" => a.loop
    /\ a.loop => a.msg_type # "NONE"
    /\ a.loop => a.nexus # "free"
    /\ ~a.loop /\ a.msg_type # "NONE" => a.nexus = "not identified"
    /\ ~a.loop /\ a.MSG_OUT # "NOP" => a.ATN
    /\ a.nexus = "free" => a.MSG_OUT = "NOP" /\ ~a.ATN
    /\ ~a.loop /\ a.msg_type = "NONE" /\ a.MSG_OUT = "IDENTIFY" => a.nexus = "identified"
    /\ ~a.loop /\ a.msg_type = "NONE" /\ a.MSG_OUT = "HOST_MSG" =>
          /\ a.nexus = "identified"
          /\ \/ "ABORT" \in a.scb[a.scbptr].flags
             \/ "AUTO_NEGOTIATE" \in a.scb[a.scbptr].flags

\* ATN while there is more to send, or an answer.
AhcAtn(a) ==
    /\ a.msg_type = "INITIATOR_MSGOUT" /\ a.ATN /\ ~a.send_msg_perror
          => a.msgout_index < a.msgout_len
    /\ a.msg_type = "INITIATOR_MSGIN" /\ a.msgin_index = 0
          /\ a.msgout_len # 0 /\ a.msgout_index = 0 => a.ATN

AhcOK(a) == Sound(a) /\ AhcAtn(a) /\ (a.panic = "none" => AhcOpen(a))

\* After a byte of a session the loop goes on, or there is no session.
AhcByte(a, b) ==
    /\ Sound(b) /\ AhcAtn(b)
    /\ b.nexus = a.nexus
    /\ b.panic = "none" =>
          \/ b.RETURN_1 = "CONT_MSG_LOOP" /\ b.msg_type # "NONE"
          \/ /\ b.RETURN_1 = "EXIT_MSG_LOOP" /\ b.msg_type = "NONE"
             /\ b.MSG_OUT = "NOP" /\ ~b.ATN

\* All but the settings and the SCBs.
LEMMA SessionSound ==
  ASSUME NEW a, Sound(a), NEW b, DOMAIN b = AhcFields,
         b.curr = a.curr, b.goal = a.goal, b.auto_negotiate = a.auto_negotiate,
         b.scb = a.scb, b.card = a.card,
         AhcBuffer(b), AhcSignals(b), AhcSession(b)
  PROVE  Sound(b)
  BY DEF Sound, AhcSettings, AhcScbs

LEMMA AhcCleared ==
  ASSUME NEW a, Sound(a)
  PROVE  LET b == ClearMsgState(a)
         IN  /\ Sound(b)
             /\ b.msg_type = "NONE" /\ b.MSG_OUT = "NOP" /\ b.ATN = FALSE
             /\ b.loop = a.loop /\ b.nexus = a.nexus /\ b.scbptr = a.scbptr
             /\ b.RETURN_1 = a.RETURN_1 /\ b.panic = a.panic
             /\ b.msgout_len = 0
  <1> DEFINE c == Emptied(a)
             b == ClearMsgState(a)
  <1>1. Steady(a, c) BY AhcBufferSteady
  <1>2. DOMAIN a = AhcFields BY DEF Sound
  <1>3. /\ c.msgout_len = 0 /\ c.msgout_index = 0 /\ c.panic = a.panic
        /\ b = [c EXCEPT !.msgin_index = 0, !.msg_type = "NONE", !.ATN = FALSE,
                         !.MSG_OUT = "NOP"]
    BY <1>2 DEF Emptied, ClearMsgState, AhcFields
  <1> HIDE DEF b, c
  <1>4. DOMAIN c = AhcFields BY <1>1 DEF Steady, Sound
  <1>5. /\ DOMAIN b = AhcFields
        /\ b.curr = c.curr /\ b.goal = c.goal /\ b.auto_negotiate = c.auto_negotiate
        /\ b.scb = c.scb /\ b.card = c.card
        /\ b.msg_type = "NONE" /\ b.MSG_OUT = "NOP" /\ b.ATN = FALSE
        /\ b.msgin_index = 0
        /\ b.msgout_buf = c.msgout_buf /\ b.msgout_len = c.msgout_len
        /\ b.msgout_index = c.msgout_index
        /\ b.loop = c.loop /\ b.nexus = c.nexus /\ b.scbptr = c.scbptr
        /\ b.send_msg_perror = c.send_msg_perror
        /\ b.RETURN_1 = c.RETURN_1 /\ b.panic = c.panic
    BY <1>3, <1>4 DEF AhcFields
  <1>6. AhcBuffer(b) BY <1>1, <1>5 DEF Steady, Sound, AhcBuffer
  <1>7. AhcSignals(b) BY <1>5 DEF AhcSignals
  <1>8. AhcSession(b)
    <2>1. AhcSession(c) BY <1>1 DEF Steady, Sound
    <2>2. /\ b.loop = c.loop /\ b.nexus = c.nexus /\ b.scbptr = c.scbptr
          /\ b.msg_type = "NONE" /\ b.msgin_index = 0
          /\ b.send_msg_perror = c.send_msg_perror
          /\ b.RETURN_1 = c.RETURN_1 /\ b.panic = c.panic
      BY <1>5
    <2>3. 0 \in 0 .. 2 OBVIOUS
    <2> QED BY <2>1, <2>2, <2>3, Zenon DEF AhcSession
  <1>9. Sound(b) BY <1>1, <1>5, <1>6, <1>7, <1>8, SessionSound DEF Steady
  <1>10. b.loop = a.loop /\ b.nexus = a.nexus /\ b.scbptr = a.scbptr
         /\ b.RETURN_1 = a.RETURN_1
    BY <1>1, <1>5 DEF Steady, SameSession
  <1> QED BY <1>3, <1>5, <1>9, <1>10 DEF b

\* The way the loop ends or goes on.
LEMMA AhcReturn ==
  ASSUME NEW a, Sound(a), NEW r \in {"CONT_MSG_LOOP", "EXIT_MSG_LOOP"}
  PROVE  LET b == [a EXCEPT !.RETURN_1 = r]
         IN  /\ Sound(b) /\ b.RETURN_1 = r
             /\ b.msg_type = a.msg_type /\ b.MSG_OUT = a.MSG_OUT /\ b.ATN = a.ATN
             /\ b.loop = a.loop /\ b.nexus = a.nexus /\ b.scbptr = a.scbptr
             /\ b.panic = a.panic /\ b.send_msg_perror = a.send_msg_perror
             /\ b.msgin_index = a.msgin_index
             /\ b.msgout_len = a.msgout_len /\ b.msgout_index = a.msgout_index
  <1> DEFINE b == [a EXCEPT !.RETURN_1 = r]
  <1>1. DOMAIN a = AhcFields BY DEF Sound
  <1>2. /\ DOMAIN b = AhcFields
        /\ b.curr = a.curr /\ b.goal = a.goal /\ b.auto_negotiate = a.auto_negotiate
        /\ b.scb = a.scb /\ b.card = a.card
        /\ b.RETURN_1 = r
        /\ b.msg_type = a.msg_type /\ b.MSG_OUT = a.MSG_OUT /\ b.ATN = a.ATN
        /\ b.msgin_index = a.msgin_index
        /\ b.msgout_buf = a.msgout_buf /\ b.msgout_len = a.msgout_len
        /\ b.msgout_index = a.msgout_index
        /\ b.loop = a.loop /\ b.nexus = a.nexus /\ b.scbptr = a.scbptr
        /\ b.send_msg_perror = a.send_msg_perror /\ b.panic = a.panic
    BY <1>1 DEF AhcFields
  <1> HIDE DEF b
  <1>3. AhcBuffer(b) BY <1>2 DEF Sound, AhcBuffer
  <1>4. AhcSignals(b) BY <1>2 DEF Sound, AhcSignals
  <1>5. AhcSession(b) BY <1>2 DEF Sound, AhcSession
  <1>6. Sound(b) BY <1>2, <1>3, <1>4, <1>5, SessionSound
  <1> QED BY <1>2, <1>6 DEF b

LEMMA ExitByte ==
  ASSUME NEW a, Sound(a) PROVE AhcByte(a, Exit(a))
  <1> DEFINE b == ClearMsgState(a)
             c == Exit(a)
  <1>1. /\ Sound(b) /\ b.msg_type = "NONE" /\ b.MSG_OUT = "NOP" /\ b.ATN = FALSE
        /\ b.nexus = a.nexus
    BY AhcCleared
  <1>2. c = [b EXCEPT !.RETURN_1 = "EXIT_MSG_LOOP"] BY DEF Exit
  <1> HIDE DEF b, c
  <1>3. /\ Sound(c) /\ c.RETURN_1 = "EXIT_MSG_LOOP"
        /\ c.msg_type = "NONE" /\ c.MSG_OUT = "NOP" /\ c.ATN = FALSE
        /\ c.nexus = a.nexus
    BY <1>1, <1>2, AhcReturn
  <1> QED BY <1>3 DEF c, AhcByte, AhcAtn

LEMMA ContByte ==
  ASSUME NEW a, NEW b, Sound(b), AhcAtn(b), b.nexus = a.nexus, b.msg_type # "NONE"
  PROVE  AhcByte(a, Cont(b))
  <1> DEFINE c == Cont(b)
  <1>1. c = [b EXCEPT !.RETURN_1 = "CONT_MSG_LOOP"] BY DEF Cont
  <1> HIDE DEF c
  <1>2. /\ Sound(c) /\ c.RETURN_1 = "CONT_MSG_LOOP"
        /\ c.msg_type = b.msg_type /\ c.ATN = b.ATN /\ c.nexus = b.nexus
        /\ c.send_msg_perror = b.send_msg_perror /\ c.msgin_index = b.msgin_index
        /\ c.msgout_len = b.msgout_len /\ c.msgout_index = b.msgout_index
    BY <1>1, AhcReturn
  <1>3. AhcAtn(c) BY <1>2 DEF AhcAtn
  <1> QED BY <1>2, <1>3 DEF c, AhcByte

\* The byte that leaves ATN up is not the last one.
LEMMA SendByteSteady ==
  ASSUME NEW a, Sound(a), a.msgout_len # 0
  PROVE  LET b == SendByte(a)
         IN  /\ Steady(a, b)
             /\ b.ATN => b.msgout_index < b.msgout_len
             /\ b.panic = a.panic
  <1> DEFINE again == [a EXCEPT !.msgout_index = 0, !.ATN = TRUE]
             b == IF a.msgout_index = a.msgout_len THEN again ELSE a
             c == SendByte(a)
  <1>1. DOMAIN a = AhcFields /\ AhcBuffer(a) /\ a.ATN \in BOOLEAN
        /\ a.panic # "no waiting message"
    BY DEF Sound, AhcSignals, AhcSession
  <1>2. /\ DOMAIN again = AhcFields
        /\ again.curr = a.curr /\ again.goal = a.goal
        /\ again.auto_negotiate = a.auto_negotiate
        /\ again.scb = a.scb /\ again.card = a.card
        /\ again.ATN = TRUE /\ again.MSG_OUT = a.MSG_OUT
        /\ again.panic = a.panic /\ SameSession(a, again)
    BY <1>1 DEF SameSession, AhcFields
  <1>3. /\ again.msgout_buf = a.msgout_buf /\ again.msgout_len = a.msgout_len
        /\ again.msgout_index = 0
    BY <1>1 DEF AhcFields
  <1> HIDE DEF again
  <1>4. /\ DOMAIN b = AhcFields
        /\ b.curr = a.curr /\ b.goal = a.goal /\ b.auto_negotiate = a.auto_negotiate
        /\ b.scb = a.scb /\ b.card = a.card
        /\ b.MSG_OUT = a.MSG_OUT /\ b.panic = a.panic
    BY <1>1, <1>2, Zenon
  <1>5. b.ATN \in BOOLEAN BY <1>1, <1>2, Zenon
  <1>6. SameSession(a, b)
    <2>1. SameSession(a, a) BY DEF SameSession
    <2> QED BY <1>2, <2>1, Zenon
  <1>7. /\ b.msgout_buf = a.msgout_buf /\ b.msgout_len = a.msgout_len
        /\ b.msgout_index = IF a.msgout_index = a.msgout_len THEN 0 ELSE a.msgout_index
    BY <1>3, Zenon
  <1>8. c = [b EXCEPT !.ATN = @ /\ b.msgout_index # b.msgout_len - 1,
                      !.msgout_index = @ + 1]
    BY DEF SendByte, again
  <1> HIDE DEF b, c
  <1>9. /\ DOMAIN c = AhcFields
        /\ c.curr = b.curr /\ c.goal = b.goal /\ c.auto_negotiate = b.auto_negotiate
        /\ c.scb = b.scb /\ c.card = b.card
        /\ c.ATN = (b.ATN /\ b.msgout_index # b.msgout_len - 1)
        /\ c.MSG_OUT = b.MSG_OUT /\ c.panic = b.panic
        /\ SameSession(b, c)
    BY <1>4, <1>8 DEF SameSession, AhcFields
  <1>10. /\ c.msgout_buf = b.msgout_buf /\ c.msgout_len = b.msgout_len
         /\ c.msgout_index = b.msgout_index + 1
    BY <1>4, <1>8 DEF AhcFields
  <1>11. c.ATN \in BOOLEAN /\ (c.ATN => b.msgout_index # b.msgout_len - 1)
    BY <1>5, <1>9
  <1>12. SameSession(a, c) BY <1>6, <1>9 DEF SameSession
  <1>13. /\ a.msgout_len \in 0 .. 5 /\ a.msgout_index \in 0 .. 5
         /\ a.msgout_index <= a.msgout_len
    BY <1>1, Zenon DEF AhcBuffer
  <1>14. ASSUME NEW len \in 0 .. 5, NEW i \in 0 .. 5, i <= len, len # 0
         PROVE  \E index \in 0 .. 5 :
                   index = (IF i = len THEN 0 ELSE i) /\ index < len
    BY <1>14
  <1>15. PICK index \in 0 .. 5 :
           /\ index = IF a.msgout_index = a.msgout_len THEN 0 ELSE a.msgout_index
           /\ index < a.msgout_len
    BY <1>13, <1>14, Zenon
  <1>16. a.msgout_len \in 0 .. 5 /\ index < a.msgout_len
    BY <1>13, <1>15, Zenon
  <1>17. c.msgout_index = index + 1 /\ c.msgout_len = a.msgout_len
         /\ b.msgout_index = index /\ b.msgout_len = a.msgout_len
    BY <1>7, <1>10, <1>15
  <1>18. ASSUME NEW len \in 0 .. 5, index < len
         PROVE  /\ index + 1 \in 0 .. 5 /\ index + 1 <= len
                /\ index # len - 1 => index + 1 < len
    BY <1>18
  <1>19. AhcBuffer(c)
    <2>1. c.msgout_buf = a.msgout_buf BY <1>7, <1>10
    <2> QED BY <1>1, <1>16, <1>17, <1>18, <2>1, Zenon DEF AhcBuffer
  <1>20. b.msgout_index # b.msgout_len - 1 => c.msgout_index < c.msgout_len
    BY <1>16, <1>17, <1>18, Zenon
  <1>21. /\ c.curr = a.curr /\ c.goal = a.goal /\ c.auto_negotiate = a.auto_negotiate
         /\ c.scb = a.scb /\ c.card = a.card /\ c.MSG_OUT = a.MSG_OUT
         /\ c.panic = a.panic
    BY <1>4, <1>9, Zenon
  <1>22. Steady(a, c) BY <1>1, <1>9, <1>11, <1>12, <1>19, <1>21, BufferSteady
  <1> QED BY <1>11, <1>20, <1>21, <1>22 DEF c

LEMMA InitiatorMsgoutByte ==
  ASSUME NEW a, Sound(a), AhcAtn(a), a.msg_type = "INITIATOR_MSGOUT"
  PROVE  AhcByte(a, InitiatorMsgout(a))
  <1> DEFINE quiet == [a EXCEPT !.ATN = FALSE]
             panic == Panic(a, "no active message")
             sent  == SendByte(a)
  <1>1. DOMAIN a = AhcFields BY DEF Sound
  <1>2. CASE a.msgout_len = 0
    <2>1. InitiatorMsgout(a) = panic BY <1>2 DEF InitiatorMsgout
    <2>2. Steady(a, panic) BY AhcBufferSteady
    <2>3. /\ panic.msgout_len = a.msgout_len /\ panic.msgout_index = a.msgout_index
          /\ panic.ATN = a.ATN /\ panic.panic # "none"
      BY <1>1 DEF Panic, AhcFields
    <2> HIDE DEF panic
    <2> QED BY <2>1, <2>2, <2>3 DEF AhcByte, AhcAtn, Steady, SameSession
  <1>3. CASE a.msgout_len # 0 /\ a.send_msg_perror
    <2>1. InitiatorMsgout(a) = Cont(quiet) BY <1>3 DEF InitiatorMsgout
    <2>2. Steady(a, quiet)
      <3>1. /\ DOMAIN quiet = AhcFields
            /\ quiet.curr = a.curr /\ quiet.goal = a.goal
            /\ quiet.auto_negotiate = a.auto_negotiate
            /\ quiet.scb = a.scb /\ quiet.card = a.card
            /\ quiet.ATN = FALSE /\ quiet.MSG_OUT = a.MSG_OUT
            /\ quiet.panic = a.panic /\ SameSession(a, quiet)
            /\ quiet.msgout_buf = a.msgout_buf /\ quiet.msgout_len = a.msgout_len
            /\ quiet.msgout_index = a.msgout_index
        BY <1>1 DEF SameSession, AhcFields
      <3> HIDE DEF quiet
      <3>2. AhcBuffer(quiet) BY <3>1 DEF Sound, AhcBuffer
      <3>3. quiet.panic # "no waiting message" BY <3>1 DEF Sound, AhcSession
      <3>4. quiet.ATN \in BOOLEAN BY <3>1
      <3> QED BY <3>1, <3>2, <3>3, <3>4, BufferSteady
    <2>3. quiet.ATN = FALSE BY <1>1 DEF AhcFields
    <2> HIDE DEF quiet
    <2>4. AhcAtn(quiet)
      BY <2>2, <2>3 DEF AhcAtn, Steady, SameSession
    <2> QED BY <2>1, <2>2, <2>4, ContByte DEF Steady, SameSession
  <1>4. CASE a.msgout_len # 0 /\ ~a.send_msg_perror
    <2>1. InitiatorMsgout(a) = Cont(sent) BY <1>4 DEF InitiatorMsgout
    <2>2. /\ Steady(a, sent)
          /\ sent.ATN => sent.msgout_index < sent.msgout_len
      BY <1>4, SendByteSteady
    <2> HIDE DEF sent
    <2>3. AhcAtn(sent)
      BY <2>2 DEF AhcAtn, Steady, SameSession
    <2> QED BY <2>1, <2>2, <2>3, ContByte DEF Steady, SameSession
  <1> QED BY <1>2, <1>3, <1>4

\* The message that came in is answered with ATN, and ATN is only told of an
\* answer that is there.
LEMMA InitiatorMsginByte ==
  ASSUME NEW a, Sound(a), a.msg_type = "INITIATOR_MSGIN",
         NEW m \in Messages
  PROVE  AhcByte(a, InitiatorMsgin(a, m))
  <1> DEFINE p    == ParseMsg(a, m)
             b    == p.ahc
             done == MessageDone(b)
             next == [a EXCEPT !.msgin_index = @ + 1]
  <1>1. Steady(a, b) BY ParseMsgSteady
  <1>2. DOMAIN a = AhcFields /\ DOMAIN b = AhcFields
    BY <1>1 DEF Sound, Steady
  <1>3. /\ Sound(done) /\ AhcAtn(done) /\ done.nexus = a.nexus
        /\ done.msg_type = a.msg_type
    <2> HIDE DEF p, b
    <2>1. /\ DOMAIN done = AhcFields
          /\ done.curr = b.curr /\ done.goal = b.goal
          /\ done.auto_negotiate = b.auto_negotiate
          /\ done.scb = b.scb /\ done.card = b.card
          /\ done.ATN = (b.ATN \/ b.msgout_len # 0) /\ done.MSG_OUT = b.MSG_OUT
          /\ done.msgout_buf = b.msgout_buf /\ done.msgout_len = b.msgout_len
          /\ done.msgout_index = b.msgout_index
      BY <1>2 DEF MessageDone, AhcFields
    <2>2. /\ done.loop = b.loop /\ done.nexus = b.nexus /\ done.scbptr = b.scbptr
          /\ done.msg_type = b.msg_type /\ done.msgin_index = 0
          /\ done.send_msg_perror = b.send_msg_perror
          /\ done.RETURN_1 = b.RETURN_1 /\ done.panic = b.panic
      BY <1>2 DEF MessageDone, AhcFields
    <2> HIDE DEF done
    <2>3. AhcBuffer(done) BY <1>1, <2>1 DEF Steady, Sound, AhcBuffer
    <2>4. b.ATN \in BOOLEAN /\ b.MSG_OUT \in {"NOP", "IDENTIFY", "HOST_MSG", "PARITY_ERROR"}
      BY <1>1 DEF Steady, Sound, AhcSignals
    <2>5. AhcSignals(done) BY <2>1, <2>4, Zenon DEF AhcSignals
    <2>6. AhcSession(done)
      <3>1. AhcSession(b) BY <1>1 DEF Steady, Sound
      <3>2. 0 \in 0 .. 2 OBVIOUS
      <3> QED BY <2>2, <3>1, <3>2, Zenon DEF AhcSession
    <2>7. Sound(done) BY <1>1, <2>1, <2>3, <2>5, <2>6, SessionSound DEF Steady
    <2>8. done.nexus = a.nexus /\ done.msg_type = a.msg_type
      BY <1>1, <2>2 DEF Steady, SameSession
    <2>9. AhcAtn(done) BY <2>1, <2>8, Zenon DEF AhcAtn
    <2> QED BY <2>7, <2>8, <2>9
  <1>4. ASSUME a.msgin_index # 2
        PROVE  /\ Sound(next) /\ AhcAtn(next) /\ next.nexus = a.nexus
               /\ next.msg_type = a.msg_type
    <2>1. /\ DOMAIN next = AhcFields
          /\ next.curr = a.curr /\ next.goal = a.goal
          /\ next.auto_negotiate = a.auto_negotiate
          /\ next.scb = a.scb /\ next.card = a.card
          /\ next.ATN = a.ATN /\ next.MSG_OUT = a.MSG_OUT
          /\ next.msgout_buf = a.msgout_buf /\ next.msgout_len = a.msgout_len
          /\ next.msgout_index = a.msgout_index
      BY <1>2 DEF AhcFields
    <2>2. /\ next.loop = a.loop /\ next.nexus = a.nexus /\ next.scbptr = a.scbptr
          /\ next.msg_type = a.msg_type
          /\ next.send_msg_perror = a.send_msg_perror
          /\ next.RETURN_1 = a.RETURN_1 /\ next.panic = a.panic
      BY <1>2 DEF AhcFields
    <2>3. next.msgin_index = a.msgin_index + 1 BY <1>2 DEF AhcFields
    <2> HIDE DEF next
    <2>4. AhcBuffer(next) BY <2>1 DEF Sound, AhcBuffer
    <2>5. AhcSignals(next) BY <2>1 DEF Sound, AhcSignals
    <2>6. a.msgin_index \in 0 .. 2 BY DEF Sound, AhcSession
    <2>7. next.msgin_index \in 0 .. 2 /\ next.msgin_index # 0 BY <1>4, <2>3, <2>6
    <2>8. AhcSession(next)
      <3>1. AhcSession(a) BY DEF Sound
      <3> QED BY <2>2, <2>7, <3>1, Zenon DEF AhcSession
    <2>9. Sound(next) BY <2>1, <2>4, <2>5, <2>8, SessionSound
    <2>10. AhcAtn(next) BY <2>2, <2>7, Zenon DEF AhcAtn
    <2> QED BY <2>2, <2>9, <2>10
  <1>5. /\ p.done \in {"TERMINATED", "MSGCOMPLETE"} =>
              InitiatorMsgin(a, m) \in {Exit(done), Cont(done)}
        /\ p = [ahc |-> a, done |-> "IN_PROG"] => InitiatorMsgin(a, m) = Cont(next)
    BY DEF InitiatorMsgin, Continued
  <1>6. AhcByte(a, Exit(done))
    <2> HIDE DEF done
    <2> QED BY <1>3, ExitByte DEF AhcByte
  <1>7. AhcByte(a, Cont(done))
    <2> HIDE DEF done
    <2> QED BY <1>3, ContByte
  <1>8. a.msgin_index # 2 => AhcByte(a, Cont(next))
    <2> HIDE DEF next
    <2> QED BY <1>4, ContByte
  <1>9. \/ p.done \in {"TERMINATED", "MSGCOMPLETE"}
        \/ p = [ahc |-> a, done |-> "IN_PROG"] /\ a.msgin_index # 2
    BY ParseMsgSteady
  <1> HIDE DEF p, done, next
  <1> QED BY <1>5, <1>6, <1>7, <1>8, <1>9

LEMMA QuietScbOK ==
  ASSUME NEW r, NEW c, ScbOK(r, c)
  PROVE  ScbOK([r EXCEPT !.MK_MESSAGE = FALSE], [c EXCEPT !.MK_MESSAGE = FALSE])
  <1> DEFINE q == [r EXCEPT !.MK_MESSAGE = FALSE]
             d == [c EXCEPT !.MK_MESSAGE = FALSE]
  <1>1. /\ DOMAIN r = {"where", "flags", "MK_MESSAGE", "tagged", "scsioffset"}
        /\ DOMAIN c = {"MK_MESSAGE", "scsioffset"}
    BY DEF ScbOK
  <1>2. /\ DOMAIN q = DOMAIN r /\ DOMAIN d = DOMAIN c
        /\ q.where = r.where /\ q.flags = r.flags /\ q.MK_MESSAGE = FALSE
        /\ q.tagged = r.tagged /\ q.scsioffset = r.scsioffset
        /\ d.MK_MESSAGE = FALSE /\ d.scsioffset = c.scsioffset
    BY <1>1
  <1> HIDE DEF q, d
  <1>3. ScbOK(q, d) BY <1>2 DEF ScbOK
  <1> QED BY <1>3 DEF q, d

LEMMA HandleMessagePhaseByte ==
  ASSUME NEW a, Sound(a), a.msg_type # "NONE",
         a.msg_type = "INITIATOR_MSGOUT" => AhcAtn(a),
         NEW phase, NEW m, phase = "MESGIN" => m \in Messages
  PROVE  AhcByte(a, HandleMessagePhase(a, phase, m))
  <1> DEFINE b    == HandleMessagePhase(a, phase, m)
             turn == [a EXCEPT !.ATN = FALSE, !.send_msg_perror = FALSE,
                               !.msg_type = "INITIATOR_MSGIN", !.msgin_index = 0]
             back == [a EXCEPT !.msgin_index = 0, !.msg_type = "INITIATOR_MSGOUT"]
             panic == Panic(a, "no active message")
  <1>1. DOMAIN a = AhcFields /\ a.msg_type \in {"INITIATOR_MSGOUT", "INITIATOR_MSGIN"}
    BY DEF Sound, AhcSession
  <1>2. AhcByte(a, Exit(a)) BY ExitByte
  <1>3. Sound(turn) /\ turn.nexus = a.nexus /\ turn.msg_type = "INITIATOR_MSGIN"
    <2>1. /\ DOMAIN turn = AhcFields
          /\ turn.curr = a.curr /\ turn.goal = a.goal
          /\ turn.auto_negotiate = a.auto_negotiate
          /\ turn.scb = a.scb /\ turn.card = a.card
          /\ turn.ATN = FALSE /\ turn.MSG_OUT = a.MSG_OUT
          /\ turn.msgout_buf = a.msgout_buf /\ turn.msgout_len = a.msgout_len
          /\ turn.msgout_index = a.msgout_index
          /\ turn.loop = a.loop /\ turn.nexus = a.nexus /\ turn.scbptr = a.scbptr
          /\ turn.msg_type = "INITIATOR_MSGIN" /\ turn.msgin_index = 0
          /\ turn.send_msg_perror = FALSE
          /\ turn.RETURN_1 = a.RETURN_1 /\ turn.panic = a.panic
      BY <1>1 DEF AhcFields
    <2> HIDE DEF turn
    <2>2. AhcBuffer(turn) BY <2>1 DEF Sound, AhcBuffer
    <2>3. AhcSignals(turn) BY <2>1, Zenon DEF Sound, AhcSignals
    <2>4. AhcSession(turn)
      <3>1. AhcSession(a) BY DEF Sound
      <3>2. 0 \in 0 .. 2 OBVIOUS
      <3> QED BY <2>1, <3>1, <3>2, Zenon DEF AhcSession
    <2> QED BY <2>1, <2>2, <2>3, <2>4, SessionSound
  <1>4. /\ Sound(back) /\ back.nexus = a.nexus /\ back.msg_type = "INITIATOR_MSGOUT"
        /\ back.ATN = a.ATN /\ back.send_msg_perror = a.send_msg_perror
        /\ back.msgout_len = a.msgout_len /\ back.msgout_index = a.msgout_index
    <2>1. /\ DOMAIN back = AhcFields
          /\ back.curr = a.curr /\ back.goal = a.goal
          /\ back.auto_negotiate = a.auto_negotiate
          /\ back.scb = a.scb /\ back.card = a.card
          /\ back.ATN = a.ATN /\ back.MSG_OUT = a.MSG_OUT
          /\ back.msgout_buf = a.msgout_buf /\ back.msgout_len = a.msgout_len
          /\ back.msgout_index = a.msgout_index
          /\ back.loop = a.loop /\ back.nexus = a.nexus /\ back.scbptr = a.scbptr
          /\ back.msg_type = "INITIATOR_MSGOUT" /\ back.msgin_index = 0
          /\ back.send_msg_perror = a.send_msg_perror
          /\ back.RETURN_1 = a.RETURN_1 /\ back.panic = a.panic
      BY <1>1 DEF AhcFields
    <2> HIDE DEF back
    <2>2. AhcBuffer(back) BY <2>1 DEF Sound, AhcBuffer
    <2>3. AhcSignals(back) BY <2>1, Zenon DEF Sound, AhcSignals
    <2>4. AhcSession(back)
      <3>1. AhcSession(a) BY DEF Sound
      <3>2. 0 \in 0 .. 2 OBVIOUS
      <3> QED BY <2>1, <3>1, <3>2, Zenon DEF AhcSession
    <2> QED BY <2>1, <2>2, <2>3, <2>4, SessionSound
  <1>5. a.msg_type = "INITIATOR_MSGOUT" => AhcByte(a, panic)
    <2> HAVE a.msg_type = "INITIATOR_MSGOUT"
    <2>1. Steady(a, panic) BY AhcBufferSteady
    <2>2. /\ panic.msgout_len = a.msgout_len /\ panic.msgout_index = a.msgout_index
          /\ panic.ATN = a.ATN /\ panic.panic # "none"
      BY <1>1 DEF Panic, AhcFields
    <2> HIDE DEF panic
    <2>3. AhcAtn(panic) BY <2>1, <2>2, Zenon DEF AhcAtn, Steady, SameSession
    <2> QED BY <2>1, <2>2, <2>3 DEF AhcByte, Steady, SameSession
  <1>6. phase = "MESGIN" => AhcByte(a, InitiatorMsgin(turn, m))
    <2> HIDE DEF turn
    <2> QED BY <1>3, InitiatorMsginByte DEF AhcByte
  <1>7. \/ a.send_msg_perror
        \/ a.msgout_len # 0 /\ a.msgout_index = 0
        => AhcByte(a, InitiatorMsgout(back))
    <2> HAVE \/ a.send_msg_perror
             \/ a.msgout_len # 0 /\ a.msgout_index = 0
    <2> HIDE DEF back
    <2>1. a.msgout_len # 0 => 0 < a.msgout_len BY DEF Sound, AhcBuffer
    <2>2. AhcAtn(back) BY <1>4, <2>1, Zenon DEF AhcAtn
    <2> QED BY <1>4, <2>2, InitiatorMsgoutByte DEF AhcByte
  <1>8. CASE a.msg_type = "INITIATOR_MSGOUT"
    <2>1. AhcByte(a, InitiatorMsgout(a)) BY <1>8, InitiatorMsgoutByte
    <2>2. \/ b \in {InitiatorMsgout(a), panic, Exit(a)}
          \/ phase = "MESGIN" /\ b = InitiatorMsgin(turn, m)
      BY <1>8 DEF HandleMessagePhase
    <2> HIDE DEF b, panic, turn
    <2> QED BY <1>2, <1>5, <1>6, <1>8, <2>1, <2>2 DEF b
  <1>9. CASE a.msg_type = "INITIATOR_MSGIN"
    <2>1. phase = "MESGIN" => AhcByte(a, InitiatorMsgin(a, m))
      BY <1>9, InitiatorMsginByte
    <2>2. \/ phase = "MESGIN" /\ b = InitiatorMsgin(a, m)
          \/ /\ \/ a.send_msg_perror
                \/ a.msgout_len # 0 /\ a.msgout_index = 0
             /\ b = InitiatorMsgout(back)
          \/ b = Exit(a)
      BY <1>9 DEF HandleMessagePhase
    <2> HIDE DEF b, back
    <2> QED BY <1>2, <1>7, <2>1, <2>2 DEF b
  <1> QED BY <1>1, <1>8, <1>9

\* A session is opened with a message: the SCB has a reason for it.
LEMMA SetupInitiatorMsgoutSound ==
  ASSUME NEW a, Sound(a), a.scbptr \in Scbs,
         \/ "ABORT" \in a.scb[a.scbptr].flags
         \/ "AUTO_NEGOTIATE" \in a.scb[a.scbptr].flags
  PROVE  LET b == SetupInitiatorMsgout(a)
         IN  /\ Sound(b) /\ b.nexus = a.nexus
             /\ b.msg_type = "INITIATOR_MSGOUT"
             /\ b.msgout_index = 0 /\ 0 < b.msgout_len
  <1> DEFINE s     == a.scbptr
             flags == a.scb[s].flags
             top   == Emptied(a)
             one   == <<"other">>
             two   == <<"other", "other">>
             task  == <<"ABORT_TASK">>
             ident == IF a.MSG_OUT # "IDENTIFY" THEN top
                      ELSE Put(top, IF a.scb[s].tagged THEN two ELSE one)
             full  == IF "ABORT" \in flags THEN Put(ident, task)
                      ELSE BuildTransferMsg(ident)
             start == FromTop(full)
             b     == SetupInitiatorMsgout(a)
  <1>1. /\ one \in Seq(Contents) /\ Len(one) = 1
        /\ two \in Seq(Contents) /\ Len(two) = 2
        /\ task \in Seq(Contents) /\ Len(task) = 1
    BY DEF Contents
  <1>2. Steady(a, top) /\ Sound(top) /\ top.msgout_len = 0
    <2>1. top.msgout_len = 0 BY DEF Sound, Emptied, AhcFields
    <2> QED BY <2>1, AhcBufferSteady DEF Steady
  <1>3. Steady(a, ident) /\ Sound(ident) /\ ident.msgout_len \in 0 .. 2
    <2> HIDE DEF one, two, top
    <2>1. ident \in {top, Put(top, one), Put(top, two)} OBVIOUS
    <2>2. /\ Steady(top, Put(top, one)) /\ Put(top, one).msgout_len = 1
          /\ Steady(top, Put(top, two)) /\ Put(top, two).msgout_len = 2
      <3>1. top.msgout_len <= 2 /\ 0 + 1 = 1 /\ 0 + 2 = 2 /\ 1 \in 1 .. 2 /\ 2 \in 1 .. 2
        BY <1>2
      <3> QED BY <1>1, <1>2, <3>1, PutSteady, Zenon
    <2> HIDE DEF ident
    <2>3. ident.msgout_len \in 0 .. 2 BY <1>2, <2>1, <2>2
    <2> QED BY <1>2, <2>1, <2>2, <2>3, SteadyTwice DEF Steady
  <1> HIDE DEF ident
  <1>4. Steady(a, full) /\ full.msgout_len \in 1 .. 5
    <2>1. /\ Steady(ident, Put(ident, task))
          /\ Put(ident, task).msgout_len = ident.msgout_len + 1
      <3> HIDE DEF task
      <3>1. ident.msgout_len <= 2 /\ 1 \in 1 .. 2 BY <1>3
      <3> QED BY <1>1, <1>3, <3>1, PutSteady, Zenon
    <2>2. /\ Steady(ident, BuildTransferMsg(ident))
          /\ BuildTransferMsg(ident) = Construct(ident, 3)
      BY <1>3, BuildTransferMsgSteady
    <2>3. Construct(ident, 3).msgout_len = ident.msgout_len + 3
      BY <1>3 DEF Construct, Sound, AhcFields
    <2> HIDE DEF task
    <2>4. full \in {Put(ident, task), BuildTransferMsg(ident)} OBVIOUS
    <2> HIDE DEF full
    <2>5. full.msgout_len \in 1 .. 5 BY <1>3, <2>1, <2>2, <2>3, <2>4
    <2> QED BY <1>3, <2>1, <2>2, <2>4, <2>5, SteadyTwice
  <1>5. b = [start EXCEPT !.scb[s].MK_MESSAGE = FALSE, !.card[s].MK_MESSAGE = FALSE,
                          !.msg_type = "INITIATOR_MSGOUT"]
    BY DEF SetupInitiatorMsgout, ident
  <1> HIDE DEF full
  <1>6. /\ Steady(a, start) /\ Sound(start) /\ start.msgout_index = 0
        /\ start.msgout_len = full.msgout_len
    <2>1. Sound(full) BY <1>4 DEF Steady
    <2>2. Steady(a, start) BY <1>4, <2>1, AhcBufferSteady, SteadyTwice
    <2>3. start.msgout_index = 0 /\ start.msgout_len = full.msgout_len
      BY <2>1 DEF FromTop, Sound, AhcFields
    <2> QED BY <2>2, <2>3 DEF Steady
  <1> HIDE DEF start, b
  <1>7. DOMAIN start = AhcFields /\ AhcScbs(start) BY <1>6 DEF Sound
  <1>8. /\ DOMAIN b = AhcFields
        /\ b.curr = start.curr /\ b.goal = start.goal
        /\ b.auto_negotiate = start.auto_negotiate
        /\ b.ATN = start.ATN /\ b.MSG_OUT = start.MSG_OUT
        /\ b.msgout_buf = start.msgout_buf /\ b.msgout_len = start.msgout_len
        /\ b.msgout_index = start.msgout_index
        /\ b.loop = start.loop /\ b.nexus = start.nexus /\ b.scbptr = start.scbptr
        /\ b.msg_type = "INITIATOR_MSGOUT" /\ b.msgin_index = start.msgin_index
        /\ b.send_msg_perror = start.send_msg_perror
        /\ b.RETURN_1 = start.RETURN_1 /\ b.panic = start.panic
    BY <1>5, <1>7 DEF AhcFields
  <1>9. /\ b.scb = [start.scb EXCEPT ![s].MK_MESSAGE = FALSE]
        /\ b.card = [start.card EXCEPT ![s].MK_MESSAGE = FALSE]
    BY <1>5, <1>7 DEF AhcFields
  <1>10. AhcScbs(b)
    <2>1. DOMAIN b.scb = Scbs /\ DOMAIN b.card = Scbs
      BY <1>7, <1>9 DEF AhcScbs
    <2>2. ASSUME NEW t \in Scbs PROVE ScbOK(b.scb[t], b.card[t])
      <3>1. ScbOK(start.scb[t], start.card[t]) BY <1>7 DEF AhcScbs
      <3>2. CASE t # s
        <4>1. b.scb[t] = start.scb[t] /\ b.card[t] = start.card[t]
          BY <1>7, <1>9, <3>2 DEF AhcScbs
        <4> QED BY <3>1, <4>1
      <3>3. CASE t = s
        <4>1. /\ b.scb[t] = [start.scb[t] EXCEPT !.MK_MESSAGE = FALSE]
              /\ b.card[t] = [start.card[t] EXCEPT !.MK_MESSAGE = FALSE]
          BY <1>7, <1>9, <3>3 DEF AhcScbs
        <4> QED BY <3>1, <4>1, QuietScbOK
      <3> QED BY <3>2, <3>3
    <2> QED BY <2>1, <2>2 DEF AhcScbs
  <1>11. AhcSettings(b) /\ AhcBuffer(b) /\ AhcSignals(b)
    BY <1>6, <1>8, Zenon DEF Sound, AhcSettings, AhcBuffer, AhcSignals
  <1>12. AhcSession(b)
    <2>1. AhcSession(start) BY <1>6 DEF Sound
    <2> QED BY <1>8, <2>1, Zenon DEF AhcSession
  <1>13. Sound(b) BY <1>8, <1>10, <1>11, <1>12 DEF Sound
  <1>14. b.nexus = a.nexus BY <1>6, <1>8 DEF Steady, SameSession
  <1>15. 0 < b.msgout_len BY <1>4, <1>6, <1>8
  <1> QED BY <1>6, <1>8, <1>13, <1>14, <1>15 DEF b

\* A byte the sequencer leaves to the host.
LEMMA AhcHostMsgLoopStep ==
  ASSUME AhcOK(ahc), ahc.panic = "none",
         NEW phase \in {"MESGOUT", "MESGIN", "other"},
         NEW m \in Messages \cup {NoMessage},
         HostMsgLoop(phase, m)
  PROVE  AhcOK(ahc')
  <1> DEFINE taken == [ahc EXCEPT !.msg_type = "INITIATOR_MSGIN", !.msgin_index = 0]
             opened == SetupInitiatorMsgout(ahc)
             begun == IF ahc.msg_type # "NONE" THEN ahc
                      ELSE IF phase # "MESGOUT" THEN taken ELSE opened
             after == HandleMessagePhase(begun, phase, m)
             goon  == after.RETURN_1 = "CONT_MSG_LOOP"
  <1>1. Sound(ahc) /\ AhcAtn(ahc) /\ AhcOpen(ahc) BY DEF AhcOK
  <1>2. ahc.nexus # "free" /\ (phase = "MESGIN" => m \in Messages)
    BY DEF HostMsgLoop, Offers
  <1>3. ahc' = [after EXCEPT !.loop = goon]
    BY DEF HostMsgLoop, Answered
  <1>4. /\ Sound(begun) /\ begun.nexus = ahc.nexus /\ begun.msg_type # "NONE"
        /\ begun.msg_type = "INITIATOR_MSGOUT" => AhcAtn(begun)
    <2>1. CASE ahc.msg_type # "NONE"
      <3>1. begun = ahc BY <2>1
      <3> HIDE DEF begun
      <3> QED BY <1>1, <2>1, <3>1
    <2>2. CASE ahc.msg_type = "NONE" /\ phase # "MESGOUT"
      <3>1. begun = taken BY <2>2
      <3>2. /\ DOMAIN taken = AhcFields
            /\ taken.curr = ahc.curr /\ taken.goal = ahc.goal
            /\ taken.auto_negotiate = ahc.auto_negotiate
            /\ taken.scb = ahc.scb /\ taken.card = ahc.card
            /\ taken.ATN = ahc.ATN /\ taken.MSG_OUT = ahc.MSG_OUT
            /\ taken.msgout_buf = ahc.msgout_buf /\ taken.msgout_len = ahc.msgout_len
            /\ taken.msgout_index = ahc.msgout_index
            /\ taken.loop = ahc.loop /\ taken.nexus = ahc.nexus
            /\ taken.scbptr = ahc.scbptr
            /\ taken.msg_type = "INITIATOR_MSGIN" /\ taken.msgin_index = 0
            /\ taken.send_msg_perror = ahc.send_msg_perror
            /\ taken.RETURN_1 = ahc.RETURN_1 /\ taken.panic = ahc.panic
        BY <1>1 DEF Sound, AhcFields
      <3> HIDE DEF taken
      <3>3. AhcBuffer(taken) /\ AhcSignals(taken)
        BY <1>1, <3>2, Zenon DEF Sound, AhcBuffer, AhcSignals
      <3>4. AhcSession(taken)
        <4>1. AhcSession(ahc) BY <1>1 DEF Sound
        <4>2. 0 \in 0 .. 2 OBVIOUS
        <4> QED BY <3>2, <4>1, <4>2, Zenon DEF AhcSession
      <3>5. Sound(taken) BY <1>1, <3>2, <3>3, <3>4, SessionSound
      <3> HIDE DEF begun
      <3> QED BY <3>1, <3>2, <3>5
    <2>3. CASE ahc.msg_type = "NONE" /\ phase = "MESGOUT"
      <3>1. begun = opened BY <2>3
      <3>2. ~ahc.loop BY <1>1, <2>3, Zenon DEF AhcOpen
      <3>3. \/ ahc.MSG_OUT = "HOST_MSG"
            \/ ahc.MSG_OUT = "IDENTIFY" /\ ahc.card[ahc.scbptr].MK_MESSAGE
        BY <2>3, <3>2, Zenon DEF HostMsgLoop, ToHost
      <3>4. ahc.nexus = "identified"
        BY <1>1, <2>3, <3>2, <3>3, Zenon DEF AhcOpen
      <3>5. ahc.scbptr \in Scbs BY <1>1, <3>4, Zenon DEF Sound, AhcSession
      <3>6. ScbOK(ahc.scb[ahc.scbptr], ahc.card[ahc.scbptr])
        BY <1>1, <3>5 DEF Sound, AhcScbs
      <3>7. \/ "ABORT" \in ahc.scb[ahc.scbptr].flags
            \/ "AUTO_NEGOTIATE" \in ahc.scb[ahc.scbptr].flags
        BY <1>1, <2>3, <3>2, <3>3, <3>6, Zenon DEF AhcOpen, ScbOK
      <3>8. /\ Sound(opened) /\ opened.nexus = ahc.nexus
            /\ opened.msg_type = "INITIATOR_MSGOUT"
            /\ opened.msgout_index = 0 /\ 0 < opened.msgout_len
        BY <1>1, <3>5, <3>7, SetupInitiatorMsgoutSound
      <3> HIDE DEF opened, begun
      <3>9. AhcAtn(opened) BY <3>8, Zenon DEF AhcAtn
      <3> QED BY <3>1, <3>8, <3>9
    <2> QED BY <2>1, <2>2, <2>3
  <1> HIDE DEF begun
  <1>5. AhcByte(begun, after) BY <1>2, <1>4, HandleMessagePhaseByte
  <1> HIDE DEF after
  <1>6. Sound(after) /\ AhcAtn(after) /\ after.nexus # "free"
    BY <1>2, <1>4, <1>5 DEF AhcByte
  <1>7. \/ after.panic # "none"
        \/ goon /\ after.msg_type # "NONE"
        \/ /\ ~goon /\ after.msg_type = "NONE"
           /\ after.MSG_OUT = "NOP" /\ ~after.ATN
    BY <1>5 DEF AhcByte
  <1>8. /\ DOMAIN ahc' = AhcFields
        /\ ahc'.curr = after.curr /\ ahc'.goal = after.goal
        /\ ahc'.auto_negotiate = after.auto_negotiate
        /\ ahc'.scb = after.scb /\ ahc'.card = after.card
        /\ ahc'.ATN = after.ATN /\ ahc'.MSG_OUT = after.MSG_OUT
        /\ ahc'.msgout_buf = after.msgout_buf /\ ahc'.msgout_len = after.msgout_len
        /\ ahc'.msgout_index = after.msgout_index
        /\ ahc'.nexus = after.nexus /\ ahc'.scbptr = after.scbptr
        /\ ahc'.msg_type = after.msg_type /\ ahc'.msgin_index = after.msgin_index
        /\ ahc'.send_msg_perror = after.send_msg_perror
        /\ ahc'.RETURN_1 = after.RETURN_1 /\ ahc'.panic = after.panic
    BY <1>3, <1>6 DEF Sound, AhcFields
  <1>9. ahc'.loop = goon BY <1>3, <1>6 DEF Sound, AhcFields
  <1>10. goon \in BOOLEAN OBVIOUS
  <1> HIDE DEF goon
  <1>11. AhcBuffer(ahc') /\ AhcSignals(ahc')
    BY <1>6, <1>8, Zenon DEF Sound, AhcBuffer, AhcSignals
  <1>12. AhcSession(ahc')
    <2>1. AhcSession(after) BY <1>6 DEF Sound
    <2> QED BY <1>8, <1>9, <1>10, <2>1, Zenon DEF AhcSession
  <1>13. Sound(ahc') BY <1>6, <1>8, <1>11, <1>12, SessionSound
  <1>14. AhcAtn(ahc') BY <1>6, <1>8, Zenon DEF AhcAtn
  <1>15. ahc'.panic = "none" => AhcOpen(ahc')
    <2>1. ASSUME goon, after.msg_type # "NONE" PROVE AhcOpen(ahc')
      BY <1>6, <1>8, <1>9, <2>1, Zenon DEF AhcOpen
    <2>2. ASSUME ~goon, after.msg_type = "NONE", after.MSG_OUT = "NOP", ~after.ATN
          PROVE  AhcOpen(ahc')
      BY <1>6, <1>8, <1>9, <2>2 DEF AhcOpen
    <2> QED BY <1>7, <1>8, <2>1, <2>2, Zenon
  <1> QED BY <1>13, <1>14, <1>15 DEF AhcOK

-----------------------------------------------------------------------------
(* When a connection of the aic7xxx goes wrong.                              *)

\* After ahc_restart there is no session and no connection.
LEMMA AhcRestarted ==
  ASSUME NEW a, Sound(a) PROVE AhcOK(Restart(a))
  <1> DEFINE b == ClearMsgState(a)
             c == Free(b)
             d == Restart(a)
  <1>1. /\ Sound(b) /\ b.msg_type = "NONE" /\ b.MSG_OUT = "NOP" /\ b.ATN = FALSE
        /\ DOMAIN b = AhcFields
    BY AhcCleared DEF Sound
  <1>2. d = [c EXCEPT !.loop = FALSE] BY DEF Restart
  <1> HIDE DEF b, d
  <1>3. /\ DOMAIN d = AhcFields
        /\ d.curr = b.curr /\ d.goal = b.goal /\ d.auto_negotiate = b.auto_negotiate
        /\ d.scb = b.scb /\ d.card = b.card
        /\ d.ATN = b.ATN /\ d.MSG_OUT = b.MSG_OUT
        /\ d.msgout_buf = b.msgout_buf /\ d.msgout_len = b.msgout_len
        /\ d.msgout_index = b.msgout_index
        /\ d.loop = FALSE /\ d.nexus = "free" /\ d.scbptr = None
        /\ d.msg_type = b.msg_type /\ d.msgin_index = b.msgin_index
        /\ d.send_msg_perror = b.send_msg_perror
        /\ d.RETURN_1 = b.RETURN_1 /\ d.panic = b.panic
    BY <1>1, <1>2 DEF Free, AhcFields
  <1>4. AhcBuffer(d) /\ AhcSignals(d)
    BY <1>1, <1>3, Zenon DEF Sound, AhcBuffer, AhcSignals
  <1>5. AhcSession(d)
    <2>1. AhcSession(b) BY <1>1 DEF Sound
    <2>2. d.loop \in BOOLEAN /\ d.nexus \in {"free", "identified", "not identified"}
          /\ d.nexus # "identified" /\ d.scbptr \in Scbs \cup {None}
      BY <1>3, Zenon
    <2> QED BY <1>3, <2>1, <2>2, Zenon DEF AhcSession
  <1>6. Sound(d) BY <1>1, <1>3, <1>4, <1>5, SessionSound
  <1>7. AhcAtn(d) BY <1>1, <1>3, Zenon DEF AhcAtn
  <1>8. AhcOpen(d) BY <1>1, <1>3, Zenon DEF AhcOpen
  <1> QED BY <1>6, <1>7, <1>8 DEF d, AhcOK

LEMMA HandleBusfreeSteady ==
  ASSUME NEW a, Sound(a) PROVE Steady(a, HandleBusfree(a))
  <1> DEFINE all  == Freed(a, Scbs)
             some == Freed(a, {a.scbptr})
             last == HandleBusfree(a)
  <1>1. Steady(a, all) /\ Steady(a, some) BY FreedSteady
  <1>2. Steady(a, Panic(a, "no SCB")) BY AhcBufferSteady
  <1>3. ASSUME NEW b, Steady(a, b)
        PROVE  Steady(a, UpdateNegRequest(b, "IF_NON_ASYNC")) /\ Steady(a, ToAsync(b))
    BY <1>3, UpdateNegRequestSteady, ToAsyncSteady, SteadyTwice DEF Steady
  <1>4. last \in {UpdateNegRequest(a, "IF_NON_ASYNC"),
                  UpdateNegRequest(all, "IF_NON_ASYNC"),
                  UpdateNegRequest(some, "IF_NON_ASYNC"),
                  Panic(a, "no SCB"), all, some, ToAsync(all)}
    BY DEF HandleBusfree
  <1>5. Steady(a, a) BY SteadySelf
  <1> HIDE DEF last, all, some
  <1>6. /\ Steady(a, UpdateNegRequest(a, "IF_NON_ASYNC"))
        /\ Steady(a, UpdateNegRequest(all, "IF_NON_ASYNC"))
        /\ Steady(a, UpdateNegRequest(some, "IF_NON_ASYNC"))
        /\ Steady(a, ToAsync(all))
    BY <1>1, <1>3, <1>5
  <1> QED BY <1>1, <1>2, <1>4, <1>6 DEF last

\* ATN and the byte in MSG_OUT.
LEMMA SignalsSound ==
  ASSUME NEW a, Sound(a), NEW b, DOMAIN b = AhcFields, AhcSignals(b),
         b.curr = a.curr, b.goal = a.goal, b.auto_negotiate = a.auto_negotiate,
         b.scb = a.scb, b.card = a.card, b.msgout_buf = a.msgout_buf,
         b.msgout_len = a.msgout_len, b.msgout_index = a.msgout_index,
         SameSession(a, b), b.panic = a.panic
  PROVE  Steady(a, b)
  BY DEF Steady, Sound, AhcSettings, AhcScbs, AhcBuffer, AhcSession, SameSession

LEMMA ByteNumbers == 0 \in 0 .. 5 /\ 1 \in 0 .. 5 /\ 0 <= 1 /\ 0 < 1
  OBVIOUS

\* A message of our own, for a target that has not identified itself.
LEMMA Announced ==
  ASSUME NEW b, Sound(b), b.msgout_len = 1, ~b.loop, b.nexus = "not identified",
         NEW c, DOMAIN c = AhcFields,
         c.curr = b.curr, c.goal = b.goal, c.auto_negotiate = b.auto_negotiate,
         c.scb = b.scb, c.card = b.card,
         c.msgout_buf = b.msgout_buf, c.msgout_len = b.msgout_len,
         c.msgout_index = 0,
         c.ATN = TRUE, c.MSG_OUT = "HOST_MSG", c.msg_type = "INITIATOR_MSGOUT",
         c.loop = b.loop, c.nexus = b.nexus, c.scbptr = b.scbptr,
         c.msgin_index = b.msgin_index, c.send_msg_perror = b.send_msg_perror,
         c.RETURN_1 = b.RETURN_1, c.panic = b.panic
  PROVE  AhcOK(c)
  <1>1. 0 \in 0 .. 5 /\ 1 \in 0 .. 5 /\ 0 <= 1 /\ 0 < 1 BY ByteNumbers, Zenon
  <1>2. AhcBuffer(c) BY <1>1, Zenon DEF Sound, AhcBuffer
  <1>3. AhcSignals(c) BY Zenon DEF AhcSignals
  <1>4. AhcSession(c)
    <2>1. AhcSession(b) BY DEF Sound
    <2> QED BY <2>1, Zenon DEF AhcSession
  <1>5. Sound(c) BY <1>2, <1>3, <1>4, SessionSound
  <1>6. AhcAtn(c) BY <1>1, Zenon DEF AhcAtn
  <1>7. AhcOpen(c) BY Zenon DEF AhcOpen
  <1> QED BY <1>5, <1>6, <1>7 DEF AhcOK

LEMMA OneByte ==
  ASSUME NEW a, Sound(a), NEW task \in {"ABORT_TASK", "TARGET_RESET"}
  PROVE  LET b == Put(Emptied(a), <<task>>)
         IN  Steady(a, b) /\ b.msgout_len = 1
  <1> DEFINE top   == Emptied(a)
             bytes == <<task>>
  <1>1. bytes \in Seq(Contents) /\ Len(bytes) = 1 BY DEF Contents
  <1>2. Steady(a, top) /\ Sound(top) /\ top.msgout_len = 0
    <2>1. top.msgout_len = 0 BY DEF Sound, Emptied, AhcFields
    <2> QED BY <2>1, AhcBufferSteady DEF Steady
  <1> HIDE DEF top, bytes
  <1>3. top.msgout_len <= 2 /\ 1 \in 1 .. 2 /\ 0 + 1 = 1 BY <1>2
  <1>4. Steady(top, Put(top, bytes)) /\ Put(top, bytes).msgout_len = 1
    BY <1>1, <1>2, <1>3, PutSteady, Zenon
  <1>5. Steady(a, Put(top, bytes)) BY <1>2, <1>4, SteadyTwice
  <1> QED BY <1>4, <1>5 DEF top, bytes

LEMMA NoMatchOK ==
  ASSUME NEW a, Sound(a), ~a.loop, a.nexus = "not identified"
  PROVE  AhcOK(NoMatch(a))
  <1> DEFINE b == Put(Emptied(a), <<"TARGET_RESET">>)
             c == NoMatch(a)
  <1>1. Steady(a, b) /\ b.msgout_len = 1 BY OneByte
  <1>2. c = [b EXCEPT !.msgout_index = 0, !.msg_type = "INITIATOR_MSGOUT",
                      !.MSG_OUT = "HOST_MSG", !.ATN = TRUE]
    BY DEF NoMatch
  <1> HIDE DEF b, c
  <1>3. DOMAIN b = AhcFields /\ Sound(b) /\ ~b.loop /\ b.nexus = "not identified"
    BY <1>1 DEF Steady, Sound, SameSession
  <1>4. /\ DOMAIN c = AhcFields
        /\ c.curr = b.curr /\ c.goal = b.goal /\ c.auto_negotiate = b.auto_negotiate
        /\ c.scb = b.scb /\ c.card = b.card
        /\ c.msgout_buf = b.msgout_buf /\ c.msgout_len = b.msgout_len
        /\ c.msgout_index = 0
        /\ c.ATN = TRUE /\ c.MSG_OUT = "HOST_MSG" /\ c.msg_type = "INITIATOR_MSGOUT"
        /\ c.loop = b.loop /\ c.nexus = b.nexus /\ c.scbptr = b.scbptr
        /\ c.msgin_index = b.msgin_index /\ c.send_msg_perror = b.send_msg_perror
        /\ c.RETURN_1 = b.RETURN_1 /\ c.panic = b.panic
    BY <1>2, <1>3 DEF AhcFields
  <1> QED BY <1>1, <1>3, <1>4, Announced DEF c

LEMMA HandleProtoViolationOK ==
  ASSUME NEW a, Sound(a), ~a.loop,
         a.nexus = "identified" \/ a.nexus = "not identified",
         a.nexus = "identified" => a.msg_type = "NONE"
  PROVE  AhcOK(HandleProtoViolation(a, FALSE))
  <1> DEFINE b == [a EXCEPT !.ATN = TRUE, !.MSG_OUT = "HOST_MSG"]
             h == HandleProtoViolation(a, FALSE)
  <1>1. DOMAIN a = AhcFields BY DEF Sound
  <1>2. /\ DOMAIN b = AhcFields
        /\ b.curr = a.curr /\ b.goal = a.goal /\ b.auto_negotiate = a.auto_negotiate
        /\ b.scb = a.scb /\ b.card = a.card /\ b.msgout_buf = a.msgout_buf
        /\ b.msgout_len = a.msgout_len /\ b.msgout_index = a.msgout_index
        /\ SameSession(a, b) /\ b.panic = a.panic
        /\ b.ATN = TRUE /\ b.MSG_OUT = "HOST_MSG"
    BY <1>1 DEF SameSession, AhcFields
  <1>3. a.nexus = "identified" => h = [b EXCEPT !.scb[b.scbptr].flags = @ \cup {"ABORT"}]
    BY DEF HandleProtoViolation
  <1>4. a.nexus = "not identified" =>
            h = [Put(Emptied(b), <<"ABORT_TASK">>) EXCEPT
                    !.msgout_index = 0, !.msg_type = "INITIATOR_MSGOUT"]
    BY DEF HandleProtoViolation
  <1> HIDE DEF b, h
  <1>5. AhcSignals(b) BY <1>2, Zenon DEF AhcSignals
  <1>6. Steady(a, b) BY <1>2, <1>5, SignalsSound
  <1>7. CASE a.nexus = "identified"
    <2> DEFINE s == b.scbptr
    <2>1. /\ s \in Scbs /\ b.nexus = "identified" /\ ~b.loop /\ b.msg_type = "NONE"
          /\ b.loop \in BOOLEAN
      BY <1>6, <1>7 DEF Steady, SameSession, Sound, AhcSession
    <2>2. AhcScbs(b) BY <1>6 DEF Steady, Sound
    <2>3. /\ DOMAIN h = AhcFields
          /\ h.curr = b.curr /\ h.goal = b.goal /\ h.auto_negotiate = b.auto_negotiate
          /\ h.card = b.card /\ h.msgout_buf = b.msgout_buf
          /\ h.msgout_len = b.msgout_len /\ h.msgout_index = b.msgout_index
          /\ SameSession(b, h) /\ h.panic = b.panic
          /\ h.ATN = TRUE /\ h.MSG_OUT = "HOST_MSG"
      BY <1>2, <1>3, <1>7 DEF SameSession, AhcFields
    <2>4. h.scb = [b.scb EXCEPT ![s].flags = @ \cup {"ABORT"}]
      BY <1>2, <1>3, <1>7 DEF AhcFields
    <2>5. ASSUME NEW t \in Scbs
          PROVE  /\ ScbOK(h.scb[t], h.card[t])
                 /\ t = s => "ABORT" \in h.scb[t].flags
      <3>1. ScbOK(b.scb[t], b.card[t]) BY <2>2 DEF AhcScbs
      <3>2. CASE t # s
        <4>1. h.scb[t] = b.scb[t] BY <2>2, <2>4, <3>2 DEF AhcScbs
        <4> QED BY <2>3, <3>1, <3>2, <4>1
      <3>3. CASE t = s
        <4> DEFINE r == b.scb[t]
                   q == [r EXCEPT !.flags = @ \cup {"ABORT"}]
        <4>1. h.scb[t] = q BY <2>2, <2>4, <3>3 DEF AhcScbs
        <4>2. DOMAIN r = {"where", "flags", "MK_MESSAGE", "tagged", "scsioffset"}
          BY <3>1 DEF ScbOK
        <4> HIDE DEF r
        <4>3. /\ DOMAIN q = DOMAIN r /\ q.where = r.where
              /\ q.flags = r.flags \cup {"ABORT"}
              /\ q.MK_MESSAGE = r.MK_MESSAGE /\ q.tagged = r.tagged
              /\ q.scsioffset = r.scsioffset
          BY <4>2
        <4> HIDE DEF q
        <4>4. ScbOK(r, b.card[t]) BY <3>1 DEF r
        <4>5. q.flags \subseteq {"AUTO_NEGOTIATE", "ABORT", "SENSE"}
              /\ "ABORT" \in q.flags
              /\ ("AUTO_NEGOTIATE" \in r.flags => "AUTO_NEGOTIATE" \in q.flags)
          BY <4>3, <4>4 DEF ScbOK
        <4>6. ScbOK(q, b.card[t]) BY <4>3, <4>4, <4>5, Zenon DEF ScbOK
        <4> QED BY <2>3, <4>1, <4>5, <4>6
      <3> QED BY <3>2, <3>3
    <2>6. AhcScbs(h)
      <3>1. DOMAIN h.scb = Scbs /\ DOMAIN h.card = Scbs
        BY <2>2, <2>3, <2>4 DEF AhcScbs
      <3> QED BY <2>5, <3>1 DEF AhcScbs
    <2>7. AhcSignals(h) BY <2>3, Zenon DEF AhcSignals
    <2> HIDE DEF s
    <2>8. Steady(b, h) BY <1>6, <2>3, <2>6, <2>7, ScbsSteady DEF Steady
    <2>9. AhcAtn(h) BY <2>1, <2>8, Zenon DEF AhcAtn, Steady, SameSession
    <2>10. AhcOpen(h)
      <3>1. h.scbptr \in Scbs /\ "ABORT" \in h.scb[h.scbptr].flags
        BY <2>1, <2>5, <2>8 DEF s, Steady, SameSession
      <3> QED BY <2>1, <2>3, <2>8, <3>1, Zenon DEF AhcOpen, Steady, SameSession
    <2> QED BY <2>8, <2>9, <2>10 DEF AhcOK, Steady, h
  <1>8. CASE a.nexus = "not identified"
    <2> DEFINE c == Put(Emptied(b), <<"ABORT_TASK">>)
    <2>1. Steady(b, c) /\ c.msgout_len = 1 BY <1>6, OneByte DEF Steady
    <2>2. h = [c EXCEPT !.msgout_index = 0, !.msg_type = "INITIATOR_MSGOUT"]
      BY <1>4, <1>8
    <2>3. c.ATN = TRUE /\ c.MSG_OUT = "HOST_MSG"
      BY <1>2 DEF Put, Emptied, AhcFields
    <2> HIDE DEF c
    <2>4. DOMAIN c = AhcFields /\ Sound(c) /\ ~c.loop /\ c.nexus = "not identified"
      BY <1>6, <1>8, <2>1 DEF Steady, Sound, SameSession
    <2>5. /\ DOMAIN h = AhcFields
          /\ h.curr = c.curr /\ h.goal = c.goal /\ h.auto_negotiate = c.auto_negotiate
          /\ h.scb = c.scb /\ h.card = c.card
          /\ h.msgout_buf = c.msgout_buf /\ h.msgout_len = c.msgout_len
          /\ h.msgout_index = 0
          /\ h.ATN = c.ATN /\ h.MSG_OUT = c.MSG_OUT
          /\ h.msg_type = "INITIATOR_MSGOUT"
          /\ h.loop = c.loop /\ h.nexus = c.nexus /\ h.scbptr = c.scbptr
          /\ h.msgin_index = c.msgin_index /\ h.send_msg_perror = c.send_msg_perror
          /\ h.RETURN_1 = c.RETURN_1 /\ h.panic = c.panic
      BY <2>2, <2>4 DEF AhcFields
    <2>6. h.ATN = TRUE /\ h.MSG_OUT = "HOST_MSG" BY <2>3, <2>5
    <2> QED BY <2>1, <2>4, <2>5, <2>6, Announced DEF h
  <1> QED BY <1>7, <1>8

-----------------------------------------------------------------------------
(* The actions of the aic7xxx.                                               *)

\* The SCBs, the connection and the signals, but not the session or its buffer.
LEMMA ConnectionSound ==
  ASSUME NEW a, Sound(a), NEW b, DOMAIN b = AhcFields, AhcScbs(b), AhcSignals(b),
         b.curr = a.curr, b.goal = a.goal, b.auto_negotiate = a.auto_negotiate,
         b.msgout_buf = a.msgout_buf, b.msgout_len = a.msgout_len,
         b.msgout_index = a.msgout_index, b.loop = a.loop,
         b.nexus \in {"free", "identified", "not identified"},
         b.scbptr \in Scbs \cup {None}, b.nexus = "identified" => b.scbptr \in Scbs,
         b.msg_type = a.msg_type, b.msgin_index = a.msgin_index,
         b.send_msg_perror = a.send_msg_perror,
         b.RETURN_1 = a.RETURN_1, b.panic = a.panic
  PROVE  Sound(b)
  <1>1. AhcSettings(b) /\ AhcBuffer(b) BY Zenon DEF Sound, AhcSettings, AhcBuffer
  <1>2. AhcSession(b)
    <2>1. AhcSession(a) BY DEF Sound
    <2> QED BY <2>1, Zenon DEF AhcSession
  <1> QED BY <1>1, <1>2 DEF Sound

\* The bus goes free after a connection without a message of ours.
LEMMA FreeOK ==
  ASSUME NEW a, Sound(a), ~a.loop, a.msg_type = "NONE", a.MSG_OUT = "NOP", ~a.ATN
  PROVE  AhcOK(Free(a))
  <1> DEFINE b == Free(a)
  <1>1. DOMAIN a = AhcFields /\ AhcScbs(a) /\ AhcSignals(a) BY DEF Sound
  <1>2. /\ DOMAIN b = AhcFields
        /\ b.curr = a.curr /\ b.goal = a.goal /\ b.auto_negotiate = a.auto_negotiate
        /\ b.scb = a.scb /\ b.card = a.card
        /\ b.ATN = a.ATN /\ b.MSG_OUT = a.MSG_OUT
        /\ b.msgout_buf = a.msgout_buf /\ b.msgout_len = a.msgout_len
        /\ b.msgout_index = a.msgout_index
        /\ b.loop = a.loop /\ b.nexus = "free" /\ b.scbptr = None
        /\ b.msg_type = a.msg_type /\ b.msgin_index = a.msgin_index
        /\ b.send_msg_perror = a.send_msg_perror
        /\ b.RETURN_1 = a.RETURN_1 /\ b.panic = a.panic
    BY <1>1 DEF Free, AhcFields
  <1> HIDE DEF b
  <1>3. AhcScbs(b) /\ AhcSignals(b) BY <1>1, <1>2, Zenon DEF AhcScbs, AhcSignals
  <1>4. /\ b.nexus \in {"free", "identified", "not identified"}
        /\ b.nexus = "identified" => b.scbptr \in Scbs
        /\ b.scbptr \in Scbs \cup {None}
    BY <1>2, Zenon
  <1>5. Sound(b) BY <1>2, <1>3, <1>4, ConnectionSound
  <1>6. AhcAtn(b) /\ AhcOpen(b) BY <1>2, Zenon DEF AhcAtn, AhcOpen
  <1> QED BY <1>5, <1>6 DEF AhcOK, b

\* An SCB whose place or tag changes.
LEMMA MovedScbOK ==
  ASSUME NEW r, NEW c, ScbOK(r, c), NEW q,
         DOMAIN q = DOMAIN r, q.flags = r.flags, q.MK_MESSAGE = r.MK_MESSAGE,
         q.tagged \in {r.tagged, TRUE}, q.scsioffset = r.scsioffset,
         q.where \in {"queued", "connected", "disconnected"},
         r.where \in {"connected", "disconnected"} => q.where # "queued"
  PROVE  ScbOK(q, c)
  <1>1. q.tagged \in BOOLEAN BY Zenon DEF ScbOK
  <1> QED BY <1>1, Zenon DEF ScbOK

LEMMA ChannelResetOK ==
  ASSUME NEW a, Sound(a) PROVE AhcOK(ChannelReset(a))
  <1>1. Sound(Freed(a, Scbs)) BY FreedSteady DEF Steady
  <1>2. Sound(ToAsync(Freed(a, Scbs))) BY <1>1, ToAsyncSteady DEF Steady
  <1> QED BY <1>2, AhcRestarted DEF ChannelReset

LEMMA AhcViolated ==
  ASSUME AhcOK(ahc), ahc.panic = "none", ~ahc.loop, ahc.nexus # "free"
  PROVE  AhcOK(HandleProtoViolation(ahc, FALSE))
  <1>1. Sound(ahc) /\ AhcOpen(ahc) BY DEF AhcOK
  <1>2. ahc.nexus = "identified" \/ ahc.nexus = "not identified"
    BY <1>1, Zenon DEF Sound, AhcSession
  <1>3. ahc.nexus = "identified" => ahc.msg_type = "NONE"
    BY <1>1, Zenon DEF AhcOpen
  <1> QED BY <1>1, <1>2, <1>3, HandleProtoViolationOK

LEMMA AhcErrorSteps ==
  ASSUME AhcOK(ahc), ahc.panic = "none",
         \/ BusFree \/ ResetChannel \/ ParityError \/ PuntMessage
         \/ Violation \/ ReselectUnknown
  PROVE  AhcOK(ahc')
  <1>1. Sound(ahc) /\ AhcAtn(ahc) /\ AhcOpen(ahc) BY DEF AhcOK
  <1>2. DOMAIN ahc = AhcFields BY <1>1 DEF Sound
  <1>3. CASE BusFree
    <2>1. ahc' = Restart(HandleBusfree(ahc)) BY <1>3 DEF BusFree
    <2>2. Sound(HandleBusfree(ahc)) BY <1>1, HandleBusfreeSteady DEF Steady
    <2> QED BY <2>1, <2>2, AhcRestarted
  <1>4. CASE ResetChannel
    <2>1. ahc' = ChannelReset(ahc) BY <1>4 DEF ResetChannel
    <2> QED BY <1>1, <2>1, ChannelResetOK
  <1>5. CASE ParityError
    <2> DEFINE a == [ahc EXCEPT !.ATN = TRUE]
               b == UpdateNegRequest(a, "IF_NON_ASYNC")
    <2>1. /\ DOMAIN a = AhcFields
          /\ a.curr = ahc.curr /\ a.goal = ahc.goal
          /\ a.auto_negotiate = ahc.auto_negotiate
          /\ a.scb = ahc.scb /\ a.card = ahc.card /\ a.msgout_buf = ahc.msgout_buf
          /\ a.msgout_len = ahc.msgout_len /\ a.msgout_index = ahc.msgout_index
          /\ SameSession(ahc, a) /\ a.panic = ahc.panic
          /\ a.ATN = TRUE /\ a.MSG_OUT = ahc.MSG_OUT
      BY <1>2 DEF SameSession, AhcFields
    <2>2. b.ATN = a.ATN /\ b.MSG_OUT = a.MSG_OUT
      BY <2>1 DEF UpdateNegRequest, AhcFields
    <2>3. /\ ahc.nexus # "free"
          /\ \/ b.msg_type # "NONE" /\ ahc' = [b EXCEPT !.send_msg_perror = TRUE]
             \/ b.msg_type = "NONE" /\ ahc' = [b EXCEPT !.MSG_OUT = "PARITY_ERROR"]
      BY <1>5 DEF ParityError
    <2> HIDE DEF a, b
    <2>4. AhcSignals(a) BY <1>1, <2>1, Zenon DEF Sound, AhcSignals
    <2>5. Steady(ahc, a) BY <1>1, <2>1, <2>4, SignalsSound
    <2>6. Steady(ahc, b) BY <2>5, UpdateNegRequestSteady, SteadyTwice DEF Steady, b
    <2>7. DOMAIN b = AhcFields /\ Sound(b) /\ b.ATN = TRUE
      BY <2>1, <2>2, <2>6 DEF Steady, Sound
    <2>8. /\ DOMAIN ahc' = AhcFields
          /\ ahc'.curr = b.curr /\ ahc'.goal = b.goal
          /\ ahc'.auto_negotiate = b.auto_negotiate
          /\ ahc'.scb = b.scb /\ ahc'.card = b.card /\ ahc'.ATN = b.ATN
          /\ ahc'.msgout_buf = b.msgout_buf /\ ahc'.msgout_len = b.msgout_len
          /\ ahc'.msgout_index = b.msgout_index
          /\ ahc'.loop = b.loop /\ ahc'.nexus = b.nexus /\ ahc'.scbptr = b.scbptr
          /\ ahc'.msg_type = b.msg_type /\ ahc'.msgin_index = b.msgin_index
          /\ ahc'.RETURN_1 = b.RETURN_1 /\ ahc'.panic = b.panic
      BY <2>3, <2>7 DEF AhcFields
    <2>9. \/ /\ b.msg_type # "NONE"
             /\ ahc'.send_msg_perror = TRUE /\ ahc'.MSG_OUT = b.MSG_OUT
          \/ /\ b.msg_type = "NONE"
             /\ ahc'.send_msg_perror = b.send_msg_perror
             /\ ahc'.MSG_OUT = "PARITY_ERROR"
      BY <2>3, <2>7 DEF AhcFields
    <2>10. AhcBuffer(ahc') BY <2>7, <2>8, Zenon DEF Sound, AhcBuffer
    <2>11. AhcSignals(ahc') BY <2>7, <2>8, <2>9, Zenon DEF Sound, AhcSignals
    <2>12. AhcSession(ahc')
      <3>1. AhcSession(b) BY <2>7 DEF Sound
      <3>2. ahc'.send_msg_perror \in BOOLEAN BY <2>9, <3>1, Zenon DEF AhcSession
      <3> QED BY <2>8, <3>1, <3>2, Zenon DEF AhcSession
    <2>13. Sound(ahc') BY <2>7, <2>8, <2>10, <2>11, <2>12, SessionSound
    <2>14. AhcAtn(ahc') BY <2>7, <2>8, <2>9, Zenon DEF AhcAtn
    <2>15. AhcOpen(ahc')
      <3>1. b.loop = ahc.loop /\ b.nexus = ahc.nexus /\ b.msg_type = ahc.msg_type
        BY <2>6 DEF Steady, SameSession
      <3> QED BY <1>1, <2>3, <2>7, <2>8, <2>9, <3>1, Zenon DEF AhcOpen
    <2> QED BY <2>13, <2>14, <2>15 DEF AhcOK
  <1>6. CASE Violation
    <2>1. /\ ahc' = HandleProtoViolation(ahc, FALSE)
          /\ ~ahc.loop /\ ahc.nexus # "free"
      BY <1>6, Zenon DEF Violation, Mesgin, Offers
    <2> QED BY <2>1, AhcViolated
  <1>7. CASE ReselectUnknown
    <2>1. PICK s \in Scbs \cup {None} :
             LET b == [ahc EXCEPT !.nexus = "not identified", !.scbptr = s]
             IN ahc' = NoMatch(b) \/ ahc' = b
      BY <1>7 DEF ReselectUnknown
    <2> DEFINE b == [ahc EXCEPT !.nexus = "not identified", !.scbptr = s]
    <2>2. ahc' = NoMatch(b) \/ ahc' = b BY <2>1
    <2>3. ahc.nexus = "free" BY <1>7 DEF ReselectUnknown
    <2>4. /\ DOMAIN b = AhcFields
          /\ b.curr = ahc.curr /\ b.goal = ahc.goal
          /\ b.auto_negotiate = ahc.auto_negotiate
          /\ b.scb = ahc.scb /\ b.card = ahc.card
          /\ b.ATN = ahc.ATN /\ b.MSG_OUT = ahc.MSG_OUT
          /\ b.msgout_buf = ahc.msgout_buf /\ b.msgout_len = ahc.msgout_len
          /\ b.msgout_index = ahc.msgout_index
          /\ b.loop = ahc.loop /\ b.nexus = "not identified" /\ b.scbptr = s
          /\ b.msg_type = ahc.msg_type /\ b.msgin_index = ahc.msgin_index
          /\ b.send_msg_perror = ahc.send_msg_perror
          /\ b.RETURN_1 = ahc.RETURN_1 /\ b.panic = ahc.panic
      BY <1>2 DEF AhcFields
    <2> HIDE DEF b
    <2>5. AhcScbs(b) /\ AhcSignals(b)
      BY <1>1, <2>4, Zenon DEF Sound, AhcScbs, AhcSignals
    <2>6. /\ b.nexus \in {"free", "identified", "not identified"}
          /\ b.nexus = "identified" => b.scbptr \in Scbs
          /\ b.scbptr \in Scbs \cup {None}
      BY <2>4, Zenon
    <2>7. Sound(b) BY <1>1, <2>4, <2>5, <2>6, ConnectionSound
    <2>8. ~b.loop BY <1>1, <2>3, <2>4, Zenon DEF AhcOpen
    <2>9. /\ ~b.ATN /\ b.MSG_OUT = "NOP" /\ b.msg_type = "NONE" /\ ~b.loop
          /\ b.nexus = "not identified"
      BY <1>1, <2>3, <2>4, Zenon DEF AhcOpen
    <2>10. AhcAtn(b) /\ AhcOpen(b) BY <2>9, Zenon DEF AhcAtn, AhcOpen
    <2>11. AhcOK(b) BY <2>7, <2>10 DEF AhcOK
    <2> QED BY <2>2, <2>4, <2>7, <2>8, <2>11, NoMatchOK
  <1>8. CASE PuntMessage
    <2>1. ahc' = Restart(ahc) BY <1>8 DEF PuntMessage
    <2> QED BY <1>1, <2>1, AhcRestarted
  <1> QED BY <1>3, <1>4, <1>5, <1>6, <1>7, <1>8

\* What the sequencer does by itself.
LEMMA AhcSequencerSteps ==
  ASSUME AhcOK(ahc), ahc.panic = "none",
         \/ Mesgout \/ MesginNop \/ Disconnect \/ CommandComplete
         \/ CheckCondition \/ OtherPhase
  PROVE  AhcOK(ahc')
  <1>1. Sound(ahc) /\ AhcAtn(ahc) /\ AhcOpen(ahc) BY DEF AhcOK
  <1>2. DOMAIN ahc = AhcFields /\ AhcScbs(ahc) /\ AhcSignals(ahc)
    BY <1>1 DEF Sound
  <1>3. CASE Mesgout
    <2>1. ahc' = [ahc EXCEPT !.ATN = FALSE, !.MSG_OUT = "NOP"] /\ ~ahc.loop
      BY <1>3 DEF Mesgout
    <2>2. /\ DOMAIN ahc' = AhcFields
          /\ ahc'.curr = ahc.curr /\ ahc'.goal = ahc.goal
          /\ ahc'.auto_negotiate = ahc.auto_negotiate
          /\ ahc'.scb = ahc.scb /\ ahc'.card = ahc.card
          /\ ahc'.msgout_buf = ahc.msgout_buf
          /\ ahc'.msgout_len = ahc.msgout_len /\ ahc'.msgout_index = ahc.msgout_index
          /\ SameSession(ahc, ahc') /\ ahc'.panic = ahc.panic
          /\ ahc'.ATN = FALSE /\ ahc'.MSG_OUT = "NOP"
      BY <1>2, <2>1 DEF SameSession, AhcFields
    <2>3. AhcSignals(ahc') BY <2>2, Zenon DEF AhcSignals
    <2>4. Sound(ahc') BY <1>1, <2>2, <2>3, SignalsSound DEF Steady
    <2>5. ahc.msg_type # "INITIATOR_MSGIN" BY <1>1, <2>1, Zenon DEF AhcOpen
    <2>6. AhcAtn(ahc') BY <2>2, <2>5, Zenon DEF AhcAtn, SameSession
    <2>7. AhcOpen(ahc') BY <1>1, <2>1, <2>2, Zenon DEF AhcOpen, SameSession
    <2> QED BY <2>4, <2>6, <2>7 DEF AhcOK
  <1>4. CASE MesginNop
    <2>1. ahc' = ahc BY <1>4 DEF MesginNop
    <2> QED BY <2>1
  <1>5. ASSUME Disconnect \/ CommandComplete \/ CheckCondition
        PROVE  /\ ahc.nexus = "identified" /\ ahc.scbptr \in Scbs
               /\ ~ahc.loop /\ ~ahc.ATN
               /\ ahc.msg_type = "NONE" /\ ahc.MSG_OUT = "NOP"
    <2>1. ahc.nexus = "identified" /\ ~ahc.loop /\ ~ahc.ATN
      BY <1>5, Zenon DEF Disconnect, CommandComplete, CheckCondition, Mesgin
    <2>2. ahc.scbptr \in Scbs BY <1>1, <2>1, Zenon DEF Sound, AhcSession
    <2>3. ahc.msg_type = "NONE" /\ ahc.MSG_OUT = "NOP"
      BY <1>1, <2>1, Zenon DEF AhcOpen
    <2> QED BY <2>1, <2>2, <2>3
  <1>6. CASE Disconnect
    <2> DEFINE s == ahc.scbptr
               b == [ahc EXCEPT !.scb[s].where = "disconnected"]
    <2>1. ahc' = Free(b) BY <1>6 DEF Disconnect
    <2>2. s \in Scbs BY <1>5, <1>6
    <2>3. /\ DOMAIN b = AhcFields
          /\ b.curr = ahc.curr /\ b.goal = ahc.goal
          /\ b.auto_negotiate = ahc.auto_negotiate
          /\ b.scb = [ahc.scb EXCEPT ![s].where = "disconnected"]
          /\ b.card = ahc.card
          /\ b.ATN = ahc.ATN /\ b.MSG_OUT = ahc.MSG_OUT
          /\ b.msgout_buf = ahc.msgout_buf /\ b.msgout_len = ahc.msgout_len
          /\ b.msgout_index = ahc.msgout_index
          /\ SameSession(ahc, b) /\ b.panic = ahc.panic
      BY <1>2 DEF SameSession, AhcFields
    <2> HIDE DEF b
    <2>4. ASSUME NEW t \in Scbs PROVE ScbOK(b.scb[t], b.card[t])
      <3>1. ScbOK(ahc.scb[t], ahc.card[t]) BY <1>2 DEF AhcScbs
      <3>2. CASE t # s
        <4>1. b.scb[t] = ahc.scb[t] BY <1>2, <2>3, <3>2 DEF AhcScbs
        <4> QED BY <2>3, <3>1, <4>1
      <3>3. CASE t = s
        <4> DEFINE r == ahc.scb[t]
                   q == [r EXCEPT !.where = "disconnected"]
        <4>1. b.scb[t] = q BY <1>2, <2>3, <3>3 DEF AhcScbs
        <4>2. DOMAIN r = {"where", "flags", "MK_MESSAGE", "tagged", "scsioffset"}
          BY <3>1 DEF ScbOK
        <4> HIDE DEF r
        <4>3. /\ DOMAIN q = DOMAIN r /\ q.where = "disconnected"
              /\ q.flags = r.flags /\ q.MK_MESSAGE = r.MK_MESSAGE
              /\ q.tagged = r.tagged /\ q.scsioffset = r.scsioffset
          BY <4>2
        <4> HIDE DEF q
        <4>4. ScbOK(q, ahc.card[t]) BY <3>1, <4>3, MovedScbOK DEF r
        <4> QED BY <2>3, <4>1, <4>4
      <3> QED BY <3>2, <3>3
    <2>5. AhcScbs(b)
      <3>1. DOMAIN b.scb = Scbs /\ DOMAIN b.card = Scbs
        BY <1>2, <2>3 DEF AhcScbs
      <3> QED BY <2>4, <3>1 DEF AhcScbs
    <2>6. AhcSignals(b) BY <1>2, <2>3, Zenon DEF AhcSignals
    <2>7. Sound(b) BY <1>1, <2>3, <2>5, <2>6, ScbsSteady DEF Steady
    <2>8. ~b.loop /\ b.msg_type = "NONE" /\ b.MSG_OUT = "NOP" /\ ~b.ATN
      BY <1>5, <1>6, <2>3, Zenon DEF SameSession
    <2> QED BY <2>1, <2>7, <2>8, FreeOK
  <1>7. CASE CommandComplete
    <2> DEFINE b == Freed(ahc, {ahc.scbptr})
    <2>1. ahc' = Free(b) BY <1>7 DEF CommandComplete
    <2>2. Steady(ahc, b) BY <1>1, FreedSteady
    <2>3. b.ATN = ahc.ATN /\ b.MSG_OUT = ahc.MSG_OUT
      BY <1>2 DEF Freed, AhcFields
    <2> HIDE DEF b
    <2>4. Sound(b) /\ ~b.loop /\ b.msg_type = "NONE" /\ b.MSG_OUT = "NOP" /\ ~b.ATN
      BY <1>5, <1>7, <2>2, <2>3, Zenon DEF Steady, SameSession
    <2> QED BY <2>1, <2>4, FreeOK
  <1>8. CASE CheckCondition
    <2> DEFINE s == ahc.scbptr
               b == UpdateNegRequest(ahc, "IF_NON_ASYNC")
               f == Free(b)
    <2>1. /\ s \in Scbs
          /\ ahc' = [f EXCEPT !.card[s] = NoSlot,
                              !.scb[s] = Sensing(@, b.auto_negotiate)]
      BY <1>5, <1>8 DEF CheckCondition
    <2>2. b.ATN = ahc.ATN /\ b.MSG_OUT = ahc.MSG_OUT
      BY <1>2 DEF UpdateNegRequest, AhcFields
    <2>3. Steady(ahc, b) BY <1>1, UpdateNegRequestSteady
    <2>4. f.scb = b.scb /\ f.card = b.card
      BY <2>3 DEF Free, Steady, Sound, AhcFields
    <2> HIDE DEF b
    <2>5. Sound(b) /\ ~b.loop /\ b.msg_type = "NONE" /\ b.MSG_OUT = "NOP" /\ ~b.ATN
      BY <1>5, <1>8, <2>2, <2>3, Zenon DEF Steady, SameSession
    <2>6. AhcOK(f) BY <2>5, FreeOK
    <2>7. /\ DOMAIN f = AhcFields /\ f.nexus = "free" /\ f.loop = b.loop
          /\ f.msg_type = b.msg_type /\ f.ATN = b.ATN /\ f.MSG_OUT = b.MSG_OUT
      BY <2>5 DEF Free, Sound, AhcFields
    <2> HIDE DEF f
    <2>8. Sound(f) /\ AhcScbs(f) BY <2>6 DEF AhcOK, Sound
    <2>9. b.auto_negotiate \in BOOLEAN BY <2>5 DEF Sound, AhcSettings
    <2> DEFINE r == f.scb[s]
               need == IF b.auto_negotiate THEN {"AUTO_NEGOTIATE"} ELSE {}
               q == Sensing(r, b.auto_negotiate)
    <2>10. ScbOK(r, f.card[s]) BY <2>1, <2>8 DEF AhcScbs
    <2>11. /\ DOMAIN ahc' = AhcFields
           /\ ahc'.curr = f.curr /\ ahc'.goal = f.goal
           /\ ahc'.auto_negotiate = f.auto_negotiate
           /\ ahc'.ATN = f.ATN /\ ahc'.MSG_OUT = f.MSG_OUT
           /\ ahc'.msgout_buf = f.msgout_buf /\ ahc'.msgout_len = f.msgout_len
           /\ ahc'.msgout_index = f.msgout_index
           /\ SameSession(f, ahc') /\ ahc'.panic = f.panic
      BY <2>1, <2>7 DEF SameSession, AhcFields
    <2>12. /\ ahc'.scb = [f.scb EXCEPT ![s] = q]
           /\ ahc'.card = [f.card EXCEPT ![s] = NoSlot]
      BY <2>1, <2>7 DEF AhcFields
    <2>13. ScbOK(q, NoSlot)
      <3>1. DOMAIN r = {"where", "flags", "MK_MESSAGE", "tagged", "scsioffset"}
        BY <2>10 DEF ScbOK
      <3>2. b.auto_negotiate => "AUTO_NEGOTIATE" \in need OBVIOUS
      <3>3. need \subseteq {"AUTO_NEGOTIATE"} OBVIOUS
      <3> HIDE DEF r, need
      <3>4. /\ DOMAIN q = DOMAIN r /\ q.where = "queued" /\ q.tagged = FALSE
            /\ q.flags = r.flags \cup {"SENSE"} \cup need
            /\ q.MK_MESSAGE = b.auto_negotiate
            /\ q.scsioffset = r.scsioffset
        BY <3>1 DEF Sensing, need
      <3>5. /\ DOMAIN NoSlot = {"MK_MESSAGE", "scsioffset"}
            /\ NoSlot.MK_MESSAGE = FALSE /\ NoSlot.scsioffset = 0
        BY DEF NoSlot
      <3> HIDE DEF q
      <3>6. /\ q.flags \subseteq {"AUTO_NEGOTIATE", "ABORT", "SENSE"}
            /\ need \subseteq q.flags
        BY <2>10, <3>3, <3>4 DEF ScbOK, r
      <3>7. q.MK_MESSAGE => "AUTO_NEGOTIATE" \in q.flags BY <3>2, <3>4, <3>6
      <3>8. q.scsioffset \in {0, UNKNOWN} /\ NoSlot.scsioffset \in {0, UNKNOWN}
        BY <2>10, <3>4, <3>5 DEF ScbOK, r
      <3> QED BY <2>9, <3>1, <3>4, <3>5, <3>6, <3>7, <3>8, Zenon DEF ScbOK
    <2> HIDE DEF q, r, need
    <2>14. AhcScbs(ahc')
      <3>1. DOMAIN ahc'.scb = Scbs /\ DOMAIN ahc'.card = Scbs
        BY <2>8, <2>12 DEF AhcScbs
      <3>2. ASSUME NEW t \in Scbs PROVE ScbOK(ahc'.scb[t], ahc'.card[t])
        <4>1. ScbOK(f.scb[t], f.card[t]) BY <2>8 DEF AhcScbs
        <4>2. CASE t = s
          <5>1. ahc'.scb[t] = q /\ ahc'.card[t] = NoSlot
            BY <2>8, <2>12, <4>2 DEF AhcScbs
          <5> QED BY <2>13, <5>1
        <4>3. CASE t # s
          <5>1. ahc'.scb[t] = f.scb[t] /\ ahc'.card[t] = f.card[t]
            BY <2>8, <2>12, <4>3 DEF AhcScbs
          <5> QED BY <4>1, <5>1
        <4> QED BY <4>2, <4>3
      <3> QED BY <3>1, <3>2 DEF AhcScbs
    <2>15. AhcSignals(ahc') BY <2>8, <2>11, Zenon DEF Sound, AhcSignals
    <2>16. Sound(ahc') BY <2>8, <2>11, <2>14, <2>15, ScbsSteady DEF Steady
    <2>17. /\ ahc'.nexus = "free" /\ ~ahc'.loop /\ ahc'.msg_type = "NONE"
           /\ ahc'.ATN = FALSE /\ ahc'.MSG_OUT = "NOP"
      <3>1. ahc'.ATN \in BOOLEAN BY <2>15 DEF AhcSignals
      <3>2. ~ahc'.ATN /\ ahc'.nexus = "free" /\ ~ahc'.loop
            /\ ahc'.msg_type = "NONE" /\ ahc'.MSG_OUT = "NOP"
        BY <2>5, <2>7, <2>11, Zenon DEF SameSession
      <3> QED BY <3>1, <3>2
    <2>18. AhcAtn(ahc') /\ AhcOpen(ahc') BY <2>17, Zenon DEF AhcAtn, AhcOpen
    <2> QED BY <2>16, <2>18 DEF AhcOK
  <1>9. CASE OtherPhase
    <2>1. ~ahc.loop /\ ahc.nexus # "free"
      BY <1>9, Zenon DEF OtherPhase, Offers
    <2>2. CASE ahc' = ahc BY <2>2
    <2>3. ASSUME NEW data \in BOOLEAN, ahc' = HandleProtoViolation(ahc, data)
          PROVE  AhcOK(ahc')
      <3>1. CASE data
        <4>1. ahc' = ChannelReset(ahc) BY <2>3, <3>1 DEF HandleProtoViolation
        <4> QED BY <1>1, <4>1, ChannelResetOK
      <3>2. CASE ~data
        <4>1. ahc' = HandleProtoViolation(ahc, FALSE)
          BY <2>3, <3>2 DEF HandleProtoViolation
        <4> QED BY <2>1, <4>1, AhcViolated
      <3> QED BY <3>1, <3>2
    <2>4. \/ ahc' = ahc
          \/ \E data \in BOOLEAN : ahc' = HandleProtoViolation(ahc, data)
      BY <1>9, Zenon DEF OtherPhase
    <2> QED BY <2>2, <2>3, <2>4, Zenon
  <1> QED BY <1>3, <1>4, <1>6, <1>7, <1>8, <1>9

\* A connection with an SCB, which is then the one at SCBPTR.
ConnectsScb(a, b, s) ==
    /\ DOMAIN b.scb = Scbs /\ DOMAIN b.card = Scbs
    /\ \A t \in Scbs : t # s => b.scb[t] = a.scb[t] /\ b.card[t] = a.card[t]
    /\ ScbOK(b.scb[s], b.card[s])
    /\ b.MSG_OUT = "HOST_MSG" => "AUTO_NEGOTIATE" \in b.scb[s].flags

Connects(a, b, s) ==
    /\ DOMAIN b = AhcFields
    /\ b.curr = a.curr /\ b.goal = a.goal /\ b.auto_negotiate = a.auto_negotiate
    /\ b.msgout_buf = a.msgout_buf /\ b.msgout_len = a.msgout_len
    /\ b.msgout_index = a.msgout_index /\ b.loop = a.loop
    /\ b.nexus = "identified" /\ b.scbptr = s
    /\ b.msg_type = a.msg_type /\ b.msgin_index = a.msgin_index
    /\ b.send_msg_perror = a.send_msg_perror
    /\ b.RETURN_1 = a.RETURN_1 /\ b.panic = a.panic
    /\ AhcSignals(b) /\ (b.MSG_OUT # "NOP" => b.ATN)

LEMMA AhcIdentified ==
  ASSUME NEW a, Sound(a), ~a.loop, a.msg_type = "NONE",
         NEW s \in Scbs, NEW b, ConnectsScb(a, b, s), Connects(a, b, s)
  PROVE  AhcOK(b)
  <1>1. AhcScbs(b)
    <2>1. ASSUME NEW t \in Scbs PROVE ScbOK(b.scb[t], b.card[t])
      <3>1. CASE t = s BY <3>1, Zenon DEF ConnectsScb
      <3>2. CASE t # s BY <3>2, Zenon DEF Sound, AhcScbs, ConnectsScb
      <3> QED BY <3>1, <3>2
    <2> QED BY <2>1, Zenon DEF AhcScbs, ConnectsScb
  <1>2. /\ b.nexus \in {"free", "identified", "not identified"}
        /\ b.nexus = "identified" => b.scbptr \in Scbs
        /\ b.scbptr \in Scbs \cup {None}
    BY Zenon DEF Connects
  <1>3. Sound(b) BY <1>1, <1>2, ConnectionSound DEF Connects
  <1>4. AhcAtn(b) /\ AhcOpen(b)
    BY Zenon DEF AhcAtn, AhcOpen, Connects, ConnectsScb
  <1> QED BY <1>3, <1>4 DEF AhcOK

LEMMA AhcConnectionSteps ==
  ASSUME AhcOK(ahc), ahc.panic = "none",
         NEW s \in Scbs, StartIo(s) \/ Select(s) \/ Reselect(s)
  PROVE  AhcOK(ahc')
  <1> DEFINE r == ahc.scb[s]
             c == ahc.card[s]
             i == Identified(ahc, s)
  <1>1. Sound(ahc) /\ AhcAtn(ahc) /\ AhcOpen(ahc) BY DEF AhcOK
  <1>2. DOMAIN ahc = AhcFields /\ AhcScbs(ahc) /\ AhcSignals(ahc)
    BY <1>1 DEF Sound
  <1>3. ScbOK(r, c) BY <1>2 DEF AhcScbs
  <1>4. DOMAIN r = {"where", "flags", "MK_MESSAGE", "tagged", "scsioffset"}
    BY <1>3 DEF ScbOK
  <1>5. ASSUME NEW place \in {"queued", "connected"}, NEW tagged \in {r.tagged, TRUE},
               r.where \in {"connected", "disconnected"} => place # "queued"
        PROVE  LET q == [r EXCEPT !.where = place, !.tagged = tagged]
               IN  ScbOK(q, c) /\ q.flags = r.flags /\ q.MK_MESSAGE = r.MK_MESSAGE
                   /\ q.where = place /\ q.scsioffset = r.scsioffset
    <2> DEFINE q == [r EXCEPT !.where = place, !.tagged = tagged]
    <2> HIDE DEF r
    <2>1. /\ DOMAIN q = DOMAIN r /\ q.where = place /\ q.flags = r.flags
          /\ q.MK_MESSAGE = r.MK_MESSAGE /\ q.tagged = tagged
          /\ q.scsioffset = r.scsioffset
      BY <1>4
    <2> HIDE DEF q
    <2>2. q.where \in {"queued", "connected", "disconnected"} BY <2>1, Zenon
    <2>3. q.tagged \in {r.tagged, TRUE} BY <2>1, Zenon
    <2>4. r.where \in {"connected", "disconnected"} => q.where # "queued"
      BY <1>5, <2>1, Zenon
    <2>5. ScbOK(q, c) BY <1>3, <2>1, <2>2, <2>3, <2>4, MovedScbOK DEF r
    <2> QED BY <2>1, <2>5 DEF q
  <1>6. [r EXCEPT !.where = "connected"] = [r EXCEPT !.where = "connected", !.tagged = r.tagged]
    <2> HIDE DEF r
    <2> QED BY <1>4
  <1>7. CASE StartIo(s)
    <2> DEFINE q == [r EXCEPT !.where = "queued", !.tagged = TRUE]
    <2>1. /\ r.where = "free"
          /\ ahc' = [ahc EXCEPT !.scb[s].where = "queued", !.scb[s].tagged = TRUE]
      BY <1>7 DEF StartIo
    <2>2. /\ DOMAIN ahc' = AhcFields
          /\ ahc'.curr = ahc.curr /\ ahc'.goal = ahc.goal
          /\ ahc'.auto_negotiate = ahc.auto_negotiate
          /\ ahc'.card = ahc.card
          /\ ahc'.ATN = ahc.ATN /\ ahc'.MSG_OUT = ahc.MSG_OUT
          /\ ahc'.msgout_buf = ahc.msgout_buf /\ ahc'.msgout_len = ahc.msgout_len
          /\ ahc'.msgout_index = ahc.msgout_index
          /\ SameSession(ahc, ahc') /\ ahc'.panic = ahc.panic
      BY <1>2, <2>1 DEF SameSession, AhcFields
    <2>3. /\ DOMAIN ahc'.scb = Scbs
          /\ ahc'.scb[s] = q
          /\ \A t \in Scbs : t # s => ahc'.scb[t] = ahc.scb[t]
      BY <1>2, <2>1 DEF AhcFields, AhcScbs
    <2>4. ScbOK(q, c) /\ q.flags = r.flags
      <3>1. r.where \in {"connected", "disconnected"} => "queued" # "queued"
        BY <2>1
      <3> QED BY <1>5, <3>1
    <2> HIDE DEF q
    <2>5. AhcScbs(ahc')
      <3>1. ASSUME NEW t \in Scbs PROVE ScbOK(ahc'.scb[t], ahc'.card[t])
        <4>1. CASE t = s BY <2>2, <2>3, <2>4, <4>1, Zenon
        <4>2. CASE t # s BY <1>2, <2>2, <2>3, <4>2, Zenon DEF AhcScbs
        <4> QED BY <4>1, <4>2
      <3> QED BY <1>2, <2>2, <2>3, <3>1, Zenon DEF AhcScbs
    <2>6. AhcSignals(ahc') BY <1>2, <2>2, Zenon DEF AhcSignals
    <2>7. Sound(ahc') BY <1>1, <2>2, <2>5, <2>6, ScbsSteady DEF Steady
    <2>8. \A t \in Scbs : ahc'.scb[t].flags = ahc.scb[t].flags
      BY <2>3, <2>4, Zenon
    <2>9. AhcAtn(ahc') BY <1>1, <2>2, Zenon DEF AhcAtn, SameSession
    <2>10. ahc.nexus = "identified" => ahc.scbptr \in Scbs
      BY <1>1, Zenon DEF Sound, AhcSession
    <2>11. AhcOpen(ahc') BY <1>1, <2>2, <2>8, <2>10, Zenon DEF AhcOpen, SameSession
    <2> QED BY <2>7, <2>9, <2>11 DEF AhcOK
  <1>8. ASSUME Select(s) \/ Reselect(s)
        PROVE  /\ ~ahc.loop /\ ahc.msg_type = "NONE"
               /\ ahc.MSG_OUT = "NOP" /\ ~ahc.ATN
    <2>1. ahc.nexus = "free" BY <1>8, Zenon DEF Select, Reselect
    <2> QED BY <1>1, <2>1 DEF AhcOpen
  <1>9. /\ DOMAIN i = AhcFields
        /\ i.curr = ahc.curr /\ i.goal = ahc.goal
        /\ i.auto_negotiate = ahc.auto_negotiate
        /\ i.card = ahc.card
        /\ i.ATN = ahc.ATN /\ i.MSG_OUT = ahc.MSG_OUT
        /\ i.msgout_buf = ahc.msgout_buf /\ i.msgout_len = ahc.msgout_len
        /\ i.msgout_index = ahc.msgout_index
        /\ i.loop = ahc.loop /\ i.nexus = "identified" /\ i.scbptr = s
        /\ i.msg_type = ahc.msg_type /\ i.msgin_index = ahc.msgin_index
        /\ i.send_msg_perror = ahc.send_msg_perror
        /\ i.RETURN_1 = ahc.RETURN_1 /\ i.panic = ahc.panic
    BY <1>2 DEF Identified, AhcFields
  <1>10. /\ DOMAIN i.scb = Scbs
         /\ i.scb[s] = [r EXCEPT !.where = "connected"]
         /\ \A t \in Scbs : t # s => i.scb[t] = ahc.scb[t]
    BY <1>2 DEF Identified, AhcFields, AhcScbs
  <1> DEFINE q == [r EXCEPT !.where = "connected"]
  <1>11. /\ ScbOK(q, c) /\ q.flags = r.flags /\ q.MK_MESSAGE = r.MK_MESSAGE
         /\ q.where = "connected" /\ q.scsioffset = r.scsioffset
    <2>1. "connected" # "queued" OBVIOUS
    <2> QED BY <1>5, <1>6, <2>1, Zenon
  <1> HIDE DEF i, q
  <1>12. i.scb[s] = q BY <1>10 DEF q
  <1>13. CASE Select(s)
    <2> DEFINE slot == [MK_MESSAGE |-> r.MK_MESSAGE, scsioffset |-> r.scsioffset]
    <2>1. /\ ahc' = [i EXCEPT !.card[s] = slot, !.ATN = TRUE, !.MSG_OUT = "IDENTIFY"]
          /\ ahc.nexus = "free"
      BY <1>13 DEF Select, i
    <2>2. /\ DOMAIN ahc' = AhcFields
          /\ ahc'.curr = i.curr /\ ahc'.goal = i.goal
          /\ ahc'.auto_negotiate = i.auto_negotiate /\ ahc'.scb = i.scb
          /\ ahc'.ATN = TRUE /\ ahc'.MSG_OUT = "IDENTIFY"
          /\ ahc'.msgout_buf = i.msgout_buf /\ ahc'.msgout_len = i.msgout_len
          /\ ahc'.msgout_index = i.msgout_index
          /\ ahc'.loop = i.loop /\ ahc'.nexus = i.nexus /\ ahc'.scbptr = i.scbptr
          /\ ahc'.msg_type = i.msg_type /\ ahc'.msgin_index = i.msgin_index
          /\ ahc'.send_msg_perror = i.send_msg_perror
          /\ ahc'.RETURN_1 = i.RETURN_1 /\ ahc'.panic = i.panic
      BY <1>9, <2>1 DEF AhcFields
    <2>3. ahc'.card = [ahc.card EXCEPT ![s] = slot] BY <1>9, <2>1 DEF AhcFields
    <2>4. /\ DOMAIN slot = {"MK_MESSAGE", "scsioffset"}
          /\ slot.MK_MESSAGE = r.MK_MESSAGE /\ slot.scsioffset = r.scsioffset
      OBVIOUS
    <2> HIDE DEF slot, r, c
    <2>5. /\ DOMAIN ahc'.card = Scbs /\ ahc'.card[s] = slot
          /\ \A t \in Scbs : t # s => ahc'.card[t] = ahc.card[t]
      BY <1>2, <2>3, Zenon DEF AhcScbs
    <2>6. ScbOK(q, slot)
      BY <1>11, <2>4, Zenon DEF ScbOK
    <2>7. AhcSignals(ahc') BY <2>2, Zenon DEF AhcSignals
    <2>8. ahc'.scb = i.scb /\ ahc'.MSG_OUT = "IDENTIFY" BY <2>2
    <2>9. ConnectsScb(ahc, ahc', s)
      BY <1>10, <1>12, <2>5, <2>6, <2>8, Zenon DEF ConnectsScb
    <2>10. Connects(ahc, ahc', s)
      BY <1>9, <2>2, <2>7, Zenon DEF Connects
    <2> QED BY <1>1, <1>8, <1>13, <2>9, <2>10, AhcIdentified
  <1>14. CASE Reselect(s)
    <2>1. /\ ahc' = IF c.MK_MESSAGE THEN [i EXCEPT !.ATN = TRUE, !.MSG_OUT = "HOST_MSG"]
                    ELSE i
          /\ ahc.nexus = "free"
      BY <1>14 DEF Reselect, i
    <2> HIDE DEF r, c
    <2>2. /\ DOMAIN ahc' = AhcFields
          /\ ahc'.curr = i.curr /\ ahc'.goal = i.goal
          /\ ahc'.auto_negotiate = i.auto_negotiate /\ ahc'.scb = i.scb
          /\ ahc'.card = i.card
          /\ ahc'.msgout_buf = i.msgout_buf /\ ahc'.msgout_len = i.msgout_len
          /\ ahc'.msgout_index = i.msgout_index
          /\ ahc'.loop = i.loop /\ ahc'.nexus = i.nexus /\ ahc'.scbptr = i.scbptr
          /\ ahc'.msg_type = i.msg_type /\ ahc'.msgin_index = i.msgin_index
          /\ ahc'.send_msg_perror = i.send_msg_perror
          /\ ahc'.RETURN_1 = i.RETURN_1 /\ ahc'.panic = i.panic
      BY <1>9, <2>1 DEF AhcFields
    <2>3. \/ /\ c.MK_MESSAGE /\ ahc'.ATN = TRUE /\ ahc'.MSG_OUT = "HOST_MSG"
          \/ /\ ~c.MK_MESSAGE /\ ahc'.ATN = i.ATN /\ ahc'.MSG_OUT = i.MSG_OUT
      BY <1>9, <2>1 DEF AhcFields
    <2>4. AhcSignals(ahc') BY <1>2, <1>9, <2>3, Zenon DEF AhcSignals
    <2>5. /\ DOMAIN ahc'.card = Scbs /\ ahc'.card[s] = c /\ ahc'.scb = i.scb
          /\ \A t \in Scbs : ahc'.card[t] = ahc.card[t]
      BY <1>2, <1>9, <2>2, Zenon DEF AhcScbs, c
    <2>6. c.MK_MESSAGE => "AUTO_NEGOTIATE" \in q.flags
      BY <1>3, <1>11, Zenon DEF ScbOK
    <2>7. ahc.MSG_OUT = "NOP" BY <1>8, <1>14
    <2>8. ahc'.MSG_OUT # "NOP" => ahc'.ATN BY <1>9, <2>3, <2>7, Zenon
    <2>9. ahc'.MSG_OUT = "HOST_MSG" => "AUTO_NEGOTIATE" \in q.flags
      BY <1>9, <2>3, <2>6, <2>7, Zenon
    <2>10. ConnectsScb(ahc, ahc', s)
      BY <1>10, <1>11, <1>12, <2>5, <2>9, Zenon DEF ConnectsScb
    <2>11. Connects(ahc, ahc', s)
      BY <1>9, <2>2, <2>4, <2>8, Zenon DEF Connects
    <2> QED BY <1>1, <1>8, <1>14, <2>10, <2>11, AhcIdentified
  <1> QED BY <1>7, <1>13, <1>14

-----------------------------------------------------------------------------
LEMMA AhcInitially == Init => AhcOK(ahc)
  <1> SUFFICES ASSUME Init PROVE AhcOK(ahc) OBVIOUS
  <1>1. DOMAIN ahc = AhcFields BY DEF Init, AhcFields
  <1>2. /\ ahc.curr = Async /\ ahc.goal = Async /\ ahc.auto_negotiate = FALSE
        /\ ahc.scb = [s \in Scbs |-> NoScb]
        /\ ahc.card = [s \in Scbs |-> NoSlot]
        /\ ahc.scbptr = None /\ ahc.nexus = "free" /\ ahc.ATN = FALSE
        /\ ahc.loop = FALSE /\ ahc.MSG_OUT = "NOP" /\ ahc.msg_type = "NONE"
        /\ ahc.msgout_buf = [i \in 0 .. BufSize - 1 |-> "other"]
        /\ ahc.msgout_len = 0 /\ ahc.msgout_index = 0 /\ ahc.msgin_index = 0
        /\ ahc.send_msg_perror = FALSE /\ ahc.RETURN_1 = "CONT_MSG_LOOP"
        /\ ahc.panic = "none"
    BY DEF Init
  <1>3. Async \in Transfer BY DEF Async, Transfer
  <1>4. AhcSettings(ahc) BY <1>2, <1>3, Zenon DEF AhcSettings
  <1>5. ScbOK(NoScb, NoSlot) BY DEF ScbOK, NoScb, NoSlot
  <1>6. AhcScbs(ahc) BY <1>2, <1>5, Zenon DEF AhcScbs
  <1>7. AhcBuffer(ahc)
    <2>1. [i \in 0 .. 2 |-> "other"] \in [0 .. 2 -> Contents] BY DEF Contents
    <2>2. BufSize - 1 = 2 BY DEF BufSize
    <2> QED BY <1>2, <2>1, <2>2 DEF AhcBuffer
  <1>8. AhcSignals(ahc) BY <1>2, Zenon DEF AhcSignals
  <1>9. 0 \in 0 .. 2 OBVIOUS
  <1>10. AhcSession(ahc) BY <1>2, <1>9, Zenon DEF AhcSession
  <1>11. Sound(ahc) BY <1>1, <1>4, <1>6, <1>7, <1>8, <1>10, Zenon DEF Sound
  <1>12. AhcAtn(ahc) BY <1>2, Zenon DEF AhcAtn
  <1>13. AhcOpen(ahc) BY <1>2, Zenon DEF AhcOpen
  <1> QED BY <1>11, <1>12, <1>13, Zenon DEF AhcOK

LEMMA AhcInductive == AhcOK(ahc) /\ Next => AhcOK(ahc')
  <1> SUFFICES ASSUME AhcOK(ahc), Next PROVE AhcOK(ahc') OBVIOUS
  <1>1. ahc.panic = "none" BY Zenon DEF Next
  <1>2. CASE \E phase \in {"MESGOUT", "MESGIN", "other"},
                m \in Messages \cup {NoMessage} : HostMsgLoop(phase, m)
    BY <1>1, <1>2, AhcHostMsgLoopStep, Zenon
  <1>3. CASE \/ BusFree \/ ResetChannel \/ ParityError \/ PuntMessage
             \/ Violation \/ ReselectUnknown
    BY <1>1, <1>3, AhcErrorSteps, Zenon
  <1>4. CASE \E s \in Scbs : StartIo(s) \/ Select(s) \/ Reselect(s)
    BY <1>1, <1>4, AhcConnectionSteps, Zenon
  <1>5. CASE \/ Mesgout \/ MesginNop \/ Disconnect \/ CommandComplete
             \/ CheckCondition \/ OtherPhase
    BY <1>1, <1>5, AhcSequencerSteps, Zenon
  <1> QED BY <1>2, <1>3, <1>4, <1>5, Zenon DEF Next

-----------------------------------------------------------------------------
(* The theorems of the aic7xxx, and of both families.                       *)

AhcInv == AhcOK(ahc)

LEMMA AhcInvariance == FamilySpec => []AhcInv
  <1>1. FamilyInit => AhcInv BY AhcInitially DEF FamilyInit, AhcInv
  <1>2. AhcInv /\ [FamilyNext]_<<family, vars, ahdVars>> => AhcInv'
    <2> SUFFICES ASSUME AhcInv, [FamilyNext]_<<family, vars, ahdVars>>
                 PROVE  AhcInv'
      OBVIOUS
    <2>1. CASE Next BY <2>1, AhcInductive DEF AhcInv
    <2>2. CASE ~Next
      <3>1. ahc' = ahc BY <2>2 DEF FamilyNext, vars
      <3> QED BY <3>1 DEF AhcInv
    <2> QED BY <2>1, <2>2
  <1> QED BY <1>1, <1>2, PTL DEF FamilySpec

\* ATN falls with the last byte of our message, also when the message was
\* changed or begun anew after a parity error, and stays up while there is an
\* answer to give (ahc_handle_message_phase, ahc_parse_msg).
THEOREM AtnIsFollowed == FamilySpec => []AtnFollowsTheMessage
  <1>1. AhcInv => AtnFollowsTheMessage
    BY Zenon DEF AhcInv, AhcOK, AhcAtn, AtnFollowsTheMessage, AtnEndsTheMessage,
                 AnswerIsAnnounced
  <1> QED BY <1>1, AhcInvariance, PTL

\* Whatever the target answers, rejects or leaves unsaid: settings that are not
\* known will be negotiated (ahc_update_neg_request), and on the aic79xx the
\* chip otherwise transfers as agreed (ahd_update_neg_table).
THEOREM DoubtIsNegotiated == FamilySpec => []SettingsKnown
  <1>1. AhcInv => DoubtIsRemembered
    BY Zenon DEF AhcInv, AhcOK, Sound, AhcSettings, DoubtIsRemembered
  <1>2. AhdInv => Ahd!ChipFollows
    BY Zenon DEF AhdInv, AhdOK, Ready, AhdSettings, Ahd!ChipFollows
  <1>3. AhcInv /\ AhdInv => SettingsKnown BY <1>1, <1>2 DEF SettingsKnown
  <1> QED BY <1>3, AhcInvariance, AhdInvariance, PTL

\* The sequencer of the aic7xxx never asks the host for a message the host has
\* no reason for, though the reason may be taken back while the SCB is on the
\* card: ahc_setup_initiator_msgout does not panic.
THEOREM SessionHasAReason == FamilySpec => []AlwaysAReason
  <1>1. AhcInv => AlwaysAReason
    BY Zenon DEF AhcInv, AhcOK, Sound, AhcSession, AlwaysAReason
  <1> QED BY <1>1, AhcInvariance, PTL

=============================================================================
