-------------------------- MODULE AhdQueues_proofs --------------------------
(***************************************************************************)
(* For every set of SCBs, targets and units: selection of the aic79xx      *)
(* stays frozen until the driver has handled every bad status.             *)
(*                                                                         *)
(* FrozenUntilHandled is inductive together with the types: the counters   *)
(* differ by at least the bad statuses, and whoever lowers QFREEZE_COUNT's *)
(* lead handles as many of them in the same step.                          *)
(***************************************************************************)
EXTENDS AhdQueues, TLAPS, FiniteSetTheorems

Places == {"free", "queued", "waiting", "active", "status", "dma",
           "onqfreeze", "complete", "ring"}

Records == [at: Places, dev: Devices \cup {SCB_LIST_NULL}, mk: BOOLEAN,
            bad: BOOLEAN]

ScbTypes == scb \in [Scbs -> Records] /\ ahead \in Nat /\ fetching \in BOOLEAN

IInv == ScbTypes /\ FrozenUntilHandled

-----------------------------------------------------------------------------
(* Bad statuses.                                                           *)

\* There are finitely many.
LEMMA UnhandledFinite ==
    /\ IsFiniteSet(Unhandled) /\ Cardinality(Unhandled) \in Nat
    /\ \A T : T \subseteq Unhandled =>
         /\ IsFiniteSet(T) /\ Cardinality(T) \in Nat
         /\ Cardinality(T) <= Cardinality(Unhandled)
         /\ Cardinality(Unhandled \ T) = Cardinality(Unhandled) - Cardinality(T)
<1>1. IsFiniteSet(Unhandled)
  BY ScbsAssumption, FS_Subset DEF Unhandled
<1>2. ASSUME NEW T, T \subseteq Unhandled
      PROVE  /\ IsFiniteSet(T) /\ Cardinality(T) \in Nat
             /\ Cardinality(T) <= Cardinality(Unhandled)
             /\ Cardinality(Unhandled \ T) = Cardinality(Unhandled) - Cardinality(T)
  <2>1. IsFiniteSet(T) /\ Cardinality(T) <= Cardinality(Unhandled)
    BY <1>1, <1>2, FS_Subset
  <2>2. Cardinality(T) \in Nat
    BY <2>1, FS_CardinalityType
  <2>3. Unhandled \cap T = T
    BY <1>2
  <2>4. Cardinality(Unhandled \ T)
          = Cardinality(Unhandled) - Cardinality(Unhandled \cap T)
    BY <1>1, FS_Difference
  <2> QED
    BY <2>1, <2>2, <2>3, <2>4
<1>3. Cardinality(Unhandled) \in Nat
  BY <1>1, FS_CardinalityType
<1> QED
  BY <1>1, <1>2, <1>3

\* A step that handles no bad status and makes none keeps the invariant, if it
\* puts none into the ring while an SCB is being fetched.
LEMMA NothingHandled ==
    ASSUME IInv, scb' \in [Scbs -> Records], fetching' \in BOOLEAN,
           ahead' = ahead, QFROZEN' = QFROZEN,
           \A u \in Scbs : scb'[u].bad =>
             /\ scb[u].bad
             /\ scb'[u].at = "ring" /\ fetching' => scb[u].at = "ring" /\ fetching
    PROVE  IInv'
<1>1. Unhandled' \subseteq Unhandled
  BY DEF Unhandled
<1>2. Cardinality(Unhandled') <= Cardinality(Unhandled)
  BY <1>1, UnhandledFinite
<1>3. Cardinality(Unhandled) \in Nat /\ Cardinality(Unhandled') \in Nat
  BY <1>1, UnhandledFinite
<1>4. Cardinality(Unhandled') <= ahead'
  BY <1>2, <1>3 DEF IInv, FrozenUntilHandled, ScbTypes
<1>5. Unhandled' # {} => QFROZEN'
  BY <1>1 DEF IInv, FrozenUntilHandled
<1>6. (\E s \in Unhandled' : Is(s, "ring")') => ~fetching'
  BY DEF IInv, FrozenUntilHandled, Unhandled, Is
<1>7. ScbTypes'
  BY DEF IInv, ScbTypes
<1> QED
  BY <1>4, <1>5, <1>6, <1>7 DEF IInv, FrozenUntilHandled

\* An SCB moves, and nothing else happens to it.
LEMMA MovedScb ==
    ASSUME NEW r \in Records, NEW p \in Places
    PROVE  /\ [r EXCEPT !.at = p] \in Records
           /\ [r EXCEPT !.at = p].at = p
           /\ [r EXCEPT !.at = p].bad = r.bad
           /\ [r EXCEPT !.at = p].dev = r.dev
  BY DEF Records

LEMMA FreeScb == Free \in Records /\ ~Free.bad /\ Free.at = "free"
  BY DEF Free, Records, Places

\* One SCB moves to a place that is not the ring, or while nothing is fetched.
LEMMA OneMoves ==
    ASSUME IInv, NEW s, NEW p \in Places,
           scb' = [scb EXCEPT ![s].at = p],
           ahead' = ahead, QFROZEN' = QFROZEN, fetching' \in BOOLEAN,
           fetching' => fetching,
           p = "ring" => ~fetching'
    PROVE  IInv'
<1>1. scb \in [Scbs -> Records]
  BY DEF IInv, ScbTypes
<1>2. ASSUME NEW u \in Scbs
      PROVE  /\ scb'[u] \in Records
             /\ scb'[u].bad = scb[u].bad
             /\ scb'[u].at = scb[u].at \/ scb'[u].at = p
  <2>1. CASE u = s
    <3>1. scb'[u] = [scb[u] EXCEPT !.at = p]
      BY <1>1, <2>1
    <3> QED
      BY <1>1, <3>1, MovedScb
  <2>2. CASE u # s
    <3>1. scb'[u] = scb[u]
      BY <1>1, <2>2
    <3> QED
      BY <1>1, <3>1
  <2> QED
    BY <2>1, <2>2
<1>3. scb' \in [Scbs -> Records]
  BY <1>1, <1>2
<1>4. \A u \in Scbs : scb'[u].bad =>
        /\ scb[u].bad
        /\ scb'[u].at = "ring" /\ fetching' => scb[u].at = "ring" /\ fetching
  BY <1>2
<1> QED
  BY <1>3, <1>4, NothingHandled

\* No SCB changes.
LEMMA NoneMoves ==
    ASSUME IInv, scb' = scb, ahead' = ahead, QFROZEN' = QFROZEN,
           fetching' = fetching
    PROVE  IInv'
<1>1. scb' \in [Scbs -> Records] /\ fetching' \in BOOLEAN
  BY DEF IInv, ScbTypes
<1> QED
  BY <1>1, NothingHandled

-----------------------------------------------------------------------------
(* The steps.                                                              *)

LEMMA InitIInv == Init => IInv
<1> SUFFICES ASSUME Init PROVE IInv
  OBVIOUS
<1>1. scb = [s \in Scbs |-> Free] /\ ahead = 0 /\ fetching = FALSE
  BY DEF Init
<1>2. Unhandled = {}
  BY <1>1, FreeScb DEF Unhandled
<1>3. ScbTypes
  BY <1>1, FreeScb DEF ScbTypes
<1>4. Cardinality(Unhandled) = 0
  BY <1>2, FS_EmptySet
<1> QED
  BY <1>1, <1>2, <1>3, <1>4 DEF IInv, FrozenUntilHandled

\* Nothing is fetched unless every bad status has been handled.
LEMMA FetchStep == IInv /\ Fetch => IInv'
<1> SUFFICES ASSUME IInv, Fetch PROVE IInv'
  OBVIOUS
<1>1. /\ scb' = scb /\ ahead' = ahead /\ QFROZEN' = QFROZEN
      /\ fetching' = TRUE /\ ~QFROZEN
  BY DEF Fetch, MayFetch
<1>2. Unhandled = {}
  BY <1>1 DEF IInv, FrozenUntilHandled
<1>3. \A u \in Scbs : ~scb[u].bad
  BY <1>2 DEF Unhandled
<1>4. scb' \in [Scbs -> Records] /\ fetching' \in BOOLEAN
  BY <1>1 DEF IInv, ScbTypes
<1>5. \A u \in Scbs : ~scb'[u].bad
  BY <1>1, <1>3
<1> QED
  BY <1>1, <1>4, <1>5, NothingHandled

LEMMA BadStatusStep ==
    ASSUME IInv, NEW s \in Scbs, BadStatus(s)
    PROVE  IInv'
<1>1. /\ scb \in [Scbs -> Records] /\ ahead \in Nat /\ fetching \in BOOLEAN
  BY DEF IInv, ScbTypes
<1>2. /\ scb' = [scb EXCEPT ![s].at = "status", ![s].bad = TRUE]
      /\ ahead' = ahead + 1 /\ QFROZEN' = TRUE /\ fetching' = fetching
  BY DEF BadStatus, FreezeQueue
<1>3. ASSUME NEW u \in Scbs
      PROVE  /\ scb'[u] \in Records
             /\ u # s => scb'[u] = scb[u]
             /\ u = s => scb'[u].at = "status"
  <2>1. CASE u = s
    <3>1. scb'[u] = [[scb[u] EXCEPT !.at = "status"] EXCEPT !.bad = TRUE]
      BY <1>1, <1>2, <2>1
    <3> DEFINE r == [scb[u] EXCEPT !.at = "status"]
    <3>2. "status" \in Places
      BY DEF Places
    <3>3. r \in Records /\ r.at = "status"
      BY <1>1, <3>2, MovedScb
    <3> HIDE DEF r
    <3>4. [r EXCEPT !.bad = TRUE] \in Records /\ [r EXCEPT !.bad = TRUE].at = r.at
      BY <3>3 DEF Records
    <3>5. scb'[u] = [r EXCEPT !.bad = TRUE]
      BY <3>1 DEF r
    <3> QED
      BY <2>1, <3>3, <3>4, <3>5
  <2>2. CASE u # s
    <3>1. scb'[u] = scb[u]
      BY <1>1, <1>2, <2>2
    <3> QED
      BY <1>1, <2>2, <3>1
  <2> QED
    BY <2>1, <2>2
<1>4. scb' \in [Scbs -> Records]
  <2>1. scb' = [u \in Scbs |-> scb'[u]]
    BY <1>1, <1>2
  <2> QED
    BY <1>3, <2>1
<1>5. Cardinality(Unhandled') <= ahead'
  <2>1. Unhandled' \subseteq Unhandled \cup {s}
    BY <1>3 DEF Unhandled
  <2>2. IsFiniteSet(Unhandled \cup {s})
    BY UnhandledFinite, FS_AddElement
  <2>3. Cardinality(Unhandled') <= Cardinality(Unhandled \cup {s})
    BY <2>1, <2>2, FS_Subset
  <2>4. Cardinality(Unhandled \cup {s}) = Cardinality(Unhandled)
        \/ Cardinality(Unhandled \cup {s}) = Cardinality(Unhandled) + 1
    BY UnhandledFinite, FS_AddElement
  <2>5. Cardinality(Unhandled) <= ahead /\ Cardinality(Unhandled) \in Nat
    BY UnhandledFinite DEF IInv, FrozenUntilHandled
  <2>6. Cardinality(Unhandled') \in Nat
    BY <2>1, <2>2, FS_Subset, FS_CardinalityType
  <2> QED
    BY <1>1, <1>2, <2>3, <2>4, <2>5, <2>6
<1>6. (\E u \in Unhandled' : Is(u, "ring")') => ~fetching'
  <2> SUFFICES ASSUME NEW u \in Scbs, scb'[u].bad, scb'[u].at = "ring"
               PROVE  ~fetching'
    BY DEF Unhandled, Is
  <2>1. scb[u].bad /\ scb[u].at = "ring"
    BY <1>3
  <2> QED
    BY <1>2, <2>1 DEF IInv, FrozenUntilHandled, Unhandled, Is
<1>7. ScbTypes'
  BY <1>1, <1>2, <1>4 DEF ScbTypes
<1> QED
  BY <1>2, <1>5, <1>6, <1>7 DEF IInv, FrozenUntilHandled

LEMMA OverrunStep ==
    ASSUME IInv, NEW s \in Scbs, Overrun(s)
    PROVE  IInv'
<1>1. /\ scb' = scb /\ ahead' = ahead + 1 /\ QFROZEN' = TRUE
      /\ fetching' = fetching
  BY DEF Overrun, FreezeQueue
<1>2. ScbTypes'
  BY <1>1 DEF IInv, ScbTypes
<1>3. Unhandled' = Unhandled
  BY <1>1 DEF Unhandled
<1>4. Cardinality(Unhandled) <= ahead + 1
  BY UnhandledFinite DEF IInv, ScbTypes, FrozenUntilHandled
<1> QED
  BY <1>1, <1>2, <1>3, <1>4 DEF IInv, FrozenUntilHandled, Is

\* The driver handles the bad statuses of T and lowers the lead by as many.
LEMMA Handled ==
    ASSUME IInv, scb' \in [Scbs -> Records], NEW T, T \subseteq Unhandled,
           Unhandled' \subseteq Unhandled \ T,
           ahead' = ahead - Cardinality(T), QFROZEN' = QFROZEN,
           fetching' = FALSE
    PROVE  IInv'
<1>1. /\ Cardinality(T) \in Nat /\ Cardinality(T) <= Cardinality(Unhandled)
      /\ Cardinality(Unhandled \ T) = Cardinality(Unhandled) - Cardinality(T)
      /\ Cardinality(Unhandled) \in Nat
  BY UnhandledFinite
<1>2. /\ Cardinality(Unhandled') <= Cardinality(Unhandled \ T)
      /\ Cardinality(Unhandled') \in Nat
  <2>1. IsFiniteSet(Unhandled \ T)
    BY UnhandledFinite
  <2> QED
    BY <2>1, FS_Subset, FS_CardinalityType
<1>3. Cardinality(Unhandled) <= ahead /\ ahead \in Nat
  BY DEF IInv, FrozenUntilHandled, ScbTypes
<1>4. ahead' \in Nat /\ Cardinality(Unhandled') <= ahead'
  BY <1>1, <1>2, <1>3
<1>5. Unhandled' # {} => QFROZEN'
  BY DEF IInv, FrozenUntilHandled
<1> QED
  BY <1>4, <1>5 DEF IInv, FrozenUntilHandled, ScbTypes

\* A search frees SCBs, and those in done in any case.
LEMMA SearchFrees ==
    ASSUME IInv, NEW searches, NEW done, SearchQinfifo(searches, done)
    PROVE  /\ scb' \in [Scbs -> Records] /\ fetching' = FALSE
           /\ Unhandled' \subseteq Unhandled \ done
<1>1. scb \in [Scbs -> Records]
  BY DEF IInv, ScbTypes
<1>2. PICK gone : scb' = [s \in Scbs |->
                            IF s \in gone \cup done THEN Free ELSE scb[s]]
  BY DEF SearchQinfifo
<1>3. scb' \in [Scbs -> Records]
  BY <1>1, <1>2, FreeScb
<1>4. \A s \in Scbs : scb'[s].bad => scb[s].bad /\ s \notin done
  BY <1>1, <1>2, FreeScb
<1>5. fetching' = FALSE
  BY DEF SearchQinfifo, SearchedLists
<1> QED
  BY <1>3, <1>4, <1>5 DEF Unhandled

LEMMA RunQoutfifoStep ==
    ASSUME IInv, NEW s \in Scbs, RunQoutfifo(s)
    PROVE  IInv'
<1>1. QFROZEN' = QFROZEN
  BY DEF RunQoutfifo
<1>2. CASE scb[s].bad /\ HandleScsiStatus(s)
  <2>1. /\ SearchQinfifo(<<{scb[s].dev}>>, {s})
        /\ ahead' = ahead - 1
    BY <1>2 DEF HandleScsiStatus
  <2>2. {s} \subseteq Unhandled /\ Cardinality({s}) = 1
    BY <1>2, FS_Singleton DEF Unhandled
  <2>3. /\ scb' \in [Scbs -> Records] /\ fetching' = FALSE
        /\ Unhandled' \subseteq Unhandled \ {s}
    BY <2>1, SearchFrees
  <2> QED
    BY <1>1, <2>1, <2>2, <2>3, Handled
<1>3. CASE scb' = [scb EXCEPT ![s] = Free] /\ fetching' = fetching
           /\ ahead' = ahead
  <2>1. scb \in [Scbs -> Records] /\ fetching \in BOOLEAN
    BY DEF IInv, ScbTypes
  <2>2. \A u \in Scbs : IF u = s THEN scb'[u] = Free ELSE scb'[u] = scb[u]
    BY <1>3, <2>1
  <2>3. scb' \in [Scbs -> Records]
    BY <1>3, <2>1, FreeScb
  <2>4. \A u \in Scbs : scb'[u].bad => scb'[u] = scb[u]
    BY <2>2, FreeScb
  <2>5. \A u \in Scbs : scb'[u].bad =>
          /\ scb[u].bad
          /\ scb'[u].at = "ring" /\ fetching' => scb[u].at = "ring" /\ fetching
    BY <1>3, <2>4
  <2>6. fetching' \in BOOLEAN
    BY <1>3, <2>1
  <2> QED
    BY <1>1, <1>3, <2>3, <2>5, <2>6, NothingHandled
<1> QED
  BY <1>2, <1>3 DEF RunQoutfifo

\* Whoever aborts handles the bad statuses on their way to the driver.
LEMMA AbortScbsStep ==
    ASSUME IInv, NEW devices, NEW these, AbortScbs(devices, these)
    PROVE  IInv'
<1>1. PICK searches : SearchQinfifo(searches, Flushed \cup these)
  BY DEF AbortScbs
<1>2. ahead' = ahead - Cardinality(FlushedBad) /\ QFROZEN' = QFROZEN
  BY DEF AbortScbs
<1>3. /\ scb' \in [Scbs -> Records] /\ fetching' = FALSE
      /\ Unhandled' \subseteq Unhandled \ (Flushed \cup these)
  BY <1>1, SearchFrees
<1>4. FlushedBad \subseteq Unhandled /\ FlushedBad \subseteq Flushed
  BY DEF FlushedBad
<1>5. Unhandled' \subseteq Unhandled \ FlushedBad
  BY <1>3, <1>4
<1> QED
  BY <1>2, <1>3, <1>4, <1>5, Handled

\* The rejected SCB is queued again; its freeze, if any, is not touched.
LEMMA NegotiationRejectedStep == IInv /\ NegotiationRejected => IInv'
<1> SUFFICES ASSUME IInv, NegotiationRejected PROVE IInv'
  OBVIOUS
<1>1. scb \in [Scbs -> Records]
  BY DEF IInv, ScbTypes
<1>2. PICK gone : scb' = [s \in Scbs |->
                            IF s \in gone THEN Free
                            ELSE IF s = conn THEN [scb[s] EXCEPT !.at = "queued"]
                            ELSE scb[s]]
  BY DEF NegotiationRejected
<1>3. ahead' = ahead /\ QFROZEN' = QFROZEN /\ fetching' = FALSE
  BY DEF NegotiationRejected, SearchedLists
<1>4. "queued" \in Places
  BY DEF Places
<1>5. ASSUME NEW u \in Scbs
      PROVE  scb'[u] \in Records /\ (scb'[u].bad => scb[u].bad)
  <2>1. CASE u \in gone
    <3>1. scb'[u] = Free
      BY <1>2, <2>1
    <3> QED
      BY <3>1, FreeScb
  <2>2. CASE u \notin gone /\ u = conn
    <3>1. scb'[u] = [scb[u] EXCEPT !.at = "queued"]
      BY <1>2, <2>2
    <3> QED
      BY <1>1, <1>4, <3>1, MovedScb
  <2>3. CASE u \notin gone /\ u # conn
    <3>1. scb'[u] = scb[u]
      BY <1>2, <2>3
    <3> QED
      BY <1>1, <3>1
  <2> QED
    BY <2>1, <2>2, <2>3
<1>6. scb' \in [Scbs -> Records]
  <2>1. scb' = [u \in Scbs |-> scb'[u]]
    BY <1>2
  <2> QED
    BY <1>5, <2>1
<1> QED
  BY <1>3, <1>5, <1>6, NothingHandled

\* An SCB for a new command has no bad status.
LEMMA SubmitStep ==
    ASSUME IInv, NEW s \in Scbs, NEW d \in Devices, NEW message \in BOOLEAN,
           Submit(s, d, message)
    PROVE  IInv'
<1> DEFINE r == [at |-> "queued", dev |-> d, mk |-> message, bad |-> FALSE]
<1>1. scb \in [Scbs -> Records] /\ fetching \in BOOLEAN
  BY DEF IInv, ScbTypes
<1>2. scb' = [scb EXCEPT ![s] = r] /\ UNCHANGED card
  BY DEF Submit
<1>3. r \in Records /\ ~r.bad
  BY DEF Records, Places
<1> HIDE DEF r
<1>4. \A u \in Scbs : scb'[u] = IF u = s THEN r ELSE scb[u]
  BY <1>1, <1>2
<1>5. scb' \in [Scbs -> Records]
  BY <1>1, <1>2, <1>3
<1>6. ahead' = ahead /\ QFROZEN' = QFROZEN /\ fetching' = fetching
  BY <1>2 DEF card
<1>7. \A u \in Scbs : scb'[u].bad =>
        /\ scb[u].bad
        /\ scb'[u].at = "ring" /\ fetching' => scb[u].at = "ring" /\ fetching
  BY <1>3, <1>4, <1>6
<1> QED
  BY <1>1, <1>5, <1>6, <1>7, NothingHandled

\* Statuses held back while selection is frozen go on to the driver.
LEMMA FrozenCompletionsStep == IInv /\ FrozenCompletions => IInv'
<1> SUFFICES ASSUME IInv, FrozenCompletions PROVE IInv'
  OBVIOUS
<1>1. scb \in [Scbs -> Records] /\ fetching \in BOOLEAN
  BY DEF IInv, ScbTypes
<1>2. /\ scb' = [s \in Scbs |-> IF scb[s].at = "onqfreeze"
                                THEN [scb[s] EXCEPT !.at = "complete"]
                                ELSE scb[s]]
      /\ ahead' = ahead /\ QFROZEN' = QFROZEN /\ fetching' = fetching
  BY DEF FrozenCompletions, Is, card
<1>3. "complete" \in Places
  BY DEF Places
<1>4. ASSUME NEW u \in Scbs
      PROVE  /\ scb'[u] \in Records /\ scb'[u].bad = scb[u].bad
             /\ scb'[u].at = "ring" => scb[u].at = "ring"
  <2>1. CASE scb[u].at = "onqfreeze"
    <3>1. scb'[u] = [scb[u] EXCEPT !.at = "complete"]
      BY <1>2, <2>1
    <3> QED
      BY <1>1, <1>3, <3>1, MovedScb
  <2>2. CASE scb[u].at # "onqfreeze"
    <3>1. scb'[u] = scb[u]
      BY <1>2, <2>2
    <3> QED
      BY <1>1, <3>1
  <2> QED
    BY <2>1, <2>2
<1>5. scb' \in [Scbs -> Records]
  <2>1. scb' = [u \in Scbs |-> scb'[u]]
    BY <1>2
  <2> QED
    BY <1>4, <2>1
<1>6. \A u \in Scbs : scb'[u].bad =>
        /\ scb[u].bad
        /\ scb'[u].at = "ring" /\ fetching' => scb[u].at = "ring" /\ fetching
  BY <1>2, <1>4
<1> QED
  BY <1>1, <1>2, <1>5, <1>6, NothingHandled

\* Selection is released only when no bad status is left: the lead is zero.
LEMMA ThawStep == IInv /\ Thaw => IInv'
<1> SUFFICES ASSUME IInv, Thaw PROVE IInv'
  OBVIOUS
<1>1. scb' = scb /\ ahead' = ahead /\ fetching' = fetching /\ ahead = 0
  BY DEF Thaw
<1>2. Unhandled = {}
  <2>1. Cardinality(Unhandled) = 0
    BY <1>1, UnhandledFinite DEF IInv, FrozenUntilHandled
  <2> QED
    BY <2>1, UnhandledFinite, FS_EmptySet
<1>3. Unhandled' = {}
  BY <1>1, <1>2 DEF Unhandled
<1>4. Cardinality(Unhandled') = 0
  BY <1>3, FS_EmptySet
<1> QED
  BY <1>1, <1>3, <1>4 DEF IInv, ScbTypes, FrozenUntilHandled

LEMMA NextIInv == IInv /\ [Next]_vars => IInv'
<1> SUFFICES ASSUME IInv, [Next]_vars PROVE IInv'
  OBVIOUS
<1>1. fetching \in BOOLEAN
  BY DEF IInv, ScbTypes
<1>2. {"waiting", "dma", "complete", "onqfreeze", "ring"} \subseteq Places
  BY DEF Places
<1>3. CASE Fetch
  BY <1>3, FetchStep
<1>4. CASE FetchDone
  <2>1. /\ scb' = [scb EXCEPT ![Head(qinfifo)].at = "waiting"]
        /\ ahead' = ahead /\ QFROZEN' = QFROZEN /\ fetching' = FALSE
        /\ fetching
    BY <1>4 DEF FetchDone
  <2> QED
    BY <1>2, <2>1, OneMoves
<1>5. CASE StartSelection \/ Arbitrate \/ Selected \/ Disconnect
  <2>1. scb' = scb /\ ahead' = ahead /\ QFROZEN' = QFROZEN /\ fetching' = fetching
    BY <1>5 DEF StartSelection, Arbitrate, Selected, Disconnect
  <2> QED
    BY <2>1, NoneMoves
<1>6. CASE SelectOut
  <2>1. PICK sent : scb' = [s \in Scbs |-> IF s \in sent
                                           THEN [scb[s] EXCEPT !.at = "active"]
                                           ELSE scb[s]]
    BY <1>6 DEF SelectOut
  <2>2. ahead' = ahead /\ QFROZEN' = QFROZEN /\ fetching' = fetching
    BY <1>6 DEF SelectOut
  <2>3. scb \in [Scbs -> Records] /\ "active" \in Places
    BY DEF IInv, ScbTypes, Places
  <2>4. ASSUME NEW u \in Scbs
        PROVE  /\ scb'[u] \in Records /\ scb'[u].bad = scb[u].bad
               /\ scb'[u].at = "ring" => scb[u].at = "ring"
    <3>1. CASE u \in sent
      <4>1. scb'[u] = [scb[u] EXCEPT !.at = "active"]
        BY <2>1, <3>1
      <4> QED
        BY <2>3, <4>1, MovedScb
    <3>2. CASE u \notin sent
      <4>1. scb'[u] = scb[u]
        BY <2>1, <3>2
      <4> QED
        BY <2>3, <4>1
    <3> QED
      BY <3>1, <3>2
  <2>5. scb' \in [Scbs -> Records]
    <3>1. scb' = [u \in Scbs |-> scb'[u]]
      BY <2>1
    <3> QED
      BY <2>4, <3>1
  <2>6. \A u \in Scbs : scb'[u].bad =>
          /\ scb[u].bad
          /\ scb'[u].at = "ring" /\ fetching' => scb[u].at = "ring" /\ fetching
    BY <2>2, <2>4
  <2> QED
    BY <1>1, <2>2, <2>5, <2>6, NothingHandled
<1>7. CASE \E s \in Scbs : BadStatus(s)
  BY <1>7, BadStatusStep
<1>8. CASE \E s \in Scbs : Overrun(s)
  BY <1>8, OverrunStep
<1>9. CASE \E s \in Scbs : UploadScb(s)
  <2>1. PICK s \in Scbs : UploadScb(s)
    BY <1>9
  <2>2. /\ scb' = [scb EXCEPT ![s].at = "dma"]
        /\ ahead' = ahead /\ QFROZEN' = QFROZEN /\ fetching' = fetching
    BY <2>1 DEF UploadScb
  <2> QED
    BY <1>1, <1>2, <2>2, OneMoves
<1>10. CASE \E s \in Scbs : GoodStatus(s)
  <2>1. PICK s \in Scbs : GoodStatus(s)
    BY <1>10
  <2>2. PICK p \in {"dma", "complete"} : scb' = [scb EXCEPT ![s].at = p]
    BY <2>1 DEF GoodStatus
  <2>3. ahead' = ahead /\ QFROZEN' = QFROZEN /\ fetching' = fetching
    BY <2>1 DEF GoodStatus
  <2>4. p \in Places /\ p # "ring"
    BY <1>2, <2>2
  <2> QED
    BY <1>1, <2>2, <2>3, <2>4, OneMoves
<1>11. CASE \E s \in Scbs : ScbToHost(s)
  <2>1. PICK s \in Scbs : ScbToHost(s)
    BY <1>11
  <2>2. /\ scb' = [scb EXCEPT ![s].at = QueueCompletion(s)]
        /\ ahead' = ahead /\ QFROZEN' = QFROZEN /\ fetching' = fetching
    BY <2>1 DEF ScbToHost, card
  <2>3. QueueCompletion(s) \in Places /\ QueueCompletion(s) # "ring"
    BY <1>2 DEF QueueCompletion
  <2> QED
    BY <1>1, <2>2, <2>3, OneMoves
<1>12. CASE \E s \in Scbs : FillQoutfifo(s)
  <2>1. PICK s \in Scbs : FillQoutfifo(s)
    BY <1>12
  <2>2. /\ scb' = [scb EXCEPT ![s].at = "ring"] /\ ~fetching
        /\ ahead' = ahead /\ QFROZEN' = QFROZEN /\ fetching' = fetching
    BY <2>1 DEF FillQoutfifo, card
  <2> QED
    BY <1>1, <1>2, <2>2, OneMoves
<1>13. CASE FrozenCompletions
  BY <1>13, FrozenCompletionsStep
<1>14. CASE Thaw
  BY <1>14, ThawStep
<1>15. CASE \E s \in Scbs, d \in Devices, message \in BOOLEAN :
               Submit(s, d, message)
  BY <1>15, SubmitStep
<1>16. CASE \E s \in Scbs : RunQoutfifo(s)
  BY <1>16, RunQoutfifoStep
<1>17. CASE SelectionTimeout
  BY <1>17, AbortScbsStep DEF SelectionTimeout
<1>18. CASE BusFree
  BY <1>18, AbortScbsStep DEF BusFree
<1>19. CASE ResetChannel
  BY <1>19, AbortScbsStep DEF ResetChannel
<1>20. CASE NegotiationRejected
  BY <1>20, NegotiationRejectedStep
<1>21. CASE UNCHANGED vars
  BY <1>21, NoneMoves DEF vars, card
<1>22. CASE Sequencer
  BY <1>3, <1>4, <1>5, <1>6, <1>7, <1>8, <1>9, <1>10, <1>11, <1>12, <1>13,
     <1>14, <1>22 DEF Sequencer
<1>23. CASE Driver
  BY <1>15, <1>16, <1>17, <1>18, <1>19, <1>20, <1>23 DEF Driver
<1> QED
  BY <1>21, <1>22, <1>23 DEF Next

\* Whatever the sequencer and the driver do meanwhile, selection stays frozen
\* and nothing is fetched until the driver has handled every bad status, so it
\* may search the lists without regard to the sequencer's critical sections;
\* and QFREEZE_COUNT leads by at least the bad statuses not handled.
THEOREM SelectionStaysFrozen == Spec => []FrozenUntilHandled
<1>1. IInv => FrozenUntilHandled
  BY DEF IInv
<1> QED
  BY <1>1, InitIInv, NextIInv, PTL DEF Spec
=============================================================================
