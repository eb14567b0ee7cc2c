------------------------- MODULE AhcQoutfifo_proofs -------------------------
(***************************************************************************)
(* AhcQoutfifo for every number of tags and every ring that is a multiple  *)
(* of four entries, three longer than the number of tags: 253 and 256 in   *)
(* the driver.                                                             *)
(*                                                                         *)
(* The inductive invariant says what every entry of the ring holds, by its *)
(* distance from the host's position: first the pending completions, all   *)
(* different, then empty entries up to the few that the host has taken and *)
(* has not wiped yet.  That the sequencer cannot reach those few is a      *)
(* pigeonhole argument on the tags.                                        *)
(***************************************************************************)
EXTENDS AhcQoutfifo, FiniteSetTheorems, SequenceTheorems, TLAPS

\* The entry at distance i from the host's position.
Entry(i) == qoutfifo[Plus(qoutfifonext, i)]

\* Entries at or past this distance are taken and wait for their wipe.
Unwiped == RingSize - (qoutfifonext % GroupSize)

PendingEntries ==
    /\ \A i \in 0 .. Pending - 1 : Entry(i) \in Posted
    /\ \A i, j \in 0 .. Pending - 1 : Entry(i) = Entry(j) => i = j
    /\ \A t \in Posted : \E i \in 0 .. Pending - 1 : Entry(i) = t

EmptyEntries ==
    \A i \in Pending .. Unwiped - 1 : Entry(i) = SCB_LIST_NULL

SequencerState ==
    /\ running \subseteq scbindex
    /\ seq = "post" => ARG_1 \in running /\ SDSCB_QOFF = Succ(A)

InterruptState ==
    /\ clrint => isr = "flush"
    /\ isr = "idle" /\ seq # "raise" /\ Pending > 0 => INTSTAT

IInv == TypeOK /\ PendingEntries /\ EmptyEntries /\ SequencerState
               /\ InterruptState

-----------------------------------------------------------------------------
(* Facts about the ring, by the distance from its position p. *)

LEMMA RingSizeFacts ==
    /\ RingSize \in Nat /\ RingSize >= 4 /\ RingSize % 4 = 0
    /\ \A p \in Positions : p \in Nat /\ p < RingSize
BY QoutfifoAssumption DEF Positions, GroupSize

LEMMA RingArithmetic ==
    ASSUME NEW p \in Positions
    PROVE  /\ Succ(p) \in Positions
           /\ \A n \in Positions : Plus(p, n) \in Positions
           /\ \A n \in Positions : n + 1 < RingSize
                  => Plus(Succ(p), n) = Plus(p, n + 1)
           /\ \A q \in Positions : /\ Ahead(p, q) \in Positions
                                   /\ Plus(p, Ahead(p, q)) = q
           /\ \A m, n \in Positions : Plus(p, m) = Plus(p, n) => m = n
           /\ Plus(p, 0) = p
           /\ Plus(Succ(p), RingSize - 1) = p
BY RingSizeFacts DEF Positions, Succ, Plus, Ahead

LEMMA AheadFacts ==
    ASSUME NEW p \in Positions, NEW q \in Positions
    PROVE  /\ Ahead(p, p) = 0
           /\ Ahead(p, q) = 0 => p = q
           /\ Ahead(p, q) + 1 < RingSize => Ahead(p, Succ(q)) = Ahead(p, q) + 1
           /\ Ahead(p, q) > 0 => Ahead(Succ(p), q) = Ahead(p, q) - 1
BY RingSizeFacts DEF Positions, Succ, Ahead

\* The distances the wipe at p reaches: p itself and the three before it.
LEMMA WipeDistances ==
    ASSUME NEW p \in Positions, p % GroupSize = GroupSize - 1,
           NEW n \in Positions
    PROVE  Plus(p, n) \in (p - (GroupSize - 1)) .. p
              <=> n = 0 \/ n >= RingSize - 3
BY RingSizeFacts DEF Positions, Plus, GroupSize

-----------------------------------------------------------------------------
\* Under the invariant PostEnd is a position, and Pending the distance to it.
LEMMA PendingFacts ==
    ASSUME IInv
    PROVE  /\ PostEnd \in Positions
           /\ Pending \in Positions
           /\ Plus(qoutfifonext, Pending) = PostEnd
BY RingArithmetic DEF IInv, TypeOK, PostEnd, Pending

\* The pending entries hold different tags, so they are at most as many as
\* there are tags, and fewer while one more tag is being posted.
LEMMA PendingBound ==
    ASSUME IInv
    PROVE  /\ Pending <= RingSize - 3
           /\ running # {} => Pending <= RingSize - 4
<1> USE QueueDepthAssumption, QoutfifoAssumption DEF GroupSize, QueueDepthAssumption
<1>1. Pending \in Nat /\ Posted \subseteq Tags
  BY PendingFacts, RingSizeFacts DEF IInv, TypeOK, Posted, Positions
<1>2. IsFiniteSet(Posted) /\ Cardinality(Posted) <= Cardinality(Tags)
  BY <1>1, FS_Subset
<1>3. Cardinality(Posted) \in Nat /\ Cardinality(Tags) \in Nat
  BY <1>2, FS_CardinalityType
<1>4. Pending <= Cardinality(Posted)
  <2>1. SUFFICES ASSUME Cardinality(Posted) < Pending PROVE FALSE
    BY <1>1, <1>3
  <2> DEFINE D == 0 .. Pending - 1
             f == [i \in D |-> Entry(i)]
  <2>2. IsFiniteSet(D) /\ Cardinality(D) = Pending
    <3>1. 0 \in Int /\ Pending - 1 \in Int /\ ~(0 > Pending - 1)
      BY <1>1, <2>1, <1>3
    <3>2. IsFiniteSet(D) /\ Cardinality(D) = Pending - 1 - 0 + 1
      BY <3>1, FS_Interval
    <3>3. QED BY <1>1, <3>2
  <2>3. f \in [D -> Posted]
    BY DEF IInv, PendingEntries
  <2> HIDE DEF D
  <2>4. \E x, y \in D : x # y /\ f[x] = f[y]
    <3> HIDE DEF f
    <3> QED BY <1>2, <2>1, <2>2, <2>3, FS_PigeonHole
  <2>5. QED BY <2>4 DEF D, IInv, PendingEntries
<1>5. running # {} => Cardinality(Posted) <= Cardinality(Tags) - 1
  <2>1. SUFFICES ASSUME NEW t \in running
                 PROVE  Cardinality(Posted) <= Cardinality(Tags) - 1
    OBVIOUS
  <2>2. t \in Tags /\ Posted \in SUBSET (Tags \ {t})
    BY <1>1 DEF IInv, TypeOK, Posted
  <2>3. IsFiniteSet(Tags \ {t}) /\ Cardinality(Tags \ {t}) = Cardinality(Tags) - 1
    BY <2>2, FS_RemoveElement
  <2>4. QED BY <2>2, <2>3, FS_Subset
<1>6. Cardinality(Tags) <= RingSize - 3
  BY <1>3, RingSizeFacts
<1>7. Pending <= RingSize - 3
  BY <1>1, <1>2, <1>3, <1>4, <1>6, RingSizeFacts
<1>8. ASSUME running # {} PROVE Pending <= RingSize - 4
  <2>1. Cardinality(Posted) <= Cardinality(Tags) - 1
    BY <1>5, <1>8
  <2>2. QED BY <1>1, <1>3, <1>4, <1>6, <2>1, RingSizeFacts
<1>9. QED BY <1>7, <1>8

\* The position the sequencer posts to next is empty.
LEMMA NextPostIsEmpty ==
    ASSUME IInv, running # {}
    PROVE  qoutfifo[PostEnd] = SCB_LIST_NULL
<1>1. Pending <= RingSize - 4 /\ Pending \in Nat
  BY PendingBound, PendingFacts, RingSizeFacts DEF Positions
<1>2. Pending \in Pending .. Unwiped - 1
  BY <1>1, RingSizeFacts DEF Unwiped, GroupSize, IInv, TypeOK, Positions
<1>3. QED BY <1>2, PendingFacts DEF IInv, EmptyEntries, Entry

-----------------------------------------------------------------------------
LEMMA InitIInv == Init => IInv
<1> SUFFICES ASSUME Init PROVE IInv
  OBVIOUS
<1>1. Pending = 0 /\ Posted = {}
  BY RingSizeFacts DEF Init, Pending, PostEnd, Ahead, Posted
<1>2. TypeOK
  <2>1. 0 \in Positions /\ SCB_LIST_NULL \in Tags \cup {SCB_LIST_NULL}
    BY RingSizeFacts DEF Positions
  <2>2. qoutfifo \in [Positions -> Tags \cup {SCB_LIST_NULL}]
    BY <2>1 DEF Init
  <2>3. QED BY <2>1, <2>2, Zenon DEF Init, TypeOK
<1>3. PendingEntries
  BY <1>1 DEF PendingEntries
<1>4. EmptyEntries
  <2>1. \A i \in 0 .. Unwiped - 1 : Plus(qoutfifonext, i) \in Positions
    BY RingSizeFacts, RingArithmetic DEF Unwiped, Init, Positions, Plus, GroupSize
  <2>2. QED BY <1>1, <2>1 DEF EmptyEntries, Entry, Init
<1>5. SequencerState /\ InterruptState
  BY <1>1 DEF Init, SequencerState, InterruptState
<1>6. QED BY <1>2, <1>3, <1>4, <1>5 DEF IInv

\* Steps that leave the ring, its two ends and the posted tags alone keep what
\* the entries hold.
LEMMA RingUnchanged ==
    ASSUME IInv, TypeOK',
           UNCHANGED <<qoutfifo, qoutfifonext>>,
           PostEnd' = PostEnd, Posted' = Posted
    PROVE  /\ Pending' = Pending
           /\ PendingEntries' /\ EmptyEntries'
<1>1. Pending' = Pending
  BY DEF Pending
<1>2. (\A i : Entry(i)' = Entry(i)) /\ Unwiped' = Unwiped
  BY DEF Entry, Unwiped
<1>3. QED BY <1>1, <1>2 DEF IInv, PendingEntries, EmptyEntries

LEMMA TakePositionStep ==
    ASSUME IInv, NEW t \in Tags, TakePosition(t)
    PROVE  IInv'
<1> USE DEF TakePosition, hostvars
<1>1. TypeOK'
  BY RingArithmetic DEF IInv, TypeOK
<1>2. PostEnd' = PostEnd /\ Posted' = Posted
  BY DEF PostEnd, Posted
<1>3. Pending' = Pending /\ PendingEntries' /\ EmptyEntries'
  BY <1>1, <1>2, RingUnchanged
<1>4. SequencerState'
  BY DEF IInv, SequencerState
<1>5. InterruptState'
  BY <1>3 DEF IInv, InterruptState
<1>6. QED BY <1>1, <1>3, <1>4, <1>5 DEF IInv

LEMMA PostByteStep ==
    ASSUME IInv, PostByte
    PROVE  /\ IInv'
           /\ Pending \in Nat /\ Pending' = Pending + 1 /\ Pending \in Positions
           /\ \A i \in Positions :
                 Entry(i)' = IF i = Pending THEN ARG_1 ELSE Entry(i)
<1> USE DEF PostByte, hostvars
<1>1. TypeOK'
  BY DEF IInv, TypeOK
<1>2. /\ ARG_1 \in running /\ SDSCB_QOFF = Succ(A) /\ A = PostEnd
      /\ Posted' = Posted \cup {ARG_1} /\ ARG_1 \notin Posted
  BY DEF IInv, TypeOK, SequencerState, PostEnd, Posted
<1>3. Pending \in Nat /\ Pending + 1 < RingSize /\ Pending \in Positions
  BY <1>2, PendingBound, PendingFacts, RingSizeFacts DEF Positions
<1>4. Pending' = Pending + 1
  BY <1>2, <1>3, AheadFacts DEF IInv, TypeOK, Pending, PostEnd
<1>5. \A i \in Positions :
          Entry(i)' = IF i = Pending THEN ARG_1 ELSE Entry(i)
  <2>1. \A i \in Positions : Plus(qoutfifonext, i) = A <=> i = Pending
    BY <1>2, <1>3, PendingFacts, RingArithmetic DEF IInv, TypeOK
  <2>2. QED BY <2>1, RingArithmetic DEF Entry, IInv, TypeOK
<1>6. PendingEntries'
  <2>1. \A i \in 0 .. Pending : i \in Positions /\ (i # Pending => i \in 0 .. Pending - 1)
    BY <1>3, RingSizeFacts DEF Positions
  <2>2. \A i \in 0 .. Pending : Entry(i)' \in Posted'
    BY <1>2, <1>5, <2>1 DEF IInv, PendingEntries
  <2>3. \A i, j \in 0 .. Pending : Entry(i)' = Entry(j)' => i = j
    BY <1>2, <1>5, <2>1 DEF IInv, PendingEntries
  <2>4. \A u \in Posted' : \E i \in 0 .. Pending : Entry(i)' = u
    <3>1. CASE TRUE
      <4>1. ASSUME NEW u \in Posted PROVE \E i \in 0 .. Pending : Entry(i)' = u
        <5>1. PICK i \in 0 .. Pending - 1 : Entry(i) = u
          BY DEF IInv, PendingEntries
        <5>2. i \in 0 .. Pending /\ i # Pending /\ i \in Positions
          BY <1>3, RingSizeFacts DEF Positions
        <5>3. QED BY <1>5, <5>1, <5>2
      <4>2. \E i \in 0 .. Pending : Entry(i)' = ARG_1
        BY <1>3, <1>5
      <4>3. QED BY <1>2, <4>1, <4>2
    <3>2. QED BY <3>1
  <2>5. (0 .. Pending - 1)' = 0 .. Pending
    BY <1>3, <1>4
  <2>6. QED BY <2>2, <2>3, <2>4, <2>5 DEF PendingEntries
<1>7. EmptyEntries'
  <2>1. \A i \in Pending + 1 .. Unwiped - 1 :
            i \in Positions /\ i # Pending /\ i \in Pending .. Unwiped - 1
    BY <1>3, RingSizeFacts DEF Positions, Unwiped, GroupSize, IInv, TypeOK
  <2>2. QED BY <1>4, <1>5, <2>1 DEF EmptyEntries, IInv, Unwiped
<1>8. SequencerState'
  BY <1>2 DEF IInv, SequencerState
<1>9. InterruptState'
  BY DEF IInv, InterruptState
<1>10. QED BY <1>1, <1>3, <1>4, <1>5, <1>6, <1>7, <1>8, <1>9 DEF IInv

LEMMA RaiseCmdCmpltStep ==
    ASSUME IInv, RaiseCmdCmplt
    PROVE  IInv'
<1> USE DEF RaiseCmdCmplt, hostvars
<1>1. TypeOK'
  BY DEF IInv, TypeOK
<1>2. PostEnd' = PostEnd /\ Posted' = Posted
  BY DEF PostEnd, Posted
<1>3. Pending' = Pending /\ PendingEntries' /\ EmptyEntries'
  BY <1>1, <1>2, RingUnchanged
<1>4. SequencerState' /\ InterruptState'
  BY DEF IInv, SequencerState, InterruptState
<1>5. QED BY <1>1, <1>3, <1>4 DEF IInv

LEMMA IssueStep ==
    ASSUME IInv, NEW t \in Tags, Issue(t)
    PROVE  IInv'
<1> USE DEF Issue
<1>1. TypeOK'
  BY DEF IInv, TypeOK
<1>2. PostEnd' = PostEnd /\ Posted' = Posted
  BY DEF PostEnd, Posted
<1>3. Pending' = Pending /\ PendingEntries' /\ EmptyEntries'
  BY <1>1, <1>2, RingUnchanged
<1>4. SequencerState'
  BY DEF IInv, SequencerState, Succ
<1>5. InterruptState'
  BY <1>3 DEF IInv, InterruptState
<1>6. QED BY <1>1, <1>3, <1>4, <1>5 DEF IInv

\* Entering the handler, delivering CLRINT and the flush leave ring and
\* sequencer alone.
LEMMA HandlerStep ==
    ASSUME IInv, Interrupt \/ DeliverClrint \/ FlushDeviceWrites \/ QoutfifoEmpty
    PROVE  IInv'
<1> USE DEF Interrupt, DeliverClrint, FlushDeviceWrites, QoutfifoEmpty,
            hostvars, seqvars
<1>1. TypeOK'
  BY DEF IInv, TypeOK
<1>2. PostEnd' = PostEnd /\ Posted' = Posted
  BY DEF PostEnd, Posted
<1>3. Pending' = Pending /\ PendingEntries' /\ EmptyEntries'
  BY <1>1, <1>2, RingUnchanged
<1>4. SequencerState'
  BY DEF IInv, SequencerState, Succ
<1>5. InterruptState'
  <2>1. CASE Interrupt
    BY <2>1 DEF IInv, InterruptState
  <2>2. CASE DeliverClrint
    BY <2>2 DEF IInv, InterruptState
  <2>3. CASE FlushDeviceWrites
    BY <2>3 DEF IInv, InterruptState
  <2>4. CASE QoutfifoEmpty
    <3>1. Entry(0) = SCB_LIST_NULL
      BY <2>4, RingArithmetic DEF Entry, IInv, TypeOK
    <3>2. SCB_LIST_NULL \notin Posted
      BY QoutfifoAssumption DEF Posted, IInv, TypeOK
    <3>3. ~ (Pending > 0)
      BY <3>1, <3>2, PendingFacts, RingSizeFacts
         DEF IInv, PendingEntries, Positions
    <3>4. clrint' = FALSE
      BY <2>4 DEF IInv, InterruptState, TypeOK
    <3>5. QED BY <1>3, <3>3, <3>4 DEF InterruptState
  <2>5. QED BY <2>1, <2>2, <2>3, <2>4
<1>6. QED BY <1>1, <1>3, <1>4, <1>5 DEF IInv

-----------------------------------------------------------------------------
(* Taking an entry: every distance shrinks by one, and a wipe reaches only    *)
(* entries that are neither pending nor about to be posted to.                *)
LEMMA RunQoutfifoStep ==
    ASSUME IInv, RunQoutfifo
    PROVE  /\ IInv'
           /\ Pending \in Nat \ {0} /\ Pending' = Pending - 1
           /\ \A i \in 0 .. Pending - 2 : Entry(i)' = Entry(i + 1)
<1> USE DEF RunQoutfifo, seqvars
<1> DEFINE p == qoutfifonext
           taken == qoutfifo[qoutfifonext]
<1>1. p \in Positions /\ p' = Succ(p) /\ p' \in Positions /\ p % 4 \in 0 .. 3
  BY RingArithmetic, RingSizeFacts DEF IInv, TypeOK
<1>2. Pending \in Nat /\ Pending \in Positions /\ Pending <= RingSize - 3
  BY PendingBound, PendingFacts, RingSizeFacts DEF Positions
<1>3. taken = Entry(0) /\ taken # SCB_LIST_NULL
  BY <1>1, RingArithmetic DEF Entry
<1>4. Pending > 0
  <2>1. SUFFICES ASSUME Pending = 0 PROVE FALSE
    BY <1>2
  <2>2. 0 \in Pending .. Unwiped - 1
    BY <1>1, <2>1, RingSizeFacts DEF Unwiped, GroupSize
  <2>3. QED BY <1>3, <2>2 DEF IInv, EmptyEntries
<1>5. PostEnd' = PostEnd /\ Pending' = Pending - 1
  BY <1>1, <1>4, PendingFacts, AheadFacts DEF Pending, PostEnd
<1>6. taken \in Posted /\ taken \in Tags /\ Posted' = Posted \ {taken}
  <2>1. taken \in Posted
    BY <1>2, <1>3, <1>4 DEF IInv, PendingEntries
  <2>2. QED BY <2>1 DEF Posted, IInv, TypeOK
<1>7. \A i \in 0 .. RingSize - 2 :
          Entry(i)' = IF p % 4 = 3 /\ i + 1 >= RingSize - 3
                      THEN SCB_LIST_NULL ELSE Entry(i + 1)
  <2>1. TAKE i \in 0 .. RingSize - 2
  <2>2. /\ i + 1 \in Positions /\ i \in Positions
        /\ Plus(p', i) = Plus(p, i + 1) /\ Plus(p, i + 1) \in Positions
    BY <1>1, RingArithmetic, RingSizeFacts DEF Positions
  <2>3. CASE p % 4 = 3
    <3> DEFINE x == Plus(p, i + 1)
    <3>1. qoutfifo' = [j \in Positions |-> IF j \in (p - 3) .. p
                                           THEN SCB_LIST_NULL ELSE qoutfifo[j]]
      BY <2>3 DEF Wipe, GroupSize
    <3>2. Entry(i)' = IF x \in (p - 3) .. p THEN SCB_LIST_NULL ELSE qoutfifo[x]
      <4>1. Entry(i)' = qoutfifo'[x]
        BY <2>2 DEF Entry
      <4>2. QED BY <2>2, <3>1, <4>1
    <3>3. x \in (p - 3) .. p <=> i + 1 >= RingSize - 3
      BY <1>1, <2>2, <2>3, WipeDistances, RingSizeFacts DEF GroupSize, Positions
    <3>4. QED BY <2>3, <3>2, <3>3 DEF Entry
  <2>4. CASE p % 4 # 3
    BY <2>2, <2>4 DEF Entry, Wipe, GroupSize
  <2>5. QED BY <2>3, <2>4
<1>8. Entry(RingSize - 1)' = IF p % 4 = 3 THEN SCB_LIST_NULL ELSE taken
  <2>1. Plus(p', RingSize - 1) = p
    BY <1>1, RingArithmetic
  <2>2. QED BY <1>1, <2>1, RingSizeFacts DEF Entry, Wipe, GroupSize
<1>9. TypeOK'
  <2>1. qoutfifo' \in [Positions -> Tags \cup {SCB_LIST_NULL}]
    BY DEF Wipe, IInv, TypeOK
  <2>2. QED BY <1>1, <2>1 DEF IInv, TypeOK
<1>10. \A i \in 0 .. Pending - 2 : Entry(i)' = Entry(i + 1)
  BY <1>2, <1>7, RingSizeFacts
<1>11. PendingEntries'
  <2>1. \A i \in 0 .. Pending - 2 : /\ i + 1 \in 0 .. Pending - 1
                                    /\ i + 1 # 0 /\ 0 \in 0 .. Pending - 1
    BY <1>2
  <2>2. \A i \in 0 .. Pending - 2 : Entry(i)' \in Posted'
    BY <1>3, <1>6, <1>10, <2>1 DEF IInv, PendingEntries
  <2>3. ASSUME NEW i \in 0 .. Pending - 2, NEW j \in 0 .. Pending - 2,
               Entry(i)' = Entry(j)'
        PROVE  i = j
    <3>1. Entry(i + 1) = Entry(j + 1)
      BY <1>10, <2>3
    <3>2. i + 1 = j + 1
      BY <2>1, <3>1 DEF IInv, PendingEntries
    <3>3. QED BY <3>2
  <2>4. ASSUME NEW u \in Posted'
        PROVE  \E i \in 0 .. Pending - 2 : Entry(i)' = u
    <3>1. u \in Posted /\ u # taken
      BY <1>6
    <3>2. PICK k \in 0 .. Pending - 1 : Entry(k) = u
      BY <3>1 DEF IInv, PendingEntries
    <3>3. k # 0
      BY <1>3, <3>1, <3>2
    <3>4. k - 1 \in 0 .. Pending - 2 /\ (k - 1) + 1 = k
      BY <1>2, <3>3
    <3>5. Entry(k - 1)' = Entry(k)
      BY <1>10, <3>4
    <3>6. QED BY <3>2, <3>4, <3>5
  <2>5. (0 .. Pending - 1)' = 0 .. Pending - 2
    BY <1>2, <1>5
  <2>6. QED BY <2>2, <2>3, <2>4, <2>5 DEF PendingEntries
<1>12. EmptyEntries'
  <2>1. SUFFICES ASSUME NEW i \in Pending - 1 .. Unwiped' - 1
                 PROVE  Entry(i)' = SCB_LIST_NULL
    BY <1>5 DEF EmptyEntries
  <2>2. /\ p % 4 = 3 => Unwiped' = RingSize
        /\ p % 4 # 3 => Unwiped' = Unwiped - 1 /\ Unwiped <= RingSize
    BY <1>1, RingSizeFacts DEF Unwiped, GroupSize, Succ, Positions
  <2>3. i \in Nat
    BY <1>2, <1>4
  <2>4. CASE p % 4 = 3
    <3>1. Unwiped = RingSize - 3
      BY <2>4 DEF Unwiped, GroupSize
    <3>2. CASE i = RingSize - 1
      BY <1>8, <2>4, <3>2
    <3>3. CASE i # RingSize - 1 /\ i + 1 >= RingSize - 3
      BY <1>7, <2>2, <2>3, <2>4, <3>3, RingSizeFacts
    <3>4. CASE i + 1 < RingSize - 3
      <4>1. i + 1 \in Pending .. Unwiped - 1 /\ i \in 0 .. RingSize - 2
        BY <1>2, <2>3, <3>1, <3>4, RingSizeFacts
      <4>2. Entry(i)' = Entry(i + 1)
        BY <1>7, <2>3, <3>4, <4>1, RingSizeFacts
      <4>3. QED BY <4>1, <4>2 DEF IInv, EmptyEntries
    <3>5. QED BY <2>3, <3>2, <3>3, <3>4, RingSizeFacts
  <2>5. CASE p % 4 # 3
    <3>1. i + 1 \in Pending .. Unwiped - 1 /\ i \in 0 .. RingSize - 2
      BY <1>1, <1>2, <2>2, <2>3, <2>5, RingSizeFacts DEF Unwiped, GroupSize
    <3>2. Entry(i)' = Entry(i + 1)
      BY <1>7, <2>5, <3>1
    <3>3. QED BY <3>1, <3>2 DEF IInv, EmptyEntries
  <2>6. QED BY <2>4, <2>5
<1>13. SequencerState'
  <2>1. taken \notin running
    BY <1>6 DEF Posted
  <2>2. QED BY <2>1 DEF IInv, SequencerState, Succ
<1>14. InterruptState'
  BY DEF IInv, InterruptState
<1>15. QED BY <1>2, <1>4, <1>5, <1>9, <1>10, <1>11, <1>12, <1>13, <1>14 DEF IInv

-----------------------------------------------------------------------------
(* A bus reset that does not catch the sequencer between taking a position    *)
(* and filling it.                                                            *)

\* An entry x that the drained ring may not hold a stale tag in: its group was
\* wiped, or it lay among the empty entries before the drain.
LEMMA DrainDistances ==
    ASSUME NEW p \in Positions, NEW n \in Positions, n <= RingSize - 3,
           NEW i \in 0 .. RingSize - (Plus(p, n) % 4) - 1,
           NEW x, x = Plus(Plus(p, n), i)
    PROVE  /\ x \in Positions
           /\ x + 3 - (x % 4) \in Positions
           /\ \/ Ahead(p, x + 3 - (x % 4)) < n
              \/ Ahead(p, x) \in n .. RingSize - (p % 4) - 1
BY RingSizeFacts DEF Positions, Plus, Ahead

LEMMA ResetChannelStep ==
    ASSUME IInv, ResetChannel, RaceReset = FALSE
    PROVE  IInv' /\ Pending' = 0
<1> DEFINE p == qoutfifonext
           full == {n \in 0 .. RingSize - 1 - (p % GroupSize) :
                       \A i \in 0 .. n : Entry(i) # SCB_LIST_NULL}
           taken == {Plus(p, i) : i \in full}
           End(i) == i + (GroupSize - 1) - (i % GroupSize)
<1>1. /\ p \in Positions /\ seq # "post" /\ PostEnd = SDSCB_QOFF
      /\ p % 4 \in 0 .. 3 /\ Unwiped = RingSize - (p % 4)
  <2>1. seq # "post" /\ PostEnd = SDSCB_QOFF
    BY DEF ResetChannel, PostEnd
  <2>2. p \in Positions /\ Unwiped = RingSize - (p % 4)
    BY DEF IInv, TypeOK, Unwiped, GroupSize
  <2>3. p % 4 \in 0 .. 3
    BY <2>2, RingSizeFacts
  <2>4. QED BY <2>1, <2>2, <2>3
<1>2. Pending \in Nat /\ Pending \in Positions /\ Pending <= RingSize - 3
  BY PendingBound, PendingFacts, RingSizeFacts DEF Positions
<1>3. full = 0 .. Pending - 1
  <2>1. ASSUME NEW n \in full PROVE n \in 0 .. Pending - 1
    <3>1. n \in 0 .. Unwiped - 1 /\ \A i \in 0 .. n : Entry(i) # SCB_LIST_NULL
      BY <1>1, RingSizeFacts DEF GroupSize
    <3>2. ~ (n >= Pending)
      <4>1. SUFFICES ASSUME n >= Pending PROVE FALSE
        OBVIOUS
      <4>2. Pending \in 0 .. n /\ Pending \in Pending .. Unwiped - 1
        BY <1>1, <1>2, <3>1, <4>1, RingSizeFacts
      <4>3. QED BY <3>1, <4>2 DEF IInv, EmptyEntries
    <3>3. QED BY <1>1, <1>2, <3>1, <3>2, RingSizeFacts
  <2>2. ASSUME NEW n \in 0 .. Pending - 1 PROVE n \in full
    <3>1. n \in 0 .. RingSize - 1 - (p % GroupSize)
      BY <1>1, <1>2, RingSizeFacts DEF GroupSize
    <3>2. \A i \in 0 .. n : i \in 0 .. Pending - 1
      BY <1>2
    <3>3. \A i \in 0 .. n : Entry(i) # SCB_LIST_NULL
      BY <3>2, QoutfifoAssumption DEF IInv, PendingEntries, TypeOK, Posted
    <3>4. QED BY <3>1, <3>3
  <2>3. QED BY <2>1, <2>2
<1>4. Cardinality(full) = Pending
  <2>1. 0 \in Int /\ Pending - 1 \in Int
    BY <1>2
  <2>2. Cardinality(0 .. Pending - 1) =
            IF 0 > Pending - 1 THEN 0 ELSE Pending - 1 - 0 + 1
    BY <2>1, FS_Interval
  <2>3. Cardinality(0 .. Pending - 1) = Pending
    BY <1>2, <2>2
  <2> HIDE DEF full
  <2>4. QED BY <1>3, <2>3
<1>5. /\ p' = Plus(p, Cardinality(full))
      /\ qoutfifo' = [i \in Positions |-> IF End(i) \in taken
                                          THEN SCB_LIST_NULL ELSE qoutfifo[i]]
  BY DEF Entry, ResetChannel
<1> HIDE DEF full, End
<1>6. p' = SDSCB_QOFF /\ p' \in Positions /\ p' = Plus(p, Pending)
  BY <1>1, <1>4, <1>5, PendingFacts DEF IInv, TypeOK
<1>7. PostEnd' = p' /\ Pending' = 0 /\ Posted' = {}
  <2>1. PostEnd' = SDSCB_QOFF /\ Posted' = {}
    BY DEF PostEnd, Posted, ResetChannel
  <2>2. Ahead(p', p') = 0
    BY <1>6, AheadFacts
  <2>3. QED BY <1>6, <2>1, <2>2 DEF Pending
<1>8. TypeOK'
  <2>1. qoutfifo' \in [Positions -> Tags \cup {SCB_LIST_NULL}]
    BY <1>5 DEF IInv, TypeOK
  <2>2. QED BY <1>6, <2>1 DEF IInv, TypeOK, ResetChannel
<1>9. PendingEntries'
  BY <1>7 DEF PendingEntries
<1>10. EmptyEntries'
  <2>1. SUFFICES ASSUME NEW i \in 0 .. Unwiped' - 1
                 PROVE  Entry(i)' = SCB_LIST_NULL
    BY <1>7 DEF EmptyEntries
  <2> DEFINE x == Plus(p', i)
             e == x + 3 - (x % 4)
  <2>2. i \in 0 .. RingSize - (Plus(p, Pending) % 4) - 1
    BY <1>6 DEF Unwiped, GroupSize
  <2>3. /\ x \in Positions /\ e \in Positions
        /\ \/ Ahead(p, e) < Pending
           \/ Ahead(p, x) \in Pending .. RingSize - (p % 4) - 1
    BY <1>1, <1>2, <1>6, <2>2, DrainDistances
  <2>4. End(x) = e
    BY <2>3, RingSizeFacts DEF End, GroupSize
  <2>5. Entry(i)' = IF e \in taken THEN SCB_LIST_NULL ELSE qoutfifo[x]
    BY <1>5, <2>3, <2>4 DEF Entry
  <2>6. CASE Ahead(p, e) < Pending
    <3> HIDE DEF e
    <3>1. Ahead(p, e) \in Positions /\ Plus(p, Ahead(p, e)) = e
      BY <1>1, <2>3, RingArithmetic
    <3>2. Ahead(p, e) \in 0 .. Pending - 1
      BY <1>2, <2>6, <3>1, RingSizeFacts DEF Positions
    <3>3. e \in taken
      BY <1>3, <3>1, <3>2
    <3>4. QED BY <2>5, <3>3
  <2>7. CASE Ahead(p, x) \in Pending .. RingSize - (p % 4) - 1
    <3>1. Plus(p, Ahead(p, x)) = x
      BY <1>1, <2>3, RingArithmetic
    <3>2. Entry(Ahead(p, x)) = SCB_LIST_NULL
      BY <1>1, <2>7 DEF IInv, EmptyEntries
    <3>3. QED BY <2>5, <3>1, <3>2 DEF Entry
  <2>8. QED BY <2>3, <2>6, <2>7
<1>11. SequencerState' /\ InterruptState'
  BY <1>7 DEF IInv, SequencerState, InterruptState, ResetChannel
<1>12. QED BY <1>7, <1>8, <1>9, <1>10, <1>11 DEF IInv

-----------------------------------------------------------------------------
LEMMA IInvStep ==
    ASSUME IInv, RaceReset = FALSE, [Next]_vars
    PROVE  IInv'
<1>1. ASSUME NEW t \in Tags, TakePosition(t) PROVE IInv'
  BY <1>1, TakePositionStep
<1>2. CASE PostByte
  BY <1>2, PostByteStep
<1>3. CASE RaiseCmdCmplt
  BY <1>3, RaiseCmdCmpltStep
<1>4. ASSUME NEW t \in Tags, Issue(t) PROVE IInv'
  BY <1>4, IssueStep
<1>5. CASE Interrupt \/ DeliverClrint \/ FlushDeviceWrites \/ QoutfifoEmpty
  BY <1>5, HandlerStep
<1>6. CASE RunQoutfifo
  BY <1>6, RunQoutfifoStep
<1>7. CASE ResetChannel
  BY <1>7, ResetChannelStep
<1>8. CASE UNCHANGED vars
  <2>1. UNCHANGED <<qoutfifo, qoutfifonext>> /\ TypeOK'
    BY <1>8 DEF vars, hostvars, seqvars, IInv, TypeOK
  <2>2. PostEnd' = PostEnd /\ Posted' = Posted
    BY <1>8 DEF vars, hostvars, seqvars, PostEnd, Posted
  <2>3. Pending' = Pending /\ PendingEntries' /\ EmptyEntries'
    BY <2>1, <2>2, RingUnchanged
  <2>4. SequencerState' /\ InterruptState'
    BY <1>8, <2>3 DEF vars, hostvars, seqvars, IInv, SequencerState,
                      InterruptState, Succ
  <2>5. QED BY <2>1, <2>3, <2>4 DEF IInv
<1>9. QED BY <1>1, <1>2, <1>3, <1>4, <1>5, <1>6, <1>7, <1>8
          DEF Next, Sequencer, Host

THEOREM Invariance == RaceReset = FALSE => (Spec => []IInv)
<1>1. ASSUME RaceReset = FALSE PROVE Spec => []IInv
  <2>1. Init => IInv
    BY InitIInv
  <2>2. IInv /\ [Next]_vars => IInv'
    BY <1>1, IInvStep
  <2>3. QED BY <2>1, <2>2, PTL DEF Spec
<1>2. QED BY <1>1

LEMMA IInvImplies ==
    ASSUME IInv
    PROVE  /\ TypeOK /\ PostLandsOnEmptyEntry /\ EveryEntryHasItsScb
           /\ CheckSeesPosted /\ NoLostInterrupt
<1>1. PostLandsOnEmptyEntry
  BY NextPostIsEmpty
     DEF PostLandsOnEmptyEntry, IInv, SequencerState, PostEnd
<1>2. /\ qoutfifonext \in Positions /\ Entry(0) = qoutfifo[qoutfifonext]
      /\ Pending \in Nat /\ Pending <= RingSize - 3 /\ qoutfifonext % 4 \in 0 .. 3
  <2>1. qoutfifonext \in Positions /\ Entry(0) = qoutfifo[qoutfifonext]
    BY RingArithmetic DEF IInv, TypeOK, Entry
  <2>2. Pending \in Nat /\ Pending <= RingSize - 3
    BY PendingFacts, PendingBound, RingSizeFacts
  <2>3. qoutfifonext % 4 \in 0 .. 3
    BY <2>1, RingSizeFacts
  <2>4. QED BY <2>1, <2>2, <2>3
<1>3. EveryEntryHasItsScb
  <2>1. SUFFICES ASSUME qoutfifo[qoutfifonext] # SCB_LIST_NULL
                 PROVE  qoutfifo[qoutfifonext] \in Posted
    BY DEF EveryEntryHasItsScb
  <2>2. Pending > 0
    <3>1. SUFFICES ASSUME Pending = 0 PROVE FALSE
      BY <1>2
    <3>2. 0 \in Pending .. Unwiped - 1
      BY <1>2, <3>1, RingSizeFacts DEF Unwiped, GroupSize
    <3>3. QED BY <1>2, <2>1, <3>2 DEF IInv, EmptyEntries
  <2>3. QED BY <1>2, <2>2 DEF IInv, PendingEntries
<1>4. Posted # {} => Pending > 0
  BY <1>2 DEF IInv, PendingEntries
<1>5. CheckSeesPosted
  BY <1>2, <1>4, QoutfifoAssumption
     DEF CheckSeesPosted, IInv, PendingEntries, Posted, TypeOK
<1>6. NoLostInterrupt
  BY <1>4 DEF NoLostInterrupt, IInv, InterruptState
<1>7. QED BY <1>1, <1>3, <1>5, <1>6 DEF IInv

\* The variables keep their types, whatever the depth of the queue.
THEOREM TypeCorrect == RaceReset = FALSE => (Spec => []TypeOK)
<1>1. IInv => TypeOK
  BY DEF IInv
<1>2. QED BY <1>1, Invariance, PTL

\* The argument of aic7xxx.h for AHC_MAX_QUEUE: with three entries to spare,
\* complete_post never DMAs a tag over a completion the host has not wiped.
THEOREM PostsNeverCollide == RaceReset = FALSE => (Spec => []PostLandsOnEmptyEntry)
<1>1. IInv => PostLandsOnEmptyEntry
  BY IInvImplies
<1>2. QED BY <1>1, Invariance, PTL

\* ahc_run_qoutfifo never completes a command twice, nor one the card still
\* has: every entry it reads names an SCB whose completion was posted.
THEOREM CompletionsAreGenuine == RaceReset = FALSE => (Spec => []EveryEntryHasItsScb)
<1>1. IInv => EveryEntryHasItsScb
  BY IInvImplies
<1>2. QED BY <1>1, Invariance, PTL

\* No completion is hidden from the check at the head of ahc_intr.
THEOREM NothingIsMissed == RaceReset = FALSE => (Spec => []CheckSeesPosted)
<1>1. IInv => CheckSeesPosted
  BY IInvImplies
<1>2. QED BY <1>1, Invariance, PTL

\* With the handler out, a posted completion has its interrupt asserted: the
\* order clear, flush, walk of ahc_intr is what this rests on.
THEOREM InterruptsAreNotLost == RaceReset = FALSE => (Spec => []NoLostInterrupt)
<1>1. IInv => NoLostInterrupt
  BY IInvImplies
<1>2. QED BY <1>1, Invariance, PTL
-----------------------------------------------------------------------------
(* The ring implements the completion channel, step by step: its pending     *)
(* entries, in order, are the channel's queue.                               *)

Finished == [i \in 1 .. Pending |-> qoutfifo[Plus(qoutfifonext, i - 1)]]

\* A function on 1 .. n is a sequence of length n.
LEMMA FunctionIsSeq ==
    ASSUME NEW S, NEW n \in Nat, NEW f \in [1 .. n -> S]
    PROVE  f \in Seq(S) /\ Len(f) = n
<1>1. f \in Seq(S)
  BY SeqDef
<1>2. DOMAIN f = 1 .. Len(f) /\ DOMAIN f = 1 .. n /\ Len(f) \in Nat
  BY <1>1, LenProperties
<1>3. QED BY <1>1, <1>2

LEMMA FinishedFacts ==
    ASSUME IInv
    PROVE  /\ Pending \in Nat
           /\ Finished \in Seq(Posted) /\ Len(Finished) = Pending
           /\ \A i \in 1 .. Pending : Finished[i] = Entry(i - 1)
<1>1. Pending \in Nat
  BY PendingFacts, RingSizeFacts DEF Positions
<1>2. \A i \in 1 .. Pending : Finished[i] = Entry(i - 1) /\ Entry(i - 1) \in Posted
  <2>1. \A i \in 1 .. Pending : i - 1 \in 0 .. Pending - 1
    BY <1>1
  <2>2. QED BY <2>1 DEF Finished, Entry, IInv, PendingEntries
<1>3. Finished \in [1 .. Pending -> Posted]
  BY <1>2 DEF Finished
<1>4. QED BY <1>1, <1>2, <1>3, FunctionIsSeq

\* Steps that leave the ring and its ends alone do not change the queue.
LEMMA FinishedUnchanged ==
    ASSUME UNCHANGED <<qoutfifo, qoutfifonext>>, PostEnd' = PostEnd
    PROVE  Finished' = Finished
BY DEF Finished, Pending

\* post_byte finishes the command: its tag joins the end of the queue.
LEMMA PostByteFinishes ==
    ASSUME IInv, PostByte
    PROVE  \E t \in Tags : Channel!Finish(t)
<1>1. ARG_1 \in running /\ ARG_1 \in Tags /\ running' = running \ {ARG_1}
  BY DEF PostByte, IInv, TypeOK, SequencerState
<1>2. /\ IInv' /\ Pending \in Nat /\ Pending' = Pending + 1 /\ Pending \in Positions
      /\ \A i \in Positions :
            Entry(i)' = IF i = Pending THEN ARG_1 ELSE Entry(i)
  BY PostByteStep
<1>3. Finished' = Append(Finished, ARG_1)
  <2>1. Finished \in Seq(Tags) /\ Len(Finished) = Pending
    <3>1. Posted \subseteq Tags
      BY DEF Posted, IInv, TypeOK
    <3>2. QED BY <3>1, FinishedFacts, SeqMonotonic
  <2>2. Append(Finished, ARG_1) \in Seq(Tags)
        /\ Len(Append(Finished, ARG_1)) = Pending + 1
        /\ Append(Finished, ARG_1)[Pending + 1] = ARG_1
        /\ \A i \in 1 .. Pending : Append(Finished, ARG_1)[i] = Finished[i]
    BY <1>1, <2>1, AppendProperties
  <2>3. \A i \in 1 .. Pending + 1 : Finished'[i] = Entry(i - 1)'
    BY <1>2 DEF Finished, Entry
  <2>4. \A i \in 1 .. Pending + 1 : i - 1 \in Positions
    BY <1>2, RingSizeFacts DEF Positions
  <2>5. \A i \in 1 .. Pending + 1 : Finished'[i] = Append(Finished, ARG_1)[i]
    <3>1. TAKE i \in 1 .. Pending + 1
    <3>2. CASE i = Pending + 1
      <4>1. i - 1 = Pending
        BY <1>2, <3>2
      <4>2. QED BY <1>2, <2>2, <2>3, <2>4, <3>2, <4>1
    <3>3. CASE i # Pending + 1
      <4>1. i \in 1 .. Pending /\ i - 1 # Pending
        BY <1>2, <3>3
      <4>2. QED BY <1>2, <2>2, <2>3, <2>4, <4>1, FinishedFacts
    <3>4. QED BY <3>2, <3>3
  <2>6. Finished' \in Seq(Tags) /\ Len(Finished') = Pending + 1
    <3>1. \A i \in 1 .. Pending + 1 : Append(Finished, ARG_1)[i] \in Tags
      BY <1>2, <2>2, ElementOfSeq
    <3>2. Finished' \in [1 .. Pending + 1 -> Tags]
      BY <1>2, <2>5, <3>1 DEF Finished
    <3>3. QED BY <1>2, <3>2, FunctionIsSeq
  <2>7. QED BY <1>2, <2>2, <2>5, <2>6, SeqEqual
<1>4. QED BY <1>1, <1>3 DEF Channel!Finish, Finished

\* One turn of ahc_run_qoutfifo delivers the oldest completion.
LEMMA RunQoutfifoDelivers ==
    ASSUME IInv, RunQoutfifo
    PROVE  Channel!Deliver
<1>1. /\ Pending \in Nat \ {0} /\ Pending' = Pending - 1
      /\ \A i \in 0 .. Pending - 2 : Entry(i)' = Entry(i + 1)
  BY RunQoutfifoStep
<1>2. Finished \in Seq(Posted) /\ Len(Finished) = Pending /\ Finished # <<>>
  BY <1>1, FinishedFacts, EmptySeq
<1>3. /\ Tail(Finished) \in Seq(Posted) /\ Len(Tail(Finished)) = Pending - 1
      /\ \A i \in 1 .. Pending - 1 : Tail(Finished)[i] = Finished[i + 1]
  BY <1>2, HeadTailProperties
<1>4. \A i \in 1 .. Pending - 1 : Finished'[i] = Tail(Finished)[i]
  <2>1. TAKE i \in 1 .. Pending - 1
  <2>2. i - 1 \in 0 .. Pending - 2 /\ i + 1 \in 1 .. Pending /\ (i - 1) + 1 = i
        /\ (i + 1) - 1 = i
    BY <1>1
  <2>3. Finished'[i] = Entry(i - 1)'
    BY <1>1 DEF Finished, Entry
  <2>4. Entry(i - 1)' = Entry(i)
    BY <1>1, <2>2
  <2>5. Finished[i + 1] = Entry(i)
    BY <2>2, FinishedFacts
  <2>6. QED BY <1>3, <2>3, <2>4, <2>5
<1>5. Finished' \in Seq(Posted) /\ Len(Finished') = Pending - 1
  <2>1. \A i \in 1 .. Pending - 1 : Tail(Finished)[i] \in Posted
    BY <1>1, <1>3, ElementOfSeq
  <2>2. Finished' \in [1 .. Pending - 1 -> Posted]
    BY <1>1, <1>4, <2>1 DEF Finished
  <2>3. QED BY <1>1, <2>2, FunctionIsSeq
<1>6. Finished' = Tail(Finished)
  BY <1>3, <1>4, <1>5, SeqEqual
<1>7. running' = running
  BY DEF RunQoutfifo, seqvars
<1>8. QED BY <1>2, <1>6, <1>7 DEF Channel!Deliver, Finished

\* A tag is given to the card only while no completion of it is on its way.
LEMMA IssueSubmits ==
    ASSUME IInv, NEW t \in Tags, Issue(t)
    PROVE  Channel!Submit(t)
<1>1. Finished' = Finished
  BY FinishedUnchanged DEF Issue, PostEnd
<1>2. t \notin running
  BY DEF Issue, IInv, SequencerState
<1>3. \A i \in DOMAIN Finished : Finished[i] # t
  <2>1. \A i \in 1 .. Pending : Finished[i] \in Posted
    BY FinishedFacts, ElementOfSeq
  <2>2. QED BY <2>1 DEF Issue, Posted, Finished
<1>4. QED BY <1>1, <1>2, <1>3 DEF Issue, Finished, Channel!Submit, Channel!InFlight

LEMMA ResetChannelResets ==
    ASSUME IInv, ResetChannel, RaceReset = FALSE
    PROVE  Channel!Reset
<1>1. Pending' = 0
  BY ResetChannelStep
<1>2. Finished' \in [1 .. 0 -> Tags]
  BY <1>1 DEF Finished
<1>3. Finished' = <<>>
  BY <1>2, FunctionIsSeq, EmptySeq
<1>4. QED BY <1>3 DEF Channel!Reset, Finished, ResetChannel

LEMMA ChannelStep ==
    ASSUME IInv, RaceReset = FALSE, [Next]_vars
    PROVE  [Channel!Next]_(Channel!vars)
<1>1. ASSUME UNCHANGED <<qoutfifo, qoutfifonext, running>>, PostEnd' = PostEnd
      PROVE  UNCHANGED Channel!vars
  BY <1>1, FinishedUnchanged DEF Finished, Channel!vars
<1>2. ASSUME NEW t \in Tags, TakePosition(t) PROVE UNCHANGED Channel!vars
  BY <1>1, <1>2 DEF TakePosition, hostvars, PostEnd
<1>3. CASE RaiseCmdCmplt
  BY <1>1, <1>3 DEF RaiseCmdCmplt, hostvars, PostEnd
<1>4. CASE Interrupt \/ DeliverClrint \/ FlushDeviceWrites \/ QoutfifoEmpty
  BY <1>1, <1>4 DEF Interrupt, DeliverClrint, FlushDeviceWrites, QoutfifoEmpty,
                    hostvars, seqvars, PostEnd
<1>5. CASE UNCHANGED vars
  BY <1>1, <1>5 DEF vars, hostvars, seqvars, PostEnd
<1>6. CASE PostByte
  BY <1>6, PostByteFinishes DEF Channel!Next
<1>7. CASE RunQoutfifo
  BY <1>7, RunQoutfifoDelivers DEF Channel!Next
<1>8. ASSUME NEW t \in Tags, Issue(t) PROVE Channel!Next
  BY <1>8, IssueSubmits DEF Channel!Next
<1>9. CASE ResetChannel
  BY <1>9, ResetChannelResets DEF Channel!Next
<1>10. QED BY <1>2, <1>3, <1>4, <1>5, <1>6, <1>7, <1>8, <1>9
           DEF Next, Sequencer, Host

LEMMA ChannelInit == Init => Channel!Init
<1> SUFFICES ASSUME Init PROVE Channel!Init
  OBVIOUS
<1>1. Pending = 0
  BY RingSizeFacts DEF Init, Pending, PostEnd, Ahead
<1>2. Finished \in [1 .. 0 -> Tags]
  BY <1>1 DEF Finished
<1>3. Finished = <<>>
  BY <1>2, FunctionIsSeq, EmptySeq
<1>4. running = {}
  BY DEF Init
<1>5. QED BY <1>3, <1>4 DEF Channel!Init, Finished

\* Every behaviour of the ring and its handler is one of the completion
\* channel: the commands the card finishes come back once each, in the order
\* they finished.  That they all come back needs fairness and is left to TLC.
THEOREM ImplementsChannelSafety ==
    RaceReset = FALSE => (Spec => Channel!Init /\ [][Channel!Next]_(Channel!vars))
<1>1. ASSUME RaceReset = FALSE
      PROVE  Spec => Channel!Init /\ [][Channel!Next]_(Channel!vars)
  <2>1. Init => Channel!Init
    BY ChannelInit
  <2>2. IInv /\ [Next]_vars => [Channel!Next]_(Channel!vars)
    BY <1>1, ChannelStep
  <2>3. Spec => []IInv
    BY <1>1, Invariance
  <2>4. QED BY <2>1, <2>2, <2>3, PTL DEF Spec
<1>2. QED BY <1>1
=============================================================================
