------------------------- MODULE AhcQinfifo_proofs -------------------------
(***************************************************************************)
(* AhcQinfifo for every number of SCBs and every ring that has room for    *)
(* them, with at most one reset of the background channel during a fetch   *)
(* (with two, a tag can come back to the head of the queue, see the        *)
(* README).                                                                *)
(*                                                                         *)
(* The inductive invariant joins three views of a command: its SCB (hscb,  *)
(* scbindex, command), its place (queue, card or output queue) and its     *)
(* hardware SCB (what the card reads).  The search moves the command at    *)
(* the head of the queue to another hardware SCB; for that the proof goes  *)
(* through the SCBs, which do not move.                                    *)
(***************************************************************************)
EXTENDS AhcQinfifo, FiniteSetTheorems, SequenceTheorems, TLAPS

Reserved == hscb[next_queued_scb]
Known    == {t \in Tags : scbindex[t] # None}
OnCard   == {t \in Tags : card[t] # None}
Distinct(list) == \A i, j \in DOMAIN list : list[i] = list[j] => i = j

\* SCBs and hardware SCBs.
Owners ==
    /\ TagsFindTheirScb
    /\ \A s \in Busy : command[s] # None
    /\ \A s, u \in Busy : command[s].req = command[u].req => s = u

\* Tags and the places of their commands.
Places ==
    /\ Distinct(Queue)
    /\ Known = QueueTags \cup OnCard \cup posted
    /\ QueueTags \cap (OnCard \cup posted) = {}
    /\ OnCard \cap posted = {}
    /\ waiting \subseteq OnCard

\* What the hardware SCBs, and the card's copies of them, say.
Contents ==
    /\ \A t \in Known : /\ mem[t].cmd # None
                        /\ mem[t].cmd.req = command[scbindex[t]].req
    /\ \A t \in OnCard : card[t] = mem[t].cmd

\* The card's end of the queue is one the driver has had.
CardBehind == Count(SNSCB_QOFF, HNSCB_QOFF) <= Len(Queue)

\* A fetch is of the head of the queue and of its present contents, or the
\* head has changed for as long as this fetch lasts.
FetchIsFresh ==
    seq # "poll" =>
        IF NEXT_QUEUED_SCB = ARG_1
        THEN /\ ScbAvail
             /\ Queue # <<>>
             /\ seq \in {"dma_next", "check"} => slot.cmd = mem[ARG_1].cmd
             /\ seq = "check" => slot.next = mem[ARG_1].next
        ELSE resets >= 1

IInv == TypeOK /\ Owners /\ Places /\ Contents /\ CardBehind
               /\ ListMatchesRing /\ FetchIsFresh
-----------------------------------------------------------------------------
(* What is kept of a sequence. *)

Rank(K, i) == Cardinality({j \in K : j <= i})

\* The ranks of the elements of a finite set of numbers count it.
LEMMA RankFacts ==
    ASSUME NEW m \in Nat, NEW K \in SUBSET (1 .. m)
    PROVE  /\ IsFiniteSet(K) /\ Cardinality(K) \in Nat /\ Cardinality(K) <= m
           /\ \A i \in K : Rank(K, i) \in 1 .. Cardinality(K)
           /\ \A i, j \in K : i < j => Rank(K, i) < Rank(K, j)
           /\ \A n \in 1 .. Cardinality(K) : \E i \in K : Rank(K, i) = n
<1>0. \A i \in K : i \in Nat
  OBVIOUS
<1>1. IsFiniteSet(1 .. m) /\ Cardinality(1 .. m) = m
  BY FS_Interval
<1>2. IsFiniteSet(K) /\ Cardinality(K) \in Nat /\ Cardinality(K) <= m
  BY <1>1, FS_Subset, FS_CardinalityType
<1>3. ASSUME NEW i \in K
      PROVE  /\ IsFiniteSet({j \in K : j <= i}) /\ Rank(K, i) \in Nat
             /\ Rank(K, i) <= Cardinality(K) /\ Rank(K, i) # 0
  <2>1. {j \in K : j <= i} \in SUBSET K /\ i \in {j \in K : j <= i}
    BY <1>0
  <2>2. IsFiniteSet({j \in K : j <= i}) /\ Rank(K, i) <= Cardinality(K)
    BY <1>2, <2>1, FS_Subset DEF Rank
  <2>3. QED BY <2>1, <2>2, FS_EmptySet, FS_CardinalityType DEF Rank
<1>4. ASSUME NEW i \in K, NEW j \in K, i < j PROVE Rank(K, i) < Rank(K, j)
  <2> DEFINE L(x) == {y \in K : y <= x}
  <2>1. i \in Nat /\ j \in Nat
    BY <1>0
  <2>2. L(i) \in SUBSET L(j)
    <3>1. \A y \in K : y <= i => y <= j
      BY <1>0, <1>4, <2>1
    <3>2. QED BY <3>1
  <2>3. j \in L(j) /\ j \notin L(i)
    BY <1>4, <2>1
  <2>4. IsFiniteSet(L(j))
    BY <1>3
  <2> HIDE DEF L
  <2>5. Cardinality(L(i)) <= Cardinality(L(j)) /\ Cardinality(L(i)) # Cardinality(L(j))
    BY <2>2, <2>3, <2>4, FS_Subset
  <2>6. Rank(K, i) = Cardinality(L(i)) /\ Rank(K, j) = Cardinality(L(j))
    BY DEF Rank, L
  <2>7. Rank(K, i) \in Nat /\ Rank(K, j) \in Nat
    BY <1>3
  <2>8. QED BY <2>5, <2>6, <2>7
<1>5. ASSUME NEW i \in K PROVE Rank(K, i) \in 1 .. Cardinality(K)
  <2>1. Rank(K, i) \in Nat /\ Rank(K, i) <= Cardinality(K) /\ Rank(K, i) # 0
    BY <1>3
  <2>2. QED BY <1>2, <2>1
<1>6. \A i, j \in K : Rank(K, i) = Rank(K, j) => i = j
  <2>1. SUFFICES ASSUME NEW i \in K, NEW j \in K, Rank(K, i) = Rank(K, j)
                 PROVE  ~(i < j) /\ ~(j < i)
    BY <1>0
  <2>2. Rank(K, i) \in Nat
    BY <1>3
  <2>3. QED BY <1>4, <2>1, <2>2
<1>7. ASSUME NEW n \in 1 .. Cardinality(K) PROVE \E i \in K : Rank(K, i) = n
  <2> DEFINE f == [i \in K |-> Rank(K, i)]
             N == 1 .. Cardinality(K)
  <2>1. IsFiniteSet(N) /\ Cardinality(N) = Cardinality(K) /\ n \in N
    BY <1>2, FS_Interval
  <2>2. \A i \in K : Rank(K, i) \in N
    BY <1>5
  <2> HIDE DEF N
  <2>3. f \in [K -> N] /\ \A i, j \in K : f[i] = f[j] => i = j
    BY <1>6, <2>2
  <2> HIDE DEF f
  <2>4. f \in Injection(K, N)
    BY <2>3 DEF Injection, IsInjective
  <2>5. f \in Surjection(K, N)
    BY <2>1, <2>4, FS_Injection
  <2>6. \E i \in K : f[i] = n
    BY <2>1, <2>5 DEF Surjection
  <2>7. QED BY <2>6 DEF f
<1>8. QED BY <1>2, <1>4, <1>5, <1>7

LEMMA SameRank ==
    ASSUME NEW m \in Nat, NEW K \in SUBSET (1 .. m), NEW i \in K, NEW j \in K,
           Rank(K, i) = Rank(K, j)
    PROVE  i = j
<1>1. i \in Nat /\ j \in Nat /\ Rank(K, i) \in 1 .. Cardinality(K)
  BY RankFacts
<1>2. i < j => Rank(K, i) < Rank(K, j)
  BY RankFacts
<1>3. j < i => Rank(K, j) < Rank(K, i)
  BY RankFacts
<1>4. QED BY <1>1, <1>2, <1>3

\* Nth lists the set in increasing order.
LEMMA NthFacts ==
    ASSUME NEW m \in Nat, NEW K \in SUBSET (1 .. m)
    PROVE  /\ \A n \in 1 .. Cardinality(K) : Nth(K, n) \in K
           /\ \A k, n \in 1 .. Cardinality(K) : k < n => Nth(K, k) < Nth(K, n)
           /\ \A i \in K : \E n \in 1 .. Cardinality(K) : Nth(K, n) = i
<1>0. \A i \in K : i \in Nat
  OBVIOUS
<1>1. ASSUME NEW n \in 1 .. Cardinality(K)
      PROVE  Nth(K, n) \in K /\ Rank(K, Nth(K, n)) = n
  <2>1. \E i \in K : Rank(K, i) = n
    BY RankFacts
  <2>2. QED BY <2>1 DEF Nth, Rank
<1>2. ASSUME NEW i \in K PROVE \E n \in 1 .. Cardinality(K) : Nth(K, n) = i
  <2>1. Rank(K, i) \in 1 .. Cardinality(K)
    BY RankFacts
  <2>2. Nth(K, Rank(K, i)) \in K /\ Rank(K, Nth(K, Rank(K, i))) = Rank(K, i)
    BY <1>1, <2>1
  <2> DEFINE j == Nth(K, Rank(K, i))
  <2>3. j \in K /\ Rank(K, j) = Rank(K, i)
    BY <2>2
  <2> HIDE DEF j
  <2>4. j = i
    BY <1>0, <2>3, SameRank
  <2>5. QED BY <2>1, <2>4 DEF j
<1>3. ASSUME NEW k \in 1 .. Cardinality(K), NEW n \in 1 .. Cardinality(K), k < n
      PROVE  Nth(K, k) < Nth(K, n)
  <2> DEFINE i == Nth(K, k)
             j == Nth(K, n)
  <2>1. i \in K /\ j \in K /\ Rank(K, i) = k /\ Rank(K, j) = n
    BY <1>1
  <2> HIDE DEF i, j
  <2>2. Rank(K, i) < Rank(K, j) /\ k \in Nat /\ n \in Nat
    BY <1>3, <2>1, RankFacts
  <2>3. i # j
    BY <1>3, <2>1, <2>2
  <2>4. ~(j < i)
    <3>1. SUFFICES ASSUME j < i PROVE FALSE
      OBVIOUS
    <3>2. Rank(K, j) < Rank(K, i)
      BY <2>1, <3>1, RankFacts
    <3>3. QED BY <2>1, <2>2, <3>2
  <2>5. i < j
    BY <1>0, <2>1, <2>3, <2>4
  <2>6. QED BY <2>5 DEF i, j
<1>4. QED BY <1>1, <1>2, <1>3

\* Keeping everything, and keeping something, of a sequence without duplicates.
LEMMA KeptFacts ==
    ASSUME NEW S, NEW s \in Seq(S), NEW K \in SUBSET DOMAIN s
    PROVE  /\ Kept(s, K) \in Seq(S) /\ Len(Kept(s, K)) = Cardinality(K)
           /\ Cardinality(K) \in 0 .. Len(s)
           /\ \A n \in 1 .. Cardinality(K) :
                 Nth(K, n) \in K /\ Kept(s, K)[n] = s[Nth(K, n)]
<1>1. DOMAIN s = 1 .. Len(s) /\ Len(s) \in Nat /\ s \in [1 .. Len(s) -> S]
  BY LenProperties
<1>2. K \in SUBSET (1 .. Len(s)) /\ Cardinality(K) \in 0 .. Len(s)
      /\ Cardinality(K) \in Nat
  <2>1. K \in SUBSET (1 .. Len(s))
    BY <1>1
  <2>2. QED BY <1>1, <2>1, RankFacts
<1>3. \A n \in 1 .. Cardinality(K) : Nth(K, n) \in K
  BY <1>1, <1>2, NthFacts
<1>4. Kept(s, K) \in [1 .. Cardinality(K) -> S]
  BY <1>1, <1>2, <1>3 DEF Kept
<1>5. Kept(s, K) \in Seq(S) /\ Len(Kept(s, K)) = Cardinality(K)
  <2>1. Kept(s, K) \in Seq(S)
    BY <1>2, <1>4, SeqDef
  <2>2. DOMAIN Kept(s, K) = 1 .. Len(Kept(s, K)) /\ Len(Kept(s, K)) \in Nat
    BY <2>1, LenProperties
  <2>3. DOMAIN Kept(s, K) = 1 .. Cardinality(K)
    BY DEF Kept
  <2>4. QED BY <1>2, <2>1, <2>2, <2>3
<1>6. QED BY <1>2, <1>3, <1>5 DEF Kept

LEMMA KeepAll ==
    ASSUME NEW S, NEW s \in Seq(S)
    PROVE  Kept(s, DOMAIN s) = s
<1> DEFINE K == DOMAIN s
<1>1. K = 1 .. Len(s) /\ Len(s) \in Nat
  BY LenProperties
<1>2. Cardinality(K) = Len(s)
  BY <1>1, FS_Interval
<1>3. \A i \in 1 .. Len(s) : Rank(K, i) = i
  <2>1. TAKE i \in 1 .. Len(s)
  <2>2. {j \in K : j <= i} = 1 .. i /\ i \in Nat /\ i >= 1
    BY <1>1
  <2>3. Cardinality(1 .. i) = i
    BY <2>2, FS_Interval
  <2>4. QED BY <2>2, <2>3 DEF Rank
<1>4. \A n \in 1 .. Len(s) : Nth(K, n) = n
  <2>1. TAKE n \in 1 .. Len(s)
  <2>2. n \in K /\ Rank(K, n) = n
    BY <1>1, <1>3
  <2>3. Nth(K, n) \in K /\ Rank(K, Nth(K, n)) = n
    BY <2>2 DEF Nth, Rank
  <2>4. QED BY <1>1, <1>3, <2>3
<1>5. Kept(s, K) \in Seq(S) /\ Len(Kept(s, K)) = Len(s)
      /\ \A n \in 1 .. Len(s) : Kept(s, K)[n] = s[n]
  BY <1>2, <1>4, KeptFacts
<1>6. QED BY <1>5, SeqEqual
-----------------------------------------------------------------------------
(* Positions of the ring. *)

LEMMA ModFacts ==
    ASSUME NEW R \in Nat, R > 0, NEW a \in Nat
    PROVE  /\ a < R => a % R = a
           /\ a >= R /\ a < 2 * R => a % R = a - R
  OBVIOUS

LEMMA RingOne ==
    RingSize \in Nat /\ RingSize > 0
<1>1. Cardinality(Scbs) \in Nat /\ Cardinality(Scbs) # 0
  BY QinfifoAssumption, FS_CardinalityType, FS_EmptySet
<1>2. QED BY <1>1, QinfifoAssumption

LEMMA PlusIs ==
    ASSUME NEW p \in Positions, NEW n \in Positions
    PROVE  Plus(p, n) = IF p + n < RingSize THEN p + n ELSE p + n - RingSize
<1> DEFINE a == p + n
<1>1. a \in Nat /\ a < 2 * RingSize /\ a = p + n
  BY RingOne DEF Positions
<1>2. Plus(p, n) = a % RingSize
  BY DEF Plus
<1> HIDE DEF a
<1>3. Plus(p, n) = IF a < RingSize THEN a ELSE a - RingSize
  <2>1. a \in Nat /\ a < 2 * RingSize
    BY <1>1
  <2>2. ~(a < RingSize) => a >= RingSize
    BY <1>1, RingOne
  <2>3. a % RingSize = IF a < RingSize THEN a ELSE a - RingSize
    BY <2>1, <2>2, RingOne, ModFacts
  <2>4. QED BY <1>2, <2>3
<1>4. QED BY <1>1, <1>3, RingOne DEF Positions

LEMMA CountIs ==
    ASSUME NEW p \in Positions, NEW q \in Positions
    PROVE  Count(p, q) = IF p <= q THEN q - p ELSE q + RingSize - p
<1> DEFINE a == q + RingSize - p
<1>1. a \in Nat /\ a < 2 * RingSize /\ (a < RingSize <=> ~(p <= q))
      /\ a - RingSize = q - p
  BY RingOne DEF Positions
<1>2. Count(p, q) = a % RingSize /\ a = q + RingSize - p
  BY DEF Count
<1> HIDE DEF a
<1>3. CASE a < RingSize
  BY <1>1, <1>2, <1>3, RingOne, ModFacts
<1>4. CASE ~(a < RingSize)
  <2>1. a >= RingSize
    BY <1>1, <1>4, RingOne
  <2>2. QED BY <1>1, <1>2, <1>4, <2>1, RingOne, ModFacts
<1>5. QED BY <1>3, <1>4

\* Plus and Count are inverse to each other.
LEMMA RingFacts ==
    ASSUME NEW p \in Positions, NEW q \in Positions, NEW n \in Positions
    PROVE  /\ Plus(p, n) \in Positions /\ Count(p, q) \in Positions
           /\ Count(p, Plus(p, n)) = n /\ Plus(p, Count(p, q)) = q
           /\ Count(p, q) = 0 <=> p = q
           /\ Plus(p, 0) = p
<1>0. /\ RingSize \in Nat /\ p \in Nat /\ q \in Nat /\ n \in Nat
      /\ p < RingSize /\ q < RingSize /\ n < RingSize
      /\ \A x \in Nat : x < RingSize => x \in Positions
  BY RingOne DEF Positions
<1> DEFINE a == Plus(p, n)
           c == Count(p, q)
<1>1. a = IF p + n < RingSize THEN p + n ELSE p + n - RingSize
  BY PlusIs
<1>2. c = IF p <= q THEN q - p ELSE q + RingSize - p
  BY CountIs
<1> HIDE DEF a, c
<1>3. a \in Nat /\ a < RingSize
  BY <1>0, <1>1
<1>4. c \in Nat /\ c < RingSize
  BY <1>0, <1>2
<1>5. a \in Positions /\ c \in Positions /\ 0 \in Positions
  BY <1>0, <1>3, <1>4
<1>6. Count(p, a) = IF p <= a THEN a - p ELSE a + RingSize - p
  BY <1>5, CountIs
<1>7. Count(p, a) = n
  BY <1>0, <1>1, <1>3, <1>6
<1>8. Plus(p, c) = IF p + c < RingSize THEN p + c ELSE p + c - RingSize
  BY <1>5, PlusIs
<1>9. Plus(p, c) = q
  BY <1>0, <1>2, <1>4, <1>8
<1>10. Plus(p, 0) = IF p + 0 < RingSize THEN p + 0 ELSE p + 0 - RingSize
  BY <1>5, PlusIs
<1>11. Plus(p, 0) = p
  BY <1>0, <1>10
<1>12. c = 0 <=> p = q
  BY <1>0, <1>2
<1>13. QED BY <1>5, <1>7, <1>9, <1>11, <1>12 DEF a, c

\* One more at the end, or one less at the beginning.
LEMMA RingSteps ==
    ASSUME NEW p \in Positions, NEW q \in Positions
    PROVE  /\ Plus(q, 1) \in Positions
           /\ Count(p, q) + 1 < RingSize => Count(p, Plus(q, 1)) = Count(p, q) + 1
           /\ p # q => /\ Count(p, q) > 0
                       /\ Count(Plus(p, 1), q) = Count(p, q) - 1
                       /\ \A i \in 0 .. Count(p, q) - 2 :
                            Plus(Plus(p, 1), i) = Plus(p, i + 1)
<1>0. 1 \in Positions \/ RingSize = 1
  BY RingOne DEF Positions
<1>1. CASE RingSize = 1
  <2>1. p = 0 /\ q = 0 /\ Positions = {0}
    BY <1>1 DEF Positions
  <2>2. Plus(0, 1) = 0
    BY <1>1 DEF Plus
  <2>3. Count(0, 0) = 0
    BY <1>1 DEF Count
  <2>4. QED BY <1>1, <2>1, <2>2, <2>3
<1>2. CASE 1 \in Positions
  <2>0. /\ RingSize \in Nat /\ p \in Nat /\ q \in Nat
        /\ p < RingSize /\ q < RingSize /\ 1 < RingSize
        /\ \A x \in Nat : x < RingSize => x \in Positions
    BY <1>2, RingOne DEF Positions
  <2> DEFINE a == Plus(q, 1)
             b == Plus(p, 1)
             c == Count(p, q)
  <2>1. a \in Positions /\ b \in Positions /\ c \in Positions
    BY <1>2, RingFacts
  <2>2. a = IF q + 1 < RingSize THEN q + 1 ELSE q + 1 - RingSize
    BY <1>2, PlusIs
  <2>3. b = IF p + 1 < RingSize THEN p + 1 ELSE p + 1 - RingSize
    BY <1>2, PlusIs
  <2>4. c = IF p <= q THEN q - p ELSE q + RingSize - p
    BY CountIs
  <2> HIDE DEF a, b, c
  <2>5. a \in Nat /\ b \in Nat /\ c \in Nat /\ b < RingSize /\ c < RingSize
    BY <2>1, RingOne DEF Positions
  <2>6. Count(p, a) = IF p <= a THEN a - p ELSE a + RingSize - p
    BY <2>1, CountIs
  <2>7. Count(b, q) = IF b <= q THEN q - b ELSE q + RingSize - b
    BY <2>1, CountIs
  <2>8. c + 1 < RingSize => Count(p, a) = c + 1
    BY <2>0, <2>2, <2>4, <2>5, <2>6
  <2>9. p # q => c > 0 /\ Count(b, q) = c - 1
    BY <2>0, <2>3, <2>4, <2>5, <2>7
  <2>10. ASSUME p # q, NEW i \in 0 .. c - 2
         PROVE  Plus(b, i) = Plus(p, i + 1)
    <3>1. i \in Nat /\ i < RingSize /\ i + 1 < RingSize /\ i + 1 \in Nat
      BY <2>0, <2>5
    <3>2. i \in Positions /\ i + 1 \in Positions
      BY <2>0, <3>1
    <3>3. Plus(b, i) = IF b + i < RingSize THEN b + i ELSE b + i - RingSize
      BY <2>1, <3>2, PlusIs
    <3>4. Plus(p, i + 1) = IF p + (i + 1) < RingSize THEN p + (i + 1)
                           ELSE p + (i + 1) - RingSize
      BY <3>2, PlusIs
    <3>5. QED BY <2>0, <2>3, <2>5, <3>1, <3>3, <3>4
  <2>11. QED BY <2>1, <2>8, <2>9, <2>10 DEF a, b, c
<1>3. QED BY <1>0, <1>1, <1>2
-----------------------------------------------------------------------------
(* The queue in the ring. *)

Elements(list) == {list[i] : i \in DOMAIN list}

\* A ring that holds a list from p to e.
LEMMA RingHolds ==
    ASSUME NEW list \in Seq(Tags), NEW p \in Positions, NEW e, NEW f,
           Count(p, e) = Len(list),
           \A i \in 1 .. Len(list) : f[Plus(p, i - 1)] = list[i]
    PROVE  [i \in 1 .. Count(p, e) |-> f[Plus(p, i - 1)]] = list
<1> DEFINE q == [i \in 1 .. Count(p, e) |-> f[Plus(p, i - 1)]]
<1>1. Len(list) \in Nat /\ DOMAIN list = 1 .. Len(list)
      /\ list = [i \in 1 .. Len(list) |-> list[i]]
  BY LenProperties
<1>2. q = [i \in 1 .. Len(list) |-> list[i]]
  OBVIOUS
<1>3. QED BY <1>1, <1>2

LEMMA QueueFacts ==
    ASSUME TypeOK, Places
    PROVE  /\ Queue \in Seq(Tags)
           /\ Len(Queue) = Count(SNSCB_QOFF, qinfifonext)
           /\ DOMAIN Queue = 1 .. Len(Queue)
           /\ Len(Queue) \in Nat /\ Len(Queue) < RingSize
           /\ QueueTags = Elements(Queue)
           /\ \A i \in 1 .. Len(Queue) :
                 /\ Queue[i] \in QueueTags /\ Queue[i] \in Tags
                 /\ Queue[i] = qinfifo[Plus(SNSCB_QOFF, i - 1)]
<1> DEFINE n == Count(SNSCB_QOFF, qinfifonext)
<1>1. n \in Nat /\ n < RingSize
  <2>1. SNSCB_QOFF \in Positions /\ qinfifonext \in Positions
    BY DEF TypeOK
  <2>2. n \in Positions
    BY <2>1, RingFacts
  <2> HIDE DEF n
  <2>3. QED BY <2>2, RingOne DEF Positions
<1>2. DOMAIN Queue = 1 .. n /\ \A i \in 1 .. n : Queue[i] = qinfifo[Plus(SNSCB_QOFF, i - 1)]
  BY DEF Queue
<1>3. \A i \in 1 .. n : Queue[i] \in QueueTags
  BY <1>2 DEF QueueTags
<1>4. QueueTags \subseteq Tags
  BY DEF Places, Known
<1>5. Queue \in [1 .. n -> Tags]
  BY <1>3, <1>4 DEF Queue
<1>6. Queue \in Seq(Tags)
  BY <1>1, <1>5, SeqDef
<1>7. Len(Queue) = n
  <2>1. Len(Queue) \in Nat /\ DOMAIN Queue = 1 .. Len(Queue)
    BY <1>6, LenProperties
  <2> HIDE DEF n
  <2>2. QED BY <1>1, <1>2, <2>1
<1> HIDE DEF n
<1>8. QED BY <1>1, <1>2, <1>3, <1>4, <1>6, <1>7 DEF QueueTags, Elements, n

\* A sequence without duplicates is as long as its set is large.
LEMMA DistinctSize ==
    ASSUME NEW list \in Seq(Tags), Distinct(list)
    PROVE  Elements(list) \in SUBSET Tags /\ Cardinality(Elements(list)) = Len(list)
<1> DEFINE N == 1 .. Len(list)
           E == Elements(list)
<1>1. Len(list) \in Nat /\ DOMAIN list = N /\ \A i \in N : list[i] \in Tags
  BY LenProperties, ElementOfSeq
<1>2. IsFiniteSet(N) /\ Cardinality(N) = Len(list)
  <2>1. Len(list) \in Nat
    BY LenProperties
  <2>2. QED BY <2>1, FS_Interval
<1> HIDE DEF N
<1>3. list \in [N -> E] /\ E \in SUBSET Tags
  <2>1. list = [i \in N |-> list[i]]
    BY <1>1, LenProperties
  <2>2. QED BY <1>1, <2>1 DEF Elements
<1>4. list \in Bijection(N, E)
  BY <1>1, <1>3 DEF Bijection, Injection, Surjection, IsInjective, Elements, Distinct
<1>5. Cardinality(N) = Cardinality(E)
  <2>1. ExistsBijection(N, E)
    BY <1>4 DEF ExistsBijection
  <2>2. QED BY <1>2, <2>1, FS_Bijection
<1>6. QED BY <1>2, <1>3, <1>5

\* Two hardware SCBs outside the queue leave room in the ring for one more.
LEMMA Room ==
    ASSUME TypeOK, Places, NEW t \in Tags \ QueueTags, NEW u \in Tags \ QueueTags, t # u
    PROVE  Len(Queue) + 1 < RingSize
<1>1. Cardinality(QueueTags) = Len(Queue) /\ QueueTags \in SUBSET Tags /\ Len(Queue) \in Nat
  BY QueueFacts, DistinctSize DEF Places
<1>2. IsFiniteSet(Tags) /\ Cardinality(Tags) \in Nat /\ Cardinality(Tags) <= RingSize
  BY QinfifoAssumption, FS_CardinalityType
<1> DEFINE A == QueueTags \cup {t}
           B == A \cup {u}
<1>3. IsFiniteSet(QueueTags)
  BY <1>1, <1>2, FS_Subset
<1>4. IsFiniteSet(A) /\ Cardinality(A) = Len(Queue) + 1
  BY <1>1, <1>3, FS_AddElement
<1>5. IsFiniteSet(B) /\ Cardinality(B) = Len(Queue) + 2
  <2>1. u \notin A
    OBVIOUS
  <2> HIDE DEF A
  <2>2. IsFiniteSet(B) /\ Cardinality(B) = Cardinality(A) + 1
    BY <1>4, <2>1, FS_AddElement
  <2>3. QED BY <1>1, <1>4, <2>2
<1>6. B \in SUBSET Tags
  BY <1>1
<1> HIDE DEF B
<1>7. Cardinality(B) <= Cardinality(Tags)
  BY <1>2, <1>6, FS_Subset
<1>8. QED BY <1>1, <1>2, <1>5, <1>7, RingOne

\* The links of a list without duplicates.
LEMMA LinkedFacts ==
    ASSUME NEW list \in Seq(Tags), Distinct(list), NEW reserved \in Tags,
           NEW i \in DOMAIN list
    PROVE  Linked(list, reserved)[list[i]] = Append(list, reserved)[i + 1]
<1>1. Len(list) \in Nat /\ DOMAIN list = 1 .. Len(list) /\ list[i] \in Tags
  BY LenProperties, ElementOfSeq
<1>2. (CHOOSE j \in DOMAIN list : list[j] = list[i]) = i
  BY DEF Distinct
<1>3. Linked(list, reserved)[list[i]] = IF i < Len(list) THEN list[i + 1] ELSE reserved
  BY <1>1, <1>2 DEF Linked
<1>4. \A k \in 1 .. Len(list) + 1 :
         Append(list, reserved)[k] = IF k = Len(list) + 1 THEN reserved ELSE list[k]
  BY <1>1, AppendProperties
<1>5. QED BY <1>1, <1>3, <1>4

LEMMA LinkedType ==
    ASSUME TypeOK, NEW list \in Seq(Tags), NEW reserved \in Tags
    PROVE  Linked(list, reserved) \in [Tags -> Tags]
<1>1. Len(list) \in Nat /\ DOMAIN list = 1 .. Len(list)
      /\ \A i \in 1 .. Len(list) : list[i] \in Tags
  BY LenProperties, ElementOfSeq
<1>2. ASSUME NEW t \in Tags PROVE Linked(list, reserved)[t] \in Tags
  <2>1. CASE \E i \in DOMAIN list : list[i] = t
    <3>1. PICK i \in DOMAIN list : i = CHOOSE j \in DOMAIN list : list[j] = t
      BY <2>1
    <3>2. Linked(list, reserved)[t] = IF i < Len(list) THEN list[i + 1] ELSE reserved
      BY <2>1, <3>1 DEF Linked
    <3>3. i \in Nat /\ i >= 1 /\ (i < Len(list) => i + 1 \in 1 .. Len(list))
      BY <1>1
    <3>4. QED BY <1>1, <3>2, <3>3
  <2>2. CASE ~(\E i \in DOMAIN list : list[i] = t)
    BY <2>2 DEF Linked, TypeOK
  <2>3. QED BY <2>1, <2>2
<1>3. QED BY <1>2 DEF Linked
-----------------------------------------------------------------------------
(* What a search leaves, and what its installation makes of it. *)

\* The result r describes the same commands as the state: those on the card
\* (on), in the output queue and found stay with their hardware SCBs, the rest
\* of the known tags are the list.
SoundTypes(r) ==
    /\ r.list \in Seq(Tags) /\ Len(r.list) < RingSize
    /\ r.hscb \in [Scbs -> Tags]
    /\ r.scbindex \in [Tags -> Scbs \cup {None}]
    /\ r.reserved = r.hscb[next_queued_scb]
    /\ r.mem \in [Tags -> [cmd : Commands \cup {None}, next : Tags]]

SoundOwners(r) ==
    /\ \A s, u \in Scbs : r.hscb[s] = r.hscb[u] => s = u
    /\ \A t \in Tags, s \in Scbs : r.scbindex[t] = s <=> r.hscb[s] = t /\ s \in Busy
    /\ \A s \in Busy : /\ r.mem[r.hscb[s]].cmd # None
                       /\ r.mem[r.hscb[s]].cmd.req = command[s].req

SoundPlaces(r, on) ==
    /\ Distinct(r.list)
    /\ \A t \in Tags : r.scbindex[t] # None
                         <=> t \in Elements(r.list) \cup on \cup posted \cup r.found
    /\ Elements(r.list) \cap (on \cup posted \cup r.found) = {}
    /\ r.found \subseteq Known
    /\ \A t \in on \cup posted \cup r.found : r.scbindex[t] = scbindex[t]
    /\ \A t \in on : r.mem[t].cmd = mem[t].cmd

SoundLinks(r) ==
    \A i \in DOMAIN r.list : r.mem[r.list[i]].next = Append(r.list, r.reserved)[i + 1]

Sound(r, on) ==
    SoundTypes(r) /\ SoundOwners(r) /\ SoundPlaces(r, on) /\ SoundLinks(r)

\* The result becomes the state; done are completed, extra go to the output
\* queue, and the rest of what leaves the card is in the list again.
Leaving(on, done, extra) == done \cup extra \cup (OnCard \ on)

Installed(r, on, done, extra, cmds) ==
    /\ on \subseteq OnCard /\ waiting \subseteq on
    /\ Sound(r, on)
    /\ r.found \subseteq done /\ done \subseteq on \cup posted \cup r.found
    /\ extra \subseteq on /\ extra \cap (done \cup waiting) = {}
    /\ cmds \in [Scbs -> Commands \cup {None}]
    /\ \A s \in Busy : cmds[s] # None /\ cmds[s].req = command[s].req
    /\ Install(r, done, cmds)
    /\ card' = [t \in Tags |-> IF t \in Leaving(on, done, extra) THEN None ELSE card[t]]
    /\ posted' = (posted \ done) \cup extra
    /\ seq' \in {"poll", seq} /\ resets' \in 0 .. ResetsPerFetch
    /\ UNCHANGED <<ARG_1, slot, SELBUSB>>

\* The ring holds the list, and the card knows its end.
LEMMA InstalledQueue ==
    ASSUME IInv, NEW r, NEW on, NEW done, NEW extra, NEW cmds,
           Installed(r, on, done, extra, cmds)
    PROVE  /\ Queue' = r.list
           /\ qinfifonext' \in Positions /\ HNSCB_QOFF' = qinfifonext'
           /\ SNSCB_QOFF' = SNSCB_QOFF
           /\ qinfifo' \in [Positions -> Tags \cup {None}]
           /\ Count(SNSCB_QOFF', HNSCB_QOFF') = Len(r.list)
<1> DEFINE p == SNSCB_QOFF
           e == Plus(p, Len(r.list))
<1>1. r.list \in Seq(Tags) /\ Len(r.list) < RingSize
  BY DEF Installed, Sound, SoundTypes
<1>2. Len(r.list) \in Nat /\ DOMAIN r.list = 1 .. Len(r.list)
      /\ \A i \in 1 .. Len(r.list) : r.list[i] \in Tags
  BY <1>1, LenProperties, ElementOfSeq
<1>3. p \in Positions /\ Len(r.list) \in Positions
  BY <1>1, <1>2, RingOne DEF IInv, TypeOK, Positions
<1>4. e \in Positions /\ Count(p, e) = Len(r.list)
  BY <1>3, RingFacts
<1>5. /\ qinfifonext' = e /\ HNSCB_QOFF' = e /\ SNSCB_QOFF' = p
      /\ qinfifo' = [q \in Positions |->
                        IF Count(p, q) < Len(r.list)
                        THEN r.list[Count(p, q) + 1] ELSE qinfifo[q]]
  BY DEF Installed, Install
<1> HIDE DEF p, e
<1>6. ASSUME NEW i \in 1 .. Len(r.list)
      PROVE  qinfifo'[Plus(p, i - 1)] = r.list[i]
  <2>1. i - 1 \in Positions /\ i - 1 < Len(r.list) /\ (i - 1) + 1 = i
    BY <1>1, <1>2, RingOne DEF Positions
  <2>2. Plus(p, i - 1) \in Positions /\ Count(p, Plus(p, i - 1)) = i - 1
    BY <1>3, <2>1, RingFacts, ZenonT(40)
  <2>3. QED BY <1>5, <2>1, <2>2
<1>7. Queue' = [i \in 1 .. Count(p, e) |-> qinfifo'[Plus(p, i - 1)]]
  BY <1>5 DEF Queue
<1>8. Queue' = r.list
  <2>1. [i \in 1 .. Count(p, e) |-> qinfifo'[Plus(p, i - 1)]] = r.list
    BY <1>1, <1>3, <1>4, <1>6, RingHolds
  <2>2. QED BY <1>7, <2>1
<1>9. qinfifo' \in [Positions -> Tags \cup {None}]
  <2>1. ASSUME NEW q \in Positions
        PROVE  (IF Count(p, q) < Len(r.list)
                THEN r.list[Count(p, q) + 1] ELSE qinfifo[q]) \in Tags \cup {None}
    <3>1. Count(p, q) \in Positions
      BY <1>3, RingFacts
    <3>2. Count(p, q) \in Nat
      BY <3>1, RingOne DEF Positions
    <3>3. Count(p, q) < Len(r.list) => Count(p, q) + 1 \in 1 .. Len(r.list)
      BY <1>2, <3>2
    <3>4. qinfifo[q] \in Tags \cup {None}
      BY DEF IInv, TypeOK
    <3>5. QED BY <1>2, <3>3, <3>4
  <2>2. QED BY <1>5, <2>1
<1>10. QED BY <1>4, <1>5, <1>8, <1>9 DEF p

LEMMA InstalledOwners ==
    ASSUME IInv, NEW r, NEW on, NEW done, NEW extra, NEW cmds,
           Installed(r, on, done, extra, cmds)
    PROVE  /\ Owners'
           /\ Busy' = Busy \ {scbindex[t] : t \in done}
           /\ \A t \in done : r.scbindex[t] = scbindex[t]
           /\ \A s \in Busy' : command'[s].req = command[s].req /\ command'[s] = cmds[s]
           /\ scbindex' = [t \in Tags |-> IF t \in done THEN None ELSE r.scbindex[t]]
           /\ hscb' = r.hscb
<1> DEFINE freed == {scbindex[t] : t \in done}
<1>1. /\ hscb' = r.hscb
      /\ scbindex' = [t \in Tags |-> IF t \in done THEN None ELSE r.scbindex[t]]
      /\ free_scbs' = free_scbs \cup freed
      /\ command' = [s \in Scbs |-> IF s \in freed THEN None ELSE cmds[s]]
  BY DEF Installed, Install
<1>2. Busy' = Busy \ freed
  BY <1>1 DEF Busy
<1>3. \A t \in done : r.scbindex[t] = scbindex[t]
  BY DEF Installed, Sound, SoundPlaces
<1>4. done \subseteq Tags
  BY DEF Installed, OnCard, Known, IInv, TypeOK, Sound, SoundPlaces
<1>5. /\ \A s, u \in Scbs : r.hscb[s] = r.hscb[u] => s = u
      /\ \A t \in Tags, s \in Scbs : r.scbindex[t] = s <=> r.hscb[s] = t /\ s \in Busy
  BY DEF Installed, Sound, SoundOwners
<1>6. Busy \subseteq Scbs /\ None \notin Scbs /\ r.hscb \in [Scbs -> Tags]
  BY QinfifoAssumption DEF Busy, Installed, Sound, SoundTypes
<1> HIDE DEF freed
<1>7. ASSUME NEW t \in Tags, NEW s \in Scbs
      PROVE  scbindex'[t] = s <=> hscb'[s] = t /\ s \in Busy'
  <2>1. CASE t \in done
    <3>1. scbindex'[t] = None /\ None # s
      BY <1>1, <1>6, <2>1
    <3>2. ASSUME r.hscb[s] = t, s \in Busy PROVE s \in freed
      <4>1. r.scbindex[t] = s
        BY <1>5, <3>2
      <4>2. QED BY <1>3, <2>1, <4>1 DEF freed
    <3>3. QED BY <1>1, <1>2, <3>1, <3>2
  <2>2. CASE t \notin done
    <3>1. scbindex'[t] = r.scbindex[t]
      BY <1>1, <2>2
    <3>2. ASSUME r.hscb[s] = t, s \in freed PROVE s \notin Busy
      <4>1. PICK d \in done : s = scbindex[d]
        BY <3>2 DEF freed
      <4>2. r.scbindex[d] = s /\ d \in Tags
        BY <1>3, <1>4, <4>1
      <4>3. r.hscb[s] = d
        BY <1>5, <4>2
      <4>4. QED BY <2>2, <3>2, <4>1, <4>3
    <3>3. QED BY <1>1, <1>2, <1>5, <3>1, <3>2
  <2>3. QED BY <2>1, <2>2
<1>8. TagsFindTheirScb'
  <2>1. \A s, u \in Scbs : hscb'[s] = hscb'[u] => s = u
    BY <1>1, <1>5
  <2>2. QED BY <1>7, <2>1 DEF TagsFindTheirScb
<1>9. \A s \in Busy : cmds[s] # None /\ cmds[s].req = command[s].req
  BY DEF Installed
<1>10. \A s \in Busy' : command'[s] = cmds[s] /\ s \in Busy
  BY <1>1, <1>2, <1>6
<1>11. \A s \in Busy' : command'[s] # None /\ command'[s].req = command[s].req
  BY <1>9, <1>10
<1>12. \A s, u \in Busy' : command'[s].req = command'[u].req => s = u
  BY <1>10, <1>11 DEF IInv, Owners
<1>13. Owners'
  BY <1>8, <1>11, <1>12 DEF Owners
<1>14. QED BY <1>1, <1>2, <1>3, <1>10, <1>11, <1>13 DEF freed

LEMMA InstalledPlaces ==
    ASSUME IInv, NEW r, NEW on, NEW done, NEW extra, NEW cmds,
           Installed(r, on, done, extra, cmds)
    PROVE  /\ Places'
           /\ OnCard' = on \ (done \cup extra)
           /\ \A t \in OnCard' : card'[t] = card[t]
<1>0. \A s \in Scbs \cup Tags : s # None
  BY QinfifoAssumption
<1>1. /\ on \subseteq OnCard /\ waiting \subseteq on
      /\ r.found \subseteq done /\ done \subseteq on \cup posted \cup r.found
      /\ extra \subseteq on /\ extra \cap (done \cup waiting) = {}
      /\ card' = [t \in Tags |-> IF t \in Leaving(on, done, extra) THEN None ELSE card[t]]
      /\ posted' = (posted \ done) \cup extra
      /\ waiting' = waiting \ done
  BY DEF Installed, Install
<1>2. /\ Distinct(r.list)
      /\ \A t \in Tags : r.scbindex[t] # None
                         <=> t \in Elements(r.list) \cup on \cup posted \cup r.found
      /\ Elements(r.list) \cap (on \cup posted \cup r.found) = {}
  BY DEF Installed, Sound, SoundPlaces
<1>3. OnCard \subseteq Tags /\ posted \subseteq Tags /\ OnCard \cap posted = {}
  BY DEF OnCard, IInv, TypeOK, Places
<1>4. OnCard' = on \ (done \cup extra)
  <2>1. OnCard' = {t \in Tags : card'[t] # None}
    BY DEF OnCard
  <2>2. \A t \in Tags : card'[t] # None <=> t \in OnCard /\ t \notin Leaving(on, done, extra)
    BY <1>1 DEF OnCard
  <2>3. QED BY <1>1, <1>3, <2>1, <2>2 DEF Leaving
<1>5. \A t \in OnCard' : card'[t] = card[t]
  <2>1. \A t \in OnCard' : t \in Tags /\ card'[t] # None
    BY DEF OnCard
  <2>2. QED BY <1>1, <2>1
<1>6. QueueTags' = Elements(r.list)
  <2>1. Queue' = r.list
    BY InstalledQueue
  <2>2. QED BY <2>1 DEF QueueTags, Elements
<1>7. Distinct(Queue)'
  BY <1>2, InstalledQueue DEF Distinct
<1>8. Elements(r.list) \subseteq Tags
  <2>1. r.list \in Seq(Tags)
    BY DEF Installed, Sound, SoundTypes
  <2>2. QED BY <1>2, <2>1, DistinctSize
<1>9. Known' = QueueTags' \cup OnCard' \cup posted'
  <2>1. \A t \in Tags : scbindex'[t] # None <=> t \notin done /\ r.scbindex[t] # None
    BY InstalledOwners
  <2>2. \A t \in Tags : t \in Known' <=> t \notin done /\ r.scbindex[t] # None
    BY <2>1 DEF Known
  <2>3. \A t \in Tags : t \in Known'
           <=> t \in Elements(r.list) \cup (on \ done) \cup (posted \ done)
    BY <1>1, <1>2, <2>2
  <2>4. Known' \subseteq Tags
    BY DEF Known
  <2>5. QueueTags' \cup OnCard' \cup posted'
           = Elements(r.list) \cup (on \ done) \cup (posted \ done)
    BY <1>1, <1>4, <1>6
  <2>6. QED BY <1>1, <1>3, <1>8, <2>3, <2>4, <2>5
<1>10. QueueTags' \cap (OnCard' \cup posted') = {} /\ OnCard' \cap posted' = {}
       /\ waiting' \subseteq OnCard'
  BY <1>1, <1>2, <1>3, <1>4, <1>6
<1>11. QED BY <1>4, <1>5, <1>7, <1>9, <1>10 DEF Places

LEMMA InstalledContents ==
    ASSUME IInv, NEW r, NEW on, NEW done, NEW extra, NEW cmds,
           Installed(r, on, done, extra, cmds)
    PROVE  Contents'
<1>1. mem' = r.mem
  BY DEF Installed, Install
<1>2. \A s \in Busy : r.mem[r.hscb[s]].cmd # None /\ r.mem[r.hscb[s]].cmd.req = command[s].req
  BY DEF Installed, Sound, SoundOwners
<1>3. Busy' \subseteq Busy /\ \A s \in Busy' : command'[s].req = command[s].req
  BY InstalledOwners
<1>4. r.scbindex \in [Tags -> Scbs \cup {None}]
      /\ \A t \in Tags, s \in Scbs : r.scbindex[t] = s <=> r.hscb[s] = t /\ s \in Busy
  BY DEF Installed, Sound, SoundTypes, SoundOwners
<1>5. ASSUME NEW t \in Known'
      PROVE  /\ scbindex'[t] = r.scbindex[t] /\ scbindex'[t] \in Busy'
             /\ r.hscb[scbindex'[t]] = t
  <2>1. t \in Tags /\ scbindex'[t] # None
    BY DEF Known
  <2>2. scbindex'[t] = r.scbindex[t]
    BY <2>1, InstalledOwners
  <2>3. r.scbindex[t] \in Scbs
    BY <1>4, <2>1, <2>2
  <2>4. TagsFindTheirScb' /\ hscb' = r.hscb
    BY InstalledOwners DEF Owners
  <2>5. QED BY <1>4, <2>1, <2>2, <2>3, <2>4 DEF TagsFindTheirScb
<1>6. ASSUME NEW t \in Known'
      PROVE  mem'[t].cmd # None /\ mem'[t].cmd.req = command'[scbindex'[t]].req
  <2> DEFINE s == scbindex'[t]
  <2>1. s \in Busy' /\ r.hscb[s] = t
    BY <1>5
  <2> HIDE DEF s
  <2>2. mem'[t].cmd # None /\ mem'[t].cmd.req = command'[s].req
    BY <1>1, <1>2, <1>3, <2>1
  <2>3. QED BY <2>2 DEF s
<1>7. ASSUME NEW t \in OnCard' PROVE card'[t] = mem'[t].cmd
  <2>a. \A u \in OnCard' : card'[u] = card[u]
    BY InstalledPlaces, Zenon
  <2>b. Installed(r, on, done, extra, cmds) /\ OnCard' = on \ (done \cup extra)
    BY InstalledPlaces
  <2>c. on \subseteq OnCard
    BY DEF Installed
  <2>1. t \in on /\ t \in OnCard /\ card'[t] = card[t]
    BY <2>a, <2>b, <2>c
  <2>2. r.mem[t].cmd = mem[t].cmd
    BY <2>1 DEF Installed, Sound, SoundPlaces
  <2>3. QED BY <1>1, <2>1, <2>2 DEF IInv, Contents
<1>8. QED BY <1>6, <1>7 DEF Contents

\* All of the invariant but what it says of a fetch.
Settled == TypeOK /\ Owners /\ Places /\ Contents /\ CardBehind /\ ListMatchesRing

LEMMA InstalledSettles ==
    ASSUME IInv, NEW r, NEW on, NEW done, NEW extra, NEW cmds,
           Installed(r, on, done, extra, cmds)
    PROVE  Settled'
<1>1. SoundTypes(r) /\ SoundLinks(r)
  BY DEF Installed, Sound
<1>2. /\ Queue' = r.list /\ hscb' = r.hscb /\ mem' = r.mem
      /\ NEXT_QUEUED_SCB' = IF r.list = <<>> THEN r.reserved ELSE r.list[1]
  BY InstalledQueue DEF Installed, Install
<1>3. r.list \in Seq(Tags) /\ Len(r.list) \in Nat /\ DOMAIN r.list = 1 .. Len(r.list)
      /\ (r.list # <<>> => Len(r.list) # 0) /\ r.reserved \in Tags
      /\ \A i \in 1 .. Len(r.list) : r.list[i] \in Tags
  <2>1. r.list \in Seq(Tags) /\ r.reserved \in Tags
    BY <1>1, QinfifoAssumption DEF SoundTypes
  <2>2. QED BY <2>1, LenProperties, ElementOfSeq, EmptySeq
<1>4. NEXT_QUEUED_SCB' = Append(r.list, r.reserved)[1] /\ NEXT_QUEUED_SCB' \in Tags
  <2>1. \A k \in 1 .. Len(r.list) + 1 :
           Append(r.list, r.reserved)[k] = IF k = Len(r.list) + 1 THEN r.reserved ELSE r.list[k]
    BY <1>3, AppendProperties
  <2>2. CASE r.list = <<>>
    <3>1. Len(r.list) = 0
      BY <2>2
    <3>2. QED BY <1>2, <1>3, <2>1, <2>2, <3>1
  <2>3. CASE r.list # <<>>
    <3>1. Len(r.list) # 0 /\ 1 \in 1 .. Len(r.list)
      BY <1>3, <2>3
    <3>2. QED BY <1>2, <1>3, <2>1, <2>3, <3>1
  <2>4. QED BY <2>2, <2>3
<1>5. ListMatchesRing'
  <2>1. r.reserved = hscb'[next_queued_scb]
    BY <1>1, <1>2 DEF SoundTypes
  <2>2. \A i \in DOMAIN r.list :
           Append(r.list, r.reserved)[i] = r.list[i]
    BY <1>3, AppendProperties
  <2>3. QED BY <1>1, <1>2, <1>4, <2>1, <2>2 DEF ListMatchesRing, SoundLinks
<1>6. TypeOK'
  <2>1. free_scbs' \subseteq Scbs \ {next_queued_scb}
    <3>1. free_scbs' = free_scbs \cup {scbindex[t] : t \in done}
      BY DEF Installed, Install
    <3>2. \A t \in done : scbindex[t] \in Busy
      <4>1. TAKE t \in done
      <4>2. t \in Tags /\ scbindex[t] # None
        BY DEF Installed, OnCard, Known, IInv, Places, Sound, SoundPlaces
      <4>3. QED BY <4>2 DEF IInv, Owners, TypeOK, TagsFindTheirScb
    <3>3. QED BY <3>1, <3>2 DEF Busy, IInv, TypeOK
  <2>2. hscb' \in [Scbs -> Tags] /\ mem' \in [Tags -> [cmd : Commands \cup {None}, next : Tags]]
    BY <1>1, <1>2 DEF SoundTypes
  <2>3. scbindex' \in [Tags -> Scbs \cup {None}]
    BY <1>1, InstalledOwners DEF SoundTypes
  <2>4. command' \in [Scbs -> Commands \cup {None}]
    BY DEF Installed, Install
  <2>5. card' \in [Tags -> Commands \cup {None}]
    BY DEF Installed, IInv, TypeOK
  <2>6. posted' \subseteq Tags /\ waiting' \subseteq Tags
    BY DEF Installed, Install, IInv, TypeOK, OnCard
  <2>7. /\ qinfifo' \in [Positions -> Tags \cup {None}]
        /\ {qinfifonext', HNSCB_QOFF', SNSCB_QOFF'} \subseteq Positions
    BY InstalledQueue DEF IInv, TypeOK
  <2>8. seq' \in {"poll", "dma", "dma_next", "check"} /\ resets' \in 0 .. ResetsPerFetch
    BY DEF Installed, IInv, TypeOK
  <2>9. ARG_1' \in Tags /\ slot' \in [cmd : Commands \cup {None}, next : Tags]
        /\ SELBUSB' \in BOOLEAN
    BY DEF Installed, IInv, TypeOK
  <2>10. QED BY <1>4, <2>1, <2>2, <2>3, <2>4, <2>5, <2>6, <2>7, <2>8, <2>9 DEF TypeOK
<1>7. CardBehind'
  BY <1>2, <1>3, InstalledQueue DEF CardBehind
<1>8. QED BY <1>5, <1>6, <1>7, InstalledOwners, InstalledPlaces, InstalledContents DEF Settled
-----------------------------------------------------------------------------
(* The exchange of hardware SCBs. *)

\* An SCB gives its hardware SCB up for the reserved one.
LEMMA Exchange ==
    ASSUME TypeOK, \A x, y \in Scbs : hscb[x] = hscb[y] => x = y,
           NEW s \in Scbs, s # next_queued_scb,
           NEW h, h = [hscb EXCEPT ![s] = Reserved, ![next_queued_scb] = hscb[s]]
    PROVE  /\ h \in [Scbs -> Tags]
           /\ \A x, y \in Scbs : h[x] = h[y] => x = y
           /\ h[s] = Reserved /\ h[next_queued_scb] = hscb[s]
           /\ \A x \in Scbs \ {s, next_queued_scb} : h[x] = hscb[x]
           /\ hscb[s] # Reserved
<1>1. next_queued_scb \in Scbs
  BY QinfifoAssumption
<1>2. hscb \in [Scbs -> Tags]
  BY DEF TypeOK
<1>3. h \in [Scbs -> Tags] /\ h[s] = Reserved /\ h[next_queued_scb] = hscb[s]
      /\ \A x \in Scbs \ {s, next_queued_scb} : h[x] = hscb[x]
  BY <1>1, <1>2 DEF Reserved
<1>4. hscb[s] # Reserved
  BY <1>1 DEF Reserved
<1>5. ASSUME NEW x \in Scbs, NEW y \in Scbs, h[x] = h[y] PROVE x = y
  <2>1. CASE x = s
    BY <1>1, <1>3, <1>4, <1>5, <2>1 DEF Reserved
  <2>2. CASE x = next_queued_scb
    BY <1>1, <1>3, <1>4, <1>5, <2>2 DEF Reserved
  <2>3. CASE x \notin {s, next_queued_scb}
    BY <1>1, <1>3, <1>4, <1>5, <2>3 DEF Reserved
  <2>4. QED BY <2>1, <2>2, <2>3
<1>6. QED BY <1>3, <1>4, <1>5

\* Whose is a tag.
LEMMA OwnerFacts ==
    ASSUME TypeOK, Owners, Places
    PROVE  /\ \A t \in Known : scbindex[t] \in Busy /\ hscb[scbindex[t]] = t
           /\ \A s \in Busy : hscb[s] \in Known /\ scbindex[hscb[s]] = s
           /\ Reserved \in Tags /\ Reserved \notin Known
           /\ next_queued_scb \in Scbs /\ next_queued_scb \notin Busy /\ Busy \subseteq Scbs
           /\ QueueTags \subseteq Known /\ Known \subseteq Tags
           /\ OnCard \subseteq Known /\ posted \subseteq Known
           /\ None \notin Scbs
<1>1. None \notin Scbs /\ next_queued_scb \in Scbs
  BY QinfifoAssumption
<1>2. \A t \in Known : scbindex[t] \in Busy /\ hscb[scbindex[t]] = t
  BY DEF Known, TypeOK, Owners, TagsFindTheirScb
<1>3. Busy \subseteq Scbs /\ next_queued_scb \notin Busy
  BY DEF Busy
<1>4. ASSUME NEW s \in Busy PROVE hscb[s] \in Known /\ scbindex[hscb[s]] = s
  <2>1. hscb[s] \in Tags /\ s \in Scbs
    BY <1>3 DEF TypeOK
  <2>2. scbindex[hscb[s]] = s
    BY <2>1 DEF Owners, TagsFindTheirScb
  <2>3. QED BY <1>1, <2>1, <2>2 DEF Known
<1>5. Reserved \in Tags /\ Reserved \notin Known
  <2>1. Reserved \in Tags
    BY <1>1 DEF Reserved, TypeOK
  <2>2. ASSUME Reserved \in Known PROVE FALSE
    <3>1. scbindex[Reserved] \in Busy /\ hscb[scbindex[Reserved]] = Reserved
      BY <1>2, <2>2
    <3>2. scbindex[Reserved] = next_queued_scb
      BY <1>1, <1>3, <3>1 DEF Owners, TagsFindTheirScb, Reserved
    <3>3. QED BY <1>3, <3>1, <3>2
  <2>3. QED BY <2>1, <2>2
<1>6. QueueTags \subseteq Known /\ OnCard \subseteq Known /\ posted \subseteq Known
  BY DEF Places
<1>7. QED BY <1>1, <1>2, <1>3, <1>4, <1>5, <1>6 DEF Known
-----------------------------------------------------------------------------
(* ahc_search_qinfifo. *)

KeptAt(devices) == {i \in DOMAIN Queue : DeviceOf(Queue[i]) \notin devices}
KeptOf(devices) == Kept(Queue, KeptAt(devices))
FoundOf(devices) == {t \in QueueTags : DeviceOf(t) \in devices}

\* What is kept and what is found divide the queue.
LEMMA KeptAndFound ==
    ASSUME TypeOK, Places, NEW devices
    PROVE  /\ KeptOf(devices) \in Seq(Tags) /\ Distinct(KeptOf(devices))
           /\ Len(KeptOf(devices)) \in 0 .. Len(Queue)
           /\ Len(KeptOf(devices)) = Cardinality(KeptAt(devices))
           /\ \A n \in DOMAIN KeptOf(devices) :
                 Nth(KeptAt(devices), n) \in DOMAIN Queue
                 /\ KeptOf(devices)[n] = Queue[Nth(KeptAt(devices), n)]
           /\ Elements(KeptOf(devices)) = QueueTags \ FoundOf(devices)
           /\ FoundOf(devices) \subseteq QueueTags
<1> DEFINE K == KeptAt(devices)
           list == KeptOf(devices)
<1>1. Queue \in Seq(Tags) /\ DOMAIN Queue = 1 .. Len(Queue) /\ Len(Queue) \in Nat
      /\ QueueTags = Elements(Queue)
  BY QueueFacts
<1>2. K \in SUBSET DOMAIN Queue
  BY DEF KeptAt
<1>3. list = Kept(Queue, K)
  BY DEF KeptOf
<1>4. \A i \in DOMAIN Queue : i \in K <=> Queue[i] \notin FoundOf(devices)
  BY <1>1 DEF KeptAt, FoundOf, QueueTags
<1> HIDE DEF K, list
<1>5. /\ list \in Seq(Tags) /\ Len(list) = Cardinality(K)
      /\ Cardinality(K) \in 0 .. Len(Queue)
      /\ \A n \in 1 .. Cardinality(K) : Nth(K, n) \in K /\ list[n] = Queue[Nth(K, n)]
  BY <1>1, <1>2, <1>3, KeptFacts
<1>6. K \in SUBSET (1 .. Len(Queue))
  BY <1>1, <1>2
<1>7. /\ \A k, n \in 1 .. Cardinality(K) : k < n => Nth(K, k) < Nth(K, n)
      /\ \A i \in K : \E n \in 1 .. Cardinality(K) : Nth(K, n) = i
  BY <1>1, <1>6, NthFacts
<1>8. DOMAIN list = 1 .. Cardinality(K) /\ Cardinality(K) \in Nat
  BY <1>1, <1>5, LenProperties
<1>9. Distinct(list)
  <2>1. SUFFICES ASSUME NEW k \in 1 .. Cardinality(K), NEW n \in 1 .. Cardinality(K),
                        list[k] = list[n], k # n
                 PROVE  FALSE
    BY <1>8 DEF Distinct
  <2>2. Nth(K, k) = Nth(K, n)
    BY <1>2, <1>5, <2>1 DEF Places, Distinct
  <2>3. Nth(K, k) \in Nat /\ Nth(K, n) \in Nat
    <3>1. \A i \in K : i \in Nat
      BY <1>6
    <3>2. QED BY <1>5, <3>1
  <2>4. k < n \/ n < k
    BY <2>1
  <2>5. QED BY <1>7, <2>2, <2>3, <2>4
<1>10. Elements(list) = QueueTags \ FoundOf(devices)
  <2>1. ASSUME NEW t \in Elements(list) PROVE t \in QueueTags \ FoundOf(devices)
    <3>1. PICK n \in 1 .. Cardinality(K) : list[n] = t
      BY <1>8 DEF Elements
    <3>2. Nth(K, n) \in K /\ t = Queue[Nth(K, n)]
      BY <1>5, <3>1
    <3>3. QED BY <1>2, <1>4, <3>2 DEF QueueTags
  <2>2. ASSUME NEW t \in QueueTags, t \notin FoundOf(devices) PROVE t \in Elements(list)
    <3>1. PICK i \in DOMAIN Queue : Queue[i] = t
      BY DEF QueueTags
    <3>2. i \in K
      BY <1>4, <2>2, <3>1
    <3>3. PICK n \in 1 .. Cardinality(K) : Nth(K, n) = i
      BY <1>7, <3>2
    <3>4. list[n] = t
      BY <1>5, <3>1, <3>3
    <3>5. QED BY <1>8, <3>4 DEF Elements
  <2>3. QED BY <2>1, <2>2
<1>11. FoundOf(devices) \subseteq QueueTags
  BY DEF FoundOf
<1>12. QED BY <1>2, <1>5, <1>8, <1>9, <1>10, <1>11 DEF K, list

\* All that a search may do to the queue.
SearchEffect(r, devices) ==
    /\ TagsOf(devices) \cap Elements(r.list) = {}
    /\ TagsOf(devices) \cap QueueTags \subseteq r.found
    /\ r.found \subseteq QueueTags \cup waiting
    /\ \A t \in r.found : DeviceOf(t) \in devices
    /\ Len(r.list) = Cardinality(KeptAt(devices))
    /\ \A n \in DOMAIN r.list :
          /\ Nth(KeptAt(devices), n) \in DOMAIN Queue
          /\ r.scbindex[r.list[n]] = scbindex[Queue[Nth(KeptAt(devices), n)]]
          /\ r.mem[r.list[n]].cmd = mem[Queue[Nth(KeptAt(devices), n)]].cmd
    /\ \/ r.list = Queue /\ r.mem = mem /\ r.reserved = Reserved
       \/ Append(r.list, r.reserved)[1] = Reserved

AllFound(devices) == FoundOf(devices) \cup (waiting \cap TagsOf(devices))

\* Found and kept are all that is known.
LEMMA KnownDivides ==
    ASSUME IInv, NEW devices
    PROVE  /\ Known = Elements(KeptOf(devices)) \cup OnCard \cup posted \cup AllFound(devices)
           /\ Elements(KeptOf(devices)) \cap (OnCard \cup posted \cup AllFound(devices)) = {}
           /\ TagsOf(devices) \cap Elements(KeptOf(devices)) = {}
           /\ TagsOf(devices) \cap QueueTags \subseteq AllFound(devices)
           /\ AllFound(devices) \subseteq QueueTags \cup waiting
           /\ \A t \in AllFound(devices) : DeviceOf(t) \in devices
           /\ AllFound(devices) \subseteq Known
<1>1. Elements(KeptOf(devices)) = QueueTags \ FoundOf(devices)
      /\ FoundOf(devices) \subseteq QueueTags
  BY KeptAndFound DEF IInv
<1>2. TagsOf(devices) \cap QueueTags = FoundOf(devices)
  BY OwnerFacts DEF IInv, TagsOf, FoundOf, Known
<1>3. \A t \in TagsOf(devices) \cup FoundOf(devices) : DeviceOf(t) \in devices
  BY DEF TagsOf, FoundOf
<1>4. /\ Known = QueueTags \cup OnCard \cup posted
      /\ QueueTags \cap (OnCard \cup posted) = {}
      /\ waiting \subseteq OnCard
  BY DEF IInv, Places
<1>5. QED BY <1>1, <1>2, <1>3, <1>4 DEF AllFound

LEMMA SearchWithoutSwap ==
    ASSUME IInv, NEW devices, KeptOf(devices) = <<>> \/ FoundOf(devices) = {}
    PROVE  Sound(Search(devices), OnCard) /\ SearchEffect(Search(devices), devices)
<1> DEFINE r     == Search(devices)
           list  == KeptOf(devices)
           found == AllFound(devices)
           links == Linked(list, Reserved)
<1>1. /\ r.found = found /\ r.list = list /\ r.reserved = Reserved
      /\ r.hscb = hscb /\ r.scbindex = scbindex
      /\ r.mem = [t \in Tags |-> [cmd |-> mem[t].cmd, next |-> links[t]]]
  <2>1. ~SwapHead(list, FoundOf(devices))
    BY DEF SwapHead
  <2>2. /\ list = Kept(Queue, {i \in DOMAIN Queue : DeviceOf(Queue[i]) \notin devices})
        /\ FoundOf(devices) = {t \in QueueTags : DeviceOf(t) \in devices}
    BY DEF KeptOf, KeptAt, FoundOf
  <2> HIDE DEF list
  <2>3. QED BY <2>1, <2>2 DEF Search, Reserved, AllFound
<1>2. /\ list \in Seq(Tags) /\ Distinct(list) /\ Len(list) \in 0 .. Len(Queue)
      /\ Len(list) = Cardinality(KeptAt(devices))
      /\ \A n \in DOMAIN list : /\ Nth(KeptAt(devices), n) \in DOMAIN Queue
                                /\ list[n] = Queue[Nth(KeptAt(devices), n)]
  BY KeptAndFound DEF IInv
<1>3. /\ Known = Elements(list) \cup OnCard \cup posted \cup found
      /\ Elements(list) \cap (OnCard \cup posted \cup found) = {}
      /\ TagsOf(devices) \cap Elements(list) = {}
      /\ TagsOf(devices) \cap QueueTags \subseteq found
      /\ found \subseteq QueueTags \cup waiting
      /\ \A t \in found : DeviceOf(t) \in devices
      /\ found \subseteq Known
  BY KnownDivides
<1>4. Queue \in Seq(Tags) /\ DOMAIN Queue = 1 .. Len(Queue) /\ Len(Queue) \in Nat
      /\ Len(Queue) < RingSize /\ QueueTags = Elements(Queue)
  BY QueueFacts DEF IInv
<1>5. Reserved \in Tags
  BY OwnerFacts DEF IInv
<1> HIDE DEF r, list, found
<1>6. links \in [Tags -> Tags]
  BY <1>2, <1>5, LinkedType DEF IInv
<1>7. \A i \in DOMAIN list : links[list[i]] = Append(list, Reserved)[i + 1] /\ list[i] \in Tags
  BY <1>2, <1>5, LinkedFacts, ElementOfSeq
<1> HIDE DEF links
<1>8. SoundTypes(r)
  <2>1. Len(list) < RingSize
    BY <1>2, <1>4, RingOne
  <2>2. \A t \in Tags : mem[t].cmd \in Commands \cup {None}
    BY DEF IInv, TypeOK
  <2>3. r.mem \in [Tags -> [cmd : Commands \cup {None}, next : Tags]]
    BY <1>1, <1>6, <2>2
  <2>4. QED BY <1>1, <1>2, <2>1, <2>3 DEF SoundTypes, IInv, TypeOK, Reserved
<1>9. SoundOwners(r)
  <2>1. \A s \in Busy : /\ hscb[s] \in Tags
                        /\ mem[hscb[s]].cmd # None
                        /\ mem[hscb[s]].cmd.req = command[s].req
    BY OwnerFacts DEF IInv, Contents
  <2>2. \A t \in Tags : r.mem[t].cmd = mem[t].cmd
    BY <1>1
  <2>3. QED BY <1>1, <2>1, <2>2 DEF SoundOwners, IInv, Owners, TagsFindTheirScb
<1>10. SoundPlaces(r, OnCard)
  <2>1. \A t \in Tags : r.scbindex[t] # None <=> t \in Known
    BY <1>1 DEF Known
  <2>2. \A t \in OnCard : r.mem[t].cmd = mem[t].cmd
    BY <1>1 DEF OnCard
  <2>3. QED BY <1>1, <1>2, <1>3, <2>1, <2>2 DEF SoundPlaces
<1>11. SoundLinks(r)
  BY <1>1, <1>7 DEF SoundLinks
<1>12. \/ r.list = Queue /\ r.mem = mem /\ r.reserved = Reserved
       \/ Append(r.list, r.reserved)[1] = Reserved
  <2>1. CASE list = <<>>
    BY <1>1, <1>5, <2>1
  <2>2. CASE FoundOf(devices) = {}
    <3>1. list = Queue
      <4>1. \A i \in DOMAIN Queue : i \in KeptAt(devices)
        BY <2>2 DEF FoundOf, KeptAt, QueueTags
      <4>2. KeptAt(devices) = DOMAIN Queue
        BY <4>1 DEF KeptAt
      <4>3. QED BY <1>4, <4>2, KeepAll DEF list, KeptOf
    <3>2. ASSUME NEW t \in Tags PROVE links[t] = mem[t].next
      <4>1. CASE t \in QueueTags
        <5>1. PICK i \in DOMAIN Queue : t = Queue[i]
          BY <4>1 DEF QueueTags
        <5>2. \A k \in DOMAIN Queue : Append(Queue, Reserved)[k] = Queue[k]
          BY <1>4, <1>5, AppendProperties
        <5>3. mem[t].next = Append(Queue, Reserved)[i + 1]
          BY <5>1, <5>2 DEF IInv, ListMatchesRing, Reserved
        <5>4. QED BY <1>7, <3>1, <5>1, <5>3
      <4>2. CASE t \notin QueueTags
        BY <3>1, <4>2 DEF Linked, links, QueueTags
      <4>3. QED BY <4>1, <4>2
    <3>3. \A t \in Tags : mem[t] = [cmd |-> mem[t].cmd, next |-> mem[t].next]
      BY DEF IInv, TypeOK
    <3>4. r.mem = mem
      <4>1. \A t \in Tags : r.mem[t] = mem[t]
        BY <1>1, <3>2, <3>3
      <4>2. QED BY <1>1, <4>1 DEF IInv, TypeOK
    <3>5. QED BY <1>1, <3>1, <3>4
  <2>3. QED BY <2>1, <2>2 DEF list
<1>13. SearchEffect(r, devices)
  <2>1. \A n \in DOMAIN r.list :
          /\ Nth(KeptAt(devices), n) \in DOMAIN Queue
          /\ r.scbindex[r.list[n]] = scbindex[Queue[Nth(KeptAt(devices), n)]]
          /\ r.mem[r.list[n]].cmd = mem[Queue[Nth(KeptAt(devices), n)]].cmd
    BY <1>1, <1>2, <1>7
  <2>2. QED BY <1>1, <1>2, <1>3, <1>12, <2>1 DEF SearchEffect
<1>14. QED BY <1>8, <1>9, <1>10, <1>11, <1>13 DEF Sound, r

\* A list with its head replaced.
NewHead(kept, new) == <<new>> \o Tail(kept)

LEMMA NewHeadFacts ==
    ASSUME NEW kept \in Seq(Tags), kept # <<>>, Distinct(kept),
           NEW new \in Tags, new \notin Elements(kept)
    PROVE  /\ NewHead(kept, new) \in Seq(Tags) /\ Len(NewHead(kept, new)) = Len(kept)
           /\ Len(kept) \in Nat
           /\ DOMAIN NewHead(kept, new) = 1 .. Len(kept)
           /\ DOMAIN kept = 1 .. Len(kept)
           /\ 1 \in 1 .. Len(kept)
           /\ NewHead(kept, new)[1] = new
           /\ \A n \in 2 .. Len(kept) : NewHead(kept, new)[n] = kept[n]
           /\ Distinct(NewHead(kept, new))
           /\ Elements(NewHead(kept, new)) = (Elements(kept) \ {kept[1]}) \cup {new}
<1> DEFINE list == NewHead(kept, new)
<1>0. list = <<new>> \o Tail(kept)
  BY DEF NewHead
<1> HIDE DEF list
<1>1. /\ Tail(kept) \in Seq(Tags) /\ Len(kept) \in Nat /\ Len(kept) >= 1
      /\ Len(Tail(kept)) = Len(kept) - 1
      /\ \A i \in 1 .. Len(kept) - 1 : Tail(kept)[i] = kept[i + 1]
      /\ DOMAIN kept = 1 .. Len(kept)
  <2>1. Len(kept) \in Nat /\ Len(kept) # 0 /\ DOMAIN kept = 1 .. Len(kept)
    BY EmptySeq, LenProperties
  <2>2. QED BY <2>1, HeadTailProperties
<1>2. <<new>> \in Seq(Tags) /\ Len(<<new>>) = 1 /\ <<new>>[1] = new
  OBVIOUS
<1>3. /\ list \in Seq(Tags) /\ Len(list) = Len(kept)
      /\ \A i \in 1 .. Len(list) : list[i] = IF i <= 1 THEN <<new>>[i] ELSE Tail(kept)[i - 1]
  <2>1. /\ list \in Seq(Tags) /\ Len(list) = Len(<<new>>) + Len(Tail(kept))
        /\ \A i \in 1 .. Len(<<new>>) + Len(Tail(kept)) :
              list[i] = IF i <= Len(<<new>>) THEN <<new>>[i] ELSE Tail(kept)[i - Len(<<new>>)]
    BY <1>0, <1>1, <1>2, ConcatProperties
  <2>2. QED BY <1>1, <1>2, <2>1
<1>4. DOMAIN list = 1 .. Len(kept)
  BY <1>3, LenProperties
<1>5. list[1] = new
  BY <1>1, <1>2, <1>3
<1>6. ASSUME NEW n \in 2 .. Len(kept) PROVE list[n] = kept[n]
  <2>1. n \in Nat /\ n - 1 \in 1 .. Len(kept) - 1 /\ (n - 1) + 1 = n /\ ~(n <= 1)
        /\ n \in 1 .. Len(list)
    BY <1>1, <1>3
  <2>2. list[n] = Tail(kept)[n - 1]
    BY <1>3, <2>1
  <2>3. QED BY <1>1, <2>1, <2>2
<1>7. \A n \in 1 .. Len(kept) : n = 1 \/ n \in 2 .. Len(kept)
  BY <1>1
<1>8. \A n \in 1 .. Len(kept) : kept[n] # new
  BY <1>1 DEF Elements
<1>9. Distinct(list)
  BY <1>1, <1>4, <1>5, <1>6, <1>7, <1>8 DEF Distinct
<1>10. Elements(list) = (Elements(kept) \ {kept[1]}) \cup {new}
  <2>1. \A n \in 2 .. Len(kept) : n \in 1 .. Len(kept) /\ n # 1
    BY <1>1
  <2>2. 1 \in 1 .. Len(kept)
    BY <1>1
  <2>3. ASSUME NEW t \in Elements(list) PROVE t \in (Elements(kept) \ {kept[1]}) \cup {new}
    <3>1. PICK n \in 1 .. Len(kept) : list[n] = t
      BY <1>4 DEF Elements
    <3>2. CASE n = 1
      BY <1>5, <3>1, <3>2
    <3>3. CASE n \in 2 .. Len(kept)
      <4>1. t = kept[n] /\ n # 1 /\ n \in DOMAIN kept
        BY <1>1, <1>6, <2>1, <3>1, <3>3
      <4>2. QED BY <1>1, <2>2, <4>1 DEF Elements, Distinct
    <3>4. QED BY <1>7, <3>2, <3>3
  <2>4. ASSUME NEW t \in Elements(kept), t # kept[1] PROVE t \in Elements(list)
    <3>1. PICK n \in 1 .. Len(kept) : kept[n] = t
      BY <1>1 DEF Elements
    <3>2. n \in 2 .. Len(kept)
      BY <1>7, <2>4, <3>1
    <3>3. QED BY <1>4, <1>6, <3>1, <3>2 DEF Elements
  <2>5. new \in Elements(list)
    BY <1>4, <1>5, <2>2 DEF Elements
  <2>6. QED BY <2>3, <2>4, <2>5
<1>11. QED BY <1>1, <1>3, <1>4, <1>5, <1>6, <1>9, <1>10 DEF list

LEMMA SearchWithSwap ==
    ASSUME IInv, NEW devices, KeptOf(devices) # <<>>, FoundOf(devices) # {}
    PROVE  Sound(Search(devices), OnCard) /\ SearchEffect(Search(devices), devices)
<1> DEFINE r     == Search(devices)
           kept  == KeptOf(devices)
           found == AllFound(devices)
           old   == kept[1]
           list  == NewHead(kept, Reserved)
           scb   == scbindex[old]
           links == Linked(list, old)
           last  == Linked(kept, Reserved)
<1>1. /\ r.found = found /\ r.list = list /\ r.reserved = old
      /\ r.hscb = [hscb EXCEPT ![scb] = Reserved, ![next_queued_scb] = old]
      /\ r.scbindex = [scbindex EXCEPT ![Reserved] = scb, ![old] = None]
      /\ r.mem = [t \in Tags |->
                    [cmd  |-> mem[IF t = Reserved THEN old ELSE t].cmd,
                     next |-> IF t = old THEN last[t] ELSE links[t]]]
  <2>1. SwapHead(kept, FoundOf(devices))
    BY DEF SwapHead
  <2>2. /\ kept = Kept(Queue, {i \in DOMAIN Queue : DeviceOf(Queue[i]) \notin devices})
        /\ FoundOf(devices) = {t \in QueueTags : DeviceOf(t) \in devices}
    BY DEF KeptOf, KeptAt, FoundOf
  <2> HIDE DEF kept
  <2>3. QED BY <2>1, <2>2 DEF Search, Reserved, AllFound, IndexMoved, NewHead
<1>2. /\ kept \in Seq(Tags) /\ Distinct(kept) /\ Len(kept) \in 0 .. Len(Queue)
      /\ Len(kept) = Cardinality(KeptAt(devices)) /\ kept # <<>>
      /\ \A n \in DOMAIN kept : /\ Nth(KeptAt(devices), n) \in DOMAIN Queue
                                /\ kept[n] = Queue[Nth(KeptAt(devices), n)]
  BY KeptAndFound DEF IInv
<1>3. /\ Known = Elements(kept) \cup OnCard \cup posted \cup found
      /\ Elements(kept) \cap (OnCard \cup posted \cup found) = {}
      /\ TagsOf(devices) \cap Elements(kept) = {}
      /\ TagsOf(devices) \cap QueueTags \subseteq found
      /\ found \subseteq QueueTags \cup waiting
      /\ \A t \in found : DeviceOf(t) \in devices
      /\ found \subseteq Known
  BY KnownDivides
<1>4. Queue \in Seq(Tags) /\ DOMAIN Queue = 1 .. Len(Queue) /\ Len(Queue) \in Nat
      /\ Len(Queue) < RingSize
  BY QueueFacts DEF IInv
<1>5. Reserved \in Tags /\ Reserved \notin Known
  BY OwnerFacts DEF IInv
<1> HIDE DEF r, kept, found
<1>6. /\ list \in Seq(Tags) /\ Len(list) = Len(kept) /\ Len(kept) \in Nat
      /\ DOMAIN list = 1 .. Len(kept) /\ DOMAIN kept = 1 .. Len(kept)
      /\ 1 \in 1 .. Len(kept)
      /\ list[1] = Reserved
      /\ \A n \in 2 .. Len(kept) : list[n] = kept[n]
      /\ Distinct(list)
      /\ Elements(list) = (Elements(kept) \ {old}) \cup {Reserved}
  <2>1. Reserved \notin Elements(kept)
    BY <1>3, <1>5
  <2>2. QED BY <1>2, <1>5, <2>1, NewHeadFacts
<1>7. old \in Elements(kept) /\ old \in Tags /\ old \in Known /\ old # Reserved
      /\ old \notin OnCard \cup posted \cup found
  <2>1. old \in Elements(kept)
    BY <1>6 DEF Elements
  <2>2. old \in Known
    BY <1>3, <2>1
  <2>3. QED BY <1>3, <1>5, <2>1, <2>2 DEF Known
<1> HIDE DEF list, old
<1>8. scb \in Busy /\ hscb[scb] = old /\ scb \in Scbs /\ scb # next_queued_scb
      /\ Busy \subseteq Scbs /\ None \notin Scbs /\ next_queued_scb \notin Busy
      /\ next_queued_scb \in Scbs
  BY <1>7, OwnerFacts DEF IInv
<1> HIDE DEF scb
<1>9. /\ r.hscb \in [Scbs -> Tags]
      /\ \A x, y \in Scbs : r.hscb[x] = r.hscb[y] => x = y
      /\ r.hscb[scb] = Reserved /\ r.hscb[next_queued_scb] = old
      /\ \A x \in Scbs \ {scb, next_queued_scb} : r.hscb[x] = hscb[x]
  <2>1. r.hscb = [hscb EXCEPT ![scb] = Reserved, ![next_queued_scb] = hscb[scb]]
    BY <1>1, <1>8
  <2>2. TypeOK /\ \A x, y \in Scbs : hscb[x] = hscb[y] => x = y
    BY DEF IInv, Owners, TagsFindTheirScb
  <2>3. QED BY <1>8, <2>1, <2>2, Exchange
<1>10. /\ r.scbindex \in [Tags -> Scbs \cup {None}]
       /\ r.scbindex[Reserved] = scb /\ r.scbindex[old] = None
       /\ \A t \in Tags \ {Reserved, old} : r.scbindex[t] = scbindex[t]
  BY <1>1, <1>5, <1>7, <1>8 DEF IInv, TypeOK
<1>11. links \in [Tags -> Tags] /\ last \in [Tags -> Tags]
  BY <1>2, <1>5, <1>6, <1>7, LinkedType DEF IInv
<1>12. \A i \in DOMAIN list : links[list[i]] = Append(list, old)[i + 1] /\ list[i] \in Tags
  BY <1>6, <1>7, LinkedFacts, ElementOfSeq
<1> HIDE DEF links, last
<1>13. SoundTypes(r)
  <2>1. Len(list) < RingSize
    BY <1>2, <1>4, <1>6, RingOne
  <2>2. \A t \in Tags : mem[t].cmd \in Commands \cup {None}
    BY DEF IInv, TypeOK
  <2>3. r.mem \in [Tags -> [cmd : Commands \cup {None}, next : Tags]]
    <3>1. \A t \in Tags : (IF t = Reserved THEN old ELSE t) \in Tags
      BY <1>7
    <3>2. \A t \in Tags : (IF t = old THEN last[t] ELSE links[t]) \in Tags
      BY <1>11
    <3>3. QED BY <1>1, <2>2, <3>1, <3>2
  <2>4. QED BY <1>1, <1>6, <1>9, <1>10, <2>1, <2>3 DEF SoundTypes
<1>14. SoundOwners(r)
  <2>1. \A s \in Busy : /\ hscb[s] \in Known /\ hscb[s] \in Tags
                        /\ mem[hscb[s]].cmd # None
                        /\ mem[hscb[s]].cmd.req = command[s].req
    BY OwnerFacts DEF IInv, Contents
  <2>2. ASSUME NEW s \in Busy
        PROVE  r.mem[r.hscb[s]].cmd # None /\ r.mem[r.hscb[s]].cmd.req = command[s].req
    <3>1. CASE s = scb
      BY <1>1, <1>5, <1>8, <1>9, <2>1, <3>1
    <3>2. CASE s # scb
      <4>1. r.hscb[s] = hscb[s] /\ hscb[s] # Reserved
        BY <1>5, <1>8, <1>9, <2>1, <3>2
      <4>2. QED BY <1>1, <2>1, <4>1
    <3>3. QED BY <3>1, <3>2
  <2>3. ASSUME NEW t \in Tags, NEW s \in Scbs
        PROVE  r.scbindex[t] = s <=> r.hscb[s] = t /\ s \in Busy
    <3>1. CASE t = Reserved
      BY <1>8, <1>9, <1>10, <3>1
    <3>2. CASE t = old
      <4>1. r.scbindex[t] # s
        BY <1>8, <1>10, <3>2
      <4>2. r.hscb[s] = t => s = next_queued_scb
        BY <1>8, <1>9, <3>2
      <4>3. QED BY <1>8, <4>1, <4>2
    <3>3. CASE t \notin {Reserved, old}
      <4>1. r.scbindex[t] = s <=> hscb[s] = t /\ s \in Busy
        BY <1>10, <3>3 DEF IInv, Owners, TagsFindTheirScb
      <4>2. CASE s = scb
        BY <1>8, <1>9, <3>3, <4>1, <4>2
      <4>3. CASE s = next_queued_scb
        BY <1>8, <4>1, <4>3
      <4>4. CASE s \notin {scb, next_queued_scb}
        BY <1>9, <4>1, <4>4
      <4>5. QED BY <4>2, <4>3, <4>4
    <3>4. QED BY <3>1, <3>2, <3>3
  <2>4. QED BY <1>9, <2>2, <2>3 DEF SoundOwners
<1>15. SoundPlaces(r, OnCard)
  <2>1. \A t \in Tags : r.scbindex[t] # None <=> t \in (Known \ {old}) \cup {Reserved}
    <3>1. TAKE t \in Tags
    <3>2. CASE t \in {Reserved, old}
      BY <1>7, <1>8, <1>10, <3>2
    <3>3. CASE t \notin {Reserved, old}
      BY <1>10, <3>3 DEF Known
    <3>4. QED BY <3>2, <3>3
  <2>2. \A t \in OnCard \cup posted \cup found : r.scbindex[t] = scbindex[t]
    BY <1>3, <1>5, <1>7, <1>10 DEF Known
  <2>3. (Known \ {old}) \cup {Reserved}
          = Elements(list) \cup OnCard \cup posted \cup found
    BY <1>3, <1>6, <1>7
  <2>4. Elements(list) \cap (OnCard \cup posted \cup found) = {}
    BY <1>3, <1>5, <1>6
  <2>5. \A t \in OnCard : r.mem[t].cmd = mem[t].cmd
    <3>1. \A t \in OnCard : t \in Tags /\ t # Reserved
      BY <1>3, <1>5 DEF OnCard
    <3>2. QED BY <1>1, <3>1
  <2>6. QED BY <1>1, <1>3, <1>6, <2>1, <2>2, <2>3, <2>4, <2>5 DEF SoundPlaces
<1>16. \A i \in DOMAIN list : list[i] # old
  <2>1. old \notin Elements(list)
    BY <1>6, <1>7
  <2>2. QED BY <2>1 DEF Elements
<1>17. SoundLinks(r)
  <2>1. ASSUME NEW i \in DOMAIN list
        PROVE  r.mem[list[i]].next = Append(list, old)[i + 1]
    BY <1>1, <1>12, <1>16
  <2>2. QED BY <1>1, <2>1 DEF SoundLinks
<1>18. Append(r.list, r.reserved)[1] = Reserved
  <2>1. Append(list, old)[1] = list[1]
    BY <1>6, <1>7, AppendProperties
  <2>2. QED BY <1>1, <1>6, <2>1
<1>19. ASSUME NEW n \in DOMAIN list
       PROVE  /\ Nth(KeptAt(devices), n) \in DOMAIN Queue
              /\ r.scbindex[list[n]] = scbindex[kept[n]]
              /\ r.mem[list[n]].cmd = mem[kept[n]].cmd
              /\ kept[n] = Queue[Nth(KeptAt(devices), n)]
  <2>1. Nth(KeptAt(devices), n) \in DOMAIN Queue /\ kept[n] = Queue[Nth(KeptAt(devices), n)]
    BY <1>2, <1>6
  <2>2. CASE n = 1
    BY <1>1, <1>5, <1>6, <1>10, <2>1, <2>2 DEF old, scb
  <2>3. CASE n # 1
    <3>1. n \in 2 .. Len(kept)
      BY <1>6, <2>3
    <3>2. list[n] = kept[n] /\ list[n] # old /\ list[n] \in Tags
      BY <1>6, <1>12, <1>16, <3>1
    <3>3. kept[n] # Reserved
      BY <1>3, <1>5, <1>6 DEF Elements
    <3>4. QED BY <1>1, <1>10, <2>1, <3>2, <3>3
  <2>4. QED BY <2>2, <2>3
<1>20. SearchEffect(r, devices)
  <2>1. TagsOf(devices) \cap Elements(list) = {}
    BY <1>3, <1>5, <1>6 DEF TagsOf, Known
  <2>2. \A n \in DOMAIN r.list :
          /\ Nth(KeptAt(devices), n) \in DOMAIN Queue
          /\ r.scbindex[r.list[n]] = scbindex[Queue[Nth(KeptAt(devices), n)]]
          /\ r.mem[r.list[n]].cmd = mem[Queue[Nth(KeptAt(devices), n)]].cmd
    BY <1>1, <1>19, ZenonT(40)
  <2>3. QED BY <1>1, <1>2, <1>3, <1>6, <1>18, <2>1, <2>2 DEF SearchEffect
<1>21. QED BY <1>13, <1>14, <1>15, <1>17, <1>20 DEF Sound, r

LEMMA SearchSound ==
    ASSUME IInv, NEW devices
    PROVE  Sound(Search(devices), OnCard) /\ SearchEffect(Search(devices), devices)
  BY SearchWithSwap, SearchWithoutSwap

Fields == {"found", "list", "reserved", "hscb", "scbindex", "mem"}

LEMMA SearchFields ==
    /\ \A devices : DOMAIN Search(devices) = Fields
    /\ DOMAIN Unsearched = Fields
  BY DEF Search, Unsearched, Fields

\* ahc_qinfifo_requeue_tail after a search, or without one.
LEMMA RequeuedFields ==
    ASSUME NEW r, DOMAIN r = Fields, NEW t, NEW cmd
    PROVE  /\ Requeued(r, t, cmd).list = Append(r.list, t)
           /\ Requeued(r, t, cmd).found = r.found
           /\ Requeued(r, t, cmd).reserved = r.reserved
           /\ Requeued(r, t, cmd).hscb = r.hscb
           /\ Requeued(r, t, cmd).scbindex = r.scbindex
           /\ Requeued(r, t, cmd).mem
                 = [u \in Tags |->
                      [cmd  |-> IF u = t THEN cmd ELSE r.mem[u].cmd,
                       next |-> IF u = t THEN r.reserved
                                ELSE IF r.list # <<>> /\ u = r.list[Len(r.list)]
                                THEN t ELSE r.mem[u].next]]
  BY DEF Requeued, Fields

LEMMA RequeuedSound ==
    ASSUME IInv, NEW r, DOMAIN r = Fields, NEW on \in SUBSET OnCard, Sound(r, on),
           NEW t \in on, t \notin r.found, NEW cmd \in Commands,
           cmd.req = command[scbindex[t]].req, Len(r.list) + 1 < RingSize
    PROVE  /\ Sound(Requeued(r, t, cmd), on \ {t})
           /\ Requeued(r, t, cmd).mem[t].cmd = cmd
           /\ \A u \in Tags \ {t} : Requeued(r, t, cmd).mem[u].cmd = r.mem[u].cmd
<1> DEFINE q    == Requeued(r, t, cmd)
           list == Append(r.list, t)
           m    == Len(r.list)
<1>1. /\ q.list = list /\ q.found = r.found /\ q.reserved = r.reserved
      /\ q.hscb = r.hscb /\ q.scbindex = r.scbindex
      /\ q.mem = [u \in Tags |->
                      [cmd  |-> IF u = t THEN cmd ELSE r.mem[u].cmd,
                       next |-> IF u = t THEN r.reserved
                                ELSE IF r.list # <<>> /\ u = r.list[m]
                                THEN t ELSE r.mem[u].next]]
  BY RequeuedFields
<1>2. SoundTypes(r) /\ SoundOwners(r) /\ SoundPlaces(r, on) /\ SoundLinks(r)
  BY DEF Sound
<1>3. t \in Tags /\ t \in OnCard /\ t \in Known /\ t \notin posted
  BY OwnerFacts DEF IInv, Places, OnCard
<1>4. t \notin Elements(r.list)
  BY <1>2 DEF SoundPlaces
<1> HIDE DEF q
<1>5. /\ r.list \in Seq(Tags) /\ m \in Nat /\ DOMAIN r.list = 1 .. m
      /\ \A i \in 1 .. m : r.list[i] \in Tags
  BY <1>2, LenProperties, ElementOfSeq DEF SoundTypes
<1> HIDE DEF m
<1>6. /\ list \in Seq(Tags) /\ Len(list) = m + 1 /\ DOMAIN list = 1 .. m + 1
      /\ list[m + 1] = t
      /\ \A i \in 1 .. m : list[i] = r.list[i]
  <2>1. /\ list \in Seq(Tags) /\ Len(list) = m + 1
        /\ \A k \in 1 .. m + 1 : list[k] = IF k = m + 1 THEN t ELSE r.list[k]
    BY <1>3, <1>5, AppendProperties DEF m
  <2>2. DOMAIN list = 1 .. m + 1
    BY <2>1, LenProperties
  <2>3. m + 1 \in 1 .. m + 1 /\ \A i \in 1 .. m : i \in 1 .. m + 1 /\ i # m + 1
    BY <1>5
  <2>4. QED BY <2>1, <2>2, <2>3
<1> HIDE DEF list
<1>7. \A i \in 1 .. m + 1 : i = m + 1 \/ i \in 1 .. m
  BY <1>5
<1>8. \A i \in 1 .. m : r.list[i] # t
  BY <1>4, <1>5 DEF Elements
<1>9. Elements(list) = Elements(r.list) \cup {t}
  <2>1. \A i \in 1 .. m : i \in 1 .. m + 1
    BY <1>5
  <2>2. m + 1 \in 1 .. m + 1
    BY <1>5
  <2>3. QED BY <1>5, <1>6, <1>7, <2>1, <2>2 DEF Elements
<1>10. Distinct(list)
  <2>1. \A i, j \in 1 .. m : r.list[i] = r.list[j] => i = j
    BY <1>2, <1>5 DEF SoundPlaces, Distinct
  <2>2. QED BY <1>6, <1>7, <1>8, <2>1 DEF Distinct
<1>11. r.reserved \in Tags
  BY <1>2, QinfifoAssumption DEF SoundTypes
<1>12. SoundTypes(q)
  <2>1. ASSUME NEW u \in Tags
        PROVE  /\ (IF u = t THEN cmd ELSE r.mem[u].cmd) \in Commands \cup {None}
               /\ (IF u = t THEN r.reserved
                   ELSE IF r.list # <<>> /\ u = r.list[m]
                        THEN t ELSE r.mem[u].next) \in Tags
    BY <1>2, <1>3, <1>11 DEF SoundTypes
  <2>2. q.mem \in [Tags -> [cmd : Commands \cup {None}, next : Tags]]
    BY <1>1, <2>1
  <2>3. QED BY <1>1, <1>2, <1>6, <2>2 DEF SoundTypes, m
<1>13. SoundOwners(q)
  <2>1. ASSUME NEW s \in Busy
        PROVE  q.mem[r.hscb[s]].cmd # None /\ q.mem[r.hscb[s]].cmd.req = command[s].req
    <3>1. r.hscb[s] \in Tags /\ s \in Scbs
      BY <1>2 DEF SoundTypes, Busy
    <3>2. CASE r.hscb[s] = t
      <4>1. r.scbindex[t] = s
        BY <1>2, <1>3, <3>1, <3>2 DEF SoundOwners
      <4>2. scbindex[t] = s
        BY <1>2, <4>1 DEF SoundPlaces
      <4>3. cmd # None
        BY QinfifoAssumption
      <4>4. QED BY <1>1, <3>1, <3>2, <4>2, <4>3
    <3>3. CASE r.hscb[s] # t
      BY <1>1, <1>2, <3>1, <3>3 DEF SoundOwners
    <3>4. QED BY <3>2, <3>3
  <2>2. /\ \A s, u \in Scbs : r.hscb[s] = r.hscb[u] => s = u
        /\ \A u \in Tags, s \in Scbs : r.scbindex[u] = s <=> r.hscb[s] = u /\ s \in Busy
    BY <1>2, Zenon DEF SoundOwners
  <2>3. q.hscb = r.hscb /\ q.scbindex = r.scbindex
    BY <1>1
  <2>4. QED BY <2>1, <2>2, <2>3 DEF SoundOwners
<1>14. SoundPlaces(q, on \ {t})
  <2>1. \A u \in on \ {t} : q.mem[u].cmd = r.mem[u].cmd
    BY <1>1 DEF OnCard
  <2>2. QED BY <1>1, <1>2, <1>3, <1>9, <1>10, <2>1 DEF SoundPlaces
<1>15. SoundLinks(q)
  <2>1. ASSUME NEW i \in 1 .. m + 1
        PROVE  q.mem[list[i]].next = Append(list, r.reserved)[i + 1]
    <3>1. Append(list, r.reserved)[i + 1] = IF i = m + 1 THEN r.reserved ELSE list[i + 1]
      <4>1. \A k \in 1 .. m + 2 :
               Append(list, r.reserved)[k] = IF k = m + 2 THEN r.reserved ELSE list[k]
        <5>1. \A k \in 1 .. Len(list) + 1 :
               Append(list, r.reserved)[k] = IF k = Len(list) + 1 THEN r.reserved ELSE list[k]
          BY <1>6, <1>11, AppendProperties
        <5>2. Len(list) + 1 = m + 2
          BY <1>5, <1>6
        <5>3. QED BY <5>1, <5>2
      <4>2. i \in Nat /\ i + 1 \in 1 .. m + 2 /\ (i + 1 = m + 2 <=> i = m + 1)
        BY <1>5
      <4>3. QED BY <4>1, <4>2
    <3>2. CASE i = m + 1
      BY <1>1, <1>3, <1>6, <3>1, <3>2
    <3>3. CASE i \in 1 .. m
      <4>1. list[i] = r.list[i] /\ r.list[i] # t /\ r.list[i] \in Tags
        BY <1>5, <1>6, <1>8, <3>3
      <4>2. r.mem[r.list[i]].next = Append(r.list, r.reserved)[i + 1]
        BY <1>2, <1>5, <3>3 DEF SoundLinks
      <4>3. Append(r.list, r.reserved)[i + 1] = IF i = m THEN r.reserved ELSE r.list[i + 1]
        <5>1. \A k \in 1 .. m + 1 :
               Append(r.list, r.reserved)[k] = IF k = m + 1 THEN r.reserved ELSE r.list[k]
          BY <1>5, <1>11, AppendProperties DEF m
        <5>2. i \in Nat /\ i + 1 \in 1 .. m + 1 /\ (i + 1 = m + 1 <=> i = m)
          BY <1>5, <3>3
        <5>3. QED BY <5>1, <5>2
      <4>4. r.list # <<>> /\ i # m + 1 /\ m \in 1 .. m
        <5>1. m # 0 /\ i # m + 1 /\ m \in 1 .. m
          BY <1>5, <3>3
        <5>2. QED BY <5>1 DEF m
      <4>5. r.list[i] = r.list[m] <=> i = m
        BY <1>2, <1>5, <3>3, <4>4 DEF SoundPlaces, Distinct
      <4>6. CASE i = m
        <5>1. list[i + 1] = t
          BY <1>6, <4>6
        <5>2. QED BY <1>1, <3>1, <4>1, <4>4, <4>5, <4>6, <5>1
      <4>7. CASE i # m
        <5>1. i + 1 \in 1 .. m
          BY <1>5, <3>3, <4>7
        <5>2. list[i + 1] = r.list[i + 1]
          BY <1>6, <5>1
        <5>3. QED BY <1>1, <3>1, <4>1, <4>2, <4>3, <4>4, <4>5, <4>7, <5>2
      <4>8. QED BY <4>6, <4>7
    <3>4. QED BY <1>7, <3>2, <3>3
  <2>2. QED BY <1>1, <1>6, <2>1 DEF SoundLinks
<1>16. q.mem[t].cmd = cmd /\ \A u \in Tags \ {t} : q.mem[u].cmd = r.mem[u].cmd
  BY <1>1, <1>3
<1>17. QED BY <1>1, <1>12, <1>13, <1>14, <1>15, <1>16 DEF Sound, q, list

LEMMA UnsearchedSound ==
    ASSUME IInv
    PROVE  Sound(Unsearched, OnCard)
<1> DEFINE r == Unsearched
<1>1. /\ r.found = {} /\ r.list = Queue /\ r.reserved = Reserved
      /\ r.hscb = hscb /\ r.scbindex = scbindex /\ r.mem = mem
  BY DEF Unsearched, Reserved
<1> HIDE DEF r
<1>2. /\ Queue \in Seq(Tags) /\ Len(Queue) < RingSize /\ QueueTags = Elements(Queue)
      /\ Len(Queue) \in Nat /\ DOMAIN Queue = 1 .. Len(Queue)
  BY QueueFacts DEF IInv
<1>3. SoundTypes(r)
  BY <1>1, <1>2 DEF SoundTypes, IInv, TypeOK, Reserved
<1>4. SoundOwners(r)
  <2>1. \A s \in Busy : /\ hscb[s] \in Tags
                        /\ mem[hscb[s]].cmd # None
                        /\ mem[hscb[s]].cmd.req = command[s].req
    BY OwnerFacts DEF IInv, Contents
  <2>2. QED BY <1>1, <2>1 DEF SoundOwners, IInv, Owners, TagsFindTheirScb
<1>5. SoundPlaces(r, OnCard)
  <2>1. \A t \in Tags : r.scbindex[t] # None <=> t \in Known
    BY <1>1 DEF Known
  <2>2. QED BY <1>1, <1>2, <2>1 DEF SoundPlaces, IInv, Places
<1>6. SoundLinks(r)
  <2>1. Reserved \in Tags
    BY OwnerFacts DEF IInv
  <2>2. \A i \in DOMAIN Queue : Append(Queue, Reserved)[i] = Queue[i]
    BY <1>2, <2>1, AppendProperties
  <2>3. QED BY <1>1, <2>2 DEF SoundLinks, IInv, ListMatchesRing, Reserved
<1>7. QED BY <1>3, <1>4, <1>5, <1>6 DEF Sound, r
-----------------------------------------------------------------------------
(* Error recovery. *)

\* A command whose target reports something.
LEMMA Target ==
    ASSUME IInv, NEW t \in Connectable
    PROVE  /\ t \in Tags /\ t \in OnCard /\ t \in Known /\ t \notin posted /\ seq = "poll"
           /\ waiting \subseteq OnCard \ {t}
           /\ scbindex[t] \in Busy /\ scbindex[t] \in Scbs
           /\ command[scbindex[t]] \in Commands
           /\ \A devices : t \notin Search(devices).found
           /\ Len(Queue) + 1 < RingSize
           /\ \A devices : Len(Search(devices).list) + 1 < RingSize
<1>1. t \in Tags /\ t \in OnCard /\ t \notin waiting /\ seq = "poll"
  BY DEF Connectable, OnCard
<1>2. t \in Known /\ t \notin QueueTags /\ t \notin posted /\ waiting \subseteq OnCard \ {t}
  BY <1>1 DEF IInv, Places
<1>3. scbindex[t] \in Busy /\ Busy \subseteq Scbs /\ Reserved \in Tags \ Known
      /\ QueueTags \subseteq Known
  BY <1>2, OwnerFacts DEF IInv
<1>4. command[scbindex[t]] \in Commands
  BY <1>3 DEF IInv, TypeOK, Owners
<1>5. ASSUME NEW devices PROVE t \notin Search(devices).found
  BY <1>1, <1>2, SearchSound DEF SearchEffect
<1>6. Len(Queue) + 1 < RingSize
  <2>1. t \in Tags \ QueueTags /\ Reserved \in Tags \ QueueTags /\ t # Reserved
    BY <1>1, <1>2, <1>3
  <2>2. QED BY <2>1, Room DEF IInv
<1>7. ASSUME NEW devices PROVE Len(Search(devices).list) + 1 < RingSize
  <2>1. Len(Search(devices).list) = Len(KeptOf(devices))
    BY SearchSound, KeptAndFound DEF SearchEffect, IInv
  <2>2. Len(KeptOf(devices)) \in 0 .. Len(Queue) /\ Len(Queue) \in Nat
    BY KeptAndFound, QueueFacts DEF IInv
  <2>3. QED BY <1>6, <2>1, <2>2, RingOne
<1>8. QED BY <1>1, <1>2, <1>3, <1>4, <1>5, <1>6, <1>7

\* A requeue, after a search that completes what it has found.
LEMMA RequeueStep ==
    ASSUME IInv, NEW t \in Connectable, NEW r, DOMAIN r = Fields, Sound(r, OnCard),
           NEW done, done = r.found, t \notin done, done \cap posted = {},
           Len(r.list) + 1 < RingSize,
           NEW cmd \in Commands, cmd.req = command[scbindex[t]].req,
           NEW cmds \in [Scbs -> Commands \cup {None}],
           \A s \in Busy : cmds[s] # None /\ cmds[s].req = command[s].req,
           Install(Requeued(r, t, cmd), done, cmds),
           OffCard(done \cup {t}), posted' = posted,
           seq' \in {"poll", seq}, UNCHANGED <<ARG_1, slot, SELBUSB, resets>>
    PROVE  IInv' /\ Installed(Requeued(r, t, cmd), OnCard \ {t}, done, {}, cmds)
<1> DEFINE q == Requeued(r, t, cmd)
           on == OnCard \ {t}
<1>1. /\ t \in Tags /\ t \in OnCard /\ t \in Known /\ seq = "poll"
      /\ waiting \subseteq OnCard \ {t}
  BY Target
<1>2. Sound(q, on) /\ q.found = done
  <2>1. Sound(q, on)
    BY <1>1, RequeuedSound
  <2>2. q.found = r.found
    BY DEF Requeued, Fields
  <2>3. QED BY <2>1, <2>2
<1>3. Install(q, done, cmds)
  OBVIOUS
<1>4. Leaving(on, done, {}) = done \cup {t}
  BY <1>1 DEF Leaving
<1>5. card' = [u \in Tags |-> IF u \in Leaving(on, done, {}) THEN None ELSE card[u]]
  BY <1>4 DEF OffCard
<1>6. posted' = (posted \ done) \cup {} /\ resets' \in 0 .. ResetsPerFetch
  BY DEF IInv, TypeOK
<1> HIDE DEF q
<1>7. Installed(q, on, done, {}, cmds)
  BY <1>1, <1>2, <1>3, <1>5, <1>6 DEF Installed
<1>8. Settled'
  BY <1>7, InstalledSettles
<1>9. FetchIsFresh'
  BY <1>1 DEF FetchIsFresh
<1>10. QED BY <1>7, <1>8, <1>9 DEF Settled, IInv, q

LEMMA CheckConditionStep ==
    ASSUME IInv, NEW t \in Tags, CheckCondition(t)
    PROVE  /\ IInv'
           /\ LET r     == Search({DeviceOf(t)})
                  sense == [command[scbindex[t]] EXCEPT !.sense = TRUE]
              IN Installed(Requeued(r, t, sense), OnCard \ {t}, r.found, {},
                           [command EXCEPT ![scbindex[t]] = sense])
<1> DEFINE scb   == scbindex[t]
           r     == Search({DeviceOf(t)})
           sense == [command[scb] EXCEPT !.sense = TRUE]
           cmds  == [command EXCEPT ![scb] = sense]
<1>1. /\ t \in Connectable
      /\ Install(Requeued(r, t, sense), r.found, cmds)
      /\ OffCard(r.found \cup {t}) /\ posted' = posted
      /\ seq' = seq /\ UNCHANGED <<ARG_1, slot, SELBUSB, resets>>
      /\ posted = {}
  BY DEF CheckCondition, FreezeDevq, Handler, fetch
<1>2. /\ scb \in Busy /\ scb \in Scbs /\ command[scb] \in Commands
      /\ t \notin r.found /\ Len(r.list) + 1 < RingSize
  BY <1>1, Target
<1>3. Sound(r, OnCard) /\ DOMAIN r = Fields
  BY SearchSound, SearchFields
<1>4. sense \in Commands /\ sense.req = command[scb].req /\ sense # None
  BY <1>2, QinfifoAssumption DEF Commands
<1> HIDE DEF sense, r, scb
<1>5. /\ cmds \in [Scbs -> Commands \cup {None}]
      /\ \A s \in Busy : cmds[s] # None /\ cmds[s].req = command[s].req
  BY <1>2, <1>4 DEF IInv, TypeOK, Owners, Busy
<1> HIDE DEF cmds
<1>6. IInv' /\ Installed(Requeued(r, t, sense), OnCard \ {t}, r.found, {}, cmds)
  BY <1>1, <1>2, <1>3, <1>4, <1>5, RequeueStep DEF scb
<1>7. QED BY <1>6 DEF r, sense, cmds, scb

LEMMA NegotiationRejectedStep ==
    ASSUME IInv, NEW t \in Tags, NegotiationRejected(t)
    PROVE  /\ IInv'
           /\ Installed(Requeued(Unsearched, t, mem[t].cmd), OnCard \ {t}, {}, {}, command)
<1> DEFINE r   == Unsearched
           cmd == mem[t].cmd
<1>1. /\ t \in Connectable
      /\ Install(Requeued(r, t, cmd), {}, command)
      /\ OffCard({t}) /\ posted' = posted
      /\ seq' = "poll" /\ UNCHANGED <<ARG_1, slot, SELBUSB, resets>>
  BY DEF NegotiationRejected, Restart
<1>2. r.found = {} /\ r.list = Queue
  BY DEF Unsearched
<1>3. t \in Known /\ t \in Tags /\ Len(Queue) + 1 < RingSize
  BY <1>1, Target
<1>4. Sound(r, OnCard) /\ DOMAIN r = Fields
  BY UnsearchedSound, SearchFields
<1>5. cmd \in Commands /\ cmd.req = command[scbindex[t]].req
  BY <1>3 DEF IInv, TypeOK, Contents
<1>6. /\ command \in [Scbs -> Commands \cup {None}]
      /\ \A s \in Busy : command[s] # None
  BY DEF IInv, TypeOK, Owners
<1> HIDE DEF cmd, r
<1>7. OffCard({} \cup {t})
  BY <1>1 DEF OffCard
<1>8. IInv' /\ Installed(Requeued(r, t, cmd), OnCard \ {t}, {}, {}, command)
  BY <1>1, <1>2, <1>3, <1>4, <1>5, <1>6, <1>7, RequeueStep
<1>9. QED BY <1>8 DEF r, cmd

\* A search whose result becomes the state: done are completed, and extra goes
\* to the output queue.
LEMMA SearchStep ==
    ASSUME IInv, NEW devices, NEW r, r = Search(devices), NEW done, NEW extra,
           r.found \subseteq done, done \subseteq OnCard \cup posted \cup r.found,
           extra \subseteq OnCard, extra \cap (done \cup waiting) = {},
           NEW cmds \in [Scbs -> Commands \cup {None}],
           \A s \in Busy : cmds[s] # None /\ cmds[s].req = command[s].req,
           Install(r, done, cmds),
           OffCard(done \cup extra), posted' = (posted \ done) \cup extra,
           seq' \in {"poll", seq}, resets' \in 0 .. ResetsPerFetch,
           UNCHANGED <<ARG_1, slot, SELBUSB>>
    PROVE  Settled' /\ Installed(r, OnCard, done, extra, cmds)
<1>1. Sound(r, OnCard)
  BY SearchSound
<1>2. waiting \subseteq OnCard
  BY DEF IInv, Places
<1>3. Leaving(OnCard, done, extra) = done \cup extra
  BY DEF Leaving
<1>4. card' = [u \in Tags |-> IF u \in Leaving(OnCard, done, extra) THEN None ELSE card[u]]
  BY <1>3 DEF OffCard
<1>5. Installed(r, OnCard, done, extra, cmds)
  BY <1>1, <1>2, <1>4 DEF Installed
<1>6. QED BY <1>5, InstalledSettles

\* What belongs to the devices is found or on the card or in the output queue.
LEMMA DoneIsKnown ==
    ASSUME IInv, NEW devices, NEW t \in TagsOf(devices)
    PROVE  t \in OnCard \cup posted \cup Search(devices).found
<1>1. t \in Known
  BY DEF TagsOf, Known
<1>2. QED BY <1>1, SearchSound DEF SearchEffect, IInv, Places

LEMMA CommandType ==
    ASSUME IInv
    PROVE  /\ command \in [Scbs -> Commands \cup {None}]
           /\ \A s \in Busy : command[s] # None
  BY DEF IInv, TypeOK, Owners

LEMMA BadStatusStep ==
    ASSUME IInv, NEW t \in Tags, BadStatus(t)
    PROVE  /\ IInv'
           /\ Installed(Search({DeviceOf(t)}), OnCard, Search({DeviceOf(t)}).found, {t}, command)
<1> DEFINE devices == {DeviceOf(t)}
           r == Search(devices)
           done == r.found
<1>1. /\ t \in Connectable
      /\ Install(r, done, command) /\ OffCard(done \cup {t})
      /\ posted = {} /\ posted' = {t}
      /\ seq' = seq /\ resets' = resets /\ UNCHANGED <<ARG_1, slot, SELBUSB>>
  BY DEF BadStatus, FreezeDevq, Handler, fetch
<1>2. t \in OnCard /\ t \notin done /\ seq = "poll" /\ t \notin waiting
  BY <1>1, Target
<1>3. resets' \in 0 .. ResetsPerFetch
  BY <1>1 DEF IInv, TypeOK
<1> HIDE DEF done, r, devices
<1>4. posted' = (posted \ done) \cup {t} /\ {t} \subseteq OnCard
      /\ {t} \cap (done \cup waiting) = {} /\ done \subseteq OnCard \cup posted \cup r.found
      /\ r.found \subseteq done
  BY <1>1, <1>2 DEF done
<1>5. r = Search(devices)
  BY DEF r
<1>6. Settled' /\ Installed(r, OnCard, done, {t}, command)
  BY <1>1, <1>3, <1>4, <1>5, CommandType, SearchStep
<1>7. FetchIsFresh'
  BY <1>1, <1>2 DEF FetchIsFresh
<1>8. QED BY <1>6, <1>7 DEF IInv, Settled, r, done, devices

LEMMA DataOverrunStep ==
    ASSUME IInv, NEW t \in Tags, DataOverrun(t)
    PROVE  /\ IInv'
           /\ Installed(Search({DeviceOf(t)}), OnCard, Search({DeviceOf(t)}).found, {},
                        [command EXCEPT ![scbindex[t]].sense = FALSE])
<1> DEFINE devices == {DeviceOf(t)}
           r == Search(devices)
           done == r.found
           scb == scbindex[t]
           cmds == [command EXCEPT ![scb].sense = FALSE]
<1>1. /\ t \in Connectable
      /\ Install(r, done, cmds) /\ OffCard(done)
      /\ posted = {} /\ posted' = posted
      /\ seq' = seq /\ resets' = resets /\ UNCHANGED <<ARG_1, slot, SELBUSB>>
  BY DEF DataOverrun, FreezeDevq, Handler, fetch
<1>2. t \in OnCard /\ seq = "poll" /\ scb \in Busy /\ scb \in Scbs /\ command[scb] \in Commands
  BY <1>1, Target
<1>3. resets' \in 0 .. ResetsPerFetch
  BY <1>1 DEF IInv, TypeOK
<1> HIDE DEF done, r, devices, scb
<1>4. posted' = (posted \ done) \cup {} /\ {} \subseteq OnCard
      /\ {} \cap (done \cup waiting) = {} /\ done \subseteq OnCard \cup posted \cup r.found
      /\ r.found \subseteq done
  BY <1>1, <1>2 DEF done
<1>5. r = Search(devices)
  BY DEF r
<1>6. /\ cmds \in [Scbs -> Commands \cup {None}]
      /\ \A s \in Busy : cmds[s] # None /\ cmds[s].req = command[s].req
  <2>1. [command[scb] EXCEPT !.sense = FALSE] \in Commands
        /\ [command[scb] EXCEPT !.sense = FALSE].req = command[scb].req
    BY <1>2 DEF Commands
  <2>2. QED BY <1>2, <2>1, CommandType, QinfifoAssumption DEF Busy
<1> HIDE DEF cmds
<1>7. OffCard(done \cup {})
  BY <1>1 DEF OffCard
<1>8. Settled' /\ Installed(r, OnCard, done, {}, cmds)
  <2>1. Install(r, done, cmds) /\ seq' \in {"poll", seq} /\ UNCHANGED <<ARG_1, slot, SELBUSB>>
    BY <1>1
  <2>2. QED BY <1>3, <1>4, <1>5, <1>6, <1>7, <2>1, SearchStep, CommandType, SMTT(30)
<1>9. FetchIsFresh'
  BY <1>1, <1>2 DEF FetchIsFresh
<1>10. QED BY <1>8, <1>9 DEF IInv, Settled, r, done, devices, cmds, scb

\* ahc_abort_scbs with the sequencer restarted.
LEMMA AbortStep ==
    ASSUME IInv, NEW devices, NEW others, AbortScbs(devices, others),
           others \subseteq OnCard \cup posted \cup Search(devices).found,
           posted' = posted \ (Search(devices).found \cup others),
           seq' \in {"poll", seq}, resets' \in 0 .. ResetsPerFetch,
           UNCHANGED <<ARG_1, slot, SELBUSB>>
    PROVE  /\ Settled'
           /\ Installed(Search(devices), OnCard, Search(devices).found \cup others, {}, command)
<1> DEFINE r == Search(devices)
           done == r.found \cup others
<1>1. Install(r, done, command) /\ OffCard(done)
  BY DEF AbortScbs
<1> HIDE DEF r, done
<1>2. OffCard(done \cup {})
  BY <1>1 DEF OffCard
<1>3. /\ r = Search(devices) /\ r.found \subseteq done
      /\ done \subseteq OnCard \cup posted \cup r.found
      /\ posted' = (posted \ done) \cup {}
      /\ {} \subseteq OnCard /\ {} \cap (done \cup waiting) = {}
  BY DEF r, done
<1>4. Settled' /\ Installed(r, OnCard, done, {}, command)
  BY <1>1, <1>2, <1>3, CommandType, SearchStep
<1>5. QED BY <1>4 DEF r, done

LEMMA BusFreeStep ==
    ASSUME IInv, NEW t \in Tags, BusFree(t)
    PROVE  /\ IInv'
           /\ LET others == IF card[t].sense THEN TagsOf({DeviceOf(t)}) ELSE {t}
              IN Installed(Search({DeviceOf(t)}), OnCard,
                           Search({DeviceOf(t)}).found \cup others, {}, command)
<1> DEFINE devices == {DeviceOf(t)}
           others == IF card[t].sense THEN TagsOf(devices) ELSE {t}
<1>1. /\ t \in Connectable /\ AbortScbs(devices, others)
      /\ posted = {} /\ posted' = posted
      /\ seq' = "poll" /\ resets' = resets /\ UNCHANGED <<ARG_1, slot, SELBUSB>>
  BY DEF BusFree, Handler, Restart
<1>2. t \in OnCard
  BY <1>1, Target
<1>3. others \subseteq OnCard \cup posted \cup Search(devices).found
  BY <1>2, DoneIsKnown
<1>4. resets' \in 0 .. ResetsPerFetch
  BY <1>1 DEF IInv, TypeOK
<1> HIDE DEF others, devices
<1>5. posted' = posted \ (Search(devices).found \cup others)
  BY <1>1
<1>6. Settled' /\ Installed(Search(devices), OnCard, Search(devices).found \cup others, {}, command)
  BY <1>1, <1>3, <1>4, <1>5, AbortStep
<1>7. FetchIsFresh'
  BY <1>1 DEF FetchIsFresh
<1>8. QED BY <1>6, <1>7 DEF IInv, Settled, others, devices

LEMMA SelectionTimeoutStep ==
    ASSUME IInv, NEW t \in Tags, SelectionTimeout(t)
    PROVE  /\ IInv'
           /\ Installed(Search({DeviceOf(t)}), OnCard,
                        Search({DeviceOf(t)}).found \cup TagsOf({DeviceOf(t)}), {}, command)
<1> DEFINE devices == {DeviceOf(t)}
           others == TagsOf(devices)
<1>1. /\ AbortScbs(devices, others)
      /\ posted = {} /\ posted' = posted
      /\ seq' = "poll" /\ resets' = resets /\ UNCHANGED <<ARG_1, slot, SELBUSB>>
  BY DEF SelectionTimeout, Handler, Restart
<1>2. others \subseteq OnCard \cup posted \cup Search(devices).found
  BY DoneIsKnown
<1>3. resets' \in 0 .. ResetsPerFetch
  BY <1>1 DEF IInv, TypeOK
<1> HIDE DEF others, devices
<1>4. posted' = posted \ (Search(devices).found \cup others)
  BY <1>1
<1>5. Settled' /\ Installed(Search(devices), OnCard, Search(devices).found \cup others, {}, command)
  BY <1>1, <1>2, <1>3, <1>4, AbortStep
<1>6. FetchIsFresh'
  BY <1>1 DEF FetchIsFresh
<1>7. QED BY <1>5, <1>6 DEF IInv, Settled, others, devices

\* With one reset during a fetch, the head it leaves is not the one the
\* sequencer is fetching: that was the reserved hardware SCB before.
LEMMA ResetFetch ==
    ASSUME IInv, NEW r, NEW on, NEW done, NEW extra, NEW cmds,
           Installed(r, on, done, extra, cmds),
           \/ r.list = Queue /\ r.mem = mem /\ r.reserved = Reserved
           \/ Append(r.list, r.reserved)[1] = Reserved,
           seq' = seq, resets' = resets + 1, ResetsPerFetch <= 1
    PROVE  FetchIsFresh'
<1>1. SUFFICES ASSUME seq # "poll" PROVE FetchIsFresh'
  BY DEF FetchIsFresh
<1>2. resets \in Nat /\ resets = 0 /\ resets' = 1
  <2>1. resets \in 0 .. ResetsPerFetch /\ resets + 1 \in 0 .. ResetsPerFetch
        /\ ResetsPerFetch \in Nat
    BY QinfifoAssumption DEF IInv, TypeOK, Installed
  <2>2. QED BY <2>1
<1>3. /\ NEXT_QUEUED_SCB = ARG_1 /\ Queue # <<>>
      /\ seq \in {"dma_next", "check"} => slot.cmd = mem[ARG_1].cmd
      /\ seq = "check" => slot.next = mem[ARG_1].next
  BY <1>1, <1>2 DEF IInv, FetchIsFresh
<1>4. ARG_1' = ARG_1 /\ slot' = slot /\ mem' = r.mem
  BY DEF Installed, Install
<1>5. /\ Queue \in Seq(Tags) /\ Len(Queue) \in Nat /\ Len(Queue) # 0
      /\ DOMAIN Queue = 1 .. Len(Queue) /\ 1 \in 1 .. Len(Queue)
      /\ Queue[1] \in QueueTags
      /\ Reserved \in Tags /\ Reserved \notin QueueTags
  <2>1. /\ Queue \in Seq(Tags) /\ Len(Queue) \in Nat /\ DOMAIN Queue = 1 .. Len(Queue)
        /\ \A i \in 1 .. Len(Queue) : Queue[i] \in QueueTags
    BY QueueFacts DEF IInv
  <2>2. Len(Queue) # 0
    BY <1>3, <2>1, EmptySeq
  <2>3. QED BY <2>1, <2>2, OwnerFacts DEF IInv
<1>6. \A i \in 1 .. Len(Queue) : Append(Queue, Reserved)[i] = Queue[i]
  BY <1>5, AppendProperties
<1>7. ARG_1 = Queue[1]
  BY <1>3, <1>5, <1>6 DEF IInv, ListMatchesRing, Reserved
<1>8. NEXT_QUEUED_SCB' = Append(r.list, r.reserved)[1] /\ Queue' = r.list
  <2>1. Queue' = r.list /\ hscb' = r.hscb
    BY InstalledQueue, InstalledOwners
  <2>2. r.reserved = r.hscb[next_queued_scb]
    BY DEF Installed, Sound, SoundTypes
  <2>3. ListMatchesRing'
    BY InstalledSettles DEF Settled
  <2>4. QED BY <2>1, <2>2, <2>3 DEF ListMatchesRing
<1>9. CASE Append(r.list, r.reserved)[1] = Reserved
  <2>1. NEXT_QUEUED_SCB' # ARG_1'
    BY <1>4, <1>5, <1>7, <1>8, <1>9
  <2>2. QED BY <1>2, <2>1 DEF FetchIsFresh
<1>10. CASE r.list = Queue /\ r.mem = mem /\ r.reserved = Reserved
  <2>1. NEXT_QUEUED_SCB' = ARG_1' /\ Queue' # <<>> /\ mem' = mem
    BY <1>3, <1>4, <1>5, <1>6, <1>7, <1>8, <1>10
  <2>2. ScbAvail'
    <3>1. Count(SNSCB_QOFF', HNSCB_QOFF') # 0
      BY <1>5, <1>10, InstalledQueue
    <3>2. SNSCB_QOFF' \in Positions /\ HNSCB_QOFF' \in Positions
      BY InstalledQueue DEF IInv, TypeOK
    <3>3. QED BY <3>1, <3>2, RingFacts DEF ScbAvail
  <2>3. QED BY <1>3, <1>4, <2>1, <2>2 DEF FetchIsFresh
<1>11. QED BY <1>9, <1>10

LEMMA ResetChannelStep ==
    ASSUME IInv, NEW devices, ResetChannel(devices), ResetsPerFetch <= 1
    PROVE  /\ IInv'
           /\ Installed(Search(devices), OnCard,
                        Search(devices).found \cup (posted \cup TagsOf(devices)), {}, command)
<1> DEFINE others == posted \cup TagsOf(devices)
           r == Search(devices)
           done == r.found \cup others
<1>1. /\ AbortScbs(devices, others) /\ posted' = {}
      /\ \/ seq' = "poll" /\ resets' = resets
         \/ seq' = seq /\ resets' = resets + 1 /\ resets < ResetsPerFetch
      /\ UNCHANGED <<ARG_1, slot, SELBUSB>>
  BY DEF ResetChannel, Restart
<1>2. others \subseteq OnCard \cup posted \cup r.found
  BY DoneIsKnown
<1>3. resets' \in 0 .. ResetsPerFetch
  <2>1. resets \in 0 .. ResetsPerFetch /\ ResetsPerFetch \in Nat
    BY QinfifoAssumption DEF IInv, TypeOK
  <2>2. QED BY <1>1, <2>1
<1>4. posted' = posted \ done
  BY <1>1
<1>5. SearchEffect(r, devices)
  BY SearchSound
<1> HIDE DEF others
<1>6. Settled' /\ Installed(r, OnCard, done, {}, command)
  BY <1>1, <1>2, <1>3, <1>4, AbortStep
<1> HIDE DEF r, done
<1>7. FetchIsFresh'
  <2>1. CASE seq' = "poll"
    BY <2>1 DEF FetchIsFresh
  <2>2. CASE seq' = seq /\ resets' = resets + 1
    BY <1>5, <1>6, <2>2, ResetFetch DEF SearchEffect
  <2>3. QED BY <1>1, <2>1, <2>2
<1>8. QED BY <1>6, <1>7 DEF IInv, Settled, r, done, others
-----------------------------------------------------------------------------
(* The sequencer. *)

LEMMA QueueSame ==
    ASSUME UNCHANGED <<qinfifo, qinfifonext, SNSCB_QOFF>>
    PROVE  Queue' = Queue /\ QueueTags' = QueueTags
<1>1. Queue' = Queue
  BY DEF Queue
<1>2. QED BY <1>1 DEF QueueTags

LEMMA ScbsSame ==
    ASSUME UNCHANGED scbvars
    PROVE  /\ Busy' = Busy /\ Known' = Known /\ Reserved' = Reserved
           /\ Owners => Owners'
  BY DEF scbvars, Busy, Known, Reserved, Owners, TagsFindTheirScb

\* A step of a fetch that leaves the queue alone.
LEMMA FetchStep ==
    ASSUME IInv, TypeOK',
           UNCHANGED <<hostvars, HNSCB_QOFF, SNSCB_QOFF, NEXT_QUEUED_SCB, cardvars>>
    PROVE  Settled' /\ Queue' = Queue /\ (ScbAvail' <=> ScbAvail)
<1>1. UNCHANGED <<scbvars, hscb, scbindex, command, mem, qinfifo, qinfifonext,
                  waiting, card, posted>>
  BY DEF hostvars, scbvars, cardvars
<1>2. Queue' = Queue /\ QueueTags' = QueueTags
  BY <1>1, QueueSame
<1>3. Known' = Known /\ Owners'
  BY <1>1, ScbsSame DEF IInv
<1>4. OnCard' = OnCard
  BY <1>1 DEF OnCard
<1>5. Places'
  BY <1>1, <1>2, <1>3, <1>4 DEF Places, IInv, Distinct
<1>6. Contents'
  BY <1>1, <1>3, <1>4 DEF Contents, IInv
<1>7. CardBehind'
  BY <1>2 DEF CardBehind, IInv
<1>8. ListMatchesRing'
  BY <1>1, <1>2 DEF ListMatchesRing, IInv
<1>9. QED BY <1>2, <1>3, <1>5, <1>6, <1>7, <1>8 DEF Settled, ScbAvail

LEMMA TestQueueStep ==
    ASSUME IInv, TestQueue
    PROVE  IInv'
<1>1. TypeOK'
  <2>1. SELBUSB' \in BOOLEAN
    BY Zenon DEF TestQueue
  <2>2. resets' \in 0 .. ResetsPerFetch
    BY QinfifoAssumption DEF TestQueue
  <2>3. QED BY <2>1, <2>2 DEF IInv, TypeOK, TestQueue, hostvars, scbvars, cardvars
<1>2. Settled' /\ Queue' = Queue /\ (ScbAvail' <=> ScbAvail)
  BY <1>1, FetchStep DEF TestQueue
<1>3. Queue # <<>>
  <2>1. SNSCB_QOFF \in Positions /\ HNSCB_QOFF \in Positions /\ HNSCB_QOFF # SNSCB_QOFF
    BY DEF IInv, TypeOK, TestQueue, ScbAvail
  <2>2. Count(SNSCB_QOFF, HNSCB_QOFF) # 0 /\ Count(SNSCB_QOFF, HNSCB_QOFF) \in Nat
    <3>1. Count(SNSCB_QOFF, HNSCB_QOFF) \in Positions
      BY <2>1, RingFacts
    <3>2. QED BY <2>1, <3>1, RingFacts, RingOne DEF Positions
  <2>3. Len(Queue) # 0
    BY <2>2 DEF IInv, CardBehind
  <2>4. QED BY <2>3
<1>4. FetchIsFresh'
  BY <1>2, <1>3 DEF FetchIsFresh, TestQueue
<1>5. QED BY <1>2, <1>4 DEF IInv, Settled

LEMMA DmaScbStep ==
    ASSUME IInv, DmaScb
    PROVE  IInv'
<1>1. TypeOK'
  <2>1. slot' \in [cmd : Commands \cup {None}, next : Tags]
    BY DEF IInv, TypeOK, DmaScb
  <2>2. QED BY <2>1 DEF IInv, TypeOK, DmaScb, hostvars, scbvars, cardvars
<1>2. Settled' /\ Queue' = Queue /\ (ScbAvail' <=> ScbAvail)
  BY <1>1, FetchStep DEF DmaScb
<1>3. slot'.cmd = mem[ARG_1].cmd /\ mem' = mem
  BY DEF IInv, TypeOK, DmaScb, hostvars
<1>4. FetchIsFresh'
  BY <1>2, <1>3 DEF IInv, FetchIsFresh, DmaScb
<1>5. QED BY <1>2, <1>4 DEF IInv, Settled

LEMMA DmaScbNextStep ==
    ASSUME IInv, DmaScbNext
    PROVE  IInv'
<1>1. TypeOK'
  <2>1. slot' \in [cmd : Commands \cup {None}, next : Tags]
    BY DEF IInv, TypeOK, DmaScbNext
  <2>2. QED BY <2>1 DEF IInv, TypeOK, DmaScbNext, hostvars, scbvars, cardvars
<1>2. Settled' /\ Queue' = Queue /\ (ScbAvail' <=> ScbAvail)
  BY <1>1, FetchStep DEF DmaScbNext
<1>3. slot'.cmd = slot.cmd /\ slot'.next = mem[ARG_1].next /\ mem' = mem
  BY DEF IInv, TypeOK, DmaScbNext, hostvars
<1>4. FetchIsFresh'
  BY <1>2, <1>3 DEF IInv, FetchIsFresh, DmaScbNext
<1>5. QED BY <1>2, <1>4 DEF IInv, Settled

LEMMA AbortQinscbStep ==
    ASSUME IInv, AbortQinscb
    PROVE  IInv'
<1>1. TypeOK'
  BY DEF IInv, TypeOK, AbortQinscb, hostvars, scbvars, cardvars
<1>2. Settled' /\ Queue' = Queue /\ (ScbAvail' <=> ScbAvail)
  BY <1>1, FetchStep DEF AbortQinscb
<1>3. FetchIsFresh'
  BY DEF FetchIsFresh, AbortQinscb
<1>4. QED BY <1>2, <1>3 DEF IInv, Settled

\* A fetch ends: the head of the queue goes to the card with its command.
LEMMA TakeQinscbFacts ==
    ASSUME IInv, TakeQinscb
    PROVE  /\ Queue # <<>> /\ ARG_1 = Queue[1] /\ Queue' = Tail(Queue)
           /\ QueueTags' = QueueTags \ {ARG_1} /\ ARG_1 \in QueueTags
           /\ slot.cmd = mem[ARG_1].cmd /\ slot.cmd # None
           /\ slot.next = mem[ARG_1].next
           /\ Len(Queue) \in Nat /\ Len(Queue) >= 1
           /\ Len(Tail(Queue)) = Len(Queue) - 1
           /\ \A i \in 1 .. Len(Queue) - 1 : Tail(Queue)[i] = Queue[i + 1]
           /\ Tail(Queue) \in Seq(Tags)
           /\ SNSCB_QOFF' \in Positions
           /\ Count(SNSCB_QOFF', HNSCB_QOFF) = Count(SNSCB_QOFF, HNSCB_QOFF) - 1
<1> DEFINE p == SNSCB_QOFF
           q == qinfifonext
           n == Len(Queue)
<1>1. /\ NEXT_QUEUED_SCB = ARG_1 /\ ScbAvail /\ Queue # <<>>
      /\ slot.cmd = mem[ARG_1].cmd /\ slot.next = mem[ARG_1].next
  <2>1. NEXT_QUEUED_SCB = ARG_1 /\ seq = "check"
    BY DEF TakeQinscb, StillQueued
  <2>2. QED BY <2>1 DEF IInv, FetchIsFresh
<1>2. /\ Queue \in Seq(Tags) /\ n \in Nat /\ n = Count(p, q) /\ DOMAIN Queue = 1 .. n
      /\ \A i \in 1 .. n : Queue[i] \in QueueTags /\ Queue[i] = qinfifo[Plus(p, i - 1)]
      /\ Reserved \in Tags /\ QueueTags \subseteq Known
  BY QueueFacts, OwnerFacts DEF IInv
<1>3. n >= 1
  <2>1. n # 0
    BY <1>1, <1>2, EmptySeq
  <2>2. QED BY <1>2, <2>1
<1>4. ARG_1 = Queue[1] /\ ARG_1 \in QueueTags
  <2>1. Append(Queue, Reserved)[1] = Queue[1] /\ 1 \in 1 .. n
    BY <1>2, <1>3, AppendProperties
  <2>2. QED BY <1>1, <1>2, <2>1 DEF IInv, ListMatchesRing, Reserved
<1>5. slot.cmd # None
  BY <1>1, <1>2, <1>4 DEF IInv, Contents
<1>6. /\ Tail(Queue) \in Seq(Tags) /\ Len(Tail(Queue)) = n - 1
      /\ \A i \in 1 .. n - 1 : Tail(Queue)[i] = Queue[i + 1]
  BY <1>1, <1>2, HeadTailProperties
<1>7. p \in Positions /\ q \in Positions /\ HNSCB_QOFF \in Positions /\ HNSCB_QOFF # p
  BY <1>1 DEF IInv, TypeOK, ScbAvail
<1>8. /\ SNSCB_QOFF' = Plus(p, 1) /\ qinfifonext' = q /\ qinfifo' = qinfifo
  BY DEF TakeQinscb, Advance, hostvars
<1> HIDE DEF p, q, n
<1>9. p # q
  BY <1>2, <1>3, <1>7, RingFacts
<1>10. /\ Plus(p, 1) \in Positions
       /\ Count(Plus(p, 1), q) = n - 1
       /\ \A i \in 0 .. n - 2 : Plus(Plus(p, 1), i) = Plus(p, i + 1)
       /\ Count(Plus(p, 1), HNSCB_QOFF) = Count(p, HNSCB_QOFF) - 1
  BY <1>2, <1>7, <1>9, RingSteps
<1>11. Queue' = Tail(Queue)
  <2>1. Queue' = [i \in 1 .. Count(Plus(p, 1), q) |-> qinfifo[Plus(Plus(p, 1), i - 1)]]
    BY <1>8 DEF Queue
  <2>2. \A i \in 1 .. Len(Tail(Queue)) : qinfifo[Plus(Plus(p, 1), i - 1)] = Tail(Queue)[i]
    <3>1. TAKE i \in 1 .. Len(Tail(Queue))
    <3>2. /\ i \in 1 .. n - 1 /\ i - 1 \in 0 .. n - 2 /\ (i - 1) + 1 = (i + 1) - 1
          /\ i + 1 \in 1 .. n
      BY <1>2, <1>6
    <3>3. Plus(Plus(p, 1), i - 1) = Plus(p, (i + 1) - 1)
      BY <1>10, <3>2
    <3>4. QED BY <1>2, <1>6, <3>2, <3>3
  <2>3. [i \in 1 .. Count(Plus(p, 1), q) |-> qinfifo[Plus(Plus(p, 1), i - 1)]] = Tail(Queue)
    <3>1. Tail(Queue) = [i \in 1 .. n - 1 |-> Tail(Queue)[i]]
      BY <1>6, LenProperties
    <3>2. \A i \in 1 .. n - 1 : qinfifo[Plus(Plus(p, 1), i - 1)] = Tail(Queue)[i]
      BY <1>6, <2>2
    <3>3. Count(Plus(p, 1), q) = n - 1
      BY <1>10
    <3>4. QED BY <3>1, <3>2, <3>3
  <2>4. QED BY <2>1, <2>3
<1>12. QueueTags' = QueueTags \ {ARG_1}
  <2>1. QueueTags' = {Tail(Queue)[i] : i \in 1 .. n - 1}
    <3>1. DOMAIN Tail(Queue) = 1 .. n - 1
      BY <1>6, LenProperties
    <3>2. QueueTags' = {Tail(Queue)[i] : i \in DOMAIN Tail(Queue)}
      BY <1>11 DEF QueueTags
    <3>3. QED BY <3>1, <3>2
  <2>2. ASSUME NEW i \in 1 .. n - 1
        PROVE  Tail(Queue)[i] \in QueueTags /\ Tail(Queue)[i] # ARG_1
    <3>1. i + 1 \in 1 .. n /\ i + 1 # 1 /\ 1 \in 1 .. n
      BY <1>2, <1>3
    <3>2. Queue[i + 1] # Queue[1]
      BY <1>2, <3>1 DEF IInv, Places, Distinct
    <3>3. QED BY <1>2, <1>4, <1>6, <3>1, <3>2
  <2>3. ASSUME NEW t \in QueueTags, t # ARG_1
        PROVE  \E i \in 1 .. n - 1 : Tail(Queue)[i] = t
    <3>1. PICK k \in 1 .. n : Queue[k] = t
      BY <1>2 DEF QueueTags
    <3>2. k # 1
      BY <1>4, <2>3, <3>1
    <3>3. k - 1 \in 1 .. n - 1 /\ (k - 1) + 1 = k
      BY <1>2, <3>2
    <3>4. QED BY <1>6, <3>1, <3>3
  <2>4. QED BY <2>1, <2>2, <2>3
<1>13. QED BY <1>1, <1>2, <1>3, <1>4, <1>5, <1>6, <1>8, <1>10, <1>11, <1>12 DEF p, n

LEMMA TakeQinscbStep ==
    ASSUME IInv, TakeQinscb
    PROVE  IInv'
<1> DEFINE n == Len(Queue)
<1>1. /\ UNCHANGED scbvars /\ mem' = mem /\ qinfifo' = qinfifo
      /\ qinfifonext' = qinfifonext /\ HNSCB_QOFF' = HNSCB_QOFF
      /\ hscb' = hscb /\ scbindex' = scbindex /\ command' = command
      /\ NEXT_QUEUED_SCB' = slot.next /\ posted' = posted
      /\ card' = [card EXCEPT ![ARG_1] = slot.cmd]
      /\ waiting' = waiting \cup {ARG_1} /\ seq' = "poll"
      /\ UNCHANGED <<ARG_1, slot, SELBUSB, resets>>
  BY DEF TakeQinscb, hostvars, scbvars
<1>2. /\ Queue # <<>> /\ ARG_1 = Queue[1] /\ Queue' = Tail(Queue)
      /\ QueueTags' = QueueTags \ {ARG_1} /\ ARG_1 \in QueueTags
      /\ slot.cmd = mem[ARG_1].cmd /\ slot.cmd # None
      /\ slot.next = mem[ARG_1].next
      /\ n \in Nat /\ n >= 1
      /\ Len(Tail(Queue)) = n - 1
      /\ \A i \in 1 .. n - 1 : Tail(Queue)[i] = Queue[i + 1]
      /\ Tail(Queue) \in Seq(Tags)
      /\ SNSCB_QOFF' \in Positions
      /\ Count(SNSCB_QOFF', HNSCB_QOFF) = Count(SNSCB_QOFF, HNSCB_QOFF) - 1
  BY TakeQinscbFacts
<1>3. DOMAIN Tail(Queue) = 1 .. n - 1 /\ DOMAIN Queue = 1 .. n
      /\ Queue \in Seq(Tags) /\ Reserved \in Tags
      /\ \A i \in 1 .. n : Queue[i] \in Tags
  BY <1>2, LenProperties, QueueFacts, OwnerFacts DEF IInv
<1> HIDE DEF n
<1>4. ARG_1 \in Tags /\ ARG_1 \in Known
  BY <1>2, OwnerFacts DEF IInv
<1>5. /\ OnCard' = OnCard \cup {ARG_1}
      /\ \A t \in OnCard : t # ARG_1
      /\ \A t \in Tags : card'[t] = IF t = ARG_1 THEN slot.cmd ELSE card[t]
  <2>1. \A t \in Tags : card'[t] = IF t = ARG_1 THEN slot.cmd ELSE card[t]
    BY <1>1, <1>4 DEF IInv, TypeOK
  <2>2. OnCard' = OnCard \cup {ARG_1}
    BY <1>2, <1>4, <2>1 DEF OnCard
  <2>3. QED BY <1>2, <2>1, <2>2 DEF IInv, Places
<1>6. TypeOK'
  <2>1. card' \in [Tags -> Commands \cup {None}]
    BY <1>1 DEF IInv, TypeOK
  <2>2. waiting' \subseteq Tags /\ NEXT_QUEUED_SCB' \in Tags
    BY <1>1, <1>4 DEF IInv, TypeOK
  <2>3. {qinfifonext', HNSCB_QOFF', SNSCB_QOFF'} \subseteq Positions
    BY <1>1, <1>2 DEF IInv, TypeOK
  <2>4. /\ seq' \in {"poll", "dma", "dma_next", "check"}
        /\ ARG_1' = ARG_1 /\ slot' = slot /\ SELBUSB' = SELBUSB /\ resets' = resets
    BY <1>1
  <2>5. free_scbs' = free_scbs
    BY <1>1 DEF scbvars
  <2>6. QED BY <1>1, <2>1, <2>2, <2>3, <2>4, <2>5 DEF IInv, TypeOK
<1>7. Owners' /\ Known' = Known /\ Reserved' = Reserved
  BY <1>1, ScbsSame DEF IInv
<1>8. Places'
  <2>1. Distinct(Queue)'
    <3>1. \A i, j \in 1 .. n - 1 : i + 1 \in 1 .. n /\ j + 1 \in 1 .. n /\ (i + 1 = j + 1 => i = j)
      BY <1>2
    <3>2. \A i, j \in 1 .. n - 1 : Tail(Queue)[i] = Tail(Queue)[j] => i = j
      BY <1>2, <1>3, <3>1 DEF IInv, Places, Distinct
    <3>3. QED BY <1>2, <1>3, <3>2 DEF Distinct
  <2>2. /\ Known' = QueueTags' \cup OnCard' \cup posted'
        /\ QueueTags' \cap (OnCard' \cup posted') = {}
        /\ OnCard' \cap posted' = {}
        /\ waiting' \subseteq OnCard'
    <3>1. /\ Known = QueueTags \cup OnCard \cup posted
          /\ QueueTags \cap (OnCard \cup posted) = {}
          /\ OnCard \cap posted = {} /\ waiting \subseteq OnCard
      BY DEF IInv, Places
    <3>2. /\ OnCard' = OnCard \cup {ARG_1} /\ posted' = posted /\ Known' = Known
          /\ QueueTags' = QueueTags \ {ARG_1} /\ ARG_1 \in QueueTags
          /\ waiting' = waiting \cup {ARG_1}
      BY <1>1, <1>2, <1>5, <1>7
    <3>3. QED BY <3>1, <3>2
  <2>3. QED BY <2>1, <2>2 DEF Places
<1>9. Contents'
  <2>1. \A t \in OnCard' : card'[t] = mem[t].cmd
    <3>1. TAKE t \in OnCard'
    <3>2. CASE t = ARG_1
      <4>1. card'[ARG_1] = slot.cmd
        BY <1>1, <1>4 DEF IInv, TypeOK
      <4>2. QED BY <1>2, <3>2, <4>1
    <3>3. CASE t # ARG_1
      BY <1>5, <3>3 DEF IInv, Contents, OnCard
    <3>4. QED BY <3>2, <3>3
  <2>2. QED BY <1>1, <1>7, <2>1 DEF Contents, IInv
<1>10. CardBehind'
  <2>1. Count(SNSCB_QOFF, HNSCB_QOFF) <= n /\ Count(SNSCB_QOFF, HNSCB_QOFF) \in Nat
    <3>1. Count(SNSCB_QOFF, HNSCB_QOFF) \in Positions
      BY RingFacts DEF IInv, TypeOK
    <3>2. QED BY <3>1, RingOne DEF IInv, CardBehind, Positions, n
  <2>2. QED BY <1>1, <1>2, <2>1 DEF CardBehind
<1>11. ListMatchesRing'
  <2>1. \A k \in 1 .. n : Append(Tail(Queue), Reserved)[k] = Append(Queue, Reserved)[k + 1]
    <3>1. TAKE k \in 1 .. n
    <3>2. Append(Tail(Queue), Reserved)[k] = IF k = n THEN Reserved ELSE Tail(Queue)[k]
      <4>1. \A i \in 1 .. (n - 1) + 1 :
               Append(Tail(Queue), Reserved)[i] = IF i = (n - 1) + 1 THEN Reserved ELSE Tail(Queue)[i]
        BY <1>2, <1>3, AppendProperties
      <4>2. (n - 1) + 1 = n
        BY <1>2
      <4>3. QED BY <4>1, <4>2
    <3>3. Append(Queue, Reserved)[k + 1] = IF k = n THEN Reserved ELSE Queue[k + 1]
      <4>1. \A i \in 1 .. n + 1 :
               Append(Queue, Reserved)[i] = IF i = n + 1 THEN Reserved ELSE Queue[i]
        BY <1>3, AppendProperties DEF n
      <4>2. k + 1 \in 1 .. n + 1 /\ (k + 1 = n + 1 <=> k = n)
        BY <1>2
      <4>3. QED BY <4>1, <4>2
    <3>4. k # n => k \in 1 .. n - 1
      BY <1>2
    <3>5. QED BY <1>2, <3>2, <3>3, <3>4
  <2>2. \A i \in 1 .. n : mem[Append(Queue, Reserved)[i]].next = Append(Queue, Reserved)[i + 1]
    BY <1>3 DEF IInv, ListMatchesRing, Reserved
  <2>3. NEXT_QUEUED_SCB' = Append(Tail(Queue), Reserved)[1]
    <3>1. Append(Queue, Reserved)[1] = Queue[1] /\ 1 \in 1 .. n /\ 1 + 1 = 2
      BY <1>2, <1>3, AppendProperties DEF n
    <3>2. QED BY <1>1, <1>2, <2>1, <2>2, <3>1
  <2>4. ASSUME NEW i \in 1 .. n - 1
        PROVE  mem[Append(Tail(Queue), Reserved)[i]].next = Append(Tail(Queue), Reserved)[i + 1]
    <3>1. i \in 1 .. n /\ i + 1 \in 1 .. n
      BY <1>2
    <3>2. QED BY <2>1, <2>2, <3>1
  <2>5. QED BY <1>1, <1>2, <1>3, <1>7, <2>3, <2>4 DEF ListMatchesRing, Reserved
<1>12. FetchIsFresh'
  BY <1>1 DEF FetchIsFresh
<1>13. QED BY <1>6, <1>7, <1>8, <1>9, <1>10, <1>11, <1>12 DEF IInv

\* Steps that move commands off the card or free SCBs but leave the queue alone.
LEMMA OtherStep ==
    ASSUME IInv, TypeOK', Owners', Places', Contents',
           UNCHANGED <<hscb, mem, qinfifo, qinfifonext, HNSCB_QOFF, SNSCB_QOFF,
                       NEXT_QUEUED_SCB, fetch>>
    PROVE  IInv'
<1>1. Queue' = Queue
  BY QueueSame
<1>2. CardBehind' /\ ListMatchesRing'
  BY <1>1 DEF CardBehind, ListMatchesRing, IInv
<1>3. FetchIsFresh'
  BY <1>1 DEF FetchIsFresh, IInv, ScbAvail, fetch
<1>4. QED BY <1>2, <1>3 DEF IInv

LEMMA SelectStep ==
    ASSUME IInv, NEW t \in Tags, Select(t)
    PROVE  IInv'
<1>1. /\ waiting' = waiting \ {t} /\ UNCHANGED <<hostvars, fetch, card, posted>>
      /\ UNCHANGED <<scbvars, hscb, scbindex, command, mem, qinfifo, qinfifonext>>
      /\ UNCHANGED <<HNSCB_QOFF, SNSCB_QOFF, NEXT_QUEUED_SCB>>
  BY DEF Select, hostvars, scbvars
<1>2. TypeOK'
  BY <1>1 DEF IInv, TypeOK, scbvars, fetch
<1>3. Owners' /\ Known' = Known
  BY <1>1, ScbsSame DEF IInv
<1>4. Queue' = Queue /\ QueueTags' = QueueTags
  BY <1>1, QueueSame
<1>5. OnCard' = OnCard
  BY <1>1 DEF OnCard
<1>6. Places' /\ Contents'
  BY <1>1, <1>3, <1>4, <1>5 DEF Places, Contents, IInv, Distinct
<1>7. QED BY <1>1, <1>2, <1>3, <1>6, OtherStep

LEMMA CompleteStep ==
    ASSUME IInv, NEW t \in Tags, Complete(t)
    PROVE  IInv'
<1>1. /\ card' = [card EXCEPT ![t] = None] /\ posted' = posted \cup {t}
      /\ UNCHANGED <<fetch, waiting>>
      /\ UNCHANGED <<scbvars, hscb, scbindex, command, mem, qinfifo, qinfifonext>>
      /\ UNCHANGED <<HNSCB_QOFF, SNSCB_QOFF, NEXT_QUEUED_SCB>>
      /\ t \in Connectable
  BY DEF Complete, hostvars, scbvars
<1>2. t \in OnCard /\ t \notin waiting
  BY <1>1 DEF Connectable, OnCard
<1>3. TypeOK'
  BY <1>1 DEF IInv, TypeOK, scbvars, fetch
<1>4. Owners' /\ Known' = Known
  BY <1>1, ScbsSame DEF IInv
<1>5. Queue' = Queue /\ QueueTags' = QueueTags
  BY <1>1, QueueSame
<1>6. OnCard' = OnCard \ {t} /\ \A u \in OnCard' : card'[u] = card[u]
  BY <1>1 DEF OnCard, IInv, TypeOK
<1>7. Places'
  BY <1>1, <1>2, <1>4, <1>5, <1>6 DEF Places, IInv, Distinct
<1>8. Contents'
  BY <1>1, <1>4, <1>6 DEF Contents, IInv
<1>9. QED BY <1>1, <1>3, <1>4, <1>7, <1>8, OtherStep
-----------------------------------------------------------------------------
(* The host. *)

LEMMA DeliverQoffStep ==
    ASSUME IInv, DeliverQoff
    PROVE  IInv'
<1>1. /\ HNSCB_QOFF' = Plus(HNSCB_QOFF, 1) /\ HNSCB_QOFF # qinfifonext
      /\ UNCHANGED <<fetch, SNSCB_QOFF, NEXT_QUEUED_SCB, waiting, card, posted>>
      /\ UNCHANGED <<scbvars, hscb, scbindex, command, mem, qinfifo, qinfifonext>>
  BY DEF DeliverQoff, Flushed, hostvars, scbvars, cardvars
<1>2. SNSCB_QOFF \in Positions /\ HNSCB_QOFF \in Positions /\ qinfifonext \in Positions
  BY DEF IInv, TypeOK
<1> DEFINE c == Count(SNSCB_QOFF, HNSCB_QOFF)
           n == Len(Queue)
<1>3. c \in Nat /\ c <= n /\ n = Count(SNSCB_QOFF, qinfifonext) /\ n < RingSize /\ n \in Nat
  <2>1. c \in Positions
    BY <1>2, RingFacts
  <2>2. QED BY <2>1, RingOne, QueueFacts DEF IInv, CardBehind, Positions
<1>4. c # n
  <2>1. Plus(SNSCB_QOFF, c) = HNSCB_QOFF
        /\ Plus(SNSCB_QOFF, Count(SNSCB_QOFF, qinfifonext)) = qinfifonext
    BY <1>2, RingFacts
  <2>2. QED BY <1>1, <1>3, <2>1
<1>5. HNSCB_QOFF' \in Positions /\ Count(SNSCB_QOFF, HNSCB_QOFF') = c + 1
  <2>1. c + 1 < RingSize
    BY <1>3, <1>4, RingOne
  <2>2. QED BY <1>1, <1>2, <2>1, RingSteps
<1>6. TypeOK'
  BY <1>1, <1>5 DEF IInv, TypeOK, scbvars, fetch
<1>7. Owners' /\ Known' = Known
  BY <1>1, ScbsSame DEF IInv
<1>8. Queue' = Queue /\ QueueTags' = QueueTags
  BY <1>1, QueueSame
<1>9. OnCard' = OnCard
  BY <1>1 DEF OnCard
<1>10. Places' /\ Contents' /\ ListMatchesRing'
  BY <1>1, <1>7, <1>8, <1>9 DEF Places, Contents, ListMatchesRing, IInv, Distinct
<1> HIDE DEF c, n
<1>11. CardBehind'
  <2>1. c + 1 <= n
    BY <1>3, <1>4
  <2>2. QED BY <1>1, <1>5, <1>8, <2>1 DEF CardBehind, n
<1>12. ScbAvail'
  <2>1. Count(SNSCB_QOFF, HNSCB_QOFF') # 0
    BY <1>3, <1>5
  <2>2. QED BY <1>1, <1>2, <1>5, <2>1, RingFacts DEF ScbAvail
<1>13. FetchIsFresh'
  BY <1>1, <1>8, <1>12 DEF FetchIsFresh, IInv, fetch
<1>14. QED BY <1>6, <1>7, <1>10, <1>11, <1>13 DEF IInv

LEMMA AutosenseFailedStep ==
    ASSUME IInv, NEW t \in Tags, AutosenseFailed(t)
    PROVE  IInv'
<1> DEFINE scb == scbindex[t]
<1>1. /\ t \in Connectable /\ posted = {} /\ posted' = {t}
      /\ command' = [command EXCEPT ![scb].sense = FALSE]
      /\ card' = [u \in Tags |-> IF u \in {t} THEN None ELSE card[u]]
      /\ UNCHANGED <<free_scbs, hscb, scbindex, mem, qinfifo, qinfifonext,
                   HNSCB_QOFF, SNSCB_QOFF, NEXT_QUEUED_SCB, fetch, waiting>>
  BY DEF AutosenseFailed, Handler, OffCard
<1>2. /\ t \in OnCard /\ scb \in Busy /\ scb \in Scbs /\ command[scb] \in Commands
      /\ waiting \subseteq OnCard \ {t}
  BY <1>1, Target
<1> HIDE DEF scb
<1>3. /\ command' \in [Scbs -> Commands \cup {None}]
      /\ \A s \in Busy : command'[s] # None /\ command'[s].req = command[s].req
  <2>1. [command[scb] EXCEPT !.sense = FALSE] \in Commands
        /\ [command[scb] EXCEPT !.sense = FALSE].req = command[scb].req
    BY <1>2 DEF Commands
  <2>2. QED BY <1>1, <1>2, <2>1, CommandType, QinfifoAssumption DEF Busy
<1>4. TypeOK'
  <2>1. card' \in [Tags -> Commands \cup {None}]
    BY <1>1 DEF IInv, TypeOK
  <2>2. QED BY <1>1, <1>3, <2>1 DEF IInv, TypeOK, fetch
<1>5. Busy' = Busy /\ Known' = Known
  BY <1>1 DEF Busy, Known
<1>6. Owners'
  <2>1. TagsFindTheirScb'
    BY <1>1, <1>5 DEF IInv, Owners, TagsFindTheirScb
  <2>2. QED BY <1>3, <1>5, <2>1 DEF IInv, Owners
<1>7. Queue' = Queue /\ QueueTags' = QueueTags
  BY <1>1, QueueSame
<1>8. OnCard' = OnCard \ {t} /\ \A u \in OnCard' : card'[u] = card[u]
  BY <1>1 DEF OnCard
<1>9. Places'
  BY <1>1, <1>2, <1>5, <1>7, <1>8 DEF Places, IInv, Distinct
<1>10. Contents'
  <2>1. \A u \in Known : scbindex[u] \in Busy
    BY OwnerFacts DEF IInv
  <2>2. \A u \in Known : command'[scbindex[u]].req = command[scbindex[u]].req
    BY <1>3, <2>1
  <2>3. OnCard \subseteq Known
    BY OwnerFacts DEF IInv
  <2>4. QED BY <1>1, <1>5, <1>8, <2>2, <2>3 DEF Contents, IInv
<1>11. QED BY <1>1, <1>4, <1>6, <1>9, <1>10, OtherStep

LEMMA AhcDoneStep ==
    ASSUME IInv, NEW t \in Tags, AhcDone(t)
    PROVE  IInv'
<1> DEFINE scb == scbindex[t]
<1>1. /\ t \in posted /\ posted' = posted \ {t}
      /\ free_scbs' = free_scbs \cup {scb}
      /\ command' = [s \in Scbs |-> IF s \in {scb} THEN None ELSE command[s]]
      /\ scbindex' = [scbindex EXCEPT ![t] = None]
      /\ UNCHANGED <<hscb, mem, qinfifo, qinfifonext, HNSCB_QOFF, SNSCB_QOFF,
                     NEXT_QUEUED_SCB, fetch, waiting, card>>
  <2>1. {scbindex[u] : u \in {t}} = {scb}
    OBVIOUS
  <2>2. QED BY <2>1 DEF AhcDone, Freed
<1>2. t \in Known /\ t \notin QueueTags /\ t \notin OnCard
  BY <1>1 DEF IInv, Places
<1>3. scb \in Busy /\ hscb[scb] = t /\ scb \in Scbs /\ None \notin Scbs
      /\ \A u \in Known : scbindex[u] \in Busy /\ hscb[scbindex[u]] = u
  BY <1>2, OwnerFacts DEF IInv
<1>4. Busy' = Busy \ {scb} /\ scb # next_queued_scb
  BY <1>1, <1>3 DEF Busy
<1>5. \A u \in Tags : scbindex'[u] = IF u = t THEN None ELSE scbindex[u]
  BY <1>1 DEF IInv, TypeOK
<1>6. \A s \in Busy' : command'[s] = command[s]
  BY <1>1, <1>4 DEF Busy
<1> HIDE DEF scb
<1>7. Owners'
  <2>1. ASSUME NEW u \in Tags, NEW s \in Scbs
        PROVE  scbindex'[u] = s <=> hscb[s] = u /\ s \in Busy'
    <3>1. scbindex[u] = s <=> hscb[s] = u /\ s \in Busy
      BY DEF IInv, Owners, TagsFindTheirScb
    <3>2. CASE u = t
      <4>1. hscb[s] = t => s = scb
        BY <1>3 DEF IInv, Owners, TagsFindTheirScb
      <4>2. QED BY <1>3, <1>4, <1>5, <3>2, <4>1
    <3>3. CASE u # t
      BY <1>3, <1>4, <1>5, <3>1, <3>3
    <3>4. QED BY <3>2, <3>3
  <2>2. TagsFindTheirScb'
    BY <1>1, <2>1 DEF IInv, Owners, TagsFindTheirScb
  <2>3. Busy' \subseteq Busy
    BY <1>4
  <2>4. QED BY <1>6, <2>2, <2>3 DEF IInv, Owners
<1>8. TypeOK'
  <2>1. /\ command' \in [Scbs -> Commands \cup {None}]
        /\ scbindex' \in [Tags -> Scbs \cup {None}]
        /\ free_scbs' \subseteq Scbs \ {next_queued_scb}
    BY <1>1, <1>3, <1>4 DEF IInv, TypeOK
  <2>2. QED BY <1>1, <2>1 DEF IInv, TypeOK, fetch
<1>9. Known' = Known \ {t}
  BY <1>5 DEF Known
<1>10. Queue' = Queue /\ QueueTags' = QueueTags /\ OnCard' = OnCard
  BY <1>1, QueueSame DEF OnCard
<1>11. Places'
  BY <1>1, <1>2, <1>9, <1>10 DEF Places, IInv, Distinct
<1>12. Contents'
  <2>1. ASSUME NEW u \in Known \ {t}
        PROVE  scbindex'[u] = scbindex[u] /\ command'[scbindex[u]] = command[scbindex[u]]
    <3>1. u \in Tags /\ scbindex'[u] = scbindex[u]
      BY <1>5 DEF Known
    <3>2. scbindex[u] \in Busy /\ scbindex[u] # scb
      BY <1>3
    <3>3. QED BY <1>4, <1>6, <3>1, <3>2
  <2>2. OnCard \subseteq Known \ {t}
    BY <1>2, OwnerFacts DEF IInv
  <2>3. \A u \in Known \ {t} :
           /\ mem[u].cmd # None
           /\ mem[u].cmd.req = command'[scbindex'[u]].req
    BY <2>1 DEF IInv, Contents
  <2>4. QED BY <1>1, <1>9, <1>10, <2>2, <2>3 DEF Contents, IInv
<1>13. QED BY <1>1, <1>7, <1>8, <1>11, <1>12, OtherStep

\* The ring takes one more at its end.
LEMMA AppendQueue ==
    ASSUME IInv, NEW new \in Tags \ Known, NEW old \in Tags \ Known, new # old,
           qinfifo' = [qinfifo EXCEPT ![qinfifonext] = new],
           qinfifonext' = Plus(qinfifonext, 1), SNSCB_QOFF' = SNSCB_QOFF
    PROVE  /\ Queue' = Append(Queue, new)
           /\ qinfifonext' \in Positions
           /\ qinfifo' \in [Positions -> Tags \cup {None}]
<1> DEFINE p == SNSCB_QOFF
           q == qinfifonext
           n == Len(Queue)
           list == Append(Queue, new)
<1>1. p \in Positions /\ q \in Positions /\ qinfifo \in [Positions -> Tags \cup {None}]
  BY DEF IInv, TypeOK
<1>2. /\ Queue \in Seq(Tags) /\ n \in Nat /\ n = Count(p, q)
      /\ \A i \in 1 .. n : Queue[i] = qinfifo[Plus(p, i - 1)]
      /\ QueueTags \subseteq Known
  BY QueueFacts, OwnerFacts DEF IInv
<1>3. n + 1 < RingSize
  BY <1>2, Room DEF IInv
<1>4. list \in Seq(Tags) /\ Len(list) = n + 1
      /\ \A i \in 1 .. n + 1 : list[i] = IF i = n + 1 THEN new ELSE Queue[i]
  BY <1>2, AppendProperties
<1> HIDE DEF p, q, n, list
<1>5. Plus(q, 1) \in Positions /\ Count(p, Plus(q, 1)) = n + 1
  BY <1>1, <1>2, <1>3, RingSteps
<1>6. ASSUME NEW i \in 1 .. n + 1
      PROVE  qinfifo'[Plus(p, i - 1)] = list[i]
  <2>1. i - 1 \in Positions /\ i - 1 \in Nat
    BY <1>2, <1>3, RingOne DEF Positions
  <2>2. Plus(p, i - 1) \in Positions /\ Count(p, Plus(p, i - 1)) = i - 1
    BY <1>1, <2>1, RingFacts
  <2>3. Plus(p, n) = q
    BY <1>1, <1>2, RingFacts
  <2>4. \A x \in Positions : qinfifo'[x] = IF x = q THEN new ELSE qinfifo[x]
    BY <1>1 DEF q
  <2>5. CASE i = n + 1
    <3>1. i - 1 = n
      BY <1>2, <2>5
    <3>2. QED BY <1>4, <2>2, <2>3, <2>4, <2>5, <3>1
  <2>6. CASE i # n + 1
    <3>1. i \in 1 .. n /\ i - 1 # n
      BY <1>2, <2>6
    <3>2. Plus(p, i - 1) # q
      BY <1>2, <2>2, <3>1
    <3>3. QED BY <1>2, <1>4, <2>2, <2>4, <2>6, <3>1, <3>2
  <2>7. QED BY <2>5, <2>6
<1>7. Queue' = list
  <2>1. Queue' = [i \in 1 .. n + 1 |-> qinfifo'[Plus(p, i - 1)]]
    BY <1>5 DEF Queue, p, q
  <2>2. list = [i \in 1 .. n + 1 |-> list[i]]
    BY <1>4, LenProperties
  <2>3. QED BY <1>6, <2>1, <2>2
<1>8. QED BY <1>1, <1>5, <1>7 DEF list, q

LEMMA StartIoStep ==
    ASSUME IInv, NEW r \in Reqs, StartIo(r)
    PROVE  /\ IInv' /\ Queue' = Append(Queue, Reserved)
           /\ mem'[Reserved].cmd = [req |-> r, sense |-> FALSE]
           /\ \A t \in Known : mem'[t] = mem[t]
<1> DEFINE new == Reserved
           cmd == [req |-> r, sense |-> FALSE]
           n == Len(Queue)
<1>1. PICK s \in free_scbs :
        /\ free_scbs' = free_scbs \ {s}
        /\ command' = [command EXCEPT ![s] = cmd]
        /\ hscb' = [hscb EXCEPT ![s] = new, ![next_queued_scb] = hscb[s]]
        /\ scbindex' = [scbindex EXCEPT ![new] = s]
        /\ mem' = [mem EXCEPT ![hscb[s]].cmd = cmd, ![new] = [cmd |-> cmd, next |-> hscb[s]]]
        /\ qinfifo' = [qinfifo EXCEPT ![qinfifonext] = new]
        /\ qinfifonext' = Plus(qinfifonext, 1)
  BY DEF StartIo, Reserved
<1>2. /\ \A u \in Busy : command[u].req # r
      /\ UNCHANGED <<HNSCB_QOFF, SNSCB_QOFF, NEXT_QUEUED_SCB, fetch, cardvars>>
      /\ UNCHANGED <<waiting, card, posted, seq, ARG_1, slot, SELBUSB, resets>>
  BY DEF StartIo, fetch, cardvars
<1> DEFINE old == hscb[s]
<1>3. /\ new \in Tags /\ new \notin Known /\ next_queued_scb \notin Busy
      /\ \A t \in Known : scbindex[t] \in Busy /\ hscb[scbindex[t]] = t
      /\ QueueTags \subseteq Known /\ OnCard \subseteq Known /\ posted \subseteq Known
      /\ Known \subseteq Tags /\ None \notin Scbs /\ Busy \subseteq Scbs
  BY OwnerFacts DEF IInv
<1>4. s \in Scbs /\ s # next_queued_scb /\ s \notin Busy
  BY DEF IInv, TypeOK, Busy
<1>5. cmd \in Commands /\ cmd # None /\ cmd.req = r
  <2>1. cmd \in Commands /\ cmd.req = r
    BY DEF Commands
  <2> HIDE DEF cmd
  <2>2. QED BY <2>1, QinfifoAssumption
<1>6. /\ hscb' \in [Scbs -> Tags]
      /\ \A x, y \in Scbs : hscb'[x] = hscb'[y] => x = y
      /\ hscb'[s] = new /\ hscb'[next_queued_scb] = old
      /\ \A x \in Scbs \ {s, next_queued_scb} : hscb'[x] = hscb[x]
      /\ old # new
  <2>1. hscb' = [hscb EXCEPT ![s] = Reserved, ![next_queued_scb] = hscb[s]]
    BY <1>1
  <2>2. /\ next_queued_scb \in Scbs /\ hscb \in [Scbs -> Tags] /\ Reserved \in Tags
        /\ \A x, y \in Scbs : hscb[x] = hscb[y] => x = y
    BY QinfifoAssumption DEF IInv, TypeOK, Owners, TagsFindTheirScb, Reserved
  <2>3. hscb' \in [Scbs -> Tags]
    BY <1>4, <2>1, <2>2
  <2>4. /\ hscb'[s] = Reserved /\ hscb'[next_queued_scb] = hscb[s]
        /\ \A x \in Scbs \ {s, next_queued_scb} : hscb'[x] = hscb[x]
    BY <1>4, <2>1, <2>2
  <2>5. hscb[s] # Reserved
    BY <1>4, <2>2 DEF Reserved
  <2>6. \A x, y \in Scbs : hscb'[x] = hscb'[y] => x = y
    BY <1>4, <2>2, <2>4, <2>5 DEF Reserved
  <2>7. QED BY <2>3, <2>4, <2>5, <2>6
<1>7. old \in Tags /\ old \notin Known
  <2>1. old \in Tags
    BY <1>4 DEF IInv, TypeOK
  <2>2. ASSUME old \in Known PROVE FALSE
    <3>1. scbindex[old] \in Busy /\ hscb[scbindex[old]] = old
      BY <1>3, <2>2
    <3>2. scbindex[old] = s
      BY <1>3, <1>4, <3>1 DEF IInv, Owners, TagsFindTheirScb
    <3>3. QED BY <1>4, <3>1, <3>2
  <2>3. QED BY <2>1, <2>2
<1>8. /\ mem' \in [Tags -> [cmd : Commands \cup {None}, next : Tags]]
      /\ mem'[new].cmd = cmd /\ mem'[new].next = old
      /\ \A t \in Tags \ {new, old} : mem'[t] = mem[t]
  <2> HIDE DEF new, old, cmd
  <2>1. mem' = [mem EXCEPT ![old].cmd = cmd, ![new] = [cmd |-> cmd, next |-> old]]
    BY <1>1 DEF old
  <2>2. mem' = [t \in Tags |->
                  IF t = new THEN [cmd |-> cmd, next |-> old]
                  ELSE IF t = old THEN [mem[old] EXCEPT !.cmd = cmd]
                  ELSE mem[t]]
    BY <1>3, <1>6, <1>7, <2>1 DEF IInv, TypeOK
  <2>3. [mem[old] EXCEPT !.cmd = cmd] \in [cmd : Commands \cup {None}, next : Tags]
    BY <1>5, <1>7 DEF IInv, TypeOK
  <2>4. QED BY <1>3, <1>5, <1>7, <2>2, <2>3 DEF IInv, TypeOK
<1>9. /\ command' \in [Scbs -> Commands \cup {None}] /\ command'[s] = cmd
      /\ \A u \in Scbs \ {s} : command'[u] = command[u]
  BY <1>1, <1>4, <1>5 DEF IInv, TypeOK
<1>10. /\ scbindex' \in [Tags -> Scbs \cup {None}] /\ scbindex'[new] = s
       /\ \A t \in Tags \ {new} : scbindex'[t] = scbindex[t]
  BY <1>1, <1>3, <1>4 DEF IInv, TypeOK
<1>11. Busy' = Busy \cup {s} /\ Known' = Known \cup {new}
  <2>1. Busy' = Busy \cup {s}
    BY <1>1, <1>4 DEF Busy
  <2>2. \A t \in Tags : t \in Known' <=> t \in Known \cup {new}
    BY <1>3, <1>4, <1>10 DEF Known
  <2>3. QED BY <1>3, <2>1, <2>2 DEF Known
<1>12. /\ Queue' = Append(Queue, new) /\ qinfifonext' \in Positions
       /\ qinfifo' \in [Positions -> Tags \cup {None}]
  BY <1>1, <1>2, <1>3, <1>6, <1>7, AppendQueue
<1> HIDE DEF new, old, cmd
<1>13. /\ Queue \in Seq(Tags) /\ n \in Nat /\ DOMAIN Queue = 1 .. n
       /\ \A i \in 1 .. n : Queue[i] \in QueueTags
       /\ n = Len(Queue)
  BY QueueFacts DEF IInv
<1> HIDE DEF n
<1>14. /\ Queue' \in Seq(Tags) /\ Len(Queue') = n + 1 /\ DOMAIN Queue' = 1 .. n + 1
       /\ Queue'[n + 1] = new /\ \A i \in 1 .. n : Queue'[i] = Queue[i]
  <2>1. /\ Append(Queue, new) \in Seq(Tags) /\ Len(Append(Queue, new)) = n + 1
        /\ \A i \in 1 .. n + 1 : Append(Queue, new)[i] = IF i = n + 1 THEN new ELSE Queue[i]
    BY <1>3, <1>13, AppendProperties
  <2>2. DOMAIN Append(Queue, new) = 1 .. n + 1
    BY <2>1, LenProperties
  <2>3. n + 1 \in 1 .. n + 1 /\ \A i \in 1 .. n : i \in 1 .. n + 1 /\ i # n + 1
    BY <1>13
  <2>4. QED BY <1>12, <2>1, <2>2, <2>3
<1>15. \A i \in 1 .. n + 1 : i = n + 1 \/ i \in 1 .. n
  BY <1>13
<1>16. QueueTags' = QueueTags \cup {new}
  <2>1. n + 1 \in 1 .. n + 1 /\ \A i \in 1 .. n : i \in 1 .. n + 1
    BY <1>13
  <2>2. QueueTags' = {Queue'[i] : i \in 1 .. n + 1} /\ QueueTags = {Queue[i] : i \in 1 .. n}
    BY <1>13, <1>14 DEF QueueTags
  <2>3. QED BY <1>14, <1>15, <2>1, <2>2
<1>17. TypeOK'
  <2>1. free_scbs' \subseteq Scbs \ {next_queued_scb}
    BY <1>1 DEF IInv, TypeOK
  <2>2. {qinfifonext', HNSCB_QOFF', SNSCB_QOFF'} \subseteq Positions
    BY <1>2, <1>12 DEF IInv, TypeOK
  <2>3. QED BY <1>2, <1>6, <1>8, <1>9, <1>10, <1>12, <2>1, <2>2 DEF IInv, TypeOK
<1>18. Owners'
  <2>1. ASSUME NEW t \in Tags, NEW u \in Scbs
        PROVE  scbindex'[t] = u <=> hscb'[u] = t /\ u \in Busy'
    <3>1. CASE t = new
      BY <1>6, <1>4, <1>10, <1>11, <3>1
    <3>2. CASE t # new
      <4>1. scbindex'[t] = u <=> hscb[u] = t /\ u \in Busy
        BY <1>10, <3>2 DEF IInv, Owners, TagsFindTheirScb
      <4>2. CASE u = s
        BY <1>4, <1>6, <3>2, <4>1, <4>2
      <4>3. CASE u = next_queued_scb
        BY <1>3, <1>4, <1>11, <4>1, <4>3
      <4>4. CASE u \notin {s, next_queued_scb}
        BY <1>6, <1>11, <4>1, <4>4
      <4>5. QED BY <4>2, <4>3, <4>4
    <3>3. QED BY <3>1, <3>2
  <2>2. TagsFindTheirScb'
    BY <1>6, <2>1 DEF TagsFindTheirScb
  <2>3. \A u \in Busy' : command'[u] # None
    BY <1>3, <1>4, <1>5, <1>9, <1>11 DEF IInv, Owners
  <2>4. \A u, v \in Busy' : command'[u].req = command'[v].req => u = v
    <3>1. \A u \in Busy : command'[u] = command[u] /\ u # s
      BY <1>3, <1>4, <1>9
    <3>2. command'[s].req = r
      BY <1>5, <1>9
    <3>3. QED BY <1>2, <1>11, <3>1, <3>2 DEF IInv, Owners
  <2>5. QED BY <2>2, <2>3, <2>4 DEF Owners
<1>19. OnCard' = OnCard
  BY <1>2 DEF OnCard
<1>20. Places'
  <2>1. Distinct(Queue)'
    <3>1. \A i \in 1 .. n : Queue[i] # new
      BY <1>3, <1>13
    <3>2. QED BY <1>13, <1>14, <1>15, <3>1 DEF IInv, Places, Distinct
  <2>2. QED BY <1>2, <1>3, <1>11, <1>16, <1>19, <2>1 DEF Places, IInv
<1>21. Contents'
  <2>1. ASSUME NEW t \in Known
        PROVE  mem'[t] = mem[t] /\ scbindex'[t] = scbindex[t]
               /\ command'[scbindex[t]] = command[scbindex[t]]
    <3>1. t \in Tags /\ t # new /\ t # old /\ scbindex[t] \in Busy
      BY <1>3, <1>7
    <3>2. QED BY <1>3, <1>4, <1>8, <1>9, <1>10, <3>1
  <2>2. ASSUME NEW t \in Known'
        PROVE  mem'[t].cmd # None /\ mem'[t].cmd.req = command'[scbindex'[t]].req
    <3>1. CASE t = new
      BY <1>5, <1>8, <1>9, <1>10, <3>1
    <3>2. CASE t # new
      BY <1>11, <2>1, <3>2 DEF IInv, Contents
    <3>3. QED BY <3>1, <3>2
  <2>3. \A t \in OnCard : card'[t] = mem'[t].cmd
    BY <1>2, <1>3, <2>1 DEF IInv, Contents
  <2>4. QED BY <1>19, <2>2, <2>3 DEF Contents
<1>22. CardBehind'
  <2>1. Count(SNSCB_QOFF, HNSCB_QOFF) \in Positions
    BY RingFacts DEF IInv, TypeOK
  <2>2. Count(SNSCB_QOFF, HNSCB_QOFF) \in Nat
    BY <2>1, RingOne DEF Positions
  <2>3. QED BY <1>2, <1>13, <1>14, <2>2 DEF IInv, CardBehind
<1>23. /\ \A i \in 1 .. n + 1 : Append(Queue, new)[i] = Queue'[i]
       /\ \A i \in 1 .. n + 1 : Append(Queue', old)[i] = Queue'[i]
       /\ Append(Queue', old)[n + 2] = old
  <2>1. \A i \in 1 .. (n + 1) + 1 :
           Append(Queue', old)[i] = IF i = (n + 1) + 1 THEN old ELSE Queue'[i]
    BY <1>7, <1>14, AppendProperties
  <2>2. n + 2 \in 1 .. (n + 1) + 1 /\ n + 2 = (n + 1) + 1
        /\ \A i \in 1 .. n + 1 : i \in 1 .. (n + 1) + 1 /\ i # (n + 1) + 1
    BY <1>13
  <2>3. QED BY <1>12, <2>1, <2>2
<1>24. ListMatchesRing'
  <2>1. \A i \in 1 .. n : Append(Queue, new)[i] = Queue[i]
    BY <1>3, <1>13, AppendProperties
  <2>2. /\ NEXT_QUEUED_SCB = Append(Queue, new)[1]
        /\ \A i \in 1 .. n : mem[Queue[i]].next = Append(Queue, new)[i + 1]
    BY <1>13, <2>1 DEF IInv, ListMatchesRing, Reserved, new
  <2>3. NEXT_QUEUED_SCB' = Append(Queue', old)[1]
    <3>1. 1 \in 1 .. n + 1
      BY <1>13
    <3>2. QED BY <1>2, <1>23, <2>2, <3>1
  <2>4. ASSUME NEW i \in 1 .. n + 1
        PROVE  mem'[Append(Queue', old)[i]].next = Append(Queue', old)[i + 1]
    <3>1. CASE i = n + 1
      <4>1. i + 1 = n + 2
        BY <1>13, <3>1
      <4>2. QED BY <1>8, <1>14, <1>23, <3>1, <4>1
    <3>2. CASE i \in 1 .. n
      <4>1. i + 1 \in 1 .. n + 1 /\ i \in 1 .. n + 1
        BY <1>13, <3>2
      <4>2. Append(Queue', old)[i] = Queue[i] /\ Append(Queue', old)[i + 1] = Append(Queue, new)[i + 1]
        BY <1>14, <1>23, <3>2, <4>1
      <4>3. Queue[i] \in Known
        BY <1>3, <1>13, <3>2
      <4>4. Queue[i] \in Tags \ {new, old}
        BY <1>3, <1>7, <4>3
      <4>5. QED BY <1>8, <2>2, <3>2, <4>2, <4>4
    <3>3. QED BY <1>15, <3>1, <3>2
  <2>5. QED BY <1>6, <1>14, <2>3, <2>4 DEF ListMatchesRing
<1>25. FetchIsFresh'
  <2>1. CASE NEXT_QUEUED_SCB = ARG_1 /\ seq # "poll"
    <3>1. /\ ScbAvail /\ Queue # <<>>
          /\ seq \in {"dma_next", "check"} => slot.cmd = mem[ARG_1].cmd
          /\ seq = "check" => slot.next = mem[ARG_1].next
      BY <2>1 DEF IInv, FetchIsFresh
    <3>2. n # 0 /\ 1 \in 1 .. n
      <4>1. n # 0
        BY <1>13, <3>1, EmptySeq
      <4>2. QED BY <1>13, <4>1
    <3>3. ARG_1 = Queue[1]
      <4>1. Append(Queue, new)[1] = Queue[1]
        BY <1>3, <1>13, <3>2, AppendProperties
      <4>2. QED BY <2>1, <4>1 DEF IInv, ListMatchesRing, Reserved, new
    <3>4. ARG_1 \in Tags \ {new, old}
      BY <1>3, <1>7, <1>13, <3>2, <3>3
    <3>5. mem'[ARG_1] = mem[ARG_1]
      BY <1>8, <3>4
    <3>6. Queue' # <<>>
      <4>1. Len(Queue') # 0
        BY <1>13, <1>14
      <4>2. QED BY <4>1
    <3>7. ScbAvail'
      BY <1>2, <3>1 DEF ScbAvail
    <3>8. /\ seq' = seq /\ ARG_1' = ARG_1 /\ slot' = slot
          /\ NEXT_QUEUED_SCB' = NEXT_QUEUED_SCB
      BY <1>2
    <3>9. /\ seq \in {"dma_next", "check"} => slot.cmd = mem'[ARG_1].cmd
          /\ seq = "check" => slot.next = mem'[ARG_1].next
      BY <3>1, <3>5
    <3>10. QED BY <2>1, <3>6, <3>7, <3>8, <3>9 DEF FetchIsFresh
  <2>2. CASE NEXT_QUEUED_SCB # ARG_1 \/ seq = "poll"
    BY <1>2, <2>2 DEF IInv, FetchIsFresh
  <2>3. QED BY <2>1, <2>2
<1>26. \A t \in Known : mem'[t] = mem[t]
  BY <1>3, <1>7, <1>8
<1>27. IInv'
  BY <1>17, <1>18, <1>20, <1>21, <1>22, <1>24, <1>25 DEF IInv
<1>28. QED BY <1>8, <1>12, <1>26, <1>27 DEF new, cmd
-----------------------------------------------------------------------------
(* The invariant. *)

LEMMA InitIInv ==
    ASSUME Init
    PROVE  IInv
<1>1. 0 \in Positions /\ next_queued_scb \in Scbs
  BY RingOne, QinfifoAssumption DEF Positions
<1>2. /\ hscb \in [Scbs -> Tags] /\ \A s, u \in Scbs : hscb[s] = hscb[u] => s = u
      /\ Reserved \in Tags
  BY <1>1 DEF Init, Reserved
<1>3. Queue = <<>> /\ QueueTags = {} /\ DOMAIN Queue = {}
  <2>1. Count(0, 0) = 0
    BY <1>1, RingFacts
  <2>2. Count(SNSCB_QOFF, qinfifonext) = 0
    BY <2>1 DEF Init
  <2>3. 1 .. 0 = {}
    OBVIOUS
  <2>4. DOMAIN Queue = {}
    BY <2>2, <2>3 DEF Queue
  <2>5. Queue = <<>>
    BY <2>2 DEF Queue
  <2>6. QED BY <2>4, <2>5 DEF QueueTags
<1>4. Busy = {} /\ Known = {} /\ OnCard = {} /\ posted = {} /\ waiting = {}
  BY <1>1 DEF Init, Busy, Known, OnCard
<1>5. TypeOK
  <2>1. /\ mem \in [Tags -> [cmd : Commands \cup {None}, next : Tags]]
        /\ ARG_1 \in Tags
    BY <1>2 DEF Init, Reserved
  <2>2. slot \in [cmd : Commands \cup {None}, next : Tags]
    BY <2>1 DEF Init
  <2>3. resets \in 0 .. ResetsPerFetch
    BY QinfifoAssumption DEF Init
  <2>4. QED BY <1>1, <1>2, <2>1, <2>2, <2>3 DEF Init, TypeOK, Reserved
<1>6. Owners
  BY <1>2, <1>4, QinfifoAssumption DEF Owners, TagsFindTheirScb, Init
<1>7. Places
  BY <1>3, <1>4 DEF Places, Distinct
<1>8. Contents
  BY <1>4 DEF Contents
<1>9. CardBehind
  <2>1. Count(0, 0) = 0 /\ Len(<<>>) = 0
    BY <1>1, RingFacts
  <2>2. QED BY <1>3, <2>1 DEF CardBehind, Init
<1>10. ListMatchesRing
  <2>1. Append(<<>>, Reserved)[1] = Reserved
    BY <1>2
  <2>2. QED BY <1>3, <2>1 DEF ListMatchesRing, Init, Reserved
<1>11. FetchIsFresh
  BY DEF FetchIsFresh, Init
<1>12. QED BY <1>5, <1>6, <1>7, <1>8, <1>9, <1>10, <1>11 DEF IInv

LEMMA RecoveryStep ==
    ASSUME IInv, Recovery, ResetsPerFetch <= 1
    PROVE  IInv'
<1>1. CASE \E devices \in Channels : ResetChannel(devices)
  BY <1>1, ResetChannelStep
<1>2. ASSUME NEW t \in Tags,
             \/ CheckCondition(t) \/ AutosenseFailed(t)
             \/ BadStatus(t) \/ DataOverrun(t)
             \/ BusFree(t) \/ NegotiationRejected(t)
             \/ SelectionTimeout(t)
      PROVE  IInv'
  BY <1>2, CheckConditionStep, AutosenseFailedStep, BadStatusStep, DataOverrunStep,
     BusFreeStep, NegotiationRejectedStep, SelectionTimeoutStep
<1>3. QED BY <1>1, <1>2 DEF Recovery

LEMMA StutterStep ==
    ASSUME IInv, UNCHANGED vars
    PROVE  IInv'
<1>1. /\ UNCHANGED <<hostvars, HNSCB_QOFF, SNSCB_QOFF, NEXT_QUEUED_SCB, cardvars>>
      /\ UNCHANGED fetch
  BY DEF vars
<1>2. TypeOK'
  BY <1>1 DEF IInv, TypeOK, hostvars, scbvars, cardvars, fetch
<1>3. Settled' /\ Queue' = Queue /\ (ScbAvail' <=> ScbAvail)
  BY <1>1, <1>2, FetchStep
<1>4. FetchIsFresh'
  BY <1>1, <1>3 DEF IInv, FetchIsFresh, fetch, hostvars
<1>5. QED BY <1>3, <1>4 DEF IInv, Settled

LEMMA NextStep ==
    ASSUME IInv, [Next]_vars, ResetsPerFetch <= 1
    PROVE  IInv'
<1>1. CASE Sequencer
  BY <1>1, TestQueueStep, DmaScbStep, DmaScbNextStep, TakeQinscbStep, AbortQinscbStep,
     SelectStep, CompleteStep DEF Sequencer
<1>2. CASE DeliverQoff
  BY <1>2, DeliverQoffStep
<1>3. CASE \E r \in Reqs : StartIo(r)
  BY <1>3, StartIoStep
<1>4. CASE \E t \in Tags : AhcDone(t)
  BY <1>4, AhcDoneStep
<1>5. CASE Recovery
  BY <1>5, RecoveryStep
<1>6. CASE UNCHANGED vars
  BY <1>6, StutterStep
<1>7. QED BY <1>1, <1>2, <1>3, <1>4, <1>5, <1>6 DEF Next

\* The invariant holds as long as no fetch meets a second reset of the channel
\* in the background.
THEOREM Invariance == ResetsPerFetch <= 1 => (Spec => []IInv)
<1>1. ASSUME ResetsPerFetch <= 1 PROVE Spec => []IInv
  <2>1. Init => IInv
    BY InitIInv
  <2>2. IInv /\ [Next]_vars => IInv'
    BY <1>1, NextStep
  <2>3. QED BY <2>1, <2>2, PTL DEF Spec
<1>2. QED BY <1>1

LEMMA IInvImplies ==
    ASSUME IInv
    PROVE  QueueConsistent /\ NoStaleCommand
<1>1. QueueConsistent
  <2>1. Queue \in Seq(Tags) /\ Distinct(Queue) /\ QueueTags = Elements(Queue)
    BY QueueFacts DEF IInv, Places
  <2>2. Cardinality(QueueTags) = Len(Queue)
    BY <2>1, DistinctSize
  <2>3. OnCard = {t \in Tags : card[t] # None}
    BY DEF OnCard
  <2>4. /\ Known = QueueTags \cup OnCard \cup posted
        /\ QueueTags \cap (OnCard \cup posted) = {} /\ OnCard \cap posted = {}
    BY DEF IInv, Places
  <2>5. \A t \in Tags : scbindex[t] # None <=> t \in QueueTags \cup OnCard \cup posted
    BY <2>4 DEF Known
  <2>6. InOnePlace
    BY <2>2, <2>3, <2>4, <2>5, Zenon DEF InOnePlace
  <2>7. QED BY <2>6 DEF QueueConsistent, IInv, Owners
<1>2. NoStaleCommand
  <2>1. SUFFICES ASSUME NEW t \in Tags, card[t] # None
                 PROVE  scbindex[t] # None /\ card[t].req = command[scbindex[t]].req
    BY DEF NoStaleCommand
  <2>2. t \in OnCard /\ t \in Known
    BY <2>1, OwnerFacts DEF OnCard, IInv
  <2>3. QED BY <2>1, <2>2 DEF IInv, Contents, Known
<1>3. QED BY <1>1, <1>2

\* The driver's and the card's views of the queue agree: the list the card
\* follows is the driver's ring, the exchange of hardware SCBs loses none, and
\* every command is in one place, through every search, requeue and reset.
THEOREM ViewsAgree == ResetsPerFetch <= 1 => (Spec => []QueueConsistent)
<1>1. IInv => QueueConsistent
  BY IInvImplies
<1>2. QED BY <1>1, Invariance, PTL

\* What the card runs under a tag is what the driver has under it, although
\* error recovery rewrites the queue while the sequencer reads its head.
THEOREM CardRunsNoStaleCommand == ResetsPerFetch <= 1 => (Spec => []NoStaleCommand)
<1>1. IInv => NoStaleCommand
  BY IInvImplies
<1>2. QED BY <1>1, Invariance, PTL
-----------------------------------------------------------------------------
(* RequestQueue.  Whatever the driver and the sequencer do to hardware     *)
(* SCBs, links and positions, commands start in the order they were        *)
(* queued, each once, and what error recovery takes back belongs to the    *)
(* device in error.  That a REQUEST SENSE is not overtaken follows from    *)
(* the abstract steps.                                                     *)

\* What RequestQueue calls card.
Run == {card[t] : t \in Tags} \ {None}

AbstractVars == <<Queued, Run>>
-----------------------------------------------------------------------------
(* The mapping. *)

LEMMA RunIs ==
    /\ Run = {card[t] : t \in OnCard}
    /\ Run' = {card'[t] : t \in OnCard'}
  BY DEF Run, OnCard

LEMMA QueuedFacts ==
    ASSUME IInv
    PROVE  /\ Queued \in Seq(Commands) /\ Len(Queued) = Len(Queue) /\ Len(Queue) \in Nat
           /\ DOMAIN Queued = 1 .. Len(Queue) /\ DOMAIN Queue = 1 .. Len(Queue)
           /\ \A i \in 1 .. Len(Queue) :
                 /\ Queued[i] = mem[Queue[i]].cmd
                 /\ Queued[i] \in Commands
                 /\ Queued[i].req = command[scbindex[Queue[i]]].req
                 /\ Device[Queued[i].req] = DeviceOf(Queue[i])
                 /\ Queue[i] \in QueueTags /\ Queue[i] \in Known
<1>1. /\ Len(Queue) \in Nat /\ DOMAIN Queue = 1 .. Len(Queue)
      /\ \A i \in 1 .. Len(Queue) : Queue[i] \in QueueTags
      /\ QueueTags \subseteq Known /\ Known \subseteq Tags
  BY QueueFacts, OwnerFacts DEF IInv
<1>2. ASSUME NEW i \in 1 .. Len(Queue)
      PROVE  /\ mem[Queue[i]].cmd \in Commands
             /\ mem[Queue[i]].cmd.req = command[scbindex[Queue[i]]].req
  <2>1. Queue[i] \in Known /\ Queue[i] \in Tags
    BY <1>1
  <2>2. mem[Queue[i]].cmd \in Commands \cup {None}
    BY <2>1 DEF IInv, TypeOK
  <2>3. QED BY <2>1, <2>2 DEF IInv, Contents
<1>3. Queued = [i \in 1 .. Len(Queue) |-> mem[Queue[i]].cmd]
  BY <1>1 DEF Queued
<1>4. Queued \in [1 .. Len(Queue) -> Commands]
  BY <1>2, <1>3
<1>5. Queued \in Seq(Commands)
  BY <1>1, <1>4, SeqDef
<1>6. Len(Queued) = Len(Queue)
  <2>1. Len(Queued) \in Nat /\ DOMAIN Queued = 1 .. Len(Queued)
    BY <1>5, LenProperties
  <2>2. DOMAIN Queued = 1 .. Len(Queue)
    BY <1>3
  <2> DEFINE m == Len(Queued)
             n == Len(Queue)
  <2>3. m \in Nat /\ n \in Nat /\ 1 .. m = 1 .. n
    BY <1>1, <2>1, <2>2
  <2> HIDE DEF m, n
  <2>4. m = n
    BY <2>3
  <2>5. QED BY <2>4 DEF m, n
<1>7. QED BY <1>1, <1>2, <1>3, <1>5, <1>6 DEF DeviceOf

\* A command on the card is under one tag and no longer queued.
LEMMA RunFacts ==
    ASSUME IInv
    PROVE  /\ \A t \in OnCard : /\ card[t] \in Commands /\ card[t] \in Run
                                /\ card[t].req = command[scbindex[t]].req
                                /\ Device[card[t].req] = DeviceOf(t)
                                /\ scbindex[t] \in Busy
           /\ \A t, u \in OnCard : card[t] = card[u] => t = u
<1>1. OnCard \subseteq Known /\ OnCard \subseteq Tags
  BY OwnerFacts DEF IInv, OnCard
<1>2. ASSUME NEW t \in OnCard
      PROVE  /\ card[t] \in Commands /\ card[t] \in Run
             /\ card[t].req = command[scbindex[t]].req
             /\ scbindex[t] \in Busy /\ hscb[scbindex[t]] = t
  <2>1. card[t] \in Commands \cup {None} /\ card[t] # None
    BY <1>1 DEF IInv, TypeOK, OnCard
  <2>2. card[t].req = command[scbindex[t]].req
    BY <1>1 DEF IInv, Contents
  <2>3. scbindex[t] \in Busy /\ hscb[scbindex[t]] = t
    BY <1>1, OwnerFacts DEF IInv
  <2>4. QED BY <1>1, <2>1, <2>2, <2>3 DEF Run
<1>3. ASSUME NEW t \in OnCard, NEW u \in OnCard, card[t] = card[u]
      PROVE  t = u
  <2>1. command[scbindex[t]].req = command[scbindex[u]].req
    BY <1>2, <1>3
  <2>2. scbindex[t] = scbindex[u]
    BY <1>2, <2>1 DEF IInv, Owners
  <2>3. QED BY <1>2, <2>2
<1>4. QED BY <1>2, <1>3 DEF DeviceOf

\* Slots of the card that become free.
LEMMA RunWithout ==
    ASSUME IInv, NEW gone, OnCard' = OnCard \ gone,
           \A t \in OnCard' : card'[t] = card[t]
    PROVE  /\ Run' = Run \ {card[t] : t \in gone \cap OnCard}
           /\ {card[t] : t \in gone \cap OnCard} \subseteq Run
<1>1. Run = {card[t] : t \in OnCard} /\ Run' = {card'[t] : t \in OnCard'}
  BY RunIs
<1>2. \A t, u \in OnCard : card[t] = card[u] => t = u
  BY RunFacts
<1>3. Run' = {card[t] : t \in OnCard \ gone}
  BY <1>1
<1>4. QED BY <1>1, <1>2, <1>3

\* An unchanged queue.
LEMMA QueuedSame ==
    ASSUME IInv, Queue' = Queue,
           \A t \in QueueTags : mem'[t].cmd = mem[t].cmd
    PROVE  Queued' = Queued
<1>1. /\ DOMAIN Queue = 1 .. Len(Queue)
      /\ \A i \in 1 .. Len(Queue) : Queue[i] \in QueueTags
  BY QueueFacts DEF IInv
<1>2. Queued' = [i \in DOMAIN Queue |-> mem'[Queue[i]].cmd]
  BY DEF Queued
<1>3. QED BY <1>1, <1>2 DEF Queued
-----------------------------------------------------------------------------
(* Error recovery. *)

\* What a search keeps is what the abstract queue keeps.
LEMMA WithoutIs ==
    ASSUME IInv, NEW devices
    PROVE  /\ Abstract!Without(devices) = Kept(Queued, KeptAt(devices))
           /\ Abstract!Without(devices)
                 = Abstract!Without(devices \cap {Device[r] : r \in Reqs})
<1>1. /\ DOMAIN Queued = DOMAIN Queue
      /\ \A i \in DOMAIN Queued : /\ Device[Queued[i].req] = DeviceOf(Queue[i])
                                  /\ Queued[i].req \in Reqs
  BY QueuedFacts DEF Commands
<1>2. {i \in DOMAIN Queued : Device[Queued[i].req] \notin devices} = KeptAt(devices)
  BY <1>1 DEF KeptAt
<1>3. {i \in DOMAIN Queued : Device[Queued[i].req] \notin devices}
         = {i \in DOMAIN Queued :
              Device[Queued[i].req] \notin devices \cap {Device[r] : r \in Reqs}}
  BY <1>1
<1> DEFINE K == KeptAt(devices)
<1>4. Abstract!Kept(Queued, K) = Kept(Queued, K)
  <2> HIDE DEF K
  <2>1. QED BY DEF Abstract!Kept, Kept, Abstract!Nth, Nth, Abstract!Cardinality, Cardinality
<1>5. QED BY <1>2, <1>3, <1>4 DEF Abstract!Without

LEMMA SearchView ==
    ASSUME IInv, NEW devices
    PROVE  /\ Search(devices).list \in Seq(Tags)
           /\ [n \in DOMAIN Search(devices).list |->
                 Search(devices).mem[Search(devices).list[n]].cmd]
                 = Abstract!Without(devices)
<1> DEFINE r == Search(devices)
           K == KeptAt(devices)
<1>1. Sound(r, OnCard) /\ SearchEffect(r, devices)
  BY SearchSound
<1>2. r.list \in Seq(Tags) /\ Len(r.list) = Cardinality(K)
  BY <1>1 DEF Sound, SoundTypes, SearchEffect
<1>3. DOMAIN r.list = 1 .. Cardinality(K)
  BY <1>2, LenProperties
<1>4. \A n \in DOMAIN r.list :
         r.mem[r.list[n]].cmd = mem[Queue[Nth(K, n)]].cmd /\ Nth(K, n) \in DOMAIN Queue
  BY <1>1 DEF SearchEffect
<1>5. \A i \in DOMAIN Queue : Queued[i] = mem[Queue[i]].cmd
  BY DEF Queued
<1> HIDE DEF r, K
<1>6. [n \in DOMAIN r.list |-> r.mem[r.list[n]].cmd] = Kept(Queued, K)
  BY <1>3, <1>4, <1>5 DEF Kept
<1>7. QED BY <1>2, <1>6, WithoutIs DEF r, K

LEMMA InstalledView ==
    ASSUME IInv, NEW r, NEW on, NEW done, NEW extra, NEW cmds,
           Installed(r, on, done, extra, cmds)
    PROVE  /\ Queued' = [n \in DOMAIN r.list |-> r.mem[r.list[n]].cmd]
           /\ OnCard' = on \ (done \cup extra)
           /\ \A t \in OnCard' : card'[t] = card[t]
<1>1. Queue' = r.list
  BY InstalledQueue
<1>2. mem' = r.mem
  BY DEF Installed, Install
<1>3. OnCard' = on \ (done \cup extra) /\ \A t \in OnCard' : card'[t] = card[t]
  BY InstalledPlaces
<1>4. QED BY <1>1, <1>2, <1>3 DEF Queued

\* A step that takes back what is queued for some devices, and some of what
\* the card has for them.
TakesBack ==
    \E lost \in SUBSET Run, devices \in SUBSET {Device[r] : r \in Reqs} :
        (\A c \in lost : Device[c.req] \in devices) /\ Abstract!TakeBack(devices, lost)

LEMMA SearchTakesBack ==
    ASSUME IInv, NEW devices, NEW done, NEW extra, NEW cmds,
           Installed(Search(devices), OnCard, done, extra, cmds),
           \A t \in (done \cup extra) \cap OnCard : DeviceOf(t) \in devices
    PROVE  TakesBack
<1> DEFINE D    == devices \cap {Device[r] : r \in Reqs}
           gone == done \cup extra
           lost == {card[t] : t \in gone \cap OnCard}
<1>1. /\ Queued' = Abstract!Without(devices)
      /\ OnCard' = OnCard \ gone /\ \A t \in OnCard' : card'[t] = card[t]
  BY InstalledView, SearchView
<1>2. Abstract!Without(devices) = Abstract!Without(D)
  BY WithoutIs
<1> HIDE DEF gone
<1>3. Run' = Run \ lost /\ lost \subseteq Run
  BY <1>1, RunWithout
<1>4. \A c \in lost : Device[c.req] \in D
  <2>1. \A t \in gone \cap OnCard : DeviceOf(t) \in devices
    BY DEF gone
  <2>2. \A t \in OnCard : Device[card[t].req] = DeviceOf(t) /\ card[t].req \in Reqs
    BY RunFacts DEF Commands
  <2>3. QED BY <2>1, <2>2
<1> HIDE DEF lost, D
<1>5. Abstract!TakeBack(D, lost)
  BY <1>1, <1>2, <1>3 DEF Abstract!TakeBack, Run
<1>6. D \in SUBSET {Device[r] : r \in Reqs}
  BY DEF D
<1>7. lost \in SUBSET Run
  BY <1>3
<1>8. QED BY <1>4, <1>5, <1>6, <1>7, Zenon DEF TakesBack, Abstract!TakeBack

\* What a search finds is the devices'.
LEMMA FoundIsTheirs ==
    ASSUME IInv, NEW devices, NEW t \in Search(devices).found \cup TagsOf(devices)
    PROVE  DeviceOf(t) \in devices
  BY SearchSound DEF SearchEffect, TagsOf

LEMMA SearchesTakeBack ==
    ASSUME IInv, ResetsPerFetch <= 1
    PROVE  /\ \A t \in Tags : BadStatus(t) \/ DataOverrun(t) \/ BusFree(t)
                              \/ SelectionTimeout(t) => TakesBack
           /\ \A devices : ResetChannel(devices) => TakesBack
<1>1. ASSUME NEW t \in Tags, BadStatus(t) PROVE TakesBack
  <2>1. Installed(Search({DeviceOf(t)}), OnCard, Search({DeviceOf(t)}).found, {t}, command)
    BY <1>1, BadStatusStep
  <2>2. \A u \in Search({DeviceOf(t)}).found \cup {t} : DeviceOf(u) \in {DeviceOf(t)}
    BY FoundIsTheirs
  <2>3. QED BY <2>1, <2>2, SearchTakesBack
<1>2. ASSUME NEW t \in Tags, DataOverrun(t) PROVE TakesBack
  <2> DEFINE cmds == [command EXCEPT ![scbindex[t]].sense = FALSE]
  <2>1. Installed(Search({DeviceOf(t)}), OnCard, Search({DeviceOf(t)}).found, {}, cmds)
    BY <1>2, DataOverrunStep
  <2>2. \A u \in Search({DeviceOf(t)}).found \cup {} : DeviceOf(u) \in {DeviceOf(t)}
    BY FoundIsTheirs
  <2> HIDE DEF cmds
  <2>3. QED BY <2>1, <2>2, SearchTakesBack
<1>3. ASSUME NEW t \in Tags, BusFree(t) PROVE TakesBack
  <2> DEFINE others == IF card[t].sense THEN TagsOf({DeviceOf(t)}) ELSE {t}
  <2>1. Installed(Search({DeviceOf(t)}), OnCard,
                  Search({DeviceOf(t)}).found \cup others, {}, command)
    BY <1>3, BusFreeStep
  <2>2. \A u \in (Search({DeviceOf(t)}).found \cup others) \cup {} :
           DeviceOf(u) \in {DeviceOf(t)}
    BY FoundIsTheirs
  <2> HIDE DEF others
  <2>3. QED BY <2>1, <2>2, SearchTakesBack
<1>4. ASSUME NEW t \in Tags, SelectionTimeout(t) PROVE TakesBack
  <2>1. Installed(Search({DeviceOf(t)}), OnCard,
                  Search({DeviceOf(t)}).found \cup TagsOf({DeviceOf(t)}), {}, command)
    BY <1>4, SelectionTimeoutStep
  <2>2. \A u \in (Search({DeviceOf(t)}).found \cup TagsOf({DeviceOf(t)})) \cup {} :
           DeviceOf(u) \in {DeviceOf(t)}
    BY FoundIsTheirs
  <2>3. QED BY <2>1, <2>2, SearchTakesBack
<1>5. ASSUME NEW devices, ResetChannel(devices) PROVE TakesBack
  <2> DEFINE done == Search(devices).found \cup (posted \cup TagsOf(devices))
  <2>1. Installed(Search(devices), OnCard, done, {}, command)
    BY <1>5, ResetChannelStep
  <2>2. \A u \in (done \cup {}) \cap OnCard : DeviceOf(u) \in devices
    <3>1. OnCard \cap posted = {}
      BY DEF IInv, Places
    <3>2. QED BY <3>1, FoundIsTheirs
  <2> HIDE DEF done
  <2>3. QED BY <2>1, <2>2, SearchTakesBack
<1>6. QED BY <1>1, <1>2, <1>3, <1>4, <1>5

\* A result with one command more.
LEMMA RequeuedView ==
    ASSUME IInv, NEW r, DOMAIN r = Fields, Sound(r, OnCard), NEW t \in OnCard,
           NEW cmd \in Commands
    PROVE  LET q == Requeued(r, t, cmd)
           IN [n \in DOMAIN q.list |-> q.mem[q.list[n]].cmd]
                = Append([n \in DOMAIN r.list |-> r.mem[r.list[n]].cmd], cmd)
<1> DEFINE q   == Requeued(r, t, cmd)
           m   == Len(r.list)
           old == [n \in DOMAIN r.list |-> r.mem[r.list[n]].cmd]
           new == [n \in DOMAIN q.list |-> q.mem[q.list[n]].cmd]
           S   == Commands \cup {None}
<1>1. /\ t \in Tags
      /\ q.list = Append(r.list, t)
      /\ \A u \in Tags : q.mem[u].cmd = IF u = t THEN cmd ELSE r.mem[u].cmd
  <2>1. t \in Tags
    BY DEF OnCard
  <2>2. /\ q.list = Append(r.list, t)
        /\ q.mem = [u \in Tags |->
                      [cmd  |-> IF u = t THEN cmd ELSE r.mem[u].cmd,
                       next |-> IF u = t THEN r.reserved
                                ELSE IF r.list # <<>> /\ u = r.list[Len(r.list)]
                                THEN t ELSE r.mem[u].next]]
    BY DEF Requeued, Fields
  <2> HIDE DEF q
  <2>3. QED BY <2>1, <2>2
<1>2. /\ r.list \in Seq(Tags) /\ \A u \in Tags : r.mem[u].cmd \in S
  BY DEF Sound, SoundTypes
<1> HIDE DEF q
<1>3. m \in Nat /\ DOMAIN r.list = 1 .. m /\ \A n \in 1 .. m : r.list[n] \in Tags
  BY <1>2, LenProperties, ElementOfSeq
<1>4. \A n \in 1 .. m : r.list[n] # t
  BY <1>3 DEF Sound, SoundPlaces, Elements
<1>5. /\ DOMAIN q.list = 1 .. m + 1
      /\ \A n \in 1 .. m + 1 : q.list[n] = IF n = m + 1 THEN t ELSE r.list[n]
  <2>1. /\ Append(r.list, t) \in Seq(Tags) /\ Len(Append(r.list, t)) = m + 1
        /\ \A n \in 1 .. m + 1 : Append(r.list, t)[n] = IF n = m + 1 THEN t ELSE r.list[n]
    BY <1>1, <1>2, AppendProperties
  <2>2. DOMAIN Append(r.list, t) = 1 .. m + 1
    BY <2>1, LenProperties
  <2>3. QED BY <1>1, <2>1, <2>2
<1>6. old \in Seq(S) /\ Len(old) = m
  <2>1. old \in [1 .. m -> S]
    BY <1>2, <1>3
  <2>2. old \in Seq(S) /\ DOMAIN old = 1 .. m
    BY <1>3, <2>1, SeqDef
  <2> HIDE DEF old, m
  <2>3. Len(old) \in Nat /\ DOMAIN old = 1 .. Len(old)
    BY <2>2, LenProperties
  <2>4. QED BY <1>3, <2>2, <2>3
<1>7. \A n \in 1 .. m : old[n] = r.mem[r.list[n]].cmd
  BY <1>3
<1> HIDE DEF old, m, S
<1>8. /\ Append(old, cmd) = [n \in 1 .. m + 1 |-> Append(old, cmd)[n]]
      /\ \A n \in 1 .. m + 1 : Append(old, cmd)[n] = IF n = m + 1 THEN cmd ELSE old[n]
  <2>1. cmd \in S
    BY DEF S
  <2>2. /\ Append(old, cmd) \in Seq(S) /\ Len(Append(old, cmd)) = m + 1
        /\ \A n \in 1 .. m + 1 : Append(old, cmd)[n] = IF n = m + 1 THEN cmd ELSE old[n]
    BY <1>6, <2>1, AppendProperties
  <2>3. QED BY <2>2, LenProperties
<1>9. \A n \in 1 .. m + 1 : q.mem[q.list[n]].cmd = Append(old, cmd)[n]
  <2>1. TAKE n \in 1 .. m + 1
  <2>2. CASE n = m + 1
    BY <1>1, <1>5, <1>8, <2>2
  <2>3. CASE n # m + 1
    <3>1. n \in 1 .. m
      BY <1>3, <2>3
    <3>2. q.list[n] = r.list[n] /\ r.list[n] \in Tags /\ r.list[n] # t
      BY <1>3, <1>4, <1>5, <2>3, <3>1
    <3>3. QED BY <1>1, <1>7, <1>8, <2>3, <3>1, <3>2
  <2>4. QED BY <2>2, <2>3
<1>10. new = Append(old, cmd)
  BY <1>5, <1>8, <1>9
<1>11. QED BY <1>10 DEF new, old, q

Senses  == \E lost \in SUBSET Run, c \in Run : Abstract!CheckCondition(c, lost)
Retries == \E c \in Run : Device[c.req] \in Rejecting /\ Abstract!Retry(c)

LEMMA CheckConditionSenses ==
    ASSUME IInv, NEW t \in Tags, CheckCondition(t)
    PROVE  Senses
<1> DEFINE r     == Search({DeviceOf(t)})
           scb   == scbindex[t]
           sense == [command[scb] EXCEPT !.sense = TRUE]
           c     == card[t]
           cmds  == [command EXCEPT ![scb] = sense]
           lost  == {card[u] : u \in r.found \cap OnCard}
<1>1. Installed(Requeued(r, t, sense), OnCard \ {t}, r.found, {}, cmds)
  BY CheckConditionStep
<1>2. t \in Connectable
  BY DEF CheckCondition
<1>3. t \in OnCard /\ command[scb] \in Commands /\ t \notin r.found
  BY <1>2, Target
<1>4. /\ c \in Run /\ c \in Commands /\ c.req = command[scb].req
      /\ Device[c.req] = DeviceOf(t)
      /\ \A u \in OnCard : card[u] = c => u = t
  BY <1>3, RunFacts
<1>5. sense \in Commands /\ sense = [c EXCEPT !.sense = TRUE]
  BY <1>3, <1>4 DEF Commands
<1>6. Sound(r, OnCard) /\ DOMAIN r = Fields
  BY SearchSound, SearchFields
<1>7. [n \in DOMAIN r.list |-> r.mem[r.list[n]].cmd] = Abstract!Without({Device[c.req]})
  BY <1>4, SearchView
<1> HIDE DEF r, sense, cmds
<1> DEFINE q == Requeued(r, t, sense)
<1>8. /\ Queued' = Append(Abstract!Without({Device[c.req]}), sense)
      /\ OnCard' = (OnCard \ {t}) \ (r.found \cup {})
      /\ \A u \in OnCard' : card'[u] = card[u]
  <2> DEFINE old == [n \in DOMAIN r.list |-> r.mem[r.list[n]].cmd]
             new == [n \in DOMAIN q.list |-> q.mem[q.list[n]].cmd]
  <2>1. old = Abstract!Without({Device[c.req]})
    BY <1>7
  <2>2. t \in OnCard /\ sense \in Commands /\ Sound(r, OnCard) /\ DOMAIN r = Fields
    BY <1>3, <1>5, <1>6
  <2>3. new = Append(old, sense)
    BY <2>2, RequeuedView
  <2>4. Installed(q, OnCard \ {t}, r.found, {}, cmds)
    BY <1>1
  <2> HIDE DEF q, old
  <2>5. Queued' = new
    BY <2>4, InstalledView
  <2>6. /\ OnCard' = (OnCard \ {t}) \ (r.found \cup {})
        /\ \A u \in OnCard' : card'[u] = card[u]
    BY <2>4, InstalledView
  <2> HIDE DEF new
  <2>7. QED BY <2>1, <2>3, <2>5, <2>6
<1> DEFINE gone == r.found \cup {t}
<1>9. OnCard' = OnCard \ gone
  BY <1>8
<1>10. {card[u] : u \in gone \cap OnCard} = lost \cup {c}
  BY <1>3
<1> HIDE DEF gone
<1>11. Run' = Run \ (lost \cup {c}) /\ lost \cup {c} \subseteq Run
  BY <1>8, <1>9, <1>10, RunWithout
<1>12. c \notin lost
  BY <1>3, <1>4
<1> HIDE DEF lost, c
<1>13. lost \in SUBSET Run /\ c \in Run \ lost
  BY <1>11, <1>12
<1>14. Queued' = Append(Abstract!Without({Device[c.req]}), [c EXCEPT !.sense = TRUE])
  BY <1>5, <1>8
<1>15. QED BY <1>11, <1>13, <1>14, Zenon DEF Senses, Abstract!CheckCondition, Run

LEMMA NegotiationRejectedRetries ==
    ASSUME IInv, NEW t \in Tags, NegotiationRejected(t)
    PROVE  Retries
<1> DEFINE r   == Unsearched
           cmd == mem[t].cmd
           c   == card[t]
<1>1. Installed(Requeued(r, t, cmd), OnCard \ {t}, {}, {}, command)
  BY NegotiationRejectedStep
<1>2. t \in Connectable /\ DeviceOf(t) \in Rejecting
  BY DEF NegotiationRejected
<1>3. t \in OnCard
  BY <1>2, Target
<1>4. c \in Run /\ c \in Commands /\ Device[c.req] \in Rejecting
  BY <1>2, <1>3, RunFacts
<1>5. cmd = c
  BY <1>3 DEF IInv, Contents
<1>6. Sound(r, OnCard) /\ DOMAIN r = Fields
  BY UnsearchedSound, SearchFields
<1>7. [n \in DOMAIN r.list |-> r.mem[r.list[n]].cmd] = Queued
  BY DEF Unsearched, Queued
<1> HIDE DEF r, cmd
<1> DEFINE q == Requeued(r, t, cmd)
<1>8. /\ Queued' = Append(Queued, cmd)
      /\ OnCard' = (OnCard \ {t}) \ ({} \cup {})
      /\ \A u \in OnCard' : card'[u] = card[u]
  <2> DEFINE old == [n \in DOMAIN r.list |-> r.mem[r.list[n]].cmd]
             new == [n \in DOMAIN q.list |-> q.mem[q.list[n]].cmd]
  <2>1. old = Queued
    BY <1>7
  <2>2. t \in OnCard /\ cmd \in Commands /\ Sound(r, OnCard) /\ DOMAIN r = Fields
    BY <1>3, <1>4, <1>5, <1>6
  <2>3. new = Append(old, cmd)
    BY <2>2, RequeuedView
  <2>4. Installed(q, OnCard \ {t}, {}, {}, command)
    BY <1>1
  <2> HIDE DEF q, old
  <2>5. Queued' = new
    BY <2>4, InstalledView
  <2>6. /\ OnCard' = (OnCard \ {t}) \ ({} \cup {})
        /\ \A u \in OnCard' : card'[u] = card[u]
    BY <2>4, InstalledView
  <2> HIDE DEF new
  <2>7. QED BY <2>1, <2>3, <2>5, <2>6
<1>9. OnCard' = OnCard \ {t} /\ {card[u] : u \in {t} \cap OnCard} = {c}
  BY <1>3, <1>8
<1>10. Run' = Run \ {c}
  BY <1>8, <1>9, RunWithout
<1> HIDE DEF c
<1>11. Queued' = Append(Queued, c)
  BY <1>5, <1>8
<1>12. QED BY <1>4, <1>10, <1>11, Zenon DEF Retries, Abstract!Retry, Run
-----------------------------------------------------------------------------
(* The other steps. *)

LEMMA StartIoSubmits ==
    ASSUME IInv, NEW r \in Reqs, StartIo(r)
    PROVE  Abstract!Submit(r)
<1> DEFINE cmd  == [req |-> r, sense |-> FALSE]
           list == Append(Queue, Reserved)
           m    == Len(Queue)
<1>1. /\ Queue' = list /\ mem'[Reserved].cmd = cmd
      /\ \A t \in Known : mem'[t] = mem[t]
  BY StartIoStep
<1>2. card' = card /\ \A s \in Busy : command[s].req # r
  BY DEF StartIo, cardvars
<1>3. /\ Queued \in Seq(Commands) /\ Len(Queued) = m /\ m \in Nat
      /\ DOMAIN Queued = 1 .. m
      /\ \A i \in 1 .. m : /\ Queued[i] = mem[Queue[i]].cmd
                           /\ Queued[i].req = command[scbindex[Queue[i]]].req
                           /\ Queue[i] \in Known
  BY QueuedFacts
<1>4. /\ Reserved \in Tags /\ \A t \in Known : scbindex[t] \in Busy
      /\ Queue \in Seq(Tags)
  BY OwnerFacts, QueueFacts DEF IInv
<1>5. /\ DOMAIN list = 1 .. m + 1
      /\ \A i \in 1 .. m + 1 : list[i] = IF i = m + 1 THEN Reserved ELSE Queue[i]
  <2>1. /\ list \in Seq(Tags) /\ Len(list) = m + 1
        /\ \A i \in 1 .. m + 1 : list[i] = IF i = m + 1 THEN Reserved ELSE Queue[i]
    BY <1>4, AppendProperties
  <2>2. DOMAIN list = 1 .. m + 1
    BY <2>1, LenProperties
  <2>3. QED BY <2>1, <2>2
<1>6. cmd \in Commands
  BY DEF Commands
<1> HIDE DEF list, cmd, m
<1>7. /\ Append(Queued, cmd) = [i \in 1 .. m + 1 |-> Append(Queued, cmd)[i]]
      /\ \A i \in 1 .. m + 1 : Append(Queued, cmd)[i] = IF i = m + 1 THEN cmd ELSE Queued[i]
  <2>1. /\ Append(Queued, cmd) \in Seq(Commands) /\ Len(Append(Queued, cmd)) = m + 1
        /\ \A i \in 1 .. m + 1 : Append(Queued, cmd)[i] = IF i = m + 1 THEN cmd ELSE Queued[i]
    BY <1>3, <1>6, AppendProperties
  <2>2. QED BY <2>1, LenProperties
<1>8. \A i \in 1 .. m + 1 : mem'[list[i]].cmd = Append(Queued, cmd)[i]
  <2>1. TAKE i \in 1 .. m + 1
  <2>2. CASE i = m + 1
    BY <1>1, <1>5, <1>7, <2>2
  <2>3. CASE i # m + 1
    <3>1. i \in 1 .. m
      BY <1>3, <2>3
    <3>2. list[i] = Queue[i] /\ Append(Queued, cmd)[i] = Queued[i]
      BY <1>5, <1>7, <2>3
    <3>3. QED BY <1>1, <1>3, <3>1, <3>2
  <2>4. QED BY <2>2, <2>3
<1>9. Queued' = [i \in DOMAIN list |-> mem'[list[i]].cmd]
  BY <1>1 DEF Queued
<1>10. Queued' = Append(Queued, cmd)
  BY <1>5, <1>7, <1>8, <1>9
<1>11. \A c \in {Queued[i] : i \in DOMAIN Queued} \cup Run : c.req # r
  <2>1. \A i \in 1 .. m : Queued[i].req # r
    BY <1>2, <1>3, <1>4
  <2>2. \A t \in OnCard : card[t].req # r
    BY <1>2, RunFacts
  <2>3. \A c \in Run : c.req # r
    BY <2>2, RunIs
  <2>4. QED BY <1>3, <2>1, <2>3
<1>12. Run' = Run
  BY <1>2 DEF Run
<1>13. QED BY <1>10, <1>11, <1>12 DEF Abstract!Submit, Abstract!Queued, Run, cmd

LEMMA TakeQinscbStarts ==
    ASSUME IInv, TakeQinscb
    PROVE  Abstract!Start
<1> DEFINE m == Len(Queue)
           list == Tail(Queue)
<1>1. /\ Queue # <<>> /\ ARG_1 = Queue[1] /\ Queue' = list /\ ARG_1 \in QueueTags
      /\ slot.cmd = mem[ARG_1].cmd /\ slot.cmd # None
      /\ m \in Nat /\ m >= 1 /\ Len(list) = m - 1 /\ list \in Seq(Tags)
      /\ \A i \in 1 .. m - 1 : list[i] = Queue[i + 1]
  BY TakeQinscbFacts
<1>2. mem' = mem /\ card' = [card EXCEPT ![ARG_1] = slot.cmd]
  BY DEF TakeQinscb, hostvars
<1>3. /\ Queued \in Seq(Commands) /\ Len(Queued) = m
      /\ \A i \in 1 .. m : Queued[i] = mem[Queue[i]].cmd
  BY QueuedFacts
<1>4. DOMAIN list = 1 .. m - 1
  BY <1>1, LenProperties
<1> HIDE DEF list, m
<1>5. Queued # <<>>
  BY <1>1, <1>3
<1>6. /\ Head(Queued) = Queued[1]
      /\ Tail(Queued) = [i \in 1 .. m - 1 |-> Tail(Queued)[i]]
      /\ \A i \in 1 .. m - 1 : Tail(Queued)[i] = Queued[i + 1]
  <2>1. /\ Head(Queued) = Queued[1]
        /\ Tail(Queued) \in Seq(Commands) /\ Len(Tail(Queued)) = m - 1
        /\ \A i \in 1 .. m - 1 : Tail(Queued)[i] = Queued[i + 1]
    BY <1>3, <1>5, HeadTailProperties
  <2>2. QED BY <2>1, LenProperties
<1>7. \A i \in 1 .. m - 1 : mem[list[i]].cmd = Tail(Queued)[i]
  <2>1. TAKE i \in 1 .. m - 1
  <2>2. i + 1 \in 1 .. m
    BY <1>1
  <2>3. QED BY <1>1, <1>3, <1>6, <2>2
<1>8. Queued' = [i \in DOMAIN list |-> mem[list[i]].cmd]
  BY <1>1, <1>2 DEF Queued
<1>9. Queued' = Tail(Queued)
  BY <1>4, <1>6, <1>7, <1>8
<1>10. Head(Queued) = slot.cmd
  <2>1. 1 \in 1 .. m
    BY <1>1
  <2>2. QED BY <1>1, <1>3, <1>6, <2>1
<1>11. Run' = Run \cup {slot.cmd}
  <2>1. ARG_1 \in Tags /\ ARG_1 \notin OnCard
    BY <1>1 DEF IInv, TypeOK, Places
  <2>2. card[ARG_1] = None
    BY <2>1 DEF OnCard
  <2>3. \A t \in Tags : card'[t] = IF t = ARG_1 THEN slot.cmd ELSE card[t]
    BY <1>2 DEF IInv, TypeOK
  <2>4. QED BY <1>1, <2>1, <2>2, <2>3 DEF Run
<1>12. QED BY <1>5, <1>9, <1>10, <1>11 DEF Abstract!Start, Run

LEMMA SameView ==
    ASSUME IInv, UNCHANGED <<qinfifo, qinfifonext, SNSCB_QOFF, mem>>
    PROVE  Queued' = Queued
<1>1. Queue' = Queue
  BY QueueSame
<1>2. QED BY <1>1, QueuedSame

\* A command that leaves the card.
LEMMA Finishes ==
    ASSUME IInv, NEW t \in OnCard,
           UNCHANGED <<qinfifo, qinfifonext, SNSCB_QOFF, mem>>,
           \A u \in Tags : card'[u] = IF u = t THEN None ELSE card[u]
    PROVE  \E c \in Run : Abstract!Finish(c)
<1> DEFINE c == card[t]
<1>1. Queued' = Queued
  BY SameView
<1>2. OnCard' = OnCard \ {t} /\ \A u \in OnCard' : card'[u] = card[u]
  BY DEF OnCard
<1>3. Run' = Run \ {card[u] : u \in {t} \cap OnCard}
  BY <1>2, RunWithout
<1>4. c \in Run /\ {card[u] : u \in {t} \cap OnCard} = {c}
  BY RunFacts
<1> HIDE DEF c
<1>5. Run' = Run \ {c}
  BY <1>3, <1>4
<1>6. QED BY <1>1, <1>4, <1>5, Zenon DEF Abstract!Finish, Run

LEMMA CompletesFinish ==
    ASSUME IInv, NEW t \in Tags, Complete(t) \/ AutosenseFailed(t)
    PROVE  \E c \in Run : Abstract!Finish(c)
<1>1. /\ t \in Connectable
      /\ UNCHANGED <<qinfifo, qinfifonext, SNSCB_QOFF, mem>>
      /\ \A u \in Tags : card'[u] = IF u = t THEN None ELSE card[u]
  BY DEF Complete, AutosenseFailed, OffCard, hostvars, IInv, TypeOK
<1>2. t \in OnCard
  BY <1>1, Target
<1>3. QED BY <1>1, <1>2, Finishes
-----------------------------------------------------------------------------
(* The refinement. *)

\* Every step of AhcQinfifo but that of a rejected negotiation.
SteadyStep ==
    \/ \E r \in Reqs : Abstract!Submit(r)
    \/ Abstract!Start
    \/ \E c \in Run : Abstract!Finish(c)
    \/ Senses
    \/ TakesBack
    \/ UNCHANGED AbstractVars

LEMMA StepMaps ==
    ASSUME IInv, [Next]_vars, ResetsPerFetch <= 1
    PROVE  SteadyStep \/ Retries
<1>1. ASSUME UNCHANGED <<qinfifo, qinfifonext, SNSCB_QOFF, mem, card>>
      PROVE  UNCHANGED AbstractVars
  <2>1. Queued' = Queued
    BY <1>1, SameView
  <2>2. QED BY <1>1, <2>1 DEF AbstractVars, Run
<1>2. CASE TestQueue \/ DmaScb \/ DmaScbNext \/ AbortQinscb \/ DeliverQoff
           \/ (\E t \in Tags : Select(t)) \/ (\E t \in Tags : AhcDone(t)) \/ UNCHANGED vars
  <2>1. UNCHANGED <<qinfifo, qinfifonext, SNSCB_QOFF, mem, card>>
    BY <1>2 DEF TestQueue, DmaScb, DmaScbNext, AbortQinscb, DeliverQoff, Select, AhcDone,
                vars, hostvars, cardvars
  <2>2. QED BY <1>1, <2>1 DEF SteadyStep
<1>3. CASE TakeQinscb
  BY <1>3, TakeQinscbStarts DEF SteadyStep
<1>4. CASE \E t \in Tags : Complete(t) \/ AutosenseFailed(t)
  BY <1>4, CompletesFinish DEF SteadyStep
<1>5. CASE \E r \in Reqs : StartIo(r)
  BY <1>5, StartIoSubmits DEF SteadyStep
<1>6. CASE \E t \in Tags : CheckCondition(t)
  BY <1>6, CheckConditionSenses DEF SteadyStep
<1>7. CASE \E t \in Tags : NegotiationRejected(t)
  BY <1>7, NegotiationRejectedRetries
<1>8. CASE \/ \E t \in Tags : \/ BadStatus(t) \/ DataOverrun(t) \/ BusFree(t)
                              \/ SelectionTimeout(t)
           \/ \E devices \in Channels : ResetChannel(devices)
  BY <1>8, SearchesTakeBack DEF SteadyStep
<1>9. QED BY <1>2, <1>3, <1>4, <1>5, <1>6, <1>7, <1>8 DEF Next, Sequencer, Recovery

LEMMA StepImplements ==
    ASSUME SteadyStep \/ Retries
    PROVE  [Abstract!Next]_(Abstract!vars)
<1>1. CASE \E r \in Reqs : Abstract!Submit(r)
  BY <1>1 DEF Abstract!Next
<1>2. CASE Abstract!Start
  BY <1>2 DEF Abstract!Next
<1>3. CASE (\E c \in Run : Abstract!Finish(c)) \/ Retries
  BY <1>3, Zenon DEF Retries, Abstract!Next, Run
<1>4. CASE Senses
  BY <1>4, Zenon DEF Senses, Abstract!Next, Run
<1>5. CASE TakesBack
  BY <1>5, Zenon DEF TakesBack, Abstract!Next, Run
<1>6. CASE UNCHANGED AbstractVars
  BY <1>6 DEF AbstractVars, Run, Abstract!vars
<1>7. QED BY <1>1, <1>2, <1>3, <1>4, <1>5, <1>6 DEF SteadyStep

LEMMA InitImplements ==
    ASSUME Init
    PROVE  Abstract!Init
<1>1. IInv
  BY InitIInv
<1>2. card = [t \in Tags |-> None] /\ SNSCB_QOFF = 0 /\ qinfifonext = 0
  BY DEF Init
<1>3. Run = {}
  BY <1>2 DEF Run
<1>4. Queued = <<>>
  <2>1. 0 \in Positions /\ Count(0, 0) = 0
    BY <1>1, <1>2, RingFacts DEF IInv, TypeOK
  <2>2. Len(Queue) = 0
    BY <1>1, <1>2, <2>1, QueueFacts DEF IInv
  <2>3. Queued \in Seq(Commands) /\ Len(Queued) = 0
    BY <1>1, <2>2, QueuedFacts
  <2>4. QED BY <2>3, EmptySeq
<1>5. QED BY <1>3, <1>4 DEF Abstract!Init, Run

\* AhcQinfifo implements the safety of RequestQueue: commands start in the
\* order they were queued, each exactly once unless error recovery takes it
\* back, and what recovery takes back belongs to the device in error.
THEOREM ImplementsQueueSafety ==
    ResetsPerFetch <= 1 => (Spec => Abstract!Init /\ [][Abstract!Next]_(Abstract!vars))
<1>1. ASSUME ResetsPerFetch <= 1
      PROVE  Spec => Abstract!Init /\ [][Abstract!Next]_(Abstract!vars)
  <2>1. Init => Abstract!Init
    BY InitImplements
  <2>2. IInv /\ [Next]_vars => [Abstract!Next]_(Abstract!vars)
    BY <1>1, StepMaps, StepImplements
  <2>3. Spec => []IInv
    BY <1>1, Invariance
  <2>4. QED BY <2>1, <2>2, <2>3, PTL DEF Spec
<1>2. QED BY <1>1
-----------------------------------------------------------------------------
(* The REQUEST SENSE comes first. *)

SenseFirst(q) ==
    \A i, j \in DOMAIN q :
        i < j /\ q[j].sense /\ Device[q[j].req] \notin Rejecting
            => Device[q[i].req] # Device[q[j].req]

LEMMA SenseIsFirst ==
    ASSUME IInv
    PROVE  SenseComesFirst <=> SenseFirst(Queued)
<1>1. /\ DOMAIN Queued = DOMAIN Queue
      /\ \A i \in DOMAIN Queue : /\ Queued[i] = mem[Queue[i]].cmd
                                 /\ Device[Queued[i].req] = DeviceOf(Queue[i])
  BY QueuedFacts
<1>2. QED BY <1>1 DEF SenseComesFirst, SenseFirst

\* A search leaves commands of other devices, in their order.
LEMMA WithoutFacts ==
    ASSUME IInv, NEW devices
    PROVE  LET q == Abstract!Without(devices)
           IN /\ q \in Seq(Commands)
              /\ \A i \in DOMAIN q : Device[q[i].req] \notin devices
              /\ \A i, j \in DOMAIN q : i < j =>
                    \E k, n \in DOMAIN Queued : k < n /\ q[i] = Queued[k] /\ q[j] = Queued[n]
<1> DEFINE K == KeptAt(devices)
           q == Abstract!Without(devices)
<1>1. /\ Queued \in Seq(Commands) /\ Len(Queued) \in Nat /\ DOMAIN Queued = 1 .. Len(Queued)
      /\ DOMAIN Queued = DOMAIN Queue
      /\ \A i \in DOMAIN Queued : Device[Queued[i].req] = DeviceOf(Queue[i])
  BY QueuedFacts
<1>2. K \in SUBSET DOMAIN Queued /\ K \in SUBSET (1 .. Len(Queued))
      /\ \A i \in K : Device[Queued[i].req] \notin devices
  BY <1>1 DEF KeptAt
<1>3. q = Kept(Queued, K)
  BY WithoutIs
<1> HIDE DEF K, q
<1>4. /\ q \in Seq(Commands) /\ Len(q) = Cardinality(K)
      /\ \A n \in 1 .. Cardinality(K) : Nth(K, n) \in K /\ q[n] = Queued[Nth(K, n)]
  BY <1>1, <1>2, <1>3, KeptFacts
<1>5. \A k, n \in 1 .. Cardinality(K) : k < n => Nth(K, k) < Nth(K, n)
  BY <1>1, <1>2, NthFacts
<1>6. DOMAIN q = 1 .. Cardinality(K)
  BY <1>4, LenProperties
<1>7. \A i, j \in DOMAIN q : i < j =>
         \E k, n \in DOMAIN Queued : k < n /\ q[i] = Queued[k] /\ q[j] = Queued[n]
  BY <1>2, <1>4, <1>5, <1>6
<1>8. QED BY <1>2, <1>4, <1>6, <1>7 DEF q

LEMMA WithoutKeepsFirst ==
    ASSUME IInv, SenseFirst(Queued), NEW devices
    PROVE  SenseFirst(Abstract!Without(devices))
<1> DEFINE q == Abstract!Without(devices)
<1>1. \A i, j \in DOMAIN q : i < j =>
         \E k, n \in DOMAIN Queued : k < n /\ q[i] = Queued[k] /\ q[j] = Queued[n]
  BY WithoutFacts
<1> HIDE DEF q
<1>2. SenseFirst(q)
  BY <1>1 DEF SenseFirst
<1>3. QED BY <1>2 DEF q

\* One command more at the end.
LEMMA AppendKeepsFirst ==
    ASSUME NEW q \in Seq(Commands), NEW c \in Commands, SenseFirst(q),
           c.sense /\ Device[c.req] \notin Rejecting
               => \A i \in DOMAIN q : Device[q[i].req] # Device[c.req]
    PROVE  SenseFirst(Append(q, c))
<1> DEFINE list == Append(q, c)
           m == Len(q)
<1>1. m \in Nat /\ DOMAIN q = 1 .. m
  BY LenProperties
<1>2. /\ DOMAIN list = 1 .. m + 1
      /\ \A i \in 1 .. m + 1 : list[i] = IF i = m + 1 THEN c ELSE q[i]
  <2>1. /\ list \in Seq(Commands) /\ Len(list) = m + 1
        /\ \A i \in 1 .. m + 1 : list[i] = IF i = m + 1 THEN c ELSE q[i]
    BY AppendProperties
  <2>2. DOMAIN list = 1 .. m + 1
    BY <2>1, LenProperties
  <2>3. QED BY <2>1, <2>2
<1> HIDE DEF list, m
<1>3. SUFFICES ASSUME NEW i \in 1 .. m + 1, NEW j \in 1 .. m + 1,
                      i < j, list[j].sense, Device[list[j].req] \notin Rejecting
               PROVE  Device[list[i].req] # Device[list[j].req]
  BY <1>2 DEF SenseFirst, list
<1>4. i \in 1 .. m /\ i # m + 1 /\ list[i] = q[i]
  BY <1>1, <1>2, <1>3
<1>5. CASE j = m + 1
  <2>1. list[j] = c
    BY <1>2, <1>5
  <2>2. QED BY <1>1, <1>3, <1>4, <2>1
<1>6. CASE j # m + 1
  <2>1. j \in 1 .. m /\ list[j] = q[j]
    BY <1>1, <1>2, <1>6
  <2>2. QED BY <1>1, <1>3, <1>4, <2>1 DEF SenseFirst
<1>7. QED BY <1>5, <1>6

\* The oldest command gone.
LEMMA TailKeepsFirst ==
    ASSUME NEW q \in Seq(Commands), q # <<>>, SenseFirst(q)
    PROVE  SenseFirst(Tail(q))
<1> DEFINE m == Len(q)
           list == Tail(q)
<1>1. m \in Nat /\ DOMAIN q = 1 .. m
  BY LenProperties
<1>2. /\ DOMAIN list = 1 .. m - 1
      /\ \A i \in 1 .. m - 1 : list[i] = q[i + 1] /\ i + 1 \in 1 .. m
  <2>1. /\ list \in Seq(Commands) /\ Len(list) = m - 1
        /\ \A i \in 1 .. m - 1 : list[i] = q[i + 1]
    BY HeadTailProperties
  <2>2. DOMAIN list = 1 .. m - 1
    BY <2>1, LenProperties
  <2>3. \A i \in 1 .. m - 1 : i + 1 \in 1 .. m
    BY <1>1
  <2>4. QED BY <2>1, <2>2, <2>3
<1> HIDE DEF list, m
<1>3. SUFFICES ASSUME NEW i \in 1 .. m - 1, NEW j \in 1 .. m - 1,
                      i < j, list[j].sense, Device[list[j].req] \notin Rejecting
               PROVE  Device[list[i].req] # Device[list[j].req]
  BY <1>2 DEF SenseFirst, list
<1>4. i + 1 \in 1 .. m /\ j + 1 \in 1 .. m /\ i + 1 < j + 1
  BY <1>1, <1>3
<1>5. list[i] = q[i + 1] /\ list[j] = q[j + 1]
  BY <1>2
<1>6. QED BY <1>1, <1>3, <1>4, <1>5 DEF SenseFirst

LEMMA SenseStep ==
    ASSUME IInv, SenseFirst(Queued), SteadyStep \/ Retries
    PROVE  SenseFirst(Queued)'
<1>1. Queued \in Seq(Commands)
  BY QueuedFacts
<1>2. CASE \E r \in Reqs : Abstract!Submit(r)
  <2>1. PICK r \in Reqs : Queued' = Append(Queued, [req |-> r, sense |-> FALSE])
    BY <1>2 DEF Abstract!Submit
  <2> DEFINE c == [req |-> r, sense |-> FALSE]
  <2>2. c \in Commands /\ ~c.sense
    BY DEF Commands
  <2> HIDE DEF c
  <2>3. SenseFirst(Append(Queued, c))
    BY <1>1, <2>2, AppendKeepsFirst
  <2>4. QED BY <2>1, <2>3 DEF c
<1>3. CASE Abstract!Start
  <2>1. Queued # <<>> /\ Queued' = Tail(Queued)
    BY <1>3 DEF Abstract!Start
  <2>2. QED BY <1>1, <2>1, TailKeepsFirst
<1>4. CASE (\E c \in Run : Abstract!Finish(c)) \/ UNCHANGED AbstractVars
  BY <1>4 DEF Abstract!Finish, AbstractVars
<1>5. CASE Senses
  <2>1. PICK c \in Run :
           Queued' = Append(Abstract!Without({Device[c.req]}), [c EXCEPT !.sense = TRUE])
    BY <1>5 DEF Senses, Abstract!CheckCondition
  <2> DEFINE q == Abstract!Without({Device[c.req]})
             sense == [c EXCEPT !.sense = TRUE]
  <2>2. c \in Commands
    BY RunFacts, RunIs
  <2>3. sense \in Commands /\ sense.req = c.req
    BY <2>2 DEF Commands
  <2>4. q \in Seq(Commands) /\ \A i \in DOMAIN q : Device[q[i].req] \notin {Device[c.req]}
    BY WithoutFacts
  <2>5. SenseFirst(q)
    BY WithoutKeepsFirst
  <2> HIDE DEF q, sense
  <2>6. SenseFirst(Append(q, sense))
    BY <2>3, <2>4, <2>5, AppendKeepsFirst
  <2>7. QED BY <2>1, <2>6 DEF q, sense
<1>6. CASE TakesBack
  <2>1. PICK devices \in SUBSET {Device[r] : r \in Reqs} : Queued' = Abstract!Without(devices)
    BY <1>6 DEF TakesBack, Abstract!TakeBack
  <2>2. QED BY <2>1, WithoutKeepsFirst
<1>7. CASE Retries
  <2>1. PICK c \in Run : Device[c.req] \in Rejecting /\ Queued' = Append(Queued, c)
    BY <1>7 DEF Retries, Abstract!Retry
  <2>2. c \in Commands
    BY RunFacts, RunIs
  <2>3. QED BY <1>1, <2>1, <2>2, AppendKeepsFirst
<1>8. QED BY <1>2, <1>3, <1>4, <1>5, <1>6, <1>7 DEF SteadyStep

\* A device in check condition gets no other command before its REQUEST SENSE:
\* the driver has taken back what was queued for it, and queues nothing for it
\* but behind the REQUEST SENSE.  The devices that may leave the bus at a
\* negotiation are the exception, and do the others no harm: their command,
\* which may be a REQUEST SENSE, is queued once more behind what has been
\* queued meanwhile.
THEOREM SenseIsNotOvertaken ==
    ResetsPerFetch <= 1 => (Spec => []SenseComesFirst)
<1>1. ASSUME ResetsPerFetch <= 1
      PROVE  Spec => []SenseComesFirst
  <2>1. Init => SenseFirst(Queued)
    <3>1. SUFFICES ASSUME Init PROVE SenseFirst(Queued)
      OBVIOUS
    <3>2. Queued = <<>>
      BY <3>1, InitImplements DEF Abstract!Init
    <3>3. QED BY <3>2 DEF SenseFirst
  <2>2. IInv /\ SenseFirst(Queued) /\ [Next]_vars => SenseFirst(Queued)'
    BY <1>1, StepMaps, SenseStep
  <2>3. Spec => []IInv
    BY <1>1, Invariance
  <2>4. IInv /\ SenseFirst(Queued) => SenseComesFirst
    BY SenseIsFirst
  <2>5. QED BY <2>1, <2>2, <2>3, <2>4, PTL DEF Spec
<1>2. QED BY <1>1
=============================================================================
