------------------------- MODULE DataPointers_proofs -------------------------
(***************************************************************************)
(* The data of a transfer on both families, for every list of segments and *)
(* any number of data phases or contexts.                                  *)
(*                                                                         *)
(* The argument for the aic7xxx (IInv).  As long as the target has not     *)
(* sent too much, what the SCB and the residual say are places in the      *)
(* buffer (PlaceAt, ResidualAt): the SCB says where the target's saved     *)
(* place is, the residual where the chip stands, which is one byte ahead   *)
(* of the target when it has stored a byte of padding (Synced).  Hence a   *)
(* data phase begins at the target's place, and every byte goes to its     *)
(* place or, as padding, to that of the byte that follows and overwrites   *)
(* it (InMemory).  Whether the padding has been stored is what             *)
(* SCB_XFERLEN_ODD tells: its parity is that of what remains to be sent    *)
(* from the target's place, and from its saved place unless a byte has     *)
(* been taken back in between (Paired).                                    *)
(*                                                                         *)
(* The argument for the aic79xx (FInv).  Two contexts lie one behind the   *)
(* other in the buffer (Ordered), so that the FIFOs never hold the same    *)
(* byte and what is in memory is what has left both (Stored).  The place   *)
(* in the SCB is that of the first context that has not put its own back   *)
(* (Based), and the target's when there is none (AtTarget); the chip       *)
(* announces a second context only then, so that its segments are loaded   *)
(* from the right place on (Covers).  Who completes the command has seen   *)
(* the count of FIFOs in use at 0, and none announced (View).  All of this *)
(* holds until the host begins a context with the wrong mark of the last   *)
(* segment that its own write to SCB_DATACNT has left (ScbNear); from then *)
(* on only what needs no place holds: nothing is written but to the bytes' *)
(* own places, and the residual is told (Adrift).                          *)
(***************************************************************************)
EXTENDS MCDataPointers, FiniteSetTheorems, SequenceTheorems,
        WellFoundedInduction, TLAPS

LEMMA Least ==
  ASSUME NEW S \in SUBSET Nat, S # {}
  PROVE  \E m \in S : \A n \in S : m <= n
  <1> DEFINE F == {0 .. n : n \in S}
             R == StrictSubsetOrdering(Nat)
  <1>1. \A n \in S : n \in Nat /\ 0 .. n \in FiniteSubsetsOf(Nat)
    BY FS_Interval DEF FiniteSubsetsOf
  <1>2. F \subseteq FiniteSubsetsOf(Nat) /\ F # {} BY <1>1
  <1>3. IsWellFoundedOn(R, FiniteSubsetsOf(Nat))
    BY FS_StrictSubsetOrderingWellFounded
  <1> HIDE DEF F, R
  <1>4. \E x \in F : \A y \in F : ~ (<<y, x>> \in R) BY <1>2, <1>3, WFMin
  <1> USE DEF F, R
  <1>5. PICK m \in S : \A n \in S : ~ (<<0 .. n, 0 .. m>> \in R) BY <1>4
  <1>6. ASSUME NEW n \in S, n < m PROVE FALSE
    <2>1. n \in Nat /\ m \in Nat BY <1>1
    <2>2. 0 .. n \subseteq 0 .. m /\ m \in 0 .. m /\ m \notin 0 .. n BY <1>6, <2>1
    <2>3. <<0 .. n, 0 .. m>> \in R BY <2>1, <2>2 DEF StrictSubsetOrdering
    <2> QED BY <1>5, <2>3
  <1> QED BY <1>1, <1>6

-----------------------------------------------------------------------------
(* The buffer.                                                             *)

\* Where segment s of a list begins, the segment of byte n, and its address.
Start(list, s) == IF s = 1 THEN 0 ELSE list[s - 1]
Segm(list, n)  == CHOOSE s \in DOMAIN list : Start(list, s) < n /\ n <= list[s]
Spot(list, n)  == n - 1 + Segm(list, n)
Size(list)     == list[Len(list)]

List(list) == /\ list \in Seq(Nat \ {0}) /\ list # <<>>
              /\ \A i, j \in DOMAIN list : i < j => list[i] < list[j]

LEMMA Lists == ASSUME NEW list \in PointerLists PROVE List(list)
  BY PointersAssumption DEF PointersAssumption, List

LEMMA Ends ==
  ASSUME NEW list, List(list)
  PROVE  /\ Len(list) \in Nat \ {0} /\ DOMAIN list = 1 .. Len(list)
         /\ Size(list) \in Nat \ {0}
         /\ \A s \in 1 .. Len(list) :
               /\ list[s] \in Nat \ {0} /\ list[s] <= Size(list)
               /\ Start(list, s) \in Nat /\ Start(list, s) < list[s]
         /\ \A s, t \in 1 .. Len(list) : s < t => list[s] <= Start(list, t)
  <1>1. Len(list) \in Nat \ {0} /\ DOMAIN list = 1 .. Len(list)
    <2>1. Len(list) \in Nat /\ DOMAIN list = 1 .. Len(list)
      BY LenProperties DEF List
    <2>2. Len(list) # 0 BY EmptySeq DEF List
    <2> QED BY <2>1, <2>2
  <1>2. \A s \in 1 .. Len(list) : list[s] \in Nat \ {0}
    BY <1>1, ElementOfSeq DEF List
  <1>3. \A s, t \in 1 .. Len(list) : s < t => list[s] < list[t]
    BY <1>1 DEF List
  <1>4. ASSUME NEW s \in 1 .. Len(list)
        PROVE  Start(list, s) \in Nat /\ Start(list, s) < list[s]
    BY <1>1, <1>2, <1>3 DEF Start
  <1>5. ASSUME NEW s \in 1 .. Len(list), NEW t \in 1 .. Len(list), s < t
        PROVE  list[s] <= Start(list, t)
    <2>1. t # 1 /\ t - 1 \in 1 .. Len(list) /\ (s = t - 1 \/ s < t - 1)
      BY <1>1, <1>5
    <2>2. Start(list, t) = list[t - 1] BY <2>1 DEF Start
    <2> QED BY <1>2, <1>3, <2>1, <2>2
  <1>6. ASSUME NEW s \in 1 .. Len(list) PROVE list[s] <= Size(list)
    <2>1. Len(list) \in 1 .. Len(list) /\ s \in Nat /\ Len(list) \in Nat
      BY <1>1
    <2>2. CASE s < Len(list) BY <1>2, <1>3, <2>1, <2>2 DEF Size
    <2>3. CASE ~ (s < Len(list))
      <3>1. s = Len(list) BY <2>1, <2>3
      <3> QED BY <1>2, <2>1, <3>1 DEF Size
    <2> QED BY <2>2, <2>3
  <1>7. Size(list) \in Nat \ {0} BY <1>1, <1>2 DEF Size
  <1> QED BY <1>1, <1>2, <1>4, <1>5, <1>6, <1>7

LEMMA StartAfter ==
  ASSUME NEW list, NEW n, NEW s \in 1 .. n, n \in Nat
  PROVE  Start(list, s + 1) = list[s]
  <1>1. s + 1 # 1 /\ s + 1 - 1 = s OBVIOUS
  <1> QED BY <1>1 DEF Start

\* Every byte lies in exactly one segment.
LEMMA OneSegment ==
  ASSUME NEW list, List(list), NEW n \in 1 .. Size(list),
         NEW s \in 1 .. Len(list), NEW t \in 1 .. Len(list),
         Start(list, s) < n, n <= list[s], Start(list, t) < n, n <= list[t]
  PROVE  s = t
  <1>1. /\ Len(list) \in Nat /\ Size(list) \in Nat
        /\ list[s] \in Nat /\ list[t] \in Nat
        /\ Start(list, s) \in Nat /\ Start(list, t) \in Nat
        /\ s < t => list[s] <= Start(list, t)
        /\ t < s => list[t] <= Start(list, s)
    BY Ends
  <1> QED BY <1>1

LEMMA InSegment ==
  ASSUME NEW list, List(list), NEW n \in 1 .. Size(list)
  PROVE  /\ Segm(list, n) \in 1 .. Len(list)
         /\ Start(list, Segm(list, n)) < n /\ n <= list[Segm(list, n)]
  <1> DEFINE S == {s \in 1 .. Len(list) : n <= list[s]}
  <1>1. Len(list) \in Nat \ {0} /\ DOMAIN list = 1 .. Len(list) BY Ends
  <1>2. Len(list) \in S BY <1>1 DEF Size
  <1>3. PICK m \in S : \A s \in S : m <= s
    <2>1. S \in SUBSET Nat /\ S # {} BY <1>1, <1>2
    <2> HIDE DEF S
    <2> QED BY <2>1, Least
  <1>4. Start(list, m) < n
    <2>1. CASE m = 1 BY <2>1 DEF Start
    <2>2. CASE m # 1
      <3>1. m - 1 \in 1 .. Len(list) /\ ~ (m <= m - 1) BY <1>1, <2>2
      <3>2. m - 1 \notin S BY <1>3, <3>1
      <3>3. list[m - 1] \in Nat BY <3>1, Ends
      <3>4. Size(list) \in Nat BY Ends
      <3> QED BY <2>2, <3>1, <3>2, <3>3, <3>4 DEF Start
    <2> QED BY <2>1, <2>2
  <1> QED BY <1>1, <1>3, <1>4 DEF Segm

LEMMA SegmentIs ==
  ASSUME NEW list, List(list), NEW n \in 1 .. Size(list),
         NEW s \in 1 .. Len(list), Start(list, s) < n, n <= list[s]
  PROVE  Segm(list, n) = s
  <1>1. /\ Segm(list, n) \in 1 .. Len(list)
        /\ Start(list, Segm(list, n)) < n /\ n <= list[Segm(list, n)]
    BY InSegment
  <1> HIDE DEF Segm
  <1> QED BY <1>1, OneSegment

\* Bytes lie in the buffer in their order, so no two at one address.
LEMMA SpotsIncrease ==
  ASSUME NEW list, List(list),
         NEW m \in 1 .. Size(list), NEW n \in 1 .. Size(list), m < n
  PROVE  Spot(list, m) \in Nat /\ Spot(list, n) \in Nat
         /\ Spot(list, m) < Spot(list, n)
  <1> DEFINE s == Segm(list, m)
             t == Segm(list, n)
  <1>1. /\ s \in 1 .. Len(list) /\ Start(list, s) < m /\ m <= list[s]
        /\ t \in 1 .. Len(list) /\ Start(list, t) < n /\ n <= list[t]
    BY InSegment
  <1>2. Len(list) \in Nat /\ Size(list) \in Nat BY Ends
  <1>3. Spot(list, m) = m - 1 + s /\ Spot(list, n) = n - 1 + t BY DEF Spot
  <1> HIDE DEF s, t
  <1>4. /\ list[t] \in Nat /\ Start(list, s) \in Nat
        /\ t < s => list[t] <= Start(list, s)
    BY <1>1, Ends
  <1> QED BY <1>1, <1>2, <1>3, <1>4

LEMMA SpotsDiffer ==
  ASSUME NEW list, List(list),
         NEW m \in 1 .. Size(list), NEW n \in 1 .. Size(list),
         Spot(list, m) = Spot(list, n)
  PROVE  m = n
  <1>1. Size(list) \in Nat BY Ends
  <1>2. m < n => Spot(list, m) < Spot(list, n) /\ Spot(list, n) \in Nat
    BY SpotsIncrease
  <1>3. n < m => Spot(list, n) < Spot(list, m) /\ Spot(list, n) \in Nat
    BY SpotsIncrease
  <1> QED BY <1>1, <1>2, <1>3

LEMMA Filled ==
  ASSUME NEW S, NEW n \in Nat, NEW f \in [1 .. n -> S]
  PROVE  f \in Seq(S) /\ Len(f) = n
  OBVIOUS

-----------------------------------------------------------------------------
(* The aic7xxx: how the chip sees the buffer.                              *)

LEMMA ChipList ==
  ASSUME ahcList \in PointerLists
  PROVE  /\ Ahc!Total = Size(ahcList)
         /\ \A s \in 1 .. Len(ahcList) + 1 : Ahc!Before(s) = Start(ahcList, s)
         /\ \A s \in 1 .. Len(ahcList) :
               Ahc!Length(s) = ahcList[s] - Start(ahcList, s)
         /\ \A s, offset : Ahc!Addr(s, offset) = Start(ahcList, s) + s + offset
         /\ \A n \in 1 .. Size(ahcList) : Ahc!Home(n) = Spot(ahcList, n)
  <1>1. List(ahcList) BY Lists
  <1>2. Ahc!Total = Size(ahcList) BY DEF Ahc!Total, Size
  <1>3. /\ \A s : Ahc!Before(s) = Start(ahcList, s)
        /\ \A s : Ahc!Length(s) = ahcList[s] - Start(ahcList, s)
        /\ \A s, offset : Ahc!Addr(s, offset) = Start(ahcList, s) + s + offset
    BY DEF Ahc!Before, Ahc!Length, Ahc!Addr, Start
  <1>4. ASSUME NEW n \in 1 .. Size(ahcList)
        PROVE  Ahc!Home(n) = Spot(ahcList, n)
    <2>1. Ahc!SegmentOf(n) = Segm(ahcList, n)
      BY <1>3 DEF Ahc!SegmentOf, Segm
    <2>2. /\ Segm(ahcList, n) \in 1 .. Len(ahcList)
          /\ Len(ahcList) \in Nat /\ Size(ahcList) \in Nat
      BY <1>1, InSegment, Ends
    <2>3. Start(ahcList, Segm(ahcList, n)) \in Nat BY <1>1, <2>2, Ends
    <2>4. Ahc!Home(n) = Ahc!Addr(Segm(ahcList, n),
                                 n - Start(ahcList, Segm(ahcList, n)) - 1)
      BY <1>3, <2>1 DEF Ahc!Home
    <2> QED BY <1>3, <2>2, <2>3, <2>4 DEF Spot
  <1> QED BY <1>2, <1>3, <1>4

LEMMA FoundSegment ==
  ASSUME ahcList \in PointerLists, NEW n \in 1 .. Size(ahcList)
  PROVE  Ahc!SegmentAt(Spot(ahcList, n)) = Segm(ahcList, n)
  <1> DEFINE a == Spot(ahcList, n)
             s == Segm(ahcList, n)
             Lies(t) == Ahc!Addr(t, 0) <= a /\ a < Ahc!Addr(t, Ahc!Length(t))
  <1>1. List(ahcList) BY Lists
  <1>2. /\ s \in 1 .. Len(ahcList) /\ Len(ahcList) \in Nat
        /\ Start(ahcList, s) < n /\ n <= ahcList[s]
        /\ DOMAIN ahcList = 1 .. Len(ahcList) /\ Size(ahcList) \in Nat
    BY <1>1, InSegment, Ends
  <1>3. a = n - 1 + s BY DEF Spot
  <1>4. ASSUME NEW t \in 1 .. Len(ahcList)
        PROVE  Lies(t) <=> Start(ahcList, t) + t <= a /\ a < ahcList[t] + t
    <2>1. Ahc!Addr(t, 0) = Start(ahcList, t) + t + 0
          /\ Ahc!Addr(t, Ahc!Length(t))
               = Start(ahcList, t) + t + (ahcList[t] - Start(ahcList, t))
      BY ChipList
    <2>2. Start(ahcList, t) \in Nat /\ ahcList[t] \in Nat BY <1>1, Ends
    <2>3. /\ Ahc!Addr(t, 0) = Start(ahcList, t) + t
          /\ Ahc!Addr(t, Ahc!Length(t)) = ahcList[t] + t
      BY <1>2, <2>1, <2>2
    <2> QED BY <2>3
  <1> HIDE DEF a, s
  <1>5. Lies(s)
    <2>1. Start(ahcList, s) \in Nat /\ ahcList[s] \in Nat BY <1>1, <1>2, Ends
    <2>2. Start(ahcList, s) + s <= a /\ a < ahcList[s] + s
      BY <1>2, <1>3, <2>1
    <2> QED BY <1>2, <1>4, <2>2
  <1>6. ASSUME NEW t \in 1 .. Len(ahcList), Lies(t) PROVE t = s
    <2>1. /\ Start(ahcList, s) \in Nat /\ ahcList[s] \in Nat
          /\ Start(ahcList, t) \in Nat /\ ahcList[t] \in Nat
          /\ t < s => ahcList[t] <= Start(ahcList, s)
          /\ s < t => ahcList[s] <= Start(ahcList, t)
      BY <1>1, <1>2, Ends
    <2>2. Start(ahcList, t) + t <= a /\ a < ahcList[t] + t BY <1>4, <1>6
    <2> QED BY <1>2, <1>3, <2>1, <2>2
  <1>7. Ahc!SegmentAt(a) = CHOOSE t \in 1 .. Len(ahcList) : Lies(t)
    BY <1>2 DEF Ahc!SegmentAt
  <1> HIDE DEF Lies
  <1> QED BY <1>2, <1>5, <1>6, <1>7 DEF a, s

\* A place in the buffer behind q bytes, as the chip is told it, and as the
\* residual tells it.
PlaceAt(list, p, q) ==
    IF q = Size(list) THEN p.null
    ELSE /\ ~p.null
         /\ p.ptr = Spot(list, q + 1)
         /\ p.cnt = list[Segm(list, q + 1)] - q
         /\ p.last = (Segm(list, q + 1) = Len(list))
         /\ p.next = Segm(list, q + 1) + 1

ResidualAt(list, r, q) ==
    IF q = Size(list) THEN r.null /\ r.last /\ r.next = Len(list) + 1
    ELSE /\ ~r.null
         /\ r.cnt = list[Segm(list, q + 1)] - q
         /\ r.last = (Segm(list, q + 1) = Len(list))
         /\ r.next = Segm(list, q + 1) + 1


\* Behind a place come the bytes from it on, in their order.
LEMMA PathFromPlace ==
  ASSUME ahcList \in PointerLists,
         NEW p, NEW q \in 0 .. Size(ahcList), PlaceAt(ahcList, p, q)
  PROVE  /\ Ahc!Path(p) \in Seq(Nat)
         /\ Len(Ahc!Path(p)) = Size(ahcList) - q
         /\ \A i \in 1 .. Size(ahcList) - q :
               Ahc!Path(p)[i] = Spot(ahcList, q + i)
  <1> DEFINE T == Size(ahcList)
  <1>1. List(ahcList) /\ T \in Nat /\ Len(ahcList) \in Nat BY Lists, Ends
  <1>2. CASE q = T
    <2>1. Ahc!Path(p) = <<>> BY <1>2 DEF PlaceAt, Ahc!Path
    <2> QED BY <1>1, <1>2, <2>1, EmptySeq
  <1>3. CASE q # T
    <2> DEFINE s == Segm(ahcList, q + 1)
               c == ahcList[s] - q
               head == [o \in 1 .. c |-> p.ptr + o - 1]
               tail == IF p.last THEN <<>> ELSE Ahc!Bytes(p.next)
    <2>1. /\ s \in 1 .. Len(ahcList) /\ Start(ahcList, s) < q + 1
          /\ q + 1 <= ahcList[s] /\ ahcList[s] \in Nat /\ ahcList[s] <= T
          /\ Start(ahcList, s) \in Nat /\ q + 1 \in 1 .. T
      <3>1. q + 1 \in 1 .. T BY <1>1, <1>3
      <3>2. /\ s \in 1 .. Len(ahcList) /\ Start(ahcList, s) < q + 1
            /\ q + 1 <= ahcList[s]
        BY <1>1, <3>1, InSegment
      <3> HIDE DEF s
      <3> QED BY <1>1, <3>1, <3>2, Ends
    <2>2. /\ ~p.null /\ p.ptr = q + s /\ p.cnt = c
          /\ p.last = (s = Len(ahcList)) /\ p.next = s + 1
      <3>1. Spot(ahcList, q + 1) = q + 1 - 1 + s BY DEF Spot
      <3>2. q + 1 - 1 + s = q + s BY <2>1
      <3> QED BY <1>3, <3>1, <3>2 DEF PlaceAt
    <2>3. Ahc!Path(p) = head \o tail BY <2>2 DEF Ahc!Path
    <2> HIDE DEF s
    <2>4. c \in Nat /\ c <= T - q BY <1>1, <2>1
    <2>5. \A i \in 1 .. c : head[i] = Spot(ahcList, q + i)
                            /\ head[i] \in Nat
      <3> SUFFICES ASSUME NEW i \in 1 .. c
                   PROVE  p.ptr + i - 1 = Spot(ahcList, q + i)
                          /\ p.ptr + i - 1 \in Nat
        OBVIOUS
      <3>1. q + i \in 1 .. T /\ Start(ahcList, s) < q + i
            /\ q + i <= ahcList[s]
        BY <1>1, <2>1, <2>4
      <3>2. Segm(ahcList, q + i) = s BY <1>1, <2>1, <3>1, SegmentIs
      <3> QED BY <2>1, <2>2, <3>2 DEF Spot
    <2>6. head \in Seq(Nat) /\ Len(head) = c
      <3>1. head \in [1 .. c -> Nat] BY <2>5
      <3> HIDE DEF head
      <3> QED BY <2>4, <3>1, Filled
    <2>7. /\ tail \in Seq(Nat) /\ Len(tail) = T - ahcList[s]
          /\ \A i \in 1 .. T - ahcList[s] :
                tail[i] = Spot(ahcList, ahcList[s] + i)
      <3>1. CASE s = Len(ahcList)
        <4>1. tail = <<>> /\ ahcList[s] = T BY <2>2, <3>1 DEF Size
        <4>2. T - ahcList[s] = 0 /\ \A i \in 1 .. T - ahcList[s] : FALSE
          BY <1>1, <4>1
        <4>3. tail \in Seq(Nat) /\ Len(tail) = 0 BY <4>1, EmptySeq
        <4> HIDE DEF tail, T
        <4> QED BY <4>2, <4>3
      <3>2. CASE s # Len(ahcList)
        <4>0. s \in 1 .. Len(ahcList) /\ Len(ahcList) \in Nat BY <1>1, <2>1
        <4>1. s + 1 \in 1 .. Len(ahcList) + 1 /\ s + 1 # 1 /\ s + 1 - 1 = s
          BY <1>1, <4>0
        <4>a. Ahc!Before(s + 1) = Start(ahcList, s + 1) /\ Ahc!Total = T
          <5>1. /\ Ahc!Total = Size(ahcList)
                /\ \A t \in 1 .. Len(ahcList) + 1 :
                      Ahc!Before(t) = Start(ahcList, t)
            BY ChipList
          <5> QED BY <4>1, <5>1
        <4>2. Ahc!Before(s + 1) = ahcList[s] /\ Ahc!Total = T
          BY <4>0, <4>a, StartAfter
        <4>3. tail = [i \in 1 .. T - ahcList[s] |-> Ahc!Home(ahcList[s] + i)]
          BY <2>2, <3>2, <4>2 DEF Ahc!Bytes
        <4>4. ASSUME NEW i \in 1 .. T - ahcList[s]
              PROVE  Ahc!Home(ahcList[s] + i) = Spot(ahcList, ahcList[s] + i)
                     /\ Ahc!Home(ahcList[s] + i) \in Nat
          <5>1. ahcList[s] + i \in 1 .. T BY <1>1, <2>1
          <5>2. Segm(ahcList, ahcList[s] + i) \in Nat
            BY <1>1, <5>1, InSegment
          <5>3. Ahc!Home(ahcList[s] + i) = Spot(ahcList, ahcList[s] + i)
            BY <5>1, ChipList
          <5> QED BY <5>1, <5>2, <5>3, <1>1 DEF Spot
        <4>5. tail \in [1 .. T - ahcList[s] -> Nat] BY <4>3, <4>4
        <4>6. T - ahcList[s] \in Nat BY <1>1, <2>1
        <4>7. \A i \in 1 .. T - ahcList[s] :
                 tail[i] = Spot(ahcList, ahcList[s] + i)
          BY <4>3, <4>4
        <4> HIDE DEF tail, T
        <4>8. tail \in Seq(Nat) /\ Len(tail) = T - ahcList[s]
          BY <4>5, <4>6, Filled
        <4> QED BY <4>7, <4>8
      <3> QED BY <3>1, <3>2
    <2> HIDE DEF head, tail, T
    <2>8. /\ head \o tail \in Seq(Nat)
          /\ Len(head \o tail) = Len(head) + Len(tail)
          /\ \A i \in 1 .. Len(head) + Len(tail) :
                (head \o tail)[i] = IF i <= Len(head) THEN head[i]
                                    ELSE tail[i - Len(head)]
      BY <2>6, <2>7, ConcatProperties
    <2>9. Len(head) + Len(tail) = T - q BY <1>1, <2>1, <2>6, <2>7
    <2>10. ASSUME NEW i \in 1 .. T - q
           PROVE  (head \o tail)[i] = Spot(ahcList, q + i)
      <3>1. CASE i <= c BY <2>4, <2>5, <2>6, <2>8, <2>9, <3>1
      <3>2. CASE ~ (i <= c)
        <4>1. i - c \in 1 .. T - ahcList[s]
              /\ ahcList[s] + (i - c) = q + i
          BY <1>1, <2>1, <2>4, <3>2, SMTT(30)
        <4>2. (head \o tail)[i] = tail[i - c] BY <2>6, <2>8, <2>9, <3>2
        <4> QED BY <2>7, <4>1, <4>2
      <3> QED BY <3>1, <3>2
    <2> QED BY <2>3, <2>8, <2>9, <2>10 DEF T
  <1> QED BY <1>2, <1>3

\* Of a byte of the buffer, in one place.
LEMMA Byte ==
  ASSUME ahcList \in PointerLists, NEW n \in 1 .. Size(ahcList),
         NEW s, s = Segm(ahcList, n)
  PROVE  /\ s \in 1 .. Len(ahcList) /\ Len(ahcList) \in Nat
         /\ Size(ahcList) \in Nat
         /\ Start(ahcList, s) \in Nat /\ ahcList[s] \in Nat
         /\ Start(ahcList, s) < n /\ n <= ahcList[s]
         /\ ahcList[s] <= Size(ahcList)
         /\ Spot(ahcList, n) = n - 1 + s
         /\ Ahc!Length(s) = ahcList[s] - Start(ahcList, s)
         /\ \A offset : Ahc!Addr(s, offset) = Start(ahcList, s) + s + offset
         /\ Ahc!Before(s + 1) = ahcList[s]
  <1>1. List(ahcList) BY Lists
  <1>2. s \in 1 .. Len(ahcList) /\ Start(ahcList, s) < n /\ n <= ahcList[s]
    BY <1>1, InSegment
  <1>3. Spot(ahcList, n) = n - 1 + s BY DEF Spot
  <1>4. Len(ahcList) \in Nat /\ Size(ahcList) \in Nat BY <1>1, Ends
  <1>5. /\ Start(ahcList, s) \in Nat /\ ahcList[s] \in Nat
        /\ ahcList[s] <= Size(ahcList)
    BY <1>1, <1>2, Ends
  <1>6. s + 1 \in 1 .. Len(ahcList) + 1 BY <1>2, <1>4
  <1>7. Ahc!Before(s + 1) = Start(ahcList, s + 1)
    <2>1. \A t \in 1 .. Len(ahcList) + 1 : Ahc!Before(t) = Start(ahcList, t)
      BY ChipList
    <2> QED BY <1>6, <2>1
  <1>8. Start(ahcList, s + 1) = ahcList[s] BY <1>2, <1>4, StartAfter
  <1>9. /\ Ahc!Length(s) = ahcList[s] - Start(ahcList, s)
        /\ \A offset : Ahc!Addr(s, offset) = Start(ahcList, s) + s + offset
    BY <1>2, ChipList
  <1> QED BY <1>2, <1>3, <1>4, <1>5, <1>7, <1>8, <1>9

\* Where the chip stands after n bytes of the path.
LEMMA StoppedIs ==
  ASSUME ahcList \in PointerLists, NEW p, p.cnt \in Nat,
         NEW q \in 0 .. Size(ahcList), PlaceAt(ahcList, p, q),
         NEW n \in 1 .. Size(ahcList) - q
  PROVE  /\ ResidualAt(ahcList, Ahc!Stopped(p, n), q + n)
         /\ Ahc!Stopped(p, n) \in [cnt : Nat, last : BOOLEAN, next : Nat,
                                   null : BOOLEAN]
  <1> DEFINE T == Size(ahcList)
  <1>1. T \in Nat /\ Len(ahcList) \in Nat BY Lists, Ends
  <1>2. /\ Len(Ahc!Path(p)) = T - q
        /\ \A i \in 1 .. T - q : Ahc!Path(p)[i] = Spot(ahcList, q + i)
    BY PathFromPlace
  <1>3. CASE n = T - q
    <2>1. Ahc!Stopped(p, n) = [cnt |-> p.cnt, last |-> TRUE,
                               next |-> Len(ahcList) + 1, null |-> TRUE]
      BY <1>2, <1>3 DEF Ahc!Stopped
    <2>2. q + n = T BY <1>1, <1>3
    <2> HIDE DEF T
    <2>3. Len(ahcList) + 1 \in Nat BY <1>1
    <2> QED BY <2>1, <2>2, <2>3 DEF T, ResidualAt
  <1>4. CASE n # T - q /\ n < p.cnt
    <2> DEFINE s == Segm(ahcList, q + 1)
    <2>1. q # T /\ q + 1 \in 1 .. T /\ q + n + 1 \in 1 .. T /\ q + n # T
          /\ q \in Nat /\ n \in Nat
      BY <1>1, <1>4
    <2>2. /\ p.cnt = ahcList[s] - q
          /\ p.last = (s = Len(ahcList)) /\ p.next = s + 1
      BY <2>1 DEF PlaceAt
    <2>3. /\ s \in 1 .. Len(ahcList) /\ Start(ahcList, s) \in Nat
          /\ ahcList[s] \in Nat /\ Start(ahcList, s) < q + 1
      BY <2>1, Byte
    <2> HIDE DEF s, T
    <2>4. Start(ahcList, s) < q + n + 1 /\ q + n + 1 <= ahcList[s]
      BY <1>4, <2>1, <2>2, <2>3
    <2>5. Segm(ahcList, q + n + 1) = s
      BY <2>1, <2>3, <2>4, Lists, SegmentIs DEF T
    <2>6. Ahc!Stopped(p, n) = [cnt |-> p.cnt - n, last |-> p.last,
                               next |-> p.next, null |-> FALSE]
      BY <1>2, <1>4 DEF Ahc!Stopped
    <2> DEFINE c == p.cnt - n
               e == (s = Len(ahcList))
    <2>7. c = ahcList[s] - (q + n) /\ c \in Nat /\ s + 1 \in Nat
          /\ e \in BOOLEAN
      BY <1>4, <2>1, <2>2, <2>3
    <2>8. Ahc!Stopped(p, n) = [cnt |-> c, last |-> e, next |-> s + 1,
                               null |-> FALSE]
      BY <2>2, <2>6
    <2>9. e = (Segm(ahcList, q + n + 1) = Len(ahcList)) BY <2>5
    <2> HIDE DEF c, e
    <2>10. ResidualAt(ahcList, Ahc!Stopped(p, n), q + n)
      BY <2>1, <2>5, <2>7, <2>8, <2>9 DEF ResidualAt, T
    <2> QED BY <2>7, <2>8, <2>10
  <1>5. CASE n # T - q /\ ~ (n < p.cnt)
    <2> DEFINE b == q + n + 1
               s == Segm(ahcList, b)
    <2>1. b \in 1 .. T /\ n + 1 \in 1 .. T - q /\ q + (n + 1) = b
          /\ q + n # T
      BY <1>1, <1>5
    <2>2. Ahc!Path(p)[n + 1] = Spot(ahcList, b) BY <1>2, <2>1
    <2>3. Ahc!SegmentAt(Spot(ahcList, b)) = s BY <2>1, FoundSegment
    <2>4. Ahc!Stopped(p, n)
            = [cnt |-> Ahc!Addr(s, Ahc!Length(s)) - Spot(ahcList, b),
               last |-> s = Len(ahcList), next |-> s + 1, null |-> FALSE]
      BY <1>2, <1>5, <2>2, <2>3 DEF Ahc!Stopped
    <2> HIDE DEF b
    <2>5. /\ s \in 1 .. Len(ahcList)
          /\ Start(ahcList, s) \in Nat /\ ahcList[s] \in Nat
          /\ Start(ahcList, s) < b /\ b <= ahcList[s]
          /\ Spot(ahcList, b) = b - 1 + s
          /\ Ahc!Length(s) = ahcList[s] - Start(ahcList, s)
          /\ \A offset : Ahc!Addr(s, offset) = Start(ahcList, s) + s + offset
      BY <2>1, Byte
    <2> DEFINE c == Ahc!Addr(s, Ahc!Length(s)) - Spot(ahcList, b)
    <2>6. c = ahcList[s] - (q + n) /\ c \in Nat /\ s + 1 \in Nat
      <3> HIDE DEF s
      <3>1. Ahc!Addr(s, Ahc!Length(s))
              = Start(ahcList, s) + s + (ahcList[s] - Start(ahcList, s))
        BY <2>5
      <3>2. b = q + n + 1 BY DEF b
      <3> QED BY <1>1, <2>1, <2>5, <3>1, <3>2, SMTT(30)
    <2>7. s = Segm(ahcList, q + n + 1) BY DEF b
    <2>8. Ahc!Stopped(p, n) = [cnt |-> c, last |-> s = Len(ahcList),
                               next |-> s + 1, null |-> FALSE]
      BY <2>4
    <2> HIDE DEF s, c, T
    <2>9. ResidualAt(ahcList, Ahc!Stopped(p, n), q + n)
      BY <2>1, <2>6, <2>7, <2>8 DEF ResidualAt, T
    <2> QED BY <2>6, <2>8, <2>9
  <1> QED BY <1>3, <1>4, <1>5

\* A residual leads back to the place it was taken at.
LEMMA ResumedAt ==
  ASSUME ahcList \in PointerLists, NEW q \in 0 .. Size(ahcList),
         ResidualAt(ahcList, residual, q)
  PROVE  PlaceAt(ahcList, Ahc!Reinitialized, q)
  <1> DEFINE s == Segm(ahcList, q + 1)
  <1>1. Ahc!Reinitialized.null = residual.null BY DEF Ahc!Reinitialized
  <1>2. CASE q = Size(ahcList)
    BY <1>1, <1>2 DEF PlaceAt, ResidualAt
  <1>3. CASE q # Size(ahcList)
    <2>1. Size(ahcList) \in Nat BY Lists, Ends
    <2>2. q + 1 \in 1 .. Size(ahcList) BY <1>3, <2>1
    <2>3. /\ s \in 1 .. Len(ahcList)
          /\ Start(ahcList, s) \in Nat /\ ahcList[s] \in Nat
          /\ Spot(ahcList, q + 1) = q + 1 - 1 + s
          /\ Ahc!Length(s) = ahcList[s] - Start(ahcList, s)
          /\ \A offset : Ahc!Addr(s, offset) = Start(ahcList, s) + s + offset
      BY <2>2, Byte
    <2>4. /\ ~residual.null /\ residual.cnt = ahcList[s] - q
          /\ residual.last = (s = Len(ahcList)) /\ residual.next = s + 1
      BY <1>3 DEF ResidualAt
    <2> HIDE DEF s
    <2>5. residual.next - 1 = s BY <2>3, <2>4
    <2>6. Ahc!Reinitialized =
            [ptr |-> Ahc!Addr(s, Ahc!Length(s) - residual.cnt),
             cnt |-> residual.cnt, last |-> residual.last,
             next |-> residual.next, null |-> residual.null]
      BY <2>5 DEF Ahc!Reinitialized, Ahc!CurrentOf
    <2>7. Ahc!Addr(s, Ahc!Length(s) - residual.cnt) = Spot(ahcList, q + 1)
      <3>1. Ahc!Addr(s, Ahc!Length(s) - residual.cnt)
              = Start(ahcList, s) + s
                + ((ahcList[s] - Start(ahcList, s)) - (ahcList[s] - q))
        BY <2>3, <2>4
      <3> QED BY <2>1, <2>3, <3>1
    <2> QED BY <1>3, <2>4, <2>6, <2>7 DEF PlaceAt, s
  <1> QED BY <1>2, <1>3

Residuals == [cnt : Nat, last : BOOLEAN, next : Nat, null : BOOLEAN]

LEMMA Set ==
  ASSUME NEW r \in Residuals, NEW c
  PROVE  [r EXCEPT !.cnt = c, !.null = FALSE]
           = [cnt |-> c, last |-> r.last, next |-> r.next, null |-> FALSE]
  <1> DEFINE r2 == [r EXCEPT !.cnt = c, !.null = FALSE]
  <1>1. DOMAIN r = {"cnt", "last", "next", "null"} BY DEF Residuals
  <1>2. DOMAIN r2 = {"cnt", "last", "next", "null"} BY <1>1, Zenon
  <1>3. /\ r2.cnt = c /\ r2.last = r.last /\ r2.next = r.next
        /\ r2.null = FALSE
    BY <1>1, Zenon
  <1>4. r2 = [f \in DOMAIN r2 |-> r2[f]] BY Zenon
  <1> HIDE DEF r2
  <1>5. r2 = [f \in {"cnt", "last", "next", "null"} |-> r2[f]] BY <1>2, <1>4
  <1>6. r2 = [cnt |-> c, last |-> r.last, next |-> r.next, null |-> FALSE]
    BY <1>3, <1>5
  <1> QED BY <1>6 DEF r2

\* The padding byte is taken back: it may be the last one of its segment.
LEMMA TakenBack ==
  ASSUME ahcList \in PointerLists, residual \in Residuals,
         NEW q \in 0 .. Size(ahcList) - 1,
         ResidualAt(ahcList, residual, q + 1), Ahc!TakeBack
  PROVE  /\ ResidualAt(ahcList, residual', q)
         /\ residual' \in Residuals
  <1> DEFINE T == Size(ahcList)
             t == Segm(ahcList, q + 1)
             s == Ahc!CurrentOf(residual.next)
             cnt == 1 + IF residual.null THEN 0 ELSE residual.cnt
  <1>1. T \in Nat \ {0} /\ q + 1 \in 1 .. T /\ q # T BY Lists, Ends
  <1>2. /\ t \in 1 .. Len(ahcList) /\ Len(ahcList) \in Nat
        /\ Start(ahcList, t) \in Nat /\ ahcList[t] \in Nat
        /\ Start(ahcList, t) < q + 1 /\ q + 1 <= ahcList[t]
        /\ ahcList[t] <= T
    BY <1>1, Byte
  <1>3. residual' = IF Ahc!SteppedOut(s, cnt)
                    THEN [cnt |-> 1, last |-> FALSE, next |-> s, null |-> FALSE]
                    ELSE [residual EXCEPT !.cnt = cnt, !.null = FALSE]
    BY DEF Ahc!TakeBack
  <1> DEFINE u == Segm(ahcList, q + 2)
  <1>4. CASE q + 1 = T
    <2>1. residual.null /\ residual.last /\ residual.next = Len(ahcList) + 1
      BY <1>4 DEF ResidualAt
    <2>2. s = Len(ahcList) /\ cnt = 1 BY <1>2, <2>1 DEF Ahc!CurrentOf
    <2>3. t = Len(ahcList)
      <3>1. Len(ahcList) \in 1 .. Len(ahcList) /\ ahcList[Len(ahcList)] = T
            /\ List(ahcList)
        BY <1>2, Lists DEF Size
      <3>2. Start(ahcList, Len(ahcList)) \in Nat
            /\ Start(ahcList, Len(ahcList)) < ahcList[Len(ahcList)]
        BY <3>1, Ends
      <3>3. Start(ahcList, Len(ahcList)) < q + 1
            /\ q + 1 <= ahcList[Len(ahcList)]
        BY <1>1, <1>4, <3>1, <3>2
      <3> QED BY <1>1, <3>1, <3>3, SegmentIs
    <2> HIDE DEF t
    <2>4. Ahc!Length(t) = ahcList[t] - Start(ahcList, t) BY <1>2, ChipList
    <2>5. ~ Ahc!SteppedOut(s, cnt)
      <3>1. ~ (Ahc!Length(t) < 1) BY <1>2, <2>4
      <3> QED BY <2>2, <2>3, <3>1 DEF Ahc!SteppedOut
    <2> HIDE DEF s, cnt
    <2>6. residual' = [residual EXCEPT !.cnt = cnt, !.null = FALSE]
      BY <1>3, <2>5
    <2>7. cnt \in Nat BY <2>2
    <2>8. /\ residual' \in Residuals /\ residual'.cnt = cnt
          /\ residual'.last = residual.last /\ residual'.next = residual.next
          /\ residual'.null = FALSE
      <3>1. residual' = [cnt |-> cnt, last |-> residual.last,
                         next |-> residual.next, null |-> FALSE]
        BY <2>6, Set
      <3> QED BY <2>7, <3>1 DEF Residuals
    <2>9. cnt = ahcList[t] - q
      <3>1. ahcList[t] = T BY <2>3 DEF Size
      <3> QED BY <1>1, <1>4, <2>2, <3>1
    <2>10. residual.last = (t = Len(ahcList)) /\ residual.next = t + 1
      BY <2>1, <2>3
    <2> HIDE DEF T
    <2> QED BY <1>1, <2>8, <2>9, <2>10 DEF ResidualAt, t, T
  <1>5. CASE q + 1 # T
    <2>1. q + 2 \in 1 .. T /\ q + 1 + 1 = q + 2 BY <1>1, <1>5
    <2>2. /\ u \in 1 .. Len(ahcList)
          /\ Start(ahcList, u) \in Nat /\ ahcList[u] \in Nat
          /\ Start(ahcList, u) < q + 2 /\ q + 2 <= ahcList[u]
          /\ Ahc!Length(u) = ahcList[u] - Start(ahcList, u)
      BY <2>1, Byte
    <2>3. /\ ~residual.null /\ residual.cnt = ahcList[u] - (q + 1)
          /\ residual.last = (u = Len(ahcList)) /\ residual.next = u + 1
      BY <1>5, <2>1 DEF ResidualAt
    <2> HIDE DEF u
    <2>4. s = u BY <2>2, <2>3 DEF Ahc!CurrentOf
    <2>5. cnt = ahcList[u] - q /\ cnt \in Nat BY <2>2, <2>3
    <2>6. CASE Start(ahcList, u) = q + 1
      <3>1. u # 1 BY <2>6 DEF Start
      <3>2. Ahc!SteppedOut(s, cnt)
        <4>1. Ahc!Length(u) < cnt BY <2>2, <2>5, <2>6
        <4> QED BY <2>4, <3>1, <4>1 DEF Ahc!SteppedOut
      <3>3. residual' = [cnt |-> 1, last |-> FALSE, next |-> u, null |-> FALSE]
        BY <1>3, <2>4, <3>2
      <3>4. u - 1 \in 1 .. Len(ahcList) /\ u - 1 + 1 = u
            /\ u - 1 # Len(ahcList)
        BY <1>2, <2>2, <3>1
      <3>5. ahcList[u - 1] = q + 1 BY <2>6, <3>1 DEF Start
      <3>6. t = u - 1
        <4>1. List(ahcList) BY Lists
        <4>2. Start(ahcList, u - 1) < ahcList[u - 1] BY <3>4, <4>1, Ends
        <4>3. Start(ahcList, u - 1) < q + 1 /\ q + 1 <= ahcList[u - 1]
          BY <1>1, <3>5, <4>2
        <4> QED BY <1>1, <3>4, <4>1, <4>3, SegmentIs
      <3> HIDE DEF t, T
      <3>7. 1 = ahcList[t] - q /\ t # Len(ahcList) /\ u = t + 1
        BY <3>4, <3>5, <3>6
      <3>8. residual' \in Residuals BY <2>2, <3>3 DEF Residuals
      <3> QED BY <1>1, <3>3, <3>7, <3>8 DEF ResidualAt, t, T
    <2>7. CASE Start(ahcList, u) # q + 1
      <3>1. ~ (Ahc!Length(u) < cnt) BY <2>2, <2>5, <2>7
      <3>2. ~ Ahc!SteppedOut(s, cnt) BY <2>4, <3>1 DEF Ahc!SteppedOut
      <3>3. residual' = [residual EXCEPT !.cnt = cnt, !.null = FALSE]
        BY <1>3, <3>2
      <3>4. t = u
        <4>1. Start(ahcList, u) < q + 1 /\ q + 1 <= ahcList[u]
          BY <2>2, <2>7
        <4> QED BY <1>1, <2>2, <4>1, Lists, SegmentIs
      <3> HIDE DEF cnt
      <3>5. /\ residual' \in Residuals /\ residual'.cnt = cnt
            /\ residual'.last = residual.last
            /\ residual'.next = residual.next /\ residual'.null = FALSE
        <4>1. residual' = [cnt |-> cnt, last |-> residual.last,
                           next |-> residual.next, null |-> FALSE]
          BY <3>3, Set
        <4> QED BY <2>5, <4>1 DEF Residuals
      <3> HIDE DEF t, T
      <3> QED BY <1>1, <2>3, <2>5, <3>4, <3>5 DEF ResidualAt, t, T
    <2> QED BY <2>6, <2>7
  <1> QED BY <1>4, <1>5

\* What lies behind a residual.
LEMMA Remains ==
  ASSUME ahcList \in PointerLists, NEW q \in 0 .. Size(ahcList),
         ResidualAt(ahcList, residual, q), ~residual.null
  PROVE  residual.cnt + Ahc!SegmentsFrom(residual.next) = Size(ahcList) - q
  <1> DEFINE T == Size(ahcList)
             s == Segm(ahcList, q + 1)
  <1>1. T \in Nat /\ q # T BY Lists, Ends DEF ResidualAt
  <1>2. q + 1 \in 1 .. T BY <1>1
  <1>3. /\ ahcList[s] \in Nat /\ Ahc!Before(s + 1) = ahcList[s]
    BY <1>2, Byte
  <1>4. residual.cnt = ahcList[s] - q /\ residual.next = s + 1
    BY <1>1 DEF ResidualAt
  <1>5. Ahc!Total = T BY ChipList
  <1>6. Ahc!SegmentsFrom(residual.next) = T - ahcList[s]
    BY <1>3, <1>4, <1>5 DEF Ahc!SegmentsFrom
  <1> HIDE DEF T, s
  <1>7. residual.cnt + Ahc!SegmentsFrom(residual.next) = T - q
    BY <1>1, <1>3, <1>4, <1>6
  <1> QED BY <1>7 DEF T

\* The SCB begins with the first byte.
LEMMA FirstPlace ==
  ASSUME ahcList \in PointerLists, NEW p,
         p.ptr = Ahc!SetupDataScb.ptr, p.cnt = Ahc!SetupDataScb.cnt,
         p.last = Ahc!SetupDataScb.last, p.next = Ahc!SetupDataScb.next,
         ~p.null
  PROVE  PlaceAt(ahcList, p, 0)
  <1>1. List(ahcList) BY Lists
  <1>2. /\ 1 \in 1 .. Len(ahcList) /\ 1 \in 1 .. Size(ahcList)
        /\ Len(ahcList) \in Nat /\ 0 # Size(ahcList)
    <2>1. Len(ahcList) \in Nat \ {0} /\ Size(ahcList) \in Nat \ {0}
      BY <1>1, Ends
    <2> QED BY <2>1
  <1>3. Start(ahcList, 1) = 0 /\ ahcList[1] \in Nat \ {0}
    BY <1>1, <1>2, Ends DEF Start
  <1>4. Segm(ahcList, 1) = 1
    <2>1. Start(ahcList, 1) < 1 /\ 1 <= ahcList[1] BY <1>3
    <2> QED BY <1>1, <1>2, <2>1, SegmentIs
  <1>5. /\ Ahc!Addr(1, 0) = 1 /\ Ahc!Length(1) = ahcList[1]
    <2>1. /\ Ahc!Addr(1, 0) = Start(ahcList, 1) + 1 + 0
          /\ Ahc!Length(1) = ahcList[1] - Start(ahcList, 1)
      BY <1>2, ChipList
    <2> QED BY <1>3, <2>1
  <1>6. p.ptr = 1 /\ p.cnt = ahcList[1] /\ p.last = (Len(ahcList) = 1)
        /\ p.next = 2
    BY <1>5 DEF Ahc!SetupDataScb
  <1>7. Spot(ahcList, 1) = 1 BY <1>4 DEF Spot
  <1>8. ahcList[1] - 0 = ahcList[1] /\ 0 + 1 = 1 /\ 1 + 1 = 2 BY <1>3
  <1> QED BY <1>2, <1>4, <1>6, <1>7, <1>8 DEF PlaceAt

-----------------------------------------------------------------------------
(* The memory.                                                             *)

\* The last thing written to the place of byte n is the byte, and nothing is
\* written anywhere else.
Holds(list, mem, n) ==
    \E i \in DOMAIN mem :
        /\ mem[i] = <<Spot(list, n), n>>
        /\ \A j \in DOMAIN mem : mem[j][1] = Spot(list, n) => j <= i
Inside(list, mem) ==
    \A i \in DOMAIN mem : \E n \in 1 .. Size(list) : mem[i][1] = Spot(list, n)

Cells(list) == Nat \X (0 .. Size(list))

LEMMA WrittenTo ==
  ASSUME NEW list, List(list), NEW mem \in Seq(Cells(list)),
         NEW q \in 0 .. Size(list), NEW n \in 0 .. Size(list) - q, NEW m \in Nat,
         NEW w, w = [i \in 1 .. n |->
                       <<Spot(list, q + i), IF i <= m THEN q + i ELSE 0>>],
         NEW k \in 0 .. q + n, k <= q + m,
         Inside(list, mem), \A b \in 1 .. q : Holds(list, mem, b)
  PROVE  /\ mem \o w \in Seq(Cells(list))
         /\ Inside(list, mem \o w)
         /\ \A b \in 1 .. k : Holds(list, mem \o w, b)
  <1> DEFINE T == Size(list)
             L == Len(mem)
             new == mem \o w
  <1>1. T \in Nat /\ L \in Nat /\ DOMAIN mem = 1 .. L /\ n \in Nat
    <2>1. T \in Nat BY Ends
    <2>2. L \in Nat /\ DOMAIN mem = 1 .. L BY LenProperties
    <2> QED BY <2>1, <2>2
  <1>2. ASSUME NEW i \in 1 .. n
        PROVE  /\ q + i \in 1 .. T
               /\ w[i] = <<Spot(list, q + i), IF i <= m THEN q + i ELSE 0>>
               /\ w[i] \in Cells(list)
    <2>1. q + i \in 1 .. T BY <1>1
    <2>2. Segm(list, q + i) \in Nat
      <3>1. Len(list) \in Nat BY Ends
      <3> QED BY <2>1, <3>1, InSegment
    <2>3. Spot(list, q + i) \in Nat BY <1>1, <2>1, <2>2 DEF Spot
    <2>4. w[i] = <<Spot(list, q + i), IF i <= m THEN q + i ELSE 0>> OBVIOUS
    <2>5. (IF i <= m THEN q + i ELSE 0) \in 0 .. T BY <1>1, <2>1
    <2> QED BY <2>1, <2>3, <2>4, <2>5 DEF Cells
  <1>3. w \in Seq(Cells(list)) /\ Len(w) = n
    <2>1. w \in [1 .. n -> Cells(list)] BY <1>2
    <2> QED BY <1>1, <2>1, Filled
  <1>4. /\ new \in Seq(Cells(list)) /\ DOMAIN new = 1 .. L + n
        /\ \A i \in 1 .. L + n : new[i] = IF i <= L THEN mem[i] ELSE w[i - L]
    <2>1. /\ new \in Seq(Cells(list)) /\ Len(new) = L + Len(w)
          /\ \A i \in 1 .. L + Len(w) : new[i] = IF i <= L THEN mem[i]
                                                 ELSE w[i - L]
      BY <1>3, ConcatProperties
    <2> HIDE DEF new, L
    <2>2. DOMAIN new = 1 .. Len(new) BY <2>1, LenProperties
    <2> QED BY <1>3, <2>1, <2>2
  <1> HIDE DEF new
  <1>5. ASSUME NEW j \in DOMAIN new, ~ (j <= L)
        PROVE  /\ j - L \in 1 .. n /\ q + (j - L) \in 1 .. T
               /\ new[j] = <<Spot(list, q + (j - L)),
                             IF j - L <= m THEN q + (j - L) ELSE 0>>
               /\ new[j][1] = Spot(list, q + (j - L))
    <2>1. j \in 1 .. L + n BY <1>4
    <2>2. j - L \in 1 .. n BY <1>1, <1>5, <2>1
    <2>3. new[j] = w[j - L] BY <1>4, <1>5, <2>1
    <2> DEFINE d == j - L
    <2>4. d \in 1 .. n /\ new[j] = w[d] BY <2>2, <2>3
    <2> HIDE DEF d
    <2>5. /\ q + d \in 1 .. T
          /\ w[d] = <<Spot(list, q + d), IF d <= m THEN q + d ELSE 0>>
      BY <1>2, <2>4
    <2>6. new[j][1] = Spot(list, q + d) BY <2>4, <2>5
    <2> QED BY <2>4, <2>5, <2>6 DEF d
  <1>6. ASSUME NEW j \in DOMAIN new, j <= L
        PROVE  j \in DOMAIN mem /\ new[j] = mem[j]
    <2>1. j \in 1 .. L + n BY <1>4
    <2>2. j \in 1 .. L BY <1>1, <1>6, <2>1
    <2> QED BY <1>1, <1>4, <1>6, <2>1, <2>2
  <1>7. Inside(list, new)
    <2> SUFFICES ASSUME NEW j \in DOMAIN new
                 PROVE  \E b \in 1 .. T : new[j][1] = Spot(list, b)
      BY DEF Inside
    <2>1. CASE j <= L BY <1>6, <2>1 DEF Inside
    <2>2. CASE ~ (j <= L) BY <1>5, <2>2
    <2> QED BY <2>1, <2>2
  <1>8. ASSUME NEW b \in 1 .. k PROVE Holds(list, new, b)
    <2>1. b \in Nat /\ b \in 1 .. T BY <1>1
    <2>2. CASE b <= q
      <3>1. b \in 1 .. q BY <2>1, <2>2
      <3>2. PICK i \in DOMAIN mem :
                /\ mem[i] = <<Spot(list, b), b>>
                /\ \A j \in DOMAIN mem : mem[j][1] = Spot(list, b) => j <= i
        BY <3>1 DEF Holds
      <3>3. i \in DOMAIN new /\ new[i] = mem[i]
        BY <1>1, <1>4, SMTT(30)
      <3>4. ASSUME NEW j \in DOMAIN new, new[j][1] = Spot(list, b)
            PROVE  j <= i
        <4>1. CASE j <= L BY <1>6, <3>2, <3>4, <4>1
        <4>2. CASE ~ (j <= L)
          <5>1. /\ j - L \in 1 .. n /\ q + (j - L) \in 1 .. T
                /\ Spot(list, q + (j - L)) = Spot(list, b)
            BY <1>5, <3>4, <4>2
          <5>2. q + (j - L) = b
            <6> DEFINE d == q + (j - L)
            <6> HIDE DEF d
            <6>1. d = b BY <2>1, <5>1, SpotsDiffer DEF d
            <6> QED BY <6>1 DEF d
          <5> QED BY <1>1, <2>1, <2>2, <5>1, <5>2
        <4> QED BY <4>1, <4>2
      <3> QED BY <3>2, <3>3, <3>4 DEF Holds
    <2>3. CASE ~ (b <= q)
      <3> DEFINE i == L + (b - q)
      <3>1. b - q \in 1 .. n /\ b - q <= m /\ i - L = b - q
            /\ q + (b - q) = b /\ i \in 1 .. L + n /\ ~ (i <= L)
        BY <1>1, <2>1, <2>3
      <3> HIDE DEF i
      <3>2. i \in DOMAIN new BY <1>4, <3>1
      <3>3. new[i] = <<Spot(list, b), b>> BY <1>5, <3>1, <3>2
      <3>4. ASSUME NEW j \in DOMAIN new, new[j][1] = Spot(list, b)
            PROVE  j <= i
        <4>1. CASE j <= L BY <1>1, <1>4, <3>1, <4>1
        <4>2. CASE ~ (j <= L)
          <5>1. /\ j - L \in 1 .. n /\ q + (j - L) \in 1 .. T
                /\ Spot(list, q + (j - L)) = Spot(list, b)
            BY <1>5, <3>4, <4>2
          <5>2. q + (j - L) = b
            <6> DEFINE d == q + (j - L)
            <6> HIDE DEF d
            <6>1. d = b BY <2>1, <5>1, SpotsDiffer DEF d
            <6> QED BY <6>1 DEF d
          <5> QED BY <1>1, <1>4, <2>1, <3>1, <5>1, <5>2
        <4> QED BY <4>1, <4>2
      <3> QED BY <3>2, <3>3, <3>4 DEF Holds
    <2> QED BY <2>2, <2>3
  <1> QED BY <1>4, <1>7, <1>8 DEF new

-----------------------------------------------------------------------------
(* Even and odd.                                                           *)

One(b) == IF b THEN 1 ELSE 0

LEMMA Halves == \A n \in Nat : n % 2 \in {0, 1} OBVIOUS

LEMMA Toggles == \A n \in Nat : (n + 1) % 2 = 1 <=> n % 2 # 1 OBVIOUS

LEMMA SameParity ==
  \A a, b \in Nat : a % 2 = 0 => (a + b) % 2 = b % 2
  OBVIOUS

LEMMA WireIsEven == \A m \in Nat : (m + (m % 2)) % 2 = 0 OBVIOUS

\* What remains behind an even place is as odd as the whole.
LEMMA RestOfEven ==
  \A a, b \in Nat : a % 2 = 0 /\ a <= b => (b - a) % 2 = b % 2
  OBVIOUS

\* Behind m bytes and the padding the same parity remains.
LEMMA RestOfWire ==
  ASSUME NEW d \in Nat, NEW m \in 0 .. d
  PROVE  (d - m + One(m % 2 = 1)) % 2 = d % 2
  <1>1. CASE m % 2 = 1 BY <1>1 DEF One
  <1>2. CASE m % 2 # 1
    <2>1. m % 2 = 0 BY <1>2, Halves
    <2>2. d - m \in Nat OBVIOUS
    <2>3. (d - m) % 2 = d % 2 BY <2>1, RestOfEven
    <2> QED BY <1>2, <2>2, <2>3 DEF One
  <1> QED BY <1>1, <1>2

-----------------------------------------------------------------------------
(* The invariant.                                                          *)

\* Where the chip stands: behind the padding, if it has stored it.
Chip == target.most + One(target.pads /\ target.most < Size(ahcList))

\* Of a target that has not sent too much: the SCB says where the saved
\* place is, the residual where the chip stands.
Synced ==
    /\ PlaceAt(ahcList, Ahc!Loaded, target.saved)
    /\ target.saved <= target.most
    /\ target.pos = IF DPHASE THEN target.most ELSE target.saved
    /\ ahcScb.full => ~DPHASE /\ target.most = 0
    /\ ~ahcScb.full => ResidualAt(ahcList, residual, Chip)
    /\ target.pads => DPHASE /\ phase = "message"

\* SCB_XFERLEN_ODD has the parity of what remains to be sent from the
\* target's place, and from its saved place unless a residue lies between;
\* SHADDR is where the chip stands unless a residue has been taken back.
Paired ==
    /\ target.pads \/ target.pos < Size(ahcList) =>
          odd = ((Size(ahcList) - target.pos + One(target.pads)) % 2 = 1)
    /\ ~target.crossed /\ target.saved < Size(ahcList) =>
          odd = ((Size(ahcList) - target.saved) % 2 = 1)
    /\ ~target.padded /\ ~ahcScb.full /\ Chip < Size(ahcList) =>
          shaddr = Spot(ahcList, Chip + 1)
    /\ target.padded => target.crossed
    /\ target.pads \/ target.crossed =>
          DPHASE /\ target.saved < target.pos /\ phase # "free"

InMemory ==
    /\ Inside(ahcList, written)
    /\ \A n \in 1 .. target.pos : Holds(ahcList, written, n)

Standing ==
    /\ ahcScb.full \/ \E q \in 0 .. Size(ahcList) :
                         ResidualAt(ahcList, residual, q)
    /\ ahcScb.full /\ DPHASE => residual.null

Ended == phase = "done" /\ ~overrun =>
             ahcResid = Size(ahcList) - target.most

IInv ==
    /\ Ahc!TypeOK
    /\ overrun = greedy
    /\ target.saved <= target.pos
    /\ InMemory
    /\ Standing
    /\ greedy => ~target.pads
    /\ ~greedy => Synced /\ Paired
    /\ Ended

Targets(list) == [pos : 0 .. Size(list), saved : 0 .. Size(list),
                  most : 0 .. Size(list), pads : BOOLEAN, padded : BOOLEAN,
                  crossed : BOOLEAN]

LEMMA Typed ==
  ASSUME Ahc!TypeOK
  PROVE  /\ ahcList \in PointerLists /\ List(ahcList)
         /\ Size(ahcList) \in Nat \ {0} /\ Ahc!Total = Size(ahcList)
         /\ ahcScb \in Ahc!Pointers /\ ahcScb.cnt \in Nat
         /\ residual \in Residuals /\ residual.cnt \in Nat
         /\ odd \in BOOLEAN /\ DPHASE \in BOOLEAN
         /\ overrun \in BOOLEAN /\ greedy \in BOOLEAN
         /\ shaddr \in Nat /\ phase \in {"free", "message", "done"}
         /\ written \in Seq(Cells(ahcList))
         /\ target \in Targets(ahcList)
         /\ target.pos \in 0 .. Size(ahcList)
         /\ target.saved \in 0 .. Size(ahcList)
         /\ target.most \in 0 .. Size(ahcList)
         /\ target.pads \in BOOLEAN /\ target.padded \in BOOLEAN
         /\ target.crossed \in BOOLEAN
         /\ ahcResid \in 0 .. Size(ahcList)
  <1>1. ahcList \in PointerLists BY DEF Ahc!TypeOK
  <1>2. List(ahcList) BY <1>1, Lists
  <1>3. Size(ahcList) \in Nat \ {0} /\ Ahc!Total = Size(ahcList)
    BY <1>1, <1>2, Ends, ChipList
  <1>4. ahcScb \in Ahc!Pointers /\ ahcScb.cnt \in Nat
    BY DEF Ahc!TypeOK, Ahc!Pointers
  <1>5. residual \in Residuals /\ residual.cnt \in Nat
    BY DEF Ahc!TypeOK, Residuals
  <1>6. /\ odd \in BOOLEAN /\ DPHASE \in BOOLEAN
        /\ overrun \in BOOLEAN /\ greedy \in BOOLEAN
    BY DEF Ahc!TypeOK
  <1>7. shaddr \in Nat /\ phase \in {"free", "message", "done"}
    BY DEF Ahc!TypeOK
  <1>8. /\ written \in Seq(Cells(ahcList)) /\ target \in Targets(ahcList)
        /\ ahcResid \in 0 .. Size(ahcList)
    BY <1>3 DEF Ahc!TypeOK, Cells, Targets
  <1>9. /\ target.pos \in 0 .. Size(ahcList)
        /\ target.saved \in 0 .. Size(ahcList)
        /\ target.most \in 0 .. Size(ahcList)
        /\ target.pads \in BOOLEAN /\ target.padded \in BOOLEAN
        /\ target.crossed \in BOOLEAN
    BY <1>8 DEF Targets
  <1> QED BY <1>1, <1>2, <1>3, <1>4, <1>5, <1>6, <1>7, <1>8, <1>9

\* The types of the next state, when the list is the same.
LEMMA TypedNext ==
  ASSUME Ahc!TypeOK, ahcList' = ahcList, ahcScb' \in Ahc!Pointers,
         residual' \in Residuals, odd' \in BOOLEAN, DPHASE' \in BOOLEAN,
         overrun' \in BOOLEAN, greedy' \in BOOLEAN, shaddr' \in Nat,
         phase' \in {"free", "message", "done"},
         written' \in Seq(Cells(ahcList)), target' \in Targets(ahcList),
         ahcResid' \in 0 .. Size(ahcList)
  PROVE  Ahc!TypeOK'
  <1>1. ahcList \in PointerLists /\ Ahc!Total = Size(ahcList) BY Typed
  <1>2. Ahc!Total' = Size(ahcList) BY <1>1 DEF Ahc!Total
  <1> QED BY <1>1, <1>2 DEF Ahc!TypeOK, Cells, Targets, Residuals

-----------------------------------------------------------------------------
(* A data phase.                                                           *)

LEMMA TargetMoved ==
  ASSUME NEW t,
         DOMAIN t = {"pos", "saved", "most", "pads", "padded", "crossed"},
         NEW a, NEW b, NEW c, NEW e
  PROVE  [t EXCEPT !.pos = a, !.most = b, !.pads = c, !.padded = e]
           = [pos |-> a, saved |-> t.saved, most |-> b, pads |-> c,
              padded |-> e, crossed |-> t.crossed]
  <1> DEFINE D == {"pos", "saved", "most", "pads", "padded", "crossed"}
             u == [t EXCEPT !.pos = a, !.most = b, !.pads = c, !.padded = e]
  <1>1. DOMAIN u = D BY Zenon
  <1>2. /\ u.pos = a /\ u.saved = t.saved /\ u.most = b /\ u.pads = c
        /\ u.padded = e /\ u.crossed = t.crossed
    BY Zenon
  <1>3. u = [f \in DOMAIN u |-> u[f]] BY Zenon
  <1> HIDE DEF u
  <1>4. u = [f \in D |-> u[f]] BY <1>1, <1>3
  <1>5. u = [pos |-> a, saved |-> t.saved, most |-> b, pads |-> c,
             padded |-> e, crossed |-> t.crossed]
    BY <1>2, <1>4
  <1> QED BY <1>5 DEF u

\* Wherever a data phase begins, it begins at the target's place.
LEMMA PlaceIsRight ==
  ASSUME Ahc!TypeOK, Synced, ~target.pads
  PROVE  /\ PlaceAt(ahcList, Ahc!Place, target.pos)
         /\ Ahc!Place.cnt \in Nat
  <1>1. /\ ahcList \in PointerLists /\ Size(ahcList) \in Nat
        /\ target.most \in 0 .. Size(ahcList) /\ DPHASE \in BOOLEAN
        /\ ahcScb.cnt \in Nat /\ residual.cnt \in Nat
    BY Typed
  <1>2. CASE DPHASE
    <2>1. Ahc!Place = Ahc!Reinitialized BY <1>2 DEF Ahc!Place
    <2>2. ~ahcScb.full /\ target.pos = target.most BY <1>2 DEF Synced
    <2>3. Chip = target.most BY <1>1 DEF Chip, One
    <2>4. ResidualAt(ahcList, residual, target.most) BY <2>2, <2>3 DEF Synced
    <2>5. PlaceAt(ahcList, Ahc!Reinitialized, target.most)
      BY <1>1, <2>4, ResumedAt
    <2>6. Ahc!Reinitialized.cnt = residual.cnt BY DEF Ahc!Reinitialized
    <2> QED BY <1>1, <2>1, <2>2, <2>5, <2>6
  <1>3. CASE ~DPHASE
    <2>1. Ahc!Place = Ahc!Loaded BY <1>3 DEF Ahc!Place
    <2>2. target.pos = target.saved BY <1>3 DEF Synced
    <2>3. Ahc!Loaded.cnt = ahcScb.cnt BY DEF Ahc!Loaded
    <2> QED BY <1>1, <2>1, <2>2, <2>3 DEF Synced
  <1> QED BY <1>2, <1>3

\* What the chip takes reaches its place, and the residual follows.
LEMMA Taken ==
  ASSUME Ahc!TypeOK, InMemory, NEW p, PlaceAt(ahcList, p, target.pos),
         p.cnt \in Nat, NEW m \in Nat,
         NEW n \in 1 .. Size(ahcList) - target.pos, Ahc!Take(p, m, n)
  PROVE  /\ written' \in Seq(Cells(ahcList))
         /\ Inside(ahcList, written')
         /\ \A k \in 0 .. target.pos + n : k <= target.pos + m =>
               \A b \in 1 .. k : Holds(ahcList, written', b)
         /\ residual' \in Residuals
         /\ ResidualAt(ahcList, residual', target.pos + n)
         /\ shaddr' \in Nat
         /\ target.pos + n < Size(ahcList) =>
               shaddr' = Spot(ahcList, target.pos + n + 1)
  <1> DEFINE T == Size(ahcList)
             q == target.pos
             path == Ahc!Path(p)
  <1>1. /\ ahcList \in PointerLists /\ List(ahcList) /\ T \in Nat /\ q \in 0 .. T
        /\ written \in Seq(Cells(ahcList))
    BY Typed
  <1>2. /\ path \in Seq(Nat) /\ Len(path) = T - q
        /\ \A i \in 1 .. T - q : path[i] = Spot(ahcList, q + i)
    BY <1>1, PathFromPlace
  <1>3. /\ written' = written \o Ahc!Written(p, m, n)
        /\ residual' = Ahc!Stopped(p, n)
        /\ shaddr' = IF n = Len(path) THEN path[n] + 1 ELSE path[n + 1]
    BY DEF Ahc!Take
  <1>4. ResidualAt(ahcList, residual', q + n) /\ residual' \in Residuals
    BY <1>1, <1>3, StoppedIs DEF Residuals
  <1> DEFINE w == Ahc!Written(p, m, n)
  <1>5. w = [i \in 1 .. n |->
               <<Spot(ahcList, q + i), IF i <= m THEN q + i ELSE 0>>]
    <2>1. \A i \in 1 .. n : path[i] = Spot(ahcList, q + i)
      BY <1>1, <1>2
    <2>2. w = [i \in 1 .. n |-> <<path[i], IF i <= m THEN q + i ELSE 0>>]
      BY DEF Ahc!Written
    <2> HIDE DEF w, path, q
    <2> QED BY <2>1, <2>2
  <1>6. Inside(ahcList, written) /\ \A b \in 1 .. q : Holds(ahcList, written, b)
    BY DEF InMemory
  <1>7. q \in Nat /\ n \in 0 .. T - q /\ q + n \in Nat BY <1>1
  <1> HIDE DEF w, path, q
  <1>8. ASSUME NEW k \in 0 .. q + n, k <= q + m
        PROVE  /\ written \o w \in Seq(Cells(ahcList))
               /\ Inside(ahcList, written \o w)
               /\ \A b \in 1 .. k : Holds(ahcList, written \o w, b)
    <2> DEFINE list == ahcList
               mem == written
    <2> HIDE DEF list, mem, T
    <2>1. /\ List(list) /\ mem \in Seq(Cells(list))
          /\ q \in 0 .. Size(list) /\ n \in 0 .. Size(list) - q
          /\ w = [i \in 1 .. n |->
                    <<Spot(list, q + i), IF i <= m THEN q + i ELSE 0>>]
          /\ Inside(list, mem) /\ \A b \in 1 .. q : Holds(list, mem, b)
      BY <1>1, <1>5, <1>6, <1>7 DEF list, mem, T
    <2>2. /\ mem \o w \in Seq(Cells(list)) /\ Inside(list, mem \o w)
          /\ \A b \in 1 .. k : Holds(list, mem \o w, b)
      BY <1>8, <2>1, WrittenTo
    <2> QED BY <2>2 DEF list, mem
  <1>9. 0 \in 0 .. q + n /\ 0 <= q + m BY <1>7
  <1>10. written' = written \o w BY <1>3 DEF w
  <1>11. /\ written' \in Seq(Cells(ahcList)) /\ Inside(ahcList, written')
         /\ \A k \in 0 .. q + n : k <= q + m =>
               \A b \in 1 .. k : Holds(ahcList, written', b)
    BY <1>8, <1>9, <1>10
  <1>12. shaddr' \in Nat
         /\ (q + n < T => shaddr' = Spot(ahcList, q + n + 1))
    <2>1. n \in 1 .. Len(path) /\ n \in Nat BY <1>1, <1>2, <1>7
    <2>2. path[n] \in Nat BY <1>2, <2>1, ElementOfSeq
    <2>3. CASE n = Len(path)
      <3>1. ~ (q + n < T) BY <1>1, <1>2, <1>7, <2>3
      <3>2. shaddr' = path[n] + 1 BY <1>3, <2>3
      <3> QED BY <2>2, <3>1, <3>2
    <2>4. CASE n # Len(path)
      <3>1. n + 1 \in 1 .. T - q /\ q + (n + 1) = q + n + 1
        BY <1>1, <1>2, <1>7, <2>4
      <3>2. path[n + 1] \in Nat BY <1>2, <3>1, ElementOfSeq
      <3>3. shaddr' = path[n + 1] BY <1>3, <2>4
      <3> QED BY <1>2, <3>1, <3>2, <3>3
    <2> QED BY <2>3, <2>4
  <1> QED BY <1>4, <1>11, <1>12 DEF q

LEMMA Unfilled ==
  ASSUME ahcScb \in Ahc!Pointers, ahcScb' = [ahcScb EXCEPT !.full = FALSE]
  PROVE  /\ ahcScb' \in Ahc!Pointers /\ ~ahcScb'.full
         /\ Ahc!Loaded' = Ahc!Loaded
  <1>1. DOMAIN ahcScb = {"ptr", "cnt", "last", "next", "null", "full"}
    BY DEF Ahc!Pointers
  <1>2. /\ ahcScb'.ptr = ahcScb.ptr /\ ahcScb'.cnt = ahcScb.cnt
        /\ ahcScb'.last = ahcScb.last /\ ahcScb'.next = ahcScb.next
        /\ ahcScb'.null = ahcScb.null /\ ahcScb'.full = FALSE
    BY <1>1, Zenon
  <1>3. ahcScb' \in Ahc!Pointers BY DEF Ahc!Pointers
  <1>4. Ahc!Loaded' = Ahc!Loaded BY <1>2, Zenon DEF Ahc!Loaded
  <1> QED BY <1>2, <1>3, <1>4, Zenon

\* How many bytes the chip takes if it has room for so many, and where it
\* stands then.
Swallowed(room, m) == IF Ahc!Wire(m) <= room THEN Ahc!Wire(m) ELSE m

LEMMA ChipTakes ==
  ASSUME NEW T \in Nat, NEW q \in 0 .. T, NEW m \in 1 .. T - q
  PROVE  /\ Swallowed(T - q, m) \in 1 .. T - q /\ m <= Swallowed(T - q, m)
         /\ q + Swallowed(T - q, m) = q + m + One(m % 2 = 1 /\ q + m < T)
  <1> DEFINE n == Swallowed(T - q, m)
  <1>1. m % 2 \in {0, 1} BY Halves
  <1>2. CASE m % 2 = 0
    <2>1. Ahc!Wire(m) = m BY <1>2 DEF Ahc!Wire
    <2> QED BY <1>2, <2>1 DEF One, Swallowed
  <1>3. CASE m % 2 = 1
    <2>1. Ahc!Wire(m) = m + 1 BY <1>3 DEF Ahc!Wire
    <2>2. CASE q + m < T
      <3>1. n = m + 1 BY <2>1, <2>2 DEF Swallowed
      <3> QED BY <1>3, <2>2, <3>1 DEF One
    <2>3. CASE ~ (q + m < T)
      <3>1. n = m BY <2>1, <2>3 DEF Swallowed
      <3> QED BY <2>3, <3>1 DEF One
    <2> QED BY <2>2, <2>3
  <1> QED BY <1>1, <1>2, <1>3

LEMMA DataPhaseStep ==
  ASSUME IInv, Ahc!DataPhase
  PROVE  IInv'
  <1> DEFINE T == Size(ahcList)
             q == target.pos
             p == Ahc!Place
             t == IF greedy' THEN T ELSE target.pos
  <1>1. Ahc!TypeOK BY DEF IInv
  <1>2. /\ ahcList \in PointerLists /\ List(ahcList) /\ T \in Nat \ {0}
        /\ q \in 0 .. T /\ target.saved \in 0 .. T /\ target.most \in 0 .. T
        /\ target \in Targets(ahcList) /\ Ahc!Total = T
        /\ target.pads \in BOOLEAN /\ target.crossed \in BOOLEAN
    BY <1>1, Typed
  <1>3. /\ phase = "message" /\ ~target.pads /\ ~greedy /\ ~overrun
        /\ Synced /\ Paired /\ InMemory /\ Standing
    BY DEF Ahc!DataPhase, IInv
  <1>4. PICK m \in 1 .. Ahc!Total + 1 - q :
           /\ Ahc!Within(p, m) \/ Ahc!Beyond(p, m)
           /\ greedy' = (q + m > Ahc!Total)
           /\ target' =
                [target EXCEPT
                   !.pos  = IF greedy' THEN Ahc!Total ELSE target.pos + m,
                   !.most = IF greedy' THEN Ahc!Total ELSE target.pos + m,
                   !.pads = ~greedy' /\ m % 2 = 1,
                   !.padded = FALSE]
    BY Zenon DEF Ahc!DataPhase
  <1>5. /\ ahcList' = ahcList /\ odd' = odd /\ phase' = phase
        /\ ahcResid' = ahcResid /\ DPHASE' = TRUE
    BY DEF Ahc!DataPhase
  <1>6. m \in Nat \ {0} /\ m <= T + 1 - q BY <1>2, <1>4
  <1>7. greedy' = (q + m > T) /\ greedy' \in BOOLEAN BY <1>2, <1>4
  <1> DEFINE r == IF greedy' THEN T ELSE q + m
             no == FALSE
  <1>8. target' = [pos |-> r, saved |-> target.saved, most |-> r,
                   pads |-> ~greedy' /\ m % 2 = 1, padded |-> no,
                   crossed |-> target.crossed]
    <2>1. DOMAIN target
            = {"pos", "saved", "most", "pads", "padded", "crossed"}
      BY <1>2 DEF Targets
    <2>2. target' = [target EXCEPT !.pos = r, !.most = r,
                                   !.pads = ~greedy' /\ m % 2 = 1,
                                   !.padded = no]
      BY <1>2, <1>4, Zenon
    <2> HIDE DEF r, no
    <2> QED BY <2>1, <2>2, TargetMoved, Zenon
  <1>9. PlaceAt(ahcList, p, q) /\ p.cnt \in Nat BY <1>1, <1>3, PlaceIsRight
  <1>10. Len(Ahc!Path(p)) = T - q BY <1>2, <1>9, PathFromPlace
  <1> DEFINE x == q + m
  <1>a. T \in Nat /\ q \in Nat /\ q <= T /\ x = q + m /\ x \in Nat
    BY <1>2, <1>6
  <1>b. (greedy' => x > T) /\ (~greedy' => x <= T)
    <2>1. greedy' = (x > T) BY <1>7
    <2>2. ~ (x > T) => x <= T BY <1>a
    <2> HIDE DEF x, T
    <2> QED BY <2>1, <2>2
  <1>11. r \in 0 .. T /\ q <= r
    <2> HIDE DEF T, q
    <2>1. CASE greedy' BY <1>a, <2>1
    <2>2. CASE ~greedy' BY <1>a, <1>b, <1>6, <2>2
    <2> QED BY <2>1, <2>2
  <1>12. /\ target'.pos = r /\ target'.saved = target.saved
         /\ target'.most = r /\ ~target'.padded
         /\ target'.crossed = target.crossed
         /\ target'.pads = (~greedy' /\ m % 2 = 1)
         /\ target' \in Targets(ahcList)
    <2>0. ~no /\ no \in BOOLEAN OBVIOUS
    <2> HIDE DEF r, T, q, no
    <2>1. /\ target'.pos = r /\ target'.saved = target.saved
          /\ target'.most = r /\ target'.padded = no
          /\ target'.crossed = target.crossed
          /\ target'.pads = (~greedy' /\ m % 2 = 1)
      BY <1>8, Zenon
    <2>2. (~greedy' /\ m % 2 = 1) \in BOOLEAN OBVIOUS
    <2>3. target' \in Targets(ahcList)
      BY <1>2, <1>8, <1>11, <2>0, <2>2, Zenon DEF Targets, T
    <2> QED BY <2>0, <2>1, <2>3
  <1>13. target.saved <= r
    <2>1. target.saved <= target.pos BY DEF IInv
    <2> QED BY <1>2, <1>11, <2>1
  <1>14. Ahc!Within(p, m) => ~greedy' /\ m <= T - q
    <2>1. Ahc!Within(p, m) => m <= T - q BY <1>10 DEF Ahc!Within
    <2>2. m <= T - q => ~ (x > T) BY <1>a, <1>6
    <2> HIDE DEF x, T, q, p
    <2> QED BY <1>b, <2>1, <2>2
  <1>15. Ahc!Beyond(p, m) => greedy' /\ m > T - q
    <2>1. Ahc!Beyond(p, m) => m > T - q BY <1>10 DEF Ahc!Beyond
    <2>2. m > T - q => ~ (x <= T) BY <1>a, <1>6
    <2> HIDE DEF x, T, q, p
    <2> QED BY <1>b, <2>1, <2>2
  <1>16. Size(ahcList') = T BY <1>5
  <1>17. CASE Ahc!Within(p, m)
    <2> DEFINE n == Swallowed(T - q, m)
    <2>1. ~greedy' /\ m \in 1 .. T - q
      <3>1. ~greedy' /\ m <= T - q BY <1>14, <1>17
      <3> QED BY <1>a, <1>6, <3>1
    <2>2. /\ Ahc!Take(p, m, n) /\ ahcScb' = [ahcScb EXCEPT !.full = FALSE]
          /\ overrun' = overrun
      BY <1>10, <1>17 DEF Ahc!Within, Swallowed
    <2>3. /\ n \in 1 .. T - q /\ m <= n
          /\ q + n = x + One(m % 2 = 1 /\ x < T)
      <3>1. m \in 1 .. T - q /\ q \in 0 .. T /\ T \in Nat BY <1>a, <2>1
      <3> HIDE DEF q, T
      <3> QED BY <3>1, ChipTakes
    <2> HIDE DEF n
    <2>4. /\ written' \in Seq(Cells(ahcList))
          /\ Inside(ahcList, written')
          /\ \A k \in 0 .. q + n : k <= q + m =>
                \A b \in 1 .. k : Holds(ahcList, written', b)
          /\ residual' \in Residuals
          /\ ResidualAt(ahcList, residual', q + n)
          /\ shaddr' \in Nat
          /\ q + n < T => shaddr' = Spot(ahcList, q + n + 1)
      BY <1>1, <1>3, <1>6, <1>9, <2>2, <2>3, Taken
    <2>5. r = x /\ x \in 0 .. q + n /\ x <= q + m
      BY <1>a, <1>6, <2>1, <2>3
    <2>6. \A b \in 1 .. r : Holds(ahcList, written', b) BY <2>4, <2>5
    <2>7. InMemory'
      BY <1>5, <1>12, <2>4, <2>6 DEF InMemory
    <2>8. /\ ahcScb' \in Ahc!Pointers /\ ~ahcScb'.full
          /\ Ahc!Loaded' = Ahc!Loaded
      <3>1. ahcScb \in Ahc!Pointers BY <1>1, Typed
      <3> QED BY <2>2, <3>1, Unfilled
    <2>9. q + n \in 0 .. T BY <1>a, <2>3
    <2>10. Standing' BY <1>5, <1>16, <2>4, <2>8, <2>9 DEF Standing
    <2>11. Chip' = q + n
      <3>1. Chip' = target'.most + One(target'.pads /\ target'.most < T)
        BY <1>16 DEF Chip
      <3>2. target'.pads = (m % 2 = 1) BY <1>12, <2>1
      <3> QED BY <1>12, <2>3, <2>5, <3>1, <3>2
    <2>12. Synced'
      <3>1. PlaceAt(ahcList', Ahc!Loaded', target'.saved)
        BY <1>3, <1>5, <1>12, <2>8 DEF Synced
      <3>2. target'.saved <= target'.most BY <1>12, <1>13
      <3>3. target'.pos = IF DPHASE' THEN target'.most ELSE target'.saved
        BY <1>5, <1>12
      <3>4. ResidualAt(ahcList', residual', Chip') BY <1>5, <2>4, <2>11
      <3>5. phase' = "message" /\ DPHASE' BY <1>3, <1>5
      <3> QED BY <2>8, <3>1, <3>2, <3>3, <3>4, <3>5 DEF Synced
    <2>13. Paired'
      <3>1. odd = ((T - q) % 2 = 1)
        <4>1. q < T BY <1>a, <2>1
        <4>2. T - q + One(target.pads) = T - q BY <1>a, <1>3 DEF One
        <4> QED BY <1>3, <4>1, <4>2 DEF Paired
      <3>2. (T - r + One(target'.pads)) % 2 = (T - q) % 2
        <4>1. T - q \in Nat /\ m \in 0 .. T - q /\ T - r = T - q - m
          BY <1>a, <1>6, <2>1, <2>5
        <4>2. One(target'.pads) = One(m % 2 = 1) BY <1>12, <2>1
        <4> QED BY <4>1, <4>2, RestOfWire
      <3>3. target'.pads \/ target'.pos < T =>
              odd' = ((T - target'.pos + One(target'.pads)) % 2 = 1)
        BY <1>5, <1>12, <3>1, <3>2
      <3>4. ~target'.crossed /\ target'.saved < T =>
              odd' = ((T - target'.saved) % 2 = 1)
        BY <1>3, <1>5, <1>12 DEF Paired
      <3>5. Chip' < T => shaddr' = Spot(ahcList, Chip' + 1)
        BY <2>4, <2>11
      <3>6. DPHASE' /\ target'.saved < target'.pos /\ phase' # "free"
        <4>1. target.saved <= q BY DEF IInv
        <4>2. target.saved < r BY <1>2, <1>6, <2>5, <4>1
        <4> QED BY <1>3, <1>5, <1>12, <4>2
      <3> QED BY <1>5, <1>12, <1>16, <2>8, <3>3, <3>4, <3>5, <3>6 DEF Paired
    <2>14. Ahc!TypeOK'
      <3>1. /\ odd \in BOOLEAN /\ overrun \in BOOLEAN
            /\ phase \in {"free", "message", "done"} /\ ahcResid \in 0 .. T
        BY <1>1, Typed
      <3>2. greedy' \in BOOLEAN /\ DPHASE' \in BOOLEAN BY <1>5, <1>7
      <3> QED BY <1>1, <1>5, <1>12, <2>2, <2>4, <2>8, <3>1, <3>2, TypedNext
    <2>15. overrun' = greedy'
      <3>1. overrun \in BOOLEAN BY <1>1, Typed
      <3> QED BY <1>3, <1>7, <2>1, <2>2, <3>1
    <2>16. target'.saved <= target'.pos BY <1>12, <1>13
    <2>17. Ended'
      <3>1. phase' # "done" BY <1>3, <1>5
      <3> QED BY <3>1 DEF Ended
    <2> QED BY <2>1, <2>7, <2>10, <2>12, <2>13, <2>14, <2>15, <2>16, <2>17
         DEF IInv
  <1>18. CASE Ahc!Beyond(p, m)
    <2>1. greedy' /\ m > T - q BY <1>15, <1>18
    <2>2. overrun' = TRUE /\ ahcScb' = ahcScb BY <1>18 DEF Ahc!Beyond
    <2>3. r = T /\ ~target'.pads BY <1>12, <2>1
    <2>4. /\ written' \in Seq(Cells(ahcList)) /\ Inside(ahcList, written')
          /\ \A b \in 1 .. T : Holds(ahcList, written', b)
          /\ residual' \in Residuals /\ shaddr' \in Nat /\ Standing'
      <3>1. CASE p.null
        <4>1. q = T BY <1>9, <3>1 DEF PlaceAt
        <4>2. written' = written /\ residual' = residual /\ shaddr' = shaddr
          BY <1>18, <3>1 DEF Ahc!Beyond
        <4>3. ~ahcScb.full
          <5> SUFFICES ASSUME ahcScb.full PROVE FALSE OBVIOUS
          <5>1. ~DPHASE /\ target.most = 0 BY <1>3 DEF Synced
          <5>2. target.pos = target.saved /\ target.saved <= target.most
            BY <1>3, <5>1 DEF Synced
          <5> QED BY <1>2, <4>1, <5>1, <5>2
        <4>4. Standing' BY <1>3, <1>5, <2>2, <4>2, <4>3 DEF Standing
        <4> QED BY <1>1, <1>3, <4>1, <4>2, <4>4, Typed DEF InMemory
      <3>2. CASE ~p.null
        <4> DEFINE n == T - q
        <4>1. q # T BY <1>9, <3>2 DEF PlaceAt
        <4>2. n \in 1 .. T - q /\ q + n = T /\ T \in 0 .. q + n /\ T <= q + m
          BY <1>a, <1>6, <2>1, <4>1
        <4>3. Ahc!Take(p, m, n) BY <1>10, <1>18, <3>2 DEF Ahc!Beyond
        <4> HIDE DEF n
        <4>4. /\ written' \in Seq(Cells(ahcList))
              /\ Inside(ahcList, written')
              /\ \A k \in 0 .. q + n : k <= q + m =>
                    \A b \in 1 .. k : Holds(ahcList, written', b)
              /\ residual' \in Residuals
              /\ ResidualAt(ahcList, residual', q + n)
              /\ shaddr' \in Nat
          BY <1>1, <1>3, <1>6, <1>9, <4>2, <4>3, Taken
        <4>5. ResidualAt(ahcList, residual', T) BY <4>2, <4>4
        <4>6. residual'.null BY <4>5 DEF ResidualAt
        <4>7. T \in 0 .. T BY <1>a
        <4>8. Standing' BY <1>5, <1>16, <4>5, <4>6, <4>7 DEF Standing
        <4> QED BY <4>2, <4>4, <4>8
      <3> QED BY <3>1, <3>2
    <2>5. InMemory' BY <1>5, <1>12, <2>3, <2>4 DEF InMemory
    <2>6. Ahc!TypeOK'
      <3>1. /\ odd \in BOOLEAN /\ ahcScb \in Ahc!Pointers
            /\ phase \in {"free", "message", "done"} /\ ahcResid \in 0 .. T
        BY <1>1, Typed
      <3>2. greedy' \in BOOLEAN /\ DPHASE' \in BOOLEAN /\ overrun' \in BOOLEAN
        BY <1>5, <1>7, <2>2
      <3> QED BY <1>1, <1>5, <1>12, <2>2, <2>4, <3>1, <3>2, TypedNext
    <2>7. overrun' = greedy' BY <1>7, <2>1, <2>2
    <2>8. target'.saved <= target'.pos BY <1>12, <1>13
    <2>9. Ended'
      <3>1. phase' # "done" BY <1>3, <1>5
      <3> QED BY <3>1 DEF Ended
    <2> QED BY <2>1, <2>3, <2>4, <2>5, <2>6, <2>7, <2>8, <2>9 DEF IInv
  <1> QED BY <1>4, <1>17, <1>18

-----------------------------------------------------------------------------
(* The messages.                                                           *)

LEMMA ResidueStep ==
  ASSUME IInv, Ahc!IgnoreWideResidue
  PROVE  IInv'
  <1> DEFINE T == Size(ahcList)
             q == target.pos
  <1>1. Ahc!TypeOK BY DEF IInv
  <1>2. /\ ahcList \in PointerLists /\ T \in Nat \ {0}
        /\ q \in 0 .. T /\ target.saved \in 0 .. T /\ target.most \in 0 .. T
        /\ target \in Targets(ahcList)
        /\ residual \in Residuals
    BY <1>1, Typed
  <1>3. /\ phase = "message" /\ target.pads /\ ~greedy
        /\ Synced /\ Paired /\ InMemory /\ Standing /\ overrun = greedy
        /\ target.saved <= target.pos
    BY DEF Ahc!IgnoreWideResidue, IInv
  <1> DEFINE yes == TRUE
             no == FALSE
  <1>4. IF Ahc!ResidueStored
        THEN /\ Ahc!TakeBack /\ odd' = ~odd
             /\ target' = [target EXCEPT !.pads = no, !.padded = yes,
                                         !.crossed = yes]
        ELSE /\ residual' = residual /\ odd' = odd
             /\ target' = [target EXCEPT !.pads = no]
    BY Zenon DEF Ahc!IgnoreWideResidue
  <1>5. /\ ahcList' = ahcList /\ ahcScb' = ahcScb /\ DPHASE' = DPHASE
        /\ shaddr' = shaddr /\ phase' = phase /\ overrun' = overrun
        /\ greedy' = greedy /\ written' = written /\ ahcResid' = ahcResid
    BY DEF Ahc!IgnoreWideResidue
  <1>6. /\ target'.pos = q /\ target'.saved = target.saved
        /\ target'.most = target.most /\ ~target'.pads
        /\ Ahc!ResidueStored => target'.padded /\ target'.crossed
        /\ ~Ahc!ResidueStored => /\ target'.padded = target.padded
                                 /\ target'.crossed = target.crossed
        /\ target' \in Targets(ahcList)
    <2>0. yes /\ ~no /\ yes \in BOOLEAN /\ no \in BOOLEAN OBVIOUS
    <2> HIDE DEF yes, no
    <2>1. DOMAIN target
            = {"pos", "saved", "most", "pads", "padded", "crossed"}
      BY <1>2 DEF Targets
    <2>2. CASE Ahc!ResidueStored
      <3>1. target' = [target EXCEPT !.pads = no, !.padded = yes,
                                     !.crossed = yes]
        BY <1>4, <2>2
      <3>2. /\ target'.pos = q /\ target'.saved = target.saved
            /\ target'.most = target.most /\ target'.pads = no
            /\ target'.padded = yes /\ target'.crossed = yes
        BY <2>1, <3>1, Zenon
      <3>3. target' \in Targets(ahcList)
        BY <1>2, <2>0, <3>1, Zenon DEF Targets
      <3> QED BY <2>0, <2>2, <3>2, <3>3
    <2>3. CASE ~Ahc!ResidueStored
      <3>1. target' = [target EXCEPT !.pads = no] BY <1>4, <2>3
      <3>2. /\ target'.pos = q /\ target'.saved = target.saved
            /\ target'.most = target.most /\ target'.pads = no
            /\ target'.padded = target.padded
            /\ target'.crossed = target.crossed
        BY <2>1, <3>1, Zenon
      <3>3. target' \in Targets(ahcList)
        BY <1>2, <2>0, <3>1, Zenon DEF Targets
      <3> QED BY <2>0, <2>3, <3>2, <3>3
    <2> QED BY <2>2, <2>3
  <1>7. DPHASE /\ target.most = q /\ ~ahcScb.full BY <1>3 DEF Synced
  <1>8. ResidualAt(ahcList, residual, Chip) BY <1>3, <1>7 DEF Synced
  <1>9. odd = ((T - q + 1) % 2 = 1) BY <1>3 DEF Paired, One
  <1>10. target.saved < q BY <1>3 DEF Paired
  <1> HIDE DEF q
  <1>11. /\ residual' \in Residuals /\ ResidualAt(ahcList, residual', q)
         /\ odd' \in BOOLEAN
         /\ q < T => Ahc!ResidueStored /\ odd' = ((T - q) % 2 = 1)
         /\ ~Ahc!ResidueStored => odd' = odd
    <2>1. CASE q = T
      <3>1. Chip = q
        <4>1. ~ (target.most < T) BY <1>2, <1>7, <2>1
        <4>2. q + 0 = q BY <1>2
        <4> QED BY <1>7, <4>1, <4>2 DEF Chip, One
      <3>2. residual.null BY <1>8, <2>1, <3>1 DEF ResidualAt
      <3>3. odd
        <4>1. T - q + 1 = 1 /\ 1 % 2 = 1 BY <1>2, <2>1
        <4> QED BY <1>9, <4>1
      <3>4. ~Ahc!ResidueStored BY <3>2, <3>3 DEF Ahc!ResidueStored
      <3>5. residual' = residual /\ odd' = odd BY <1>4, <3>4
      <3>6. ~ (q < T) BY <1>2, <2>1
      <3> QED BY <1>2, <1>8, <1>9, <3>1, <3>5, <3>6
    <2>2. CASE q # T
      <3>1. q < T /\ q \in 0 .. T - 1 /\ T - q \in Nat BY <1>2, <2>2
      <3>2. Chip = q + 1 BY <1>3, <1>7, <3>1 DEF Chip, One
      <3>3. Ahc!ResidueStored
        <4> SUFFICES ASSUME residual.null, odd PROVE FALSE
          BY DEF Ahc!ResidueStored
        <4>1. q + 1 = T BY <1>8, <3>2 DEF ResidualAt
        <4>2. T - q + 1 = 2 BY <1>2, <4>1
        <4>3. 2 % 2 # 1 OBVIOUS
        <4> QED BY <1>9, <4>2, <4>3
      <3>4. Ahc!TakeBack /\ odd' = ~odd BY <1>4, <3>3
      <3>5. ResidualAt(ahcList, residual', q) /\ residual' \in Residuals
        BY <1>2, <1>8, <3>1, <3>2, <3>4, TakenBack
      <3>6. odd' = ((T - q) % 2 = 1)
        <4> DEFINE d == T - q
        <4>1. d \in Nat BY <3>1
        <4> HIDE DEF d, T
        <4>2. (d + 1) % 2 = 1 <=> d % 2 # 1 BY <4>1, Toggles
        <4>3. odd = ((d + 1) % 2 = 1) BY <1>9 DEF d, T
        <4>4. odd' = (d % 2 = 1) BY <3>4, <4>2, <4>3
        <4> QED BY <4>4 DEF d
      <3>7. odd' \in BOOLEAN BY <3>6
      <3> QED BY <3>3, <3>5, <3>6, <3>7
    <2> QED BY <2>1, <2>2
  <1>12. Size(ahcList') = T BY <1>5
  <1>13. InMemory' BY <1>3, <1>5, <1>6 DEF InMemory, q
  <1>14. Standing'
    <2>1. q \in 0 .. T BY <1>2
    <2> QED BY <1>5, <1>7, <1>11, <1>12, <2>1 DEF Standing
  <1>15. Chip' = q
    <2>1. Chip' = target'.most + One(FALSE) BY <1>6, <1>12 DEF Chip
    <2>2. q + 0 = q BY <1>2
    <2> QED BY <1>6, <1>7, <2>1, <2>2 DEF One
  <1>16. Synced'
    <2>1. PlaceAt(ahcList', Ahc!Loaded', target'.saved)
      <3>1. Ahc!Loaded' = Ahc!Loaded BY <1>5 DEF Ahc!Loaded
      <3> QED BY <1>3, <1>5, <1>6, <3>1 DEF Synced
    <2>2. target'.saved <= target'.most BY <1>3, <1>6, <1>7 DEF q
    <2>3. target'.pos = target'.most /\ DPHASE' BY <1>5, <1>6, <1>7
    <2>4. ResidualAt(ahcList', residual', Chip') BY <1>5, <1>11, <1>15
    <2>5. ~ahcScb'.full /\ ~target'.pads BY <1>5, <1>6, <1>7
    <2> QED BY <2>1, <2>2, <2>3, <2>4, <2>5 DEF Synced
  <1>17. Paired'
    <2>1. target'.pos < T =>
            odd' = ((T - target'.pos + One(target'.pads)) % 2 = 1)
      <3>1. T - q + 0 = T - q BY <1>2
      <3> QED BY <1>6, <1>11, <3>1 DEF One
    <2>2. DPHASE' /\ target'.saved < target'.pos /\ phase' # "free"
      BY <1>3, <1>5, <1>6, <1>7, <1>10
    <2>3. ~target'.crossed /\ target'.saved < T =>
            odd' = ((T - target'.saved) % 2 = 1)
      BY <1>3, <1>6, <1>11 DEF Paired
    <2>4. target'.padded => target'.crossed BY <1>3, <1>6 DEF Paired
    <2>5. ~target'.padded => ~ (Chip' < T)
      <3>1. ~target'.padded => ~ (q < T) BY <1>6, <1>11
      <3> QED BY <1>15, <3>1
    <2> QED BY <1>6, <1>12, <2>1, <2>2, <2>3, <2>4, <2>5 DEF Paired
  <1>18. Ahc!TypeOK'
    <2>1. /\ DPHASE \in BOOLEAN /\ ahcScb \in Ahc!Pointers
          /\ overrun \in BOOLEAN /\ greedy \in BOOLEAN /\ shaddr \in Nat
          /\ phase \in {"free", "message", "done"} /\ ahcResid \in 0 .. T
          /\ written \in Seq(Cells(ahcList))
      BY <1>1, Typed
    <2> QED BY <1>1, <1>5, <1>6, <1>11, <2>1, TypedNext
  <1>19. overrun' = greedy' /\ ~greedy' BY <1>3, <1>5
  <1>20. target'.saved <= target'.pos BY <1>3, <1>6 DEF q
  <1>21. Ended'
    <2>1. phase' # "done" BY <1>3, <1>5
    <2> QED BY <2>1 DEF Ended
  <1> QED BY <1>13, <1>14, <1>16, <1>17, <1>18, <1>19, <1>20, <1>21 DEF IInv

\* What is left after an action that moves only the target's places.
LEMMA TargetBack ==
  ASSUME NEW t \in Targets(ahcList), NEW n \in 0 .. Size(ahcList),
         NEW u, u = [t EXCEPT !.pos = n]
  PROVE  /\ u \in Targets(ahcList)
         /\ u.saved = t.saved /\ u.pos = n /\ u.most = t.most
         /\ u.pads = t.pads /\ u.padded = t.padded /\ u.crossed = t.crossed
  <1>1. DOMAIN t = {"pos", "saved", "most", "pads", "padded", "crossed"}
    BY DEF Targets
  <1>2. u \in Targets(ahcList) BY Zenon DEF Targets
  <1>3. /\ u.saved = t.saved /\ u.pos = n /\ u.most = t.most
        /\ u.pads = t.pads /\ u.padded = t.padded /\ u.crossed = t.crossed
    BY <1>1, Zenon
  <1> QED BY <1>2, <1>3

\* What the SCB says when the pointers are saved in a data phase.
LEMMA SavedIs ==
  ASSUME Ahc!TypeOK, ahcScb' = Ahc!SavedPointers
  PROVE  /\ ahcScb' \in Ahc!Pointers
         /\ residual.null => ahcScb'.null /\ ahcScb'.full = ahcScb.full
         /\ ~residual.null =>
               /\ ahcScb'.ptr = shaddr /\ ahcScb'.cnt = residual.cnt
               /\ ahcScb'.last = residual.last
               /\ ahcScb'.next = residual.next
               /\ ~ahcScb'.null /\ ~ahcScb'.full
  <1>1. ahcScb \in Ahc!Pointers /\ residual \in Residuals /\ shaddr \in Nat
    BY Typed
  <1>2. CASE residual.null
    <2>1. ahcScb' = [ahcScb EXCEPT !.null = TRUE]
      BY <1>2 DEF Ahc!SavedPointers
    <2>2. DOMAIN ahcScb = {"ptr", "cnt", "last", "next", "null", "full"}
      BY <1>1 DEF Ahc!Pointers
    <2>3. ahcScb'.null = TRUE /\ ahcScb'.full = ahcScb.full
      BY <2>1, <2>2, Zenon
    <2>4. ahcScb' \in Ahc!Pointers BY <1>1, <2>1, Zenon DEF Ahc!Pointers
    <2> QED BY <1>2, <2>3, <2>4, Zenon
  <1>3. CASE ~residual.null
    <2>1. ahcScb' = [ptr |-> shaddr, cnt |-> residual.cnt,
                     last |-> residual.last, next |-> residual.next,
                     null |-> FALSE, full |-> FALSE]
      BY <1>3 DEF Ahc!SavedPointers
    <2> QED BY <1>1, <1>3, <2>1 DEF Ahc!Pointers, Residuals
  <1> QED BY <1>2, <1>3

LEMMA SaveStep ==
  ASSUME IInv, AfterResidue = {}, Ahc!SaveDataPointers
  PROVE  IInv'
  <1> DEFINE T == Size(ahcList)
             q == target.pos
  <1>1. Ahc!TypeOK BY DEF IInv
  <1>2. /\ ahcList \in PointerLists /\ T \in Nat \ {0}
        /\ q \in 0 .. T /\ target.saved \in 0 .. T /\ target.most \in 0 .. T
        /\ target \in Targets(ahcList)
    BY <1>1, Typed
  <1>3. /\ phase = "message" /\ ~target.pads /\ ~target.padded
        /\ InMemory /\ Standing /\ overrun = greedy
        /\ target.saved <= target.pos
        /\ ~greedy => Synced /\ Paired
    BY DEF Ahc!SaveDataPointers, Ahc!MaySave, IInv
  <1>4. /\ ahcScb' = IF DPHASE THEN Ahc!SavedPointers ELSE ahcScb
        /\ target' = [target EXCEPT !.saved = q, !.crossed = FALSE]
        /\ ahcList' = ahcList /\ residual' = residual /\ odd' = odd
        /\ DPHASE' = DPHASE /\ shaddr' = shaddr /\ phase' = phase
        /\ overrun' = overrun /\ greedy' = greedy /\ written' = written
        /\ ahcResid' = ahcResid
    BY DEF Ahc!SaveDataPointers
  <1>5. /\ target'.pos = q /\ target'.saved = q
        /\ target'.most = target.most /\ target'.pads = target.pads
        /\ target'.padded = target.padded /\ ~target'.crossed
        /\ target' \in Targets(ahcList)
    <2> DEFINE no == FALSE
    <2>1. ~no /\ no \in BOOLEAN OBVIOUS
    <2>2. target' = [target EXCEPT !.saved = q, !.crossed = no]
      BY <1>4, Zenon
    <2> HIDE DEF no, q, T
    <2>3. DOMAIN target
            = {"pos", "saved", "most", "pads", "padded", "crossed"}
      BY <1>2 DEF Targets
    <2>4. /\ target'.saved = q /\ target'.pos = target.pos
          /\ target'.most = target.most /\ target'.pads = target.pads
          /\ target'.padded = target.padded /\ target'.crossed = no
      BY <2>2, <2>3, Zenon
    <2>5. target' \in Targets(ahcList)
      BY <1>2, <2>1, <2>2, Zenon DEF Targets, T
    <2> QED BY <2>1, <2>4, <2>5 DEF q
  <1> HIDE DEF q
  <1>6. Size(ahcList') = T BY <1>4
  <1>7. /\ ahcScb' \in Ahc!Pointers
        /\ DPHASE /\ residual.null =>
              ahcScb'.null /\ ahcScb'.full = ahcScb.full
        /\ DPHASE /\ ~residual.null =>
              /\ ahcScb'.ptr = shaddr /\ ahcScb'.cnt = residual.cnt
              /\ ahcScb'.last = residual.last
              /\ ahcScb'.next = residual.next
              /\ ~ahcScb'.null /\ ~ahcScb'.full
        /\ ~DPHASE => ahcScb' = ahcScb
    <2>1. CASE DPHASE BY <1>1, <1>4, <2>1, SavedIs
    <2>2. CASE ~DPHASE
      <3>1. ahcScb' = ahcScb BY <1>4, <2>2
      <3>2. ahcScb \in Ahc!Pointers BY <1>1, Typed
      <3> QED BY <2>2, <3>1, <3>2
    <2> QED BY <2>1, <2>2
  <1>8. InMemory' BY <1>3, <1>4, <1>5 DEF InMemory, q
  <1>9. Standing'
    <2>1. ahcScb'.full \/ \E n \in 0 .. T : ResidualAt(ahcList, residual, n)
      <3>1. CASE ahcScb.full
        <4>1. DPHASE => residual.null BY <1>3, <3>1 DEF Standing
        <4>2. ahcScb'.full BY <1>7, <3>1, <4>1
        <4> QED BY <4>2
      <3>2. CASE ~ahcScb.full BY <1>3, <3>2 DEF Standing
      <3> QED BY <3>1, <3>2
    <2>2. ahcScb'.full /\ DPHASE => residual.null BY <1>7
    <2> QED BY <1>4, <1>6, <2>1, <2>2 DEF Standing
  <1>10. Chip' = Chip BY <1>4, <1>5 DEF Chip
  <1>11. Chip = target.most BY <1>2, <1>3 DEF Chip, One
  <1>12. ASSUME ~greedy PROVE Synced' /\ Paired'
    <2>1. Synced /\ Paired BY <1>3, <1>12
    <2>2. q <= target.most
      <3>1. CASE DPHASE BY <1>2, <2>1, <3>1 DEF Synced, q
      <3>2. CASE ~DPHASE BY <1>2, <2>1, <3>2 DEF Synced, q
      <3> QED BY <3>1, <3>2
    <2>3. CASE DPHASE
      <3>1. ~ahcScb.full /\ target.most = q BY <2>1, <2>3 DEF Synced, q
      <3>2. ResidualAt(ahcList, residual, q)
        BY <1>11, <2>1, <3>1 DEF Synced
      <3>3. ~ahcScb'.full BY <1>7, <2>3, <3>1
      <3>4. PlaceAt(ahcList, Ahc!Loaded', q)
        <4>1. CASE residual.null
          <5>1. ahcScb'.null BY <1>7, <2>3, <4>1
          <5>2. q = T BY <3>2, <4>1 DEF ResidualAt
          <5>3. Ahc!Loaded'.null = ahcScb'.null BY DEF Ahc!Loaded
          <5> QED BY <5>1, <5>2, <5>3 DEF PlaceAt
        <4>2. CASE ~residual.null
          <5>1. q # T BY <3>2, <4>2 DEF ResidualAt
          <5>2. q < T BY <1>2, <5>1
          <5>3. shaddr = Spot(ahcList, q + 1)
            BY <1>3, <1>11, <2>1, <3>1, <5>2 DEF Paired
          <5>4. /\ Ahc!Loaded'.ptr = shaddr
                /\ Ahc!Loaded'.cnt = residual.cnt
                /\ Ahc!Loaded'.last = residual.last
                /\ Ahc!Loaded'.next = residual.next
                /\ ~Ahc!Loaded'.null
            BY <1>7, <2>3, <4>2, Zenon DEF Ahc!Loaded
          <5> HIDE DEF T
          <5> QED BY <3>2, <5>1, <5>3, <5>4 DEF ResidualAt, PlaceAt, T
        <4> QED BY <4>1, <4>2
      <3>5. Synced'
        <4>1. PlaceAt(ahcList', Ahc!Loaded', target'.saved)
          BY <1>4, <1>5, <3>4
        <4>2. target'.saved <= target'.most BY <1>5, <2>2
        <4>3. target'.pos = IF DPHASE' THEN target'.most ELSE target'.saved
          BY <1>4, <1>5, <3>1
        <4>4. ResidualAt(ahcList', residual', Chip')
          BY <1>4, <1>10, <1>11, <3>1, <3>2
        <4>5. ~target'.pads BY <1>3, <1>5
        <4> QED BY <3>3, <4>1, <4>2, <4>3, <4>4, <4>5 DEF Synced
      <3>6. Paired'
        <4>1. ~target'.pads /\ ~target'.padded BY <1>3, <1>5
        <4>2. target'.pos < T =>
                odd' = ((T - target'.pos + One(target'.pads)) % 2 = 1)
          BY <1>4, <1>5, <2>1 DEF Paired, q
        <4>3. target'.saved < T => odd' = ((T - target'.saved) % 2 = 1)
          <5>1. T - q + 0 = T - q BY <1>2
          <5> QED BY <1>5, <4>1, <4>2, <5>1 DEF One
        <4>4. Chip' < T => shaddr' = Spot(ahcList, Chip' + 1)
          BY <1>3, <1>4, <1>10, <2>1, <3>1 DEF Paired
        <4> QED BY <1>4, <1>5, <1>6, <4>1, <4>2, <4>3, <4>4 DEF Paired
      <3> QED BY <3>5, <3>6
    <2>4. CASE ~DPHASE
      <3>1. ahcScb' = ahcScb BY <1>7, <2>4
      <3>2. target.saved = q BY <2>1, <2>4 DEF Synced, q
      <3>3. Synced'
        <4>1. Ahc!Loaded' = Ahc!Loaded BY <3>1 DEF Ahc!Loaded
        <4> QED BY <1>4, <1>5, <1>10, <2>1, <3>1, <3>2, <4>1 DEF Synced, q
      <3>4. ~target.crossed BY <2>1, <2>4 DEF Paired
      <3>5. Paired'
        BY <1>4, <1>5, <1>10, <2>1, <3>1, <3>2, <3>4 DEF Paired, q
      <3> QED BY <3>3, <3>5
    <2> QED BY <2>3, <2>4
  <1>13. Ahc!TypeOK'
    <2>1. /\ DPHASE \in BOOLEAN /\ residual \in Residuals /\ odd \in BOOLEAN
          /\ overrun \in BOOLEAN /\ greedy \in BOOLEAN /\ shaddr \in Nat
          /\ phase \in {"free", "message", "done"} /\ ahcResid \in 0 .. T
          /\ written \in Seq(Cells(ahcList))
      BY <1>1, Typed
    <2> QED BY <1>1, <1>4, <1>5, <1>7, <2>1, TypedNext
  <1>14. target'.saved <= target'.pos BY <1>2, <1>5
  <1>15. Ended'
    <2>1. phase' # "done" BY <1>3, <1>4
    <2> QED BY <2>1 DEF Ended
  <1>16. /\ overrun' = greedy' /\ ~target'.pads
         /\ ~greedy' => Synced' /\ Paired'
    BY <1>3, <1>4, <1>5, <1>12
  <1> QED BY <1>8, <1>9, <1>13, <1>14, <1>15, <1>16 DEF IInv

\* The target goes back to the saved place.
LEMMA BackToSaved ==
  ASSUME IInv, ~target.pads, ~greedy => ~target.crossed,
         target' = [target EXCEPT !.pos = target.saved], DPHASE' = FALSE,
         phase' = "message",
         <<ahcList, ahcScb, residual, odd, shaddr, overrun, greedy, written,
           ahcResid>>'
           = <<ahcList, ahcScb, residual, odd, shaddr, overrun, greedy,
               written, ahcResid>>
  PROVE  IInv'
  <1> DEFINE T == Size(ahcList)
             q == target.saved
  <1>1. Ahc!TypeOK BY DEF IInv
  <1>2. /\ ahcList \in PointerLists /\ T \in Nat \ {0}
        /\ target.pos \in 0 .. T /\ q \in 0 .. T /\ target.most \in 0 .. T
        /\ target \in Targets(ahcList)
    BY <1>1, Typed
  <1>3. /\ InMemory /\ Standing /\ overrun = greedy
        /\ q <= target.pos
        /\ ~greedy => Synced /\ Paired
    BY DEF IInv
  <1>4. /\ ahcList' = ahcList /\ ahcScb' = ahcScb /\ residual' = residual
        /\ odd' = odd /\ shaddr' = shaddr /\ overrun' = overrun
        /\ greedy' = greedy /\ written' = written /\ ahcResid' = ahcResid
    OBVIOUS
  <1>5. /\ target'.pos = q /\ target'.saved = q
        /\ target'.most = target.most /\ target'.pads = target.pads
        /\ target'.padded = target.padded
        /\ target'.crossed = target.crossed /\ target' \in Targets(ahcList)
    BY <1>2, TargetBack
  <1> HIDE DEF q
  <1>6. Size(ahcList') = T BY <1>4
  <1>7. InMemory'
    <2>1. \A n \in 1 .. q : n \in 1 .. target.pos BY <1>2, <1>3
    <2> QED BY <1>3, <1>4, <1>5, <2>1 DEF InMemory
  <1>8. Standing' BY <1>3, <1>4, <1>6 DEF Standing
  <1>9. Chip' = Chip BY <1>4, <1>5 DEF Chip
  <1>10. ASSUME ~greedy PROVE Synced' /\ Paired'
    <2>1. Synced /\ Paired BY <1>3, <1>10
    <2>2. Synced'
      <3>1. Ahc!Loaded' = Ahc!Loaded BY <1>4 DEF Ahc!Loaded
      <3>2. PlaceAt(ahcList', Ahc!Loaded', target'.saved)
        BY <1>4, <1>5, <2>1, <3>1 DEF Synced, q
      <3>3. target'.saved <= target'.most BY <1>5, <2>1 DEF Synced, q
      <3>4. target'.pos = IF DPHASE' THEN target'.most ELSE target'.saved
        BY <1>5
      <3>5. ahcScb'.full => ~DPHASE' /\ target'.most = 0
        BY <1>4, <1>5, <2>1 DEF Synced
      <3>6. ~ahcScb'.full => ResidualAt(ahcList', residual', Chip')
        BY <1>4, <1>9, <2>1 DEF Synced
      <3>7. ~target'.pads BY <1>5
      <3> QED BY <3>2, <3>3, <3>4, <3>5, <3>6, <3>7 DEF Synced
    <2>3. Paired'
      <3>1. ~target'.crossed /\ ~target'.padded /\ ~target'.pads
        BY <1>5, <1>10, <2>1 DEF Paired
      <3>2. q < T => odd' = ((T - q) % 2 = 1)
        BY <1>4, <1>10, <2>1 DEF Paired, q
      <3>3. T - q + 0 = T - q BY <1>2
      <3>4. target'.pos < T =>
              odd' = ((T - target'.pos + One(target'.pads)) % 2 = 1)
        BY <1>5, <3>1, <3>2, <3>3 DEF One
      <3>5. target'.saved < T => odd' = ((T - target'.saved) % 2 = 1)
        BY <1>5, <3>2
      <3>6. ~ahcScb'.full /\ Chip' < T => shaddr' = Spot(ahcList, Chip' + 1)
        BY <1>4, <1>5, <1>9, <2>1, <3>1 DEF Paired
      <3> QED BY <1>4, <1>6, <3>1, <3>4, <3>5, <3>6 DEF Paired
    <2> QED BY <2>2, <2>3
  <1>11. Ahc!TypeOK'
    <2>1. /\ ahcScb \in Ahc!Pointers /\ residual \in Residuals
          /\ odd \in BOOLEAN /\ overrun \in BOOLEAN /\ greedy \in BOOLEAN
          /\ shaddr \in Nat /\ ahcResid \in 0 .. T
          /\ written \in Seq(Cells(ahcList))
      BY <1>1, Typed
    <2>2. DPHASE' \in BOOLEAN /\ phase' \in {"free", "message", "done"}
      OBVIOUS
    <2> QED BY <1>1, <1>4, <1>5, <2>1, <2>2, TypedNext
  <1>12. target'.saved <= target'.pos BY <1>2, <1>5
  <1>13. Ended' BY DEF Ended
  <1>14. /\ overrun' = greedy' /\ ~target'.pads
         /\ ~greedy' => Synced' /\ Paired'
    BY <1>3, <1>4, <1>5, <1>10
  <1> QED BY <1>7, <1>8, <1>11, <1>12, <1>13, <1>14 DEF IInv

LEMMA RestoreStep ==
  ASSUME IInv, AfterResidue = {}, Ahc!RestorePointers
  PROVE  IInv'
  <1>1. /\ phase = "message" /\ ~target.pads /\ ~target.crossed
        /\ target' = [target EXCEPT !.pos = target.saved] /\ DPHASE' = FALSE
        /\ ahcList' = ahcList /\ ahcScb' = ahcScb /\ residual' = residual
        /\ odd' = odd /\ shaddr' = shaddr /\ phase' = phase
        /\ overrun' = overrun /\ greedy' = greedy /\ written' = written
        /\ ahcResid' = ahcResid
    BY DEF Ahc!RestorePointers, Ahc!MayRestore
  <1> QED BY <1>1, BackToSaved

LEMMA DisconnectStep ==
  ASSUME IInv, AfterResidue = {}, Ahc!Disconnect
  PROVE  IInv'
  <1>1. Ahc!TypeOK /\ target.pos \in 0 .. Size(ahcList)
        /\ target.saved \in 0 .. Size(ahcList) /\ Size(ahcList) \in Nat
    <2>1. Ahc!TypeOK BY DEF IInv
    <2> QED BY <2>1, Typed
  <1>2. /\ phase = "message" /\ ~target.pads /\ phase' = "free"
        /\ ~target.crossed
        /\ ahcList' = ahcList /\ ahcScb' = ahcScb /\ residual' = residual
        /\ odd' = odd /\ DPHASE' = DPHASE /\ shaddr' = shaddr
        /\ overrun' = overrun /\ greedy' = greedy /\ written' = written
        /\ target' = target /\ ahcResid' = ahcResid
    BY DEF Ahc!Disconnect, Ahc!MayRestore
  <1>3. Ahc!TypeOK'
    <2>1. phase' \in {"free", "message", "done"} BY <1>2
    <2> QED BY <1>1, <1>2, <2>1, Typed, TypedNext
  <1>4. InMemory' /\ Standing' BY <1>2 DEF IInv, InMemory, Standing
  <1>5. ASSUME ~greedy PROVE Synced' /\ Paired'
    <2>1. Synced /\ Paired BY <1>5 DEF IInv
    <2>2. ~target.crossed /\ ~target.pads BY <1>2
    <2>3. Ahc!Loaded' = Ahc!Loaded /\ Chip' = Chip
      BY <1>2 DEF Ahc!Loaded, Chip
    <2>4. Synced' BY <1>2, <2>1, <2>3 DEF Synced
    <2>5. Paired' BY <1>2, <2>1, <2>2, <2>3 DEF Paired
    <2> QED BY <2>4, <2>5
  <1>6. Ended' BY <1>2 DEF Ended
  <1>7. /\ overrun' = greedy' /\ ~target'.pads
        /\ target'.saved <= target'.pos
    BY <1>2 DEF IInv
  <1>8. ~greedy' => Synced' /\ Paired' BY <1>2, <1>5
  <1> QED BY <1>3, <1>4, <1>6, <1>7, <1>8 DEF IInv

LEMMA ReconnectStep ==
  ASSUME IInv, Ahc!Reconnect
  PROVE  IInv'
  <1>1. /\ phase = "free" /\ phase' = "message"
        /\ target' = [target EXCEPT !.pos = target.saved] /\ DPHASE' = FALSE
        /\ ahcList' = ahcList /\ ahcScb' = ahcScb /\ residual' = residual
        /\ odd' = odd /\ shaddr' = shaddr
        /\ overrun' = overrun /\ greedy' = greedy /\ written' = written
        /\ ahcResid' = ahcResid
    BY DEF Ahc!Reconnect
  <1>2. ~greedy => ~target.crossed BY <1>1 DEF IInv, Paired
  <1>3. ~target.pads
    <2>1. CASE greedy BY <2>1 DEF IInv
    <2>2. CASE ~greedy BY <1>1, <2>2 DEF IInv, Synced
    <2> QED BY <2>1, <2>2
  <1> QED BY <1>1, <1>2, <1>3, BackToSaved

-----------------------------------------------------------------------------
(* The end of the command.                                                 *)

LEMMA CompleteStep ==
  ASSUME IInv, Ahc!Complete
  PROVE  IInv'
  <1> DEFINE T == Size(ahcList)
  <1>1. Ahc!TypeOK BY DEF IInv
  <1>2. /\ ahcList \in PointerLists /\ T \in Nat \ {0} /\ Ahc!Total = T
        /\ target.saved \in 0 .. T /\ target.most \in 0 .. T
    BY <1>1, Typed
  <1>3. /\ phase = "message" /\ ~target.pads /\ phase' = "done"
        /\ ahcResid' = IF Ahc!ResidValid THEN Ahc!CalcResidual ELSE 0
        /\ ahcList' = ahcList /\ ahcScb' = ahcScb /\ residual' = residual
        /\ odd' = odd /\ DPHASE' = DPHASE /\ shaddr' = shaddr
        /\ overrun' = overrun /\ greedy' = greedy /\ written' = written
        /\ target' = target
    BY DEF Ahc!Complete
  <1>4. Standing /\ InMemory BY DEF IInv
  <1>5. ahcResid' \in 0 .. T
    <2>1. CASE ~Ahc!ResidValid BY <1>2, <1>3, <2>1
    <2>2. CASE Ahc!ResidValid
      <3>1. CASE ahcScb.full
        BY <1>2, <1>3, <2>2, <3>1 DEF Ahc!CalcResidual
      <3>2. CASE ~ahcScb.full
        <4>1. ~residual.null BY <2>2, <3>2 DEF Ahc!ResidValid
        <4>2. PICK n \in 0 .. T : ResidualAt(ahcList, residual, n)
          BY <1>4, <3>2 DEF Standing
        <4>3. residual.cnt + Ahc!SegmentsFrom(residual.next) = T - n
          BY <1>2, <4>1, <4>2, Remains
        <4>4. ahcResid' = T - n
          BY <1>3, <2>2, <3>2, <4>3 DEF Ahc!CalcResidual
        <4> QED BY <1>2, <4>2, <4>4
      <3> QED BY <3>1, <3>2
    <2> QED BY <2>1, <2>2
  <1>6. ASSUME ~overrun PROVE ahcResid' = T - target.most
    <2>1. Synced BY <1>6 DEF IInv
    <2>2. Chip = target.most BY <1>2, <1>3 DEF Chip, One
    <2>3. CASE ahcScb.null
      <3>1. target.saved = T /\ target.saved <= target.most
        BY <2>1, <2>3 DEF Synced, PlaceAt, Ahc!Loaded
      <3>2. T - target.most = 0 BY <1>2, <3>1
      <3>3. ~Ahc!ResidValid BY <2>3 DEF Ahc!ResidValid
      <3> QED BY <1>3, <3>2, <3>3
    <2>4. CASE ~ahcScb.null /\ ahcScb.full
      <3>1. target.most = 0 BY <2>1, <2>4 DEF Synced
      <3>2. Ahc!ResidValid /\ Ahc!CalcResidual = T
        BY <1>2, <2>4 DEF Ahc!ResidValid, Ahc!CalcResidual
      <3>3. T - 0 = T BY <1>2
      <3> QED BY <1>3, <3>1, <3>2, <3>3
    <2>5. CASE ~ahcScb.null /\ ~ahcScb.full
      <3>1. ResidualAt(ahcList, residual, target.most)
        BY <2>1, <2>2, <2>5 DEF Synced
      <3>2. CASE residual.null
        <4>1. target.most = T BY <3>1, <3>2 DEF ResidualAt
        <4>2. T - target.most = 0 BY <1>2, <4>1
        <4>3. ~Ahc!ResidValid BY <2>5, <3>2 DEF Ahc!ResidValid
        <4> QED BY <1>3, <4>2, <4>3
      <3>3. CASE ~residual.null
        <4>1. residual.cnt + Ahc!SegmentsFrom(residual.next)
                = T - target.most
          BY <1>2, <3>1, <3>3, Remains
        <4>2. Ahc!ResidValid BY <2>5, <3>3 DEF Ahc!ResidValid
        <4>3. Ahc!CalcResidual
                = residual.cnt + Ahc!SegmentsFrom(residual.next)
          BY <2>5 DEF Ahc!CalcResidual
        <4> HIDE DEF T
        <4> QED BY <1>3, <4>1, <4>2, <4>3
      <3> QED BY <3>2, <3>3
    <2> QED BY <2>3, <2>4, <2>5
  <1>7. Ended'
    <2>1. Size(ahcList') - target'.most = T - target.most BY <1>3
    <2>2. ~overrun' => ~overrun BY <1>3
    <2> QED BY <1>6, <2>1, <2>2 DEF Ended
  <1>8. Ahc!TypeOK'
    <2>1. phase' \in {"free", "message", "done"} BY <1>3
    <2> QED BY <1>1, <1>3, <1>5, <2>1, Typed, TypedNext
  <1>9. InMemory' /\ Standing' BY <1>3, <1>4 DEF InMemory, Standing
  <1>10. ASSUME ~greedy PROVE Synced' /\ Paired'
    <2>1. Synced /\ Paired BY <1>10 DEF IInv
    <2>2. Ahc!Loaded' = Ahc!Loaded /\ Chip' = Chip
      BY <1>3 DEF Ahc!Loaded, Chip
    <2>3. Synced' BY <1>3, <2>1, <2>2 DEF Synced
    <2>4. Paired' BY <1>3, <2>1, <2>2 DEF Paired
    <2> QED BY <2>3, <2>4
  <1>11. /\ overrun' = greedy' /\ ~target'.pads
         /\ target'.saved <= target'.pos
    BY <1>3 DEF IInv
  <1>12. ~greedy' => Synced' /\ Paired' BY <1>3, <1>10
  <1> QED BY <1>7, <1>8, <1>9, <1>11, <1>12 DEF IInv

-----------------------------------------------------------------------------
(* The specification.                                                      *)

LEMMA AhcInit == Ahc!Init => IInv
  <1> SUFFICES ASSUME Ahc!Init PROVE IInv OBVIOUS
  <1> DEFINE T == Size(ahcList)
  <1>1. ahcList \in PointerLists /\ List(ahcList) /\ T \in Nat \ {0}
    BY Lists, Ends DEF Ahc!Init
  <1>2. Ahc!Total = T BY <1>1, ChipList
  <1>3. /\ ahcScb = Ahc!SetupDataScb
        /\ residual = [cnt |-> 0, last |-> FALSE, next |-> 0, null |-> FALSE]
        /\ odd = (T % 2 = 1) /\ DPHASE = FALSE /\ shaddr = 0
        /\ phase = "message" /\ overrun = FALSE /\ greedy = FALSE
        /\ written = <<>> /\ ahcResid = 0
        /\ target = [pos |-> 0, saved |-> 0, most |-> 0,
                     pads |-> FALSE, padded |-> FALSE, crossed |-> FALSE]
    BY <1>2 DEF Ahc!Init
  <1>4. /\ ahcScb.ptr = Ahc!SetupDataScb.ptr
        /\ ahcScb.cnt = Ahc!SetupDataScb.cnt
        /\ ahcScb.last = Ahc!SetupDataScb.last
        /\ ahcScb.next = Ahc!SetupDataScb.next
        /\ ahcScb.null = FALSE /\ ahcScb.full = TRUE
    BY <1>3 DEF Ahc!SetupDataScb
  <1>5. /\ target.pos = 0 /\ target.saved = 0 /\ target.most = 0
        /\ target.pads = FALSE /\ target.padded = FALSE
        /\ target.crossed = FALSE
    BY <1>3
  <1>6. ahcScb \in Ahc!Pointers
    <2>1. 1 \in 1 .. Len(ahcList)
      <3>1. Len(ahcList) \in Nat \ {0} BY <1>1, Ends
      <3> QED BY <3>1
    <2>2. Start(ahcList, 1) = 0 /\ ahcList[1] \in Nat
      BY <1>1, <2>1, Ends DEF Start
    <2>3. Ahc!Addr(1, 0) \in Nat /\ Ahc!Length(1) \in Nat
      <3>1. /\ Ahc!Addr(1, 0) = Start(ahcList, 1) + 1 + 0
            /\ Ahc!Length(1) = ahcList[1] - Start(ahcList, 1)
        BY <1>1, <2>1, ChipList
      <3> QED BY <2>2, <3>1
    <2> QED BY <1>3, <2>3 DEF Ahc!SetupDataScb, Ahc!Pointers
  <1>7. Ahc!TypeOK
    <2>1. written \in Seq(Nat \X (0 .. T)) BY <1>3, EmptySeq
    <2>2. 0 \in 0 .. T BY <1>1
    <2>3. target \in [pos : 0 .. T, saved : 0 .. T, most : 0 .. T,
                      pads : BOOLEAN, padded : BOOLEAN, crossed : BOOLEAN]
      BY <1>3, <2>2
    <2>4. {odd, DPHASE, overrun, greedy} \subseteq BOOLEAN BY <1>3
    <2>5. residual \in [cnt : Nat, last : BOOLEAN, next : Nat,
                        null : BOOLEAN]
      BY <1>3
    <2>6. shaddr \in Nat /\ phase \in {"free", "message", "done"}
          /\ ahcResid \in 0 .. T
      BY <1>3, <2>2
    <2> QED BY <1>1, <1>2, <1>6, <2>1, <2>3, <2>4, <2>5, <2>6 DEF Ahc!TypeOK
  <1>8. InMemory
    <2>1. \A n \in 1 .. 0 : FALSE OBVIOUS
    <2>2. DOMAIN written = {}
      <3>1. written \in Seq(Nat) /\ Len(written) = 0 BY <1>3, EmptySeq
      <3>2. DOMAIN written = 1 .. 0 BY <3>1, LenProperties
      <3> QED BY <2>1, <3>2
    <2> QED BY <1>5, <2>1, <2>2 DEF InMemory, Inside
  <1>9. Standing BY <1>3, <1>4 DEF Standing
  <1>10. Synced
    <2>1. PlaceAt(ahcList, Ahc!Loaded, 0)
      <3>1. /\ Ahc!Loaded.ptr = Ahc!SetupDataScb.ptr
            /\ Ahc!Loaded.cnt = Ahc!SetupDataScb.cnt
            /\ Ahc!Loaded.last = Ahc!SetupDataScb.last
            /\ Ahc!Loaded.next = Ahc!SetupDataScb.next
            /\ ~Ahc!Loaded.null
        BY <1>4 DEF Ahc!Loaded
      <3> QED BY <1>1, <3>1, FirstPlace
    <2> QED BY <1>3, <1>4, <1>5, <2>1 DEF Synced
  <1>11. Paired
    <2>1. T - 0 + 0 = T /\ T - 0 = T BY <1>1
    <2> QED BY <1>3, <1>4, <1>5, <2>1 DEF Paired, One
  <1>12. Ended BY <1>3 DEF Ended
  <1>13. target.saved <= target.pos BY <1>5
  <1> QED BY <1>3, <1>5, <1>7, <1>8, <1>9, <1>10, <1>11, <1>12, <1>13 DEF IInv

LEMMA AhcStands == IInv /\ UNCHANGED ahcVars => IInv'
  <1> SUFFICES ASSUME IInv, UNCHANGED ahcVars PROVE IInv' OBVIOUS
  <1>1. /\ ahcList' = ahcList /\ ahcScb' = ahcScb /\ residual' = residual
        /\ odd' = odd /\ DPHASE' = DPHASE /\ shaddr' = shaddr
        /\ phase' = phase /\ overrun' = overrun /\ greedy' = greedy
        /\ written' = written /\ target' = target /\ phases' = phases
        /\ ahcResid' = ahcResid
    BY DEF ahcVars
  <1>2. Ahc!TypeOK' BY <1>1, Typed, TypedNext DEF IInv
  <1>3. Ahc!Loaded' = Ahc!Loaded /\ Chip' = Chip
    BY <1>1 DEF Ahc!Loaded, Chip
  <1>4. Synced' = Synced BY <1>1, <1>3 DEF Synced
  <1>5. Paired' = Paired BY <1>1, <1>3 DEF Paired
  <1>6. InMemory' = InMemory /\ Standing' = Standing /\ Ended' = Ended
    BY <1>1 DEF InMemory, Standing, Ended
  <1> QED BY <1>1, <1>2, <1>4, <1>5, <1>6 DEF IInv

LEMMA AhcStep == AfterResidue = {} /\ IInv /\ FamilyNext => IInv'
  <1> SUFFICES ASSUME AfterResidue = {}, IInv, FamilyNext PROVE IInv'
    OBVIOUS
  <1>1. CASE Ahc!Next
    BY <1>1, DataPhaseStep, ResidueStep, SaveStep, RestoreStep,
       DisconnectStep, ReconnectStep, CompleteStep DEF Ahc!Next
  <1>2. CASE UNCHANGED ahcVars BY <1>2, AhcStands
  <1> QED BY <1>1, <1>2 DEF FamilyNext

LEMMA AhcInvariant == AfterResidue = {} => (FamilySpec => []IInv)
  <1>1. FamilyInit => IInv BY AhcInit DEF FamilyInit
  <1>2. AfterResidue = {} /\ IInv /\ [FamilyNext]_<<family, vars, ahcVars>>
        => IInv'
    <2> SUFFICES ASSUME AfterResidue = {}, IInv,
                        [FamilyNext]_<<family, vars, ahcVars>>
                 PROVE  IInv'
      OBVIOUS
    <2>1. CASE FamilyNext BY <2>1, AhcStep
    <2>2. CASE UNCHANGED <<family, vars, ahcVars>> BY <2>2, AhcStands
    <2> QED BY <2>1, <2>2
  <1> SUFFICES ASSUME AfterResidue = {} PROVE FamilySpec => []IInv
    OBVIOUS
  <1>3. IInv /\ [FamilyNext]_<<family, vars, ahcVars>> => IInv' BY <1>2
  <1> QED BY <1>1, <1>3, PTL DEF FamilySpec

\* A byte whose place was last written with it is what the place holds.
LEMMA ContentOf ==
  ASSUME Ahc!TypeOK, NEW n \in 1 .. Size(ahcList), Holds(ahcList, written, n)
  PROVE  Ahc!Content(Ahc!Home(n)) = n
  <1>1. Ahc!Home(n) = Spot(ahcList, n)
    <2>1. ahcList \in PointerLists BY Typed
    <2> QED BY <2>1, ChipList
  <1> DEFINE a == Spot(ahcList, n)
             W == {i \in DOMAIN written : written[i][1] = a}
  <1>2. PICK i \in DOMAIN written :
           /\ written[i] = <<a, n>>
           /\ \A j \in DOMAIN written : written[j][1] = a => j <= i
    BY DEF Holds
  <1>3. W \subseteq Nat
    <2>1. written \in Seq(Cells(ahcList)) BY Typed
    <2>2. DOMAIN written = 1 .. Len(written) /\ Len(written) \in Nat
      BY <2>1, LenProperties
    <2> QED BY <2>2
  <1>4. i \in W /\ \A j \in W : j <= i
    <2>1. written[i][1] = a BY <1>2
    <2> QED BY <1>2, <2>1
  <1> DEFINE last == CHOOSE k \in W : \A j \in W : j <= k
  <1>5. last = i
    <2> HIDE DEF W
    <2>1. ASSUME NEW k \in W, \A j \in W : j <= k PROVE k = i
      <3>1. i <= k /\ k <= i BY <1>4, <2>1
      <3>2. i \in Nat /\ k \in Nat BY <1>3, <1>4
      <3> QED BY <3>1, <3>2
    <2> QED BY <1>4, <2>1
  <1>6. Ahc!Content(a) = written[last][2] BY DEF Ahc!Content
  <1> HIDE DEF a, last
  <1> QED BY <1>1, <1>2, <1>5, <1>6 DEF a

\* However the target stops, saves, restores, disconnects and sends padding,
\* the bytes it has sent and not taken back lie at their places when the
\* command ends, and nothing has been written outside the buffer: for every
\* list of segments and any number of data phases, if the target neither
\* saves its pointers between a byte taken back and the next data phase, nor
\* goes back to a place it saved before a byte was taken back.
THEOREM TransferInPlace == AfterResidue = {} => (FamilySpec => []BytesInPlace)
  <1>1. IInv => BytesInPlace
    <2> SUFFICES ASSUME IInv PROVE BytesInPlace OBVIOUS
    <2>1. /\ Ahc!TypeOK /\ InMemory BY DEF IInv
    <2>2. /\ ahcList \in PointerLists /\ Ahc!Total = Size(ahcList)
          /\ target.pos \in 0 .. Size(ahcList) /\ Size(ahcList) \in Nat
      BY <2>1, Typed
    <2>3. \A n \in 1 .. Size(ahcList) : Ahc!Home(n) = Spot(ahcList, n)
      BY <2>2, ChipList
    <2>4. \A i \in DOMAIN written :
             written[i][1] \in {Ahc!Home(n) : n \in 1 .. Ahc!Total}
      BY <2>1, <2>2, <2>3 DEF InMemory, Inside
    <2>5. ASSUME NEW n \in 1 .. target.pos
          PROVE  Ahc!Content(Ahc!Home(n)) = n
      <3>1. n \in 1 .. Size(ahcList) BY <2>2
      <3> QED BY <2>1, <3>1, ContentOf DEF InMemory
    <2> QED BY <2>1, <2>4, <2>5 DEF BytesInPlace, Ahc!BytesInPlace
  <1> SUFFICES ASSUME AfterResidue = {} PROVE FamilySpec => []BytesInPlace
    OBVIOUS
  <1>2. FamilySpec => []IInv BY AhcInvariant
  <1> QED BY <1>1, <1>2, PTL

\* An overrun is reported only when the target has sent more than the buffer
\* holds, and otherwise the port layer learns exactly how many bytes the last
\* data phase left unfilled, under the same assumption on the target.
THEOREM TransferResidual ==
  AfterResidue = {} => (FamilySpec => []ResidualIsRight)
  <1>1. IInv => ResidualIsRight
    <2> SUFFICES ASSUME IInv PROVE ResidualIsRight OBVIOUS
    <2>1. Ahc!Total = Size(ahcList) BY Typed DEF IInv
    <2> QED BY <2>1 DEF IInv, Ended, ResidualIsRight, Ahc!ResidualIsRight
  <1> SUFFICES ASSUME AfterResidue = {} PROVE FamilySpec => []ResidualIsRight
    OBVIOUS
  <1>2. FamilySpec => []IInv BY AhcInvariant
  <1> QED BY <1>1, <1>2, PTL
-----------------------------------------------------------------------------
(* The aic79xx: the invariant of the data FIFOs.                           *)

\* The place where this context began is still that of the SCB, or will be.
Pending(x) == x.ours /\ ~x.saved /\ x.handler # "ctxt"

\* A loaded segment of a context is one of the list.
Part(list, base, g) ==
    /\ g.next - 1 \in 1 .. Len(list)
    /\ base + g.upto = list[g.next - 1]
    /\ g.at = base + g.upto - g.cnt /\ Start(list, g.next - 1) <= g.at
    /\ {g.cnt, g.upto} \subseteq Nat \ {0} /\ g.cnt <= g.upto
    /\ g.last = (g.next - 1 = Len(list))

\* The loaded segments follow each other from the start of the context on.
Covers(list, x) ==
    /\ x.segs # <<>>
    /\ \A i \in DOMAIN x.segs : Part(list, x.base, x.segs[i])
    /\ \A i, j \in DOMAIN x.segs :
          i < j => x.segs[i].upto <= x.segs[j].upto - x.segs[j].cnt
    /\ \A n \in 1 .. Loaded(x) : \E i \in DOMAIN x.segs :
          x.segs[i].upto - x.segs[i].cnt < n /\ n <= x.segs[i].upto

\* A context that only the chip knows of.
Announced(x) ==
    /\ x.segs = <<>> /\ x.done = 0 /\ ~x.saved /\ ~x.loading
    /\ x.handler = "none"

\* One that is served.
Served(list, x) ==
    /\ Covers(list, x)
    /\ x.handler # "none"
    /\ x.done <= x.got /\ x.done <= Loaded(x)
    /\ ~x.saved => x.loading = ~Newest(x).last
    /\ x.saved => x.over /\ x.got < Loaded(x) /\ ~x.loading
                  /\ x.handler # "ctxt"
    /\ x.handler = "drain" => x.saved
    /\ x.handler = "ctxt" => x.done = x.got /\ x.base + x.got = Size(list)

Context(list, x) ==
    /\ ~x.ours => x = Idle
    /\ x.ours => x.base < Size(list) /\ list # <<>>
    /\ x.ours /\ x.fresh => Announced(x)
    /\ x.ours /\ ~x.fresh => Served(list, x)
    /\ x.over => x.got > 0

\* Of two contexts the first is over on the bus, and the second begins where
\* it ended, unsaved as it is, and waits for it.
Precedes(x, y) == x.ours /\ y.ours /\ x.base < y.base
Blocks(x, y)   == Precedes(x, y) /\ Pending(x)

Ordered(x, y, p) ==
    /\ x.base + x.got <= p
    /\ x.ours /\ y.ours => x.base # y.base
    /\ Precedes(x, y) => x.over /\ x.base + x.got <= y.base
    /\ Blocks(x, y) => x.base + x.got = y.base /\ y.fresh
    /\ x.ours /\ ~x.over => x.base + x.got = p
    /\ Pending(x) /\ ~Precedes(x, y) => x.base + x.got = p

\* A place inside the buffer, as an SCB of the aic79xx tells it; but a segment
\* may be marked as the last of the list that is not.
ScbNear(list, p, q) ==
    /\ ~p.null
    /\ p.at = q
    /\ p.cnt = list[Segm(list, q + 1)] - q
    /\ Segm(list, q + 1) = Len(list) => p.last
    /\ p.next = Segm(list, q + 1) + 1

\* Any place, and no such mark.
ScbAt(list, p, q) ==
    IF list = <<>> \/ q = Size(list) THEN p.null
    ELSE ScbNear(list, p, q) /\ p.last = (Segm(list, q + 1) = Len(list))

\* The SCB tells where the context begins, unless another one comes first, and
\* the residual what the context loads next.  The wrong mark is one that the
\* host has left when it saved the pointers of the context before.
Based(list, x, y, s, h) ==
    Pending(x) /\ ~Blocks(y, x) =>
       /\ ScbNear(list, s, x.base)
       /\ h = "away" \/ Pending(y) => ScbAt(list, s, x.base)

LoadsNext(x, r) ==
    Pending(x) /\ ~x.fresh => r.next = Newest(x).next /\ r.last = Newest(x).last

\* The bytes that have left the bus and both FIFOs.
InFifo(x, k)    == x.base + x.done <= k /\ k < x.base + x.got
Stored(x, y, p) == {k \in 0 .. p - 1 : ~InFifo(x, k) /\ ~InFifo(y, k)}

\* Where no context needs the SCB any more, it tells the target's place, and so
\* does the residual.
AtTarget(s, r, p) ==
    /\ ScbAt(sg_list, s, p)
    /\ ~s.null /\ ~s.full => r.cnt + Total - StartOf(r.next) = Total - p

Untouched(x, y, p) ==
    /\ x.ours => x.fresh
    /\ y.ours => y.fresh
    /\ ~x.ours /\ ~y.ours => p = 0

\* Of the two FIFOs, whichever is named first.
View(x, y) ==
    /\ Context(sg_list, x) /\ Context(sg_list, y)
    /\ Ordered(x, y, pos) /\ Ordered(y, x, pos)
    /\ Based(sg_list, x, y, scb, host) /\ Based(sg_list, y, x, scb, host)
    /\ LoadsNext(x, resid) /\ LoadsNext(y, resid)
    /\ memory = {<<k, k + 1>> : k \in Stored(x, y, pos)}
    /\ ~Pending(x) /\ ~Pending(y) /\ host = "away" /\ ended = "no"
          => AtTarget(scb, resid, pos)
    /\ scb.full => Untouched(x, y, pos)
    /\ uses = One(x.handler # "none") + One(y.handler # "none")
    /\ status # "none" => (x.ours => x.over) /\ (y.ours => y.over)
    /\ ended # "no" => x = Idle /\ y = Idle

Phases ==
    /\ received => status = "taken"
    /\ host = "flushing" => status = "queued"
    /\ ended # "no" => status = "taken" /\ host = "away"
    /\ ended = "upload" => CalcResidual = Total - pos

FInv == TypeOK /\ ~resid.null /\ ~misled /\ Phases
        /\ View(fifo[0], fifo[1])

\* A context that ends with its first segment, whatever the list holds.
CutShort(x, size) ==
    /\ Len(x.segs) = 1
    /\ x.segs[1].at = x.base /\ x.segs[1].upto = x.segs[1].cnt
    /\ x.base + x.segs[1].cnt <= size

\* A context that only drains, and one that can still be saved if cut short.
Rests(x, size) ==
    /\ ~x.ours => x = Idle
    /\ x.ours => /\ ~x.fresh /\ x.over /\ ~x.loading /\ x.handler # "none"
                 /\ x.segs # <<>>
                 /\ \A n \in 1 .. Loaded(x) : Place(x, n) = x.base + n - 1
                 /\ ~x.saved => CutShort(x, size)

\* Once the host has begun a context whose mark is wrong nothing is loaded any
\* more, the bytes that have gone to memory are at their places, and the command
\* is completed without an upload.
Drifting(x, y) ==
    /\ Rests(x, Total) /\ Rests(y, Total)
    /\ uses = One(x.handler # "none") + One(y.handler # "none")

Adrift ==
    /\ TypeOK /\ ~resid.null /\ misled /\ ~scb.full
    /\ Drifting(fifo[0], fifo[1])
    /\ \A m \in memory : m[2] = m[1] + 1
    /\ status # "none" /\ ended # "upload"
    /\ host = "flushing" => ended = "no"
    /\ host = "away" => status = "taken" /\ ended = "complete"
                        /\ fifo[0] = Idle /\ fifo[1] = Idle

DInv == FInv \/ Adrift

-----------------------------------------------------------------------------
(* A context and its segments.                                             *)

SegType == [at : 0 .. Total, cnt : 0 .. Total, last : BOOLEAN, next : Nat,
            upto : 0 .. Total]

LEMMA FifoLists == ASSUME sg_list \in SgLists, sg_list # <<>>
                   PROVE  List(sg_list) /\ Total = Size(sg_list)
  BY FifoAssumption DEF FifoAssumption, List, Total, Size

LEMMA TotalIsNat == ASSUME sg_list \in SgLists PROVE Total \in Nat
  <1>1. CASE sg_list = <<>> BY <1>1 DEF Total
  <1>2. CASE sg_list # <<>> BY <1>2, FifoLists, Ends
  <1> QED BY <1>1, <1>2

LEMMA ContextTyped ==
  ASSUME Total \in Nat, NEW x \in Contexts
  PROVE  /\ x.got \in Nat /\ x.done \in Nat /\ x.base \in Nat
         /\ x.got <= Total /\ x.base <= Total
         /\ x.segs \in Seq(SegType)
         /\ Len(x.segs) \in Nat /\ DOMAIN x.segs = 1 .. Len(x.segs)
  <1>1. /\ x.got \in 0 .. Total /\ x.done \in 0 .. Total /\ x.base \in 0 .. Total
        /\ x.segs \in Seq(SegType)
    BY DEF Contexts, SegType
  <1>2. Len(x.segs) \in Nat /\ DOMAIN x.segs = 1 .. Len(x.segs)
    BY <1>1, LenProperties
  <1> QED BY <1>1, <1>2

\* What has been loaded ends with a segment.
LEMMA LoadedIs ==
  ASSUME NEW list, List(list), Total \in Nat, NEW x \in Contexts,
         Covers(list, x)
  PROVE  /\ Len(x.segs) \in Nat \ {0} /\ DOMAIN x.segs = 1 .. Len(x.segs)
         /\ Loaded(x) = Newest(x).upto /\ Loaded(x) \in Nat \ {0}
         /\ Newest(x).next - 1 \in 1 .. Len(list)
         /\ x.base + Loaded(x) = list[Newest(x).next - 1]
         /\ x.base + Loaded(x) <= Size(list)
         /\ Newest(x).last = (Newest(x).next - 1 = Len(list))
         /\ Newest(x).last = (x.base + Loaded(x) = Size(list))
         /\ \A i \in DOMAIN x.segs : x.segs[i].upto <= Loaded(x)
  <1> DEFINE n == Len(x.segs)
  <1>1. x.segs \in Seq(SegType) /\ n \in Nat /\ DOMAIN x.segs = 1 .. n
        /\ x.base \in Nat
    BY ContextTyped
  <1>2. x.segs # <<>> BY DEF Covers
  <1>3. n # 0 BY <1>1, <1>2, EmptySeq
  <1>4. n \in DOMAIN x.segs BY <1>1, <1>3
  <1>5. Newest(x) = x.segs[n] BY DEF Newest
  <1>6. Part(list, x.base, Newest(x)) BY <1>4, <1>5 DEF Covers
  <1>7. Loaded(x) = Newest(x).upto BY <1>2 DEF Loaded
  <1> HIDE DEF n
  <1>8. Loaded(x) \in Nat \ {0} BY <1>6, <1>7 DEF Part
  <1>9. /\ Newest(x).next - 1 \in 1 .. Len(list)
        /\ x.base + Loaded(x) = list[Newest(x).next - 1]
        /\ Newest(x).last = (Newest(x).next - 1 = Len(list))
    BY <1>6, <1>7 DEF Part
  <1>10. x.base + Loaded(x) <= Size(list) BY <1>9, Ends
  <1>11. (Newest(x).next - 1 = Len(list)) <=> (x.base + Loaded(x) = Size(list))
    <2> DEFINE m == Newest(x).next - 1
    <2>1. m \in 1 .. Len(list) /\ x.base + Loaded(x) = list[m] BY <1>9
    <2> HIDE DEF m
    <2>2. Len(list) \in Nat \ {0} /\ Size(list) = list[Len(list)]
          /\ Size(list) \in Nat
      BY Ends DEF Size
    <2>3. Len(list) \in 1 .. Len(list) BY <2>2
    <2>4. ASSUME m < Len(list) PROVE list[m] < Size(list)
      <3>1. list[m] <= Start(list, Len(list)) BY <2>1, <2>3, <2>4, Ends
      <3>2. /\ Start(list, Len(list)) < list[Len(list)]
            /\ Start(list, Len(list)) \in Nat /\ list[m] \in Nat
        BY <2>1, <2>3, Ends
      <3> QED BY <2>2, <3>1, <3>2
    <2>5. list[m] \in Nat BY <2>1, Ends
    <2>6. m = Len(list) <=> list[m] = Size(list) BY <2>1, <2>2, <2>4, <2>5
    <2> QED BY <2>1, <2>6 DEF m
  <1>12. Newest(x).last = (x.base + Loaded(x) = Size(list)) BY <1>9, <1>11
  <1>13. ASSUME NEW i \in DOMAIN x.segs PROVE x.segs[i].upto <= Loaded(x)
    <2>1. CASE i = n BY <1>5, <1>7, <1>8, <2>1
    <2>2. CASE i # n
      <3>1. i < n BY <1>1, <2>2
      <3>2. x.segs[i].upto <= x.segs[n].upto - x.segs[n].cnt
        BY <1>4, <3>1 DEF Covers
      <3>3. /\ x.segs[i].upto \in Nat /\ x.segs[n].cnt \in Nat
            /\ x.segs[n].upto \in Nat
        BY <1>4 DEF Covers, Part
      <3> QED BY <1>5, <1>7, <3>2, <3>3
    <2> QED BY <2>1, <2>2
  <1> QED BY <1>1, <1>3, <1>7, <1>8, <1>9, <1>10, <1>12, <1>13 DEF n

\* Every byte of a context goes to its place.
LEMMA PlaceOf ==
  ASSUME NEW list, List(list), Total \in Nat, NEW x \in Contexts,
         Covers(list, x), NEW n \in 1 .. Loaded(x)
  PROVE  Place(x, n) = x.base + n - 1
  <1> DEFINE C(i) == /\ n <= x.segs[i].upto
                     /\ n > x.segs[i].upto - x.segs[i].cnt
             c == CHOOSE i \in DOMAIN x.segs : C(i)
  <1>1. PICK i \in DOMAIN x.segs :
           x.segs[i].upto - x.segs[i].cnt < n /\ n <= x.segs[i].upto
    BY DEF Covers
  <1>2. Loaded(x) \in Nat /\ x.base \in Nat BY LoadedIs, ContextTyped
  <1>3. C(i)
    <2>1. x.segs[i].upto \in Nat /\ x.segs[i].cnt \in Nat BY DEF Covers, Part
    <2> QED BY <1>1, <1>2, <2>1
  <1>4. c \in DOMAIN x.segs BY <1>3
  <1> HIDE DEF C, c
  <1>5. Part(list, x.base, x.segs[c]) BY <1>4 DEF Covers
  <1>6. Place(x, n) = x.segs[c].at + n - 1 - (x.segs[c].upto - x.segs[c].cnt)
    BY DEF Place, c, C
  <1>7. /\ x.segs[c].upto \in Nat /\ x.segs[c].cnt \in Nat
        /\ x.segs[c].at = x.base + x.segs[c].upto - x.segs[c].cnt
    BY <1>5 DEF Part
  <1> QED BY <1>2, <1>6, <1>7

\* The shadow of the chip is the segment the SCSI side is in.
LEMMA ShadowIs ==
  ASSUME NEW list, List(list), Total \in Nat, NEW x \in Contexts,
         Covers(list, x), x.got < Loaded(x)
  PROVE  LET q == x.base + x.got
             s == Segm(list, q + 1)
         IN  /\ q \in Nat /\ q < Size(list) /\ q + 1 \in 1 .. Size(list)
             /\ s \in 1 .. Len(list)
             /\ SG_CACHE_SHADOW(x).next = s + 1
             /\ SG_CACHE_SHADOW(x).last = (s = Len(list))
             /\ SG_CACHE_SHADOW(x).last => Newest(x) = SG_CACHE_SHADOW(x)
             /\ SHCNT(x) = list[s] - q /\ SHCNT(x) \in Nat
             /\ SHADDR(x) = q
  <1> DEFINE C(i) == /\ i = Len(x.segs) \/ x.got < x.segs[i].upto
                     /\ \A k \in 1 .. i - 1 : x.got >= x.segs[k].upto
             n == x.got + 1
             r == Reached(x)
             sh == SG_CACHE_SHADOW(x)
             q == x.base + x.got
  <1>1. /\ Len(x.segs) \in Nat \ {0} /\ DOMAIN x.segs = 1 .. Len(x.segs)
        /\ Loaded(x) \in Nat /\ x.base + Loaded(x) <= Size(list)
        /\ x.base \in Nat /\ x.got \in Nat
        /\ Newest(x) = x.segs[Len(x.segs)] /\ Loaded(x) = Newest(x).upto
        /\ Size(list) \in Nat
    BY LoadedIs, ContextTyped, Ends DEF Newest
  <1>2. n \in 1 .. Loaded(x) BY <1>1
  <1>3. \A i \in DOMAIN x.segs : /\ x.segs[i].upto \in Nat
                                 /\ x.segs[i].cnt \in Nat
    BY DEF Covers, Part
  <1>4. PICK i \in DOMAIN x.segs :
           x.segs[i].upto - x.segs[i].cnt < n /\ n <= x.segs[i].upto
    BY <1>2 DEF Covers
  <1>5. x.segs[i].upto - x.segs[i].cnt <= x.got /\ x.got < x.segs[i].upto
    BY <1>1, <1>3, <1>4, SMTT(30)
  <1>6. ASSUME NEW k \in 1 .. i - 1 PROVE x.got >= x.segs[k].upto
    <2>1. k \in DOMAIN x.segs /\ k < i BY <1>1
    <2>2. x.segs[k].upto <= x.segs[i].upto - x.segs[i].cnt
      BY <2>1 DEF Covers
    <2>3. /\ x.segs[k].upto \in Nat /\ x.segs[i].upto \in Nat
          /\ x.segs[i].cnt \in Nat
      BY <1>3, <2>1
    <2>4. x.got \in Nat BY <1>1
    <2> QED BY <1>5, <2>2, <2>3, <2>4
  <1>7. C(i) BY <1>5, <1>6
  <1>8. r = CHOOSE j \in DOMAIN x.segs : C(j) BY DEF Reached
  <1>9. r \in DOMAIN x.segs /\ C(r) BY <1>7, <1>8
  <1>10. r = i
    <2>1. CASE r < i
      <3>1. r \in 1 .. i - 1 BY <1>1, <1>9, <2>1
      <3>2. x.got >= x.segs[r].upto BY <1>6, <3>1
      <3>3. r # Len(x.segs) BY <1>1, <1>9, <2>1
      <3>4. x.got < x.segs[r].upto BY <1>9, <3>3
      <3> QED BY <1>1, <1>3, <1>9, <3>2, <3>4
    <2>2. CASE i < r
      <3>1. i \in 1 .. r - 1 BY <1>1, <1>9, <2>2
      <3>2. x.got >= x.segs[i].upto BY <1>9, <3>1
      <3> QED BY <1>1, <1>3, <1>5, <3>2
    <2> QED BY <1>1, <1>9, <2>1, <2>2
  <1> HIDE DEF C, r, n
  <1>11. sh = x.segs[i] BY <1>10 DEF SG_CACHE_SHADOW, r
  <1> HIDE DEF sh
  <1>12. Part(list, x.base, sh) BY <1>11 DEF Covers
  <1>13. /\ sh.next - 1 \in 1 .. Len(list)
         /\ x.base + sh.upto = list[sh.next - 1]
         /\ sh.at = x.base + sh.upto - sh.cnt
         /\ sh.cnt \in Nat \ {0} /\ sh.upto \in Nat /\ sh.cnt <= sh.upto
         /\ sh.last = (sh.next - 1 = Len(list))
    BY <1>12 DEF Part
  <1>14. sh.upto - sh.cnt <= x.got /\ x.got < sh.upto BY <1>5, <1>11
  <1> DEFINE s == sh.next - 1
  <1>15. /\ q \in Nat /\ q < Size(list) /\ q + 1 \in 1 .. Size(list)
    BY <1>1
  <1>16. SHCNT(x) = sh.upto - x.got BY <1>14 DEF SHCNT, sh
  <1>17. SHADDR(x) = sh.at + sh.cnt - SHCNT(x) BY DEF SHADDR, sh
  <1>18. SHCNT(x) \in Nat /\ SHCNT(x) = list[s] - q /\ SHADDR(x) = q
    <2>1. list[s] = x.base + sh.upto BY <1>13
    <2>2. /\ sh.upto \in Nat /\ sh.cnt \in Nat
          /\ sh.at = x.base + sh.upto - sh.cnt
      BY <1>13
    <2>3. x.base \in Nat /\ x.got \in Nat BY <1>1
    <2> HIDE DEF s
    <2> QED BY <1>14, <1>16, <1>17, <2>1, <2>2, <2>3
  <1>19. Segm(list, q + 1) = s
    <2>1. s \in 1 .. Len(list) /\ list[s] = x.base + sh.upto
          /\ Start(list, s) <= sh.at
      BY <1>12, <1>13 DEF Part
    <2> HIDE DEF s
    <2>2. q + 1 <= list[s] BY <1>1, <1>13, <1>14, <2>1, SMTT(30)
    <2>3. Start(list, s) < q + 1
      <3>1. Start(list, s) \in Nat BY <2>1, Ends
      <3>2. sh.at <= q BY <1>1, <1>13, <1>14
      <3>3. sh.at \in Nat BY <1>1, <1>13
      <3> QED BY <1>15, <2>1, <3>1, <3>2, <3>3
    <2> QED BY <1>15, <2>1, <2>2, <2>3, SegmentIs
  <1>20. ASSUME sh.last PROVE Newest(x) = sh
    <2>1. sh.next - 1 = Len(list) BY <1>13, <1>20
    <2>2. x.base + sh.upto = Size(list) BY <1>13, <2>1 DEF Size
    <2>3. sh.upto = Loaded(x)
      <3>1. sh.upto <= Loaded(x) BY <1>11, LoadedIs
      <3> QED BY <1>1, <1>13, <2>2, <3>1, SMTT(30)
    <2>4. i = Len(x.segs)
      <3>1. CASE i < Len(x.segs)
        <4>1. Len(x.segs) \in DOMAIN x.segs BY <1>1
        <4>2. sh.upto <= Newest(x).upto - Newest(x).cnt
          BY <1>1, <1>11, <3>1, <4>1 DEF Covers
        <4>3. Newest(x).cnt \in Nat \ {0}
          BY <1>1, <4>1 DEF Covers, Part
        <4> QED BY <1>1, <1>13, <2>3, <4>2, <4>3
      <3>2. CASE ~ (i < Len(x.segs)) BY <1>1, <3>2
      <3> QED BY <3>1, <3>2
    <2> QED BY <1>1, <1>11, <2>4
  <1>21. s \in 1 .. Len(list) /\ sh.next = s + 1 /\ sh.last = (s = Len(list))
    <2>1. Len(list) \in Nat BY Ends
    <2>2. sh.next = s + 1
      <3>1. sh.next \in Nat
        <4>1. sh \in SegType
          <5>1. x.segs \in Seq(SegType) BY ContextTyped
          <5> QED BY <1>1, <1>11, <5>1, ElementOfSeq
        <4> QED BY <4>1 DEF SegType
      <3> QED BY <3>1
    <2> QED BY <1>13, <2>2
  <1> HIDE DEF s, q
  <1>22. /\ Segm(list, q + 1) \in 1 .. Len(list)
         /\ sh.next = Segm(list, q + 1) + 1
         /\ sh.last = (Segm(list, q + 1) = Len(list))
         /\ SHCNT(x) = list[Segm(list, q + 1)] - q
    BY <1>18, <1>19, <1>21
  <1> QED BY <1>15, <1>18, <1>20, <1>22 DEF q, sh

-----------------------------------------------------------------------------
(* The two FIFOs.                                                          *)

LEMMA Pair ==
  ASSUME NEW f \in {0, 1}
  PROVE  1 - f \in {0, 1} /\ 1 - (1 - f) = f /\ f # 1 - f /\ {0, 1} = {f, 1 - f}
  OBVIOUS

LEMMA Sums == \A a, b : One(a) + One(b) = One(b) + One(a)
  BY DEF One

LEMMA Symmetric == \A x, y : View(x, y) => View(y, x)
  <1> SUFFICES ASSUME NEW x, NEW y, View(x, y) PROVE View(y, x)
    OBVIOUS
  <1>1. Stored(x, y, pos) = Stored(y, x, pos) BY DEF Stored
  <1>2. scb.full => Untouched(y, x, pos) BY DEF View, Untouched
  <1>3. uses = One(y.handler # "none") + One(x.handler # "none")
    BY Sums DEF View
  <1> QED BY <1>1, <1>2, <1>3, Zenon DEF View

LEMMA Seen ==
  ASSUME NEW f \in {0, 1}
  PROVE  View(fifo[f], fifo[1 - f]) <=> View(fifo[0], fifo[1])
  <1>1. CASE f = 0
    <2>1. 1 - f = 1 BY <1>1
    <2> QED BY <1>1, <2>1, Zenon
  <1>2. CASE f = 1
    <2>1. 1 - f = 0 BY <1>2
    <2> QED BY <1>2, <2>1, Symmetric, Zenon
  <1> QED BY <1>1, <1>2, Zenon

LEMMA SeenNext ==
  ASSUME NEW f \in {0, 1}
  PROVE  View(fifo[f], fifo[1 - f])' => View(fifo[0], fifo[1])'
  BY Seen, PTL

FIELDS == {"ours", "fresh", "segs", "got", "done", "base", "over", "saved",
           "loading", "handler"}

LEMMA ContextFields == ASSUME NEW x \in Contexts PROVE DOMAIN x = FIELDS
  BY DEF Contexts, FIELDS

LEMMA Updated ==
  ASSUME NEW f \in {0, 1}, NEW z, fifo \in [{0, 1} -> Contexts],
         fifo' = [fifo EXCEPT ![f] = z]
  PROVE  /\ fifo'[f] = z /\ fifo'[1 - f] = fifo[1 - f]
         /\ z \in Contexts => fifo' \in [{0, 1} -> Contexts]
  <1>1. f # 1 - f /\ 1 - f \in {0, 1} BY Pair
  <1>2. fifo'[f] = z /\ fifo'[1 - f] = fifo[1 - f] BY <1>1
  <1>3. z \in Contexts => fifo' \in [{0, 1} -> Contexts] OBVIOUS
  <1> QED BY <1>2, <1>3

LEMMA ReceiveFields ==
  ASSUME NEW f \in {0, 1}, NEW n, fifo \in [{0, 1} -> Contexts],
         fifo' = [fifo EXCEPT ![f].got = @ + n]
  PROVE  /\ fifo'[f] = [fifo[f] EXCEPT !.got = fifo[f].got + n]
         /\ fifo'[f].got = fifo[f].got + n
         /\ \A k \in FIELDS \ {"got"} : fifo'[f][k] = fifo[f][k]
  <1>1. DOMAIN fifo[f] = FIELDS BY ContextFields
  <1> QED BY <1>1, Zenon DEF FIELDS

LEMMA IdleTyped == ASSUME Total \in Nat PROVE Idle \in Contexts
  <1>1. <<>> \in Seq([at : 0 .. Total, cnt : 0 .. Total, last : BOOLEAN,
                      next : Nat, upto : 0 .. Total])
    BY EmptySeq
  <1>2. 0 \in 0 .. Total OBVIOUS
  <1> QED BY <1>1, <1>2 DEF Idle, Contexts

\* What the steps start from, and what they must end with.
LEMMA Given ==
  ASSUME FInv, NEW f \in {0, 1}
  PROVE  /\ Total \in Nat /\ sg_list \in SgLists /\ fifo \in [{0, 1} -> Contexts]
         /\ fifo[f] \in Contexts /\ fifo[1 - f] \in Contexts
         /\ View(fifo[f], fifo[1 - f])
         /\ pos \in Nat /\ pos <= Total
  <1>1. sg_list \in SgLists /\ fifo \in [{0, 1} -> Contexts] /\ pos \in 0 .. Total
    BY DEF FInv, TypeOK
  <1>2. Total \in Nat BY <1>1, TotalIsNat
  <1>3. fifo[f] \in Contexts /\ fifo[1 - f] \in Contexts BY <1>1, Pair
  <1>4. View(fifo[f], fifo[1 - f]) BY Seen DEF FInv
  <1> QED BY <1>1, <1>2, <1>3, <1>4

LEMMA SameBuffer ==
  ASSUME sg_list' = sg_list
  PROVE  Total' = Total /\ Contexts' = Contexts
         /\ \A s : StartOf(s)' = StartOf(s)
  BY DEF Total, Contexts, StartOf

LEMMA SameSegments ==
  ASSUME NEW list, NEW x, NEW z, z.segs = x.segs, z.base = x.base
  PROVE  /\ Newest(z) = Newest(x) /\ Loaded(z) = Loaded(x)
         /\ Covers(list, z) <=> Covers(list, x)
  <1>1. Newest(z) = Newest(x) /\ Loaded(z) = Loaded(x) BY DEF Newest, Loaded
  <1> QED BY <1>1, Zenon DEF Covers

\* A context that goes on.
LEMMA ReceiveStep ==
  ASSUME FInv, NEW f \in {0, 1}, Receive(f)
  PROVE  FInv'
  <1> DEFINE x == fifo[f]
             y == fifo[1 - f]
             z == fifo'[f]
  <1>1. PICK n \in 1 .. Total - pos :
           fifo' = [fifo EXCEPT ![f].got = @ + n] /\ pos' = pos + n
    BY DEF Receive
  <1>2. /\ Total \in Nat /\ sg_list \in SgLists /\ x \in Contexts
        /\ y \in Contexts /\ View(x, y) /\ pos \in Nat /\ pos <= Total
        /\ fifo \in [{0, 1} -> Contexts]
    BY Given
  <1>3. /\ x.got \in Nat /\ x.done \in Nat /\ x.base \in Nat
        /\ y.got \in Nat /\ y.done \in Nat /\ y.base \in Nat
    BY <1>2, ContextTyped
  <1>4. x.ours /\ ~x.over /\ UNCHANGED <<sg_list, scb, resid, uses, received,
                              contexts, status, host, memory, misled, ended>>
    BY DEF Receive, OnTheBus
  <1>5. z = [x EXCEPT !.got = x.got + n] /\ fifo'[1 - f] = y
    BY <1>1, <1>2, Pair, Zenon
  <1>6. /\ z.got = x.got + n /\ z.ours = x.ours /\ z.fresh = x.fresh
        /\ z.segs = x.segs /\ z.done = x.done /\ z.base = x.base
        /\ z.over = x.over /\ z.saved = x.saved /\ z.loading = x.loading
        /\ z.handler = x.handler
    <2>1. DOMAIN x = FIELDS BY <1>2, ContextFields
    <2> HIDE DEF x, z
    <2> QED BY <1>5, <2>1, Zenon DEF FIELDS
  <1>7. /\ Context(sg_list, x) /\ Context(sg_list, y)
        /\ Ordered(x, y, pos) /\ Ordered(y, x, pos)
        /\ Based(sg_list, x, y, scb, host) /\ Based(sg_list, y, x, scb, host)
        /\ LoadsNext(x, resid) /\ LoadsNext(y, resid)
    BY <1>2 DEF View
  <1> HIDE DEF x, y, z
  <1>8. x.base + x.got = pos /\ n \in Nat \ {0} /\ pos + n <= Total
    <2>1. x.base + x.got = pos BY <1>4, <1>7 DEF Ordered
    <2> QED BY <1>2, <2>1
  <1>9. Ordered(z, y, pos + n)
    BY <1>2, <1>3, <1>4, <1>6, <1>7, <1>8
    DEF Ordered, Precedes, Blocks, Pending
  <1>10. Ordered(y, z, pos + n)
    BY <1>2, <1>3, <1>4, <1>6, <1>7, <1>8
    DEF Ordered, Precedes, Blocks, Pending
  <1>11. /\ Newest(z) = Newest(x) /\ Loaded(z) = Loaded(x)
         /\ Covers(sg_list, z) <=> Covers(sg_list, x)
    BY <1>6, SameSegments
  <1>12. sg_list # <<>> /\ Total = Size(sg_list)
    BY <1>2, <1>4, <1>7, FifoLists DEF Context
  <1>13. Loaded(x) \in Nat
    <2>1. CASE x.fresh
      <3>1. x.segs = <<>> BY <1>4, <1>7, <2>1 DEF Context, Announced
      <3> QED BY <3>1 DEF Loaded
    <2>2. CASE ~x.fresh
      <3>1. Covers(sg_list, x) BY <1>4, <1>7, <2>2 DEF Context, Served
      <3> QED BY <1>2, <1>12, <3>1, FifoLists, LoadedIs
    <2> QED BY <2>1, <2>2
  <1>14. ~x.fresh => x.handler # "ctxt"
    <2>1. ASSUME ~x.fresh, x.handler = "ctxt" PROVE FALSE
      <3>1. Served(sg_list, x) BY <1>4, <1>7, <2>1 DEF Context
      <3>2. x.base + x.got = Size(sg_list) BY <2>1, <3>1 DEF Served
      <3> QED BY <1>2, <1>8, <1>12, <3>2
    <2> QED BY <2>1
  <1>15. x.handler # "ctxt" /\ ~x.saved
    BY <1>4, <1>7, <1>14 DEF Context, Announced, Served
  <1>16. Pending(x) /\ Pending(z) BY <1>4, <1>6, <1>15 DEF Pending
  <1>17. Context(sg_list, z)
    <2>1. z.ours /\ ~z.over /\ z.base < Size(sg_list)
      BY <1>4, <1>6, <1>7 DEF Context
    <2>2. CASE x.fresh
      <3>1. Announced(z) BY <1>4, <1>6, <1>7, <2>2 DEF Context, Announced
      <3> QED BY <1>6, <1>12, <2>1, <2>2, <3>1 DEF Context
    <2>3. CASE ~x.fresh
      <3>1. Served(sg_list, x) BY <1>4, <1>7, <2>3 DEF Context
      <3>2. z.done <= z.got /\ z.done <= Loaded(z)
        BY <1>3, <1>6, <1>8, <1>11, <3>1 DEF Served
      <3>3. Served(sg_list, z)
        BY <1>6, <1>11, <1>15, <3>1, <3>2, Zenon DEF Served
      <3> QED BY <1>6, <1>12, <2>1, <2>3, <3>3 DEF Context
    <2> QED BY <2>2, <2>3
  <1>18. Based(sg_list, z, y, scb, host) /\ Based(sg_list, y, z, scb, host)
    BY <1>6, <1>7, <1>16, Zenon DEF Based, Blocks, Precedes, Pending
  <1>19. LoadsNext(z, resid)
    BY <1>6, <1>7, <1>11, <1>16, Zenon DEF LoadsNext
  <1>20. Stored(z, y, pos + n) = Stored(x, y, pos)
    <2>1. x.done <= x.got
      BY <1>3, <1>4, <1>7 DEF Context, Announced, Served
    <2>2. ASSUME NEW k \in Int
          PROVE  k \in Stored(z, y, pos + n) <=> k \in Stored(x, y, pos)
      BY <1>2, <1>3, <1>6, <1>8, <2>1 DEF Stored, InFifo
    <2>3. Stored(z, y, pos + n) \subseteq Int /\ Stored(x, y, pos) \subseteq Int
      BY <1>2, <1>8 DEF Stored
    <2> QED BY <2>2, <2>3
  <1>21. scb.full => /\ z.ours => z.fresh
                     /\ y.ours => y.fresh
    BY <1>2, <1>6 DEF View, Untouched
  <1>22. status = "none" /\ ended = "no" BY <1>2, <1>4, <1>8
    DEF View, FInv, Phases
  <1>23. View(fifo[f], fifo[1 - f])'
    <2>1. scb.full => Untouched(z, y, pos + n)
      BY <1>4, <1>6, <1>21 DEF Untouched
    <2>2. ~z.over => ~x.over BY <1>6
    <2>3. memory = {<<k, k + 1>> : k \in Stored(z, y, pos + n)}
      BY <1>2, <1>20, Zenon DEF View
    <2>4. /\ uses = One(z.handler # "none") + One(y.handler # "none")
      BY <1>2, <1>6, Zenon DEF View
    <2>5. LoadsNext(y, resid) BY <1>7
    <2> QED
      BY <1>1, <1>4, <1>5, <1>7, <1>9, <1>10, <1>16, <1>17, <1>18, <1>19,
         <1>22, <2>1, <2>3, <2>4, <2>5, Zenon
      DEF View, z
  <1>24. TypeOK'
    <2>1. z \in Contexts
      <3>1. x.got + n \in 0 .. Total BY <1>2, <1>3, <1>8
      <3> QED BY <1>2, <1>5, <3>1 DEF Contexts
    <2>2. fifo' = [fifo EXCEPT ![f] = z]
      BY <1>1, <1>5, Zenon DEF x
    <2>3. fifo' \in [{0, 1} -> Contexts] BY <1>2, <2>1, <2>2, Updated
    <2>4. pos' \in 0 .. Total BY <1>1, <1>2, <1>8
    <2> QED BY <1>4, <2>3, <2>4, SameBuffer DEF FInv, TypeOK
  <1>25. Phases' BY <1>4, <1>22 DEF FInv, Phases
  <1> QED BY <1>4, <1>23, <1>24, <1>25, SeenNext DEF FInv

LEMMA BeginStep ==
  ASSUME FInv, NEW f \in {0, 1}, BeginContext(f)
  PROVE  FInv'
  <1> DEFINE x == fifo[f]
             y == fifo[1 - f]
             z == fifo'[f]
  <1>1. /\ fifo' = [fifo EXCEPT ![f] = [Idle EXCEPT !.ours = TRUE,
                                        !.fresh = TRUE, !.base = pos]]
        /\ status = "none" /\ pos < Total
        /\ ~x.ours /\ ~(y.ours /\ ~y.over)
        /\ UNCHANGED <<sg_list, scb, resid, uses, received, pos, status, host,
                       memory, misled, ended>>
    BY DEF BeginContext, OnTheBus
  <1>2. /\ Total \in Nat /\ sg_list \in SgLists /\ x \in Contexts
        /\ y \in Contexts /\ View(x, y) /\ pos \in Nat
        /\ fifo \in [{0, 1} -> Contexts]
    BY Given
  <1>3. y.got \in Nat /\ y.done \in Nat /\ y.base \in Nat
    BY <1>2, ContextTyped
  <1>4. z = [Idle EXCEPT !.ours = TRUE, !.fresh = TRUE, !.base = pos]
        /\ fifo'[1 - f] = y
    BY <1>1, <1>2, Updated
  <1>5. /\ z.ours /\ z.fresh /\ z.segs = <<>> /\ z.got = 0 /\ z.done = 0
        /\ z.base = pos /\ ~z.over /\ ~z.saved /\ ~z.loading
        /\ z.handler = "none"
    BY <1>4 DEF Idle
  <1>6. x = Idle /\ ~x.ours /\ ~x.over /\ x.base = 0 /\ x.got = 0 /\ x.done = 0
        /\ x.handler = "none"
    BY <1>1, <1>2 DEF View, Context, Idle
  <1>7. /\ Context(sg_list, y) /\ Ordered(y, x, pos)
        /\ Based(sg_list, y, x, scb, host) /\ LoadsNext(y, resid)
    BY <1>2 DEF View
  <1> HIDE DEF x, y, z
  <1>8. Pending(z) /\ ~Pending(x) BY <1>5, <1>6 DEF Pending
  <1>9. sg_list # <<>> /\ Total = Size(sg_list)
    <2>1. sg_list # <<>> BY <1>1, <1>2 DEF Total
    <2> QED BY <1>2, <2>1, FifoLists
  <1>10. y.ours => y.over /\ y.base + y.got <= pos /\ y.base < pos
    <2>1. y.base + y.got <= pos BY <1>7 DEF Ordered
    <2>2. y.over => y.got > 0 BY <1>7 DEF Context
    <2>3. y.over => y.base < pos BY <1>2, <1>3, <2>1, <2>2
    <2> QED BY <1>1, <2>1, <2>3
  <1>11. Pending(y) => y.base + y.got = pos
    BY <1>6, <1>7 DEF Ordered, Precedes
  <1>12. Ordered(z, y, pos)
    <2>1. z.base + z.got = pos BY <1>2, <1>5
    <2>2. ~Precedes(z, y) BY <1>2, <1>3, <1>5, <1>10 DEF Precedes
    <2>3. z.ours /\ y.ours => z.base # y.base BY <1>2, <1>3, <1>5, <1>10
    <2>4. z.base + z.got <= pos BY <1>2, <2>1
    <2> QED BY <2>1, <2>2, <2>3, <2>4, Zenon DEF Ordered, Blocks
  <1>13. Ordered(y, z, pos)
    <2>1. y.ours /\ z.ours => y.base # z.base BY <1>2, <1>3, <1>5, <1>10
    <2>2. y.ours => Precedes(y, z) BY <1>5, <1>10 DEF Precedes
    <2>3. y.base + y.got <= pos BY <1>7 DEF Ordered
    <2> QED BY <1>5, <1>10, <1>11, <2>1, <2>2, <2>3, Zenon
        DEF Ordered, Blocks, Pending, Precedes
  <1>14. Context(sg_list, z)
    BY <1>1, <1>5, <1>9, Zenon DEF Context, Announced
  <1>15. host = "away" /\ ended = "no"
    BY <1>1, <1>2 DEF FInv, Phases, TypeOK
  <1>16. Based(sg_list, z, y, scb, host)
    <2>1. CASE Pending(y)
      <3>1. Blocks(y, z) BY <1>5, <1>10, <2>1 DEF Blocks, Precedes, Pending
      <3> QED BY <3>1 DEF Based
    <2>2. CASE ~Pending(y)
      <3>1. ScbAt(sg_list, scb, pos)
        BY <1>2, <1>8, <1>15, <2>2, Zenon DEF View, AtTarget
      <3>2. ScbNear(sg_list, scb, pos)
        BY <1>1, <1>2, <1>9, <3>1 DEF ScbAt
      <3> QED BY <1>5, <3>1, <3>2 DEF Based
    <2> QED BY <2>1, <2>2
  <1>17. Based(sg_list, y, z, scb, host)
    <2>1. ~Blocks(x, y) BY <1>8 DEF Blocks
    <2> QED BY <1>7, <1>15, <2>1 DEF Based
  <1>18. LoadsNext(z, resid) BY <1>5 DEF LoadsNext
  <1>19. Stored(z, y, pos) = Stored(x, y, pos)
    <2>1. ASSUME NEW k \in 0 .. pos - 1 PROVE ~InFifo(z, k) /\ ~InFifo(x, k)
      BY <1>2, <1>5, <1>6 DEF InFifo
    <2> QED BY <2>1 DEF Stored
  <1>20. View(fifo[f], fifo[1 - f])'
    <2>1. scb.full => Untouched(z, y, pos)
      <3>1. scb.full => (y.ours => y.fresh) BY <1>2 DEF View, Untouched
      <3> QED BY <1>5, <3>1 DEF Untouched
    <2>2. memory = {<<k, k + 1>> : k \in Stored(z, y, pos)}
      BY <1>2, <1>19, Zenon DEF View
    <2>3. uses = One(z.handler # "none") + One(y.handler # "none")
      BY <1>2, <1>5, <1>6, Zenon DEF View
    <2> QED
      BY <1>1, <1>4, <1>7, <1>8, <1>12, <1>13, <1>14, <1>15, <1>16, <1>17,
         <1>18, <2>1, <2>2, <2>3, Zenon
      DEF View, z
  <1>21. TypeOK'
    <2>1. z \in Contexts
      <3>1. pos \in 0 .. Total /\ 0 \in 0 .. Total BY <1>1, <1>2
      <3>2. Idle \in Contexts BY <1>2, IdleTyped
      <3> HIDE DEF Idle
      <3> QED BY <1>4, <3>1, <3>2 DEF Contexts
    <2>2. fifo' \in [{0, 1} -> Contexts] BY <1>1, <1>2, <1>4, <2>1, Updated
    <2> QED BY <1>1, <2>2, SameBuffer DEF FInv, TypeOK
  <1>22. Phases' BY <1>1, <1>15 DEF FInv, Phases
  <1> QED BY <1>1, <1>20, <1>21, <1>22, SeenNext DEF FInv

LEMMA EndStep ==
  ASSUME FInv, NEW f \in {0, 1}, EndContext(f)
  PROVE  FInv'
  <1> DEFINE x == fifo[f]
             y == fifo[1 - f]
             z == fifo'[f]
  <1>1. /\ fifo' = [fifo EXCEPT ![f].over = TRUE]
        /\ x.ours /\ ~x.over /\ x.got > 0
        /\ UNCHANGED <<sg_list, scb, resid, uses, received, pos, contexts,
                       status, host, memory, misled, ended>>
    BY DEF EndContext, OnTheBus
  <1>2. /\ Total \in Nat /\ sg_list \in SgLists /\ x \in Contexts
        /\ y \in Contexts /\ View(x, y) /\ pos \in Nat
        /\ fifo \in [{0, 1} -> Contexts]
    BY Given
  <1>3. z = [x EXCEPT !.over = TRUE] /\ fifo'[1 - f] = y
    BY <1>1, <1>2, Pair, Zenon
  <1>4. /\ z.got = x.got /\ z.ours = x.ours /\ z.fresh = x.fresh
        /\ z.segs = x.segs /\ z.done = x.done /\ z.base = x.base
        /\ z.over = TRUE /\ z.saved = x.saved /\ z.loading = x.loading
        /\ z.handler = x.handler
    <2>1. DOMAIN x = FIELDS BY <1>2, ContextFields
    <2> HIDE DEF x, z
    <2> QED BY <1>3, <2>1, Zenon DEF FIELDS
  <1>5. /\ Context(sg_list, x) /\ Context(sg_list, y)
        /\ Ordered(x, y, pos) /\ Ordered(y, x, pos)
        /\ Based(sg_list, x, y, scb, host) /\ Based(sg_list, y, x, scb, host)
        /\ LoadsNext(x, resid) /\ LoadsNext(y, resid)
    BY <1>2 DEF View
  <1> HIDE DEF x, y, z
  <1>6. /\ Newest(z) = Newest(x) /\ Loaded(z) = Loaded(x)
        /\ Covers(sg_list, z) <=> Covers(sg_list, x)
    BY <1>4, SameSegments
  <1>7. x.base + x.got = pos /\ ~Precedes(x, y)
    BY <1>1, <1>5 DEF Ordered
  <1>8. (Pending(z) <=> Pending(x)) /\ (Precedes(z, y) <=> Precedes(x, y))
        /\ (Precedes(y, z) <=> Precedes(y, x))
        /\ (Blocks(y, z) <=> Blocks(y, x)) /\ (Blocks(z, y) <=> Blocks(x, y))
    BY <1>4, Zenon DEF Pending, Precedes, Blocks
  <1>9. Ordered(z, y, pos) /\ Ordered(y, z, pos)
    BY <1>4, <1>5, <1>7, <1>8, Zenon DEF Ordered, Blocks
  <1>10. Context(sg_list, z)
    <2>1. CASE x.fresh
      BY <1>1, <1>4, <1>5, <2>1, Zenon DEF Context, Announced
    <2>2. CASE ~x.fresh
      <3>1. Served(sg_list, z)
        BY <1>1, <1>4, <1>5, <1>6, <2>2, Zenon DEF Context, Served
      <3> QED BY <1>1, <1>4, <1>5, <2>2, <3>1, Zenon DEF Context
    <2> QED BY <2>1, <2>2
  <1>11. Based(sg_list, z, y, scb, host) /\ Based(sg_list, y, z, scb, host)
         /\ LoadsNext(z, resid)
    BY <1>4, <1>5, <1>6, <1>8, Zenon DEF Based, LoadsNext
  <1>12. Stored(z, y, pos) = Stored(x, y, pos)
    BY <1>4, Zenon DEF Stored, InFifo
  <1>13. ended = "no"
    <2>1. ended # "no" => ~x.ours BY <1>2 DEF View, Idle
    <2> QED BY <1>1, <2>1
  <1>14. View(fifo[f], fifo[1 - f])'
    <2>1. scb.full => Untouched(z, y, pos)
      BY <1>2, <1>4, Zenon DEF View, Untouched
    <2>2. memory = {<<k, k + 1>> : k \in Stored(z, y, pos)}
      BY <1>2, <1>12, Zenon DEF View
    <2>3. /\ ~Pending(z) /\ ~Pending(y) /\ host = "away" /\ ended = "no"
                => AtTarget(scb, resid, pos)
          /\ uses = One(z.handler # "none") + One(y.handler # "none")
          /\ status # "none" => (z.ours => z.over) /\ (y.ours => y.over)
      BY <1>2, <1>4, <1>8, Zenon DEF View
    <2>4. AtTarget(scb, resid, pos)' <=> AtTarget(scb, resid, pos)
      BY <1>1, SameBuffer DEF AtTarget
    <2> QED
      BY <1>1, <1>3, <1>5, <1>9, <1>10, <1>11, <1>13, <2>1, <2>2, <2>3, <2>4,
         Zenon
      DEF View, z
  <1>15. TypeOK'
    <2>1. z \in Contexts BY <1>2, <1>3 DEF Contexts
    <2>2. fifo' = [fifo EXCEPT ![f] = z]
      BY <1>1, <1>3, Zenon DEF x
    <2>3. fifo' \in [{0, 1} -> Contexts] BY <1>2, <2>1, <2>2, Updated
    <2> QED BY <1>1, <2>3, SameBuffer DEF FInv, TypeOK
  <1>16. Phases' BY <1>1, <1>13 DEF FInv, Phases
  <1> QED BY <1>1, <1>14, <1>15, <1>16, SeenNext DEF FInv

LEMMA DrainStep ==
  ASSUME FInv, NEW f \in {0, 1}, Drain(f)
  PROVE  FInv'
  <1> DEFINE x == fifo[f]
             y == fifo[1 - f]
             z == fifo'[f]
             upto == IF SHVALID(x) THEN x.got ELSE Loaded(x)
             Bytes == {<<Place(x, n), x.base + n>> : n \in x.done + 1 .. upto}
             Now == x.base + x.done .. x.base + upto - 1
  <1>1. /\ x.done < upto
        /\ fifo' = [fifo EXCEPT ![f].done = upto]
        /\ memory' = memory \cup Bytes
        /\ UNCHANGED <<sg_list, scb, resid, uses, received, pos, contexts,
                       status, host, misled, ended>>
    BY DEF Drain
  <1>2. /\ Total \in Nat /\ sg_list \in SgLists /\ x \in Contexts
        /\ y \in Contexts /\ View(x, y) /\ pos \in Nat
        /\ fifo \in [{0, 1} -> Contexts]
    BY Given
  <1>3. z = [x EXCEPT !.done = upto] /\ fifo'[1 - f] = y
    BY <1>1, <1>2, Pair, Zenon
  <1>4. /\ z.got = x.got /\ z.ours = x.ours /\ z.fresh = x.fresh
        /\ z.segs = x.segs /\ z.done = upto /\ z.base = x.base
        /\ z.over = x.over /\ z.saved = x.saved /\ z.loading = x.loading
        /\ z.handler = x.handler
    <2>1. DOMAIN x = FIELDS BY <1>2, ContextFields
    <2> HIDE DEF x, z, upto
    <2> QED BY <1>3, <2>1, Zenon DEF FIELDS
  <1>5. /\ Context(sg_list, x) /\ Context(sg_list, y)
        /\ Ordered(x, y, pos) /\ Ordered(y, x, pos)
        /\ Based(sg_list, x, y, scb, host) /\ Based(sg_list, y, x, scb, host)
        /\ LoadsNext(x, resid) /\ LoadsNext(y, resid)
    BY <1>2 DEF View
  <1>6. /\ x.got \in Nat /\ x.done \in Nat /\ x.base \in Nat
        /\ y.got \in Nat /\ y.done \in Nat /\ y.base \in Nat
    BY <1>2, ContextTyped
  <1>7. x.ours /\ ~x.fresh
    <2>1. CASE ~x.ours
      <3>1. x.got = 0 /\ x.done = 0 /\ Loaded(x) = 0
        BY <1>5, <2>1 DEF Context, Idle, Loaded
      <3> QED BY <1>1, <3>1
    <2>2. CASE x.ours /\ x.fresh
      <3>1. x.done = 0 /\ Loaded(x) = 0
        BY <1>5, <2>2 DEF Context, Announced, Loaded
      <3>2. ~ (x.got < 0) BY <1>6
      <3> QED BY <1>1, <3>1, <3>2 DEF SHVALID
    <2> QED BY <2>1, <2>2
  <1> HIDE DEF x, y, z
  <1>8. sg_list # <<>> /\ List(sg_list) /\ Served(sg_list, x)
    BY <1>2, <1>5, <1>7, FifoLists DEF Context
  <1>9. Loaded(x) \in Nat /\ x.done <= x.got
    BY <1>2, <1>8, LoadedIs DEF Served
  <1>10. upto \in Nat /\ upto <= x.got /\ upto <= Loaded(x)
    BY <1>6, <1>9 DEF SHVALID
  <1>11. x.handler # "ctxt"
    <2>1. x.done < x.got BY <1>1, <1>6, <1>10
    <2>2. x.done # x.got BY <1>6, <2>1
    <2> QED BY <1>8, <2>2 DEF Served
  <1>12. Bytes = {<<k, k + 1>> : k \in Now}
    <2>1. ASSUME NEW n \in x.done + 1 .. upto
          PROVE  Place(x, n) = x.base + n - 1
      <3>1. n \in 1 .. Loaded(x) BY <1>6, <1>9, <1>10
      <3> QED BY <1>2, <1>8, <3>1, PlaceOf DEF Served
    <2> HIDE DEF upto
    <2>2. ASSUME NEW b \in Bytes
          PROVE  \E k \in Now : b = <<k, k + 1>>
      <3>1. PICK n \in x.done + 1 .. upto : b = <<Place(x, n), x.base + n>>
        OBVIOUS
      <3>2. /\ x.base + n - 1 \in Now
            /\ x.base + n = x.base + n - 1 + 1
        BY <1>6, <1>10
      <3> QED BY <2>1, <3>1, <3>2
    <2>3. ASSUME NEW k \in Now
          PROVE  <<k, k + 1>> \in Bytes
      <3>1. /\ k - x.base + 1 \in x.done + 1 .. upto
            /\ x.base + (k - x.base + 1) - 1 = k
            /\ x.base + (k - x.base + 1) = k + 1
        BY <1>6, <1>10
      <3>2. Place(x, k - x.base + 1) = k BY <2>1, <3>1
      <3> QED BY <3>1, <3>2
    <2> QED BY <2>2, <2>3, Zenon
  <1> HIDE DEF upto, Bytes
  <1>13. Stored(z, y, pos) = Stored(x, y, pos) \cup Now
    <2>1. x.base + x.got <= pos BY <1>5 DEF Ordered
    <2>2. ASSUME NEW k \in Now PROVE ~InFifo(y, k)
      <3>1. CASE ~y.ours
        <4>1. y.base = 0 /\ y.got = 0 /\ y.done = 0
          BY <1>5, <3>1 DEF Context, Idle
        <4> QED BY <1>6, <1>10, <4>1 DEF InFifo
      <3>2. CASE y.ours
        <4>1. x.base < y.base \/ y.base < x.base
          <5>1. x.base # y.base BY <1>5, <1>7, <3>2 DEF Ordered
          <5> QED BY <1>6, <5>1
        <4>2. CASE x.base < y.base
          <5>1. x.base + x.got <= y.base
            BY <1>5, <1>7, <3>2, <4>2 DEF Ordered, Precedes
          <5> QED BY <1>6, <1>10, <5>1 DEF InFifo
        <4>3. CASE y.base < x.base
          <5>1. y.base + y.got <= x.base
            BY <1>5, <1>7, <3>2, <4>3 DEF Ordered, Precedes
          <5> QED BY <1>6, <1>10, <5>1 DEF InFifo
        <4> QED BY <4>1, <4>2, <4>3
      <3> QED BY <3>1, <3>2
    <2>3. ASSUME NEW k \in 0 .. pos - 1
          PROVE  ~InFifo(z, k) <=> ~InFifo(x, k) \/ k \in Now
      BY <1>1, <1>2, <1>4, <1>6, <1>10 DEF InFifo
    <2>4. Now \subseteq 0 .. pos - 1 BY <1>2, <1>6, <1>10, <2>1
    <2> HIDE DEF Now
    <2> QED BY <2>2, <2>3, <2>4, Zenon DEF Stored
  <1>14. memory' = {<<k, k + 1>> : k \in Stored(z, y, pos)}
    <2>1. memory = {<<k, k + 1>> : k \in Stored(x, y, pos)}
      BY <1>2, Zenon DEF View
    <2>2. memory' = memory \cup {<<k, k + 1>> : k \in Now}
      BY <1>1, <1>12, Zenon
    <2> HIDE DEF Now
    <2> QED BY <1>13, <2>1, <2>2
  <1>15. /\ Newest(z) = Newest(x) /\ Loaded(z) = Loaded(x)
         /\ Covers(sg_list, z) <=> Covers(sg_list, x)
    BY <1>4, SameSegments
  <1>16. (Pending(z) <=> Pending(x)) /\ (Precedes(z, y) <=> Precedes(x, y))
         /\ (Precedes(y, z) <=> Precedes(y, x))
         /\ (Blocks(y, z) <=> Blocks(y, x)) /\ (Blocks(z, y) <=> Blocks(x, y))
    BY <1>4, Zenon DEF Pending, Precedes, Blocks
  <1>17. Ordered(z, y, pos) /\ Ordered(y, z, pos)
    BY <1>4, <1>5, <1>16, Zenon DEF Ordered
  <1>18. Context(sg_list, z)
    <2>1. Served(sg_list, z)
      BY <1>4, <1>8, <1>10, <1>11, <1>15, Zenon DEF Served
    <2> QED BY <1>4, <1>5, <1>7, <2>1, Zenon DEF Context
  <1>19. Based(sg_list, z, y, scb, host) /\ Based(sg_list, y, z, scb, host)
         /\ LoadsNext(z, resid)
    BY <1>4, <1>5, <1>15, <1>16, Zenon DEF Based, LoadsNext
  <1>20. ended = "no"
    <2>1. ended # "no" => ~x.ours BY <1>2 DEF View, Idle
    <2> QED BY <1>7, <2>1
  <1>21. View(fifo[f], fifo[1 - f])'
    <2>1. scb.full => Untouched(z, y, pos)
      BY <1>2, <1>4, Zenon DEF View, Untouched
    <2>2. /\ ~Pending(z) /\ ~Pending(y) /\ host = "away" /\ ended = "no"
                => AtTarget(scb, resid, pos)
          /\ uses = One(z.handler # "none") + One(y.handler # "none")
          /\ status # "none" => (z.ours => z.over) /\ (y.ours => y.over)
      BY <1>2, <1>4, <1>16, Zenon DEF View
    <2>3. AtTarget(scb, resid, pos)' <=> AtTarget(scb, resid, pos)
      BY <1>1, SameBuffer DEF AtTarget
    <2> QED
      BY <1>1, <1>3, <1>5, <1>14, <1>17, <1>18, <1>19, <1>20, <2>1, <2>2, <2>3,
         Zenon
      DEF View, z
  <1>22. TypeOK'
    <2>1. z \in Contexts
      <3>1. upto \in 0 .. Total
        <4>1. x.got <= Total BY <1>2, ContextTyped
        <4> QED BY <1>2, <1>6, <1>10, <4>1
      <3> QED BY <1>2, <1>3, <3>1 DEF Contexts
    <2>2. fifo' = [fifo EXCEPT ![f] = z]
      BY <1>1, <1>3, Zenon DEF x
    <2>3. fifo' \in [{0, 1} -> Contexts] BY <1>2, <2>1, <2>2, Updated
    <2> QED BY <1>1, <2>3, SameBuffer DEF FInv, TypeOK
  <1>23. Phases' BY <1>1, <1>20 DEF FInv, Phases
  <1> QED BY <1>1, <1>21, <1>22, <1>23, SeenNext DEF FInv

LEMMA ScbFields ==
  ASSUME FInv
  PROVE  /\ scb \in [at : 0 .. Total, cnt : 0 .. Total, last : BOOLEAN,
                     next : Nat, null : BOOLEAN, full : BOOLEAN]
         /\ resid \in [cnt : 0 .. Total, last : BOOLEAN, next : Nat,
                       null : BOOLEAN]
  BY DEF FInv, TypeOK

\* The context the chip announces is the one the SCB is for.
LEMMA AnnouncedIs ==
  ASSUME FInv, NEW f \in {0, 1}, CFG4DATA(f)
  PROVE  /\ fifo[f].ours /\ fifo[f].fresh /\ Pending(fifo[f])
         /\ Announced(fifo[f])
         /\ ScbNear(sg_list, scb, fifo[f].base)
         /\ host = "away" \/ Pending(fifo[1 - f])
               => ScbAt(sg_list, scb, fifo[f].base)
         /\ ~Blocks(fifo[1 - f], fifo[f])
         /\ Pending(fifo[1 - f]) => fifo[1 - f].fresh
         /\ ended = "no"
  <1> DEFINE x == fifo[f]
             y == fifo[1 - f]
  <1>1. /\ Total \in Nat /\ sg_list \in SgLists /\ x \in Contexts
        /\ y \in Contexts /\ View(x, y)
    BY Given
  <1>2. x.fresh /\ ~(Unsaved(y) /\ y.base < x.base) BY DEF CFG4DATA
  <1>3. /\ Context(sg_list, x) /\ Context(sg_list, y)
        /\ Ordered(x, y, pos) /\ Ordered(y, x, pos)
        /\ Based(sg_list, x, y, scb, host)
    BY <1>1 DEF View
  <1>4. /\ x.got \in Nat /\ x.done \in Nat /\ x.base \in Nat
        /\ y.got \in Nat /\ y.done \in Nat /\ y.base \in Nat
    BY <1>1, ContextTyped
  <1>5. ended = "no"
    <2>1. ended # "no" => ~x.fresh BY <1>1 DEF View, Idle
    <2> QED BY <1>2, <2>1
  <1> HIDE DEF x, y
  <1>6. x.ours /\ Announced(x)
    <2>1. x.ours BY <1>2, <1>3 DEF Context, Idle
    <2> QED BY <1>2, <1>3, <2>1 DEF Context
  <1>7. Pending(x) BY <1>6 DEF Pending, Announced
  <1>8. sg_list # <<>> /\ List(sg_list) /\ x.base < Size(sg_list)
    BY <1>1, <1>3, <1>6, FifoLists DEF Context
  <1>9. ~Blocks(y, x)
    <2> SUFFICES ASSUME Blocks(y, x) PROVE FALSE OBVIOUS
    <2>1. y.ours /\ y.base < x.base /\ ~y.saved
      BY DEF Blocks, Precedes, Pending
    <2>2. LAST_SEG_DONE(y) BY <1>2, <2>1 DEF Unsaved
    <2>3. ~y.fresh
      <3>1. y.segs # <<>> BY <2>2 DEF LAST_SEG_DONE
      <3> QED BY <1>3, <2>1, <3>1 DEF Context, Announced
    <2>4. Served(sg_list, y) BY <1>3, <2>1, <2>3 DEF Context
    <2>5. y.base + Loaded(y) = Size(sg_list) /\ Loaded(y) \in Nat
      BY <1>1, <1>8, <2>2, <2>4, LoadedIs DEF LAST_SEG_DONE, Served
    <2>6. Loaded(y) <= y.got BY <2>2, <2>4 DEF LAST_SEG_DONE, Served
    <2>7. y.base + y.got <= x.base
      BY <1>3, <1>6, <2>1 DEF Ordered, Precedes
    <2>8. Size(sg_list) \in Nat BY <1>8, Ends
    <2> QED BY <1>4, <1>8, <2>5, <2>6, <2>7, <2>8
  <1>10. /\ ScbNear(sg_list, scb, x.base)
         /\ host = "away" \/ Pending(y) => ScbAt(sg_list, scb, x.base)
    BY <1>3, <1>7, <1>9 DEF Based
  <1>11. Pending(y) => y.fresh
    <2> SUFFICES ASSUME Pending(y) PROVE y.fresh OBVIOUS
    <2>1. y.ours BY DEF Pending
    <2>2. ~ (y.base < x.base) BY <1>6, <1>9, <2>1 DEF Blocks, Precedes
    <2>3. x.base # y.base BY <1>3, <1>6, <2>1 DEF Ordered
    <2>4. x.base < y.base BY <1>4, <2>2, <2>3
    <2>5. Blocks(x, y) BY <1>6, <1>7, <2>1, <2>4 DEF Blocks, Precedes
    <2> QED BY <1>3, <2>5 DEF Ordered
  <1> QED BY <1>2, <1>5, <1>6, <1>7, <1>9, <1>10, <1>11 DEF x, y

LEMMA OpenStep ==
  ASSUME FInv, NEW f \in {0, 1}, NEW h \in {"xfer", "fake"}, CFG4DATA(f),
         fifo' = [fifo EXCEPT ![f].fresh = FALSE, ![f].handler = h,
                              ![f].segs = <<FirstSegment>>,
                              ![f].loading = ~scb.last],
         scb' = [scb EXCEPT !.full = FALSE],
         resid' = [resid EXCEPT !.last = scb.last, !.next = scb.next,
                                !.null = FALSE],
         uses' = uses + 1,
         ScbAt(sg_list, scb, fifo[f].base),
         UNCHANGED <<sg_list, received, pos, contexts, status, host, memory,
                     misled, ended>>
  PROVE  FInv'
  <1> DEFINE x == fifo[f]
             y == fifo[1 - f]
             z == fifo'[f]
             g == FirstSegment
  <1>1. /\ Total \in Nat /\ sg_list \in SgLists /\ x \in Contexts
        /\ y \in Contexts /\ View(x, y) /\ pos \in Nat
        /\ fifo \in [{0, 1} -> Contexts]
    BY Given
  <1>2. /\ x.ours /\ x.fresh /\ Pending(x) /\ Announced(x) /\ ended = "no"
        /\ ScbAt(sg_list, scb, x.base) /\ ~Blocks(y, x)
        /\ Pending(y) => y.fresh
    BY AnnouncedIs
  <1>3. z = [x EXCEPT !.fresh = FALSE, !.handler = h, !.segs = <<g>>,
                      !.loading = ~scb.last]
        /\ fifo'[1 - f] = y
    BY <1>1, Pair, Zenon
  <1>4. /\ z.got = x.got /\ z.ours = x.ours /\ z.fresh = FALSE
        /\ z.segs = <<g>> /\ z.done = x.done /\ z.base = x.base
        /\ z.over = x.over /\ z.saved = x.saved /\ z.loading = ~scb.last
        /\ z.handler = h
    <2>1. DOMAIN x = FIELDS BY <1>1, ContextFields
    <2> HIDE DEF x, z, g
    <2> QED BY <1>3, <2>1, Zenon DEF FIELDS
  <1>5. /\ Context(sg_list, x) /\ Context(sg_list, y)
        /\ Ordered(x, y, pos) /\ Ordered(y, x, pos)
        /\ Based(sg_list, x, y, scb, host) /\ Based(sg_list, y, x, scb, host)
        /\ LoadsNext(x, resid) /\ LoadsNext(y, resid)
    BY <1>1 DEF View
  <1>6. /\ x.got \in Nat /\ x.done \in Nat /\ x.base \in Nat
    BY <1>1, ContextTyped
  <1>7. /\ scb'.at = scb.at /\ scb'.cnt = scb.cnt /\ scb'.last = scb.last
        /\ scb'.next = scb.next /\ scb'.null = scb.null /\ scb'.full = FALSE
        /\ resid'.last = scb.last /\ resid'.next = scb.next
        /\ resid'.null = FALSE /\ resid'.cnt = resid.cnt
    BY ScbFields
  <1>8. g.at = scb.at /\ g.cnt = scb.cnt /\ g.last = scb.last
        /\ g.next = scb.next /\ g.upto = scb.cnt
    BY DEF FirstSegment
  <1>9. scb' \in [at : 0 .. Total, cnt : 0 .. Total, last : BOOLEAN,
                  next : Nat, null : BOOLEAN, full : BOOLEAN]
        /\ resid' \in [cnt : 0 .. Total, last : BOOLEAN, next : Nat,
                       null : BOOLEAN]
        /\ g \in [at : 0 .. Total, cnt : 0 .. Total, last : BOOLEAN,
                  next : Nat, upto : 0 .. Total]
    BY ScbFields DEF FirstSegment
  <1> HIDE DEF x, y, z, g
  <1>10. /\ sg_list # <<>> /\ List(sg_list) /\ x.base < Size(sg_list)
         /\ Total = Size(sg_list)
    BY <1>1, <1>2, <1>5, FifoLists DEF Context
  <1>11. Part(sg_list, x.base, g)
    <2> DEFINE s == Segm(sg_list, x.base + 1)
    <2>1. /\ s \in 1 .. Len(sg_list) /\ Start(sg_list, s) < x.base + 1
          /\ x.base + 1 <= sg_list[s]
      <3>1. x.base + 1 \in 1 .. Size(sg_list) BY <1>1, <1>6, <1>10
      <3> QED BY <1>10, <3>1, InSegment
    <2>2. /\ scb.at = x.base /\ scb.cnt = sg_list[s] - x.base
          /\ scb.last = (s = Len(sg_list)) /\ scb.next = s + 1
      <3>1. x.base # Size(sg_list) BY <1>1, <1>6, <1>10
      <3> QED BY <1>2, <1>10, <3>1 DEF ScbAt, ScbNear
    <2> HIDE DEF s
    <2>3. /\ sg_list[s] \in Nat /\ Start(sg_list, s) \in Nat
          /\ Len(sg_list) \in Nat
      BY <1>10, <2>1, Ends
    <2>4. g.next - 1 = s BY <1>8, <2>1, <2>2, <2>3
    <2>5. /\ x.base + g.upto = sg_list[s]
          /\ g.at = x.base + g.upto - g.cnt /\ Start(sg_list, s) <= g.at
          /\ {g.cnt, g.upto} \subseteq Nat \ {0} /\ g.cnt <= g.upto
      BY <1>6, <1>8, <2>1, <2>2, <2>3
    <2>6. g.last = (s = Len(sg_list)) BY <1>8, <2>2
    <2> QED BY <2>1, <2>4, <2>5, <2>6, Zenon DEF Part
  <1>12. /\ Newest(z) = g /\ Loaded(z) = scb.cnt
         /\ z.segs # <<>> /\ DOMAIN z.segs = {1} /\ z.segs[1] = g
    BY <1>4, <1>8 DEF Newest, Loaded
  <1>13. Covers(sg_list, z)
    <2>1. \A n \in 1 .. Loaded(z) : g.upto - g.cnt < n /\ n <= g.upto
      <3>1. scb.cnt \in Nat BY <1>8, <1>11 DEF Part
      <3> QED BY <1>8, <1>12, <3>1
    <2>2. \A i, j \in {1} : ~ (i < j) OBVIOUS
    <2> QED BY <1>4, <1>11, <1>12, <2>1, <2>2, Zenon DEF Covers
  <1>14. Served(sg_list, z)
    <2>1. z.done <= z.got /\ z.done <= Loaded(z)
      <3>1. x.done = 0 /\ scb.cnt \in Nat
        BY <1>2, <1>8, <1>11 DEF Announced, Part
      <3> QED BY <1>4, <1>6, <1>12, <3>1
    <2>2. h # "none" /\ h # "ctxt" /\ h # "drain" OBVIOUS
    <2>3. ~z.saved BY <1>2, <1>4 DEF Announced
    <2>4. z.loading = ~Newest(z).last BY <1>4, <1>8, <1>12
    <2> QED BY <1>4, <1>13, <2>1, <2>2, <2>3, <2>4, Zenon DEF Served
  <1>15. Context(sg_list, z)
    BY <1>2, <1>4, <1>5, <1>10, <1>14, Zenon DEF Context
  <1>16. /\ Pending(z)
         /\ (Precedes(z, y) <=> Precedes(x, y))
         /\ (Precedes(y, z) <=> Precedes(y, x))
         /\ (Blocks(y, z) <=> Blocks(y, x)) /\ (Blocks(z, y) <=> Blocks(x, y))
    <2>1. ~x.saved /\ h # "ctxt" BY <1>2 DEF Pending
    <2>2. Pending(z) BY <1>2, <1>4, <2>1 DEF Pending
    <2> QED BY <1>2, <1>4, <2>2, Zenon DEF Precedes, Blocks
  <1>17. Ordered(z, y, pos)
    BY <1>2, <1>4, <1>5, <1>16, Zenon DEF Ordered
  <1>18. Ordered(y, z, pos)
    BY <1>2, <1>4, <1>5, <1>16, Zenon DEF Ordered
  <1>19. Based(sg_list, z, y, scb', host) /\ Based(sg_list, y, z, scb', host)
    <2>1. \A q : /\ ScbAt(sg_list, scb', q) <=> ScbAt(sg_list, scb, q)
                 /\ ScbNear(sg_list, scb', q) <=> ScbNear(sg_list, scb, q)
      BY <1>7, Zenon DEF ScbAt, ScbNear
    <2> QED BY <1>2, <1>4, <1>5, <1>16, <2>1, Zenon DEF Based
  <1>20. LoadsNext(z, resid') /\ LoadsNext(y, resid')
    BY <1>2, <1>7, <1>8, <1>12, Zenon DEF LoadsNext
  <1>21. Stored(z, y, pos) = Stored(x, y, pos)
    BY <1>4, Zenon DEF Stored, InFifo
  <1>22. View(fifo[f], fifo[1 - f])'
    <2>1. memory = {<<k, k + 1>> : k \in Stored(z, y, pos)}
      BY <1>1, <1>21, Zenon DEF View
    <2>2. status # "none" => (z.ours => z.over) /\ (y.ours => y.over)
      BY <1>1, <1>4, Zenon DEF View
    <2>3. uses + 1 = One(z.handler # "none") + One(y.handler # "none")
      <3>1. uses = One(x.handler # "none") + One(y.handler # "none")
        BY <1>1, Zenon DEF View
      <3>2. One(x.handler # "none") = 0 /\ One(z.handler # "none") = 1
        BY <1>2, <1>4 DEF Announced, One
      <3>3. One(y.handler # "none") \in Nat BY DEF One
      <3> QED BY <3>1, <3>2, <3>3
    <2> QED
      BY <1>2, <1>3, <1>5, <1>7, <1>15, <1>16, <1>17, <1>18, <1>19, <1>20,
         <2>1, <2>2, <2>3, Zenon
      DEF View, z
  <1>23. TypeOK'
    <2>1. z \in Contexts
      <3>1. <<g>> \in Seq([at : 0 .. Total, cnt : 0 .. Total, last : BOOLEAN,
                           next : Nat, upto : 0 .. Total])
        BY <1>9
      <3>2. (~scb.last) \in BOOLEAN BY Zenon
      <3> QED BY <1>1, <1>3, <3>1, <3>2 DEF Contexts
    <2>2. fifo' = [fifo EXCEPT ![f] = z]
      BY <1>3, Zenon DEF x, g
    <2>3. fifo' \in [{0, 1} -> Contexts] BY <1>1, <2>1, <2>2, Updated
    <2>4. uses' \in 0 .. 2
      <3>1. uses = One(x.handler # "none") + One(y.handler # "none")
        BY <1>1, Zenon DEF View
      <3>2. One(x.handler # "none") = 0
        BY <1>2 DEF Announced, One
      <3>3. One(y.handler # "none") \in 0 .. 1 BY DEF One
      <3> QED BY <3>1, <3>2, <3>3
    <2> QED BY <1>9, <2>3, <2>4, SameBuffer DEF FInv, TypeOK
  <1>24. Phases' BY <1>2 DEF FInv, Phases
  <1> QED BY <1>7, <1>22, <1>23, <1>24, SeenNext DEF FInv

\* A further segment is the next one of the list.
LEMMA CoversMore ==
  ASSUME Total \in Nat, sg_list # <<>>, List(sg_list), Total = Size(sg_list),
         NEW x \in Contexts, Covers(sg_list, x), ~Newest(x).last,
         NEW z, z.base = x.base,
         NEW g, g = Following(x, Segment(Newest(x).next)),
         z.segs = Append(x.segs, g)
  PROVE  /\ g \in SegType /\ Segment(Newest(x).next).last = g.last
         /\ Segment(Newest(x).next).next = g.next
         /\ Newest(z) = g /\ Loaded(z) >= Loaded(x)
         /\ Covers(sg_list, z)
  <1> DEFINE m == Len(x.segs)
             t == Newest(x).next
  <1>1. /\ m \in Nat \ {0} /\ DOMAIN x.segs = 1 .. m
        /\ Loaded(x) = Newest(x).upto /\ Loaded(x) \in Nat \ {0}
        /\ t - 1 \in 1 .. Len(sg_list) /\ x.base + Loaded(x) = sg_list[t - 1]
        /\ t - 1 # Len(sg_list)
        /\ \A i \in DOMAIN x.segs : x.segs[i].upto <= Loaded(x)
    BY LoadedIs
  <1>2. x.segs \in Seq(SegType) /\ x.base \in Nat BY ContextTyped
  <1>3. t \in Nat
    <2>1. Newest(x) \in SegType
      <3>1. m \in 1 .. Len(x.segs) BY <1>1
      <3> QED BY <1>2, <3>1, ElementOfSeq DEF Newest
    <2> QED BY <2>1 DEF SegType
  <1> HIDE DEF t
  <1>4. /\ Len(sg_list) \in Nat /\ t \in 1 .. Len(sg_list) /\ t # 1
    <2>1. Len(sg_list) \in Nat BY Ends
    <2> QED BY <1>1, <1>3, <2>1
  <1>5. /\ StartOf(t) = sg_list[t - 1] /\ Start(sg_list, t) = sg_list[t - 1]
    BY <1>4 DEF StartOf, Start
  <1>6. /\ sg_list[t] \in Nat /\ sg_list[t - 1] \in Nat
        /\ sg_list[t - 1] < sg_list[t] /\ sg_list[t] <= Total
    BY <1>1, <1>4, <1>5, Ends
  <1>7. /\ g.at = sg_list[t - 1] /\ g.cnt = sg_list[t] - sg_list[t - 1]
        /\ g.last = (t = Len(sg_list)) /\ g.next = t + 1
        /\ g.upto = Loaded(x) + (sg_list[t] - sg_list[t - 1])
        /\ Segment(t).last = g.last /\ Segment(t).next = g.next
        /\ g = [at |-> g.at, cnt |-> g.cnt, last |-> g.last, next |-> g.next,
                upto |-> g.upto]
    <2>1. g = [at |-> Segment(t).at, cnt |-> Segment(t).cnt,
               last |-> Segment(t).last, next |-> Segment(t).next,
               upto |-> Newest(x).upto + Segment(t).cnt]
      BY DEF Following, t
    <2>2. /\ Segment(t).at = sg_list[t - 1]
          /\ Segment(t).cnt = sg_list[t] - sg_list[t - 1]
          /\ Segment(t).last = (t = Len(sg_list))
          /\ Segment(t).next = t + 1
      BY <1>5 DEF Segment
    <2> HIDE DEF m
    <2> QED BY <1>1, <2>1, <2>2
  <1>8. x.base + g.upto = sg_list[t] /\ g.upto \in Nat /\ g.upto > Loaded(x)
        /\ g.upto - g.cnt = Loaded(x) /\ g.cnt \in Nat \ {0}
        /\ g.upto <= Total /\ g.cnt <= g.upto
    <2> DEFINE a == sg_list[t - 1]
               b == sg_list[t]
    <2>1. g.cnt = b - a /\ g.upto = Loaded(x) + (b - a) BY <1>7
    <2>2. a \in Nat /\ b \in Nat /\ a < b /\ b <= Total BY <1>6
    <2>3. x.base + Loaded(x) = a /\ Loaded(x) \in Nat /\ x.base \in Nat
      BY <1>1, <1>2
    <2> HIDE DEF a, b
    <2>4. g.cnt \in Nat \ {0} /\ g.upto \in Nat /\ g.upto = Loaded(x) + g.cnt
      BY <2>1, <2>2, <2>3
    <2>5. x.base + g.upto = b
      <3>1. x.base = a - Loaded(x) BY <2>2, <2>3
      <3>2. g.upto = Loaded(x) + (b - a) BY <2>1
      <3>3. a - Loaded(x) + (Loaded(x) + (b - a)) = b BY <2>2, <2>3
      <3> QED BY <3>1, <3>2, <3>3
    <2>6. g.upto > Loaded(x) /\ g.upto - g.cnt = Loaded(x) /\ g.cnt <= g.upto
      BY <2>3, <2>4
    <2>7. g.upto <= Total BY <1>6, <2>2, <2>3, <2>4, <2>5
    <2> QED BY <2>4, <2>5, <2>6, <2>7 DEF b
  <1>9. g \in SegType
    <2>1. /\ g.at \in 0 .. Total /\ g.cnt \in 0 .. Total /\ g.next \in Nat
          /\ g.upto \in 0 .. Total
      <3>1. sg_list[t - 1] \in 0 .. Total BY <1>6
      <3>2. g.upto \in 0 .. Total /\ g.cnt \in 0 .. Total BY <1>8
      <3>3. t + 1 \in Nat BY <1>3
      <3> QED BY <1>7, <3>1, <3>2, <3>3
    <2>2. g.last \in BOOLEAN BY <1>7
    <2> QED BY <1>7, <2>1, <2>2 DEF SegType
  <1>10. Part(sg_list, x.base, g)
    <2>1. g.next - 1 = t BY <1>3, <1>7
    <2>2. g.at = x.base + g.upto - g.cnt BY <1>1, <1>2, <1>6, <1>7, <1>8
    <2>3. Start(sg_list, t) <= g.at BY <1>5, <1>6, <1>7
    <2>4. {g.cnt, g.upto} \subseteq Nat \ {0} BY <1>1, <1>8
    <2>5. g.last = (t = Len(sg_list)) BY <1>7
    <2> QED BY <1>4, <1>8, <2>1, <2>2, <2>3, <2>4, <2>5, Zenon DEF Part
  <1>11. /\ z.segs \in Seq(SegType) /\ Len(z.segs) = m + 1
         /\ z.segs[m + 1] = g /\ DOMAIN z.segs = 1 .. m + 1
         /\ \A i \in 1 .. m : z.segs[i] = x.segs[i]
    <2>1. /\ z.segs \in Seq(SegType) /\ Len(z.segs) = m + 1
          /\ z.segs[m + 1] = g
          /\ \A i \in 1 .. m : z.segs[i] = x.segs[i]
      BY <1>2, <1>9, AppendProperties
    <2> QED BY <2>1, LenProperties
  <1> HIDE DEF m
  <1>12. Newest(z) = g /\ z.segs # <<>> /\ Loaded(z) = g.upto
    <2>1. Newest(z) = g BY <1>11 DEF Newest
    <2>2. z.segs # <<>>
      <3>1. Len(z.segs) # 0 BY <1>1, <1>11
      <3> QED BY <3>1, EmptySeq
    <2> QED BY <2>1, <2>2 DEF Loaded
  <1>13. \A i \in 1 .. m + 1 : i \in 1 .. m \/ i = m + 1 BY <1>1
  <1>14. ASSUME NEW i \in DOMAIN z.segs PROVE Part(sg_list, z.base, z.segs[i])
    <2>1. CASE i \in 1 .. m BY <1>1, <1>11, <2>1 DEF Covers
    <2>2. CASE i = m + 1 BY <1>10, <1>11, <2>2
    <2> QED BY <1>11, <1>13, <2>1, <2>2
  <1>15. ASSUME NEW i \in DOMAIN z.segs, NEW j \in DOMAIN z.segs, i < j
         PROVE  z.segs[i].upto <= z.segs[j].upto - z.segs[j].cnt
    <2>1. i \in 1 .. m BY <1>1, <1>11, <1>15
    <2>2. CASE j \in 1 .. m BY <1>1, <1>11, <1>15, <2>1, <2>2 DEF Covers
    <2>3. CASE j = m + 1 BY <1>1, <1>8, <1>11, <2>1, <2>3
    <2> QED BY <1>11, <1>13, <2>2, <2>3
  <1>16. ASSUME NEW n \in 1 .. Loaded(z)
         PROVE  \E i \in DOMAIN z.segs :
                   z.segs[i].upto - z.segs[i].cnt < n /\ n <= z.segs[i].upto
    <2>1. CASE n <= Loaded(x)
      <3>1. n \in 1 .. Loaded(x) BY <1>1, <1>8, <1>12, <2>1
      <3>2. PICK i \in DOMAIN x.segs :
               x.segs[i].upto - x.segs[i].cnt < n /\ n <= x.segs[i].upto
        BY <3>1 DEF Covers
      <3>3. i \in DOMAIN z.segs /\ z.segs[i] = x.segs[i] BY <1>1, <1>11
      <3> QED BY <3>2, <3>3
    <2>2. CASE ~ (n <= Loaded(x))
      <3>1. g.upto - g.cnt < n /\ n <= g.upto BY <1>1, <1>8, <1>12, <2>2
      <3>2. m + 1 \in DOMAIN z.segs BY <1>1, <1>11
      <3> QED BY <1>11, <3>1, <3>2
    <2> QED BY <2>1, <2>2
  <1>17. Covers(sg_list, z)
    BY <1>12, <1>14, <1>15, <1>16, Zenon DEF Covers
  <1> QED BY <1>1, <1>7, <1>8, <1>9, <1>12, <1>17 DEF t

LEMMA LoadStep ==
  ASSUME FInv, NEW f \in {0, 1}, fifo[f].loading, Load(f, Segment(resid.next))
  PROVE  FInv'
  <1> DEFINE x == fifo[f]
             y == fifo[1 - f]
             z == fifo'[f]
             seg == Segment(resid.next)
             g == Following(x, seg)
  <1>1. /\ fifo' = [fifo EXCEPT ![f].segs = Append(@, g),
                                ![f].loading = ~seg.last]
        /\ resid' = [resid EXCEPT !.last = seg.last, !.next = seg.next]
        /\ UNCHANGED <<sg_list, scb, uses, received, pos, contexts, status,
                       host, memory, misled, ended>>
    BY DEF Load
  <1>2. /\ Total \in Nat /\ sg_list \in SgLists /\ x \in Contexts
        /\ y \in Contexts /\ View(x, y) /\ pos \in Nat
        /\ fifo \in [{0, 1} -> Contexts]
    BY Given
  <1> HIDE DEF g, seg
  <1>3. z = [x EXCEPT !.segs = Append(x.segs, g), !.loading = ~seg.last]
        /\ fifo'[1 - f] = y
    BY <1>1, <1>2, Pair, Zenon
  <1>4. /\ z.got = x.got /\ z.ours = x.ours /\ z.fresh = x.fresh
        /\ z.segs = Append(x.segs, g) /\ z.done = x.done /\ z.base = x.base
        /\ z.over = x.over /\ z.saved = x.saved /\ z.loading = ~seg.last
        /\ z.handler = x.handler
    <2>1. DOMAIN x = FIELDS BY <1>2, ContextFields
    <2> HIDE DEF x, z
    <2> QED BY <1>3, <2>1, Zenon DEF FIELDS
  <1>5. /\ Context(sg_list, x) /\ Context(sg_list, y)
        /\ Ordered(x, y, pos) /\ Ordered(y, x, pos)
        /\ Based(sg_list, x, y, scb, host) /\ Based(sg_list, y, x, scb, host)
        /\ LoadsNext(x, resid) /\ LoadsNext(y, resid)
    BY <1>2 DEF View
  <1>6. /\ x.got \in Nat /\ x.done \in Nat /\ x.base \in Nat
        /\ y.base \in Nat
    BY <1>2, ContextTyped
  <1>7. x.loading OBVIOUS
  <1> HIDE DEF x, y, z
  <1>8. x.ours /\ ~x.fresh
    <2>1. x.ours BY <1>5, <1>7 DEF Context, Idle
    <2> QED BY <1>5, <1>7, <2>1 DEF Context, Announced
  <1>9. Served(sg_list, x) /\ sg_list # <<>> /\ List(sg_list)
        /\ Total = Size(sg_list)
    BY <1>2, <1>5, <1>8, FifoLists DEF Context
  <1>10. ~x.saved /\ ~Newest(x).last /\ Covers(sg_list, x)
    BY <1>7, <1>9 DEF Served
  <1>11. x.handler # "ctxt"
    <2> SUFFICES ASSUME x.handler = "ctxt" PROVE FALSE OBVIOUS
    <2>1. x.done = x.got /\ x.base + x.got = Size(sg_list)
          /\ x.done <= Loaded(x)
      BY <1>9 DEF Served
    <2>2. /\ x.base + Loaded(x) <= Size(sg_list) /\ Loaded(x) \in Nat
          /\ x.base + Loaded(x) # Size(sg_list)
      BY <1>2, <1>9, <1>10, LoadedIs
    <2>3. Size(sg_list) \in Nat BY <1>9, Ends
    <2> QED BY <1>6, <2>1, <2>2, <2>3
  <1>12. Pending(x) /\ Pending(z) BY <1>4, <1>8, <1>10, <1>11 DEF Pending
  <1>13. resid.next = Newest(x).next BY <1>5, <1>8, <1>12 DEF LoadsNext
  <1>14. /\ g \in SegType /\ seg.last = g.last /\ seg.next = g.next
         /\ Newest(z) = g /\ Loaded(z) >= Loaded(x)
         /\ Covers(sg_list, z)
    BY <1>2, <1>4, <1>9, <1>10, <1>13, CoversMore DEF g, seg
  <1>15. resid'.last = g.last /\ resid'.next = g.next
         /\ resid'.cnt = resid.cnt /\ resid'.null = resid.null
         /\ resid' \in [cnt : 0 .. Total, last : BOOLEAN, next : Nat,
                        null : BOOLEAN]
    <2>1. g.last \in BOOLEAN /\ g.next \in Nat BY <1>14 DEF SegType
    <2> QED BY <1>1, <1>14, <2>1, ScbFields
  <1>16. (Precedes(z, y) <=> Precedes(x, y))
         /\ (Precedes(y, z) <=> Precedes(y, x))
         /\ (Blocks(y, z) <=> Blocks(y, x)) /\ (Blocks(z, y) <=> Blocks(x, y))
    BY <1>4, <1>12, Zenon DEF Precedes, Blocks
  <1>17. Served(sg_list, z)
    <2>1. z.done <= z.got /\ z.done <= Loaded(z)
      <3>1. x.done <= x.got /\ x.done <= Loaded(x) BY <1>9 DEF Served
      <3>2. Loaded(x) \in Nat BY <1>2, <1>9, <1>10, LoadedIs
      <3>3. Loaded(z) \in Nat
        <4>1. z.segs # <<>> /\ g.upto \in Nat
          BY <1>2, <1>14 DEF Covers, SegType
        <4> QED BY <1>14, <4>1 DEF Loaded
      <3> QED BY <1>4, <1>6, <1>14, <3>1, <3>2, <3>3
    <2>2. z.loading = ~Newest(z).last BY <1>4, <1>14
    <2>3. z.handler # "drain" BY <1>4, <1>9, <1>10 DEF Served
    <2> QED BY <1>4, <1>9, <1>10, <1>11, <1>14, <2>1, <2>2, <2>3, Zenon
        DEF Served
  <1>18. Context(sg_list, z)
    BY <1>4, <1>5, <1>8, <1>9, <1>17, Zenon DEF Context
  <1>19. Ordered(z, y, pos) /\ Ordered(y, z, pos)
    BY <1>4, <1>5, <1>12, <1>16, Zenon DEF Ordered
  <1>20. Based(sg_list, z, y, scb, host) /\ Based(sg_list, y, z, scb, host)
    BY <1>4, <1>5, <1>12, <1>16, Zenon DEF Based
  <1>21. LoadsNext(z, resid') /\ LoadsNext(y, resid')
    <2>1. LoadsNext(z, resid') BY <1>14, <1>15 DEF LoadsNext
    <2>2. Pending(y) => y.fresh
      <3> SUFFICES ASSUME Pending(y) PROVE y.fresh OBVIOUS
      <3>1. y.ours BY DEF Pending
      <3>2. x.base # y.base BY <1>5, <1>8, <3>1 DEF Ordered
      <3>3. CASE x.base < y.base
        <4>1. Blocks(x, y) BY <1>8, <1>12, <3>1, <3>3 DEF Blocks, Precedes
        <4> QED BY <1>5, <4>1 DEF Ordered
      <3>4. CASE y.base < x.base
        <4>1. Blocks(y, x) BY <1>8, <3>1, <3>4 DEF Blocks, Precedes
        <4> QED BY <1>5, <1>8, <4>1 DEF Ordered
      <3> QED BY <1>6, <3>2, <3>3, <3>4
    <2> QED BY <2>1, <2>2 DEF LoadsNext
  <1>22. Stored(z, y, pos) = Stored(x, y, pos)
    BY <1>4, Zenon DEF Stored, InFifo
  <1>23. ended = "no"
    <2>1. ended # "no" => ~x.ours BY <1>2 DEF View, Idle
    <2> QED BY <1>8, <2>1
  <1>24. View(fifo[f], fifo[1 - f])'
    <2>1. scb.full => Untouched(z, y, pos)
      BY <1>2, <1>4, Zenon DEF View, Untouched
    <2>2. memory = {<<k, k + 1>> : k \in Stored(z, y, pos)}
      BY <1>2, <1>22, Zenon DEF View
    <2>3. /\ uses = One(z.handler # "none") + One(y.handler # "none")
          /\ status # "none" => (z.ours => z.over) /\ (y.ours => y.over)
      BY <1>2, <1>4, Zenon DEF View
    <2> QED
      BY <1>1, <1>3, <1>5, <1>12, <1>18, <1>19, <1>20, <1>21, <1>23,
         <2>1, <2>2, <2>3, Zenon
      DEF View, z
  <1>25. TypeOK'
    <2>1. z \in Contexts
      <3>1. Append(x.segs, g) \in Seq([at : 0 .. Total, cnt : 0 .. Total,
                       last : BOOLEAN, next : Nat, upto : 0 .. Total])
        <4>1. x.segs \in Seq(SegType) BY <1>2, ContextTyped
        <4> QED BY <1>14, <4>1, AppendProperties DEF SegType
      <3>2. (~seg.last) \in BOOLEAN BY Zenon
      <3> QED BY <1>2, <1>3, <3>1, <3>2 DEF Contexts
    <2>2. fifo' = [fifo EXCEPT ![f] = z]
      BY <1>1, <1>3, Zenon DEF x
    <2>3. fifo' \in [{0, 1} -> Contexts] BY <1>2, <2>1, <2>2, Updated
    <2> QED BY <1>1, <1>15, <2>3, SameBuffer DEF FInv, TypeOK
  <1>26. Phases' BY <1>1, <1>23 DEF FInv, Phases
  <1> QED BY <1>1, <1>15, <1>24, <1>25, <1>26, SeenNext DEF FInv

\* What the SCB and the residual say once the pointers are saved.
LEMMA ResidualTells ==
  ASSUME FInv, NEW f \in {0, 1}, SAVEPTRS(fifo[f])
  PROVE  LET x == fifo[f]
             q == x.base + x.got
             s == Segm(sg_list, q + 1)
         IN  /\ x.ours /\ x.over /\ ~x.fresh /\ ~x.saved /\ x.got < Loaded(x)
             /\ x.handler # "ctxt" /\ Pending(x) /\ Served(sg_list, x)
             /\ sg_list # <<>> /\ List(sg_list) /\ Total = Size(sg_list)
             /\ q \in Nat /\ q < Total /\ s \in 1 .. Len(sg_list)
             /\ SHADDR(x) = q /\ SHCNT(x) = sg_list[s] - q /\ SHCNT(x) \in Nat
             /\ SHCNT(x) <= Total
             /\ Residual(x) = [cnt |-> SHCNT(x), last |-> s = Len(sg_list),
                               next |-> s + 1, null |-> FALSE]
             /\ s = Len(sg_list) => resid.last
  <1> DEFINE x == fifo[f]
             y == fifo[1 - f]
             q == x.base + x.got
             s == Segm(sg_list, q + 1)
  <1>1. x.over /\ ~x.fresh /\ ~x.saved /\ x.got < Loaded(x)
    BY DEF SAVEPTRS, SHVALID
  <1>2. /\ Total \in Nat /\ sg_list \in SgLists /\ x \in Contexts
        /\ View(x, y)
    BY Given
  <1>3. Context(sg_list, x) /\ LoadsNext(x, resid) BY <1>2 DEF View
  <1>4. x.ours BY <1>1, <1>3 DEF Context, Idle
  <1>5. x.got \in Nat /\ x.done \in Nat /\ x.base \in Nat
    BY <1>2, ContextTyped
  <1>6. Served(sg_list, x) /\ sg_list # <<>> /\ List(sg_list)
        /\ Total = Size(sg_list)
    BY <1>1, <1>2, <1>3, <1>4, FifoLists DEF Context
  <1> HIDE DEF x, y
  <1>7. x.handler # "ctxt"
    <2> SUFFICES ASSUME x.handler = "ctxt" PROVE FALSE OBVIOUS
    <2>1. x.base + x.got = Size(sg_list) BY <1>6 DEF Served
    <2>2. x.base + Loaded(x) <= Size(sg_list) /\ Loaded(x) \in Nat
      BY <1>2, <1>6, LoadedIs DEF Served
    <2>3. Size(sg_list) \in Nat BY <1>6, Ends
    <2> QED BY <1>1, <1>5, <2>1, <2>2, <2>3
  <1>8. Pending(x) BY <1>1, <1>4, <1>7 DEF Pending
  <1>9. /\ q \in Nat /\ q < Size(sg_list) /\ q + 1 \in 1 .. Size(sg_list)
        /\ s \in 1 .. Len(sg_list)
        /\ SG_CACHE_SHADOW(x).next = s + 1
        /\ SG_CACHE_SHADOW(x).last = (s = Len(sg_list))
        /\ SG_CACHE_SHADOW(x).last => Newest(x) = SG_CACHE_SHADOW(x)
        /\ SHCNT(x) = sg_list[s] - q /\ SHCNT(x) \in Nat
        /\ SHADDR(x) = q
    BY <1>1, <1>2, <1>6, ShadowIs, Zenon DEF Served
  <1> HIDE DEF q, s
  <1>10. SHCNT(x) <= Total
    <2>1. sg_list[s] \in Nat /\ sg_list[s] <= Size(sg_list)
      BY <1>6, <1>9, Ends
    <2> QED BY <1>2, <1>6, <1>9, <2>1
  <1>11. Residual(x) = [cnt |-> SHCNT(x), last |-> s = Len(sg_list),
                        next |-> s + 1, null |-> FALSE]
    <2>1. CASE ~SG_CACHE_SHADOW(x).last
      <3>1. (s = Len(sg_list)) = FALSE BY <1>9, <2>1
      <3> QED BY <1>9, <2>1, <3>1 DEF Residual
    <2>2. CASE SG_CACHE_SHADOW(x).last
      <3>1. (s = Len(sg_list)) = TRUE BY <1>9, <2>2
      <3>2. /\ resid.next = Newest(x).next /\ resid.last = Newest(x).last
        BY <1>1, <1>3, <1>8 DEF LoadsNext
      <3>3. resid.next = s + 1 /\ resid.last = TRUE
        BY <1>9, <2>2, <3>1, <3>2
      <3>4. resid.null = FALSE BY ScbFields DEF FInv
      <3>5. resid = [cnt |-> resid.cnt, last |-> resid.last,
                     next |-> resid.next, null |-> resid.null]
        BY ScbFields
      <3>6. Residual(x) = [resid EXCEPT !.cnt = SHCNT(x)]
        BY <1>1, <2>2 DEF Residual, SHVALID
      <3>7. [resid EXCEPT !.cnt = SHCNT(x)]
              = [cnt |-> SHCNT(x), last |-> resid.last,
                 next |-> resid.next, null |-> resid.null]
        BY <3>5
      <3> QED BY <3>1, <3>3, <3>4, <3>6, <3>7
    <2> QED BY <2>1, <2>2
  <1>12. s = Len(sg_list) => resid.last
    BY <1>1, <1>3, <1>8, <1>9 DEF LoadsNext
  <1> QED BY <1>1, <1>4, <1>6, <1>7, <1>8, <1>9, <1>10, <1>11, <1>12, Zenon
      DEF x, q, s

LEMMA PointersStep ==
  ASSUME FInv, NEW f \in {0, 1}, SAVEPTRS(fifo[f]),
         NEW h \in {"xfer", "drain", "fake"},
         fifo' = [fifo EXCEPT ![f].saved = TRUE, ![f].loading = FALSE,
                              ![f].handler = h],
         resid' = Residual(fifo[f]),
         scb' \in [at : 0 .. Total, cnt : 0 .. Total, last : BOOLEAN,
                   next : Nat, null : BOOLEAN, full : BOOLEAN],
         ~scb'.full,
         ScbNear(sg_list, scb', fifo[f].base + fifo[f].got),
         host = "away" =>
            ScbAt(sg_list, scb', fifo[f].base + fifo[f].got),
         UNCHANGED <<sg_list, uses, received, pos, contexts, status, host,
                     memory, misled, ended>>
  PROVE  FInv'
  <1> DEFINE x == fifo[f]
             y == fifo[1 - f]
             z == fifo'[f]
             q == x.base + x.got
             s == Segm(sg_list, q + 1)
  <1>1. /\ Total \in Nat /\ sg_list \in SgLists /\ x \in Contexts
        /\ y \in Contexts /\ View(x, y) /\ pos \in Nat
        /\ fifo \in [{0, 1} -> Contexts]
    BY Given
  <1>2. /\ x.ours /\ x.over /\ ~x.fresh /\ ~x.saved /\ x.got < Loaded(x)
        /\ x.handler # "ctxt" /\ Pending(x) /\ Served(sg_list, x)
        /\ sg_list # <<>> /\ List(sg_list) /\ Total = Size(sg_list)
        /\ q \in Nat /\ q < Total /\ s \in 1 .. Len(sg_list)
        /\ SHADDR(x) = q /\ SHCNT(x) = sg_list[s] - q /\ SHCNT(x) \in Nat
        /\ SHCNT(x) <= Total
        /\ Residual(x) = [cnt |-> SHCNT(x), last |-> s = Len(sg_list),
                          next |-> s + 1, null |-> FALSE]
    BY ResidualTells, Zenon
  <1>3. z = [x EXCEPT !.saved = TRUE, !.loading = FALSE, !.handler = h]
        /\ fifo'[1 - f] = y
    BY <1>1, Pair, Zenon
  <1>4. /\ z.got = x.got /\ z.ours = x.ours /\ z.fresh = x.fresh
        /\ z.segs = x.segs /\ z.done = x.done /\ z.base = x.base
        /\ z.over = x.over /\ z.saved = TRUE /\ z.loading = FALSE
        /\ z.handler = h
    <2>1. DOMAIN x = FIELDS BY <1>1, ContextFields
    <2> HIDE DEF x, z
    <2> QED BY <1>3, <2>1, Zenon DEF FIELDS
  <1>5. /\ Context(sg_list, x) /\ Context(sg_list, y)
        /\ Ordered(x, y, pos) /\ Ordered(y, x, pos)
        /\ Based(sg_list, x, y, scb, host) /\ Based(sg_list, y, x, scb, host)
        /\ LoadsNext(x, resid) /\ LoadsNext(y, resid)
    BY <1>1 DEF View
  <1>6. /\ x.got \in Nat /\ x.done \in Nat /\ x.base \in Nat
        /\ y.base \in Nat
    BY <1>1, ContextTyped
  <1>7. /\ resid'.cnt = SHCNT(x) /\ resid'.last = (s = Len(sg_list))
        /\ resid'.next = s + 1 /\ resid'.null = FALSE
        /\ resid' \in [cnt : 0 .. Total, last : BOOLEAN, next : Nat,
                       null : BOOLEAN]
    <2>1. SHCNT(x) \in 0 .. Total BY <1>1, <1>2
    <2>2. s + 1 \in Nat
      <3>1. Len(sg_list) \in Nat BY <1>2, Ends
      <3> HIDE DEF s
      <3> QED BY <1>2, <3>1
    <2> HIDE DEF x, s
    <2> QED BY <1>2, <2>1, <2>2 DEF x
  <1> HIDE DEF x, y, z
  <1>8. /\ Newest(z) = Newest(x) /\ Loaded(z) = Loaded(x)
        /\ Covers(sg_list, z) <=> Covers(sg_list, x)
    BY <1>4, SameSegments
  <1>9. ~Pending(z) /\ (Precedes(z, y) <=> Precedes(x, y))
        /\ (Precedes(y, z) <=> Precedes(y, x)) /\ ~Blocks(z, y)
        /\ (Blocks(y, z) <=> Blocks(y, x))
    BY <1>4, Zenon DEF Pending, Precedes, Blocks
  <1>10. Served(sg_list, z)
    <2>1. h # "none" /\ h # "ctxt" OBVIOUS
    <2> QED BY <1>2, <1>4, <1>8, <2>1, Zenon DEF Served
  <1>11. Context(sg_list, z)
    BY <1>2, <1>4, <1>5, <1>10, Zenon DEF Context
  <1>12. Ordered(z, y, pos) /\ Ordered(y, z, pos)
    BY <1>4, <1>5, <1>9, Zenon DEF Ordered
  <1>13. Pending(y) => Precedes(x, y) /\ y.base = q /\ y.fresh
    <2> SUFFICES ASSUME Pending(y)
                 PROVE  Precedes(x, y) /\ y.base = q /\ y.fresh
      OBVIOUS
    <2>1. y.ours BY DEF Pending
    <2>3. x.base # y.base BY <1>2, <1>5, <2>1 DEF Ordered
    <2>4. CASE x.base < y.base
      <3>1. Precedes(x, y) BY <1>2, <2>1, <2>4 DEF Precedes
      <3>2. x.base + x.got = y.base /\ y.fresh
        BY <1>2, <1>5, <3>1 DEF Ordered, Blocks
      <3> QED BY <3>1, <3>2
    <2>5. CASE y.base < x.base
      <3>1. Blocks(y, x) BY <1>2, <2>1, <2>5 DEF Blocks, Precedes
      <3> QED BY <1>2, <1>5, <3>1 DEF Ordered
    <2> QED BY <1>6, <2>3, <2>4, <2>5
  <1>14. Based(sg_list, y, z, scb', host) /\ Based(sg_list, z, y, scb', host)
    <2>1. ScbNear(sg_list, scb', q) /\ (host = "away" => ScbAt(sg_list, scb', q))
      BY DEF x
    <2> HIDE DEF q
    <2> QED BY <1>9, <1>13, <2>1, Zenon DEF Based
  <1>15. LoadsNext(z, resid') /\ LoadsNext(y, resid')
    BY <1>9, <1>13 DEF LoadsNext
  <1>16. Stored(z, y, pos) = Stored(x, y, pos)
    BY <1>4, Zenon DEF Stored, InFifo
  <1>17. ended = "no"
    <2>1. ended # "no" => ~x.ours BY <1>1 DEF View, Idle
    <2> QED BY <1>2, <2>1
  <1>18. ~Pending(y) /\ host = "away" => AtTarget(scb, resid, pos)'
    <2> SUFFICES ASSUME ~Pending(y), host = "away"
                 PROVE  AtTarget(scb, resid, pos)'
      OBVIOUS
    <2>1. ~Precedes(x, y)
      <3> SUFFICES ASSUME Precedes(x, y) PROVE FALSE OBVIOUS
      <3>1. y.fresh /\ y.ours BY <1>2, <1>5 DEF Ordered, Blocks, Precedes
      <3>2. Announced(y) BY <1>5, <3>1 DEF Context
      <3> QED BY <3>1, <3>2 DEF Announced, Pending
    <2>2. q = pos BY <1>2, <1>5, <2>1 DEF Ordered
    <2>3. ScbAt(sg_list, scb', pos) BY <2>2 DEF x
    <2>4. resid'.cnt + Total - StartOf(resid'.next) = Total - pos
      <3>1. StartOf(s + 1) = Start(sg_list, s + 1) BY DEF StartOf, Start
      <3>2. Len(sg_list) \in Nat BY <1>2, Ends
      <3>3. Start(sg_list, s + 1) = sg_list[s] BY <1>2, <3>2, StartAfter
      <3>4. sg_list[s] \in Nat BY <1>2, Ends
      <3>5. resid'.cnt = sg_list[s] - pos /\ StartOf(resid'.next) = sg_list[s]
        BY <1>2, <1>7, <2>2, <3>1, <3>3
      <3> HIDE DEF s
      <3> QED BY <1>1, <3>4, <3>5
    <2>5. Total' = Total /\ StartOf(resid.next)' = StartOf(resid'.next)
      BY SameBuffer DEF StartOf
    <2> QED BY <2>3, <2>4, <2>5 DEF AtTarget
  <1>19. View(fifo[f], fifo[1 - f])'
    <2>1. memory = {<<k, k + 1>> : k \in Stored(z, y, pos)}
      BY <1>1, <1>16, Zenon DEF View
    <2>2. /\ uses = One(z.handler # "none") + One(y.handler # "none")
          /\ status # "none" => (z.ours => z.over) /\ (y.ours => y.over)
      <3>1. h # "none" /\ x.handler # "none" BY <1>2 DEF Served
      <3> QED BY <1>1, <1>4, <3>1, Zenon DEF View, One
    <2> QED
      BY <1>3, <1>5, <1>11, <1>12, <1>14, <1>15, <1>17, <1>18, <2>1, <2>2,
         Zenon
      DEF View, z
  <1>20. TypeOK'
    <2>1. z \in Contexts BY <1>1, <1>3 DEF Contexts
    <2>2. fifo' = [fifo EXCEPT ![f] = z]
      BY <1>3, Zenon DEF x
    <2>3. fifo' \in [{0, 1} -> Contexts] BY <1>1, <2>1, <2>2, Updated
    <2> QED BY <1>7, <2>3, SameBuffer DEF FInv, TypeOK
  <1>21. Phases' BY <1>17 DEF FInv, Phases
  <1> QED BY <1>7, <1>19, <1>20, <1>21, SeenNext DEF FInv

\* A context that has reached the end of the buffer is the last one.
LEMMA WholeBuffer ==
  ASSUME FInv, NEW f \in {0, 1}, fifo[f].ours, ~fifo[f].fresh,
         LAST_SEG_DONE(fifo[f]) \/ fifo[f].handler = "ctxt"
  PROVE  /\ fifo[f].done = fifo[f].got /\ ~fifo[f].saved
         /\ fifo[f].base + fifo[f].got = Total /\ pos = Total
         /\ sg_list # <<>> /\ Total = Size(sg_list)
         /\ ~Pending(fifo[1 - f])
         /\ fifo[1 - f].handler = "none" => ~fifo[1 - f].ours
  <1> DEFINE x == fifo[f]
             y == fifo[1 - f]
  <1>1. /\ Total \in Nat /\ sg_list \in SgLists /\ x \in Contexts
        /\ y \in Contexts /\ View(x, y) /\ pos \in Nat /\ pos <= Total
    BY Given
  <1>2. /\ Context(sg_list, x) /\ Context(sg_list, y)
        /\ Ordered(x, y, pos) /\ Ordered(y, x, pos)
    BY <1>1 DEF View
  <1>3. /\ x.got \in Nat /\ x.done \in Nat /\ x.base \in Nat
        /\ y.base \in Nat
    BY <1>1, ContextTyped
  <1>4. x.ours /\ ~x.fresh /\ (LAST_SEG_DONE(x) \/ x.handler = "ctxt")
    OBVIOUS
  <1> HIDE DEF x, y
  <1>5. Served(sg_list, x) /\ sg_list # <<>> /\ List(sg_list)
        /\ Total = Size(sg_list)
    BY <1>1, <1>2, <1>4, FifoLists DEF Context
  <1>6. /\ Loaded(x) \in Nat /\ x.base + Loaded(x) <= Size(sg_list)
        /\ Newest(x).last = (x.base + Loaded(x) = Size(sg_list))
    BY <1>1, <1>5, LoadedIs DEF Served
  <1>7. x.base + x.got <= pos BY <1>2 DEF Ordered
  <1>8. x.done = x.got /\ x.base + x.got = Total
    <2>1. CASE x.handler = "ctxt" BY <1>5, <2>1 DEF Served
    <2>2. CASE LAST_SEG_DONE(x)
      <3>1. x.done = Loaded(x) /\ x.base + Loaded(x) = Total
        BY <1>5, <1>6, <2>2 DEF LAST_SEG_DONE
      <3>2. x.done <= x.got BY <1>5 DEF Served
      <3> QED BY <1>1, <1>3, <1>7, <3>1, <3>2
    <2> QED BY <1>4, <2>1, <2>2
  <1>9. pos = Total BY <1>1, <1>7, <1>8
  <1>10. ~x.saved
    <2>1. ~ (x.got < Loaded(x)) BY <1>1, <1>3, <1>5, <1>6, <1>8
    <2> QED BY <1>5, <2>1 DEF Served
  <1>11. y.ours => Precedes(y, x)
    <2> SUFFICES ASSUME y.ours PROVE y.base < x.base
      BY <1>4 DEF Precedes
    <2>1. x.base # y.base /\ y.base < Total
      BY <1>2, <1>4, <1>5 DEF Ordered, Context
    <2>2. ~ (x.base < y.base)
      <3> SUFFICES ASSUME x.base < y.base PROVE FALSE OBVIOUS
      <3>1. x.base + x.got <= y.base BY <1>2, <1>4 DEF Ordered, Precedes
      <3> QED BY <1>1, <1>3, <1>8, <2>1, <3>1
    <2> QED BY <1>3, <2>1, <2>2
  <1>12. ~Pending(y)
    <2> SUFFICES ASSUME Pending(y) PROVE FALSE OBVIOUS
    <2>1. Blocks(y, x) BY <1>11 DEF Blocks, Pending
    <2> QED BY <1>2, <1>4, <2>1 DEF Ordered
  <1>13. y.handler = "none" => ~y.ours
    <2> SUFFICES ASSUME y.handler = "none", y.ours PROVE FALSE OBVIOUS
    <2>1. y.fresh BY <1>2 DEF Context, Served
    <2>2. Announced(y) BY <1>2, <2>1 DEF Context
    <2> QED BY <1>12, <2>2 DEF Pending, Announced
  <1> QED BY <1>5, <1>8, <1>9, <1>10, <1>12, <1>13 DEF x, y

\* The SCB has been used once a context is served.
LEMMA NotFull ==
  ASSUME FInv, NEW f \in {0, 1}, fifo[f].ours, ~fifo[f].fresh
  PROVE  ~scb.full /\ ended = "no"
  <1>1. View(fifo[f], fifo[1 - f]) BY Given
  <1>2. ~scb.full BY <1>1 DEF View, Untouched
  <1>3. ended # "no" => ~fifo[f].ours BY <1>1 DEF View, Idle
  <1> QED BY <1>2, <1>3

LEMMA CtxtStep ==
  ASSUME FInv, NEW f \in {0, 1}, fifo[f].handler = "xfer", ~fifo[f].loading,
         LAST_SEG_DONE(fifo[f]), ~fifo[f].over,
         fifo' = [fifo EXCEPT ![f].handler = "ctxt"],
         scb' = [scb EXCEPT !.null = TRUE],
         UNCHANGED <<sg_list, resid, uses, received, pos, contexts, status,
                     host, memory, misled, ended>>
  PROVE  FInv'
  <1> DEFINE x == fifo[f]
             y == fifo[1 - f]
             z == fifo'[f]
  <1>1. /\ Total \in Nat /\ sg_list \in SgLists /\ x \in Contexts
        /\ y \in Contexts /\ View(x, y) /\ pos \in Nat
        /\ fifo \in [{0, 1} -> Contexts]
    BY Given
  <1>2. z = [x EXCEPT !.handler = "ctxt"] /\ fifo'[1 - f] = y
    BY <1>1, Pair, Zenon
  <1>3. /\ z.got = x.got /\ z.ours = x.ours /\ z.fresh = x.fresh
        /\ z.segs = x.segs /\ z.done = x.done /\ z.base = x.base
        /\ z.over = x.over /\ z.saved = x.saved /\ z.loading = x.loading
        /\ z.handler = "ctxt"
    <2>1. DOMAIN x = FIELDS BY <1>1, ContextFields
    <2> HIDE DEF x, z
    <2> QED BY <1>2, <2>1, Zenon DEF FIELDS
  <1>4. /\ Context(sg_list, x) /\ Context(sg_list, y)
        /\ Ordered(x, y, pos) /\ Ordered(y, x, pos)
        /\ Based(sg_list, y, x, scb, host) /\ LoadsNext(y, resid)
    BY <1>1 DEF View
  <1>5. x.ours /\ ~x.fresh /\ x.handler = "xfer"
    BY <1>4 DEF Context, Idle, Announced
  <1>6. /\ x.done = x.got /\ ~x.saved /\ x.base + x.got = Total /\ pos = Total
        /\ sg_list # <<>> /\ Total = Size(sg_list) /\ ~Pending(y)
    BY <1>5, WholeBuffer
  <1>7. ~scb.full /\ ended = "no" BY <1>5, NotFull
  <1>8. /\ scb'.null /\ ~scb'.full
        /\ scb' \in [at : 0 .. Total, cnt : 0 .. Total, last : BOOLEAN,
                     next : Nat, null : BOOLEAN, full : BOOLEAN]
    BY <1>7, ScbFields
  <1> HIDE DEF x, y, z
  <1>9. /\ Newest(z) = Newest(x) /\ Loaded(z) = Loaded(x)
        /\ Covers(sg_list, z) <=> Covers(sg_list, x)
    BY <1>3, SameSegments
  <1>10. ~Pending(z) /\ (Precedes(z, y) <=> Precedes(x, y))
         /\ (Precedes(y, z) <=> Precedes(y, x)) /\ ~Blocks(z, y)
         /\ (Blocks(y, z) <=> Blocks(y, x))
    BY <1>3, Zenon DEF Pending, Precedes, Blocks
  <1>11. Served(sg_list, z)
    <2>1. Served(sg_list, x) BY <1>4, <1>5 DEF Context
    <2>2. "ctxt" # "none" /\ "ctxt" # "drain" OBVIOUS
    <2> QED BY <1>3, <1>6, <1>9, <2>1, <2>2, Zenon DEF Served
  <1>12. Context(sg_list, z)
    BY <1>3, <1>4, <1>5, <1>11, Zenon DEF Context
  <1>13. Ordered(z, y, pos) /\ Ordered(y, z, pos)
    BY <1>3, <1>4, <1>10, Zenon DEF Ordered
  <1>14. Based(sg_list, z, y, scb', host) /\ Based(sg_list, y, z, scb', host)
         /\ LoadsNext(z, resid)
    BY <1>6, <1>10, Zenon DEF Based, LoadsNext
  <1>15. Stored(z, y, pos) = Stored(x, y, pos)
    BY <1>3, Zenon DEF Stored, InFifo
  <1>16. AtTarget(scb, resid, pos)'
    <2>1. ScbAt(sg_list, scb', pos) BY <1>6, <1>8, Zenon DEF ScbAt
    <2> QED BY <1>8, <2>1 DEF AtTarget
  <1>17. View(fifo[f], fifo[1 - f])'
    <2>1. memory = {<<k, k + 1>> : k \in Stored(z, y, pos)}
      BY <1>1, <1>15, Zenon DEF View
    <2>2. /\ uses = One(z.handler # "none") + One(y.handler # "none")
          /\ status # "none" => (z.ours => z.over) /\ (y.ours => y.over)
      <3>1. "ctxt" # "none" /\ x.handler # "none" BY <1>5
      <3> QED BY <1>1, <1>3, <3>1, Zenon DEF View, One
    <2> QED
      BY <1>2, <1>4, <1>7, <1>8, <1>12, <1>13, <1>14, <1>16, <2>1, <2>2, Zenon
      DEF View, z
  <1>18. TypeOK'
    <2>1. z \in Contexts BY <1>1, <1>2 DEF Contexts
    <2>2. fifo' = [fifo EXCEPT ![f] = z]
      BY <1>2, Zenon DEF x
    <2>3. fifo' \in [{0, 1} -> Contexts] BY <1>1, <2>1, <2>2, Updated
    <2> QED BY <1>8, <2>3, SameBuffer DEF FInv, TypeOK
  <1>19. Phases' BY <1>7 DEF FInv, Phases
  <1> QED BY <1>17, <1>18, <1>19, SeenNext DEF FInv

\* A FIFO is given back.
LEMMA ReleaseStep ==
  ASSUME FInv, NEW f \in {0, 1}, fifo[f].handler # "none",
         fifo[f].done = fifo[f].got,
         fifo' = [fifo EXCEPT ![f] = Idle],
         uses' = uses - 1,
         scb' \in [at : 0 .. Total, cnt : 0 .. Total, last : BOOLEAN,
                   next : Nat, null : BOOLEAN, full : BOOLEAN],
         ~scb'.full,
         Pending(fifo[1 - f]) => scb' = scb /\ ~Pending(fifo[f]),
         ~Pending(fifo[1 - f]) /\ host = "away" => AtTarget(scb', resid, pos),
         \/ ended' = ended
         \/ /\ status = "taken" /\ host = "away" /\ ~fifo[1 - f].ours
            /\ ended' \in {"complete", "upload"}
            /\ ended' = "upload" => ~scb'.null,
         UNCHANGED <<sg_list, resid, received, pos, contexts, status, host,
                     memory, misled>>
  PROVE  FInv'
  <1> DEFINE x == fifo[f]
             y == fifo[1 - f]
             z == fifo'[f]
  <1>1. /\ Total \in Nat /\ sg_list \in SgLists /\ x \in Contexts
        /\ y \in Contexts /\ View(x, y) /\ pos \in Nat
        /\ fifo \in [{0, 1} -> Contexts]
    BY Given
  <1>2. z = Idle /\ fifo'[1 - f] = y BY <1>1, Updated
  <1>3. /\ Context(sg_list, x) /\ Context(sg_list, y)
        /\ Ordered(x, y, pos) /\ Ordered(y, x, pos)
        /\ Based(sg_list, y, x, scb, host) /\ LoadsNext(y, resid)
    BY <1>1 DEF View
  <1>4. /\ x.got \in Nat /\ x.done \in Nat /\ x.base \in Nat
        /\ y.got \in Nat /\ y.done \in Nat /\ y.base \in Nat
    BY <1>1, ContextTyped
  <1>5. x.ours /\ ~x.fresh /\ x.handler # "none" /\ x.done = x.got
    BY <1>3 DEF Context, Idle, Announced
  <1>6. ended = "no" BY <1>5, NotFull
  <1>7. /\ ~z.ours /\ ~z.fresh /\ z.base = 0 /\ z.got = 0 /\ z.done = 0
        /\ ~z.over /\ z.handler = "none"
    BY <1>2 DEF Idle
  <1>8. ~Pending(z) /\ ~Precedes(z, y) /\ ~Precedes(y, z) /\ ~Blocks(z, y)
        /\ ~Blocks(y, z)
    BY <1>7, Zenon DEF Pending, Precedes, Blocks
  <1>9. Context(sg_list, z) BY <1>2, <1>7, Zenon DEF Context
  <1> HIDE DEF x, y, z
  <1>10. Ordered(z, y, pos)
    <2>1. z.base + z.got <= pos BY <1>1, <1>7
    <2> QED BY <1>7, <1>8, <2>1, Zenon DEF Ordered
  <1>11. Ordered(y, z, pos)
    <2>1. Pending(y) => y.base + y.got = pos
      <3> SUFFICES ASSUME Pending(y) PROVE y.base + y.got = pos OBVIOUS
      <3>1. ~Precedes(y, x)
        BY <1>3, <1>5 DEF Ordered, Blocks
      <3> QED BY <1>3, <3>1 DEF Ordered
    <2> QED BY <1>3, <1>7, <1>8, <2>1, Zenon DEF Ordered
  <1>12. Based(sg_list, z, y, scb', host) /\ Based(sg_list, y, z, scb', host)
         /\ LoadsNext(z, resid)
    <2>1. Pending(y) => scb' = scb /\ ~Pending(x) BY DEF x, y
    <2> QED BY <1>3, <1>8, <2>1, Zenon DEF Based, LoadsNext, Blocks
  <1>13. Stored(z, y, pos) = Stored(x, y, pos)
    <2>1. ASSUME NEW k \in 0 .. pos - 1 PROVE ~InFifo(z, k) /\ ~InFifo(x, k)
      BY <1>1, <1>4, <1>5, <1>7 DEF InFifo
    <2> QED BY <2>1 DEF Stored
  <1>14. ~Pending(y) /\ host = "away" => AtTarget(scb, resid, pos)'
    <2>1. ~Pending(y) /\ host = "away" => AtTarget(scb', resid, pos)
      BY DEF y
    <2>2. AtTarget(scb, resid, pos)' <=> AtTarget(scb', resid, pos)
      BY SameBuffer DEF AtTarget
    <2> QED BY <2>1, <2>2
  <1>15. ended' # "no" => status = "taken" /\ host = "away" /\ y = Idle
                          /\ ~Pending(y)
    <2> SUFFICES ASSUME ended' # "no"
                 PROVE  status = "taken" /\ host = "away" /\ ~y.ours
      BY <1>3 DEF Context, Pending
    <2> QED BY <1>6 DEF y
  <1>16. View(fifo[f], fifo[1 - f])'
    <2>1. memory = {<<k, k + 1>> : k \in Stored(z, y, pos)}
      BY <1>1, <1>13, Zenon DEF View
    <2>2. uses - 1 = One(z.handler # "none") + One(y.handler # "none")
      <3>1. uses = One(x.handler # "none") + One(y.handler # "none")
        BY <1>1, Zenon DEF View
      <3>2. One(x.handler # "none") = 1 /\ One(z.handler # "none") = 0
        BY <1>5, <1>7 DEF One
      <3>3. One(y.handler # "none") \in Nat BY DEF One
      <3> QED BY <3>1, <3>2, <3>3
    <2>3. status # "none" => (z.ours => z.over) /\ (y.ours => y.over)
      BY <1>1, <1>7, Zenon DEF View
    <2> QED
      BY <1>2, <1>3, <1>9, <1>10, <1>11, <1>12, <1>14, <1>15, <2>1, <2>2, <2>3,
         Zenon
      DEF View, z
  <1>17. TypeOK'
    <2>1. fifo' \in [{0, 1} -> Contexts] BY <1>1, IdleTyped, Updated
    <2>2. uses' \in 0 .. 2
      <3>1. uses = One(x.handler # "none") + One(y.handler # "none")
        BY <1>1, Zenon DEF View
      <3>2. One(x.handler # "none") = 1 BY <1>5 DEF One
      <3>3. One(y.handler # "none") \in 0 .. 1 BY DEF One
      <3> QED BY <3>1, <3>2, <3>3
    <2>3. ended' \in {"no", "complete", "upload"} BY <1>6
    <2> QED BY <2>1, <2>2, <2>3, SameBuffer DEF FInv, TypeOK
  <1>18. Phases'
    <2>1. ended' = "upload" => CalcResidual' = Total' - pos'
      <3> SUFFICES ASSUME ended' = "upload" PROVE CalcResidual' = Total' - pos'
        OBVIOUS
      <3>1. ~scb'.null BY <1>6
      <3>2. AtTarget(scb, resid, pos)' BY <1>14, <1>15
      <3>3. resid'.cnt + Total' - StartOf(resid.next)' = Total' - pos'
        BY <3>1, <3>2 DEF AtTarget, StartOf
      <3>4. ~resid'.null BY DEF FInv
      <3> QED BY <3>1, <3>3, <3>4 DEF CalcResidual, StartOf
    <2> QED BY <1>6, <1>15, <2>1 DEF FInv, Phases
  <1> QED BY <1>16, <1>17, <1>18, SeenNext DEF FInv

\* The firmware gives back a FIFO whose context has put its place back, or has
\* come to the end of the buffer before.
LEMMA QuietRelease ==
  ASSUME FInv, NEW f \in {0, 1}, fifo[f].handler # "none",
         fifo[f].done = fifo[f].got, ~Pending(fifo[f]), host = "away",
         fifo[1 - f].handler = "none" => ~fifo[1 - f].ours,
         Release(f, scb, resid),
         UNCHANGED <<sg_list, scb, resid, received, pos, contexts, status, host,
                     memory, misled>>
  PROVE  FInv'
  <1> DEFINE x == fifo[f]
             y == fifo[1 - f]
  <1>1. View(x, y) BY Given
  <1>2. x.ours /\ ~x.fresh
    BY <1>1 DEF View, Context, Idle, Announced
  <1>3. ~scb.full /\ ended = "no" BY <1>2, NotFull
  <1>4. ~Pending(y) => AtTarget(scb, resid, pos)
    BY <1>1, <1>3, Zenon DEF View
  <1>5. ended' # ended => /\ status = "taken" /\ ~y.ours
                          /\ ended' \in {"complete", "upload"}
                          /\ ended' = "upload" => ~scb.null
    <2> SUFFICES ASSUME ended' # ended
                 PROVE  /\ status = "taken" /\ ~y.ours
                        /\ ended' \in {"complete", "upload"}
                        /\ ended' = "upload" => ~scb.null
      OBVIOUS
    <2>1. received /\ FifosIdle(uses - 1)
          /\ ended' = QueueScbCompletion(scb, resid)
      BY DEF Release
    <2>2. y.handler = "none"
      <3>1. uses = One(x.handler # "none") + One(y.handler # "none")
        BY <1>1, Zenon DEF View
      <3>2. One(x.handler # "none") = 1 BY DEF One
      <3>3. One(y.handler # "none") \in Nat BY DEF One
      <3>4. uses - 1 = 0 BY <2>1 DEF FifosIdle
      <3>5. One(y.handler # "none") = 0 BY <3>1, <3>2, <3>3, <3>4
      <3> QED BY <3>5 DEF One
    <2> QED BY <2>1, <2>2 DEF QueueScbCompletion, FInv, Phases
  <1>6. scb \in [at : 0 .. Total, cnt : 0 .. Total, last : BOOLEAN,
                 next : Nat, null : BOOLEAN, full : BOOLEAN]
    BY ScbFields
  <1>7. fifo' = [fifo EXCEPT ![f] = Idle] /\ uses' = uses - 1
    BY DEF Release
  <1> QED BY <1>3, <1>4, <1>5, <1>6, <1>7, ReleaseStep

-----------------------------------------------------------------------------
(* The steps of the firmware.                                              *)

LEMMA Cfg4DataStep ==
  ASSUME FInv, NEW f \in {0, 1}, Cfg4Data(f)
  PROVE  FInv'
  <1>1. resid' = [resid EXCEPT !.last = scb.last, !.next = scb.next,
                               !.null = FALSE]
    <2>1. scb.null = FALSE BY ScbFields DEF Cfg4Data
    <2> QED BY <2>1 DEF Cfg4Data
  <1>2. ScbAt(sg_list, scb, fifo[f].base) BY AnnouncedIs DEF Cfg4Data
  <1> QED BY <1>1, <1>2, OpenStep, Zenon DEF Cfg4Data

LEMMA LoadSegmentStep ==
  ASSUME FInv, NEW f \in {0, 1}, LoadSegment(f)
  PROVE  FInv'
  BY LoadStep DEF LoadSegment

LEMMA SavePointersStep ==
  ASSUME FInv, NEW f \in {0, 1}, SavePointers(f)
  PROVE  FInv'
  <1> DEFINE x == fifo[f]
             q == x.base + x.got
             s == Segm(sg_list, q + 1)
  <1>1. SAVEPTRS(x) /\ host = "away" BY DEF SavePointers, IdleLoop
  <1>2. /\ sg_list # <<>> /\ List(sg_list) /\ Total = Size(sg_list)
        /\ q \in Nat /\ q < Total /\ s \in 1 .. Len(sg_list)
        /\ SHADDR(x) = q /\ SHCNT(x) = sg_list[s] - q /\ SHCNT(x) \in Nat
        /\ SHCNT(x) <= Total
        /\ Residual(x) = [cnt |-> SHCNT(x), last |-> s = Len(sg_list),
                          next |-> s + 1, null |-> FALSE]
    BY <1>1, ResidualTells, Zenon
  <1>3. Total \in Nat /\ Len(sg_list) \in Nat BY <1>2, Given, Ends
  <1> HIDE DEF x, q, s
  <1>4. /\ scb'.at = q /\ scb'.cnt = SHCNT(x) /\ scb'.last = (s = Len(sg_list))
        /\ scb'.next = s + 1 /\ ~scb'.null /\ ~scb'.full
        /\ scb' = [at |-> q, cnt |-> SHCNT(x), last |-> s = Len(sg_list),
                   next |-> s + 1, null |-> FALSE, full |-> FALSE]
    <2>1. scb' = SavedPointers(x, Residual(x)) BY DEF SavePointers, x
    <2> QED BY <1>2, <2>1 DEF SavedPointers
  <1>5. scb' \in [at : 0 .. Total, cnt : 0 .. Total, last : BOOLEAN,
                  next : Nat, null : BOOLEAN, full : BOOLEAN]
    <2>1. q \in 0 .. Total /\ SHCNT(x) \in 0 .. Total /\ s + 1 \in Nat
      BY <1>2, <1>3
    <2> QED BY <1>4, <2>1
  <1>6. ScbAt(sg_list, scb', q) /\ ScbNear(sg_list, scb', q)
    <2>1. ScbNear(sg_list, scb', q) BY <1>2, <1>4 DEF ScbNear, s
    <2>2. q # Size(sg_list) BY <1>2, <1>3
    <2> QED BY <1>2, <1>4, <2>1, <2>2 DEF ScbAt, s
  <1>7. /\ fifo' = [fifo EXCEPT ![f].saved = TRUE, ![f].loading = FALSE,
                                ![f].handler = "drain"]
        /\ resid' = Residual(x)
        /\ UNCHANGED <<sg_list, uses, received, pos, contexts, status, host,
                       memory, misled, ended>>
    BY DEF SavePointers, x
  <1> QED BY <1>1, <1>4, <1>5, <1>6, <1>7, PointersStep, Zenon DEF x, q

LEMMA DrainedStep ==
  ASSUME FInv, NEW f \in {0, 1}, Drained(f)
  PROVE  FInv'
  <1> DEFINE x == fifo[f]
             y == fifo[1 - f]
  <1>1. View(x, y) BY Given
  <1>2. /\ x.handler = "drain" /\ x.done = x.got /\ host = "away"
        /\ ~CFG4DATA(1 - f)
    BY Pair DEF Drained, IdleLoop, FIFOEMP
  <1>3. x.saved
    <2>1. Served(sg_list, x)
      BY <1>1, <1>2 DEF View, Context, Idle, Announced
    <2> QED BY <1>2, <2>1 DEF Served
  <1>4. ~Pending(x) BY <1>3 DEF Pending
  <1>5. y.handler = "none" => ~y.ours
    <2> SUFFICES ASSUME y.handler = "none", y.ours PROVE FALSE OBVIOUS
    <2>1. y.fresh BY <1>1 DEF View, Context, Served
    <2>2. ~Unsaved(x) BY <1>3 DEF Unsaved
    <2>3. CFG4DATA(1 - f) BY <2>1, <2>2, Pair DEF CFG4DATA
    <2> QED BY <1>2, <2>3
  <1>6. x.handler # "none" BY <1>2
  <1> QED BY <1>2, <1>4, <1>5, <1>6, QuietRelease, Zenon DEF Drained

LEMMA LastSegDoneStep ==
  ASSUME FInv, NEW f \in {0, 1}, LastSegDone(f)
  PROVE  FInv'
  <1> DEFINE x == fifo[f]
             y == fifo[1 - f]
             s == [scb EXCEPT !.null = TRUE]
  <1>1. /\ x.handler = "xfer" /\ ~x.loading /\ LAST_SEG_DONE(x)
        /\ host = "away" /\ scb' = s
        /\ UNCHANGED <<sg_list, resid, received, pos, contexts, status, host,
                       memory, misled>>
    BY DEF LastSegDone, IdleLoop
  <1>2. CASE ~x.over
    <2>1. fifo' = [fifo EXCEPT ![f].handler = "ctxt"] /\ uses' = uses
          /\ ended' = ended
      BY <1>2 DEF LastSegDone
    <2> QED BY <1>1, <1>2, <2>1, CtxtStep, Zenon
  <1>3. CASE x.over
    <2>1. View(x, y) BY Given
    <2>2. x.ours /\ ~x.fresh
      BY <1>1, <2>1 DEF View, Context, Idle, Announced
    <2>3. /\ x.done = x.got /\ pos = Total /\ sg_list # <<>>
          /\ Total = Size(sg_list) /\ ~Pending(y)
          /\ y.handler = "none" => ~y.ours
      BY <1>1, <2>2, WholeBuffer
    <2>4. ~scb.full BY <2>2, NotFull
    <2>5. s.null /\ ~s.full
          /\ s \in [at : 0 .. Total, cnt : 0 .. Total, last : BOOLEAN,
                    next : Nat, null : BOOLEAN, full : BOOLEAN]
      BY <2>4, ScbFields
    <2>6. fifo' = [fifo EXCEPT ![f] = Idle] /\ uses' = uses - 1
          /\ ended' = IF received /\ FifosIdle(uses - 1)
                      THEN QueueScbCompletion(s, resid) ELSE ended
      BY <1>3 DEF LastSegDone, Release
    <2> HIDE DEF s
    <2>7. AtTarget(s, resid, pos)
      <3>1. ScbAt(sg_list, s, pos) BY <2>3, <2>5, Zenon DEF ScbAt
      <3> QED BY <2>5, <3>1 DEF AtTarget
    <2>8. ended' # ended => status = "taken" /\ ~y.ours /\ ended' = "complete"
      <3> SUFFICES ASSUME ended' # ended
                   PROVE  status = "taken" /\ ~y.ours /\ ended' = "complete"
        OBVIOUS
      <3>1. received /\ FifosIdle(uses - 1)
            /\ ended' = QueueScbCompletion(s, resid)
        BY <2>6
      <3>2. y.handler = "none"
        <4>1. uses = One(x.handler # "none") + One(y.handler # "none")
          BY <2>1, Zenon DEF View
        <4>2. One(x.handler # "none") = 1 BY <1>1 DEF One
        <4>3. One(y.handler # "none") \in Nat BY DEF One
        <4>4. uses - 1 = 0 BY <3>1 DEF FifosIdle
        <4>5. One(y.handler # "none") = 0 BY <4>1, <4>2, <4>3, <4>4
        <4> QED BY <4>5 DEF One
      <3> QED BY <2>3, <2>5, <3>1, <3>2 DEF QueueScbCompletion, FInv, Phases
    <2>9. x.handler # "none" BY <1>1
    <2> QED BY <1>1, <2>3, <2>5, <2>6, <2>7, <2>8, <2>9, ReleaseStep
  <1> QED BY <1>2, <1>3

LEMMA ContextDoneStep ==
  ASSUME FInv, NEW f \in {0, 1}, ContextDone(f)
  PROVE  FInv'
  <1> DEFINE x == fifo[f]
             y == fifo[1 - f]
  <1>1. View(x, y) BY Given
  <1>2. x.handler = "ctxt" /\ host = "away" /\ x.handler # "none"
    BY DEF ContextDone, IdleLoop
  <1>3. x.ours /\ ~x.fresh
    BY <1>1, <1>2 DEF View, Context, Idle, Announced
  <1>4. x.done = x.got /\ (y.handler = "none" => ~y.ours)
    BY <1>2, <1>3, WholeBuffer
  <1>5. ~Pending(x) BY <1>2 DEF Pending
  <1> QED BY <1>2, <1>4, <1>5, QuietRelease, Zenon DEF ContextDone

-----------------------------------------------------------------------------
(* The steps of the host.                                                  *)

\* The host begins a context as the firmware does if its segment is marked right.
LEMMA RunCfg4DataStep ==
  ASSUME FInv, NEW f \in {0, 1}, host = "flushing", RunCfg4Data(f),
         scb.last = (scb.next > Len(sg_list)),
         UNCHANGED <<sg_list, received, pos, contexts, status, host, memory,
                     ended>>
  PROVE  FInv'
  <1> DEFINE x == fifo[f]
             s == Segm(sg_list, x.base + 1)
  <1>1. CFG4DATA(f) /\ misled' = misled
    <2>1. misled = FALSE BY DEF FInv, TypeOK
    <2>2. misled' = (misled \/ scb.last # (scb.next > Len(sg_list)))
      BY DEF RunCfg4Data
    <2>3. misled' = FALSE BY <2>1, <2>2
    <2> QED BY <2>1, <2>3 DEF RunCfg4Data
  <1>2. x.ours /\ ScbNear(sg_list, scb, x.base) BY <1>1, AnnouncedIs
  <1>3. /\ Total \in Nat /\ sg_list \in SgLists /\ x \in Contexts
        /\ View(x, fifo[1 - f])
    BY Given
  <1>4. sg_list # <<>> /\ List(sg_list) /\ x.base < Size(sg_list)
        /\ x.base \in Nat
    BY <1>2, <1>3, FifoLists, ContextTyped DEF View, Context
  <1>5. s \in 1 .. Len(sg_list) /\ Len(sg_list) \in Nat
        /\ Size(sg_list) \in Nat
    <2>1. Size(sg_list) \in Nat /\ Len(sg_list) \in Nat BY <1>4, Ends
    <2>2. x.base + 1 \in 1 .. Size(sg_list) BY <1>4, <2>1
    <2> QED BY <1>4, <2>1, <2>2, InSegment
  <1>6. scb.next = s + 1 BY <1>2 DEF ScbNear
  <1> HIDE DEF x, s
  <1>7. scb.last = (s = Len(sg_list))
    <2>1. (scb.next > Len(sg_list)) <=> (s = Len(sg_list)) BY <1>5, <1>6
    <2> QED BY <2>1
  <1>8. ScbAt(sg_list, scb, x.base)
    <2>1. x.base # Size(sg_list) BY <1>4, <1>5
    <2> QED BY <1>2, <1>4, <1>7, <2>1 DEF ScbAt, s
  <1> QED BY <1>1, <1>8, OpenStep, Zenon DEF RunCfg4Data, x

LEMMA RunStep ==
  ASSUME FInv, NEW f \in {0, 1}, RunDataFifo(f),
         RunCfg4Data(f) => scb.last = (scb.next > Len(sg_list))
  PROVE  FInv'
  <1> DEFINE x == fifo[f]
             y == fifo[1 - f]
             Rest == UNCHANGED <<sg_list, received, pos, contexts, status, host,
                                 memory, ended>>
  <1>1. View(x, y) /\ Total \in Nat /\ fifo \in [{0, 1} -> Contexts]
        /\ x \in Contexts
    BY Given
  <1>2. host = "flushing" /\ Active(f) BY DEF RunDataFifo
  <1>3. CASE RunCfg4Data(f) /\ Rest
    BY <1>2, <1>3, RunCfg4DataStep, Zenon
  <1>4. CASE RunSavePointers(f) /\ Rest
    <2> DEFINE q == x.base + x.got
               s == Segm(sg_list, q + 1)
               r == Residual(x)
    <2>1. SAVEPTRS(x) /\ resid' = r /\ UNCHANGED <<uses, misled>>
          /\ scb' = [at |-> SHADDR(x), cnt |-> SHCNT(x), last |-> resid.last,
                     next |-> r.next, null |-> resid.null, full |-> FALSE]
          /\ fifo' = [fifo EXCEPT ![f].saved = TRUE, ![f].loading = FALSE]
      BY <1>4 DEF RunSavePointers
    <2>2. /\ x.ours /\ x.handler # "ctxt" /\ Served(sg_list, x) /\ ~x.saved
          /\ List(sg_list)
          /\ q \in Nat /\ q < Total /\ s \in 1 .. Len(sg_list)
          /\ SHADDR(x) = q /\ SHCNT(x) = sg_list[s] - q /\ SHCNT(x) \in Nat
          /\ SHCNT(x) <= Total
          /\ r = [cnt |-> SHCNT(x), last |-> s = Len(sg_list),
                  next |-> s + 1, null |-> FALSE]
          /\ s = Len(sg_list) => resid.last
      BY <2>1, ResidualTells, Zenon
    <2>3. r.next \in Nat /\ r.next = s + 1
      <3>1. Len(sg_list) \in Nat BY <2>2, Ends
      <3> HIDE DEF s, x
      <3>2. s + 1 \in Nat BY <2>2, <3>1
      <3> QED BY <2>2, <3>2
    <2> HIDE DEF r
    <2>4. scb' \in [at : 0 .. Total, cnt : 0 .. Total, last : BOOLEAN,
                    next : Nat, null : BOOLEAN, full : BOOLEAN]
          /\ ~scb'.full
      <3>1. SHADDR(x) \in 0 .. Total /\ SHCNT(x) \in 0 .. Total
        BY <1>1, <2>2
      <3>2. resid.last \in BOOLEAN /\ resid.null \in BOOLEAN BY ScbFields
      <3> HIDE DEF x
      <3> QED BY <2>1, <2>3, <3>1, <3>2
    <2>5. fifo' = [fifo EXCEPT ![f].saved = TRUE, ![f].loading = FALSE,
                               ![f].handler = x.handler]
      <3>1. DOMAIN x = FIELDS BY <1>1, ContextFields
      <3> QED BY <1>1, <2>1, <3>1, Zenon DEF FIELDS
    <2>6. x.handler \in {"xfer", "drain", "fake"}
      BY <1>1, <2>2 DEF Contexts, Served
    <2>7. ScbNear(sg_list, scb', fifo[f].base + fifo[f].got)
      <3>1. ~resid.null BY DEF FInv
      <3> HIDE DEF q
      <3>2. ~scb'.null /\ scb'.at = q /\ scb'.cnt = sg_list[s] - q
            /\ scb'.next = s + 1 /\ scb'.last = resid.last
        BY <2>1, <2>2, <2>3, <3>1
      <3> QED BY <2>2, <3>2 DEF ScbNear, q
    <2>8. host # "away" BY <1>2
    <2>9. SAVEPTRS(fifo[f]) /\ resid' = Residual(fifo[f])
          /\ UNCHANGED <<sg_list, uses, received, pos, contexts, status, host,
                         memory, misled, ended>>
      BY <1>4, <2>1 DEF r
    <2> QED BY <2>4, <2>5, <2>6, <2>7, <2>8, <2>9, PointersStep, Zenon
  <1>5. CASE RunRelease(f) /\ Rest
    <2>1. /\ ~CFG4DATA(f) /\ ~SAVEPTRS(x) /\ ~x.loading
          /\ LAST_SEG_DONE(x) \/ x.done = x.got
          /\ scb' = IF LAST_SEG_DONE(x) THEN [scb EXCEPT !.null = TRUE] ELSE scb
          /\ fifo' = [fifo EXCEPT ![f] = Idle]
          /\ uses' = uses - 1
          /\ UNCHANGED <<resid, misled>>
      BY <1>5 DEF RunRelease, Empty, FIFOEMP
    <2>2. x.handler # "none" BY <1>2, <2>1 DEF Active
    <2>3. x.ours /\ ~x.fresh
      BY <1>1, <2>2 DEF View, Context, Idle, Announced
    <2>4. x.done = x.got BY <2>1, <2>3, WholeBuffer
    <2>5. ~scb.full BY <2>3, NotFull
    <2>6. scb' \in [at : 0 .. Total, cnt : 0 .. Total, last : BOOLEAN,
                    next : Nat, null : BOOLEAN, full : BOOLEAN]
          /\ ~scb'.full
      BY <2>1, <2>5, ScbFields
    <2>7. Pending(y) => scb' = scb /\ ~Pending(x)
      <3>1. CASE LAST_SEG_DONE(x) BY <2>3, <3>1, WholeBuffer
      <3>2. CASE ~LAST_SEG_DONE(x)
        <4>1. scb' = scb BY <2>1, <3>2
        <4>2. Served(sg_list, x) /\ sg_list # <<>> /\ List(sg_list)
          BY <1>1, <2>3, FifoLists DEF View, Context, FInv, TypeOK
        <4>3. x.over
          <5>1. status # "none" BY <1>2 DEF FInv, Phases
          <5> QED BY <1>1, <2>3, <5>1 DEF View
        <4>4. x.got \in Nat /\ Loaded(x) \in Nat /\ x.segs # <<>>
          BY <1>1, <4>2, ContextTyped, LoadedIs DEF Served, Covers
        <4>5. ASSUME ~x.saved PROVE FALSE
          <5>1. ~ (x.got < Loaded(x))
            BY <2>1, <2>3, <4>3, <4>5 DEF SAVEPTRS, SHVALID
          <5>2. x.done <= Loaded(x) /\ x.loading = ~Newest(x).last
            BY <4>2, <4>5 DEF Served
          <5>3. x.done = Loaded(x) BY <2>4, <4>4, <5>1, <5>2
          <5> QED BY <2>1, <3>2, <4>4, <5>2, <5>3 DEF LAST_SEG_DONE
        <4> QED BY <4>1, <4>5 DEF Pending
      <3> QED BY <3>1, <3>2
    <2>8. host # "away" BY <1>2
    <2> QED BY <1>5, <2>1, <2>2, <2>4, <2>6, <2>7, <2>8, ReleaseStep, Zenon
  <1>6. CASE x.loading /\ Load(f, Segment(resid.next)) BY <1>6, LoadStep
  <1> QED BY <1>3, <1>4, <1>5, <1>6, Zenon DEF RunDataFifo

-----------------------------------------------------------------------------
(* The good status.                                                        *)

\* What a step that leaves the FIFOs, the SCB and the memory alone must show.
LEMMA StatusStep ==
  ASSUME FInv,
         UNCHANGED <<sg_list, scb, resid, uses, fifo, pos, contexts, memory, misled>>,
         received' \in BOOLEAN, status' \in {"none", "queued", "taken"},
         host' \in {"away", "flushing"},
         ended' \in {"no", "complete", "upload"},
         status' # "none" => status # "none"
                             \/ \A f \in {0, 1} : ~OnTheBus(f),
         received' => status' = "taken",
         host' = "flushing" => status' = "queued",
         ended' # "no" => status' = "taken" /\ host' = "away"
                          /\ fifo[0] = Idle /\ fifo[1] = Idle,
         ended' = "upload" => CalcResidual = Total - pos,
         host' = "away" /\ ended' = "no" => host = "away" /\ ended = "no"
  PROVE  FInv'
  <1>1. View(fifo[0], fifo[1]) BY DEF FInv
  <1>2. TypeOK' BY SameBuffer DEF FInv, TypeOK
  <1>3. CalcResidual' = CalcResidual /\ Total' = Total
    BY SameBuffer DEF CalcResidual, StartOf
  <1>4. Phases' BY <1>3 DEF Phases
  <1>5. AtTarget(scb, resid, pos)' <=> AtTarget(scb, resid, pos)
    BY SameBuffer DEF AtTarget
  <1>6. status' # "none" => (fifo[0].ours => fifo[0].over)
                            /\ (fifo[1].ours => fifo[1].over)
    <2>1. 0 \in {0, 1} /\ 1 \in {0, 1} OBVIOUS
    <2>2. (\A f \in {0, 1} : ~OnTheBus(f)) => (fifo[0].ours => fifo[0].over)
                            /\ (fifo[1].ours => fifo[1].over)
      BY <2>1, Zenon DEF OnTheBus
    <2> QED BY <1>1, <2>2, Zenon DEF View
  <1>7. Based(sg_list, fifo[0], fifo[1], scb, host')
        /\ Based(sg_list, fifo[1], fifo[0], scb, host')
    <2>1. CASE host' = "away" => host = "away"
      BY <1>1, <2>1, Zenon DEF View, Based
    <2>2. CASE host' = "away" /\ host # "away"
      <3>1. fifo[0] = Idle /\ fifo[1] = Idle BY <2>2
      <3>2. ~Pending(Idle) BY DEF Pending, Idle
      <3> QED BY <3>1, <3>2, Zenon DEF Based
    <2> QED BY <2>1, <2>2
  <1>8. View(fifo[0], fifo[1])' BY <1>1, <1>5, <1>6, <1>7, Zenon DEF View
  <1> QED BY <1>2, <1>4, <1>8 DEF FInv

LEMMA GoodStatusStep == FInv /\ GoodStatus => FInv'
  <1> SUFFICES ASSUME FInv, GoodStatus PROVE FInv' OBVIOUS
  <1>1. received \in BOOLEAN /\ host \in {"away", "flushing"}
        /\ ended \in {"no", "complete", "upload"}
        /\ ~received /\ host = "away" /\ ended = "no"
    BY DEF GoodStatus, FInv, TypeOK, Phases
  <1> QED BY <1>1, StatusStep DEF GoodStatus

LEMMA TakeGoodStatusStep == FInv /\ TakeGoodStatus => FInv'
  <1> SUFFICES ASSUME FInv, TakeGoodStatus PROVE FInv' OBVIOUS
  <1>1. /\ status = "queued" /\ status' = "taken" /\ received' = TRUE
        /\ host = "away" /\ \A f \in {0, 1} : ~CFG4DATA(f)
        /\ ended' = IF FifosIdle(uses) THEN "complete" ELSE ended
        /\ UNCHANGED <<sg_list, scb, resid, uses, fifo, pos, contexts, host,
                       memory, misled>>
    BY DEF TakeGoodStatus, IdleLoop
  <1>2. View(fifo[0], fifo[1]) BY DEF FInv
  <1>3. ended = "no" BY <1>1 DEF FInv, Phases
  <1>4. FifosIdle(uses) => fifo[0] = Idle /\ fifo[1] = Idle
    <2> SUFFICES ASSUME uses = 0 PROVE fifo[0] = Idle /\ fifo[1] = Idle
      BY DEF FifosIdle
    <2>1. fifo[0].handler = "none" /\ fifo[1].handler = "none"
      <3>1. uses = One(fifo[0].handler # "none") + One(fifo[1].handler # "none")
        BY <1>2, Zenon DEF View
      <3>2. One(fifo[0].handler # "none") \in Nat
            /\ One(fifo[1].handler # "none") \in Nat
        BY DEF One
      <3>3. One(fifo[0].handler # "none") = 0
            /\ One(fifo[1].handler # "none") = 0
        BY <3>1, <3>2
      <3> QED BY <3>3 DEF One
    <2>2. \A f \in {0, 1} : fifo[f].ours => fifo[f].fresh
      BY <1>2, <2>1 DEF View, Context, Served
    <2>3. ASSUME NEW f \in {0, 1}, fifo[f].ours PROVE FALSE
      <3>1. fifo[f].fresh BY <2>2, <2>3
      <3>2. Unsaved(fifo[1 - f]) /\ fifo[1 - f].base < fifo[f].base
        BY <1>1, <3>1 DEF CFG4DATA
      <3>3. fifo[1 - f].fresh BY <2>2, <3>2, Pair DEF Unsaved
      <3>4. fifo[1 - (1 - f)].base < fifo[1 - f].base
        BY <1>1, <3>3, Pair DEF CFG4DATA
      <3>5. fifo[f].base < fifo[1 - f].base BY <3>4, Pair
      <3>6. fifo[f].base \in Nat /\ fifo[1 - f].base \in Nat
        BY Given, ContextTyped
      <3> QED BY <3>2, <3>5, <3>6
    <2>4. ~fifo[0].ours /\ ~fifo[1].ours BY <2>3
    <2> QED BY <1>2, <2>4 DEF View, Context
  <1> QED BY <1>1, <1>3, <1>4, StatusStep

LEMMA FlushStep == FInv /\ Flush => FInv'
  <1> SUFFICES ASSUME FInv, Flush PROVE FInv' OBVIOUS
  <1>1. received \in BOOLEAN /\ ended \in {"no", "complete", "upload"}
        /\ ~received /\ ended = "no"
    BY DEF Flush, FInv, TypeOK, Phases
  <1> QED BY <1>1, StatusStep DEF Flush

LEMMA FlushEndsStep == FInv /\ FlushEnds => FInv'
  <1> SUFFICES ASSUME FInv, FlushEnds PROVE FInv' OBVIOUS
  <1>1. /\ host = "flushing" /\ \A f \in {0, 1} : ~Active(f)
        /\ status' = "taken" /\ ended' = Flushed /\ host' = "away"
        /\ UNCHANGED <<sg_list, scb, resid, uses, received, fifo, pos, contexts,
                       memory, misled>>
    BY DEF FlushEnds
  <1>2. View(fifo[0], fifo[1]) BY DEF FInv
  <1>3. status = "queued" BY <1>1 DEF FInv, Phases
  <1>4. ASSUME NEW f \in {0, 1}, fifo[f].ours PROVE FALSE
    <2>1. ASSUME NEW g \in {0, 1}, fifo[g].ours
          PROVE  fifo[g].fresh /\ fifo[1 - g].ours
                 /\ fifo[1 - g].base < fifo[g].base
      <3>1. fifo[g].handler = "none" /\ ~CFG4DATA(g) BY <1>1 DEF Active
      <3>2. View(fifo[g], fifo[1 - g]) BY Given
      <3>3. fifo[g].fresh BY <2>1, <3>1, <3>2 DEF View, Context, Served
      <3> QED BY <3>1, <3>3 DEF CFG4DATA, Unsaved
    <2>2. fifo[1 - f].base < fifo[f].base /\ fifo[1 - f].ours BY <1>4, <2>1
    <2>3. fifo[1 - (1 - f)].base < fifo[1 - f].base BY <2>1, <2>2, Pair
    <2>4. fifo[f].base < fifo[1 - f].base BY <2>3, Pair
    <2>5. fifo[f].base \in Nat /\ fifo[1 - f].base \in Nat
      BY Given, ContextTyped
    <2> QED BY <2>2, <2>4, <2>5
  <1>5. ~fifo[0].ours /\ ~fifo[1].ours BY <1>4
  <1>6. fifo[0] = Idle /\ fifo[1] = Idle BY <1>2, <1>5 DEF View, Context
  <1>7. ended' \in {"complete", "upload"}
        /\ (ended' = "upload" => ~scb.null /\ scb.full)
    BY <1>1 DEF Flushed, FInv
  <1>8. ended' = "upload" => CalcResidual = Total - pos
    <2> SUFFICES ASSUME ended' = "upload" PROVE CalcResidual = Total - pos
      OBVIOUS
    <2>1. ~scb.null /\ scb.full BY <1>7
    <2>2. pos = 0 BY <1>2, <1>5, <2>1 DEF View, Untouched
    <2>3. Total \in Nat BY TotalIsNat DEF FInv, TypeOK
    <2> QED BY <2>1, <2>2, <2>3 DEF CalcResidual
  <1>9. received \in BOOLEAN BY DEF FInv, TypeOK
  <1> QED BY <1>1, <1>3, <1>6, <1>7, <1>8, <1>9, StatusStep

-----------------------------------------------------------------------------
(* The invariant and what it gives.                                        *)

LEMMA FifoInit == Init => FInv
  <1> SUFFICES ASSUME Init PROVE FInv OBVIOUS
  <1>1. /\ sg_list \in SgLists /\ scb = SetupScb(sg_list)
        /\ resid = [cnt |-> 0, last |-> FALSE, next |-> 0, null |-> FALSE]
        /\ uses = 0 /\ received = FALSE /\ fifo = [f \in {0, 1} |-> Idle]
        /\ pos = 0 /\ contexts = 0 /\ status = "none" /\ host = "away"
        /\ memory = {} /\ misled = FALSE /\ ended = "no"
    BY DEF Init
  <1>2. Total \in Nat BY <1>1, TotalIsNat
  <1>3. fifo[0] = Idle /\ fifo[1] = Idle BY <1>1
  <1>4. sg_list # <<>> => /\ List(sg_list) /\ Total = Size(sg_list)
                          /\ sg_list[1] \in Nat \ {0} /\ sg_list[1] <= Total
                          /\ Len(sg_list) \in Nat \ {0}
                          /\ Segm(sg_list, 1) = 1 /\ Total > 0
    <2> SUFFICES ASSUME sg_list # <<>>
                 PROVE  /\ List(sg_list) /\ Total = Size(sg_list)
                        /\ sg_list[1] \in Nat \ {0} /\ sg_list[1] <= Total
                        /\ Len(sg_list) \in Nat \ {0}
                        /\ Segm(sg_list, 1) = 1 /\ Total > 0
      OBVIOUS
    <2>1. List(sg_list) /\ Total = Size(sg_list) BY <1>1, FifoLists
    <2>2. Len(sg_list) \in Nat \ {0} /\ Size(sg_list) \in Nat \ {0}
      BY <2>1, Ends
    <2>3. 1 \in 1 .. Len(sg_list) BY <2>2
    <2>4. sg_list[1] \in Nat \ {0} /\ sg_list[1] <= Size(sg_list)
      BY <2>1, <2>3, Ends
    <2>5. Segm(sg_list, 1) = 1
      <3>1. Start(sg_list, 1) < 1 /\ 1 <= sg_list[1] BY <2>4 DEF Start
      <3>2. 1 \in 1 .. Size(sg_list) BY <2>2
      <3> QED BY <2>1, <2>3, <3>1, <3>2, SegmentIs
    <2> QED BY <2>1, <2>2, <2>4, <2>5
  <1>5. sg_list = <<>> => Len(sg_list) = 0 /\ Total = 0
    BY EmptySeq DEF Total
  <1>6. /\ scb.at = 0 /\ scb.cnt = IF sg_list = <<>> THEN 0 ELSE sg_list[1]
        /\ scb.last = (Len(sg_list) = 1) /\ scb.next = 2
        /\ scb.null = (sg_list = <<>>) /\ scb.full = (sg_list # <<>>)
        /\ scb \in [at : 0 .. Total, cnt : 0 .. Total, last : BOOLEAN,
                    next : Nat, null : BOOLEAN, full : BOOLEAN]
    <2>1. (IF sg_list = <<>> THEN 0 ELSE sg_list[1]) \in 0 .. Total
      BY <1>2, <1>4
    <2>2. 0 \in 0 .. Total BY <1>2
    <2> QED BY <1>1, <2>1, <2>2 DEF SetupScb
  <1>7. resid \in [cnt : 0 .. Total, last : BOOLEAN, next : Nat,
                   null : BOOLEAN]
        /\ ~resid.null
    BY <1>1, <1>2
  <1>8. TypeOK
    <2>1. fifo \in [{0, 1} -> Contexts] BY <1>1, <1>2, IdleTyped
    <2>2. pos \in 0 .. Total BY <1>1, <1>2
    <2>3. /\ sg_list \in SgLists /\ uses \in 0 .. 2 /\ received \in BOOLEAN
          /\ status \in {"none", "queued", "taken"}
          /\ host \in {"away", "flushing"} /\ misled \in BOOLEAN
          /\ ended \in {"no", "complete", "upload"}
      <3>1. 0 \in 0 .. 2 /\ FALSE \in BOOLEAN OBVIOUS
      <3> QED BY <1>1, <3>1, Zenon
    <2> QED BY <1>6, <1>7, <2>1, <2>2, <2>3, Zenon DEF TypeOK
  <1>9. ScbAt(sg_list, scb, 0)
    <2>1. CASE sg_list = <<>> BY <1>6, <2>1 DEF ScbAt
    <2>2. CASE sg_list # <<>>
      <3>1. Segm(sg_list, 0 + 1) = 1 BY <1>4, <2>2
      <3>2. scb.cnt = sg_list[1] - 0 /\ ~scb.null /\ scb.at = 0
            /\ scb.next = 1 + 1
        BY <1>4, <1>6, <2>2
      <3>3. 0 # Size(sg_list) BY <1>4, <2>2
      <3>4. scb.last = (1 = Len(sg_list)) BY <1>6
      <3> QED BY <2>2, <3>1, <3>2, <3>3, <3>4, Zenon DEF ScbAt, ScbNear
    <2> QED BY <2>1, <2>2
  <1>10. AtTarget(scb, resid, pos)
    <2>1. scb.null \/ scb.full BY <1>6
    <2> QED BY <1>1, <1>9, <2>1, Zenon DEF AtTarget
  <1>11. Context(sg_list, Idle) /\ ~Pending(Idle) /\ ~Precedes(Idle, Idle)
    BY DEF Context, Idle, Pending, Precedes
  <1>12. Ordered(Idle, Idle, pos)
    <2>1. Idle.base + Idle.got = 0 /\ ~Idle.ours BY DEF Idle
    <2>2. Idle.base + Idle.got <= pos BY <1>1, <2>1
    <2> QED BY <1>11, <2>1, <2>2, Zenon DEF Ordered, Blocks
  <1>13. Stored(Idle, Idle, pos) = {}
    <2>1. 0 .. pos - 1 = {} BY <1>1
    <2> QED BY <2>1 DEF Stored
  <1>14. View(Idle, Idle)
    <2>1. Based(sg_list, Idle, Idle, scb, host) /\ LoadsNext(Idle, resid)
      BY <1>11 DEF Based, LoadsNext
    <2>2. Untouched(Idle, Idle, pos) BY <1>1 DEF Untouched, Idle
    <2>3. uses = One(Idle.handler # "none") + One(Idle.handler # "none")
      BY <1>1 DEF One, Idle
    <2>4. ~Idle.ours BY DEF Idle
    <2>5. memory = {<<k, k + 1>> : k \in Stored(Idle, Idle, pos)}
      BY <1>1, <1>13
    <2> QED BY <1>1, <1>10, <1>11, <1>12, <2>1, <2>2, <2>3, <2>4, <2>5, Zenon
        DEF View
  <1>15. Phases BY <1>1 DEF Phases
  <1>16. ~misled BY <1>1
  <1> QED BY <1>3, <1>7, <1>8, <1>14, <1>15, <1>16, Zenon DEF FInv

LEMMA FifoStands == FInv /\ UNCHANGED vars => FInv'
  <1> SUFFICES ASSUME FInv, UNCHANGED vars PROVE FInv' OBVIOUS
  <1>1. UNCHANGED <<sg_list, scb, resid, uses, received, fifo, pos, contexts,
                    status, host, memory, misled, ended>>
    BY DEF vars
  <1>2. TypeOK' BY <1>1, SameBuffer DEF FInv, TypeOK
  <1>3. CalcResidual' = CalcResidual /\ Total' = Total
    BY <1>1, SameBuffer DEF CalcResidual, StartOf
  <1>4. Phases' BY <1>1, <1>3 DEF FInv, Phases
  <1>5. AtTarget(scb, resid, pos)' <=> AtTarget(scb, resid, pos)
    BY <1>1, SameBuffer DEF AtTarget
  <1>6. View(fifo[0], fifo[1])' BY <1>1, <1>5, Zenon DEF FInv, View
  <1> QED BY <1>1, <1>2, <1>4, <1>6 DEF FInv

LEMMA FifoStep ==
  ASSUME FInv, Next,
         \A f \in {0, 1} :
            RunDataFifo(f) /\ RunCfg4Data(f)
              => scb.last = (scb.next > Len(sg_list))
  PROVE  FInv'
  <1>1. ASSUME NEW f \in {0, 1}, Fifo(f) PROVE FInv'
    BY <1>1, BeginStep, ReceiveStep, EndStep, DrainStep, Cfg4DataStep,
       LoadSegmentStep, SavePointersStep, DrainedStep, LastSegDoneStep,
       ContextDoneStep, RunStep, Zenon
    DEF Fifo
  <1> QED BY <1>1, GoodStatusStep, TakeGoodStatusStep, FlushStep, FlushEndsStep
      DEF Next

-----------------------------------------------------------------------------
(* A context begun with a wrong mark.                                      *)

LEMMA Drifts ==
  ASSUME NEW f \in {0, 1}
  PROVE  Drifting(fifo[f], fifo[1 - f]) <=> Drifting(fifo[0], fifo[1])
  <1>1. \A x, y : Drifting(x, y) => Drifting(y, x)
    BY Sums, Zenon DEF Drifting
  <1>2. CASE f = 0
    <2>1. 1 - f = 1 BY <1>2
    <2> QED BY <1>2, <2>1, Zenon
  <1>3. CASE f = 1
    <2>1. 1 - f = 0 BY <1>3
    <2> QED BY <1>1, <1>3, <2>1, Zenon
  <1> QED BY <1>2, <1>3, Zenon

LEMMA DriftsNext ==
  ASSUME NEW f \in {0, 1}
  PROVE  Drifting(fifo[f], fifo[1 - f])' => Drifting(fifo[0], fifo[1])'
  BY Drifts, PTL

\* The bytes of a context cut short go to their places, and its pointers can
\* be saved.
LEMMA CutShortIs ==
  ASSUME Total \in Nat, NEW x \in Contexts, CutShort(x, Total)
  PROVE  /\ x.segs # <<>> /\ Loaded(x) = x.segs[1].upto
         /\ Newest(x) = x.segs[1] /\ SG_CACHE_SHADOW(x) = x.segs[1]
         /\ x.segs[1] \in SegType
         /\ \A n \in 1 .. Loaded(x) : Place(x, n) = x.base + n - 1
         /\ x.got < Loaded(x) => /\ SHCNT(x) \in 0 .. Total
                                /\ SHADDR(x) \in 0 .. Total
  <1> DEFINE g == x.segs[1]
  <1>1. x.segs \in Seq(SegType) /\ Len(x.segs) = 1 /\ DOMAIN x.segs = {1}
        /\ x.base \in Nat /\ x.got \in Nat
    <2>1. DOMAIN x.segs = 1 .. Len(x.segs) /\ x.segs \in Seq(SegType)
          /\ x.base \in Nat /\ x.got \in Nat
      BY ContextTyped
    <2> QED BY <2>1 DEF CutShort
  <1>2. x.segs # <<>>
    <2>1. Len(x.segs) # 0 BY <1>1
    <2> QED BY <2>1, EmptySeq
  <1>3. g \in SegType
    <2>1. 1 \in 1 .. Len(x.segs) BY <1>1
    <2> QED BY <1>1, <2>1, ElementOfSeq
  <1>4. g.at = x.base /\ g.upto = g.cnt /\ x.base + g.cnt <= Total
        /\ g.cnt \in 0 .. Total
    BY <1>3 DEF CutShort, SegType
  <1>5. Newest(x) = g BY <1>1 DEF Newest
  <1>6. Loaded(x) = g.upto BY <1>2, <1>5 DEF Loaded
  <1>7. ASSUME NEW n \in 1 .. Loaded(x) PROVE Place(x, n) = x.base + n - 1
    <2> DEFINE c == CHOOSE i \in DOMAIN x.segs :
                       /\ n <= x.segs[i].upto
                       /\ n > x.segs[i].upto - x.segs[i].cnt
    <2>1. n <= g.upto /\ n > g.upto - g.cnt BY <1>4, <1>6
    <2>2. c \in DOMAIN x.segs BY <1>1, <2>1
    <2>3. c = 1 BY <1>1, <2>2
    <2> HIDE DEF c
    <2>4. Place(x, n) = x.segs[c].at + n - 1
                        - (x.segs[c].upto - x.segs[c].cnt)
      BY DEF Place, c
    <2> QED BY <1>1, <1>4, <1>6, <2>3, <2>4
  <1>8. Reached(x) = 1
    <2> DEFINE C(i) == /\ i = Len(x.segs) \/ x.got < x.segs[i].upto
                       /\ \A k \in 1 .. i - 1 : x.got >= x.segs[k].upto
    <2>1. C(1) BY <1>1
    <2>2. Reached(x) = CHOOSE i \in DOMAIN x.segs : C(i) BY DEF Reached
    <2> HIDE DEF C
    <2>3. Reached(x) \in DOMAIN x.segs BY <1>1, <2>1, <2>2
    <2> QED BY <1>1, <2>3
  <1>9. SG_CACHE_SHADOW(x) = g BY <1>8 DEF SG_CACHE_SHADOW
  <1>10. ASSUME x.got < Loaded(x)
         PROVE  SHCNT(x) \in 0 .. Total /\ SHADDR(x) \in 0 .. Total
    <2>1. SHCNT(x) = g.upto - x.got BY <1>6, <1>9, <1>10 DEF SHCNT
    <2>2. SHADDR(x) = g.at + g.cnt - SHCNT(x) BY <1>9 DEF SHADDR
    <2> HIDE DEF g
    <2> QED BY <1>1, <1>4, <1>6, <1>10, <2>1, <2>2
  <1> HIDE DEF g
  <1>11. g = x.segs[1] BY DEF g
  <1> QED BY <1>2, <1>3, <1>5, <1>6, <1>7, <1>9, <1>10, <1>11, Zenon

\* It is the last one, and the context before it has put its place back.
LEMMA DriftStep ==
  ASSUME FInv, NEW f \in {0, 1}, RunDataFifo(f), RunCfg4Data(f),
         scb.last # (scb.next > Len(sg_list))
  PROVE  Adrift'
  <1> DEFINE x == fifo[f]
             y == fifo[1 - f]
             z == fifo'[f]
             g == FirstSegment
             s == Segm(sg_list, x.base + 1)
  <1>1. /\ host = "flushing" /\ CFG4DATA(f)
        /\ fifo' = [fifo EXCEPT ![f].fresh = FALSE, ![f].handler = "fake",
                                ![f].segs = <<g>>, ![f].loading = ~scb.last]
        /\ scb' = [scb EXCEPT !.full = FALSE]
        /\ resid' = [resid EXCEPT !.last = scb.last, !.next = scb.next,
                                  !.null = FALSE]
        /\ uses' = uses + 1
        /\ misled' = (misled \/ scb.last # (scb.next > Len(sg_list)))
    BY DEF RunDataFifo, RunCfg4Data
  <1>2. UNCHANGED <<sg_list, received, pos, contexts, status, host, memory,
                    ended>>
    <2>1. x.loading => FALSE
      <3>1. Announced(x) BY <1>1, AnnouncedIs
      <3> QED BY <3>1 DEF Announced
    <2> QED BY <1>1, <2>1, Zenon DEF RunDataFifo
  <1>3. /\ x.ours /\ x.fresh /\ Pending(x) /\ Announced(x) /\ ended = "no"
        /\ ScbNear(sg_list, scb, x.base)
        /\ Pending(y) => ScbAt(sg_list, scb, x.base)
    BY <1>1, AnnouncedIs
  <1>4. /\ Total \in Nat /\ sg_list \in SgLists /\ x \in Contexts
        /\ y \in Contexts /\ View(x, y) /\ pos \in Nat
        /\ fifo \in [{0, 1} -> Contexts]
    BY Given
  <1>5. sg_list # <<>> /\ List(sg_list) /\ x.base < Size(sg_list)
        /\ x.base \in Nat /\ Total = Size(sg_list)
    BY <1>3, <1>4, FifoLists, ContextTyped DEF View, Context
  <1>6. s \in 1 .. Len(sg_list) /\ Len(sg_list) \in Nat
        /\ x.base + 1 <= sg_list[s] /\ sg_list[s] \in Nat
        /\ sg_list[s] <= Total
    <2>1. Len(sg_list) \in Nat BY <1>5, Ends
    <2>2. x.base + 1 \in 1 .. Size(sg_list) BY <1>4, <1>5
    <2>3. s \in 1 .. Len(sg_list) /\ x.base + 1 <= sg_list[s]
      BY <1>5, <2>2, InSegment
    <2> QED BY <1>5, <2>1, <2>3, Ends
  <1>7. z = [x EXCEPT !.fresh = FALSE, !.handler = "fake", !.segs = <<g>>,
                      !.loading = ~scb.last]
        /\ fifo'[1 - f] = y
    BY <1>1, <1>4, Pair, Zenon
  <1>8. /\ z.got = x.got /\ z.ours = x.ours /\ z.fresh = FALSE
        /\ z.segs = <<g>> /\ z.done = x.done /\ z.base = x.base
        /\ z.over = x.over /\ z.saved = x.saved /\ z.loading = ~scb.last
        /\ z.handler = "fake"
    <2>1. DOMAIN x = FIELDS BY <1>4, ContextFields
    <2> HIDE DEF x, z, g
    <2> QED BY <1>7, <2>1, Zenon DEF FIELDS
  <1>9. /\ scb'.full = FALSE /\ resid'.null = FALSE
        /\ scb' \in [at : 0 .. Total, cnt : 0 .. Total, last : BOOLEAN,
                     next : Nat, null : BOOLEAN, full : BOOLEAN]
        /\ resid' \in [cnt : 0 .. Total, last : BOOLEAN, next : Nat,
                       null : BOOLEAN]
        /\ g \in [at : 0 .. Total, cnt : 0 .. Total, last : BOOLEAN,
                  next : Nat, upto : 0 .. Total]
    BY <1>1, ScbFields DEF FirstSegment
  <1>10. g.at = scb.at /\ g.cnt = scb.cnt /\ g.upto = scb.cnt
         /\ scb.at = x.base /\ scb.cnt = sg_list[s] - x.base
         /\ scb.next = s + 1 /\ (s = Len(sg_list) => scb.last)
    BY <1>3 DEF FirstSegment, ScbNear
  <1> HIDE DEF x, y, z, g
  <1>11. scb.last = TRUE /\ s # Len(sg_list)
    <2>1. scb.last \in BOOLEAN BY ScbFields
    <2> HIDE DEF s
    <2>2. (scb.next > Len(sg_list)) = (s = Len(sg_list)) BY <1>6, <1>10
    <2> QED BY <1>10, <2>1, <2>2
  <1>12. ~Pending(y)
    <2>1. x.base # Size(sg_list) BY <1>4, <1>5
    <2>2. ~ScbAt(sg_list, scb, x.base)
      BY <1>5, <1>11, <2>1 DEF ScbAt, s
    <2> QED BY <1>3, <2>2
  <1>13. CutShort(z, Total)
    <2>1. Len(z.segs) = 1 /\ z.segs[1] = g BY <1>8
    <2>2. x.base + g.cnt = sg_list[s]
      <3> HIDE DEF s
      <3> QED BY <1>5, <1>6, <1>10
    <2> QED BY <1>6, <1>8, <1>10, <2>1, <2>2 DEF CutShort
  <1>14. status # "none" /\ ~misled BY <1>1 DEF FInv, Phases
  <1>15. (x.ours => x.over) /\ (y.ours => y.over)
         /\ Context(sg_list, x) /\ Context(sg_list, y)
    BY <1>4, <1>14 DEF View
  <1>16. z \in Contexts
    <2>1. <<g>> \in Seq([at : 0 .. Total, cnt : 0 .. Total, last : BOOLEAN,
                         next : Nat, upto : 0 .. Total])
      BY <1>9
    <2>2. (~scb.last) \in BOOLEAN BY Zenon
    <2> QED BY <1>4, <1>7, <2>1, <2>2 DEF Contexts
  <1>17. Rests(z, Total)
    <2>1. z.segs # <<>> /\ \A n \in 1 .. Loaded(z) : Place(z, n) = z.base + n - 1
      BY <1>4, <1>13, <1>16, CutShortIs
    <2>2. z.ours /\ ~z.fresh /\ z.over /\ z.handler # "none"
      BY <1>3, <1>8, <1>15
    <2>3. ~z.loading BY <1>8, <1>11
    <2> QED BY <1>13, <2>1, <2>2, <2>3, Zenon DEF Rests
  <1>18. Rests(y, Total)
    <2>1. CASE ~y.ours BY <1>15, <2>1 DEF Context, Rests
    <2>2. CASE y.ours
      <3>1. ~y.fresh
        <4> SUFFICES ASSUME y.fresh PROVE FALSE OBVIOUS
        <4>1. Announced(y) BY <1>15, <2>2 DEF Context
        <4> QED BY <1>12, <2>2, <4>1 DEF Announced, Pending
      <3>2. Served(sg_list, y) BY <1>15, <2>2, <3>1 DEF Context
      <3>3. y.handler # "ctxt"
        <4> SUFFICES ASSUME y.handler = "ctxt" PROVE FALSE OBVIOUS
        <4>1. fifo[1 - f].ours /\ ~fifo[1 - f].fresh
              /\ fifo[1 - f].handler = "ctxt"
          BY <2>2, <3>1 DEF y
        <4>2. fifo[1 - (1 - f)].handler = "none" => ~fifo[1 - (1 - f)].ours
          BY <4>1, WholeBuffer, Pair
        <4>3. x.handler = "none" => ~x.ours BY <4>2, Pair DEF x
        <4> QED BY <1>3, <4>3 DEF Announced
      <3>4. y.saved BY <1>12, <2>2, <3>3 DEF Pending
      <3>5. \A n \in 1 .. Loaded(y) : Place(y, n) = y.base + n - 1
        BY <1>4, <1>5, <3>2, PlaceOf DEF Served
      <3>6. y.segs # <<>> /\ ~y.loading /\ y.handler # "none" /\ y.over
        BY <1>15, <2>2, <3>2, <3>4 DEF Served, Covers
      <3> QED BY <2>2, <3>1, <3>4, <3>5, <3>6, Zenon DEF Rests
    <2> QED BY <2>1, <2>2
  <1>19. uses' = One(z.handler # "none") + One(y.handler # "none")
         /\ uses' \in 0 .. 2
    <2>1. uses = One(x.handler # "none") + One(y.handler # "none")
      BY <1>4, Zenon DEF View
    <2>2. One(x.handler # "none") = 0 BY <1>3 DEF Announced, One
    <2>3. One(z.handler # "none") = 1 BY <1>8 DEF One
    <2>4. One(y.handler # "none") \in 0 .. 1 BY DEF One
    <2> QED BY <1>1, <2>1, <2>2, <2>3, <2>4
  <1>20. \A m \in memory' : m[2] = m[1] + 1
    <2>1. memory = {<<k, k + 1>> : k \in Stored(x, y, pos)}
      BY <1>4, Zenon DEF View
    <2> QED BY <1>2, <2>1
  <1>21. misled' = TRUE BY <1>1, <1>14
  <1>22. TypeOK'
    <2>1. fifo' = [fifo EXCEPT ![f] = z] BY <1>1, <1>7, Zenon DEF x, g
    <2>2. fifo' \in [{0, 1} -> Contexts] BY <1>4, <1>16, <2>1, Updated
    <2> QED BY <1>2, <1>9, <1>19, <1>21, <2>2, SameBuffer DEF FInv, TypeOK
  <1>23. Drifting(fifo[0], fifo[1])'
    <2>1. Drifting(fifo[f], fifo[1 - f])'
      BY <1>2, <1>7, <1>17, <1>18, <1>19, SameBuffer, Zenon DEF Drifting, z
    <2> QED BY <2>1, DriftsNext
  <1> QED BY <1>1, <1>2, <1>3, <1>9, <1>14, <1>20, <1>21, <1>22, <1>23
      DEF Adrift
\* What a step of such a command starts from.
LEMMA AdriftGiven ==
  ASSUME Adrift, NEW f \in {0, 1}
  PROVE  /\ Total \in Nat /\ fifo \in [{0, 1} -> Contexts]
         /\ fifo[f] \in Contexts /\ fifo[1 - f] \in Contexts
         /\ Drifting(fifo[f], fifo[1 - f])
         /\ Rests(fifo[f], Total)
         /\ fifo[f].fresh = FALSE
         /\ fifo[f].ours => fifo[f].over /\ ~fifo[f].loading
         /\ host = "away" => fifo[f] = Idle
  <1>1. sg_list \in SgLists /\ fifo \in [{0, 1} -> Contexts]
    BY DEF Adrift, TypeOK
  <1>2. Total \in Nat BY <1>1, TotalIsNat
  <1>3. fifo[f] \in Contexts /\ fifo[1 - f] \in Contexts BY <1>1, Pair
  <1>4. Drifting(fifo[f], fifo[1 - f]) BY Drifts DEF Adrift
  <1>5. Rests(fifo[f], Total) BY <1>4 DEF Drifting
  <1>6. fifo[f].fresh = FALSE
    <2>1. ~fifo[f].fresh BY <1>5 DEF Rests, Idle
    <2>2. fifo[f].fresh \in BOOLEAN BY <1>3 DEF Contexts
    <2> QED BY <2>1, <2>2
  <1>7. fifo[f].ours => fifo[f].over /\ ~fifo[f].loading BY <1>5 DEF Rests
  <1>8. host = "away" => fifo[f] = Idle BY DEF Adrift
  <1> QED BY <1>1, <1>2, <1>3, <1>4, <1>5, <1>6, <1>7, <1>8

\* The chip empties a FIFO.
LEMMA AdriftDrain ==
  ASSUME Adrift, NEW f \in {0, 1}, Drain(f)
  PROVE  Adrift'
  <1> DEFINE x == fifo[f]
             y == fifo[1 - f]
             z == fifo'[f]
             upto == IF SHVALID(x) THEN x.got ELSE Loaded(x)
             Bytes == {<<Place(x, n), x.base + n>> : n \in x.done + 1 .. upto}
  <1>1. /\ x.done < upto
        /\ fifo' = [fifo EXCEPT ![f].done = upto]
        /\ memory' = memory \cup Bytes
        /\ UNCHANGED <<sg_list, scb, resid, uses, received, pos, contexts,
                       status, host, misled, ended>>
    BY DEF Drain
  <1>2. /\ Total \in Nat /\ fifo \in [{0, 1} -> Contexts] /\ x \in Contexts
        /\ Drifting(x, y) /\ Rests(x, Total)
        /\ host = "away" => x = Idle
    BY AdriftGiven
  <1>3. x.done \in Nat /\ x.base \in Nat /\ x.got \in Nat /\ x.got <= Total
        /\ x.segs \in Seq(SegType)
    BY <1>2, ContextTyped
  <1>4. x.ours /\ x.segs # <<>>
    <2>1. CASE x = Idle
      <3>1. x.done = 0 /\ Loaded(x) = 0 /\ x.got = 0
        BY <2>1 DEF Idle, Loaded
      <3> QED BY <1>1, <3>1
    <2> QED BY <1>2, <2>1 DEF Rests
  <1>5. Loaded(x) \in 0 .. Total
    <2>1. Len(x.segs) \in Nat BY <1>3, LenProperties
    <2>2. Len(x.segs) # 0 BY <1>3, <1>4, EmptySeq
    <2>3. Len(x.segs) \in 1 .. Len(x.segs) BY <2>1, <2>2
    <2>4. Newest(x) \in SegType BY <1>3, <2>3, ElementOfSeq DEF Newest
    <2> QED BY <1>4, <2>4 DEF Loaded, SegType
  <1>6. upto \in 0 .. Total /\ upto <= Loaded(x)
    BY <1>2, <1>3, <1>5 DEF SHVALID
  <1>7. z = [x EXCEPT !.done = upto] /\ fifo'[1 - f] = y
    BY <1>1, <1>2, Pair, Zenon
  <1>8. /\ z.got = x.got /\ z.ours = x.ours /\ z.fresh = x.fresh
        /\ z.segs = x.segs /\ z.done = upto /\ z.base = x.base
        /\ z.over = x.over /\ z.saved = x.saved /\ z.loading = x.loading
        /\ z.handler = x.handler
    <2>1. DOMAIN x = FIELDS BY <1>2, ContextFields
    <2> HIDE DEF x, z, upto
    <2> QED BY <1>7, <2>1, Zenon DEF FIELDS
  <1> HIDE DEF x, y, z, upto
  <1>9. z \in Contexts BY <1>2, <1>6, <1>7 DEF Contexts
  <1>10. \A n : Place(z, n) = Place(x, n) BY <1>8 DEF Place
  <1>11. Rests(z, Total)
    <2>1. Loaded(z) = Loaded(x) BY <1>8 DEF Loaded, Newest
    <2>2. CutShort(z, Total) <=> CutShort(x, Total) BY <1>8 DEF CutShort
    <2> QED BY <1>2, <1>4, <1>8, <1>10, <2>1, <2>2, Zenon DEF Rests
  <1>12. ASSUME NEW m \in memory' PROVE m[2] = m[1] + 1
    <2>1. CASE m \in memory BY <2>1 DEF Adrift
    <2>2. CASE m \in Bytes
      <3>1. PICK n \in x.done + 1 .. upto : m = <<Place(x, n), x.base + n>>
        BY <2>2
      <3>2. n \in 1 .. Loaded(x) /\ n \in Nat BY <1>3, <1>5, <1>6, <3>1
      <3>3. Place(x, n) = x.base + n - 1 BY <1>2, <1>4, <3>2 DEF Rests
      <3> QED BY <1>3, <3>1, <3>2, <3>3
    <2> QED BY <1>1, <2>1, <2>2
  <1>13. Drifting(fifo[0], fifo[1])'
    <2>1. Drifting(fifo[f], fifo[1 - f])'
      BY <1>1, <1>2, <1>7, <1>8, <1>11, SameBuffer, Zenon DEF Drifting, z
    <2> QED BY <2>1, DriftsNext
  <1>14. TypeOK'
    <2>1. fifo' = [fifo EXCEPT ![f] = z]
      BY <1>1, <1>7, Zenon DEF x
    <2>2. fifo' \in [{0, 1} -> Contexts] BY <1>2, <1>9, <2>1, Updated
    <2> QED BY <1>1, <2>2, SameBuffer DEF Adrift, TypeOK
  <1>15. host # "away" BY <1>2, <1>4 DEF Idle
  <1> QED BY <1>1, <1>12, <1>13, <1>14, <1>15 DEF Adrift

\* The host goes on with one.
LEMMA AdriftRun ==
  ASSUME Adrift, NEW f \in {0, 1}, RunDataFifo(f)
  PROVE  Adrift'
  <1> DEFINE x == fifo[f]
             y == fifo[1 - f]
             z == fifo'[f]
             Rest == UNCHANGED <<sg_list, received, pos, contexts, status, host,
                                 memory, ended>>
  <1>1. /\ Total \in Nat /\ fifo \in [{0, 1} -> Contexts] /\ x \in Contexts
        /\ Drifting(x, y) /\ Rests(x, Total) /\ x.fresh = FALSE
        /\ x.ours => x.over /\ ~x.loading
    BY AdriftGiven
  <1>2. host = "flushing" /\ Active(f) BY DEF RunDataFifo
  <1>3. ~CFG4DATA(f) BY <1>1 DEF CFG4DATA
  <1>4. ~x.loading BY <1>1 DEF Rests, Idle
  <1>5. Rest /\ (RunSavePointers(f) \/ RunRelease(f))
    BY <1>3, <1>4, Zenon DEF RunDataFifo, RunCfg4Data
  <1>6. CASE RunSavePointers(f)
    <2> DEFINE r == Residual(x)
    <2>1. SAVEPTRS(x) /\ resid' = r /\ UNCHANGED <<uses, misled>>
          /\ scb' = [at |-> SHADDR(x), cnt |-> SHCNT(x), last |-> resid.last,
                     next |-> r.next, null |-> resid.null, full |-> FALSE]
          /\ fifo' = [fifo EXCEPT ![f].saved = TRUE, ![f].loading = FALSE]
      BY <1>6 DEF RunSavePointers
    <2>2. x.over /\ ~x.saved /\ x.got < Loaded(x)
      BY <2>1 DEF SAVEPTRS, SHVALID
    <2>3. x.ours BY <1>1, <2>2 DEF Rests, Idle
    <2>4. CutShort(x, Total) BY <1>1, <2>2, <2>3 DEF Rests
    <2>5. SHCNT(x) \in 0 .. Total /\ SHADDR(x) \in 0 .. Total
          /\ SG_CACHE_SHADOW(x) \in SegType
      BY <1>1, <2>2, <2>4, CutShortIs
    <2>6. resid \in [cnt : 0 .. Total, last : BOOLEAN, next : Nat,
                     null : BOOLEAN] /\ ~resid.null
      BY DEF Adrift, TypeOK
    <2> DEFINE no == FALSE
    <2>7. r \in [cnt : 0 .. Total, last : BOOLEAN, next : Nat,
                 null : BOOLEAN] /\ ~r.null
      <3>1. CASE ~SG_CACHE_SHADOW(x).last
        <4>1. r = [cnt |-> SHCNT(x), last |-> no,
                   next |-> SG_CACHE_SHADOW(x).next, null |-> no]
          BY <3>1 DEF Residual
        <4>2. no \in BOOLEAN /\ ~no OBVIOUS
        <4>3. SG_CACHE_SHADOW(x).next \in Nat BY <2>5 DEF SegType
        <4> HIDE DEF r, no
        <4> QED BY <2>5, <4>1, <4>2, <4>3
      <3>2. CASE SG_CACHE_SHADOW(x).last
        <4>1. r = [resid EXCEPT !.cnt = SHCNT(x)]
          BY <2>2, <3>2 DEF Residual, SHVALID
        <4> HIDE DEF r
        <4> QED BY <2>5, <2>6, <4>1
      <3> QED BY <3>1, <3>2
    <2> HIDE DEF r
    <2>8. scb' \in [at : 0 .. Total, cnt : 0 .. Total, last : BOOLEAN,
                    next : Nat, null : BOOLEAN, full : BOOLEAN]
          /\ ~scb'.full
      BY <2>1, <2>5, <2>6, <2>7
    <2>9. z = [x EXCEPT !.saved = TRUE, !.loading = FALSE]
          /\ fifo'[1 - f] = y
      BY <1>1, <2>1, Pair, Zenon
    <2>10. /\ z.got = x.got /\ z.ours = x.ours /\ z.fresh = x.fresh
           /\ z.segs = x.segs /\ z.done = x.done /\ z.base = x.base
           /\ z.over = x.over /\ z.saved = TRUE /\ z.loading = FALSE
           /\ z.handler = x.handler
      <3>1. DOMAIN x = FIELDS BY <1>1, ContextFields
      <3> HIDE DEF x, z
      <3> QED BY <2>9, <3>1, Zenon DEF FIELDS
    <2> HIDE DEF x, y, z
    <2>11. z \in Contexts BY <1>1, <2>9 DEF Contexts
    <2>12. Rests(z, Total)
      <3>1. Loaded(z) = Loaded(x) BY <2>10 DEF Loaded, Newest
      <3>2. \A n : Place(z, n) = Place(x, n) BY <2>10 DEF Place
      <3> QED BY <1>1, <2>3, <2>10, <3>1, <3>2, Zenon DEF Rests
    <2>13. Drifting(fifo[0], fifo[1])'
      <3>1. Drifting(fifo[f], fifo[1 - f])'
        BY <1>1, <1>5, <2>1, <2>9, <2>10, <2>12, SameBuffer, Zenon
        DEF Drifting, z
      <3> QED BY <3>1, DriftsNext
    <2>14. TypeOK'
      <3>1. fifo' = [fifo EXCEPT ![f] = z]
        BY <2>1, <2>9, Zenon DEF x
      <3>2. fifo' \in [{0, 1} -> Contexts] BY <1>1, <2>11, <3>1, Updated
      <3> QED BY <1>5, <2>1, <2>7, <2>8, <3>2, SameBuffer DEF Adrift, TypeOK
    <2> QED BY <1>2, <1>5, <2>1, <2>7, <2>8, <2>13, <2>14 DEF Adrift
  <1>7. CASE RunRelease(f)
    <2>1. /\ ~SAVEPTRS(x)
          /\ scb' = IF LAST_SEG_DONE(x) THEN [scb EXCEPT !.null = TRUE] ELSE scb
          /\ fifo' = [fifo EXCEPT ![f] = Idle]
          /\ uses' = uses - 1
          /\ UNCHANGED <<resid, misled>>
      BY <1>7 DEF RunRelease
    <2>2. x.handler # "none" BY <1>2, <1>3, <2>1 DEF Active
    <2>3. scb' \in [at : 0 .. Total, cnt : 0 .. Total, last : BOOLEAN,
                    next : Nat, null : BOOLEAN, full : BOOLEAN]
          /\ ~scb'.full
      BY <2>1 DEF Adrift, TypeOK
    <2>4. z = Idle /\ fifo'[1 - f] = y BY <1>1, <2>1, Updated
    <2>5. fifo' \in [{0, 1} -> Contexts] BY <1>1, <2>1, IdleTyped, Updated
    <2> HIDE DEF x, y, z
    <2>6. uses' = One(z.handler # "none") + One(y.handler # "none")
          /\ uses' \in 0 .. 2
      <3>1. uses = One(x.handler # "none") + One(y.handler # "none")
        BY <1>1 DEF Drifting
      <3>2. One(x.handler # "none") = 1 BY <2>2 DEF One
      <3>3. One(z.handler # "none") = 0 BY <2>4 DEF One, Idle
      <3>4. One(y.handler # "none") \in 0 .. 1 BY DEF One
      <3> QED BY <2>1, <3>1, <3>2, <3>3, <3>4
    <2>7. Rests(z, Total) /\ Rests(y, Total)
      <3>1. ~z.ours BY <2>4 DEF Idle
      <3> QED BY <1>1, <2>4, <3>1 DEF Drifting, Rests
    <2>8. Drifting(fifo[0], fifo[1])'
      <3>1. Drifting(fifo[f], fifo[1 - f])'
        BY <1>5, <2>4, <2>6, <2>7, SameBuffer, Zenon DEF Drifting, z
      <3> QED BY <3>1, DriftsNext
    <2>9. TypeOK'
      BY <1>5, <2>1, <2>3, <2>5, <2>6, SameBuffer DEF Adrift, TypeOK
    <2> QED BY <1>2, <1>5, <2>1, <2>3, <2>8, <2>9 DEF Adrift
  <1> QED BY <1>5, <1>6, <1>7

LEMMA AdriftEnds ==
  ASSUME Adrift, FlushEnds
  PROVE  Adrift'
  <1>1. /\ host = "flushing" /\ \A f \in {0, 1} : ~Active(f)
        /\ status' = "taken" /\ ended' = Flushed /\ host' = "away"
        /\ UNCHANGED <<sg_list, scb, resid, uses, received, fifo, pos, contexts,
                       memory, misled>>
    BY DEF FlushEnds
  <1>2. ended' = "complete" BY <1>1 DEF Flushed, Adrift
  <1>3. ASSUME NEW f \in {0, 1} PROVE fifo[f] = Idle
    <2>1. fifo[f].handler = "none" BY <1>1 DEF Active
    <2>2. Rests(fifo[f], Total) BY AdriftGiven
    <2> QED BY <2>1, <2>2 DEF Rests
  <1>4. fifo[0] = Idle /\ fifo[1] = Idle BY <1>3
  <1>5. Drifting(fifo[0], fifo[1])'
    BY <1>1, SameBuffer, Zenon DEF Adrift, Drifting
  <1>6. TypeOK' BY <1>1, <1>2, SameBuffer DEF Adrift, TypeOK
  <1> QED BY <1>1, <1>2, <1>4, <1>5, <1>6 DEF Adrift

\* Nothing else happens to it.
LEMMA AdriftStep == Adrift /\ Next => Adrift'
  <1> SUFFICES ASSUME Adrift, Next PROVE Adrift' OBVIOUS
  <1>1. status # "none" /\ (host = "away" => status = "taken")
    BY DEF Adrift
  <1>2. ASSUME NEW f \in {0, 1}, Fifo(f) PROVE Adrift'
    <2>1. /\ ~fifo[f].fresh /\ ~OnTheBus(f)
          /\ host = "away" => fifo[f].handler = "none"
      <3>1. /\ fifo[f].fresh = FALSE
            /\ fifo[f].ours => fifo[f].over
            /\ host = "away" => fifo[f] = Idle
        BY AdriftGiven
      <3>2. Idle.handler = "none" BY DEF Idle
      <3> QED BY <3>1, <3>2 DEF OnTheBus
    <2>2. ~BeginContext(f) /\ ~Receive(f) /\ ~EndContext(f)
      BY <1>1, <2>1 DEF BeginContext, Receive, EndContext
    <2>3. ~Cfg4Data(f) BY <2>1 DEF Cfg4Data, CFG4DATA
    <2>4. /\ ~LoadSegment(f) /\ ~SavePointers(f) /\ ~Drained(f)
          /\ ~LastSegDone(f) /\ ~ContextDone(f)
      BY <2>1 DEF LoadSegment, SavePointers, Drained, LastSegDone, ContextDone,
                  IdleLoop
    <2> QED BY <1>2, <2>2, <2>3, <2>4, AdriftDrain, AdriftRun, Zenon DEF Fifo
  <1>3. ~GoodStatus /\ ~TakeGoodStatus /\ ~Flush
    BY <1>1 DEF GoodStatus, TakeGoodStatus, IdleLoop, Flush
  <1> QED BY <1>2, <1>3, AdriftEnds, Zenon DEF Next

LEMMA AdriftStands == Adrift /\ UNCHANGED vars => Adrift'
  <1> SUFFICES ASSUME Adrift, UNCHANGED vars PROVE Adrift' OBVIOUS
  <1>1. UNCHANGED <<sg_list, scb, resid, uses, received, fifo, pos, contexts,
                    status, host, memory, misled, ended>>
    BY DEF vars
  <1>2. TypeOK' BY <1>1, SameBuffer DEF Adrift, TypeOK
  <1>3. Drifting(fifo[0], fifo[1])'
    BY <1>1, SameBuffer, Zenon DEF Adrift, Drifting
  <1> QED BY <1>1, <1>2, <1>3 DEF Adrift

-----------------------------------------------------------------------------
(* What the invariant gives.                                               *)

LEMMA DataStep == DInv /\ [Next]_vars => DInv'
  <1> SUFFICES ASSUME DInv, [Next]_vars PROVE DInv' OBVIOUS
  <1>1. CASE Adrift
    <2>1. Adrift' BY <1>1, AdriftStep, AdriftStands
    <2> QED BY <2>1 DEF DInv
  <1>2. CASE FInv /\ UNCHANGED vars
    <2>1. FInv' BY <1>2, FifoStands
    <2> QED BY <2>1 DEF DInv
  <1>3. CASE FInv /\ Next
    <2>1. CASE \A f \in {0, 1} : RunDataFifo(f) /\ RunCfg4Data(f)
                                  => scb.last = (scb.next > Len(sg_list))
      <3>1. FInv' BY <1>3, <2>1, FifoStep
      <3> QED BY <3>1 DEF DInv
    <2>2. CASE ~ (\A f \in {0, 1} : RunDataFifo(f) /\ RunCfg4Data(f)
                                  => scb.last = (scb.next > Len(sg_list)))
      <3>1. PICK f \in {0, 1} : /\ RunDataFifo(f) /\ RunCfg4Data(f)
                                /\ scb.last # (scb.next > Len(sg_list))
        BY <2>2
      <3>2. Adrift' BY <1>3, <3>1, DriftStep
      <3> QED BY <3>2 DEF DInv
    <2> QED BY <2>1, <2>2
  <1> QED BY <1>1, <1>2, <1>3 DEF DInv

LEMMA FifoInvariant == FamilySpec => []DInv
  <1>1. FamilyInit => DInv BY FifoInit DEF FamilyInit, DInv
  <1>2. DInv /\ [FamilyNext]_<<family, vars, ahcVars>> => DInv'
    <2> SUFFICES ASSUME DInv, [FamilyNext]_<<family, vars, ahcVars>>
                 PROVE  DInv'
      OBVIOUS
    <2>1. [Next]_vars BY DEF FamilyNext
    <2> QED BY <2>1, DataStep
  <1> QED BY <1>1, <1>2, PTL DEF FamilySpec

\* No byte of a packetized command lies in memory but at its place, and whoever
\* completes the command, the firmware or the host that flushes, has left both
\* FIFOs by then, and has all of its data in memory unless the host has begun a
\* context with a wrong mark of the last segment (idle_loop_gsfifo,
\* pkt_complete_scb_if_fifos_idle, ahd_flush_qoutfifo, ahd_run_data_fifo).
THEOREM FifoDataFirst == FamilySpec => []DataComesFirst
  <1>1. FInv => DataComesFirst
    <2> SUFFICES ASSUME FInv PROVE DataComesFirst OBVIOUS
    <2>1. View(fifo[0], fifo[1]) /\ TypeOK BY DEF FInv
    <2>2. memory = {<<k, k + 1>> : k \in Stored(fifo[0], fifo[1], pos)}
      BY <2>1, Zenon DEF View
    <2>3. \A m \in memory : m[2] = m[1] + 1 BY <2>2
    <2>4. ASSUME ended # "no"
          PROVE  AllInMemory /\ fifo = [f \in {0, 1} |-> Idle]
      <3>1. fifo[0] = Idle /\ fifo[1] = Idle BY <2>1, <2>4 DEF View
      <3>2. Stored(Idle, Idle, pos) = 0 .. pos - 1
        <4>1. \A k \in 0 .. pos - 1 : ~InFifo(Idle, k) BY DEF InFifo, Idle
        <4> QED BY <4>1 DEF Stored
      <3>3. fifo = [f \in {0, 1} |-> Idle]
        <4>1. fifo \in [{0, 1} -> Contexts] BY <2>1 DEF TypeOK
        <4>2. \A f \in {0, 1} : fifo[f] = Idle BY <3>1
        <4> QED BY <4>1, <4>2
      <3> QED BY <2>2, <3>1, <3>2, <3>3 DEF AllInMemory
    <2> QED BY <2>1, <2>3, <2>4 DEF DataComesFirst, DataBeforeCompletion
  <1>2. Adrift => DataComesFirst
    <2> SUFFICES ASSUME Adrift PROVE DataComesFirst OBVIOUS
    <2>1. ended # "no" => fifo = [f \in {0, 1} |-> Idle]
      <3> SUFFICES ASSUME ended # "no" PROVE fifo = [f \in {0, 1} |-> Idle]
        OBVIOUS
      <3>1. fifo \in [{0, 1} -> Contexts] /\ host = "away"
        BY DEF Adrift, TypeOK
      <3>2. \A f \in {0, 1} : fifo[f] = Idle BY <3>1 DEF Adrift
      <3> QED BY <3>1, <3>2
    <2> QED BY <2>1 DEF Adrift, DataComesFirst, DataBeforeCompletion
  <1>3. DInv => DataComesFirst BY <1>1, <1>2 DEF DInv
  <1>4. FamilySpec => []DInv BY FifoInvariant
  <1> QED BY <1>3, <1>4, PTL

\* An SCB of the aic79xx that is uploaded to tell of a residual tells exactly
\* how much of the buffer the target has not filled (ahd_calc_residual).
THEOREM FifoUploadTells == FamilySpec => []UploadTellsResidual
  <1>1. FInv => UploadTellsResidual
    BY DEF FInv, Phases, UploadTellsResidual
  <1>2. Adrift => UploadTellsResidual BY DEF Adrift, UploadTellsResidual
  <1>3. DInv => UploadTellsResidual BY <1>1, <1>2 DEF DInv
  <1>4. FamilySpec => []DInv BY FifoInvariant
  <1> QED BY <1>3, <1>4, PTL
=============================================================================
