-------------------------- MODULE CanTransferProofs -------------------------
(* Proofs about CanTransfer: see the README for the argument.              *)
EXTENDS CanTransfer, FiniteSetTheorems, SequenceTheorems, WellFoundedInduction, TLAPS

-----------------------------------------------------------------------------
(* The constants, the two nodes and the arithmetic.                        *)

LEMMA Sizes ==
  /\ Tids \in Nat /\ Tids >= 2 /\ FrameBytes \in Nat /\ FrameBytes >= 2
  /\ HeadBytes \in Nat /\ BlockBytes \in Nat /\ BlockBytes >= 2
  /\ Pool \in Nat /\ Pool >= 2 /\ MaxBusFaults \in Nat
<1>1. \A x \in {Tids, FrameBytes, HeadBytes, BlockBytes, Pool} : x \in Nat /\ x # 0 /\ x # 1
  BY TransferAssumption
<1> QED
  BY <1>1, TransferAssumption

LEMMA Sender ==
  ASSUME NEW s \in Sessions
  PROVE  s[1] \in Nodes /\ s[2] \in Nat
BY TransferAssumption

LEMMA OtherNode ==
  ASSUME NEW m \in Nodes
  PROVE  /\ Other(m) \in Nodes /\ Other(m) # m
         /\ \A n \in Nodes : n # m => n = Other(m)
         /\ Other(Other(m)) = m
<1>1. PICK a, b \in Nodes : a # b /\ Nodes = {a, b}
  BY TransferAssumption
<1>2. \A n \in Nodes : \E o \in Nodes : o # n
  BY <1>1
<1>3. \A n \in Nodes : Other(n) \in Nodes /\ Other(n) # n
  BY <1>2 DEF Other
<1> QED
  BY <1>1, <1>3

TidSet == 0..(Tids - 1)

LEMMA NextTid ==
  ASSUME NEW t \in TidSet
  PROVE  /\ IncrementTransferID(t) = IF t + 1 = Tids THEN 0 ELSE t + 1
         /\ IncrementTransferID(t) \in TidSet /\ IncrementTransferID(t) # t
<1>1. Tids \in Nat /\ Tids >= 2 /\ t \in Nat /\ t <= Tids - 1
  BY Sizes DEF TidSet
<1>2. (t + 1) % Tids = IF t + 1 = Tids THEN 0 ELSE t + 1
  BY <1>1
<1> QED
  BY <1>1, <1>2 DEF IncrementTransferID, TidSet

LEMMA Distance ==
  ASSUME NEW a \in TidSet, NEW b \in TidSet
  PROVE  ForwardDistance(a, b) = IF a >= b THEN a - b ELSE a - b + Tids
<1>1. /\ Tids \in Nat /\ Tids >= 2 /\ a \in Nat /\ a <= Tids - 1
      /\ b \in Nat /\ b <= Tids - 1
  BY Sizes DEF TidSet
<1> DEFINE d == a - b
<1>2. d \in Int /\ -Tids < d /\ d < Tids
  BY <1>1
<1> HIDE DEF d
<1>3. d % Tids = IF d >= 0 THEN d ELSE d + Tids
  BY <1>1, <1>2
<1> QED
  BY <1>1, <1>3 DEF ForwardDistance, d

(* A state takes a frame only if it is for the state's transfer or for the *)
(* one before.                                                             *)
LEMMA Near ==
  ASSUME NEW a \in TidSet, NEW b \in TidSet, ~(ForwardDistance(a, b) > 1)
  PROVE  a = b \/ a = IncrementTransferID(b)
<1>1. /\ Tids \in Nat /\ Tids >= 2 /\ a \in Nat /\ a <= Tids - 1
      /\ b \in Nat /\ b <= Tids - 1
  BY Sizes DEF TidSet
<1> QED
  BY <1>1, NextTid, Distance

LEMMA BlocksAreNat ==
  ASSUME NEW l \in Int
  PROVE  BlocksFor(l) \in Nat
<1>1. BlockBytes \in Nat /\ BlockBytes > 0 /\ HeadBytes \in Nat
  BY Sizes
<1>2. \A x \in Nat : x \div BlockBytes \in Nat
  BY <1>1
<1> QED
  BY <1>1, <1>2 DEF BlocksFor

-----------------------------------------------------------------------------
(* The blocks that states hold.                                            *)

HeldBy(i, states) == UNION {{s} \X (0..i.rx[s].blocks) : s \in states}

LEMMA HeldCounted ==
  ASSUME NEW i, NEW D
  PROVE  BlocksHeld(i, D) = Cardinality(HeldBy(i, D))
BY DEF BlocksHeld, HeldBy

LEMMA HeldByOne ==
  ASSUME NEW i, NEW D, NEW s, s \notin D, i.rx[s].blocks \in Nat, IsFiniteSet(HeldBy(i, D))
  PROVE  /\ IsFiniteSet(HeldBy(i, D \cup {s}))
         /\ BlocksHeld(i, D \cup {s}) = BlocksHeld(i, D) + i.rx[s].blocks + 1
         /\ BlocksHeld(i, D) \in Nat
<1> DEFINE A == HeldBy(i, D)
           b == i.rx[s].blocks
           B == {s} \X (0..b)
<1>1. IsFiniteSet(B) /\ Cardinality(B) = b + 1
  <2>0. b \in Nat
    OBVIOUS
  <2>1. IsFiniteSet(0..b) /\ Cardinality(0..b) = b + 1
    <3> HIDE DEF b
    <3> QED
      BY <2>0, FS_Interval
  <2>2. IsFiniteSet({s}) /\ Cardinality({s}) = 1
    BY FS_Singleton
  <2>3. IsFiniteSet(B) /\ Cardinality(B) = Cardinality({s}) * Cardinality(0..b)
    BY <2>1, <2>2, FS_Product
  <2> HIDE DEF B
  <2> QED
    BY <2>1, <2>2, <2>3
<1>2. HeldBy(i, D \cup {s}) = A \cup B
  BY DEF HeldBy
<1>3. A \cap B = {}
  BY DEF HeldBy
<1> HIDE DEF A, B
<1>4. IsFiniteSet(A \cup B)
      /\ Cardinality(A \cup B) = Cardinality(A) + Cardinality(B) - Cardinality(A \cap B)
  BY <1>1, FS_Union DEF A
<1>5. Cardinality(A \cap B) = 0 /\ Cardinality(A) \in Nat
  BY <1>3, FS_EmptySet, FS_CardinalityType DEF A
<1>6. b \in Nat
  BY DEF b
<1>7. BlocksHeld(i, D) = Cardinality(A)
  BY HeldCounted DEF A
<1>8. BlocksHeld(i, D \cup {s}) = Cardinality(A \cup B)
  BY <1>2, HeldCounted
<1>9. IsFiniteSet(HeldBy(i, D \cup {s}))
  BY <1>2, <1>4
<1>10. BlocksHeld(i, D \cup {s}) = BlocksHeld(i, D) + b + 1
  BY <1>1, <1>4, <1>5, <1>6, <1>7, <1>8
<1> QED
  BY <1>5, <1>7, <1>9, <1>10 DEF b

LEMMA HeldByFewer ==
  ASSUME NEW i, NEW D, NEW E, E \subseteq D, IsFiniteSet(HeldBy(i, D))
  PROVE  /\ IsFiniteSet(HeldBy(i, E)) /\ IsFiniteSet(HeldBy(i, D \ E))
         /\ BlocksHeld(i, D) = BlocksHeld(i, E) + BlocksHeld(i, D \ E)
         /\ BlocksHeld(i, E) \in Nat /\ BlocksHeld(i, D \ E) \in Nat
<1> DEFINE A == HeldBy(i, E)
           B == HeldBy(i, D \ E)
<1>1. HeldBy(i, D) = A \cup B
  BY DEF HeldBy
<1>2. A \cap B = {}
  BY DEF HeldBy
<1> HIDE DEF A, B
<1>3. IsFiniteSet(A) /\ IsFiniteSet(B)
  BY <1>1, FS_Subset
<1>4. Cardinality(A \cup B) = Cardinality(A) + Cardinality(B) - Cardinality(A \cap B)
  BY <1>3, FS_Union
<1>5. Cardinality(A \cap B) = 0 /\ Cardinality(A) \in Nat /\ Cardinality(B) \in Nat
  BY <1>2, <1>3, FS_EmptySet, FS_CardinalityType
<1>6. BlocksHeld(i, E) = Cardinality(A) /\ BlocksHeld(i, D \ E) = Cardinality(B)
  BY HeldCounted DEF A, B
<1>7. BlocksHeld(i, D) = Cardinality(A \cup B)
  BY <1>1, HeldCounted
<1>8. BlocksHeld(i, D) = BlocksHeld(i, E) + BlocksHeld(i, D \ E)
  BY <1>4, <1>5, <1>6, <1>7
<1> QED
  BY <1>3, <1>5, <1>6, <1>8 DEF A, B

LEMMA HeldAlike ==
  ASSUME NEW i, NEW j, NEW D, \A s \in D : i.rx[s].blocks = j.rx[s].blocks
  PROVE  HeldBy(i, D) = HeldBy(j, D) /\ BlocksHeld(i, D) = BlocksHeld(j, D)
<1>1. \A s \in D : {s} \X (0..i.rx[s].blocks) = {s} \X (0..j.rx[s].blocks)
  OBVIOUS
<1>2. {{s} \X (0..i.rx[s].blocks) : s \in D} = {{s} \X (0..j.rx[s].blocks) : s \in D}
  BY <1>1
<1> QED
  BY <1>2 DEF HeldBy, BlocksHeld

(* What a session gains the pool loses.                                    *)
LEMMA HeldShifts ==
  ASSUME NEW i, NEW j, NEW s \in DOMAIN i.rx, DOMAIN j.rx = DOMAIN i.rx,
         \A x \in DOMAIN i.rx \ {s} : j.rx[x].blocks = i.rx[x].blocks,
         i.rx[s].blocks \in Nat, j.rx[s].blocks \in Nat,
         IsFiniteSet(HeldBy(i, DOMAIN i.rx))
  PROVE  /\ IsFiniteSet(HeldBy(j, DOMAIN j.rx))
         /\ BlocksHeld(j, DOMAIN j.rx) - j.rx[s].blocks
              = BlocksHeld(i, DOMAIN i.rx) - i.rx[s].blocks
         /\ BlocksHeld(i, DOMAIN i.rx) \in Nat /\ BlocksHeld(j, DOMAIN j.rx) \in Nat
<1> DEFINE D == DOMAIN i.rx
           R == D \ {s}
<1>1. D = R \cup {s} /\ s \notin R /\ R \subseteq D
  OBVIOUS
<1>2. IsFiniteSet(HeldBy(i, R))
  BY <1>1, HeldByFewer
<1>3. HeldBy(i, R) = HeldBy(j, R) /\ BlocksHeld(i, R) = BlocksHeld(j, R)
  BY HeldAlike
<1> HIDE DEF R
<1>4. BlocksHeld(i, R \cup {s}) = BlocksHeld(i, R) + i.rx[s].blocks + 1 /\ BlocksHeld(i, R) \in Nat
  BY <1>1, <1>2, HeldByOne
<1>5. /\ BlocksHeld(j, R \cup {s}) = BlocksHeld(j, R) + j.rx[s].blocks + 1
      /\ IsFiniteSet(HeldBy(j, R \cup {s}))
  <2>1. IsFiniteSet(HeldBy(j, R))
    BY <1>2, <1>3
  <2> QED
    BY <1>1, <2>1, HeldByOne
<1> QED
  BY <1>1, <1>3, <1>4, <1>5

-----------------------------------------------------------------------------
(* The types of an instance.                                               *)

Frames == [session : Sessions, n : Nat, k : Nat, tid : TidSet, sot : BOOLEAN, eot : BOOLEAN,
           toggle : 0..1, bytes : Int, late : BOOLEAN]

RxStates == [tid : TidSet, toggle : 0..1, length : Int, blocks : Nat, age : 0..2,
             n : Nat, k : Nat]

RxMaps == UNION {[S -> RxStates] : S \in SUBSET Sessions}

Instances == [free : Nat, txq : Seq(Frames), rx : RxMaps]

LEMMA RxMap ==
  ASSUME NEW rx \in RxMaps
  PROVE  /\ DOMAIN rx \subseteq Sessions /\ rx \in [DOMAIN rx -> RxStates]
         /\ \A s \in DOMAIN rx : rx[s] \in RxStates
BY DEF RxMaps

LEMMA Instance ==
  ASSUME NEW i \in Instances
  PROVE  /\ i = [free |-> i.free, txq |-> i.txq, rx |-> i.rx]
         /\ i.free \in Nat /\ i.txq \in Seq(Frames) /\ i.rx \in RxMaps
         /\ DOMAIN i.rx \subseteq Sessions /\ i.rx \in [DOMAIN i.rx -> RxStates]
         /\ \A s \in DOMAIN i.rx : i.rx[s] \in RxStates
<1>1. /\ i = [free |-> i.free, txq |-> i.txq, rx |-> i.rx]
      /\ i.free \in Nat /\ i.txq \in Seq(Frames) /\ i.rx \in RxMaps
  BY DEF Instances
<1> QED
  BY <1>1, RxMap

LEMMA RxState ==
  ASSUME NEW r \in RxStates
  PROVE  /\ r = [tid |-> r.tid, toggle |-> r.toggle, length |-> r.length, blocks |-> r.blocks,
                 age |-> r.age, n |-> r.n, k |-> r.k]
         /\ r.tid \in TidSet /\ r.toggle \in 0..1 /\ r.length \in Int /\ r.blocks \in Nat
         /\ r.age \in 0..2 /\ r.n \in Nat /\ r.k \in Nat
BY DEF RxStates

(* The fields of a state of which some were set.                           *)
LEMMA SetPayloadTyped ==
  ASSUME NEW r \in RxStates, NEW b \in Nat, NEW l \in Int
  PROVE  [r EXCEPT !.blocks = b, !.length = l] \in RxStates
BY DEF RxStates

LEMMA SetAgeTyped ==
  ASSUME NEW r \in RxStates, NEW a \in 0..2, NEW l \in Int
  PROVE  [r EXCEPT !.age = a, !.length = l] \in RxStates
BY DEF RxStates

LEMMA SetOnlyAge ==
  ASSUME NEW r \in RxStates, NEW a \in 0..2
  PROVE  LET q == [r EXCEPT !.age = a]
         IN /\ q \in RxStates /\ q.blocks = r.blocks /\ q.tid = r.tid /\ q.age = a
            /\ q.toggle = r.toggle /\ q.n = r.n /\ q.k = r.k
BY DEF RxStates

LEMMA SetTransferTyped ==
  ASSUME NEW r \in RxStates, NEW t \in TidSet, NEW g \in 0..1
  PROVE  [r EXCEPT !.tid = t, !.toggle = g] \in RxStates
BY DEF RxStates

LEMMA SetNextTyped ==
  ASSUME NEW r \in RxStates, NEW t \in TidSet, NEW l \in Int, NEW g \in 0..1,
         NEW n \in Nat, NEW k \in Nat
  PROVE  [r EXCEPT !.tid = t, !.length = l, !.toggle = g, !.n = n, !.k = k] \in RxStates
BY DEF RxStates

LEMMA SetStored ==
  ASSUME NEW r \in RxStates, NEW l \in Int, NEW b \in Nat, NEW g \in 0..1,
         NEW n \in Nat, NEW k \in Nat
  PROVE  LET q == [r EXCEPT !.length = l, !.blocks = b, !.toggle = g, !.n = n, !.k = k]
         IN /\ q.blocks = b /\ q.tid = r.tid /\ q.age = r.age /\ q.toggle = g
            /\ q.n = n /\ q.k = k
BY DEF RxStates

LEMMA SetStoredTyped ==
  ASSUME NEW r \in RxStates, NEW l \in Int, NEW b \in Nat, NEW g \in 0..1,
         NEW n \in Nat, NEW k \in Nat
  PROVE  [r EXCEPT !.length = l, !.blocks = b, !.toggle = g, !.n = n, !.k = k] \in RxStates
BY DEF RxStates

(* The instance with one session's state, and the pool, as given.          *)
With(i, s, free, r) == [i EXCEPT !.free = free, !.rx = [i.rx EXCEPT ![s] = r]]

LEMMA SetState ==
  ASSUME NEW i \in Instances, NEW s \in DOMAIN i.rx, NEW r
  PROVE  [i EXCEPT !.rx[s] = r] = With(i, s, i.free, r)
BY DEF Instances, With

LEMMA SetBoth ==
  ASSUME NEW i \in Instances, NEW s \in DOMAIN i.rx, NEW r, NEW free
  PROVE  [i EXCEPT !.free = free, !.rx[s] = r] = With(i, s, free, r)
BY DEF Instances, With

(* j is i after something was done for session s.                          *)
Serves(i, j, s) ==
  /\ j \in Instances /\ j.txq = i.txq /\ DOMAIN j.rx = DOMAIN i.rx /\ s \in DOMAIN j.rx
  /\ \A x \in DOMAIN i.rx \ {s} : j.rx[x] = i.rx[x]
  /\ j.free + j.rx[s].blocks = i.free + i.rx[s].blocks

LEMMA WithServes ==
  ASSUME NEW i \in Instances, NEW s \in DOMAIN i.rx, NEW r \in RxStates, NEW free \in Nat,
         free + r.blocks = i.free + i.rx[s].blocks
  PROVE  /\ Serves(i, With(i, s, free, r), s)
         /\ With(i, s, free, r).rx[s] = r /\ With(i, s, free, r).free = free
<1> DEFINE rx == [i.rx EXCEPT ![s] = r]
           j == With(i, s, free, r)
<1>1. DOMAIN i.rx \in SUBSET Sessions /\ i.rx \in [DOMAIN i.rx -> RxStates]
  BY Instance
<1>2. rx \in [DOMAIN i.rx -> RxStates] /\ DOMAIN rx = DOMAIN i.rx /\ rx[s] = r
      /\ \A x \in DOMAIN i.rx \ {s} : rx[x] = i.rx[x]
  BY <1>1
<1>3. rx \in RxMaps
  BY <1>1, <1>2 DEF RxMaps
<1>4. j = [i EXCEPT !.free = free, !.rx = rx]
  BY DEF With
<1> HIDE DEF rx, j
<1>5. j \in Instances /\ j.free = free /\ j.rx = rx /\ j.txq = i.txq
  BY <1>3, <1>4 DEF Instances
<1> QED
  BY <1>2, <1>5 DEF Serves, j

LEMMA ServesTwice ==
  ASSUME NEW i, NEW j, NEW k, NEW s, Serves(i, j, s), Serves(j, k, s)
  PROVE  Serves(i, k, s)
BY DEF Serves

-----------------------------------------------------------------------------
(* What the receiving side does for a session.                             *)

LEMMA NewStateTyped ==
  NewState \in RxStates /\ NewState.age = 2 /\ NewState.blocks = 0
<1>1. 0 \in TidSet
  BY Sizes DEF TidSet
<1> QED
  BY <1>1 DEF NewState, RxStates

LEMMA Released ==
  ASSUME NEW i \in Instances, NEW s \in DOMAIN i.rx
  PROVE  LET j == ReleasePayload(i, s)
         IN /\ Serves(i, j, s) /\ j.rx[s].blocks = 0 /\ j.rx[s].tid = i.rx[s].tid
            /\ j.rx[s].toggle = i.rx[s].toggle /\ j.rx[s].age = i.rx[s].age
<1> DEFINE r == i.rx[s]
           r2 == [r EXCEPT !.blocks = 0, !.length = 0]
<1>1. r \in RxStates /\ i.free \in Nat
  BY Instance
<1> HIDE DEF r
<1>2. /\ r2 \in RxStates /\ r2.blocks = 0 /\ r2.tid = r.tid /\ r2.toggle = r.toggle
      /\ r2.age = r.age
  <2>1. 0 \in Nat /\ 0 \in Int
    OBVIOUS
  <2>2. r2 \in RxStates
    BY <1>1, <2>1, SetPayloadTyped, Zenon
  <2>3. r2.blocks = 0 /\ r2.tid = r.tid /\ r2.toggle = r.toggle /\ r2.age = r.age
    BY <1>1 DEF RxStates
  <2> QED
    BY <2>2, <2>3
<1>3. r.blocks \in Nat
  BY <1>1, RxState
<1> HIDE DEF r2
<1>4. ReleasePayload(i, s) = [i EXCEPT !.free = i.free + r.blocks, !.rx[s] = r2]
  BY DEF ReleasePayload, r, r2
<1>5. ReleasePayload(i, s) = With(i, s, i.free + r.blocks, r2)
  BY <1>4, SetBoth
<1>6. i.free + r.blocks \in Nat /\ i.free + r.blocks + r2.blocks = i.free + r.blocks
  BY <1>1, <1>2, <1>3
<1> QED
  BY <1>2, <1>5, <1>6, WithServes DEF r

LEMMA Prepared ==
  ASSUME NEW i \in Instances, NEW s \in DOMAIN i.rx
  PROVE  LET j == PrepareForNext(i, s)
         IN /\ Serves(i, j, s) /\ j.rx[s].tid = IncrementTransferID(i.rx[s].tid)
            /\ j.rx[s].toggle = 0 /\ j.rx[s].blocks = i.rx[s].blocks
            /\ j.rx[s].age = i.rx[s].age
<1> DEFINE r == i.rx[s]
           t == IncrementTransferID(r.tid)
           r2 == [r EXCEPT !.tid = t, !.length = 0, !.toggle = 0, !.n = 0, !.k = 0]
<1>1. r \in RxStates /\ i.free \in Nat
  BY Instance
<1>4. PrepareForNext(i, s) = [i EXCEPT !.rx[s] = r2]
  BY DEF PrepareForNext
<1> HIDE DEF r
<1>2. t \in TidSet
  BY <1>1, RxState, NextTid
<1> HIDE DEF t
<1>3. r2 \in RxStates /\ r2.blocks = r.blocks /\ r2.tid = t /\ r2.toggle = 0 /\ r2.age = r.age
  <2>1. 0 \in Nat /\ 0 \in Int /\ 0 \in 0..1
    OBVIOUS
  <2>2. r2 \in RxStates
    BY <1>1, <1>2, <2>1, SetNextTyped, Zenon
  <2>3. r2.blocks = r.blocks /\ r2.tid = t /\ r2.toggle = 0 /\ r2.age = r.age
    BY <1>1 DEF RxStates
  <2> QED
    BY <2>2, <2>3
<1> HIDE DEF r2
<1>5. PrepareForNext(i, s) = With(i, s, i.free, r2)
  BY <1>4, SetState
<1>6. /\ Serves(i, With(i, s, i.free, r2), s)
      /\ With(i, s, i.free, r2).rx[s] = r2
  <2>1. i.free + r2.blocks = i.free + i.rx[s].blocks
    BY <1>3 DEF r
  <2>2. r2 \in RxStates /\ i.free \in Nat
    BY <1>1, <1>3
  <2> QED
    BY <2>1, <2>2, WithServes
<1> QED
  BY <1>3, <1>5, <1>6 DEF r, t

LEMMA GivenUp ==
  ASSUME NEW i \in Instances, NEW s \in DOMAIN i.rx
  PROVE  LET j == PrepareForNext(ReleasePayload(i, s), s)
         IN /\ Serves(i, j, s) /\ j.rx[s].tid = IncrementTransferID(i.rx[s].tid)
            /\ j.rx[s].toggle = 0 /\ j.rx[s].age = i.rx[s].age /\ j.rx[s].blocks = 0
<1> DEFINE h == ReleasePayload(i, s)
<1>1. /\ Serves(i, h, s) /\ h.rx[s].tid = i.rx[s].tid /\ h.rx[s].age = i.rx[s].age
      /\ h.rx[s].blocks = 0
  BY Released
<1> HIDE DEF h
<1> DEFINE j == PrepareForNext(h, s)
<1>2. /\ Serves(h, j, s) /\ j.rx[s].tid = IncrementTransferID(h.rx[s].tid)
      /\ j.rx[s].toggle = 0 /\ j.rx[s].blocks = h.rx[s].blocks /\ j.rx[s].age = h.rx[s].age
  BY <1>1, Prepared DEF Serves
<1> HIDE DEF j
<1>3. Serves(i, j, s)
  BY <1>1, <1>2, ServesTwice
<1> QED
  BY <1>1, <1>2, <1>3 DEF h, j

LEMMA StartedServes ==
  ASSUME NEW i \in Instances, NEW s \in DOMAIN i.rx
  PROVE  LET j == Started(i, s)
         IN /\ Serves(i, j, s) /\ j.rx[s].tid = i.rx[s].tid /\ j.rx[s].age = 0
            /\ j.rx[s].toggle = i.rx[s].toggle
<1> DEFINE r == i.rx[s]
           r2 == [r EXCEPT !.age = 0, !.length = 0]
<1>1. r \in RxStates /\ i.free \in Nat
  BY Instance
<1> HIDE DEF r
<1>2. /\ r2 \in RxStates /\ r2.blocks = r.blocks /\ r2.tid = r.tid /\ r2.age = 0
      /\ r2.toggle = r.toggle
  <2>1. 0 \in 0..2 /\ 0 \in Int
    OBVIOUS
  <2>2. r2 \in RxStates
    BY <1>1, <2>1, SetAgeTyped, Zenon
  <2>3. r2.blocks = r.blocks /\ r2.tid = r.tid /\ r2.age = 0 /\ r2.toggle = r.toggle
    BY <1>1 DEF RxStates
  <2> QED
    BY <2>2, <2>3
<1> HIDE DEF r2
<1>3. Started(i, s) = [i EXCEPT !.rx[s] = r2]
  BY DEF Started, r, r2
<1>4. Started(i, s) = With(i, s, i.free, r2)
  BY <1>3, SetState
<1> QED
  BY <1>1, <1>2, <1>4, WithServes DEF r

LEMMA RestartedServes ==
  ASSUME NEW i \in Instances, NEW s \in DOMAIN i.rx, NEW f \in Frames
  PROVE  LET j == Restarted(i, s, f)
         IN /\ Serves(i, j, s) /\ j.rx[s].age = i.rx[s].age /\ j.rx[s].blocks = 0
            /\ j.rx[s].toggle = 0
            /\ j.rx[s].tid = IF f.sot THEN f.tid ELSE IncrementTransferID(f.tid)
<1> DEFINE h == ReleasePayload(i, s)
           r == h.rx[s]
           t == IF f.sot THEN f.tid ELSE IncrementTransferID(f.tid)
           r2 == [r EXCEPT !.tid = t, !.toggle = 0]
<1>1. Serves(i, h, s) /\ r.blocks = 0 /\ r.age = i.rx[s].age
  BY Released
<1>2. t \in TidSet
  BY NextTid DEF Frames
<1> HIDE DEF t
<1>3. Restarted(i, s, f) = [h EXCEPT !.rx[s] = r2]
  BY DEF Restarted, t
<1> HIDE DEF h
<1>4. h \in Instances /\ s \in DOMAIN h.rx /\ r \in RxStates /\ h.free \in Nat
  BY <1>1, Instance DEF Serves
<1>5. Restarted(i, s, f) = With(h, s, h.free, r2)
  BY <1>3, <1>4, SetState
<1> HIDE DEF r
<1>6. r2 \in RxStates /\ r2.blocks = r.blocks /\ r2.toggle = 0 /\ r2.tid = t /\ r2.age = r.age
  <2>1. 0 \in 0..1
    OBVIOUS
  <2>2. r2 \in RxStates
    BY <1>2, <1>4, <2>1, SetTransferTyped, Zenon
  <2>3. r2.blocks = r.blocks /\ r2.toggle = 0 /\ r2.tid = t /\ r2.age = r.age
    BY <1>4 DEF RxStates
  <2> QED
    BY <2>2, <2>3
<1> HIDE DEF r2
<1>7. Serves(h, With(h, s, h.free, r2), s) /\ With(h, s, h.free, r2).rx[s] = r2
  BY <1>4, <1>6, WithServes DEF r
<1>8. Serves(i, Restarted(i, s, f), s)
  BY <1>1, <1>5, <1>7, ServesTwice
<1> QED
  BY <1>1, <1>5, <1>6, <1>7, <1>8 DEF t

LEMMA Stored ==
  ASSUME NEW i \in Instances, NEW s \in DOMAIN i.rx, NEW f \in Frames
  PROVE  LET j == StorePayload(i, s, f)
         IN /\ Serves(i, j, s) /\ j.rx[s].age = i.rx[s].age
            /\ Wanted(i, s, f) <= i.free =>
                 /\ j.rx[s].tid = i.rx[s].tid /\ j.rx[s].toggle = 1 - i.rx[s].toggle
                 /\ j.rx[s].n = f.n
                 /\ f.sot \/ (i.rx[s].n = f.n /\ i.rx[s].k > 0 /\ i.rx[s].k = f.k - 1)
                      => j.rx[s].k = f.k
<1> DEFINE r == i.rx[s]
           j == StorePayload(i, s, f)
           w == Wanted(i, s, f)
           k2 == IF f.sot \/ (r.n = f.n /\ r.k > 0 /\ r.k = f.k - 1) THEN f.k ELSE 0
           l == r.length + f.bytes
           b == r.blocks + w
           g == 1 - r.toggle
           r2 == [r EXCEPT !.length = l, !.blocks = b, !.toggle = g, !.n = f.n, !.k = k2]
<1>1. r \in RxStates /\ i.free \in Nat
  BY Instance
<1>2. f.bytes \in Int /\ f.k \in Nat /\ f.n \in Nat
  BY DEF Frames
<1>3. r.blocks \in Nat /\ r.length \in Int /\ r.toggle \in 0..1
  BY <1>1, RxState
<1>4. w \in Int /\ b \in Nat
  <2>1. BlocksFor(l) \in Nat
    BY <1>2, <1>3, BlocksAreNat
  <2>2. w = BlocksFor(l) - r.blocks
    BY DEF Wanted
  <2> HIDE DEF w, l, r
  <2> QED
    BY <1>3, <2>1, <2>2
<1>5. CASE w <= i.free
  <2>1. j = [i EXCEPT !.free = i.free - w, !.rx[s] = r2]
    BY <1>5 DEF StorePayload
  <2>2. l \in Int /\ g \in 0..1 /\ k2 \in Nat
    BY <1>2, <1>3
  <2> HIDE DEF w, j, l, g, k2, b
  <2>3. j = With(i, s, i.free - w, r2)
    BY <2>1 DEF Instances, With
  <2> HIDE DEF r
  <2>4. r2 \in RxStates
    BY <1>1, <1>2, <1>4, <2>2, SetStoredTyped
  <2>5. /\ r2.blocks = b /\ r2.tid = r.tid /\ r2.age = r.age /\ r2.toggle = g /\ r2.n = f.n
        /\ r2.k = k2
    BY <1>1, <1>2, <1>4, <2>2, SetStored
  <2> HIDE DEF r2
  <2>6. i.free - w \in Nat /\ i.free - w + b = i.free + r.blocks
    BY <1>1, <1>3, <1>4, <1>5 DEF b
  <2>7. Serves(i, j, s) /\ j.rx[s] = r2
    BY <2>3, <2>4, <2>5, <2>6, WithServes DEF r
  <2> QED
    BY <2>5, <2>7 DEF j, r, g, k2
<1>6. CASE ~(w <= i.free)
  <2>1. j = PrepareForNext(ReleasePayload(i, s), s)
    BY <1>6 DEF StorePayload
  <2> HIDE DEF j, w
  <2> QED
    BY <1>6, <2>1, GivenUp DEF j, w
<1> QED
  BY <1>5, <1>6

(* What a frame does to its session: the five cases of canardHandleRxFrame *)
(* once the session's state is there and need not restart.                 *)
Takes(r, f) == f.toggle = r.toggle /\ f.tid = r.tid

LEMMA TakeSingle ==
  ASSUME NEW i \in Instances, NEW s \in DOMAIN i.rx, NEW f \in Frames, f.sot, f.eot
  PROVE  /\ Serves(i, TakeFrame(i, s, f).canard, s)
         /\ TakeFrame(i, s, f).what = "delivered"
<1> DEFINE r == i.rx[s]
           r2 == [r EXCEPT !.age = 0]
           h == [i EXCEPT !.rx[s] = [@ EXCEPT !.age = 0]]
<1>1. r \in RxStates /\ i.free \in Nat
  BY Instance
<1>2. h = [i EXCEPT !.rx[s] = r2]
  OBVIOUS
<1>3. TakeFrame(i, s, f) = [canard |-> PrepareForNext(h, s), what |-> "delivered"]
  BY DEF TakeFrame, Result
<1> HIDE DEF r, h
<1>4. r2 \in RxStates /\ r2.blocks = r.blocks
  <2>1. 0 \in 0..2
    OBVIOUS
  <2> QED
    BY <1>1, <2>1, SetOnlyAge DEF RxStates
<1> HIDE DEF r2
<1>5. h = With(i, s, i.free, r2)
  BY <1>2, SetState
<1>6. Serves(i, h, s)
  <2>1. i.free + r2.blocks = i.free + i.rx[s].blocks
    BY <1>4 DEF r
  <2>2. r2 \in RxStates /\ i.free \in Nat
    BY <1>1, <1>4
  <2> QED
    BY <1>5, <2>1, <2>2, WithServes
<1>7. Serves(h, PrepareForNext(h, s), s)
  <2>1. h \in Instances /\ s \in DOMAIN h.rx
    BY <1>6 DEF Serves
  <2> QED
    BY <2>1, Prepared
<1>8. Serves(i, PrepareForNext(h, s), s)
  BY <1>6, <1>7, ServesTwice
<1> QED
  BY <1>3, <1>8

LEMMA ServesSelf ==
  ASSUME NEW i \in Instances, NEW s \in DOMAIN i.rx
  PROVE  Serves(i, i, s)
BY DEF Serves

LEMMA TakeNone ==
  ASSUME NEW i \in Instances, NEW s \in DOMAIN i.rx, NEW f \in Frames, ~(f.sot /\ f.eot),
         ~Takes(i.rx[s], f)
  PROVE  /\ Serves(i, TakeFrame(i, s, f).canard, s)
         /\ TakeFrame(i, s, f).canard = i /\ TakeFrame(i, s, f).what = "dropped"
<1>1. TakeFrame(i, s, f) = [canard |-> i, what |-> "dropped"]
  BY DEF TakeFrame, Result, Takes
<1> QED
  BY <1>1, ServesSelf

LEMMA TakeLast ==
  ASSUME NEW i \in Instances, NEW s \in DOMAIN i.rx, NEW f \in Frames, ~f.sot, f.eot,
         Takes(i.rx[s], f)
  PROVE  LET c == TakeFrame(i, s, f)
         IN /\ Serves(i, c.canard, s) /\ c.canard.rx[s].tid = IncrementTransferID(f.tid)
            /\ c.canard.rx[s].toggle = 0 /\ c.canard.rx[s].age = i.rx[s].age
            /\ c.what = IF CrcMatches(i.rx[s], f) THEN "delivered" ELSE "dropped"
<1> DEFINE j == PrepareForNext(ReleasePayload(i, s), s)
<1>1. TakeFrame(i, s, f)
      = [canard |-> j, what |-> IF CrcMatches(i.rx[s], f) THEN "delivered" ELSE "dropped"]
  BY DEF TakeFrame, Result, Takes, Finished
<1>2. /\ Serves(i, j, s) /\ j.rx[s].tid = IncrementTransferID(i.rx[s].tid)
      /\ j.rx[s].toggle = 0 /\ j.rx[s].age = i.rx[s].age
  BY GivenUp
<1> HIDE DEF j
<1> QED
  BY <1>1, <1>2 DEF Takes

LEMMA TakeMiddle ==
  ASSUME NEW i \in Instances, NEW s \in DOMAIN i.rx, NEW f \in Frames, ~f.sot, ~f.eot,
         Takes(i.rx[s], f)
  PROVE  LET c == TakeFrame(i, s, f)
         IN /\ Serves(i, c.canard, s) /\ c.canard.rx[s].age = i.rx[s].age
            /\ c.what \in {"stored", "no_memory"}
            /\ c.what = "stored" =>
                 /\ c.canard.rx[s].tid = f.tid /\ c.canard.rx[s].toggle = 1 - f.toggle
                 /\ i.rx[s].n = f.n /\ i.rx[s].k > 0 /\ i.rx[s].k = f.k - 1
                      => c.canard.rx[s].n = f.n /\ c.canard.rx[s].k = f.k
<1> DEFINE j == StorePayload(i, s, f)
           w == Wanted(i, s, f)
<1>1. TakeFrame(i, s, f) = [canard |-> j, what |-> IF w <= i.free THEN "stored" ELSE "no_memory"]
  BY DEF TakeFrame, Result, Takes
<1>2. /\ Serves(i, j, s) /\ j.rx[s].age = i.rx[s].age
      /\ w <= i.free =>
           /\ j.rx[s].tid = i.rx[s].tid /\ j.rx[s].toggle = 1 - i.rx[s].toggle
           /\ j.rx[s].n = f.n
           /\ f.sot \/ (i.rx[s].n = f.n /\ i.rx[s].k > 0 /\ i.rx[s].k = f.k - 1)
                => j.rx[s].k = f.k
  BY Stored
<1> HIDE DEF j, w
<1>3. CASE w <= i.free
  BY <1>1, <1>2, <1>3 DEF Takes
<1>4. CASE ~(w <= i.free)
  BY <1>1, <1>2, <1>4 DEF Takes
<1> QED
  BY <1>3, <1>4

LEMMA TakeFirst ==
  ASSUME NEW i \in Instances, NEW s \in DOMAIN i.rx, NEW f \in Frames, f.sot, ~f.eot,
         Takes(i.rx[s], f)
  PROVE  LET c == TakeFrame(i, s, f)
         IN /\ Serves(i, c.canard, s) /\ c.canard.rx[s].age = 0
            /\ c.what \in {"stored", "no_memory"}
            /\ c.what = "stored" =>
                 /\ c.canard.rx[s].tid = f.tid /\ c.canard.rx[s].toggle = 1 - f.toggle
                 /\ c.canard.rx[s].n = f.n /\ c.canard.rx[s].k = f.k
<1> DEFINE h == Started(i, s)
           j == StorePayload(h, s, f)
           w == Wanted(h, s, f)
<1>1. TakeFrame(i, s, f) = [canard |-> j, what |-> IF w <= h.free THEN "stored" ELSE "no_memory"]
  BY DEF TakeFrame, Result, Takes
<1>2. /\ Serves(i, h, s) /\ h.rx[s].tid = i.rx[s].tid /\ h.rx[s].age = 0
      /\ h.rx[s].toggle = i.rx[s].toggle
  BY StartedServes
<1> HIDE DEF h
<1>3. /\ Serves(h, j, s) /\ j.rx[s].age = h.rx[s].age
      /\ w <= h.free =>
           /\ j.rx[s].tid = h.rx[s].tid /\ j.rx[s].toggle = 1 - h.rx[s].toggle
           /\ j.rx[s].n = f.n
           /\ f.sot \/ (h.rx[s].n = f.n /\ h.rx[s].k > 0 /\ h.rx[s].k = f.k - 1)
                => j.rx[s].k = f.k
  <2>1. h \in Instances /\ s \in DOMAIN h.rx
    BY <1>2 DEF Serves
  <2> QED
    BY <2>1, Stored
<1> HIDE DEF j, w
<1>4. Serves(i, j, s)
  BY <1>2, <1>3, ServesTwice
<1>5. CASE w <= h.free
  BY <1>1, <1>2, <1>3, <1>4, <1>5 DEF Takes
<1>6. CASE ~(w <= h.free)
  BY <1>1, <1>2, <1>3, <1>4, <1>6 DEF Takes
<1> QED
  BY <1>5, <1>6

LEMMA TakeServes ==
  ASSUME NEW i \in Instances, NEW s \in DOMAIN i.rx, NEW f \in Frames
  PROVE  Serves(i, TakeFrame(i, s, f).canard, s)
<1>0. f.sot \in BOOLEAN /\ f.eot \in BOOLEAN
  BY DEF Frames
<1>1. CASE f.sot /\ f.eot
  BY <1>1, TakeSingle
<1>2. CASE ~(f.sot /\ f.eot) /\ ~Takes(i.rx[s], f)
  BY <1>2, TakeNone
<1>3. CASE ~f.sot /\ f.eot /\ Takes(i.rx[s], f)
  BY <1>3, TakeLast
<1>4. CASE ~f.sot /\ ~f.eot /\ Takes(i.rx[s], f)
  BY <1>4, TakeMiddle
<1>5. CASE f.sot /\ ~f.eot /\ Takes(i.rx[s], f)
  BY <1>5, TakeFirst
<1> QED
  BY <1>0, <1>1, <1>2, <1>3, <1>4, <1>5

-----------------------------------------------------------------------------
(* canardHandleRxFrame.                                                    *)

(* c is i after a frame of session s: the pool has the blocks it had.      *)
Handled(i, c, s) ==
  /\ c \in Instances /\ c.txq = i.txq
  /\ DOMAIN c.rx \ {s} = DOMAIN i.rx \ {s}
  /\ \A x \in DOMAIN i.rx \ {s} : c.rx[x] = i.rx[x]
  /\ IsFiniteSet(HeldBy(c, DOMAIN c.rx))
  /\ c.free + BlocksHeld(c, DOMAIN c.rx) = i.free + BlocksHeld(i, DOMAIN i.rx)

LEMMA HandledSelf ==
  ASSUME NEW i \in Instances, NEW s, IsFiniteSet(HeldBy(i, DOMAIN i.rx))
  PROVE  Handled(i, i, s)
BY DEF Handled

LEMMA ServedIsHandled ==
  ASSUME NEW i \in Instances, NEW c, NEW s, Serves(i, c, s),
         IsFiniteSet(HeldBy(i, DOMAIN i.rx))
  PROVE  Handled(i, c, s)
<1>1. /\ c \in Instances /\ c.txq = i.txq /\ DOMAIN c.rx = DOMAIN i.rx /\ s \in DOMAIN i.rx
      /\ \A x \in DOMAIN i.rx \ {s} : c.rx[x] = i.rx[x]
      /\ c.free + c.rx[s].blocks = i.free + i.rx[s].blocks
  BY DEF Serves
<1>2. /\ i.rx[s].blocks \in Nat /\ c.rx[s].blocks \in Nat /\ i.free \in Nat /\ c.free \in Nat
  <2>1. i.rx[s] \in RxStates /\ c.rx[s] \in RxStates /\ i.free \in Nat /\ c.free \in Nat
    BY <1>1, Instance
  <2> QED
    BY <2>1, RxState
<1>3. \A x \in DOMAIN i.rx \ {s} : c.rx[x].blocks = i.rx[x].blocks
  BY <1>1
<1>4. /\ IsFiniteSet(HeldBy(c, DOMAIN c.rx))
      /\ BlocksHeld(c, DOMAIN c.rx) - c.rx[s].blocks = BlocksHeld(i, DOMAIN i.rx) - i.rx[s].blocks
      /\ BlocksHeld(i, DOMAIN i.rx) \in Nat /\ BlocksHeld(c, DOMAIN c.rx) \in Nat
  BY <1>1, <1>2, <1>3, HeldShifts
<1>5. c.free + BlocksHeld(c, DOMAIN c.rx) = i.free + BlocksHeld(i, DOMAIN i.rx)
  BY <1>1, <1>2, <1>4
<1> QED
  BY <1>1, <1>4, <1>5 DEF Handled

LEMMA HandledTwice ==
  ASSUME NEW i, NEW j, NEW c, NEW s, Handled(i, j, s), Handled(j, c, s)
  PROVE  Handled(i, c, s)
BY DEF Handled

LEMMA Created ==
  ASSUME NEW i \in Instances, NEW s \in Sessions \ DOMAIN i.rx, i.free # 0
  PROVE  LET j == CreateRxState(i, s)
         IN /\ j \in Instances /\ s \in DOMAIN j.rx /\ j.rx[s] = NewState
            /\ j.txq = i.txq /\ j.free = i.free - 1
            /\ DOMAIN j.rx = DOMAIN i.rx \cup {s}
            /\ \A x \in DOMAIN i.rx : j.rx[x] = i.rx[x]
<1> DEFINE rx == [x \in {s} \cup DOMAIN i.rx |-> IF x \in DOMAIN i.rx THEN i.rx[x] ELSE NewState]
           free == i.free - 1
<1>1. /\ i.free \in Nat /\ DOMAIN i.rx \subseteq Sessions
      /\ \A x \in DOMAIN i.rx : i.rx[x] \in RxStates
  BY Instance
<1>2. CreateRxState(i, s) = [i EXCEPT !.free = free, !.rx = rx]
  BY DEF CreateRxState
<1>3. /\ DOMAIN rx = DOMAIN i.rx \cup {s} /\ rx[s] = NewState
      /\ \A x \in DOMAIN i.rx : rx[x] = i.rx[x]
  OBVIOUS
<1>4. rx \in RxMaps
  <2>1. {s} \cup DOMAIN i.rx \in SUBSET Sessions
    BY <1>1
  <2>2. rx \in [{s} \cup DOMAIN i.rx -> RxStates]
    BY <1>1, NewStateTyped
  <2> HIDE DEF rx
  <2> QED
    BY <2>1, <2>2 DEF RxMaps
<1>5. free \in Nat
  BY <1>1
<1> HIDE DEF rx, free
<1>6. LET j == CreateRxState(i, s)
      IN j \in Instances /\ j.free = free /\ j.rx = rx /\ j.txq = i.txq
  BY <1>2, <1>4, <1>5 DEF Instances
<1> QED
  BY <1>3, <1>6 DEF free

LEMMA CreatedIsHandled ==
  ASSUME NEW i \in Instances, NEW s \in Sessions \ DOMAIN i.rx, i.free # 0,
         IsFiniteSet(HeldBy(i, DOMAIN i.rx))
  PROVE  Handled(i, CreateRxState(i, s), s)
<1> DEFINE j == CreateRxState(i, s)
           D == DOMAIN i.rx
<1>1. /\ j \in Instances /\ j.rx[s] = NewState /\ j.txq = i.txq /\ j.free = i.free - 1
      /\ DOMAIN j.rx = D \cup {s} /\ \A x \in D : j.rx[x] = i.rx[x]
  BY Created
<1>2. i.free \in Nat /\ s \notin D
  BY Instance
<1> HIDE DEF j
<1>3. HeldBy(i, D) = HeldBy(j, D) /\ BlocksHeld(i, D) = BlocksHeld(j, D)
  BY <1>1, HeldAlike
<1>4. j.rx[s].blocks = 0
  BY <1>1, NewStateTyped
<1>5. /\ IsFiniteSet(HeldBy(j, D \cup {s})) /\ BlocksHeld(j, D) \in Nat
      /\ BlocksHeld(j, D \cup {s}) = BlocksHeld(j, D) + j.rx[s].blocks + 1
  <2>1. j.rx[s].blocks \in Nat /\ IsFiniteSet(HeldBy(j, D))
    BY <1>3, <1>4
  <2> QED
    BY <1>2, <2>1, HeldByOne
<1>6. j.free + BlocksHeld(j, D \cup {s}) = i.free + BlocksHeld(i, D)
  BY <1>1, <1>2, <1>3, <1>4, <1>5
<1> QED
  BY <1>1, <1>5, <1>6 DEF Handled, j

(* The state a frame finds: its session's, or one made for it.             *)
Found(i, s) == IF s \in DOMAIN i.rx THEN i ELSE CreateRxState(i, s)

Refused(i, f) == f.session \notin DOMAIN i.rx /\ (~f.sot \/ i.free = 0)

LEMMA FoundState ==
  ASSUME NEW i \in Instances, NEW f \in Frames, ~Refused(i, f)
  PROVE  /\ Found(i, f.session) \in Instances /\ f.session \in DOMAIN Found(i, f.session).rx
         /\ IF f.session \in DOMAIN i.rx THEN Found(i, f.session) = i
            ELSE f.sot /\ Found(i, f.session).rx[f.session].age = 2
         /\ IsFiniteSet(HeldBy(i, DOMAIN i.rx)) => Handled(i, Found(i, f.session), f.session)
<1> DEFINE s == f.session
<1>0. s \in Sessions /\ f.sot \in BOOLEAN
  BY DEF Frames
<1>1. CASE s \in DOMAIN i.rx
  BY <1>1, HandledSelf DEF Found
<1>2. CASE s \notin DOMAIN i.rx
  <2>1. f.sot /\ i.free # 0 /\ s \in Sessions \ DOMAIN i.rx
    BY <1>0, <1>2 DEF Refused
  <2>2. Found(i, s) = CreateRxState(i, s)
    BY <1>2 DEF Found
  <2> HIDE DEF s
  <2>3. /\ CreateRxState(i, s) \in Instances /\ s \in DOMAIN CreateRxState(i, s).rx
        /\ CreateRxState(i, s).rx[s] = NewState
    BY <2>1, Created
  <2>4. IsFiniteSet(HeldBy(i, DOMAIN i.rx)) => Handled(i, CreateRxState(i, s), s)
    BY <2>1, CreatedIsHandled
  <2> QED
    BY <1>2, <2>1, <2>2, <2>3, <2>4, NewStateTyped DEF s
<1> QED
  BY <1>1, <1>2

LEMMA HandleCases ==
  ASSUME NEW i \in Instances, NEW f \in Frames
  PROVE  LET s == f.session
             j == Found(i, s)
             c == HandleRxFrame(i, f)
         IN /\ Refused(i, f) =>
                 c = [canard |-> i, what |-> IF f.sot THEN "no_memory" ELSE "dropped"]
            /\ ~Refused(i, f) /\ ~NeedRestart(j.rx[s], f) => c = TakeFrame(j, s, f)
            /\ ~Refused(i, f) /\ NeedRestart(j.rx[s], f) /\ f.sot =>
                 c = TakeFrame(Restarted(j, s, f), s, f)
            /\ ~Refused(i, f) /\ NeedRestart(j.rx[s], f) /\ ~f.sot =>
                 c = [canard |-> Restarted(j, s, f), what |-> "dropped"]
BY DEF HandleRxFrame, Found, Refused, Result

LEMMA FrameHandled ==
  ASSUME NEW i \in Instances, NEW f \in Frames, IsFiniteSet(HeldBy(i, DOMAIN i.rx))
  PROVE  Handled(i, HandleRxFrame(i, f).canard, f.session)
<1> DEFINE s == f.session
           j == Found(i, s)
           c == HandleRxFrame(i, f)
           h == Restarted(j, s, f)
<1>1. CASE Refused(i, f)
  <2>1. c.canard = i
    BY <1>1, HandleCases
  <2> QED
    BY <2>1, HandledSelf
<1>2. CASE ~Refused(i, f)
  <2>1. j \in Instances /\ s \in DOMAIN j.rx /\ Handled(i, j, s)
    BY <1>2, FoundState
  <2>2. Serves(j, TakeFrame(j, s, f).canard, s)
    <3> HIDE DEF j, s
    <3> QED
      BY <2>1, TakeServes
  <2>3. Serves(j, h, s)
    <3> HIDE DEF j, s
    <3> QED
      BY <2>1, RestartedServes DEF h
  <2>4. Serves(j, TakeFrame(h, s, f).canard, s)
    <3> HIDE DEF j, s, h
    <3>1. h \in Instances /\ s \in DOMAIN h.rx
      BY <2>3 DEF Serves
    <3>2. Serves(h, TakeFrame(h, s, f).canard, s)
      BY <3>1, TakeServes
    <3> QED
      BY <2>3, <3>2, ServesTwice
  <2>5. \/ c.canard = TakeFrame(j, s, f).canard
        \/ c.canard = h
        \/ c.canard = TakeFrame(h, s, f).canard
    <3>1. \/ c = TakeFrame(j, s, f)
          \/ c = TakeFrame(h, s, f)
          \/ c = [canard |-> h, what |-> "dropped"]
      BY <1>2, HandleCases
    <3> HIDE DEF c, h, j, s
    <3> QED
      BY <3>1
  <2> HIDE DEF c, h, j, s
  <2>6. Serves(j, c.canard, s)
    BY <2>2, <2>3, <2>4, <2>5
  <2>7. IsFiniteSet(HeldBy(j, DOMAIN j.rx))
    BY <2>1 DEF Handled
  <2>8. Handled(j, c.canard, s)
    BY <2>1, <2>6, <2>7, ServedIsHandled
  <2> QED
    BY <2>1, <2>8, HandledTwice DEF c, s
<1> QED
  BY <1>1, <1>2

(* The first of several frames: stored in a state that starts afresh, or   *)
(* left by one that waits for another frame of this transfer, or for the   *)
(* next.                                                                   *)
LEMMA FirstFrame ==
  ASSUME NEW i \in Instances, NEW f \in Frames, f.sot, ~f.eot, f.toggle = 0,
         HandleRxFrame(i, f).what # "no_memory"
  PROVE  LET s == f.session
             c == HandleRxFrame(i, f)
         IN \/ /\ c.what = "stored" /\ s \in DOMAIN c.canard.rx
               /\ c.canard.rx[s].tid = f.tid /\ c.canard.rx[s].toggle = 1
               /\ c.canard.rx[s].n = f.n /\ c.canard.rx[s].k = f.k /\ c.canard.rx[s].age = 0
            \/ /\ c.what = "dropped" /\ c.canard = i
               /\ s \in DOMAIN i.rx /\ i.rx[s].age # 2
               /\ \/ i.rx[s].tid = IncrementTransferID(f.tid)
                  \/ i.rx[s].tid = f.tid /\ i.rx[s].toggle = 1
<1> DEFINE s == f.session
           j == Found(i, s)
           c == HandleRxFrame(i, f)
           h == Restarted(j, s, f)
<1>1. ~Refused(i, f)
  BY HandleCases
<1>2. /\ j \in Instances /\ s \in DOMAIN j.rx
      /\ s \in DOMAIN i.rx => j = i
      /\ s \notin DOMAIN i.rx => j.rx[s].age = 2
  BY <1>1, FoundState
<1>3. f.tid \in TidSet
  BY DEF Frames
<1>4. CASE NeedRestart(j.rx[s], f)
  <2>1. c = TakeFrame(h, s, f)
    BY <1>1, <1>4, HandleCases
  <2>2. Serves(j, h, s) /\ h.rx[s].toggle = 0 /\ h.rx[s].tid = f.tid
    <3> HIDE DEF j, s
    <3> QED
      BY <1>2, RestartedServes DEF h
  <2> HIDE DEF j, h, s
  <2>3. h \in Instances /\ s \in DOMAIN h.rx /\ Takes(h.rx[s], f)
    BY <2>2 DEF Serves, Takes
  <2> DEFINE d == TakeFrame(h, s, f)
  <2>4. /\ Serves(h, d.canard, s) /\ d.canard.rx[s].age = 0
        /\ d.what \in {"stored", "no_memory"}
        /\ d.what = "stored" =>
             /\ d.canard.rx[s].tid = f.tid /\ d.canard.rx[s].toggle = 1 - f.toggle
             /\ d.canard.rx[s].n = f.n /\ d.canard.rx[s].k = f.k
    BY <2>3, TakeFirst
  <2> HIDE DEF d
  <2>5. d = c
    BY <2>1 DEF d
  <2>6. c.what = "stored" /\ s \in DOMAIN c.canard.rx
    BY <2>4, <2>5 DEF Serves
  <2> QED
    BY <2>4, <2>5, <2>6 DEF s
<1>5. CASE ~NeedRestart(j.rx[s], f)
  <2>1. j.rx[s].age # 2 /\ ~(ForwardDistance(j.rx[s].tid, f.tid) > 1)
    BY <1>5 DEF NeedRestart
  <2>2. s \in DOMAIN i.rx /\ j = i
    BY <1>2, <2>1
  <2>3. c = TakeFrame(i, s, f)
    BY <1>1, <1>5, <2>2, HandleCases
  <2>4. i.rx[s].tid \in TidSet /\ i.rx[s].toggle \in 0..1
    <3>1. i.rx[s] \in RxStates
      BY <2>2, Instance
    <3> QED
      BY <3>1, RxState
  <2> HIDE DEF j, s
  <2>5. i.rx[s].tid = f.tid \/ i.rx[s].tid = IncrementTransferID(f.tid)
    BY <1>3, <2>1, <2>2, <2>4, Near
  <2> DEFINE d == TakeFrame(i, s, f)
  <2>6. CASE Takes(i.rx[s], f)
    <3>1. /\ Serves(i, d.canard, s) /\ d.canard.rx[s].age = 0
          /\ d.what \in {"stored", "no_memory"}
          /\ d.what = "stored" =>
               /\ d.canard.rx[s].tid = f.tid /\ d.canard.rx[s].toggle = 1 - f.toggle
               /\ d.canard.rx[s].n = f.n /\ d.canard.rx[s].k = f.k
      BY <2>2, <2>6, TakeFirst
    <3> HIDE DEF d
    <3>2. d = c
      BY <2>3 DEF d
    <3>3. c.what = "stored" /\ s \in DOMAIN c.canard.rx
      BY <3>1, <3>2 DEF Serves
    <3> QED
      BY <3>1, <3>2, <3>3 DEF s
  <2>7. CASE ~Takes(i.rx[s], f)
    <3>1. d.canard = i /\ d.what = "dropped"
      BY <2>2, <2>7, TakeNone
    <3>2. i.rx[s].tid = IncrementTransferID(f.tid) \/ (i.rx[s].tid = f.tid /\ i.rx[s].toggle = 1)
      BY <2>4, <2>5, <2>7 DEF Takes
    <3> HIDE DEF d
    <3>3. d = c
      BY <2>3 DEF d
    <3> QED
      BY <2>1, <2>2, <3>1, <3>2, <3>3 DEF s
  <2> QED
    BY <2>6, <2>7
<1> QED
  BY <1>4, <1>5

(* A later frame meets the state as it is, unless it is long idle.         *)
LEMMA LaterFrame ==
  ASSUME NEW i \in Instances, NEW f \in Frames, ~f.sot, f.session \in DOMAIN i.rx,
         i.rx[f.session].age # 2
  PROVE  HandleRxFrame(i, f) = TakeFrame(i, f.session, f)
<1>1. ~Refused(i, f) /\ Found(i, f.session) = i
  BY DEF Refused, Found
<1>2. ~NeedRestart(i.rx[f.session], f)
  BY DEF NeedRestart
<1> QED
  BY <1>1, <1>2, HandleCases

LEMMA MiddleFrame ==
  ASSUME NEW i \in Instances, NEW f \in Frames, ~f.sot, ~f.eot, f.session \in DOMAIN i.rx,
         i.rx[f.session].age # 2, HandleRxFrame(i, f).what # "no_memory"
  PROVE  LET s == f.session
             r == i.rx[s]
             c == HandleRxFrame(i, f)
             r2 == c.canard.rx[s]
         IN /\ s \in DOMAIN c.canard.rx /\ r2.age = r.age /\ c.what # "delivered"
            /\ IF Takes(r, f)
               THEN /\ r2.tid = f.tid /\ r2.toggle = 1 - f.toggle
                    /\ r.n = f.n /\ r.k > 0 /\ r.k = f.k - 1 => r2.n = f.n /\ r2.k = f.k
               ELSE r2 = r
<1> DEFINE s == f.session
           c == HandleRxFrame(i, f)
           d == TakeFrame(i, s, f)
<1>1. c = d
  BY LaterFrame
<1>2. CASE Takes(i.rx[s], f)
  <2> HIDE DEF s
  <2>1. /\ Serves(i, d.canard, s) /\ d.canard.rx[s].age = i.rx[s].age
        /\ d.what \in {"stored", "no_memory"}
        /\ d.what = "stored" =>
             /\ d.canard.rx[s].tid = f.tid /\ d.canard.rx[s].toggle = 1 - f.toggle
             /\ i.rx[s].n = f.n /\ i.rx[s].k > 0 /\ i.rx[s].k = f.k - 1
                  => d.canard.rx[s].n = f.n /\ d.canard.rx[s].k = f.k
    BY <1>2, TakeMiddle DEF s
  <2> HIDE DEF d
  <2>2. c.what = "stored" /\ s \in DOMAIN c.canard.rx
    BY <1>1, <2>1 DEF Serves
  <2> QED
    BY <1>1, <1>2, <2>1, <2>2 DEF s
<1>3. CASE ~Takes(i.rx[s], f)
  <2>1. d.canard = i /\ d.what = "dropped"
    BY <1>3, TakeNone
  <2> HIDE DEF d
  <2> QED
    BY <1>1, <1>3, <2>1
<1> QED
  BY <1>2, <1>3

LEMMA LastFrame ==
  ASSUME NEW i \in Instances, NEW f \in Frames, ~f.sot, f.eot, f.session \in DOMAIN i.rx,
         i.rx[f.session].age # 2
  PROVE  LET s == f.session
             r == i.rx[s]
             c == HandleRxFrame(i, f)
             r2 == c.canard.rx[s]
         IN /\ s \in DOMAIN c.canard.rx /\ c.what # "no_memory"
            /\ IF Takes(r, f)
               THEN /\ r2.tid = IncrementTransferID(f.tid) /\ r2.toggle = 0 /\ r2.age = r.age
                    /\ c.what = "delivered" <=> CrcMatches(r, f)
               ELSE r2 = r /\ c.what = "dropped"
<1> DEFINE s == f.session
           c == HandleRxFrame(i, f)
           d == TakeFrame(i, s, f)
<1>1. c = d
  BY LaterFrame
<1>2. CASE Takes(i.rx[s], f)
  <2> HIDE DEF s
  <2>1. /\ Serves(i, d.canard, s) /\ d.canard.rx[s].tid = IncrementTransferID(f.tid)
        /\ d.canard.rx[s].toggle = 0 /\ d.canard.rx[s].age = i.rx[s].age
        /\ d.what = IF CrcMatches(i.rx[s], f) THEN "delivered" ELSE "dropped"
    BY <1>2, TakeLast DEF s
  <2> HIDE DEF d
  <2>2. s \in DOMAIN c.canard.rx
    BY <1>1, <2>1 DEF Serves
  <2> QED
    BY <1>1, <1>2, <2>1, <2>2 DEF s
<1>3. CASE ~Takes(i.rx[s], f)
  <2>1. d.canard = i /\ d.what = "dropped"
    BY <1>3, TakeNone
  <2> HIDE DEF d
  <2> QED
    BY <1>1, <1>3, <2>1
<1> QED
  BY <1>2, <1>3

(* Only a last frame delivers, and the last of several only once.          *)
LEMMA NotDelivered ==
  ASSUME NEW i \in Instances, NEW s \in DOMAIN i.rx, NEW f \in Frames, ~f.eot
  PROVE  TakeFrame(i, s, f).what # "delivered"
<1>0. f.sot \in BOOLEAN
  BY DEF Frames
<1>1. CASE ~Takes(i.rx[s], f)
  BY <1>1, TakeNone
<1>2. CASE ~f.sot /\ Takes(i.rx[s], f)
  BY <1>2, TakeMiddle
<1>3. CASE f.sot /\ Takes(i.rx[s], f)
  BY <1>3, TakeFirst
<1> QED
  BY <1>0, <1>1, <1>2, <1>3

LEMMA DeliversLast ==
  ASSUME NEW i \in Instances, NEW f \in Frames, HandleRxFrame(i, f).what = "delivered"
  PROVE  f.eot
<1> SUFFICES ASSUME ~f.eot PROVE FALSE
  OBVIOUS
<1> DEFINE s == f.session
           j == Found(i, s)
           c == HandleRxFrame(i, f)
           h == Restarted(j, s, f)
<1>1. ~Refused(i, f)
  BY HandleCases
<1>2. j \in Instances /\ s \in DOMAIN j.rx
  BY <1>1, FoundState
<1>3. TakeFrame(j, s, f).what # "delivered"
  <2> HIDE DEF j, s
  <2> QED
    BY <1>2, NotDelivered
<1>4. TakeFrame(h, s, f).what # "delivered"
  <2>1. Serves(j, h, s)
    <3> HIDE DEF j, s
    <3> QED
      BY <1>2, RestartedServes DEF h
  <2> HIDE DEF j, s, h
  <2>2. h \in Instances /\ s \in DOMAIN h.rx
    BY <2>1 DEF Serves
  <2> QED
    BY <2>2, NotDelivered
<1>5. \/ c = TakeFrame(j, s, f)
      \/ c = TakeFrame(h, s, f)
      \/ c = [canard |-> h, what |-> "dropped"]
  BY <1>1, HandleCases
<1> QED
  BY <1>3, <1>4, <1>5

LEMMA DeliversOnce ==
  ASSUME NEW i \in Instances, NEW f \in Frames, ~f.sot,
         HandleRxFrame(i, f).what = "delivered"
  PROVE  HandleRxFrame(HandleRxFrame(i, f).canard, f).what # "delivered"
<1> DEFINE s == f.session
           c == HandleRxFrame(i, f)
           j == c.canard
<1>0. f.eot /\ f.tid \in TidSet
  BY DeliversLast DEF Frames
<1>1. ~Refused(i, f) /\ s \in DOMAIN i.rx /\ Found(i, s) = i
  <2>1. ~Refused(i, f)
    BY HandleCases
  <2> QED
    BY <2>1 DEF Refused, Found
<1>2. ~NeedRestart(i.rx[s], f) /\ c = TakeFrame(i, s, f)
  BY <1>1, HandleCases
<1>3. Takes(i.rx[s], f)
  BY <1>1, <1>2, TakeNone
<1>4. Serves(i, j, s) /\ j.rx[s].tid = IncrementTransferID(f.tid)
  BY <1>0, <1>1, <1>2, <1>3, TakeLast
<1> HIDE DEF j, s
<1>5. j \in Instances /\ s \in DOMAIN j.rx /\ ~Takes(j.rx[s], f)
  BY <1>0, <1>4, NextTid DEF Serves, Takes
<1>6. TakeFrame(j, s, f).what = "dropped"
  BY <1>5, TakeNone
<1>7. Found(j, s) = j /\ ~Refused(j, f)
  BY <1>5 DEF Found, Refused, s
<1> DEFINE d == HandleRxFrame(j, f)
<1>8. d.what = "dropped"
  <2>1. \/ d = TakeFrame(j, s, f)
        \/ d = [canard |-> Restarted(j, s, f), what |-> "dropped"]
    BY <1>5, <1>7, HandleCases DEF s
  <2> HIDE DEF d
  <2> QED
    BY <1>6, <2>1
<1> QED
  BY <1>8 DEF j

-----------------------------------------------------------------------------
(* Least elements and induction up to a number.                            *)

LEMMA LeastOf ==
  ASSUME NEW T, T \subseteq Nat, T # {}
  PROVE  \E x \in T : \A y \in T : x <= y
<1> DEFINE R == OpToRel(<, Nat)
<1>1. IsWellFoundedOn(R, Nat)
  BY NatLessThanWellFounded
<1>2. \A x, y \in Nat : y < x => <<y, x>> \in R
  BY DEF OpToRel
<1> HIDE DEF R
<1>3. PICK x \in T : \A y \in T : ~ (<<y, x>> \in R)
  BY <1>1, WFMin
<1>4. \A y \in T : ~(y < x)
  BY <1>2, <1>3
<1> QED
  BY <1>4

(* What holds of 0 and of each number's successor up to k holds up to k.   *)
LEMMA Climb ==
  ASSUME NEW k \in Nat, NEW S, 0 \in S, \A n \in 0..(k - 1) : n \in S => n + 1 \in S
  PROVE  0..k \subseteq S
<1> DEFINE T == {n \in 0..k : n \notin S}
<1> SUFFICES ASSUME T # {} PROVE FALSE
  OBVIOUS
<1>0. T \subseteq Nat
  OBVIOUS
<1>1. PICK x \in T : \A y \in T : x <= y
  <2> HIDE DEF T
  <2> QED
    BY <1>0, LeastOf
<1>2. x \in 0..k /\ x # 0 /\ x - 1 \in 0..(k - 1) /\ (x - 1) + 1 = x /\ ~(x <= x - 1) /\ x - 1 \in 0..k
  BY <1>1
<1>3. x - 1 \in S
  BY <1>1, <1>2
<1> QED
  BY <1>1, <1>2, <1>3

-----------------------------------------------------------------------------
(* The transmit queue.                                                     *)

Queued(q) == {q[p] : p \in 1..Len(q)}

Precedes(f, g) ==
  \/ f.session[2] < g.session[2]
  \/ f.session[2] = g.session[2] /\ f.n < g.n
  \/ f.session[2] = g.session[2] /\ f.n = g.n /\ f.k < g.k

Ordered(q) == \A a, b \in 1..Len(q) : a < b => Precedes(q[a], q[b])

LEMMA InQueue ==
  ASSUME NEW q \in Seq(Frames)
  PROVE  /\ Len(q) \in Nat /\ \A p \in 1..Len(q) : q[p] \in Frames /\ q[p] \in Queued(q)
         /\ \A f \in Queued(q) : f \in Frames /\ \E p \in 1..Len(q) : f = q[p]
BY DEF Queued

LEMMA FrameNumber ==
  ASSUME NEW f \in Frames
  PROVE  f.session \in Sessions /\ f.session[2] \in Nat /\ f.n \in Nat /\ f.k \in Nat
BY Sender DEF Frames

(* Where a frame is put: behind all of its urgency, before the rest.       *)
LEMMA Place ==
  ASSUME NEW q \in Seq(Frames), NEW f \in Frames
  PROVE  \E place \in 1..(Len(q) + 1) :
           /\ PushTxQueue(q, f) = [j \in 1..(Len(q) + 1) |->
                IF j < place THEN q[j] ELSE IF j = place THEN f ELSE q[j - 1]]
           /\ \A j \in 1..Len(q) : j < place => ~(q[j].session[2] > f.session[2])
           /\ place <= Len(q) => q[place].session[2] > f.session[2]
<1> DEFINE behind == {j \in 1..Len(q) : q[j].session[2] > f.session[2]}
           place == IF behind = {} THEN Len(q) + 1
                    ELSE CHOOSE j \in behind : \A l \in behind : j <= l
<1>1. Len(q) \in Nat
  BY InQueue
<1>2. PushTxQueue(q, f) = [j \in 1..(Len(q) + 1) |->
         IF j < place THEN q[j] ELSE IF j = place THEN f ELSE q[j - 1]]
  BY DEF PushTxQueue
<1>3. /\ place \in 1..(Len(q) + 1)
      /\ \A j \in 1..Len(q) : j < place => j \notin behind
      /\ place <= Len(q) => place \in behind
  <2>1. CASE behind = {}
    <3>1. place = Len(q) + 1
      BY <2>1
    <3> HIDE DEF behind, place
    <3> QED
      BY <1>1, <2>1, <3>1
  <2>2. CASE behind # {}
    <3>1. behind \subseteq 1..Len(q)
      OBVIOUS
    <3>2. place = CHOOSE j \in behind : \A l \in behind : j <= l
      BY <2>2
    <3> HIDE DEF behind, place
    <3>3. behind \subseteq Nat
      BY <1>1, <3>1
    <3>4. \E j \in behind : \A l \in behind : j <= l
      BY <2>2, <3>3, LeastOf
    <3>5. place \in behind /\ \A l \in behind : place <= l
      BY <3>2, <3>4
    <3> QED
      BY <1>1, <3>1, <3>5
  <2> QED
    BY <2>1, <2>2
<1>4. /\ \A j \in 1..Len(q) : j \notin behind => ~(q[j].session[2] > f.session[2])
      /\ place \in behind => q[place].session[2] > f.session[2]
  <2> HIDE DEF place
  <2> QED
    OBVIOUS
<1> HIDE DEF behind, place
<1> QED
  BY <1>2, <1>3, <1>4

LEMMA Pushed ==
  ASSUME NEW q \in Seq(Frames), NEW f \in Frames
  PROVE  LET p == PushTxQueue(q, f)
         IN /\ p \in Seq(Frames) /\ Len(p) = Len(q) + 1
            /\ Queued(p) = Queued(q) \cup {f}
<1>1. Len(q) \in Nat /\ \A j \in 1..Len(q) : q[j] \in Frames
  BY InQueue
<1>2. PICK place \in 1..(Len(q) + 1) :
        PushTxQueue(q, f) = [j \in 1..(Len(q) + 1) |->
          IF j < place THEN q[j] ELSE IF j = place THEN f ELSE q[j - 1]]
  BY Place
<1> DEFINE p == PushTxQueue(q, f)
           L == Len(q) + 1
<1>3. \A j \in 1..L : p[j] = IF j < place THEN q[j] ELSE IF j = place THEN f ELSE q[j - 1]
  BY <1>2
<1>4. L \in Nat /\ p = [j \in 1..L |-> p[j]]
  BY <1>1, <1>2
<1> HIDE DEF p
<1>5. \A j \in 1..L : (j < place => j \in 1..Len(q)) /\ (j > place => j - 1 \in 1..Len(q))
  BY <1>1
<1>6. \A j \in 1..L : p[j] \in Frames
  BY <1>1, <1>3, <1>5
<1>7. p \in Seq(Frames) /\ Len(p) = L
  <2> HIDE DEF L
  <2>1. p \in [1..L -> Frames]
    BY <1>4, <1>6
  <2>2. p \in Seq(Frames)
    BY <1>4, <2>1
  <2> QED
    BY <1>4, <2>1, <2>2
<1>8. \A x : x \in Queued(p) => x \in Queued(q) \cup {f}
  <2> SUFFICES ASSUME NEW j \in 1..L PROVE p[j] \in Queued(q) \cup {f}
    BY <1>7 DEF Queued
  <2>1. CASE j < place
    BY <1>3, <1>5, <2>1 DEF Queued
  <2>2. CASE j = place
    BY <1>3, <2>2
  <2>3. CASE j > place
    <3>1. j - 1 \in 1..Len(q) /\ p[j] = q[j - 1]
      BY <1>3, <1>5, <2>3
    <3> QED
      BY <3>1 DEF Queued
  <2> QED
    BY <1>1, <2>1, <2>2, <2>3
<1>9. f \in Queued(p)
  <2>1. p[place] = f /\ place \in 1..L
    BY <1>3
  <2> QED
    BY <1>7, <2>1 DEF Queued
<1>10. ASSUME NEW j \in 1..Len(q) PROVE q[j] \in Queued(p)
  <2>1. CASE j < place
    <3>1. j \in 1..L /\ p[j] = q[j]
      BY <1>1, <1>3, <2>1
    <3> QED
      BY <1>7, <3>1 DEF Queued
  <2>2. CASE ~(j < place)
    <3>1. j + 1 \in 1..L /\ ~(j + 1 < place) /\ j + 1 # place /\ (j + 1) - 1 = j
      BY <1>1, <2>2
    <3>2. p[j + 1] = q[j]
      BY <1>3, <3>1
    <3> QED
      BY <1>7, <3>1, <3>2 DEF Queued
  <2> QED
    BY <2>1, <2>2
<1>11. Queued(p) = Queued(q) \cup {f}
  <2>1. \A x : x \in Queued(q) => x \in Queued(p)
    BY <1>10 DEF Queued
  <2> QED
    BY <1>8, <1>9, <2>1
<1> QED
  BY <1>7, <1>11 DEF p

LEMMA PushedInOrder ==
  ASSUME NEW q \in Seq(Frames), NEW f \in Frames, Ordered(q),
         \A g \in Queued(q) : g.session[2] = f.session[2] => Precedes(g, f)
  PROVE  Ordered(PushTxQueue(q, f))
<1>1. Len(q) \in Nat /\ \A j \in 1..Len(q) : q[j] \in Frames /\ q[j] \in Queued(q)
  BY InQueue
<1>2. PICK place \in 1..(Len(q) + 1) :
        /\ PushTxQueue(q, f) = [j \in 1..(Len(q) + 1) |->
             IF j < place THEN q[j] ELSE IF j = place THEN f ELSE q[j - 1]]
        /\ \A j \in 1..Len(q) : j < place => ~(q[j].session[2] > f.session[2])
        /\ place <= Len(q) => q[place].session[2] > f.session[2]
  BY Place
<1> DEFINE p == PushTxQueue(q, f)
           L == Len(q) + 1
<1>3. \A j \in 1..L : p[j] = IF j < place THEN q[j] ELSE IF j = place THEN f ELSE q[j - 1]
  BY <1>2
<1>4. Len(p) = L
  BY Pushed
<1>5. f.session[2] \in Nat /\ \A j \in 1..Len(q) : q[j].session[2] \in Nat
  BY <1>1, FrameNumber
<1>6. \A a, b \in 1..Len(q) : a < b => Precedes(q[a], q[b])
  BY DEF Ordered
<1> HIDE DEF p
<1>7. ASSUME NEW a \in 1..Len(q), a < place PROVE Precedes(q[a], f)
  <2>1. ~(q[a].session[2] > f.session[2])
    BY <1>2, <1>7
  <2>2. CASE q[a].session[2] = f.session[2]
    BY <1>1, <2>2
  <2>3. CASE q[a].session[2] < f.session[2]
    BY <2>3 DEF Precedes
  <2> QED
    BY <1>5, <2>1, <2>2, <2>3
<1>8. ASSUME NEW b \in 1..Len(q), place <= b PROVE Precedes(f, q[b])
  <2>1. place \in 1..Len(q) /\ q[place].session[2] > f.session[2]
    BY <1>1, <1>2, <1>8
  <2>2. CASE b = place
    BY <1>5, <2>1, <2>2 DEF Precedes
  <2>3. CASE b # place
    <3>1. Precedes(q[place], q[b])
      BY <1>1, <1>6, <1>8, <2>1, <2>3
    <3>2. q[place].session[2] <= q[b].session[2]
      BY <1>5, <2>1, <3>1 DEF Precedes
    <3>3. f.session[2] < q[b].session[2]
      BY <1>5, <2>1, <3>2
    <3> QED
      BY <3>3 DEF Precedes
  <2> QED
    BY <2>2, <2>3
<1>9. ASSUME NEW a \in 1..L, NEW b \in 1..L, a < b PROVE Precedes(p[a], p[b])
  <2>1. CASE b < place
    <3>1. a \in 1..Len(q) /\ b \in 1..Len(q) /\ a < place
      BY <1>1, <1>9, <2>1
    <3> QED
      BY <1>3, <1>6, <1>9, <2>1, <3>1
  <2>2. CASE b = place
    <3>1. a \in 1..Len(q) /\ a < place
      BY <1>1, <1>9, <2>2
    <3> QED
      BY <1>3, <1>7, <2>2, <3>1
  <2>3. CASE b > place
    <3>1. b - 1 \in 1..Len(q) /\ place <= b - 1 /\ p[b] = q[b - 1]
      BY <1>1, <1>3, <2>3
    <3>2. CASE a < place
      <4>1. a \in 1..Len(q) /\ a < b - 1 /\ p[a] = q[a]
        BY <1>1, <1>3, <1>9, <3>1, <3>2
      <4> QED
        BY <1>6, <3>1, <4>1
    <3>3. CASE a = place
      BY <1>3, <1>8, <3>1, <3>3
    <3>4. CASE a > place
      <4>1. a - 1 \in 1..Len(q) /\ a - 1 < b - 1 /\ p[a] = q[a - 1]
        BY <1>1, <1>3, <1>9, <3>4
      <4> QED
        BY <1>6, <3>1, <4>1
    <3> QED
      BY <3>2, <3>3, <3>4
  <2> QED
    BY <1>1, <2>1, <2>2, <2>3
<1> QED
  BY <1>4, <1>9 DEF Ordered, p

LEMMA FrameTyped ==
  ASSUME NEW s \in Sessions, NEW n \in Nat, NEW t \in TidSet, NEW len \in Nat, NEW k \in Nat,
         k >= 1
  PROVE  LET f == Frame(s, n, t, len, k)
         IN /\ f \in Frames /\ f.session = s /\ f.n = n /\ f.k = k /\ f.tid = t /\ ~f.late
            /\ f.sot <=> k = 1
            /\ f.eot <=> k = FrameCount(len)
            /\ f.toggle = (k - 1) % 2
<1> DEFINE g == (k - 1) % 2
           sot == k = 1
           eot == k = FrameCount(len)
           b == IF k = 1 /\ FrameCount(len) > 1 THEN FrameBytes - 2
                ELSE IF k < FrameCount(len) THEN FrameBytes
                ELSE IF k = 1 THEN len
                ELSE len + 2 - (k - 1) * FrameBytes
<1>1. Frame(s, n, t, len, k)
      = [session |-> s, n |-> n, k |-> k, tid |-> t, sot |-> sot, eot |-> eot, toggle |-> g,
         bytes |-> b, late |-> FALSE]
  BY DEF Frame
<1>2. g \in 0..1
  OBVIOUS
<1>3. b \in Int
  <2>1. FrameBytes \in Int
    BY Sizes
  <2>2. (k - 1) * FrameBytes \in Int
    BY <2>1
  <2> DEFINE p == (k - 1) * FrameBytes
  <2> HIDE DEF p
  <2>3. len + 2 - p \in Int
    BY <2>2 DEF p
  <2> QED
    BY <2>1, <2>3 DEF p
<1>4. sot \in BOOLEAN /\ eot \in BOOLEAN
  OBVIOUS
<1> HIDE DEF g, b, sot, eot
<1>5. Frame(s, n, t, len, k) \in Frames
  BY <1>1, <1>2, <1>3, <1>4 DEF Frames
<1>6. LET f == Frame(s, n, t, len, k)
      IN /\ f.session = s /\ f.n = n /\ f.k = k /\ f.tid = t /\ f.late = FALSE
         /\ f.sot = sot /\ f.eot = eot /\ f.toggle = g
  BY <1>1
<1> QED
  BY <1>5, <1>6 DEF g, sot, eot

LEMMA FrameCountIsNat ==
  ASSUME NEW len \in Nat
  PROVE  FrameCount(len) \in Nat
<1>1. FrameBytes \in Nat /\ FrameBytes >= 2
  BY Sizes
<1>2. \A x \in Nat : x \div FrameBytes \in Nat
  BY <1>1
<1> DEFINE x == len + 2 + FrameBytes - 1
<1>3. x \in Nat
  BY <1>1
<1> HIDE DEF x
<1>4. FrameCount(len) = IF len <= FrameBytes THEN 1 ELSE x \div FrameBytes
  BY DEF FrameCount, x
<1> QED
  BY <1>2, <1>3, <1>4

(* g is the queue after each of the first m frames of a transfer.          *)
Pushes(g, q, s, n, t, len, m) ==
  g = [k \in 0..m |-> IF k = 0 THEN q ELSE PushTxQueue(g[k - 1], Frame(s, n, t, len, k))]

LEMMA PushesExist ==
  ASSUME NEW q, NEW s, NEW n, NEW t, NEW len, NEW m \in Nat
  PROVE  \E g : Pushes(g, q, s, n, t, len, m)
<1> DEFINE S == {l \in Nat : \E g : Pushes(g, q, s, n, t, len, l)}
<1>1. 0 \in S
  <2> DEFINE g == [k \in 0..0 |-> q]
  <2>1. g = [k \in 0..0 |-> IF k = 0 THEN q ELSE PushTxQueue(g[k - 1], Frame(s, n, t, len, k))]
    OBVIOUS
  <2> QED
    BY <2>1 DEF Pushes
<1>2. ASSUME NEW l \in 0..(m - 1), l \in S PROVE l + 1 \in S
  <2>1. PICK g : Pushes(g, q, s, n, t, len, l)
    BY <1>2
  <2> DEFINE h == [k \in 0..(l + 1) |->
                     IF k = l + 1 THEN PushTxQueue(g[l], Frame(s, n, t, len, l + 1)) ELSE g[k]]
  <2>2. \A k \in 0..l : g[k] = IF k = 0 THEN q
                               ELSE PushTxQueue(g[k - 1], Frame(s, n, t, len, k))
    BY <2>1 DEF Pushes
  <2>3. \A k \in 0..(l + 1) : h[k] = IF k = 0 THEN q
                                     ELSE PushTxQueue(h[k - 1], Frame(s, n, t, len, k))
    <3> TAKE k \in 0..(l + 1)
    <3>1. CASE k = l + 1
      <4>1. l \in 0..(l + 1) /\ l # l + 1 /\ k - 1 = l /\ k # 0 /\ h[l] = g[l]
        BY <3>1
      <4> QED
        BY <3>1, <4>1
    <3>2. CASE k # l + 1
      <4>1. k \in 0..l /\ h[k] = g[k] /\ (k # 0 => k - 1 \in 0..l /\ k - 1 # l + 1 /\ h[k - 1] = g[k - 1])
        BY <3>2
      <4> HIDE DEF h
      <4> QED
        BY <2>2, <4>1
    <3> QED
      BY <3>1, <3>2
  <2>4. h = [k \in 0..(l + 1) |-> h[k]]
    OBVIOUS
  <2> HIDE DEF h
  <2>5. Pushes(h, q, s, n, t, len, l + 1)
    BY <2>3, <2>4 DEF Pushes
  <2> QED
    BY <2>5
<1>3. 0..m \subseteq S
  <2> HIDE DEF S
  <2> QED
    BY <1>1, <1>2, Climb
<1>4. m \in S
  BY <1>3
<1> QED
  BY <1>4

NewFrames(s, n, t, len, m) == {Frame(s, n, t, len, k) : k \in 1..m}

(* Frame by frame: what is queued after k of them.                         *)
LEMMA PushesKeep ==
  ASSUME NEW q \in Seq(Frames), NEW s \in Sessions, NEW n \in Nat, NEW t \in TidSet,
         NEW len \in Nat, NEW m \in Nat, NEW g, Pushes(g, q, s, n, t, len, m), Ordered(q),
         \A f \in Queued(q) : f.session[2] = s[2] => f.n < n
  PROVE  /\ g[m] \in Seq(Frames) /\ Len(g[m]) = Len(q) + m /\ Ordered(g[m])
         /\ Queued(g[m]) = Queued(q) \cup NewFrames(s, n, t, len, m)
<1> DEFINE F(k) == Frame(s, n, t, len, k)
           Holds(k) == /\ g[k] \in Seq(Frames) /\ Len(g[k]) = Len(q) + k /\ Ordered(g[k])
                       /\ Queued(g[k]) = Queued(q) \cup {F(l) : l \in 1..k}
           S == {k \in Nat : Holds(k)}
<1>1. /\ g[0] = q
      /\ \A k \in 1..m : g[k] = PushTxQueue(g[k - 1], F(k))
  BY DEF Pushes
<1>2. 0 \in S
  <2>1. {F(l) : l \in 1..0} = {} /\ Len(q) \in Nat
    OBVIOUS
  <2> QED
    BY <1>1, <2>1
<1>3. ASSUME NEW k \in 0..(m - 1), k \in S PROVE k + 1 \in S
  <2> DEFINE p == g[k]
             f == F(k + 1)
  <2>1. p \in Seq(Frames) /\ Len(p) = Len(q) + k /\ Ordered(p)
        /\ Queued(p) = Queued(q) \cup {F(l) : l \in 1..k}
    BY <1>3
  <2>2. k \in Nat /\ k + 1 \in 1..m /\ k + 1 \in Nat /\ k + 1 >= 1 /\ (k + 1) - 1 = k
    BY <1>3
  <2>3. g[k + 1] = PushTxQueue(p, f)
    BY <1>1, <2>2
  <2>4. f \in Frames /\ f.session = s /\ f.n = n /\ f.k = k + 1
    BY <2>2, FrameTyped
  <2>5. ASSUME NEW x \in Queued(p), x.session[2] = f.session[2] PROVE Precedes(x, f)
    <3>1. CASE x \in Queued(q)
      BY <2>4, <2>5, <3>1 DEF Precedes
    <3>2. CASE x \in {F(l) : l \in 1..k}
      <4>1. PICK l \in 1..k : x = F(l)
        BY <3>2
      <4>2. l \in Nat /\ l >= 1 /\ l < k + 1
        BY <2>2
      <4>3. x.n = n /\ x.k = l
        BY <4>1 DEF Frame
      <4> HIDE DEF f
      <4> QED
        BY <2>4, <2>5, <4>2, <4>3 DEF Precedes
    <3> QED
      BY <2>1, <3>1, <3>2
  <2> HIDE DEF f, p
  <2>6. Ordered(PushTxQueue(p, f))
    BY <2>1, <2>4, <2>5, PushedInOrder
  <2>7. /\ PushTxQueue(p, f) \in Seq(Frames) /\ Len(PushTxQueue(p, f)) = Len(p) + 1
        /\ Queued(PushTxQueue(p, f)) = Queued(p) \cup {f}
    BY <2>1, <2>4, Pushed
  <2>8. {F(l) : l \in 1..(k + 1)} = {F(l) : l \in 1..k} \cup {f}
    <3>1. 1..(k + 1) = (1..k) \cup {k + 1}
      BY <2>2
    <3> QED
      BY <3>1 DEF f
  <2>9. Len(q) \in Nat
    OBVIOUS
  <2>10. Holds(k + 1)
    <3>1. Len(g[k + 1]) = Len(q) + (k + 1)
      BY <2>1, <2>2, <2>3, <2>7, <2>9
    <3>2. Queued(g[k + 1]) = Queued(q) \cup {F(l) : l \in 1..(k + 1)}
      BY <2>1, <2>3, <2>7, <2>8
    <3> QED
      BY <2>3, <2>6, <2>7, <3>1, <3>2
  <2> QED
    BY <2>2, <2>10
<1>4. m \in S
  <2> HIDE DEF S
  <2>1. 0..m \subseteq S
    BY <1>2, <1>3, Climb
  <2> QED
    BY <2>1
<1> QED
  BY <1>4 DEF NewFrames

Fits(i, len) == IF Enqueued(i, len) THEN FrameCount(len) ELSE i.free

(* The instance with m blocks less and the m-th queue.                     *)
Loaded(i, m, g) == [i EXCEPT !.free = i.free - m, !.txq = g[m]]

LEMMA EnqueuedIs ==
  ASSUME NEW i \in Instances, NEW s \in Sessions, NEW n \in Nat, NEW t \in TidSet, NEW len \in Nat
  PROVE  \E g : /\ Pushes(g, i.txq, s, n, t, len, Fits(i, len))
                /\ EnqueueTxFrames(i, s, n, t, len) = Loaded(i, Fits(i, len), g)
<1> DEFINE fits == Fits(i, len)
           h == CHOOSE x : x = [k \in 0..fits |->
                  IF k = 0 THEN i.txq ELSE PushTxQueue(x[k - 1], Frame(s, n, t, len, k))]
<1>1. EnqueueTxFrames(i, s, n, t, len) = [i EXCEPT !.free = i.free - fits, !.txq = h[fits]]
  BY DEF EnqueueTxFrames, Fits
<1>2. fits \in Nat
  BY Instance, FrameCountIsNat DEF Fits
<1> HIDE DEF fits
<1>3. PICK g : Pushes(g, i.txq, s, n, t, len, fits)
  BY <1>2, PushesExist
<1>4. g = [k \in 0..fits |->
             IF k = 0 THEN i.txq ELSE PushTxQueue(g[k - 1], Frame(s, n, t, len, k))]
  BY <1>3 DEF Pushes
<1>5. h = [k \in 0..fits |->
             IF k = 0 THEN i.txq ELSE PushTxQueue(h[k - 1], Frame(s, n, t, len, k))]
  BY <1>4, Zenon
<1> HIDE DEF h
<1>6. Pushes(h, i.txq, s, n, t, len, fits)
  BY <1>5 DEF Pushes
<1>7. EnqueueTxFrames(i, s, n, t, len) = Loaded(i, fits, h)
  BY <1>1 DEF Loaded
<1> QED
  BY <1>6, <1>7, Zenon DEF fits

LEMMA Enqueueing ==
  ASSUME NEW i \in Instances, NEW s \in Sessions, NEW n \in Nat, NEW t \in TidSet,
         NEW len \in Nat, Ordered(i.txq),
         \A f \in Queued(i.txq) : f.session[2] = s[2] => f.n < n
  PROVE  LET j == EnqueueTxFrames(i, s, n, t, len)
         IN /\ j \in Instances /\ j.rx = i.rx /\ Ordered(j.txq)
            /\ j.free + Len(j.txq) = i.free + Len(i.txq)
            /\ Queued(j.txq)
               = Queued(i.txq) \cup NewFrames(s, n, t, len, Fits(i, len))
<1> DEFINE fits == Fits(i, len)
           j == EnqueueTxFrames(i, s, n, t, len)
<1>1. fits \in Nat /\ i.free \in Nat /\ i.txq \in Seq(Frames) /\ fits <= i.free
  BY Instance, FrameCountIsNat DEF Fits, Enqueued
<1> HIDE DEF fits
<1>2. PICK g : Pushes(g, i.txq, s, n, t, len, fits) /\ j = Loaded(i, fits, g)
  BY EnqueuedIs, Zenon DEF fits
<1> HIDE DEF j
<1>3. /\ g[fits] \in Seq(Frames) /\ Len(g[fits]) = Len(i.txq) + fits /\ Ordered(g[fits])
      /\ Queued(g[fits]) = Queued(i.txq) \cup NewFrames(s, n, t, len, fits)
  <2> DEFINE p == i.txq
  <2>1. p \in Seq(Frames) /\ Ordered(p) /\ \A f \in Queued(p) : f.session[2] = s[2] => f.n < n
    BY <1>1
  <2>2. Pushes(g, p, s, n, t, len, fits)
    BY <1>2
  <2> HIDE DEF p
  <2>3. /\ g[fits] \in Seq(Frames) /\ Len(g[fits]) = Len(p) + fits /\ Ordered(g[fits])
        /\ Queued(g[fits]) = Queued(p) \cup NewFrames(s, n, t, len, fits)
    BY <1>1, <2>1, <2>2, PushesKeep
  <2> QED
    BY <2>3 DEF p
<1> DEFINE q == g[fits]
           free == i.free - fits
<1>4. free \in Nat
  BY <1>1
<1>5. q \in Seq(Frames)
  BY <1>3
<1> HIDE DEF q, free
<1>6. j = [i EXCEPT !.free = free, !.txq = q]
  BY <1>2 DEF q, free, Loaded
<1>7. j \in Instances /\ j.rx = i.rx /\ j.txq = q /\ j.free = free
  BY <1>4, <1>5, <1>6 DEF Instances
<1>8. Len(i.txq) \in Nat
  BY <1>1
<1>9. j.free + Len(j.txq) = i.free + Len(i.txq)
  BY <1>1, <1>3, <1>7, <1>8 DEF q, free
<1> QED
  BY <1>3, <1>7, <1>9 DEF q, j, fits

LEMMA Emptied ==
  <<>> \in Seq(Frames) /\ Len(<<>>) = 0 /\ Queued(<<>>) = {} /\ Ordered(<<>>)
BY DEF Queued, Ordered

LEMMA Popped ==
  ASSUME NEW q \in Seq(Frames), q # <<>>
  PROVE  /\ Tail(q) \in Seq(Frames) /\ Len(Tail(q)) = Len(q) - 1
         /\ Queued(Tail(q)) \subseteq Queued(q) /\ Head(q) \in Queued(q) /\ Head(q) \in Frames
         /\ Ordered(q) => Ordered(Tail(q)) /\ \A g \in Queued(Tail(q)) : Precedes(Head(q), g)
<1>1. /\ Len(q) \in Nat /\ Len(q) >= 1 /\ Head(q) = q[1]
      /\ Tail(q) \in Seq(Frames) /\ Len(Tail(q)) = Len(q) - 1
      /\ \A p \in 1..(Len(q) - 1) : Tail(q)[p] = q[p + 1]
  <2>1. Len(q) \in Nat /\ Len(q) # 0
    OBVIOUS
  <2> QED
    BY <2>1
<1>2. 1 \in 1..Len(q) /\ \A p \in 1..(Len(q) - 1) : p + 1 \in 1..Len(q) /\ 1 < p + 1
  BY <1>1
<1> DEFINE t == Tail(q)
<1>3. \A p \in 1..Len(t) : t[p] = q[p + 1] /\ p + 1 \in 1..Len(q) /\ 1 < p + 1
  BY <1>1, <1>2
<1>4. Head(q) \in Queued(q) /\ Head(q) \in Frames
  BY <1>1, <1>2, InQueue
<1> HIDE DEF t
<1>5. Queued(t) \subseteq Queued(q)
  BY <1>3 DEF Queued
<1>6. ASSUME Ordered(q)
      PROVE  Ordered(t) /\ \A g \in Queued(t) : Precedes(Head(q), g)
  <2>1. \A a, b \in 1..Len(q) : a < b => Precedes(q[a], q[b])
    BY <1>6 DEF Ordered
  <2>2. ASSUME NEW a \in 1..Len(t), NEW b \in 1..Len(t), a < b PROVE Precedes(t[a], t[b])
    <3>1. a + 1 < b + 1 /\ a + 1 \in 1..Len(q) /\ b + 1 \in 1..Len(q)
      BY <1>3, <2>2
    <3> QED
      BY <1>3, <2>1, <3>1
  <2>3. \A p \in 1..Len(t) : Precedes(Head(q), t[p])
    BY <1>1, <1>2, <1>3, <2>1
  <2> QED
    BY <2>2, <2>3 DEF Ordered, Queued
<1> QED
  BY <1>1, <1>4, <1>5, <1>6 DEF t

(* g is what is left of the first j frames, for every j up to m.           *)
Sifts(g, q, m) ==
  g = [j \in 0..m |-> IF j = 0 THEN <<>>
                      ELSE IF q[j].late THEN g[j - 1] ELSE Append(g[j - 1], q[j])]

LEMMA SiftsExist ==
  ASSUME NEW q, NEW m \in Nat
  PROVE  \E g : Sifts(g, q, m)
<1> DEFINE S == {l \in Nat : \E g : Sifts(g, q, l)}
<1>1. 0 \in S
  <2> DEFINE g == [k \in 0..0 |-> <<>>]
  <2>1. g = [k \in 0..0 |-> IF k = 0 THEN <<>>
                            ELSE IF q[k].late THEN g[k - 1] ELSE Append(g[k - 1], q[k])]
    OBVIOUS
  <2> QED
    BY <2>1 DEF Sifts
<1>2. ASSUME NEW l \in 0..(m - 1), l \in S PROVE l + 1 \in S
  <2>1. PICK g : Sifts(g, q, l)
    BY <1>2
  <2> DEFINE Next(x) == IF q[l + 1].late THEN x ELSE Append(x, q[l + 1])
             h == [k \in 0..(l + 1) |-> IF k = l + 1 THEN Next(g[l]) ELSE g[k]]
  <2>2. \A k \in 0..l : g[k] = IF k = 0 THEN <<>>
                               ELSE IF q[k].late THEN g[k - 1] ELSE Append(g[k - 1], q[k])
    BY <2>1 DEF Sifts
  <2>3. \A k \in 0..(l + 1) :
          h[k] = IF k = 0 THEN <<>>
                 ELSE IF q[k].late THEN h[k - 1] ELSE Append(h[k - 1], q[k])
    <3> TAKE k \in 0..(l + 1)
    <3>1. CASE k = l + 1
      <4>1. l \in 0..(l + 1) /\ l # l + 1 /\ k - 1 = l /\ k # 0 /\ h[l] = g[l]
        BY <3>1
      <4>2. h[k] = Next(g[l])
        BY <3>1
      <4> QED
        BY <3>1, <4>1, <4>2
    <3>2. CASE k # l + 1
      <4>1. k \in 0..l /\ h[k] = g[k] /\ (k # 0 => k - 1 \in 0..l /\ k - 1 # l + 1 /\ h[k - 1] = g[k - 1])
        BY <3>2
      <4> HIDE DEF h
      <4> QED
        BY <2>2, <4>1
    <3> QED
      BY <3>1, <3>2
  <2>4. h = [k \in 0..(l + 1) |-> h[k]]
    OBVIOUS
  <2> HIDE DEF h
  <2>5. Sifts(h, q, l + 1)
    BY <2>3, <2>4 DEF Sifts
  <2> QED
    BY <2>5
<1>3. m \in S
  <2> HIDE DEF S
  <2>1. 0..m \subseteq S
    BY <1>1, <1>2, Climb
  <2> QED
    BY <2>1
<1> QED
  BY <1>3

LEMMA PunctualIs ==
  ASSUME NEW q \in Seq(Frames)
  PROVE  \E g : Sifts(g, q, Len(q)) /\ Punctual(q) = g[Len(q)]
<1> DEFINE h == CHOOSE x : x = [j \in 0..Len(q) |->
                  IF j = 0 THEN <<>>
                  ELSE IF q[j].late THEN x[j - 1] ELSE Append(x[j - 1], q[j])]
<1>1. Punctual(q) = h[Len(q)]
  BY DEF Punctual
<1>2. Len(q) \in Nat
  OBVIOUS
<1>3. PICK g : Sifts(g, q, Len(q))
  BY <1>2, SiftsExist
<1>4. g = [j \in 0..Len(q) |->
             IF j = 0 THEN <<>>
             ELSE IF q[j].late THEN g[j - 1] ELSE Append(g[j - 1], q[j])]
  BY <1>3 DEF Sifts
<1>5. h = [j \in 0..Len(q) |->
             IF j = 0 THEN <<>>
             ELSE IF q[j].late THEN h[j - 1] ELSE Append(h[j - 1], q[j])]
  BY <1>4, Zenon
<1> HIDE DEF h
<1>6. Sifts(h, q, Len(q))
  BY <1>5 DEF Sifts
<1> QED
  BY <1>1, <1>6

LEMMA Appended ==
  ASSUME NEW p \in Seq(Frames), NEW f \in Frames
  PROVE  LET t == Append(p, f)
         IN /\ t \in Seq(Frames) /\ Len(t) = Len(p) + 1 /\ Queued(t) = Queued(p) \cup {f}
            /\ Ordered(p) /\ (\A g \in Queued(p) : Precedes(g, f)) => Ordered(t)
<1> DEFINE t == Append(p, f)
           L == Len(p) + 1
<1>1. /\ Len(p) \in Nat /\ t \in Seq(Frames) /\ Len(t) = L /\ t[L] = f /\ L \in 1..L
      /\ \A a \in 1..Len(p) : t[a] = p[a] /\ a \in 1..L
      /\ \A a \in 1..L : a = L \/ a \in 1..Len(p)
  OBVIOUS
<1>2. L \in Nat /\ \A a \in 1..Len(p) : a # L /\ ~(L < a)
  BY <1>1
<1> HIDE DEF t, L
<1>3. Queued(t) = Queued(p) \cup {f}
  BY <1>1 DEF Queued
<1>4. ASSUME Ordered(p), \A g \in Queued(p) : Precedes(g, f) PROVE Ordered(t)
  <2>1. \A a \in 1..Len(p) : Precedes(p[a], f)
    BY <1>4 DEF Queued
  <2>2. \A a, b \in 1..Len(p) : a < b => Precedes(p[a], p[b])
    BY <1>4 DEF Ordered
  <2>3. ASSUME NEW a \in 1..L, NEW b \in 1..L, a < b PROVE Precedes(t[a], t[b])
    <3>1. CASE b = L
      <4>1. a # L
        BY <1>2, <2>3, <3>1
      <4> QED
        BY <1>1, <2>1, <3>1, <4>1
    <3>2. CASE b # L
      <4>1. a # L
        BY <1>1, <1>2, <2>3, <3>2
      <4> QED
        BY <1>1, <2>2, <2>3, <3>2, <4>1
    <3> QED
      BY <3>1, <3>2
  <2> QED
    BY <1>1, <2>3 DEF Ordered
<1> QED
  BY <1>1, <1>3, <1>4 DEF t, L

LEMMA PunctualKeeps ==
  ASSUME NEW q \in Seq(Frames), Ordered(q)
  PROVE  LET p == Punctual(q)
         IN /\ p \in Seq(Frames) /\ Len(p) <= Len(q) /\ Ordered(p)
            /\ Queued(p) \subseteq Queued(q)
<1> DEFINE m == Len(q)
<1>0. m \in Nat /\ \A j \in 1..m : q[j] \in Frames
  BY InQueue
<1>1. PICK g : Sifts(g, q, m) /\ Punctual(q) = g[m]
  BY PunctualIs
<1>2. \A a, b \in 1..m : a < b => Precedes(q[a], q[b])
  BY DEF Ordered
<1> HIDE DEF m
<1> DEFINE First(j) == {q[l] : l \in 1..j}
           Holds(j) == /\ g[j] \in Seq(Frames) /\ Len(g[j]) <= j /\ Ordered(g[j])
                       /\ Queued(g[j]) \subseteq First(j)
           S == {j \in Nat : Holds(j)}
<1>3. /\ g[0] = <<>>
      /\ \A j \in 1..m : g[j] = IF q[j].late THEN g[j - 1] ELSE Append(g[j - 1], q[j])
  <2>1. \A j \in 0..m : g[j] = IF j = 0 THEN <<>>
                               ELSE IF q[j].late THEN g[j - 1] ELSE Append(g[j - 1], q[j])
    <3>1. Sifts(g, q, m)
      BY <1>1
    <3> QED
      BY <3>1 DEF Sifts
  <2>2. 0 \in 0..m /\ \A j \in 1..m : j \in 0..m /\ j # 0
    BY <1>0
  <2> QED
    BY <2>1, <2>2
<1>4. 0 \in S
  <2> DEFINE e == g[0]
  <2>1. e \in Seq(Frames) /\ Len(e) = 0 /\ Queued(e) = {} /\ Ordered(e)
    BY <1>3, Emptied
  <2> HIDE DEF e
  <2>2. Len(e) <= 0 /\ Queued(e) \subseteq First(0)
    BY <2>1
  <2> QED
    BY <2>1, <2>2 DEF e
<1>5. ASSUME NEW j \in 0..(m - 1), j \in S PROVE j + 1 \in S
  <2> DEFINE p == g[j]
             f == q[j + 1]
  <2>1. p \in Seq(Frames) /\ Len(p) <= j /\ Ordered(p) /\ Queued(p) \subseteq First(j)
    BY <1>5
  <2>2. j \in Nat /\ j + 1 \in Nat /\ j + 1 \in 1..m /\ (j + 1) - 1 = j
    BY <1>0, <1>5
  <2>3. g[j + 1] = IF f.late THEN p ELSE Append(p, f)
    BY <1>3, <2>2
  <2>4. f \in Frames /\ f \in First(j + 1) /\ First(j) \subseteq First(j + 1)
    BY <1>0, <2>2
  <2>5. \A x \in First(j) : Precedes(x, f)
    <3>1. \A l \in 1..j : l \in 1..m /\ l < j + 1
      BY <1>0, <1>5
    <3> QED
      BY <1>2, <2>2, <3>1
  <2> HIDE DEF p, f, First
  <2>6. Len(p) \in Nat
    BY <2>1
  <2>7. /\ Append(p, f) \in Seq(Frames) /\ Len(Append(p, f)) = Len(p) + 1
        /\ Queued(Append(p, f)) = Queued(p) \cup {f} /\ Ordered(Append(p, f))
    <3>1. \A x \in Queued(p) : Precedes(x, f)
      BY <2>1, <2>5
    <3> QED
      BY <2>1, <2>4, <3>1, Appended
  <2>8. CASE f.late
    <3>1. g[j + 1] = p /\ Len(p) <= j + 1 /\ Queued(p) \subseteq First(j + 1)
      BY <2>1, <2>2, <2>3, <2>4, <2>6, <2>8
    <3> QED
      BY <2>1, <2>2, <3>1
  <2>9. CASE ~f.late
    <3>1. g[j + 1] = Append(p, f) /\ Len(Append(p, f)) <= j + 1
      BY <2>1, <2>2, <2>3, <2>6, <2>7, <2>9
    <3>2. Queued(Append(p, f)) \subseteq First(j + 1)
      BY <2>1, <2>4, <2>7
    <3> QED
      BY <2>2, <2>7, <3>1, <3>2
  <2> QED
    BY <2>8, <2>9
<1>6. m \in S
  <2> HIDE DEF S
  <2>1. 0..m \subseteq S
    BY <1>0, <1>4, <1>5, Climb
  <2> QED
    BY <1>0, <2>1
<1> QED
  BY <1>1, <1>6 DEF Queued, m

(* Frames that differ in their deadline only.                              *)
Alike(f, g) ==
  /\ g.session = f.session /\ g.n = f.n /\ g.k = f.k /\ g.tid = f.tid
  /\ g.sot = f.sot /\ g.eot = f.eot /\ g.toggle = f.toggle

LEMMA Belated ==
  ASSUME NEW q \in Seq(Frames)
  PROVE  LET p == [j \in DOMAIN q |-> [q[j] EXCEPT !.late = TRUE]]
         IN /\ p \in Seq(Frames) /\ Len(p) = Len(q)
            /\ Ordered(q) => Ordered(p)
            /\ \A g \in Queued(p) : g.late /\ \E f \in Queued(q) : Alike(f, g)
<1> DEFINE p == [j \in DOMAIN q |-> [q[j] EXCEPT !.late = TRUE]]
<1>1. DOMAIN q = 1..Len(q) /\ Len(q) \in Nat /\ \A j \in 1..Len(q) : q[j] \in Frames
  BY InQueue
<1>2. ASSUME NEW f \in Frames
      PROVE  LET g == [f EXCEPT !.late = TRUE] IN g \in Frames /\ Alike(f, g) /\ g.late
  BY DEF Frames, Alike
<1>3. \A j \in 1..Len(q) : p[j] \in Frames /\ Alike(q[j], p[j]) /\ p[j].late
  BY <1>1, <1>2
<1>4. p \in Seq(Frames) /\ Len(p) = Len(q)
  <2>1. p = [j \in 1..Len(q) |-> p[j]]
    BY <1>1
  <2> HIDE DEF p
  <2>2. p \in [1..Len(q) -> Frames]
    BY <1>3, <2>1
  <2>3. p \in Seq(Frames)
    BY <1>1, <2>2
  <2> QED
    BY <1>1, <2>2, <2>3
<1> HIDE DEF p
<1>5. Ordered(q) => Ordered(p)
  BY <1>3, <1>4 DEF Ordered, Precedes, Alike
<1>6. \A g \in Queued(p) : g.late /\ \E f \in Queued(q) : Alike(f, g)
  BY <1>3, <1>4 DEF Queued
<1> QED
  BY <1>4, <1>5, <1>6 DEF p

-----------------------------------------------------------------------------
(* The inductive invariant.                                                *)

TransferTyped ==
  /\ canard \in [Nodes -> Instances]
  /\ tid \in [Sessions -> TidSet] /\ begun \in [Sessions -> Nat]
  /\ last \in [Sessions -> [n : Nat, times : Nat, long : BOOLEAN]]
  /\ arrived \in [Sessions -> [n : Nat, k : Nat]]
  /\ missed \in [Sessions -> [n : Nat, count : Nat]]
  /\ \A s \in Sessions :
       last[s].n <= begun[s] /\ missed[s].n <= begun[s] /\ arrived[s].n <= begun[s]

(* The blocks of an instance's pool are free, queued or held.              *)
Settled(i) ==
  /\ IsFiniteSet(HeldBy(i, DOMAIN i.rx))
  /\ i.free + Len(i.txq) + BlocksHeld(i, DOMAIN i.rx) = Pool

(* A queued frame is one of a transfer that the receiver has not had yet.  *)
Sound(f, m) ==
  /\ f.session[1] = m
  /\ f.k >= 1 /\ f.n >= 1 /\ f.n <= begun[f.session]
  /\ f.sot <=> f.k = 1
  /\ f.toggle = (f.k - 1) % 2
  /\ f.n > last[f.session].n /\ f.n > missed[f.session].n
  /\ f.eot /\ f.n = begun[f.session] => tid[f.session] = IncrementTransferID(f.tid)

(* Two frames of a session: the ids and the end of their transfers.        *)
Agree(f, g) ==
  f.session = g.session =>
    /\ f.n = g.n => f.tid = g.tid /\ (f.eot => g.k <= f.k)
    /\ f.eot /\ g.n = f.n + 1 => g.tid = IncrementTransferID(f.tid)

QueueSound(m) ==
  /\ Ordered(canard[m].txq)
  /\ \A f \in Queued(canard[m].txq) : Sound(f, m)
  /\ \A f, g \in Queued(canard[m].txq) : Agree(f, g)

(* Whole arrivals missed just before transfer n.                           *)
MissedBefore(s, n) == IF missed[s].n = n - 1 THEN missed[s].count ELSE 0

(* The state r of a session whose transfer, of id t, came in whole up to   *)
(* frame a.k after c misses: it has it all, or took up its toggle          *)
(* somewhere, or waits for the next.                                       *)
Follows(r, t, a, c) ==
  \/ r.tid = t /\ r.toggle = a.k % 2 /\ r.n = a.n /\ r.k = a.k
  \/ r.tid = t /\ r.toggle = a.k % 2 /\ c <= 1
  \/ r.tid = IncrementTransferID(t) /\ c = 0

Following(s) ==
  \A g \in Queued(canard[s[1]].txq) :
    g.session = s /\ ~g.late /\ arrived[s].k > 0 /\ g.n = arrived[s].n =>
      /\ s \in DOMAIN canard[Other(s[1])].rx /\ canard[Other(s[1])].rx[s].age # 2
      /\ Follows(canard[Other(s[1])].rx[s], g.tid, arrived[s], MissedBefore(s, arrived[s].n))

(* After a miss a state in use waits for the next transfer, after a second *)
(* one for its first frame.                                                *)
Waits(r, t, c) == r.tid = t /\ (c = 2 => r.toggle = 0)

AfterMiss(s) ==
  missed[s].count > 0 /\ s \in DOMAIN canard[Other(s[1])].rx /\ canard[Other(s[1])].rx[s].age # 2 =>
    /\ \A g \in Queued(canard[s[1]].txq) :
         g.session = s /\ g.n = missed[s].n + 1 /\ g.k = 1 =>
           Waits(canard[Other(s[1])].rx[s], g.tid, missed[s].count)
    /\ begun[s] = missed[s].n => Waits(canard[Other(s[1])].rx[s], tid[s], missed[s].count)

SessionSound(s) == Following(s) /\ AfterMiss(s) /\ missed[s].count <= 2

TransferInv ==
  /\ TransferTyped
  /\ \A m \in Nodes : Settled(canard[m])
  /\ \A m \in Nodes : QueueSound(m)
  /\ \A s \in Sessions : SessionSound(s)

LEMMA TypedFields ==
  ASSUME TransferTyped
  PROVE  /\ \A m \in Nodes : canard[m] \in Instances
         /\ \A s \in Sessions :
              /\ tid[s] \in TidSet /\ begun[s] \in Nat
              /\ last[s].n \in Nat /\ last[s].times \in Nat
              /\ arrived[s].n \in Nat /\ arrived[s].k \in Nat
              /\ missed[s].n \in Nat /\ missed[s].count \in Nat
              /\ last[s].n <= begun[s] /\ missed[s].n <= begun[s] /\ arrived[s].n <= begun[s]
BY DEF TransferTyped

LEMMA FrameFields ==
  ASSUME NEW f \in Frames
  PROVE  /\ f.session \in Sessions /\ f.n \in Nat /\ f.k \in Nat /\ f.tid \in TidSet
         /\ f.sot \in BOOLEAN /\ f.eot \in BOOLEAN /\ f.toggle \in 0..1 /\ f.late \in BOOLEAN
BY DEF Frames

LEMMA SoundFields ==
  ASSUME TransferInv, NEW m \in Nodes, NEW f \in Queued(canard[m].txq)
  PROVE  f \in Frames /\ Sound(f, m)
<1>1. canard[m].txq \in Seq(Frames)
  BY TypedFields, Instance DEF TransferInv
<1> QED
  BY <1>1, InQueue DEF TransferInv, QueueSound

-----------------------------------------------------------------------------
(* Steps that send and receive nothing: frames leave the queues or become  *)
(* late, sessions grow old or are forgotten.                               *)

StateKept(r, q) ==
  q.tid = r.tid /\ q.toggle = r.toggle /\ q.n = r.n /\ q.k = r.k /\ (r.age = 2 => q.age = 2)

FewerFrames(m) ==
  \A g \in Queued(canard[m].txq)' :
    \E f \in Queued(canard[m].txq) : Alike(f, g) /\ (f.late => g.late)

FewerStates(m) ==
  \A x \in DOMAIN canard'[m].rx :
    x \in DOMAIN canard[m].rx /\ StateKept(canard[m].rx[x], canard'[m].rx[x])

(* What was followed still is, or no frame of it can come.                 *)
NotLost(s) ==
  \/ arrived'[s].k = 0
  \/ /\ arrived'[s] = arrived[s]
     /\ \A g \in Queued(canard[s[1]].txq)' : g.late
  \/ /\ arrived'[s] = arrived[s]
     /\ s \in DOMAIN canard[Other(s[1])].rx /\ canard[Other(s[1])].rx[s].age # 2 =>
          s \in DOMAIN canard'[Other(s[1])].rx /\ canard'[Other(s[1])].rx[s].age # 2

Quiet ==
  /\ UNCHANGED <<tid, begun, last, missed>>
  /\ canard' \in [Nodes -> Instances] /\ arrived' \in [Sessions -> [n : Nat, k : Nat]]
  /\ \A s \in Sessions : arrived'[s] = arrived[s] \/ arrived'[s] = [n |-> 0, k |-> 0]
  /\ \A m \in Nodes :
       Settled(canard[m])' /\ Ordered(canard[m].txq)' /\ FewerFrames(m) /\ FewerStates(m)
  /\ \A s \in Sessions : NotLost(s)

LEMMA QuietTyped ==
  ASSUME TransferInv, Quiet
  PROVE  TransferTyped'
<1>1. TransferTyped
  BY DEF TransferInv
<1>2. \A s \in Sessions : arrived'[s].n <= begun[s]
  <2> TAKE s \in Sessions
  <2>1. arrived[s].n <= begun[s] /\ begun[s] \in Nat
    BY <1>1, TypedFields
  <2>2. arrived'[s] = arrived[s] \/ arrived'[s] = [n |-> 0, k |-> 0]
    BY DEF Quiet
  <2>3. CASE arrived'[s] = arrived[s]
    BY <2>1, <2>3
  <2>4. CASE arrived'[s] = [n |-> 0, k |-> 0]
    BY <2>1, <2>4
  <2> QED
    BY <2>2, <2>3, <2>4
<1> QED
  BY <1>1, <1>2 DEF TransferTyped, Quiet

LEMMA QuietQueues ==
  ASSUME TransferInv, Quiet, NEW m \in Nodes
  PROVE  QueueSound(m)'
<1>1. Ordered(canard[m].txq)' /\ FewerFrames(m) /\ UNCHANGED <<tid, begun, last, missed>>
  BY DEF Quiet
<1>2. /\ \A f \in Queued(canard[m].txq) : Sound(f, m)
      /\ \A f, g \in Queued(canard[m].txq) : Agree(f, g)
  BY DEF TransferInv, QueueSound
<1>3. ASSUME NEW f, NEW g, Alike(f, g), Sound(f, m) PROVE Sound(g, m)'
  BY <1>1, <1>3 DEF Alike, Sound
<1>4. ASSUME NEW f, NEW g, NEW a, NEW b, Alike(f, a), Alike(g, b), Agree(f, g)
      PROVE  Agree(a, b)'
  BY <1>4 DEF Alike, Agree
<1>5. \A g \in Queued(canard[m].txq)' : Sound(g, m)'
  BY <1>1, <1>2, <1>3 DEF FewerFrames
<1>6. ASSUME NEW a \in Queued(canard[m].txq)', NEW b \in Queued(canard[m].txq)' PROVE Agree(a, b)'
  <2>1. PICK f \in Queued(canard[m].txq) : Alike(f, a)
    BY <1>1, <1>6 DEF FewerFrames
  <2>2. PICK g \in Queued(canard[m].txq) : Alike(g, b)
    BY <1>1, <1>6 DEF FewerFrames
  <2>3. Agree(f, g)
    BY <1>2, <2>1, <2>2
  <2> QED
    BY <1>4, <2>1, <2>2, <2>3
<1> QED
  BY <1>1, <1>5, <1>6 DEF QueueSound

LEMMA QuietSessions ==
  ASSUME TransferInv, Quiet, NEW s \in Sessions
  PROVE  SessionSound(s)'
<1> DEFINE m == s[1]
           r == canard[Other(s[1])].rx[s]
           q == canard'[Other(s[1])].rx[s]
<1>0. m \in Nodes /\ Other(m) \in Nodes
  BY Sender, OtherNode
<1>1. /\ FewerFrames(m) /\ FewerStates(Other(m)) /\ NotLost(s)
      /\ UNCHANGED <<tid, begun, last, missed>>
  BY <1>0 DEF Quiet
<1>2. Following(s) /\ AfterMiss(s) /\ missed[s].count <= 2
  BY DEF TransferInv, SessionSound
<1>3. s \in DOMAIN canard'[Other(s[1])].rx => s \in DOMAIN canard[Other(s[1])].rx /\ StateKept(r, q)
  BY <1>1 DEF FewerStates
<1>4. Following(s)'
  <2> SUFFICES ASSUME NEW g \in Queued(canard[m].txq)', g.session = s, ~g.late,
                      arrived'[s].k > 0, g.n = arrived'[s].n
               PROVE  /\ s \in DOMAIN canard'[Other(s[1])].rx /\ q.age # 2
                      /\ Follows(q, g.tid, arrived'[s], MissedBefore(s, arrived[s].n)')
    BY DEF Following
  <2>1. PICK f \in Queued(canard[m].txq) : Alike(f, g) /\ (f.late => g.late)
    BY <1>1 DEF FewerFrames
  <2>2. arrived'[s].k # 0
    OBVIOUS
  <2>3. /\ arrived'[s] = arrived[s]
        /\ s \in DOMAIN canard[Other(s[1])].rx /\ r.age # 2 =>
             s \in DOMAIN canard'[Other(s[1])].rx /\ q.age # 2
    BY <1>1, <2>2 DEF NotLost
  <2>4. f.session = s /\ ~f.late /\ arrived[s].k > 0 /\ f.n = arrived[s].n /\ f.tid = g.tid
    BY <2>1, <2>3 DEF Alike
  <2>5. /\ s \in DOMAIN canard[Other(s[1])].rx /\ r.age # 2
        /\ Follows(r, g.tid, arrived[s], MissedBefore(s, arrived[s].n))
    BY <1>2, <2>4 DEF Following
  <2>6. s \in DOMAIN canard'[Other(s[1])].rx /\ q.age # 2 /\ StateKept(r, q)
    BY <1>3, <2>3, <2>5
  <2> HIDE DEF q, r
  <2>7. Follows(q, g.tid, arrived[s], MissedBefore(s, arrived[s].n))
    BY <2>5, <2>6 DEF Follows, StateKept
  <2>8. MissedBefore(s, arrived[s].n)' = MissedBefore(s, arrived[s].n)
    BY <1>1, <2>3 DEF MissedBefore
  <2> QED
    BY <2>3, <2>6, <2>7, <2>8 DEF q
<1>5. AfterMiss(s)'
  <2> SUFFICES ASSUME missed[s].count > 0, s \in DOMAIN canard'[Other(s[1])].rx, q.age # 2
               PROVE  /\ \A g \in Queued(canard[m].txq)' :
                           g.session = s /\ g.n = missed[s].n + 1 /\ g.k = 1
                             => Waits(q, g.tid, missed[s].count)
                      /\ begun[s] = missed[s].n => Waits(q, tid[s], missed[s].count)
    BY <1>1 DEF AfterMiss, Waits
  <2>1. s \in DOMAIN canard[Other(s[1])].rx /\ StateKept(r, q)
    BY <1>3
  <2>2. r.age # 2
    BY <2>1 DEF StateKept
  <2>3. /\ \A g \in Queued(canard[m].txq) :
             g.session = s /\ g.n = missed[s].n + 1 /\ g.k = 1 =>
               Waits(r, g.tid, missed[s].count)
        /\ begun[s] = missed[s].n => Waits(r, tid[s], missed[s].count)
    BY <1>2, <2>1, <2>2 DEF AfterMiss
  <2> HIDE DEF q, r
  <2>4. \A t, c : Waits(r, t, c) => Waits(q, t, c)
    BY <2>1 DEF Waits, StateKept
  <2> QED
    BY <1>1, <2>3, <2>4 DEF FewerFrames, Alike
<1> QED
  BY <1>1, <1>2, <1>4, <1>5 DEF SessionSound

LEMMA QuietKeeps ==
  ASSUME TransferInv, Quiet
  PROVE  TransferInv'
<1>1. \A m \in Nodes : Settled(canard[m])'
  BY DEF Quiet
<1> QED
  BY <1>1, QuietTyped, QuietQueues, QuietSessions DEF TransferInv

LEMMA AlikeSelf ==
  ASSUME NEW f
  PROVE  Alike(f, f)
BY DEF Alike

(* One node's instance becomes j: it loses frames, and states.             *)
LEMMA OneNode ==
  ASSUME TransferInv, NEW m \in Nodes, NEW j \in Instances,
         canard' = [canard EXCEPT ![m] = j], UNCHANGED <<tid, begun, last, missed>>,
         Settled(j), Ordered(j.txq), Queued(j.txq) \subseteq Queued(canard[m].txq),
         \A x \in DOMAIN j.rx : x \in DOMAIN canard[m].rx /\ j.rx[x] = canard[m].rx[x],
         arrived' \in [Sessions -> [n : Nat, k : Nat]],
         \A s \in Sessions :
           \/ arrived'[s] = [n |-> 0, k |-> 0]
           \/ /\ arrived'[s] = arrived[s]
              /\ Other(s[1]) = m =>
                   \A x \in DOMAIN canard[m].rx : canard[m].rx[x].age # 2 => x \in DOMAIN j.rx
  PROVE  Quiet
<1>1. canard \in [Nodes -> Instances]
  BY DEF TransferInv, TransferTyped
<1>2. canard' \in [Nodes -> Instances] /\ canard'[m] = j
      /\ \A o \in Nodes : o # m => canard'[o] = canard[o]
  BY <1>1
<1>3. ASSUME NEW o \in Nodes
      PROVE  Settled(canard[o])' /\ Ordered(canard[o].txq)' /\ FewerFrames(o) /\ FewerStates(o)
  <2>1. CASE o = m
    <3>1. FewerFrames(m)
      BY <1>2, AlikeSelf DEF FewerFrames
    <3>2. FewerStates(m)
      BY <1>2 DEF FewerStates, StateKept
    <3>3. Settled(canard'[m]) /\ Ordered(canard'[m].txq)
      BY <1>2
    <3>4. Settled(canard[m])' /\ Ordered(canard[m].txq)'
      BY <3>3 DEF Settled, Ordered, HeldBy, BlocksHeld, Precedes
    <3> QED
      BY <2>1, <3>1, <3>2, <3>4
  <2>2. CASE o # m
    <3>1. canard'[o] = canard[o]
      BY <1>2, <2>2
    <3>2. FewerFrames(o) /\ FewerStates(o)
      BY <3>1, AlikeSelf DEF FewerFrames, FewerStates, StateKept
    <3>3. Settled(canard[o]) /\ Ordered(canard[o].txq)
      BY DEF TransferInv, QueueSound
    <3>5. Settled(canard'[o]) /\ Ordered(canard'[o].txq)
      BY <3>1, <3>3
    <3>4. Settled(canard[o])' /\ Ordered(canard[o].txq)'
      BY <3>5 DEF Settled, Ordered, HeldBy, BlocksHeld, Precedes
    <3> QED
      BY <3>2, <3>4
  <2> QED
    BY <2>1, <2>2
<1>4. ASSUME NEW s \in Sessions PROVE NotLost(s)
  <2>0. Other(s[1]) \in Nodes
    BY Sender, OtherNode
  <2>1. CASE arrived'[s] = [n |-> 0, k |-> 0]
    BY <2>1 DEF NotLost
  <2>2. CASE arrived'[s] # [n |-> 0, k |-> 0]
    <3>1. /\ arrived'[s] = arrived[s]
          /\ Other(s[1]) = m =>
               \A x \in DOMAIN canard[m].rx : canard[m].rx[x].age # 2 => x \in DOMAIN j.rx
      BY <2>2
    <3>2. s \in DOMAIN canard[Other(s[1])].rx /\ canard[Other(s[1])].rx[s].age # 2 =>
            s \in DOMAIN canard'[Other(s[1])].rx /\ canard'[Other(s[1])].rx[s].age # 2
      <4>1. CASE Other(s[1]) = m
        BY <1>2, <3>1, <4>1
      <4>2. CASE Other(s[1]) # m
        BY <1>2, <2>0, <4>2
      <4> QED
        BY <4>1, <4>2
    <3> QED
      BY <3>1, <3>2 DEF NotLost
  <2> QED
    BY <2>1, <2>2
<1> QED
  BY <1>2, <1>3, <1>4 DEF Quiet

LEMMA InstanceOf ==
  ASSUME TransferInv, NEW m \in Nodes
  PROVE  /\ canard[m] \in Instances /\ Settled(canard[m]) /\ canard[m].txq \in Seq(Frames)
         /\ Ordered(canard[m].txq) /\ canard[m].free \in Nat /\ Len(canard[m].txq) \in Nat
         /\ canard[m].rx \in RxMaps
         /\ arrived \in [Sessions -> [n : Nat, k : Nat]]
<1>1. canard[m] \in Instances /\ Settled(canard[m]) /\ Ordered(canard[m].txq)
      /\ arrived \in [Sessions -> [n : Nat, k : Nat]]
  BY DEF TransferInv, TransferTyped, QueueSound
<1>2. canard[m].txq \in Seq(Frames) /\ canard[m].free \in Nat /\ canard[m].rx \in RxMaps
  BY <1>1, Instance
<1> QED
  BY <1>1, <1>2

LEMMA PoppedInstance ==
  ASSUME NEW i \in Instances, i.txq # <<>>, Settled(i)
  PROVE  LET j == PopTxQueue(i)
         IN j \in Instances /\ j.rx = i.rx /\ j.txq = Tail(i.txq) /\ Settled(j)
<1> DEFINE t == Tail(i.txq)
           f == i.free + 1
           j == PopTxQueue(i)
           h == BlocksHeld(i, DOMAIN i.rx)
<1>1. i.txq \in Seq(Frames) /\ i.free \in Nat
  BY Instance
<1>2. t \in Seq(Frames) /\ Len(t) = Len(i.txq) - 1 /\ Len(i.txq) \in Nat
  BY <1>1, Popped
<1>3. j = [i EXCEPT !.txq = t, !.free = f]
  BY DEF PopTxQueue
<1>4. f \in Nat
  BY <1>1
<1>5. f + Len(t) = i.free + Len(i.txq)
  BY <1>1, <1>2
<1> HIDE DEF t, f, j
<1>6. j \in Instances /\ j.rx = i.rx /\ j.txq = t /\ j.free = f
  BY <1>2, <1>3, <1>4 DEF Instances
<1>7. /\ IsFiniteSet(HeldBy(j, DOMAIN j.rx)) /\ BlocksHeld(j, DOMAIN j.rx) = h
      /\ i.free + Len(i.txq) + h = Pool
  BY <1>6 DEF Settled, HeldBy, BlocksHeld
<1> HIDE DEF h
<1>8. Settled(j)
  BY <1>5, <1>6, <1>7 DEF Settled
<1> QED
  BY <1>6, <1>8 DEF j, t

LEMMA DropLateQuiet ==
  ASSUME TransferInv, NEW m \in Nodes, DropLate(m)
  PROVE  Quiet
<1> DEFINE i == canard[m]
           j == PopTxQueue(i)
<1>1. i \in Instances /\ Settled(i) /\ i.txq \in Seq(Frames) /\ Ordered(i.txq)
      /\ arrived \in [Sessions -> [n : Nat, k : Nat]]
  BY InstanceOf
<1>2. i.txq # <<>> /\ canard' = [canard EXCEPT ![m] = j]
      /\ UNCHANGED <<tid, begun, last, arrived, missed>>
  BY DEF DropLate
<1> HIDE DEF i
<1>3. j \in Instances /\ j.rx = i.rx /\ j.txq = Tail(i.txq) /\ Settled(j)
  BY <1>1, <1>2, PoppedInstance
<1>4. Ordered(j.txq) /\ Queued(j.txq) \subseteq Queued(i.txq)
  BY <1>1, <1>2, <1>3, Popped
<1> HIDE DEF j
<1> QED
  BY <1>1, <1>2, <1>3, <1>4, OneNode DEF i

LEMMA ClearQuiet ==
  ASSUME TransferInv, NEW m \in Nodes, ClearTxQueue(m)
  PROVE  Quiet
<1> DEFINE i == canard[m]
           f == i.free + Len(i.txq)
           j == [i EXCEPT !.txq = <<>>, !.free = f]
           h == BlocksHeld(i, DOMAIN i.rx)
<1>1. i \in Instances /\ Settled(i) /\ i.free \in Nat /\ Len(i.txq) \in Nat
      /\ arrived \in [Sessions -> [n : Nat, k : Nat]] /\ canard \in [Nodes -> Instances]
  BY InstanceOf DEF TransferInv, TransferTyped
<1>2. canard' = [canard EXCEPT ![m] = j] /\ UNCHANGED <<tid, begun, last, arrived, missed>>
  BY <1>1 DEF ClearTxQueue
<1>3. f \in Nat
  BY <1>1
<1> HIDE DEF i, f
<1>4. j \in Instances /\ j.rx = i.rx /\ j.txq = <<>> /\ j.free = f
  BY <1>1, <1>3, Emptied DEF Instances
<1> HIDE DEF j
<1>5. Settled(j)
  <2>1. /\ IsFiniteSet(HeldBy(j, DOMAIN j.rx)) /\ BlocksHeld(j, DOMAIN j.rx) = h
        /\ i.free + Len(i.txq) + h = Pool
    BY <1>1, <1>4 DEF Settled, HeldBy, BlocksHeld
  <2>2. j.free + Len(j.txq) = f
    BY <1>3, <1>4, Emptied
  <2> HIDE DEF h
  <2>3. f + h = Pool
    BY <2>1 DEF f
  <2> QED
    BY <2>1, <2>2, <2>3 DEF Settled
<1>6. Ordered(j.txq) /\ Queued(j.txq) = {}
  BY <1>4, Emptied
<1> QED
  BY <1>1, <1>2, <1>4, <1>5, <1>6, OneNode DEF i

LEMMA FreshInstance ==
  FreshCanard \in Instances /\ FreshCanard.txq = <<>> /\ DOMAIN FreshCanard.rx = {}
  /\ Settled(FreshCanard)
<1> DEFINE e == <<>>
<1>1. e \in RxMaps /\ DOMAIN e = {} /\ e \in Seq(Frames)
  <2>1. e \in [{} -> RxStates] /\ {} \in SUBSET Sessions /\ DOMAIN e = {}
    OBVIOUS
  <2> QED
    BY <2>1, Emptied DEF RxMaps
<1>2. Pool \in Nat
  BY Sizes
<1>3. FreshCanard = [free |-> Pool, txq |-> e, rx |-> e]
  BY DEF FreshCanard
<1> HIDE DEF e
<1>4. FreshCanard \in Instances /\ FreshCanard.txq = e /\ FreshCanard.rx = e /\ FreshCanard.free = Pool
  BY <1>1, <1>2, <1>3 DEF Instances
<1>5. HeldBy(FreshCanard, {}) = {}
  BY DEF HeldBy
<1>6. IsFiniteSet(HeldBy(FreshCanard, {})) /\ BlocksHeld(FreshCanard, {}) = 0
  BY <1>5, FS_EmptySet, HeldCounted
<1>7. Len(e) = 0
  BY DEF e
<1>8. Settled(FreshCanard)
  BY <1>1, <1>2, <1>4, <1>6, <1>7 DEF Settled
<1> QED
  BY <1>1, <1>4, <1>8 DEF e

LEMMA RecoverQuiet ==
  ASSUME TransferInv, NEW m \in Nodes, Recover(m)
  PROVE  Quiet
<1>1. arrived \in [Sessions -> [n : Nat, k : Nat]]
  BY InstanceOf
<1>2. /\ canard' = [canard EXCEPT ![m] = FreshCanard] /\ UNCHANGED <<tid, begun, last, missed>>
      /\ arrived' = [s \in Sessions |-> IF s[1] = m THEN arrived[s] ELSE [n |-> 0, k |-> 0]]
  BY DEF Recover
<1>3. arrived' \in [Sessions -> [n : Nat, k : Nat]]
  BY <1>1, <1>2
<1>4. \A s \in Sessions : arrived'[s] = [n |-> 0, k |-> 0]
                          \/ (arrived'[s] = arrived[s] /\ Other(s[1]) # m)
  <2> TAKE s \in Sessions
  <2>1. s[1] = m => Other(s[1]) # m
    BY OtherNode
  <2> QED
    BY <1>2, <2>1
<1>5. Ordered(FreshCanard.txq) /\ Queued(FreshCanard.txq) = {}
  BY FreshInstance, Emptied
<1> QED
  BY <1>2, <1>3, <1>4, <1>5, FreshInstance, OneNode

LEMMA ForgottenStates ==
  ASSUME NEW rx \in RxMaps, NEW S
  PROVE  LET q == Restrict(rx, DOMAIN rx \ S)
         IN /\ q \in RxMaps /\ DOMAIN q = DOMAIN rx \ S
            /\ \A x \in DOMAIN rx \ S : q[x] = rx[x]
<1> DEFINE D == DOMAIN rx \ S
           q == Restrict(rx, D)
<1>1. DOMAIN rx \subseteq Sessions /\ \A s \in DOMAIN rx : rx[s] \in RxStates
  BY RxMap
<1>2. q = [x \in D |-> rx[x]]
  BY DEF Restrict
<1>3. D \in SUBSET Sessions /\ q \in [D -> RxStates] /\ DOMAIN q = D
      /\ \A x \in D : q[x] = rx[x]
  BY <1>1, <1>2
<1> HIDE DEF D, q
<1>4. q \in RxMaps
  BY <1>3 DEF RxMaps
<1> QED
  BY <1>3, <1>4 DEF D, q

LEMMA CleanupQuiet ==
  ASSUME TransferInv, NEW m \in Nodes, CleanupStaleTransfers(m)
  PROVE  Quiet
<1> DEFINE i == canard[m]
           D == DOMAIN i.rx
           stale == {s \in D : i.rx[s].age = 2}
           kept == Punctual(i.txq)
           rx == Restrict(i.rx, D \ stale)
           f == i.free + BlocksHeld(i, stale) + Len(i.txq) - Len(kept)
           j == [free |-> f, txq |-> kept, rx |-> rx]
<1>1. /\ i \in Instances /\ Settled(i) /\ i.free \in Nat /\ Len(i.txq) \in Nat
      /\ i.txq \in Seq(Frames) /\ Ordered(i.txq) /\ i.rx \in RxMaps
      /\ arrived \in [Sessions -> [n : Nat, k : Nat]]
  BY InstanceOf
<1>2. canard' = [canard EXCEPT ![m] = j] /\ UNCHANGED <<tid, begun, last, arrived, missed>>
  <2>1. canard \in [Nodes -> Instances]
    BY DEF TransferInv, TransferTyped
  <2> QED
    BY <2>1 DEF CleanupStaleTransfers
<1>3. stale \subseteq D /\ \A x \in D : i.rx[x].age # 2 => x \notin stale
  OBVIOUS
<1> HIDE DEF i, stale
<1>4. /\ kept \in Seq(Frames) /\ Len(kept) <= Len(i.txq) /\ Ordered(kept)
      /\ Queued(kept) \subseteq Queued(i.txq)
  BY <1>1, PunctualKeeps
<1>5. rx \in RxMaps /\ DOMAIN rx = D \ stale /\ \A x \in D \ stale : rx[x] = i.rx[x]
  BY <1>1, ForgottenStates
<1>6. /\ IsFiniteSet(HeldBy(i, D \ stale)) /\ BlocksHeld(i, stale) \in Nat
      /\ BlocksHeld(i, D \ stale) \in Nat
      /\ BlocksHeld(i, D) = BlocksHeld(i, stale) + BlocksHeld(i, D \ stale)
  <2>1. IsFiniteSet(HeldBy(i, D))
    BY <1>1 DEF Settled
  <2> HIDE DEF D
  <2> QED
    BY <1>3, <2>1, HeldByFewer
<1> HIDE DEF kept, rx
<1>7. Len(kept) \in Nat /\ f \in Nat
  <2>1. Len(kept) \in Nat
    BY <1>4
  <2> DEFINE b == BlocksHeld(i, stale)
  <2>2. b \in Nat
    BY <1>6
  <2> HIDE DEF b
  <2>3. i.free + b + Len(i.txq) - Len(kept) \in Nat
    BY <1>1, <1>4, <2>1, <2>2
  <2> QED
    BY <2>1, <2>3 DEF b
<1>8. j \in Instances /\ j.rx = rx /\ j.txq = kept /\ j.free = f
  <2> HIDE DEF f
  <2> QED
    BY <1>4, <1>5, <1>7 DEF Instances
<1> HIDE DEF j
<1>9. Settled(j)
  <2>1. \A x \in D \ stale : i.rx[x].blocks = j.rx[x].blocks
    BY <1>5, <1>8
  <2>2. HeldBy(i, D \ stale) = HeldBy(j, D \ stale) /\ BlocksHeld(i, D \ stale) = BlocksHeld(j, D \ stale)
    <3> HIDE DEF D
    <3> QED
      BY <2>1, HeldAlike
  <2>3. i.free + Len(i.txq) + BlocksHeld(i, D) = Pool
    BY <1>1 DEF Settled
  <2> DEFINE b == BlocksHeld(i, stale)
             c == BlocksHeld(j, D \ stale)
             l == Len(kept)
  <2>4. b \in Nat /\ c \in Nat /\ i.free + Len(i.txq) + (b + c) = Pool /\ l \in Nat
        /\ j.free = i.free + b + Len(i.txq) - l /\ Len(j.txq) = l
    BY <1>6, <1>7, <1>8, <2>2, <2>3
  <2>5. DOMAIN j.rx = D \ stale
    BY <1>5, <1>8
  <2>6. IsFiniteSet(HeldBy(j, DOMAIN j.rx)) /\ BlocksHeld(j, DOMAIN j.rx) = c
    BY <1>6, <2>2, <2>5
  <2> HIDE DEF b, c, l
  <2>7. j.free + Len(j.txq) + c = Pool
    BY <1>1, <2>4
  <2> QED
    BY <2>6, <2>7 DEF Settled
<1>10. \A x \in DOMAIN j.rx : x \in D /\ j.rx[x] = i.rx[x]
  BY <1>5, <1>8
<1>11. \A x \in D : i.rx[x].age # 2 => x \in DOMAIN j.rx
  BY <1>3, <1>5, <1>8
<1>12. Ordered(j.txq) /\ Queued(j.txq) \subseteq Queued(i.txq)
  BY <1>4, <1>8
<1> QED
  BY <1>1, <1>2, <1>8, <1>9, <1>10, <1>11, <1>12, OneNode DEF i

LEMMA AgedState ==
  ASSUME NEW r \in RxStates
  PROVE  Aged(r) \in RxStates /\ StateKept(r, Aged(r)) /\ Aged(r).blocks = r.blocks
<1> DEFINE a == IF r.age = 2 THEN 2 ELSE r.age + 1
<1>1. a \in 0..2 /\ (r.age = 2 => a = 2)
  BY RxState
<1>2. Aged(r) = [r EXCEPT !.age = a]
  BY DEF Aged
<1> HIDE DEF a
<1>3. LET q == [r EXCEPT !.age = a]
      IN /\ q \in RxStates /\ q.blocks = r.blocks /\ q.tid = r.tid /\ q.age = a
         /\ q.toggle = r.toggle /\ q.n = r.n /\ q.k = r.k
  BY <1>1, SetOnlyAge
<1> QED
  BY <1>1, <1>2, <1>3 DEF StateKept

LEMMA OlderInstance ==
  ASSUME NEW i \in Instances, Settled(i), Ordered(i.txq)
  PROVE  LET j == [i EXCEPT !.txq = [p \in DOMAIN @ |-> [@[p] EXCEPT !.late = TRUE]],
                            !.rx = [s \in DOMAIN @ |-> Aged(@[s])]]
         IN /\ j \in Instances /\ Settled(j) /\ Ordered(j.txq)
            /\ \A g \in Queued(j.txq) : g.late /\ \E f \in Queued(i.txq) : Alike(f, g)
            /\ \A x \in DOMAIN j.rx : x \in DOMAIN i.rx /\ StateKept(i.rx[x], j.rx[x])
<1> DEFINE q == [p \in DOMAIN i.txq |-> [i.txq[p] EXCEPT !.late = TRUE]]
           rx == [s \in DOMAIN i.rx |-> Aged(i.rx[s])]
           j == [i EXCEPT !.txq = [p \in DOMAIN @ |-> [@[p] EXCEPT !.late = TRUE]],
                          !.rx = [s \in DOMAIN @ |-> Aged(@[s])]]
           D == DOMAIN i.rx
<1>1. /\ i.txq \in Seq(Frames) /\ i.rx \in RxMaps /\ D \subseteq Sessions
      /\ \A s \in D : i.rx[s] \in RxStates
  BY Instance
<1>2. j = [i EXCEPT !.txq = q, !.rx = rx]
  OBVIOUS
<1>3. /\ q \in Seq(Frames) /\ Len(q) = Len(i.txq) /\ Ordered(q)
      /\ \A g \in Queued(q) : g.late /\ \E f \in Queued(i.txq) : Alike(f, g)
  BY <1>1, Belated
<1>4. /\ DOMAIN rx = D
      /\ \A x \in D : rx[x] \in RxStates /\ StateKept(i.rx[x], rx[x])
                      /\ rx[x].blocks = i.rx[x].blocks
  BY <1>1, AgedState
<1>5. rx \in RxMaps
  <2>1. rx = [x \in D |-> rx[x]]
    OBVIOUS
  <2> HIDE DEF rx
  <2>2. rx \in [D -> RxStates] /\ D \in SUBSET Sessions
    BY <1>1, <1>4, <2>1
  <2> HIDE DEF D
  <2> QED
    BY <2>2 DEF RxMaps
<1> HIDE DEF q, rx, j
<1>6. j \in Instances /\ j.txq = q /\ j.rx = rx /\ j.free = i.free
  BY <1>2, <1>3, <1>5 DEF Instances
<1>7. Settled(j)
  <2>1. \A x \in D : i.rx[x].blocks = j.rx[x].blocks
    BY <1>4, <1>6
  <2>2. HeldBy(i, D) = HeldBy(j, D) /\ BlocksHeld(i, D) = BlocksHeld(j, D)
    <3> HIDE DEF D
    <3> QED
      BY <2>1, HeldAlike
  <2> QED
    BY <1>3, <1>4, <1>6, <2>2 DEF Settled
<1> QED
  BY <1>3, <1>4, <1>6, <1>7 DEF j

LEMMA WaitQuiet ==
  ASSUME TransferInv, Wait
  PROVE  Quiet
<1> DEFINE Older(i) == [i EXCEPT !.txq = [p \in DOMAIN @ |-> [@[p] EXCEPT !.late = TRUE]],
                                 !.rx = [s \in DOMAIN @ |-> Aged(@[s])]]
<1>1. /\ canard' = [m \in Nodes |-> Older(canard[m])]
      /\ UNCHANGED <<tid, begun, last, arrived, missed>>
  BY DEF Wait
<1>2. arrived \in [Sessions -> [n : Nat, k : Nat]]
  BY DEF TransferInv, TransferTyped
<1>3. ASSUME NEW m \in Nodes
      PROVE  LET i == canard[m]
                 j == canard'[m]
             IN /\ j \in Instances /\ Settled(j) /\ Ordered(j.txq)
                /\ \A g \in Queued(j.txq) : g.late /\ \E f \in Queued(i.txq) : Alike(f, g)
                /\ \A x \in DOMAIN j.rx : x \in DOMAIN i.rx /\ StateKept(i.rx[x], j.rx[x])
  <2>1. canard'[m] = Older(canard[m])
    BY <1>1
  <2>2. canard[m] \in Instances /\ Settled(canard[m]) /\ Ordered(canard[m].txq)
    BY InstanceOf
  <2> DEFINE i == canard[m]
             j == canard'[m]
  <2> HIDE DEF i, j
  <2>3. LET o == Older(i)
        IN /\ o \in Instances /\ Settled(o) /\ Ordered(o.txq)
           /\ \A g \in Queued(o.txq) : g.late /\ \E f \in Queued(i.txq) : Alike(f, g)
           /\ \A x \in DOMAIN o.rx : x \in DOMAIN i.rx /\ StateKept(i.rx[x], o.rx[x])
    BY <2>2, OlderInstance DEF i
  <2> HIDE DEF Older
  <2>4. j = Older(i)
    BY <2>1 DEF i, j
  <2> QED
    BY <2>3, <2>4 DEF i, j
<1>4. canard' \in [Nodes -> Instances]
  BY <1>1, <1>3
<1>5. ASSUME NEW m \in Nodes
      PROVE  Settled(canard[m])' /\ Ordered(canard[m].txq)' /\ FewerFrames(m) /\ FewerStates(m)
             /\ \A g \in Queued(canard[m].txq)' : g.late
  <2> DEFINE i == canard[m]
             j == canard'[m]
  <2>1. /\ Settled(j) /\ Ordered(j.txq)
        /\ \A g \in Queued(j.txq) : g.late /\ \E f \in Queued(i.txq) : Alike(f, g)
        /\ \A x \in DOMAIN j.rx : x \in DOMAIN i.rx /\ StateKept(i.rx[x], j.rx[x])
    BY <1>3
  <2>2. Settled(canard[m])' /\ Ordered(canard[m].txq)'
    BY <2>1 DEF Settled, Ordered, HeldBy, BlocksHeld, Precedes
  <2>3. \A g \in Queued(canard[m].txq)' : g.late /\ \E f \in Queued(canard[m].txq) : Alike(f, g)
    BY <2>1 DEF Queued
  <2> QED
    BY <2>1, <2>2, <2>3 DEF FewerFrames, FewerStates
<1>6. ASSUME NEW s \in Sessions PROVE NotLost(s)
  <2>1. s[1] \in Nodes
    BY Sender
  <2> QED
    BY <1>1, <1>5, <2>1 DEF NotLost
<1> QED
  BY <1>1, <1>2, <1>4, <1>5, <1>6 DEF Quiet

-----------------------------------------------------------------------------
(* The start, and a transfer begun.                                        *)

LEMMA TransferAtStart == TransferInit => TransferInv
<1> SUFFICES ASSUME TransferInit PROVE TransferInv
  OBVIOUS
<1>0. 0 \in TidSet
  BY Sizes DEF TidSet
<1>1. \A m \in Nodes : canard[m] = FreshCanard
  BY DEF TransferInit
<1>2. /\ tid = [s \in Sessions |-> 0] /\ begun = [s \in Sessions |-> 0]
      /\ last = [s \in Sessions |-> [n |-> 0, times |-> 1, long |-> FALSE]]
      /\ arrived = [s \in Sessions |-> [n |-> 0, k |-> 0]]
      /\ missed = [s \in Sessions |-> [n |-> 0, count |-> 0]]
      /\ canard = [m \in Nodes |-> FreshCanard]
  BY DEF TransferInit
<1>3. TransferTyped
  <2>1. canard \in [Nodes -> Instances]
    BY <1>2, FreshInstance
  <2>2. /\ tid \in [Sessions -> TidSet] /\ begun \in [Sessions -> Nat]
        /\ last \in [Sessions -> [n : Nat, times : Nat, long : BOOLEAN]]
        /\ arrived \in [Sessions -> [n : Nat, k : Nat]]
        /\ missed \in [Sessions -> [n : Nat, count : Nat]]
    BY <1>0, <1>2
  <2>3. \A s \in Sessions :
          last[s].n <= begun[s] /\ missed[s].n <= begun[s] /\ arrived[s].n <= begun[s]
    BY <1>2
  <2> QED
    BY <2>1, <2>2, <2>3 DEF TransferTyped
<1>4. \A m \in Nodes : Settled(canard[m])
  BY <1>1, FreshInstance
<1>5. \A m \in Nodes : Queued(canard[m].txq) = {} /\ Ordered(canard[m].txq)
  BY <1>1, FreshInstance, Emptied
<1>6. \A m \in Nodes : QueueSound(m)
  BY <1>5 DEF QueueSound
<1>7. ASSUME NEW s \in Sessions PROVE SessionSound(s)
  <2>1. arrived[s].k = 0 /\ missed[s].count = 0
    BY <1>2
  <2>2. ~(arrived[s].k > 0) /\ ~(missed[s].count > 0) /\ missed[s].count <= 2
    BY <2>1
  <2> QED
    BY <2>2 DEF SessionSound, Following, AfterMiss
<1> QED
  BY <1>3, <1>4, <1>6, <1>7 DEF TransferInv

(* A transfer begun: its frames, as many as there are blocks for, and the  *)
(* id of the next.                                                         *)
LEMMA BroadcastIs ==
  ASSUME TransferInv, NEW s \in Sessions, NEW len \in Lengths[s], Broadcast(s, len)
  PROVE  LET m == s[1]
             new == NewFrames(s, begun[s] + 1, tid[s], len, Fits(canard[m], len))
         IN /\ m \in Nodes /\ canard' \in [Nodes -> Instances]
            /\ \A o \in Nodes : o # m => canard'[o] = canard[o]
            /\ canard'[m].rx = canard[m].rx /\ Settled(canard'[m]) /\ Ordered(canard'[m].txq)
            /\ Queued(canard'[m].txq) = Queued(canard[m].txq) \cup new
            /\ begun' = [begun EXCEPT ![s] = begun[s] + 1]
            /\ tid' = IF Enqueued(canard[m], len)
                      THEN [tid EXCEPT ![s] = IncrementTransferID(tid[s])] ELSE tid
            /\ UNCHANGED <<last, arrived, missed>>
<1> DEFINE m == s[1]
           i == canard[m]
           n == begun[s] + 1
           j == EnqueueTxFrames(i, s, n, tid[s], len)
<1>0. len \in Nat /\ m \in Nodes
  <2>1. Lengths \in [Sessions -> SUBSET Nat]
    BY TransferAssumption
  <2> QED
    BY <2>1, Sender
<1>1. canard \in [Nodes -> Instances] /\ begun[s] \in Nat /\ tid[s] \in TidSet
  BY TypedFields DEF TransferInv, TransferTyped
<1>2. i \in Instances /\ Settled(i) /\ Ordered(i.txq) /\ i.txq \in Seq(Frames)
  BY <1>0, InstanceOf
<1>3. \A f \in Queued(i.txq) : f.session[2] = s[2] => f.n < n
  <2> SUFFICES ASSUME NEW f \in Queued(i.txq), f.session[2] = s[2] PROVE f.n < n
    OBVIOUS
  <2>1. f \in Frames /\ Sound(f, m)
    BY <1>0, SoundFields
  <2>2. f.session \in Sessions /\ f.session[1] = s[1] /\ f.n \in Nat /\ f.n <= begun[f.session]
    BY <2>1, FrameFields DEF Sound
  <2>3. f.session = s
    BY <2>2, TransferAssumption
  <2> QED
    BY <1>1, <2>2, <2>3
<1>4. canard' = [canard EXCEPT ![m] = j]
  BY DEF Broadcast
<1> DEFINE t == tid[s]
<1>5. n \in Nat /\ t \in TidSet
  BY <1>1
<1> HIDE DEF n, i, t
<1>6. /\ j \in Instances /\ j.rx = i.rx /\ Ordered(j.txq)
      /\ j.free + Len(j.txq) = i.free + Len(i.txq)
      /\ Queued(j.txq) = Queued(i.txq) \cup NewFrames(s, n, t, len, Fits(i, len))
  <2> DEFINE e == EnqueueTxFrames(i, s, n, t, len)
  <2>1. /\ e \in Instances /\ e.rx = i.rx /\ Ordered(e.txq)
        /\ e.free + Len(e.txq) = i.free + Len(i.txq)
        /\ Queued(e.txq) = Queued(i.txq) \cup NewFrames(s, n, t, len, Fits(i, len))
    BY <1>0, <1>2, <1>3, <1>5, Enqueueing
  <2>2. e = j
    BY DEF t
  <2> QED
    BY <2>1, <2>2
<1> HIDE DEF j
<1>7. Settled(j)
  <2>1. IsFiniteSet(HeldBy(j, DOMAIN j.rx)) /\ BlocksHeld(j, DOMAIN j.rx) = BlocksHeld(i, DOMAIN i.rx)
    BY <1>2, <1>6 DEF Settled, HeldBy, BlocksHeld
  <2>2. i.free + Len(i.txq) + BlocksHeld(i, DOMAIN i.rx) = Pool
    BY <1>2 DEF Settled
  <2> QED
    BY <1>6, <2>1, <2>2 DEF Settled
<1>8. canard' \in [Nodes -> Instances] /\ canard'[m] = j
      /\ \A o \in Nodes : o # m => canard'[o] = canard[o]
  BY <1>0, <1>1, <1>4, <1>6
<1>9. /\ begun' = [begun EXCEPT ![s] = begun[s] + 1]
      /\ tid' = IF Enqueued(canard[m], len)
                THEN [tid EXCEPT ![s] = IncrementTransferID(tid[s])] ELSE tid
      /\ UNCHANGED <<last, arrived, missed>>
  BY DEF Broadcast
<1> QED
  BY <1>0, <1>6, <1>7, <1>8, <1>9 DEF n, i, t

LEMMA NewFrameIs ==
  ASSUME NEW s \in Sessions, NEW n \in Nat, NEW t \in TidSet, NEW len \in Nat,
         NEW i \in Instances, NEW f \in NewFrames(s, n, t, len, Fits(i, len))
  PROVE  /\ f \in Frames /\ f.session = s /\ f.n = n /\ f.tid = t /\ f.k >= 1
         /\ f.sot <=> f.k = 1
         /\ f.toggle = (f.k - 1) % 2
         /\ f.k <= FrameCount(len)
         /\ f.eot <=> f.k = FrameCount(len)
         /\ f.eot => Enqueued(i, len)
<1>1. FrameCount(len) \in Nat /\ i.free \in Nat
  BY FrameCountIsNat, Instance
<1> DEFINE m == Fits(i, len)
<1>2. m \in Nat /\ m <= FrameCount(len) /\ (~Enqueued(i, len) => m < FrameCount(len))
  BY <1>1 DEF Fits, Enqueued
<1> HIDE DEF m
<1>3. PICK k \in 1..m : f = Frame(s, n, t, len, k)
  BY DEF NewFrames, m
<1>4. k \in Nat /\ k >= 1 /\ k <= FrameCount(len)
  BY <1>1, <1>2
<1>5. /\ f \in Frames /\ f.session = s /\ f.n = n /\ f.k = k /\ f.tid = t
      /\ f.sot <=> k = 1
      /\ f.eot <=> k = FrameCount(len)
      /\ f.toggle = (k - 1) % 2
  <2> DEFINE g == Frame(s, n, t, len, k)
  <2>1. /\ g \in Frames /\ g.session = s /\ g.n = n /\ g.k = k /\ g.tid = t
        /\ g.sot <=> k = 1
        /\ g.eot <=> k = FrameCount(len)
        /\ g.toggle = (k - 1) % 2
    BY <1>4, FrameTyped
  <2> HIDE DEF g
  <2>2. f = g
    BY <1>3 DEF g
  <2> QED
    BY <2>1, <2>2
<1>6. f.eot => Enqueued(i, len)
  <2>1. k = FrameCount(len) => ~(m < FrameCount(len))
    BY <1>1, <1>2
  <2> QED
    BY <1>2, <1>5, <2>1
<1> QED
  BY <1>4, <1>5, <1>6

LEMMA BroadcastQueue ==
  ASSUME TransferInv, NEW s \in Sessions, NEW len \in Lengths[s], Broadcast(s, len)
  PROVE  QueueSound(s[1])'
<1> DEFINE m == s[1]
           i == canard[m]
           n == begun[s] + 1
           new == NewFrames(s, n, tid[s], len, Fits(i, len))
<1>0. len \in Nat /\ begun[s] \in Nat /\ tid[s] \in TidSet /\ n \in Nat /\ i \in Instances
      /\ tid \in [Sessions -> TidSet] /\ begun \in [Sessions -> Nat] /\ m \in Nodes
  <2>1. Lengths \in [Sessions -> SUBSET Nat]
    BY TransferAssumption
  <2>2. m \in Nodes
    BY Sender
  <2>3. i \in Instances
    BY <2>2, InstanceOf
  <2>4. /\ begun[s] \in Nat /\ tid[s] \in TidSet
        /\ tid \in [Sessions -> TidSet] /\ begun \in [Sessions -> Nat]
    BY TypedFields DEF TransferInv, TransferTyped
  <2> QED
    BY <2>1, <2>2, <2>3, <2>4
<1>1. /\ Ordered(canard'[m].txq)
      /\ Queued(canard'[m].txq) = Queued(i.txq) \cup new
      /\ begun' = [begun EXCEPT ![s] = begun[s] + 1]
      /\ tid' = IF Enqueued(i, len)
                THEN [tid EXCEPT ![s] = IncrementTransferID(tid[s])] ELSE tid
      /\ UNCHANGED <<last, arrived, missed>>
  BY BroadcastIs
<1>2. ASSUME NEW f \in new
      PROVE  /\ f \in Frames /\ f.session = s /\ f.n = n /\ f.tid = tid[s] /\ f.k >= 1
             /\ f.sot <=> f.k = 1
             /\ f.toggle = (f.k - 1) % 2
             /\ f.k <= FrameCount(len)
             /\ f.eot <=> f.k = FrameCount(len)
             /\ f.eot => Enqueued(i, len)
  <2> DEFINE t == tid[s]
  <2>1. t \in TidSet /\ f \in NewFrames(s, n, t, len, Fits(i, len))
    BY <1>0
  <2> HIDE DEF n, i, t
  <2> QED
    BY <1>0, <2>1, NewFrameIs DEF t
<1>3. ASSUME NEW f \in Queued(i.txq)
      PROVE  f \in Frames /\ f.session \in Sessions /\ f.n \in Nat /\ f.k \in Nat /\ Sound(f, m)
             /\ f.n <= begun[f.session]
  BY <1>0, SoundFields, FrameFields DEF Sound
<1>4. begun'[s] = n /\ \A x \in Sessions : x # s => begun'[x] = begun[x] /\ tid'[x] = tid[x]
  BY <1>0, <1>1
<1>5. Enqueued(i, len) => tid'[s] = IncrementTransferID(tid[s])
  BY <1>0, <1>1
<1>6. last[s].n \in Nat /\ missed[s].n \in Nat /\ last[s].n <= begun[s] /\ missed[s].n <= begun[s]
  BY TypedFields DEF TransferInv
<1>7. n = begun[s] + 1
  OBVIOUS
<1> HIDE DEF n, new, i
<1>8. ASSUME NEW f \in new PROVE Sound(f, m)'
  <2>1. n >= 1 /\ n > last[s].n /\ n > missed[s].n /\ n <= begun'[s]
    BY <1>0, <1>4, <1>6, <1>7
  <2>2. f.eot => tid'[s] = IncrementTransferID(f.tid)
    BY <1>2, <1>5
  <2>3. f.session = s /\ f.n = n /\ f.k >= 1 /\ (f.sot <=> f.k = 1) /\ f.toggle = (f.k - 1) % 2
    BY <1>2
  <2> QED
    BY <1>1, <2>1, <2>2, <2>3 DEF Sound
<1>9. ASSUME NEW f \in Queued(i.txq) PROVE Sound(f, m)'
  <2>1. CASE f.session = s
    <3>1. f.n <= begun'[s] /\ ~(f.n = begun'[s])
      BY <1>0, <1>3, <1>4, <1>7, <2>1
    <3> QED
      BY <1>1, <1>3, <2>1, <3>1 DEF Sound
  <2>2. CASE f.session # s
    <3>1. begun'[f.session] = begun[f.session] /\ tid'[f.session] = tid[f.session]
      BY <1>3, <1>4, <2>2
    <3> QED
      BY <1>1, <1>3, <3>1 DEF Sound
  <2> QED
    BY <2>1, <2>2
<1>10. ASSUME NEW f \in new, NEW g \in new PROVE Agree(f, g)
  <2>1. FrameCount(len) \in Nat /\ ~(n = n + 1)
    BY <1>0, FrameCountIsNat
  <2>2. f.n = n /\ g.n = n /\ f.tid = g.tid /\ (f.eot => g.k <= f.k)
    BY <1>2
  <2> QED
    BY <2>1, <2>2 DEF Agree
<1>11. ASSUME NEW f \in Queued(i.txq), NEW g \in new PROVE Agree(f, g) /\ Agree(g, f)
  <2> SUFFICES ASSUME f.session = s PROVE Agree(f, g) /\ Agree(g, f)
    BY <1>2 DEF Agree
  <2>1. f.n <= begun[s] /\ f.n \in Nat /\ g.n = n /\ g.tid = tid[s]
    BY <1>2, <1>3
  <2>2. f.n # g.n /\ ~(f.n = g.n + 1) /\ (g.n = f.n + 1 => f.n = begun[s])
    BY <1>0, <1>7, <2>1
  <2>3. f.eot /\ f.n = begun[s] => tid[s] = IncrementTransferID(f.tid)
    BY <1>3 DEF Sound
  <2> QED
    BY <2>1, <2>2, <2>3 DEF Agree
<1>12. \A f, g \in Queued(i.txq) : Agree(f, g)
  BY <1>0 DEF TransferInv, QueueSound, i
<1>13. \A f \in Queued(canard[m].txq)' : Sound(f, m)'
  BY <1>1, <1>8, <1>9 DEF Queued
<1>14. \A f, g \in Queued(canard[m].txq)' : Agree(f, g)'
  <2>1. \A f, g \in Queued(canard'[m].txq) : Agree(f, g)
    BY <1>1, <1>10, <1>11, <1>12
  <2> QED
    BY <2>1 DEF Queued, Agree
<1>15. Ordered(canard[m].txq)'
  BY <1>1 DEF Ordered, Precedes
<1> QED
  BY <1>13, <1>14, <1>15 DEF QueueSound

LEMMA BroadcastSession ==
  ASSUME TransferInv, NEW s \in Sessions, NEW len \in Lengths[s], Broadcast(s, len),
         NEW x \in Sessions
  PROVE  SessionSound(x)'
<1> DEFINE m == s[1]
           i == canard[m]
           n == begun[s] + 1
           new == NewFrames(s, n, tid[s], len, Fits(i, len))
           r == canard[Other(x[1])].rx
<1>0. len \in Nat /\ begun[s] \in Nat /\ tid[s] \in TidSet /\ n \in Nat /\ i \in Instances
      /\ tid \in [Sessions -> TidSet] /\ begun \in [Sessions -> Nat] /\ m \in Nodes
      /\ x[1] \in Nodes /\ Other(x[1]) \in Nodes
  <2>1. Lengths \in [Sessions -> SUBSET Nat]
    BY TransferAssumption
  <2>2. m \in Nodes /\ x[1] \in Nodes /\ Other(x[1]) \in Nodes
    BY Sender, OtherNode
  <2>3. i \in Instances
    BY <2>2, InstanceOf
  <2>4. /\ begun[s] \in Nat /\ tid[s] \in TidSet
        /\ tid \in [Sessions -> TidSet] /\ begun \in [Sessions -> Nat]
    BY TypedFields DEF TransferInv, TransferTyped
  <2> QED
    BY <2>1, <2>2, <2>3, <2>4
<1>1. /\ Queued(canard'[m].txq) = Queued(i.txq) \cup new
      /\ begun' = [begun EXCEPT ![s] = begun[s] + 1]
      /\ \A o \in Nodes : o # m => canard'[o] = canard[o]
      /\ canard'[m].rx = canard[m].rx
      /\ tid' = IF Enqueued(i, len)
                THEN [tid EXCEPT ![s] = IncrementTransferID(tid[s])] ELSE tid
      /\ UNCHANGED <<last, arrived, missed>>
  BY BroadcastIs
<1>2. canard'[Other(x[1])].rx = r
  BY <1>0, <1>1
<1>3. \A g \in Queued(canard'[x[1]].txq) :
        \/ g \in Queued(canard[x[1]].txq)
        \/ g.session = s /\ g.n = n /\ g.tid = tid[s]
  <2>1. ASSUME NEW g \in new PROVE g.session = s /\ g.n = n /\ g.tid = tid[s]
    <3> DEFINE t == tid[s]
    <3>1. t \in TidSet /\ g \in NewFrames(s, n, t, len, Fits(i, len))
      BY <1>0
    <3> HIDE DEF n, i, t
    <3> QED
      BY <1>0, <3>1, NewFrameIs DEF t
  <2>2. CASE x[1] = m
    <3> HIDE DEF new, n
    <3> QED
      BY <1>1, <2>1, <2>2
  <2>3. CASE x[1] # m
    BY <1>0, <1>1, <2>3
  <2> QED
    BY <2>2, <2>3
<1>4. /\ missed[x].n \in Nat /\ missed[x].n <= begun[x] /\ arrived[x].n \in Nat
      /\ arrived[x].n <= begun[x]
  BY TypedFields DEF TransferInv
<1>5. x # s => begun'[x] = begun[x] /\ tid'[x] = tid[x]
  BY <1>0, <1>1
<1>6. begun'[s] = n /\ n = begun[s] + 1
  BY <1>0, <1>1
<1>7. Following(x) /\ AfterMiss(x) /\ missed[x].count <= 2
  BY DEF TransferInv, SessionSound
<1> HIDE DEF n, r, i, new
<1>8. Following(x)'
  <2> SUFFICES ASSUME NEW g \in Queued(canard[x[1]].txq)', g.session = x, ~g.late,
                      arrived'[x].k > 0, g.n = arrived'[x].n
               PROVE  /\ x \in DOMAIN r /\ r[x].age # 2
                      /\ Follows(r[x], g.tid, arrived[x], MissedBefore(x, arrived[x].n))
    BY <1>1, <1>2 DEF Following, MissedBefore
  <2>1. g \in Queued(canard'[x[1]].txq) /\ arrived'[x] = arrived[x]
    BY <1>1 DEF Queued
  <2>2. g \in Queued(canard[x[1]].txq)
    <3>1. ~(g.session = s /\ g.n = n)
      BY <1>0, <1>4, <1>6, <2>1
    <3> QED
      BY <1>3, <2>1, <3>1
  <2> QED
    BY <1>7, <2>1, <2>2 DEF Following, r
<1>9. AfterMiss(x)'
  <2> SUFFICES ASSUME missed[x].count > 0, x \in DOMAIN r, r[x].age # 2
               PROVE  /\ \A g \in Queued(canard[x[1]].txq)' :
                           g.session = x /\ g.n = missed[x].n + 1 /\ g.k = 1 =>
                             Waits(r[x], g.tid, missed[x].count)
                      /\ begun'[x] = missed[x].n => Waits(r[x], tid'[x], missed[x].count)
    BY <1>1, <1>2 DEF AfterMiss
  <2>1. /\ \A g \in Queued(canard[x[1]].txq) :
             g.session = x /\ g.n = missed[x].n + 1 /\ g.k = 1 =>
               Waits(r[x], g.tid, missed[x].count)
        /\ begun[x] = missed[x].n => Waits(r[x], tid[x], missed[x].count)
    BY <1>7 DEF AfterMiss, r
  <2>2. ASSUME NEW g \in Queued(canard[x[1]].txq)', g.session = x, g.n = missed[x].n + 1, g.k = 1
        PROVE  Waits(r[x], g.tid, missed[x].count)
    <3>1. g \in Queued(canard'[x[1]].txq)
      BY <2>2 DEF Queued
    <3>2. CASE g \in Queued(canard[x[1]].txq)
      BY <2>1, <2>2, <3>2
    <3>3. CASE g.session = s /\ g.n = n /\ g.tid = tid[s]
      <4>1. begun[x] = missed[x].n /\ g.tid = tid[x]
        BY <1>0, <1>4, <1>6, <2>2, <3>3
      <4> QED
        BY <2>1, <4>1
    <3> QED
      BY <1>3, <3>1, <3>2, <3>3
  <2>3. begun'[x] = missed[x].n => Waits(r[x], tid'[x], missed[x].count)
    <3>1. CASE x = s
      BY <1>0, <1>4, <1>6, <3>1
    <3>2. CASE x # s
      BY <1>5, <2>1, <3>2
    <3> QED
      BY <3>1, <3>2
  <2> QED
    BY <2>2, <2>3
<1> QED
  BY <1>1, <1>7, <1>8, <1>9 DEF SessionSound

LEMMA SameQueue ==
  ASSUME TransferInv, NEW o \in Nodes, canard'[o].txq = canard[o].txq,
         \A f \in Queued(canard[o].txq) :
           /\ begun'[f.session] = begun[f.session] /\ tid'[f.session] = tid[f.session]
           /\ last'[f.session] = last[f.session] /\ missed'[f.session] = missed[f.session]
  PROVE  QueueSound(o)'
<1>1. /\ Ordered(canard[o].txq) /\ \A f \in Queued(canard[o].txq) : Sound(f, o)
      /\ \A f, g \in Queued(canard[o].txq) : Agree(f, g)
  BY DEF TransferInv, QueueSound
<1>2. Queued(canard[o].txq)' = Queued(canard[o].txq)
  BY DEF Queued
<1>3. Ordered(canard[o].txq)'
  BY <1>1 DEF Ordered, Precedes
<1>4. \A f \in Queued(canard[o].txq) : Sound(f, o)'
  BY <1>1 DEF Sound
<1>5. \A f, g \in Queued(canard[o].txq) : Agree(f, g)'
  BY <1>1 DEF Agree
<1> QED
  BY <1>2, <1>3, <1>4, <1>5 DEF QueueSound

LEMMA BroadcastKeeps ==
  ASSUME TransferInv, NEW s \in Sessions, NEW len \in Lengths[s], Broadcast(s, len)
  PROVE  TransferInv'
<1> DEFINE m == s[1]
           i == canard[m]
<1>0. begun[s] \in Nat /\ tid[s] \in TidSet /\ m \in Nodes
      /\ tid \in [Sessions -> TidSet] /\ begun \in [Sessions -> Nat]
  BY Sender, TypedFields DEF TransferInv, TransferTyped
<1>1. /\ canard' \in [Nodes -> Instances]
      /\ begun' = [begun EXCEPT ![s] = begun[s] + 1]
      /\ \A o \in Nodes : o # m => canard'[o] = canard[o]
      /\ tid' = IF Enqueued(i, len)
                THEN [tid EXCEPT ![s] = IncrementTransferID(tid[s])] ELSE tid
      /\ UNCHANGED <<last, arrived, missed>>
      /\ Settled(canard'[m])
  BY BroadcastIs
<1>2. tid' \in [Sessions -> TidSet] /\ begun' \in [Sessions -> Nat]
  BY <1>0, <1>1, NextTid
<1>3. \A x \in Sessions : begun[x] <= begun'[x] /\ begun[x] \in Nat /\ begun'[x] \in Nat
  <2> TAKE x \in Sessions
  <2>1. begun[x] \in Nat /\ begun'[x] \in Nat
    BY <1>0, <1>2
  <2>2. begun'[x] = IF x = s THEN begun[s] + 1 ELSE begun[x]
    BY <1>0, <1>1
  <2> QED
    BY <2>1, <2>2
<1>4. TransferTyped'
  <2>1. ASSUME NEW x \in Sessions
        PROVE  last'[x].n <= begun'[x] /\ missed'[x].n <= begun'[x] /\ arrived'[x].n <= begun'[x]
    <3>1. last'[x] = last[x] /\ missed'[x] = missed[x] /\ arrived'[x] = arrived[x]
      BY <1>1
    <3>2. /\ last[x].n \in Nat /\ missed[x].n \in Nat /\ arrived[x].n \in Nat
          /\ last[x].n <= begun[x] /\ missed[x].n <= begun[x] /\ arrived[x].n <= begun[x]
      BY TypedFields DEF TransferInv
    <3> QED
      BY <1>3, <3>1, <3>2
  <2> QED
    BY <1>1, <1>2, <2>1 DEF TransferInv, TransferTyped
<1>5. ASSUME NEW o \in Nodes PROVE Settled(canard[o])'
  <2>1. Settled(canard'[o])
    <3>1. Settled(canard[o])
      BY DEF TransferInv
    <3> QED
      BY <1>1, <3>1
  <2> QED
    BY <2>1 DEF Settled, HeldBy, BlocksHeld
<1>6. ASSUME NEW o \in Nodes PROVE QueueSound(o)'
  <2>1. CASE o = m
    BY <2>1, BroadcastQueue
  <2>2. CASE o # m
    <3>1. canard'[o].txq = canard[o].txq
      BY <1>1, <2>2
    <3>2. ASSUME NEW f \in Queued(canard[o].txq)
          PROVE  /\ begun'[f.session] = begun[f.session] /\ tid'[f.session] = tid[f.session]
                 /\ last'[f.session] = last[f.session] /\ missed'[f.session] = missed[f.session]
      <4>1. f.session \in Sessions /\ f.session[1] = o
        BY SoundFields, FrameFields DEF Sound
      <4>2. f.session # s
        BY <2>2, <4>1
      <4> QED
        BY <1>0, <1>1, <4>1, <4>2
    <3> QED
      BY <3>1, <3>2, SameQueue
  <2> QED
    BY <2>1, <2>2
<1>7. \A x \in Sessions : SessionSound(x)'
  BY BroadcastSession
<1> QED
  BY <1>4, <1>5, <1>6, <1>7 DEF TransferInv

-----------------------------------------------------------------------------
(* A frame goes out, and comes in on the other node.                       *)

LEMMA Count ==
  ASSUME NEW n \in 0..2, NEW D, D \subseteq 1..n
  PROVE  /\ Cardinality(D) \in Nat
         /\ Cardinality(D) = 0 <=> D = {}
         /\ Cardinality(D) > 1 => n = 2 /\ 1 \in D /\ 2 \in D
<1>1. IsFiniteSet(D)
  <2>1. IsFiniteSet(1..n)
    BY FS_Interval
  <2> QED
    BY <2>1, FS_Subset
<1>2. Cardinality(D) \in Nat /\ (Cardinality(D) = 0 <=> D = {})
  BY <1>1, FS_CardinalityType, FS_EmptySet
<1>3. ASSUME NEW x, D \subseteq {x} PROVE Cardinality(D) <= 1
  <2>1. IsFiniteSet({x}) /\ Cardinality({x}) = 1
    BY FS_Singleton
  <2> QED
    BY <1>3, <2>1, FS_Subset
<1>4. CASE 1 \notin D
  <2>1. D \subseteq {2}
    BY <1>4
  <2> QED
    BY <1>2, <1>3, <2>1
<1>5. CASE 2 \notin D
  <2>1. D \subseteq {1}
    BY <1>5
  <2> QED
    BY <1>2, <1>3, <2>1
<1>6. CASE 1 \in D /\ 2 \in D
  BY <1>2, <1>6
<1> QED
  BY <1>4, <1>5, <1>6

Out(m) == Head(canard[m].txq)

(* The head of m's queue went out, heard whole or not, and handed over d   *)
(* times.                                                                  *)
Sent(m, whole, d) ==
  LET f == Out(m)
      s == f.session
      i == canard[Other(m)]
      c == HandleRxFrame(i, f)
  IN /\ canard[m].txq # <<>> /\ ~f.late /\ UNCHANGED <<tid, begun>>
     /\ canard' \in [Nodes -> Instances] /\ canard'[m] = PopTxQueue(canard[m])
     /\ Handled(i, canard'[Other(m)], s)
     /\ whole => /\ c.what # "no_memory" /\ canard'[Other(m)] = c.canard
                 /\ f.sot \/ arrived[s] = [n |-> f.n, k |-> f.k - 1]
                 /\ d > 0 <=> c.what = "delivered"
     /\ d > 0 => f.eot
     /\ d > 1 => f.sot
     /\ arrived' = [arrived EXCEPT ![s] = IF whole /\ ~f.eot THEN [n |-> f.n, k |-> f.k]
                                          ELSE [n |-> 0, k |-> 0]]
     /\ last' = IF d = 0 THEN last
                ELSE [last EXCEPT ![s] = [n |-> f.n, long |-> ~f.sot,
                                          times |-> d + IF last[s].n = f.n THEN last[s].times ELSE 0]]
     /\ missed' = [missed EXCEPT ![s] =
                     IF d > 0 THEN [n |-> 0, count |-> 0]
                     ELSE IF whole /\ f.eot
                     THEN [n |-> f.n, count |-> 1 + MissedBefore(s, f.n)]
                     ELSE missed[s]]

LEMMA TransmitIs ==
  ASSUME TransferInv, NEW m \in Nodes, NEW copies \in 0..2, Transmit(m, copies)
  PROVE  \E whole \in BOOLEAN, d \in Nat : Sent(m, whole, d)
<1> DEFINE f == Out(m)
           s == f.session
           R == Other(m)
           i == canard[R]
           first == HandleRxFrame(i, f)
           final == IF copies = 2 THEN HandleRxFrame(first.canard, f) ELSE first
           D == {a \in 1..copies : (IF a = 1 THEN first ELSE final).what = "delivered"}
           d == Cardinality(D)
           whole == /\ copies = 1 /\ first.what # "no_memory"
                    /\ f.sot \/ arrived[s] = [n |-> f.n, k |-> f.k - 1]
<1>1. /\ canard[m].txq # <<>> /\ ~f.late /\ UNCHANGED <<tid, begun>>
      /\ canard' = [canard EXCEPT ![m] = PopTxQueue(@),
                                  ![R] = IF copies = 0 THEN @ ELSE final.canard]
      /\ arrived' = [arrived EXCEPT ![s] = IF whole /\ ~f.eot THEN [n |-> f.n, k |-> f.k]
                                           ELSE [n |-> 0, k |-> 0]]
      /\ last' = IF d = 0 THEN last
                 ELSE [last EXCEPT ![s] = [n |-> f.n, long |-> ~f.sot,
                                           times |-> d + IF @.n = f.n THEN @.times ELSE 0]]
      /\ missed' = [missed EXCEPT ![s] =
                      IF d > 0 THEN [n |-> 0, count |-> 0]
                      ELSE IF whole /\ f.eot
                      THEN [n |-> f.n, count |-> 1 + IF @.n = f.n - 1 THEN @.count ELSE 0]
                      ELSE @]
  <2>1. canard[m].txq # <<>> /\ ~f.late /\ UNCHANGED <<tid, begun>>
    BY DEF Transmit, Out
  <2>2. Arrive(m, copies, f, first, final)
    BY Zenon DEF Transmit, Out
  <2> HIDE DEF f, i, first, final
  <2> QED
    BY <2>1, <2>2 DEF Arrive
<1>2. R \in Nodes /\ R # m
  BY OtherNode
<1>3. /\ i \in Instances /\ IsFiniteSet(HeldBy(i, DOMAIN i.rx)) /\ canard[m] \in Instances
      /\ Settled(canard[m]) /\ canard \in [Nodes -> Instances] /\ canard[m].txq \in Seq(Frames)
  BY <1>2, InstanceOf DEF Settled, TransferInv, TransferTyped
<1>4. f \in Frames
  BY <1>1, <1>3, Popped DEF Out
<1>5. /\ s \in Sessions /\ missed[s].n \in Nat /\ last[s] = last[s]
      /\ missed \in [Sessions -> [n : Nat, count : Nat]]
      /\ last \in [Sessions -> [n : Nat, times : Nat, long : BOOLEAN]]
  BY <1>4, FrameFields, TypedFields DEF TransferInv, TransferTyped
<1> HIDE DEF f, i, R
<1>6. Handled(i, first.canard, s)
  BY <1>3, <1>4, FrameHandled
<1>7. first.canard \in Instances /\ IsFiniteSet(HeldBy(first.canard, DOMAIN first.canard.rx))
  BY <1>6 DEF Handled
<1> HIDE DEF first
<1>8. Handled(i, final.canard, s)
  <2>1. Handled(first.canard, HandleRxFrame(first.canard, f).canard, s)
    BY <1>4, <1>7, FrameHandled
  <2>2. Handled(i, HandleRxFrame(first.canard, f).canard, s)
    BY <1>6, <2>1, HandledTwice
  <2> QED
    BY <1>6, <2>2
<1>9. Handled(i, i, s)
  BY <1>3, HandledSelf
<1>10. final.what = "delivered" => f.eot
  BY <1>3, <1>4, <1>7, DeliversLast DEF first
<1>11. first.what = "delivered" => f.eot
  BY <1>3, <1>4, DeliversLast DEF first
<1>12. copies = 2 /\ first.what = "delivered" /\ final.what = "delivered" => f.sot
  <2> SUFFICES ASSUME copies = 2, first.what = "delivered", final.what = "delivered", ~f.sot
               PROVE  FALSE
    BY <1>4, FrameFields
  <2>1. HandleRxFrame(first.canard, f).what # "delivered"
    BY <1>3, <1>4, DeliversOnce DEF first
  <2> QED
    BY <2>1
<1>13. copies # 2 => final = first
  OBVIOUS
<1> HIDE DEF final
<1>14. /\ d \in Nat
       /\ d = 0 <=> D = {}
       /\ d > 1 => copies = 2 /\ 1 \in D /\ 2 \in D
  <2>1. D \subseteq 1..copies
    OBVIOUS
  <2> HIDE DEF D
  <2> QED
    BY <2>1, Count
<1>15. (d > 0 => f.eot) /\ (d > 1 => f.sot)
  <2>1. d > 0 => \E a \in 1..copies : (IF a = 1 THEN first ELSE final).what = "delivered"
    <3>1. d > 0 => D # {}
      <4> HIDE DEF D
      <4> QED
        BY <1>14
    <3> HIDE DEF d
    <3> QED
      BY <3>1
  <2>2. d > 1 => copies = 2 /\ first.what = "delivered" /\ final.what = "delivered"
    <3>1. 1 \in D => first.what = "delivered"
      OBVIOUS
    <3>2. 2 \in D => final.what = "delivered"
      OBVIOUS
    <3> HIDE DEF d, D
    <3> QED
      BY <1>14, <3>1, <3>2
  <2> HIDE DEF d, D
  <2> QED
    BY <1>10, <1>11, <1>12, <2>1, <2>2
<1>16. copies = 1 => (d > 0 <=> first.what = "delivered")
  <2>1. copies = 1 => (D # {} <=> first.what = "delivered")
    <3>1. copies = 1 => 1..copies = {1}
      OBVIOUS
    <3> QED
      BY <3>1
  <2> HIDE DEF d, D
  <2> QED
    BY <1>14, <2>1
<1>17. /\ canard' \in [Nodes -> Instances] /\ canard'[m] = PopTxQueue(canard[m])
       /\ canard'[R] = IF copies = 0 THEN i ELSE final.canard
  <2>1. PopTxQueue(canard[m]) \in Instances
    BY <1>1, <1>3, PoppedInstance
  <2>2. final.canard \in Instances
    BY <1>8 DEF Handled
  <2>3. canard' = [canard EXCEPT ![m] = PopTxQueue(canard[m]),
                                 ![R] = IF copies = 0 THEN i ELSE final.canard]
    BY <1>1, <1>2, <1>3 DEF i
  <2> QED
    BY <1>2, <1>3, <2>1, <2>2, <2>3
<1>18. Handled(i, canard'[R], s)
  BY <1>8, <1>9, <1>17
<1> HIDE DEF d, D
<1>19. missed' = [missed EXCEPT ![s] =
                    IF d > 0 THEN [n |-> 0, count |-> 0]
                    ELSE IF whole /\ f.eot
                    THEN [n |-> f.n, count |-> 1 + MissedBefore(s, f.n)]
                    ELSE missed[s]]
  BY <1>1 DEF MissedBefore
<1>20. last' = IF d = 0 THEN last
               ELSE [last EXCEPT ![s] = [n |-> f.n, long |-> ~f.sot,
                                         times |-> d + IF last[s].n = f.n THEN last[s].times ELSE 0]]
  BY <1>1
<1>21. whole => /\ first.what # "no_memory" /\ canard'[R] = first.canard
                /\ f.sot \/ arrived[s] = [n |-> f.n, k |-> f.k - 1]
                /\ d > 0 <=> first.what = "delivered"
  BY <1>13, <1>16, <1>17
<1>22. whole \in BOOLEAN
  OBVIOUS
<1>23. arrived' = [arrived EXCEPT ![s] = IF whole /\ ~f.eot THEN [n |-> f.n, k |-> f.k]
                                         ELSE [n |-> 0, k |-> 0]]
  BY <1>1
<1> HIDE DEF whole
<1>24. Sent(m, whole, d)
  BY <1>1, <1>15, <1>17, <1>18, <1>19, <1>20, <1>21, <1>23, Zenon DEF Sent, f, i, R, first
<1> QED
  BY <1>14, <1>22, <1>24

(* A transfer of one frame is handed over if there is memory for a state.  *)
LEMMA DeliversSingle ==
  ASSUME NEW i \in Instances, NEW f \in Frames, f.sot, f.eot
  PROVE  HandleRxFrame(i, f).what \in {"delivered", "no_memory"}
<1> DEFINE s == f.session
           j == Found(i, s)
           c == HandleRxFrame(i, f)
           h == Restarted(j, s, f)
<1>1. CASE Refused(i, f)
  BY <1>1, HandleCases
<1>2. CASE ~Refused(i, f)
  <2>1. j \in Instances /\ s \in DOMAIN j.rx
    BY <1>2, FoundState
  <2>2. TakeFrame(j, s, f).what = "delivered"
    <3> HIDE DEF j, s
    <3> QED
      BY <2>1, TakeSingle
  <2>3. TakeFrame(h, s, f).what = "delivered"
    <3>1. Serves(j, h, s)
      <4> HIDE DEF j, s
      <4> QED
        BY <2>1, RestartedServes DEF h
    <3> HIDE DEF j, s, h
    <3>2. h \in Instances /\ s \in DOMAIN h.rx
      BY <3>1 DEF Serves
    <3> QED
      BY <3>2, TakeSingle
  <2>4. c = TakeFrame(j, s, f) \/ c = TakeFrame(h, s, f)
    BY <1>2, HandleCases
  <2> QED
    BY <2>2, <2>3, <2>4
<1> QED
  BY <1>1, <1>2

(* What the frame sent was, what stays queued behind it, and what becomes  *)
(* of the histories.                                                       *)
LEMMA SentFrame ==
  ASSUME TransferInv, NEW m \in Nodes, NEW whole \in BOOLEAN, NEW d \in Nat, Sent(m, whole, d)
  PROVE  LET f == Out(m)
             s == f.session
         IN /\ f \in Frames /\ f \in Queued(canard[m].txq) /\ Sound(f, m) /\ ~f.late
            /\ s \in Sessions /\ s[1] = m /\ Other(m) \in Nodes /\ Other(m) # m
            /\ canard' \in [Nodes -> Instances] /\ canard'[m].rx = canard[m].rx
            /\ canard'[m].txq = Tail(canard[m].txq) /\ Settled(canard'[m])
            /\ Ordered(canard'[m].txq)
            /\ \A g \in Queued(canard'[m].txq) :
                 /\ g \in Queued(canard[m].txq) /\ g \in Frames /\ Sound(g, m) /\ Agree(f, g)
                 /\ Precedes(f, g)
<1> DEFINE f == Out(m)
           s == f.session
           i == canard[m]
<1>1. i \in Instances /\ Settled(i) /\ i.txq \in Seq(Frames) /\ Ordered(i.txq)
  BY InstanceOf
<1>2. /\ i.txq # <<>> /\ ~f.late /\ canard' \in [Nodes -> Instances]
      /\ canard'[m] = PopTxQueue(i)
  BY DEF Sent
<1>3. /\ Queued(Tail(i.txq)) \subseteq Queued(i.txq) /\ f \in Queued(i.txq) /\ f \in Frames
      /\ Ordered(Tail(i.txq)) /\ \A g \in Queued(Tail(i.txq)) : Precedes(f, g)
  <2> HIDE DEF i
  <2>1. Head(i.txq) = f
    BY DEF Out, i
  <2> QED
    BY <1>1, <1>2, <2>1, Popped
<1>4. /\ PopTxQueue(i) \in Instances /\ PopTxQueue(i).rx = i.rx
      /\ PopTxQueue(i).txq = Tail(i.txq) /\ Settled(PopTxQueue(i))
  <2> HIDE DEF i
  <2> QED
    BY <1>1, <1>2, PoppedInstance
<1>5. \A g \in Queued(Tail(i.txq)) : g \in Queued(i.txq) /\ g \in Frames /\ Sound(g, m) /\ Agree(f, g)
  BY <1>3, SoundFields DEF TransferInv, QueueSound
<1>6. Sound(f, m)
  BY <1>3, SoundFields
<1>7. s \in Sessions /\ s[1] = m /\ Other(m) \in Nodes /\ Other(m) # m
  <2> HIDE DEF f
  <2> QED
    BY <1>3, <1>6, FrameFields, OtherNode DEF Sound
<1> QED
  BY <1>1, <1>2, <1>3, <1>4, <1>5, <1>6, <1>7

LEMMA SentHistory ==
  ASSUME TransferInv, NEW m \in Nodes, NEW whole \in BOOLEAN, NEW d \in Nat, Sent(m, whole, d)
  PROVE  LET f == Out(m)
             s == f.session
         IN /\ tid' = tid /\ begun' = begun
            /\ \A x \in Sessions \ {s} :
                 arrived'[x] = arrived[x] /\ last'[x] = last[x] /\ missed'[x] = missed[x]
            /\ arrived'[s] = IF whole /\ ~f.eot THEN [n |-> f.n, k |-> f.k] ELSE [n |-> 0, k |-> 0]
            /\ d = 0 => last'[s] = last[s]
            /\ d > 0 => last'[s].n = f.n /\ last'[s].times = d /\ last'[s].long = ~f.sot
            /\ d > 0 => missed'[s] = [n |-> 0, count |-> 0]
            /\ d = 0 /\ whole /\ f.eot =>
                 missed'[s].n = f.n /\ missed'[s].count = 1 + MissedBefore(s, f.n)
            /\ d = 0 /\ ~(whole /\ f.eot) => missed'[s] = missed[s]
<1> DEFINE f == Out(m)
           s == f.session
<1>1. f \in Frames /\ s \in Sessions /\ Sound(f, m)
  BY SentFrame
<1>2. /\ UNCHANGED <<tid, begun>>
      /\ arrived' = [arrived EXCEPT ![s] = IF whole /\ ~f.eot THEN [n |-> f.n, k |-> f.k]
                                           ELSE [n |-> 0, k |-> 0]]
      /\ last' = IF d = 0 THEN last
                 ELSE [last EXCEPT ![s] = [n |-> f.n, long |-> ~f.sot,
                                           times |-> d + IF last[s].n = f.n THEN last[s].times ELSE 0]]
      /\ missed' = [missed EXCEPT ![s] =
                      IF d > 0 THEN [n |-> 0, count |-> 0]
                      ELSE IF whole /\ f.eot
                      THEN [n |-> f.n, count |-> 1 + MissedBefore(s, f.n)]
                      ELSE missed[s]]
  BY DEF Sent
<1>3. f.n \in Nat /\ last[s].n \in Nat /\ f.n > last[s].n
  <2> HIDE DEF f
  <2> QED
    BY <1>1, FrameFields, TypedFields DEF TransferInv, Sound
<1>4. /\ arrived \in [Sessions -> [n : Nat, k : Nat]]
      /\ last \in [Sessions -> [n : Nat, times : Nat, long : BOOLEAN]]
      /\ missed \in [Sessions -> [n : Nat, count : Nat]]
  BY DEF TransferInv, TransferTyped
<1> HIDE DEF f
<1>5. \A x \in Sessions \ {s} :
        arrived'[x] = arrived[x] /\ last'[x] = last[x] /\ missed'[x] = missed[x]
  BY <1>2, <1>4
<1>6. arrived'[s] = IF whole /\ ~f.eot THEN [n |-> f.n, k |-> f.k] ELSE [n |-> 0, k |-> 0]
  BY <1>1, <1>2, <1>4
<1>7. d = 0 => last'[s] = last[s]
  BY <1>2
<1>8. d > 0 => last'[s] = [n |-> f.n, long |-> ~f.sot, times |-> d + 0]
  BY <1>1, <1>2, <1>3, <1>4
<1>9. missed'[s] = IF d > 0 THEN [n |-> 0, count |-> 0]
                   ELSE IF whole /\ f.eot
                   THEN [n |-> f.n, count |-> 1 + MissedBefore(s, f.n)]
                   ELSE missed[s]
  BY <1>1, <1>2, <1>4
<1> QED
  BY <1>2, <1>5, <1>6, <1>7, <1>8, <1>9 DEF f

(* What is left of the queue comes after the frame sent, and what is left  *)
(* of its session after its transfer, if it was handed over or ended.      *)
LEMMA SentQueue ==
  ASSUME TransferInv, NEW m \in Nodes, NEW whole \in BOOLEAN, NEW d \in Nat, Sent(m, whole, d)
  PROVE  QueueSound(m)'
<1> DEFINE f == Out(m)
           s == f.session
           q == canard'[m].txq
<1>1. /\ f \in Frames /\ f \in Queued(canard[m].txq) /\ Sound(f, m) /\ s \in Sessions /\ s[1] = m
      /\ q = Tail(canard[m].txq) /\ Ordered(q)
      /\ \A g \in Queued(q) :
           /\ g \in Queued(canard[m].txq) /\ g \in Frames /\ Sound(g, m) /\ Agree(f, g)
           /\ Precedes(f, g)
  BY SentFrame
<1>2. /\ tid' = tid /\ begun' = begun
      /\ \A x \in Sessions \ {s} : last'[x] = last[x] /\ missed'[x] = missed[x]
      /\ d = 0 => last'[s] = last[s]
      /\ d > 0 => last'[s].n = f.n
      /\ d > 0 => missed'[s] = [n |-> 0, count |-> 0]
      /\ d = 0 /\ whole /\ f.eot => missed'[s].n = f.n
      /\ d = 0 /\ ~(whole /\ f.eot) => missed'[s] = missed[s]
  BY SentHistory
<1>3. d > 0 => f.eot
  BY DEF Sent
<1>4. \A a, b \in Queued(q) : Agree(a, b)
  BY <1>1 DEF TransferInv, QueueSound
<1> HIDE DEF f, q
<1>5. ASSUME NEW g \in Queued(q) PROVE Sound(g, m)'
  <2>1. /\ g \in Frames /\ Sound(g, m) /\ Agree(f, g) /\ Precedes(f, g)
    BY <1>1
  <2>2. /\ g.session \in Sessions /\ g.n \in Nat /\ g.k \in Nat
        /\ f.n \in Nat /\ f.k \in Nat /\ f.eot \in BOOLEAN
    BY <1>1, <2>1, FrameFields
  <2>3. g.session = s => g.n > f.n \/ (g.n = f.n /\ g.k > f.k)
    <3>1. s[2] \in Nat
      BY <1>1, Sender
    <3> QED
      BY <2>1, <2>2, <3>1 DEF Precedes
  <2>4. g.session = s /\ f.eot => g.n > f.n
    BY <2>1, <2>2, <2>3 DEF Agree
  <2>5. g.n > last'[g.session].n /\ g.n > missed'[g.session].n
    <3>1. g.n > last[g.session].n /\ g.n > missed[g.session].n /\ g.n >= 1
      BY <2>1 DEF Sound
    <3>2. CASE g.session # s
      BY <1>2, <2>2, <3>1, <3>2
    <3>3. CASE g.session = s
      <4>1. g.n > last'[s].n
        BY <1>2, <1>3, <2>2, <2>4, <3>1, <3>3
      <4>2. CASE d > 0
        <5>1. missed'[s].n = 0
          BY <1>2, <4>2
        <5> QED
          BY <2>2, <3>1, <3>3, <4>1, <5>1
      <4>3. CASE d = 0 /\ whole /\ f.eot
        BY <1>2, <2>4, <3>3, <4>1, <4>3
      <4>4. CASE d = 0 /\ ~(whole /\ f.eot)
        BY <1>2, <3>1, <3>3, <4>1, <4>4
      <4> QED
        BY <4>2, <4>3, <4>4
    <3> QED
      BY <3>2, <3>3
  <2> QED
    BY <1>2, <2>1, <2>5 DEF Sound
<1>6. \A g \in Queued(q) : Sound(g, m)'
  BY <1>5
<1>7. Ordered(canard[m].txq)'
  BY <1>1 DEF q, Ordered, Precedes
<1>8. Queued(canard[m].txq)' = Queued(q)
  BY DEF Queued, q
<1>9. \A a, b \in Queued(q) : Agree(a, b)'
  BY <1>4 DEF Agree
<1> QED
  BY <1>6, <1>7, <1>8, <1>9 DEF QueueSound

(* The receiver's own queue and pool.                                      *)
LEMMA SentReceiver ==
  ASSUME TransferInv, NEW m \in Nodes, NEW whole \in BOOLEAN, NEW d \in Nat, Sent(m, whole, d)
  PROVE  /\ QueueSound(Other(m))' /\ Settled(canard'[Other(m)])
         /\ canard'[Other(m)].txq = canard[Other(m)].txq
<1> DEFINE f == Out(m)
           s == f.session
           R == Other(m)
           i == canard[R]
           c == canard'[R]
<1>1. s \in Sessions /\ s[1] = m /\ R \in Nodes /\ R # m
  BY SentFrame
<1>2. Handled(i, c, s)
  BY DEF Sent
<1>3. /\ tid' = tid /\ begun' = begun
      /\ \A x \in Sessions \ {s} : last'[x] = last[x] /\ missed'[x] = missed[x]
  BY SentHistory
<1>4. i \in Instances /\ Settled(i) /\ i.free \in Nat /\ Len(i.txq) \in Nat
  BY <1>1, InstanceOf
<1>5. c.txq = i.txq
  BY <1>2 DEF Handled
<1>6. Settled(c)
  <2> HIDE DEF c, i, s
  <2>1. /\ IsFiniteSet(HeldBy(c, DOMAIN c.rx)) /\ c \in Instances
        /\ c.free + BlocksHeld(c, DOMAIN c.rx) = i.free + BlocksHeld(i, DOMAIN i.rx)
    BY <1>2 DEF Handled
  <2>2. c.free \in Nat /\ IsFiniteSet(HeldBy(i, DOMAIN i.rx))
    BY <1>4, <2>1, Instance DEF Settled
  <2>3. BlocksHeld(c, DOMAIN c.rx) \in Nat /\ BlocksHeld(i, DOMAIN i.rx) \in Nat
    BY <2>1, <2>2, FS_CardinalityType DEF BlocksHeld, HeldBy
  <2>4. i.free + Len(i.txq) + BlocksHeld(i, DOMAIN i.rx) = Pool
    BY <1>4 DEF Settled
  <2>5. c.free + Len(c.txq) + BlocksHeld(c, DOMAIN c.rx) = Pool
    <3> DEFINE b == BlocksHeld(c, DOMAIN c.rx)
               a == BlocksHeld(i, DOMAIN i.rx)
               l == Len(i.txq)
    <3>1. /\ c.free \in Nat /\ i.free \in Nat /\ a \in Nat /\ b \in Nat /\ l \in Nat
          /\ c.free + b = i.free + a /\ i.free + l + a = Pool
      BY <1>4, <2>1, <2>2, <2>3, <2>4
    <3>2. Len(c.txq) = l
      BY <1>5
    <3> HIDE DEF a, b, l
    <3>3. c.free + l + b = Pool
      BY <3>1
    <3> QED
      BY <3>2, <3>3 DEF b
  <2> QED
    BY <2>1, <2>5 DEF Settled
<1>7. QueueSound(R)'
  <2>1. ASSUME NEW g \in Queued(i.txq)
        PROVE  /\ begun'[g.session] = begun[g.session] /\ tid'[g.session] = tid[g.session]
               /\ last'[g.session] = last[g.session] /\ missed'[g.session] = missed[g.session]
    <3>1. g.session \in Sessions /\ g.session[1] = R
      BY <1>1, SoundFields, FrameFields DEF Sound
    <3> HIDE DEF s, R
    <3> QED
      BY <1>1, <1>3, <3>1
  <2> HIDE DEF R
  <2> QED
    BY <1>1, <1>5, <2>1, SameQueue
<1> QED
  BY <1>5, <1>6, <1>7

(* The other sessions see nothing of it.                                   *)
LEMMA SentElsewhere ==
  ASSUME TransferInv, NEW m \in Nodes, NEW whole \in BOOLEAN, NEW d \in Nat, Sent(m, whole, d),
         NEW x \in Sessions, x # Out(m).session
  PROVE  SessionSound(x)'
<1> DEFINE s == Out(m).session
           R == Other(m)
           o == Other(x[1])
<1>1. s \in Sessions /\ s[1] = m /\ R \in Nodes /\ R # m
  BY SentFrame
<1>2. /\ x[1] \in Nodes /\ o \in Nodes /\ (x[1] = m => o = R) /\ (x[1] # m => x[1] = R /\ o = m)
  BY <1>1, Sender, OtherNode
<1>3. \A g \in Queued(canard'[x[1]].txq) : g \in Queued(canard[x[1]].txq)
  <2>1. CASE x[1] = m
    BY <2>1, SentFrame
  <2>2. CASE x[1] # m
    <3>1. canard'[R].txq = canard[R].txq
      BY SentReceiver
    <3> QED
      BY <1>2, <2>2, <3>1
  <2> QED
    BY <2>1, <2>2
<1>4. /\ x \in DOMAIN canard'[o].rx => x \in DOMAIN canard[o].rx
      /\ x \in DOMAIN canard'[o].rx => canard'[o].rx[x] = canard[o].rx[x]
      /\ x \in DOMAIN canard[o].rx => x \in DOMAIN canard'[o].rx
  <2>1. CASE x[1] = m
    <3>1. Handled(canard[R], canard'[R], s)
      BY DEF Sent
    <3>2. /\ DOMAIN canard'[R].rx \ {s} = DOMAIN canard[R].rx \ {s}
          /\ \A y \in DOMAIN canard[R].rx \ {s} : canard'[R].rx[y] = canard[R].rx[y]
      BY <3>1 DEF Handled
    <3> QED
      BY <1>2, <2>1, <3>2
  <2>2. CASE x[1] # m
    <3>1. canard'[m].rx = canard[m].rx
      BY SentFrame
    <3> QED
      BY <1>2, <2>2, <3>1
  <2> QED
    BY <2>1, <2>2
<1>5. /\ tid'[x] = tid[x] /\ begun'[x] = begun[x] /\ arrived'[x] = arrived[x]
      /\ missed'[x] = missed[x]
  <2>1. x \in Sessions \ {s}
    OBVIOUS
  <2>2. /\ tid' = tid /\ begun' = begun
        /\ \A y \in Sessions \ {s} : arrived'[y] = arrived[y] /\ missed'[y] = missed[y]
    BY SentHistory
  <2> QED
    BY <2>1, <2>2
<1>6. Following(x) /\ AfterMiss(x) /\ missed[x].count <= 2
  BY DEF TransferInv, SessionSound
<1> HIDE DEF o
<1>7. Following(x)'
  <2> SUFFICES ASSUME NEW g \in Queued(canard[x[1]].txq)', g.session = x, ~g.late,
                      arrived'[x].k > 0, g.n = arrived'[x].n
               PROVE  /\ x \in DOMAIN canard'[o].rx /\ canard'[o].rx[x].age # 2
                      /\ Follows(canard'[o].rx[x], g.tid, arrived'[x],
                                 MissedBefore(x, arrived[x].n))
    BY <1>5 DEF Following, MissedBefore, o
  <2>1. g \in Queued(canard[x[1]].txq)
    BY <1>3 DEF Queued
  <2>2. /\ x \in DOMAIN canard[o].rx /\ canard[o].rx[x].age # 2
        /\ Follows(canard[o].rx[x], g.tid, arrived[x], MissedBefore(x, arrived[x].n))
    BY <1>5, <1>6, <2>1 DEF Following, o
  <2> QED
    BY <1>4, <1>5, <2>2
<1>8. AfterMiss(x)'
  <2> SUFFICES ASSUME missed[x].count > 0, x \in DOMAIN canard'[o].rx, canard'[o].rx[x].age # 2
               PROVE  /\ \A g \in Queued(canard[x[1]].txq)' :
                           g.session = x /\ g.n = missed[x].n + 1 /\ g.k = 1 =>
                             Waits(canard'[o].rx[x], g.tid, missed[x].count)
                      /\ begun[x] = missed[x].n =>
                           Waits(canard'[o].rx[x], tid[x], missed[x].count)
    BY <1>5 DEF AfterMiss, o
  <2>1. \A g \in Queued(canard[x[1]].txq)' : g \in Queued(canard[x[1]].txq)
    BY <1>3 DEF Queued
  <2> QED
    BY <1>4, <1>6, <2>1 DEF AfterMiss, o
<1> QED
  BY <1>5, <1>6, <1>7, <1>8 DEF SessionSound

(* The state of the frame's own session when it goes out: a transfer that  *)
(* came in whole so far is followed, and after misses the state waits.     *)
LEMMA BeforeSent ==
  ASSUME TransferInv, NEW m \in Nodes, NEW whole \in BOOLEAN, NEW d \in Nat, Sent(m, whole, d)
  PROVE  LET f == Out(m)
             s == f.session
             i == canard[Other(m)]
             c == MissedBefore(s, f.n)
         IN /\ f.n \in Nat /\ f.k \in Nat /\ f.k >= 1 /\ f.tid \in TidSet /\ f.sot \in BOOLEAN
            /\ f.eot \in BOOLEAN /\ f.toggle = (f.k - 1) % 2 /\ (f.sot <=> f.k = 1)
            /\ c \in Nat /\ c <= 2
            /\ whole /\ ~f.sot =>
                 /\ s \in DOMAIN i.rx /\ i.rx[s].age # 2
                 /\ Follows(i.rx[s], f.tid, [n |-> f.n, k |-> f.k - 1], c)
            /\ f.sot /\ c > 0 /\ s \in DOMAIN i.rx /\ i.rx[s].age # 2 => Waits(i.rx[s], f.tid, c)
<1> DEFINE f == Out(m)
           s == f.session
           i == canard[Other(m)]
           c == MissedBefore(s, f.n)
<1>1. /\ f \in Frames /\ f \in Queued(canard[m].txq) /\ Sound(f, m) /\ ~f.late
      /\ s \in Sessions /\ s[1] = m
  BY SentFrame
<1>2. whole => f.sot \/ arrived[s] = [n |-> f.n, k |-> f.k - 1]
  BY DEF Sent
<1> HIDE DEF f
<1>3. /\ f.n \in Nat /\ f.k \in Nat /\ f.k >= 1 /\ f.tid \in TidSet /\ f.sot \in BOOLEAN
      /\ f.eot \in BOOLEAN /\ f.toggle = (f.k - 1) % 2 /\ (f.sot <=> f.k = 1)
  BY <1>1, FrameFields DEF Sound
<1>4. Following(s) /\ AfterMiss(s) /\ missed[s].count <= 2
  BY <1>1 DEF TransferInv, SessionSound
<1>5. c \in Nat /\ c <= 2 /\ (c > 0 => missed[s].n = f.n - 1 /\ c = missed[s].count)
  <2>1. missed[s].count \in Nat /\ missed[s].n \in Nat
    BY <1>1, TypedFields DEF TransferInv
  <2> QED
    BY <1>3, <1>4, <2>1 DEF MissedBefore
<1>6. ASSUME whole, ~f.sot
      PROVE  /\ s \in DOMAIN i.rx /\ i.rx[s].age # 2
             /\ Follows(i.rx[s], f.tid, [n |-> f.n, k |-> f.k - 1], c)
  <2>1. arrived[s] = [n |-> f.n, k |-> f.k - 1]
    BY <1>2, <1>6
  <2>2. arrived[s].n = f.n /\ arrived[s].k = f.k - 1
    BY <2>1
  <2>3. arrived[s].k > 0
    BY <1>3, <1>6, <2>2
  <2>4. /\ s \in DOMAIN canard[Other(s[1])].rx /\ canard[Other(s[1])].rx[s].age # 2
        /\ Follows(canard[Other(s[1])].rx[s], f.tid, arrived[s], MissedBefore(s, arrived[s].n))
    BY <1>1, <1>4, <2>2, <2>3 DEF Following
  <2> QED
    BY <1>1, <2>1, <2>2, <2>4
<1>7. ASSUME f.sot, c > 0, s \in DOMAIN i.rx, i.rx[s].age # 2
      PROVE  Waits(i.rx[s], f.tid, c)
  <2>1. missed[s].count > 0 /\ f.n = missed[s].n + 1 /\ f.k = 1 /\ c = missed[s].count
    <3>1. missed[s].n \in Nat
      BY <1>1, TypedFields DEF TransferInv
    <3> HIDE DEF c
    <3> QED
      BY <1>3, <1>5, <1>7, <3>1
  <2> QED
    BY <1>1, <1>4, <1>7, <2>1 DEF AfterMiss
<1> HIDE DEF c, i
<1> QED
  BY <1>3, <1>5, <1>6, <1>7 DEF f, c, i

LEMMA Parity ==
  ASSUME NEW k \in Nat, k >= 1
  PROVE  1 - ((k - 1) % 2) = k % 2 /\ (k - 1) % 2 \in 0..1 /\ 1 % 2 = 1 /\ 0 % 2 = 0
OBVIOUS

(* A frame of a transfer that comes in whole leaves the state following it.*)
LEMMA StillFollowed ==
  ASSUME TransferInv, NEW m \in Nodes, NEW d \in Nat, Sent(m, TRUE, d), ~Out(m).eot
  PROVE  LET f == Out(m)
             s == f.session
             j == canard'[Other(m)]
         IN /\ s \in DOMAIN j.rx /\ j.rx[s].age # 2
            /\ Follows(j.rx[s], f.tid, [n |-> f.n, k |-> f.k], MissedBefore(s, f.n))
<1> DEFINE f == Out(m)
           s == f.session
           i == canard[Other(m)]
           c == HandleRxFrame(i, f)
           j == canard'[Other(m)]
           b == MissedBefore(s, f.n)
           a == [n |-> f.n, k |-> f.k]
<1>1. f \in Frames /\ i \in Instances
  BY SentFrame, InstanceOf
<1>2. c.what # "no_memory" /\ j = c.canard
  BY DEF Sent
<1>3. /\ f.n \in Nat /\ f.k \in Nat /\ f.k >= 1 /\ f.tid \in TidSet /\ f.sot \in BOOLEAN
      /\ f.toggle = (f.k - 1) % 2 /\ (f.sot <=> f.k = 1) /\ b \in Nat /\ b <= 2
      /\ ~f.sot =>
           /\ s \in DOMAIN i.rx /\ i.rx[s].age # 2
           /\ Follows(i.rx[s], f.tid, [n |-> f.n, k |-> f.k - 1], b)
      /\ f.sot /\ b > 0 /\ s \in DOMAIN i.rx /\ i.rx[s].age # 2 => Waits(i.rx[s], f.tid, b)
  BY BeforeSent
<1>4. a.n = f.n /\ a.k = f.k
  OBVIOUS
<1> HIDE DEF f, i, b, a
<1>5. 1 - ((f.k - 1) % 2) = f.k % 2 /\ (f.k - 1) % 2 \in 0..1 /\ 1 % 2 = 1 /\ 0 % 2 = 0
  BY <1>3, Parity
<1>6. IncrementTransferID(f.tid) # f.tid
  BY <1>3, NextTid
<1>7. CASE f.sot
  <2>1. f.toggle = 0 /\ f.k % 2 = 1
    BY <1>3, <1>5, <1>7
  <2>2. \/ /\ c.what = "stored" /\ s \in DOMAIN c.canard.rx
           /\ c.canard.rx[s].tid = f.tid /\ c.canard.rx[s].toggle = 1
           /\ c.canard.rx[s].n = f.n /\ c.canard.rx[s].k = f.k /\ c.canard.rx[s].age = 0
        \/ /\ c.what = "dropped" /\ c.canard = i
           /\ s \in DOMAIN i.rx /\ i.rx[s].age # 2
           /\ \/ i.rx[s].tid = IncrementTransferID(f.tid)
              \/ i.rx[s].tid = f.tid /\ i.rx[s].toggle = 1
    BY <1>1, <1>2, <1>7, <2>1, FirstFrame DEF f
  <2> HIDE DEF c, s
  <2>3. CASE /\ s \in DOMAIN c.canard.rx
             /\ c.canard.rx[s].tid = f.tid /\ c.canard.rx[s].toggle = 1
             /\ c.canard.rx[s].n = f.n /\ c.canard.rx[s].k = f.k /\ c.canard.rx[s].age = 0
    <3>1. Follows(c.canard.rx[s], f.tid, a, b)
      BY <1>4, <2>1, <2>3 DEF Follows
    <3> QED
      BY <1>2, <2>3, <3>1 DEF f, s, a, b
  <2>4. CASE /\ c.canard = i /\ s \in DOMAIN i.rx /\ i.rx[s].age # 2
             /\ \/ i.rx[s].tid = IncrementTransferID(f.tid)
                \/ i.rx[s].tid = f.tid /\ i.rx[s].toggle = 1
    <3>1. b > 0 => i.rx[s].tid = f.tid /\ (b = 2 => i.rx[s].toggle = 0)
      BY <1>3, <1>7, <2>4 DEF Waits
    <3>2. Follows(i.rx[s], f.tid, a, b)
      <4>1. CASE i.rx[s].tid = IncrementTransferID(f.tid)
        <5>1. b = 0
          BY <1>3, <1>6, <3>1, <4>1
        <5> QED
          BY <4>1, <5>1 DEF Follows
      <4>2. CASE i.rx[s].tid = f.tid /\ i.rx[s].toggle = 1
        <5>1. b <= 1
          BY <1>3, <3>1, <4>2
        <5> QED
          BY <1>4, <2>1, <4>2, <5>1 DEF Follows
      <4> QED
        BY <2>4, <4>1, <4>2
    <3> QED
      BY <1>2, <2>4, <3>2 DEF f, s, a, b
  <2> QED
    BY <2>2, <2>3, <2>4
<1>8. CASE ~f.sot
  <2> DEFINE r == i.rx[s]
             q == c.canard.rx[s]
             z == [n |-> f.n, k |-> f.k - 1]
  <2>1. s \in DOMAIN i.rx /\ r.age # 2 /\ Follows(r, f.tid, z, b)
    BY <1>3, <1>8
  <2>2. z.n = f.n /\ z.k = f.k - 1
    OBVIOUS
  <2>3. /\ s \in DOMAIN c.canard.rx /\ q.age = r.age
        /\ IF Takes(r, f)
           THEN /\ q.tid = f.tid /\ q.toggle = 1 - f.toggle
                /\ r.n = f.n /\ r.k > 0 /\ r.k = f.k - 1 => q.n = f.n /\ q.k = f.k
           ELSE q = r
    <3>1. ~f.eot
      BY DEF f
    <3> QED
      BY <1>1, <1>2, <1>8, <2>1, <3>1, MiddleFrame
  <2> HIDE DEF c, s, r, q, z
  <2>4. f.k - 1 > 0
    BY <1>3, <1>8
  <2>5. Follows(q, f.tid, a, b)
    <3>1. CASE r.tid = f.tid /\ r.toggle = (f.k - 1) % 2 /\ r.n = f.n /\ r.k = f.k - 1
      <4>1. Takes(r, f)
        BY <1>3, <3>1 DEF Takes
      <4>2. q.tid = f.tid /\ q.toggle = 1 - f.toggle /\ q.n = f.n /\ q.k = f.k
        BY <2>3, <2>4, <3>1, <4>1
      <4> QED
        BY <1>3, <1>4, <1>5, <4>2 DEF Follows
    <3>2. CASE r.tid = f.tid /\ r.toggle = (f.k - 1) % 2 /\ b <= 1
      <4>1. Takes(r, f)
        BY <1>3, <3>2 DEF Takes
      <4>2. q.tid = f.tid /\ q.toggle = 1 - f.toggle
        BY <2>3, <4>1
      <4> QED
        BY <1>3, <1>4, <1>5, <3>2, <4>2 DEF Follows
    <3>3. CASE r.tid = IncrementTransferID(f.tid) /\ b = 0
      <4>1. ~Takes(r, f)
        BY <1>6, <3>3 DEF Takes
      <4>2. q = r
        BY <2>3, <4>1
      <4> QED
        BY <3>3, <4>2 DEF Follows
    <3> QED
      BY <2>1, <2>2, <3>1, <3>2, <3>3 DEF Follows
  <2> QED
    BY <1>2, <2>1, <2>3, <2>5 DEF f, s, a, b, q
<1> QED
  BY <1>7, <1>8

(* A whole arrival not handed over leaves a state in use waiting for the   *)
(* next transfer, and there were not two before it.                        *)
LEMMA WaitsAfter ==
  ASSUME TransferInv, NEW m \in Nodes, Sent(m, TRUE, 0), Out(m).eot
  PROVE  LET f == Out(m)
             s == f.session
             j == canard'[Other(m)]
             b == MissedBefore(s, f.n)
         IN /\ b \in Nat /\ 1 + b <= 2
            /\ s \in DOMAIN j.rx =>
                 Waits(j.rx[s], IncrementTransferID(f.tid), 1 + b)
<1> DEFINE f == Out(m)
           s == f.session
           i == canard[Other(m)]
           c == HandleRxFrame(i, f)
           j == canard'[Other(m)]
           b == MissedBefore(s, f.n)
<1>1. f \in Frames /\ i \in Instances
  BY SentFrame, InstanceOf
<1>2. c.what # "no_memory" /\ j = c.canard /\ c.what # "delivered"
  BY DEF Sent
<1>3. /\ f.n \in Nat /\ f.k \in Nat /\ f.k >= 1 /\ f.tid \in TidSet /\ f.sot \in BOOLEAN
      /\ f.toggle = (f.k - 1) % 2 /\ (f.sot <=> f.k = 1) /\ b \in Nat /\ b <= 2
      /\ ~f.sot =>
           /\ s \in DOMAIN i.rx /\ i.rx[s].age # 2
           /\ Follows(i.rx[s], f.tid, [n |-> f.n, k |-> f.k - 1], b)
  BY BeforeSent
<1>4. f.eot
  OBVIOUS
<1>5. ~f.sot
  <2> HIDE DEF f, i
  <2> QED
    BY <1>1, <1>2, <1>4, DeliversSingle
<1> HIDE DEF f, i, b
<1> DEFINE r == i.rx[s]
           q == c.canard.rx[s]
           z == [n |-> f.n, k |-> f.k - 1]
<1>6. s \in DOMAIN i.rx /\ r.age # 2 /\ Follows(r, f.tid, z, b)
  BY <1>3, <1>5
<1>7. z.n = f.n /\ z.k = f.k - 1
  OBVIOUS
<1>8. IF Takes(r, f)
      THEN /\ q.tid = IncrementTransferID(f.tid) /\ q.toggle = 0
           /\ c.what = "delivered" <=> CrcMatches(r, f)
      ELSE q = r
  BY <1>1, <1>4, <1>5, <1>6, LastFrame
<1> HIDE DEF c, s, r, q, z
<1>9. IncrementTransferID(f.tid) # f.tid
  BY <1>3, NextTid
<1>10. b <= 1 /\ Waits(q, IncrementTransferID(f.tid), 1 + b)
  <2>1. ~(r.tid = f.tid /\ r.toggle = (f.k - 1) % 2 /\ r.n = f.n /\ r.k = f.k - 1)
    <3> SUFFICES ASSUME r.tid = f.tid, r.toggle = (f.k - 1) % 2, r.n = f.n, r.k = f.k - 1
                 PROVE  FALSE
      OBVIOUS
    <3>1. Takes(r, f) /\ CrcMatches(r, f)
      BY <1>3, <1>5 DEF Takes, CrcMatches
    <3> QED
      BY <1>2, <1>8, <3>1
  <2>2. CASE r.tid = f.tid /\ r.toggle = (f.k - 1) % 2 /\ b <= 1
    <3>1. Takes(r, f)
      BY <1>3, <2>2 DEF Takes
    <3> QED
      BY <1>8, <2>2, <3>1 DEF Waits
  <2>3. CASE r.tid = IncrementTransferID(f.tid) /\ b = 0
    <3>1. ~Takes(r, f)
      BY <1>9, <2>3 DEF Takes
    <3> QED
      BY <1>8, <2>3, <3>1 DEF Waits
  <2> QED
    BY <1>6, <1>7, <2>1, <2>2, <2>3 DEF Follows
<1> QED
  BY <1>2, <1>3, <1>10 DEF f, s, b, q

(* What is queued behind the frame sent, of its session.                   *)
LEMMA BehindSent ==
  ASSUME TransferInv, NEW m \in Nodes, NEW whole \in BOOLEAN, NEW d \in Nat, Sent(m, whole, d),
         NEW g \in Queued(canard'[m].txq), g.session = Out(m).session
  PROVE  LET f == Out(m)
         IN /\ g.n \in Nat /\ g.k \in Nat /\ g.k >= 1
            /\ g.n > f.n \/ (g.n = f.n /\ g.k > f.k /\ g.tid = f.tid /\ ~f.eot)
            /\ f.eot /\ g.n = f.n + 1 => g.tid = IncrementTransferID(f.tid)
<1> DEFINE f == Out(m)
           s == f.session
<1>1. /\ f \in Frames /\ g \in Frames /\ Sound(g, m) /\ Agree(f, g) /\ Precedes(f, g)
      /\ s \in Sessions
  BY SentFrame
<1> HIDE DEF f
<1>2. /\ g.n \in Nat /\ g.k \in Nat /\ f.n \in Nat /\ f.k \in Nat /\ f.eot \in BOOLEAN
      /\ g.k >= 1 /\ s[2] \in Nat
  BY <1>1, FrameFields, Sender DEF Sound
<1>3. g.session = s
  BY DEF f
<1>4. g.n > f.n \/ (g.n = f.n /\ g.k > f.k)
  BY <1>1, <1>2, <1>3 DEF Precedes
<1>5. /\ g.n = f.n => g.tid = f.tid /\ (f.eot => g.k <= f.k)
      /\ f.eot /\ g.n = f.n + 1 => g.tid = IncrementTransferID(f.tid)
  BY <1>1, <1>3 DEF Agree
<1> QED
  BY <1>2, <1>4, <1>5 DEF f

(* The session of the frame sent.                                          *)
LEMMA SentSession ==
  ASSUME TransferInv, NEW m \in Nodes, NEW whole \in BOOLEAN, NEW d \in Nat, Sent(m, whole, d),
         NEW s \in Sessions, s = Out(m).session
  PROVE  SessionSound(s)'
<1> DEFINE f == Out(m)
           R == Other(m)
           b == MissedBefore(s, f.n)
<1>1. f \in Frames /\ Sound(f, m) /\ s = f.session /\ s[1] = m /\ R \in Nodes
  BY SentFrame
<1>2. /\ tid' = tid /\ begun' = begun
      /\ arrived'[s] = IF whole /\ ~f.eot THEN [n |-> f.n, k |-> f.k] ELSE [n |-> 0, k |-> 0]
      /\ d > 0 => missed'[s] = [n |-> 0, count |-> 0]
      /\ d = 0 /\ whole /\ f.eot => missed'[s].n = f.n /\ missed'[s].count = 1 + b
      /\ d = 0 /\ ~(whole /\ f.eot) => missed'[s] = missed[s]
  BY SentHistory
<1>3. d > 0 => f.eot
  BY DEF Sent
<1>4. ASSUME NEW g \in Queued(canard'[m].txq), g.session = s
      PROVE  /\ g.n \in Nat /\ g.k \in Nat /\ g.k >= 1
             /\ g.n > f.n \/ (g.n = f.n /\ g.k > f.k /\ g.tid = f.tid /\ ~f.eot)
             /\ f.eot /\ g.n = f.n + 1 => g.tid = IncrementTransferID(f.tid)
  BY <1>4, BehindSent
<1>5. ASSUME whole, ~f.eot
      PROVE  /\ s \in DOMAIN canard'[R].rx /\ canard'[R].rx[s].age # 2
             /\ Follows(canard'[R].rx[s], f.tid, [n |-> f.n, k |-> f.k], b)
  <2>1. Sent(m, TRUE, d)
    <3>1. whole = TRUE
      BY <1>5
    <3> QED
      BY <3>1
  <2> QED
    BY <1>5, <2>1, StillFollowed
<1>6. ASSUME whole, f.eot, d = 0
      PROVE  /\ 1 + b <= 2
             /\ s \in DOMAIN canard'[R].rx =>
                  Waits(canard'[R].rx[s], IncrementTransferID(f.tid), 1 + b)
  <2>1. Sent(m, TRUE, 0)
    <3>1. whole = TRUE /\ d = 0
      BY <1>6
    <3> QED
      BY <3>1
  <2> QED
    BY <1>6, <2>1, WaitsAfter
<1>7. /\ f.n \in Nat /\ f.k \in Nat /\ f.k >= 1 /\ f.eot \in BOOLEAN
      /\ f.n > missed[s].n /\ f.n <= begun[s] /\ missed[s].n \in Nat /\ begun[s] \in Nat
      /\ f.eot /\ f.n = begun[s] => tid[s] = IncrementTransferID(f.tid)
  <2> HIDE DEF f
  <2> QED
    BY <1>1, FrameFields, TypedFields DEF TransferInv, Sound
<1>8. missed[s].count <= 2
  BY <1>1 DEF TransferInv, SessionSound
<1>9. Other(s[1]) = R
  BY <1>1
<1> HIDE DEF f, b, R
<1>10. Following(s)'
  <2> SUFFICES ASSUME NEW g \in Queued(canard[s[1]].txq)', g.session = s, ~g.late,
                      arrived'[s].k > 0, g.n = arrived'[s].n
               PROVE  /\ s \in DOMAIN canard'[R].rx /\ canard'[R].rx[s].age # 2
                      /\ Follows(canard'[R].rx[s], g.tid, arrived'[s],
                                 IF missed'[s].n = arrived'[s].n - 1 THEN missed'[s].count ELSE 0)
    BY <1>9 DEF Following, MissedBefore
  <2>1. g \in Queued(canard'[m].txq)
    BY <1>1 DEF Queued
  <2>2. whole /\ ~f.eot
    <3>1. [n |-> 0, k |-> 0].k = 0
      OBVIOUS
    <3> QED
      BY <1>2, <3>1
  <2>3. arrived'[s] = [n |-> f.n, k |-> f.k] /\ arrived'[s].n = f.n
    BY <1>2, <2>2
  <2>4. missed'[s] = missed[s]
    BY <1>2, <1>3, <2>2
  <2>5. g.tid = f.tid
    BY <1>4, <1>7, <2>1, <2>3
  <2>6. b = IF missed'[s].n = arrived'[s].n - 1 THEN missed'[s].count ELSE 0
    BY <2>3, <2>4 DEF b, MissedBefore
  <2>7. /\ s \in DOMAIN canard'[R].rx /\ canard'[R].rx[s].age # 2
        /\ Follows(canard'[R].rx[s], f.tid, arrived'[s], b)
    BY <1>5, <2>2, <2>3
  <2> QED
    BY <2>5, <2>6, <2>7
<1>11. AfterMiss(s)' /\ missed'[s].count <= 2
  <2>1. CASE d > 0
    <3>1. missed'[s].count = 0
      BY <1>2, <2>1
    <3> QED
      BY <3>1 DEF AfterMiss
  <2>2. CASE d = 0 /\ whole /\ f.eot
    <3>1. missed'[s].n = f.n /\ missed'[s].count = 1 + b
      BY <1>2, <2>2
    <3>2. 1 + b <= 2
      BY <1>6, <2>2
    <3>3. ASSUME s \in DOMAIN canard'[R].rx
          PROVE  /\ \A g \in Queued(canard[s[1]].txq)' :
                      g.session = s /\ g.n = missed'[s].n + 1 /\ g.k = 1 =>
                        Waits(canard'[R].rx[s], g.tid, missed'[s].count)
                 /\ begun'[s] = missed'[s].n => Waits(canard'[R].rx[s], tid'[s], missed'[s].count)
      <4>1. Waits(canard'[R].rx[s], IncrementTransferID(f.tid), missed'[s].count)
        BY <1>6, <2>2, <3>1, <3>3
      <4>2. ASSUME NEW g \in Queued(canard[s[1]].txq)', g.session = s, g.n = missed'[s].n + 1
            PROVE  g.tid = IncrementTransferID(f.tid)
        <5>1. g \in Queued(canard'[m].txq)
          BY <1>1 DEF Queued
        <5> QED
          BY <1>4, <2>2, <3>1, <4>2, <5>1
      <4>3. begun'[s] = missed'[s].n => tid'[s] = IncrementTransferID(f.tid)
        BY <1>2, <1>7, <2>2, <3>1
      <4> QED
        BY <4>1, <4>2, <4>3
    <3>4. AfterMiss(s)'
      BY <1>9, <3>3 DEF AfterMiss
    <3> QED
      BY <3>1, <3>2, <3>4
  <2>3. CASE d = 0 /\ ~(whole /\ f.eot)
    <3>1. missed'[s] = missed[s]
      BY <1>2, <2>3
    <3>2. ASSUME NEW g \in Queued(canard[s[1]].txq)', g.session = s
          PROVE  ~(g.n = missed'[s].n + 1 /\ g.k = 1)
      <4>1. g \in Queued(canard'[m].txq)
        BY <1>1 DEF Queued
      <4>2. /\ g.n \in Nat /\ g.k \in Nat /\ g.k >= 1
            /\ g.n > f.n \/ (g.n = f.n /\ g.k > f.k)
        BY <1>4, <3>2, <4>1
      <4> QED
        BY <1>7, <3>1, <4>2
    <3>3. begun'[s] # missed'[s].n
      BY <1>2, <1>7, <3>1
    <3>4. AfterMiss(s)'
      BY <3>2, <3>3 DEF AfterMiss
    <3> QED
      BY <1>8, <3>1, <3>4
  <2> QED
    <3>1. d = 0 \/ d > 0
      OBVIOUS
    <3> QED
      BY <2>1, <2>2, <2>3, <3>1
<1> QED
  BY <1>10, <1>11 DEF SessionSound

LEMMA SentTyped ==
  ASSUME TransferInv, NEW m \in Nodes, NEW whole \in BOOLEAN, NEW d \in Nat, Sent(m, whole, d)
  PROVE  TransferTyped'
<1> DEFINE f == Out(m)
           s == f.session
<1>1. f \in Frames /\ Sound(f, m) /\ s \in Sessions /\ canard' \in [Nodes -> Instances]
  BY SentFrame
<1>2. /\ UNCHANGED <<tid, begun>>
      /\ arrived' = [arrived EXCEPT ![s] = IF whole /\ ~f.eot THEN [n |-> f.n, k |-> f.k]
                                           ELSE [n |-> 0, k |-> 0]]
      /\ last' = IF d = 0 THEN last
                 ELSE [last EXCEPT ![s] = [n |-> f.n, long |-> ~f.sot,
                                           times |-> d + IF last[s].n = f.n THEN last[s].times ELSE 0]]
      /\ missed' = [missed EXCEPT ![s] =
                      IF d > 0 THEN [n |-> 0, count |-> 0]
                      ELSE IF whole /\ f.eot
                      THEN [n |-> f.n, count |-> 1 + MissedBefore(s, f.n)]
                      ELSE missed[s]]
  BY DEF Sent
<1> HIDE DEF f
<1>3. /\ f.n \in Nat /\ f.k \in Nat /\ f.sot \in BOOLEAN /\ f.n <= begun[s] /\ begun[s] \in Nat
      /\ last[s].n \in Nat /\ last[s].times \in Nat /\ missed[s] \in [n : Nat, count : Nat]
      /\ missed[s].n \in Nat /\ missed[s].count \in Nat
  BY <1>1, FrameFields, TypedFields DEF TransferInv, TransferTyped, Sound
<1>4. MissedBefore(s, f.n) \in Nat
  BY <1>3 DEF MissedBefore
<1>5. /\ arrived \in [Sessions -> [n : Nat, k : Nat]]
      /\ last \in [Sessions -> [n : Nat, times : Nat, long : BOOLEAN]]
      /\ missed \in [Sessions -> [n : Nat, count : Nat]]
      /\ tid \in [Sessions -> TidSet] /\ begun \in [Sessions -> Nat]
  BY DEF TransferInv, TransferTyped
<1>6. arrived' \in [Sessions -> [n : Nat, k : Nat]]
  BY <1>2, <1>3, <1>5
<1>7. last' \in [Sessions -> [n : Nat, times : Nat, long : BOOLEAN]]
  <2> DEFINE v == [n |-> f.n, long |-> ~f.sot,
                   times |-> d + (IF last[s].n = f.n THEN last[s].times ELSE 0)]
  <2>1. d + (IF last[s].n = f.n THEN last[s].times ELSE 0) \in Nat
    BY <1>3
  <2>2. v \in [n : Nat, times : Nat, long : BOOLEAN]
    BY <1>3, <2>1
  <2>3. last' = IF d = 0 THEN last ELSE [last EXCEPT ![s] = v]
    BY <1>2
  <2> HIDE DEF v
  <2> QED
    BY <1>5, <2>2, <2>3
<1>8. missed' \in [Sessions -> [n : Nat, count : Nat]]
  <2> DEFINE v == IF d > 0 THEN [n |-> 0, count |-> 0]
                  ELSE IF whole /\ f.eot
                  THEN [n |-> f.n, count |-> 1 + MissedBefore(s, f.n)]
                  ELSE missed[s]
  <2>1. v \in [n : Nat, count : Nat]
    BY <1>3, <1>4
  <2>2. missed' = [missed EXCEPT ![s] = v]
    BY <1>2
  <2> HIDE DEF v
  <2> QED
    BY <1>5, <2>1, <2>2
<1>9. ASSUME NEW x \in Sessions
      PROVE  last'[x].n <= begun'[x] /\ missed'[x].n <= begun'[x] /\ arrived'[x].n <= begun'[x]
  <2>1. /\ begun' = begun
        /\ \A y \in Sessions \ {s} :
             arrived'[y] = arrived[y] /\ last'[y] = last[y] /\ missed'[y] = missed[y]
        /\ arrived'[s] = IF whole /\ ~f.eot THEN [n |-> f.n, k |-> f.k] ELSE [n |-> 0, k |-> 0]
        /\ d = 0 => last'[s] = last[s]
        /\ d > 0 => last'[s].n = f.n
        /\ d > 0 => missed'[s] = [n |-> 0, count |-> 0]
        /\ d = 0 /\ whole /\ f.eot => missed'[s].n = f.n
        /\ d = 0 /\ ~(whole /\ f.eot) => missed'[s] = missed[s]
    BY SentHistory DEF f
  <2>2. /\ last[x].n <= begun[x] /\ missed[x].n <= begun[x] /\ arrived[x].n <= begun[x]
        /\ last[x].n \in Nat /\ missed[x].n \in Nat /\ arrived[x].n \in Nat /\ begun[x] \in Nat
    BY TypedFields DEF TransferInv
  <2>3. CASE x # s
    BY <2>1, <2>2, <2>3
  <2>4. CASE x = s
    <3>1. last'[s].n <= begun[s]
      BY <1>3, <2>1, <2>2, <2>4
    <3>2. arrived'[s].n <= begun[s]
      BY <1>3, <2>1
    <3>3. missed'[s].n <= begun[s]
      <4>1. [n |-> 0, count |-> 0].n = 0
        OBVIOUS
      <4>2. CASE d > 0
        BY <1>3, <2>1, <4>1, <4>2
      <4>3. CASE d = 0
        BY <1>3, <2>1, <2>2, <2>4, <4>3
      <4> QED
        BY <4>2, <4>3
    <3> QED
      BY <2>1, <2>4, <3>1, <3>2, <3>3
  <2> QED
    BY <2>3, <2>4
<1> QED
  BY <1>1, <1>2, <1>5, <1>6, <1>7, <1>8, <1>9 DEF TransferTyped

LEMMA TransmitKeeps ==
  ASSUME TransferInv, NEW m \in Nodes, NEW copies \in 0..2, Transmit(m, copies)
  PROVE  TransferInv'
<1>1. PICK whole \in BOOLEAN, d \in Nat : Sent(m, whole, d)
  BY TransmitIs
<1>2. TransferTyped'
  BY <1>1, SentTyped
<1>3. ASSUME NEW o \in Nodes PROVE Settled(canard[o])' /\ QueueSound(o)'
  <2>1. Settled(canard'[o]) /\ QueueSound(o)'
    <3>1. Settled(canard'[m]) /\ QueueSound(m)'
      BY <1>1, SentFrame, SentQueue
    <3>2. Settled(canard'[Other(m)]) /\ QueueSound(Other(m))'
      BY <1>1, SentReceiver
    <3>3. o = m \/ o = Other(m)
      BY OtherNode
    <3> QED
      BY <3>1, <3>2, <3>3
  <2> QED
    BY <2>1 DEF Settled, HeldBy, BlocksHeld
<1>4. ASSUME NEW x \in Sessions PROVE SessionSound(x)'
  <2>1. CASE x = Out(m).session
    BY <1>1, <2>1, SentSession
  <2>2. CASE x # Out(m).session
    BY <1>1, <2>2, SentElsewhere
  <2> QED
    BY <2>1, <2>2
<1> QED
  BY <1>2, <1>3, <1>4 DEF TransferInv

-----------------------------------------------------------------------------
(* The whole module.                                                       *)

LEMMA TransferStep ==
  TransferInv /\ [TransferNext]_transferVars => TransferInv'
<1> SUFFICES ASSUME TransferInv, [TransferNext]_transferVars PROVE TransferInv'
  OBVIOUS
<1>1. ASSUME NEW s \in Sessions, NEW len \in Lengths[s], Broadcast(s, len) PROVE TransferInv'
  BY <1>1, BroadcastKeeps
<1>2. ASSUME NEW m \in Nodes, NEW copies \in 0..2, Transmit(m, copies) PROVE TransferInv'
  BY <1>2, TransmitKeeps
<1>3. ASSUME NEW m \in Nodes, DropLate(m) PROVE TransferInv'
  BY <1>3, DropLateQuiet, QuietKeeps
<1>4. ASSUME NEW m \in Nodes, CleanupStaleTransfers(m) PROVE TransferInv'
  BY <1>4, CleanupQuiet, QuietKeeps
<1>5. ASSUME NEW m \in Nodes, ClearTxQueue(m) PROVE TransferInv'
  BY <1>5, ClearQuiet, QuietKeeps
<1>6. ASSUME NEW m \in Nodes, Recover(m) PROVE TransferInv'
  BY <1>6, RecoverQuiet, QuietKeeps
<1>7. ASSUME Wait PROVE TransferInv'
  BY <1>7, WaitQuiet, QuietKeeps
<1>8. ASSUME UNCHANGED transferVars PROVE TransferInv'
  <2>1. /\ canard' = canard /\ tid' = tid /\ begun' = begun /\ last' = last
        /\ arrived' = arrived /\ missed' = missed
    BY <1>8 DEF transferVars
  <2>2. TransferTyped'
    BY <2>1 DEF TransferInv, TransferTyped
  <2>3. \A m \in Nodes : Settled(canard[m])'
    BY <2>1 DEF TransferInv, Settled, HeldBy, BlocksHeld
  <2>4. \A m \in Nodes : QueueSound(m)'
    BY <2>1, SameQueue DEF TransferInv
  <2>5. \A s \in Sessions : SessionSound(s)'
    BY <2>1 DEF TransferInv, SessionSound, Following, AfterMiss, MissedBefore, Queued
  <2> QED
    BY <2>2, <2>3, <2>4, <2>5 DEF TransferInv
<1> QED
  BY <1>1, <1>2, <1>3, <1>4, <1>5, <1>6, <1>7, <1>8 DEF TransferNext

(* The parts of the invariant the property names.                          *)
LEMMA InvIsSound == TransferInv => PoolSound
<1> SUFFICES ASSUME TransferInv PROVE PoolSound
  OBVIOUS
<1>1. ASSUME NEW m \in Nodes
      PROVE  canard[m].free + Len(canard[m].txq) + BlocksHeld(canard[m], DOMAIN canard[m].rx) = Pool
  BY DEF TransferInv, Settled
<1>2. \A s \in Sessions : missed[s].count <= 2
  BY DEF TransferInv, SessionSound
<1> QED
  BY <1>1, <1>2 DEF PoolSound, NoBlockLost, ResyncsSoon

(* However frames are lost, repeated, late or cut short, every block of a  *)
(* node's pool is free, queued or held by a session (the memory paths of   *)
(* canardHandleRxFrame, enqueueTxFrames and canardCleanupStaleTransfers),  *)
(* and of transfers that come in whole at most two in a row are thrown     *)
(* away (its need_restart rule, with the transfer id and the toggle).      *)
THEOREM PoolKept == TransferSpec => []PoolSound
<1>1. TransferInit => TransferInv
  BY TransferAtStart
<1>2. TransferInv /\ [TransferNext]_transferVars => TransferInv'
  BY TransferStep
<1>3. TransferInv => PoolSound
  BY InvIsSound
<1> QED
  BY <1>1, <1>2, <1>3, PTL DEF TransferSpec

InOrder ==
  \A s \in Sessions : last'[s] # last[s] =>
    /\ last'[s].n >= last[s].n
    /\ last'[s].times > 1 => ~last'[s].long

LEMMA SentInOrder ==
  ASSUME TransferInv, NEW m \in Nodes, NEW copies \in 0..2, Transmit(m, copies)
  PROVE  InOrder
<1>1. PICK whole \in BOOLEAN, d \in Nat : Sent(m, whole, d)
  BY TransmitIs
<1> DEFINE f == Out(m)
           s == f.session
<1>2. f \in Frames /\ Sound(f, m) /\ s \in Sessions
  BY <1>1, SentFrame
<1>3. /\ \A x \in Sessions \ {s} : last'[x] = last[x]
      /\ d = 0 => last'[s] = last[s]
      /\ d > 0 => last'[s].n = f.n /\ last'[s].times = d /\ last'[s].long = ~f.sot
  BY <1>1, SentHistory
<1>4. d > 1 => f.sot
  BY <1>1 DEF Sent
<1> HIDE DEF f
<1>5. f.n \in Nat /\ last[s].n \in Nat /\ f.n > last[s].n
  BY <1>2, FrameFields, TypedFields DEF TransferInv, Sound
<1>6. ASSUME NEW x \in Sessions, last'[x] # last[x]
      PROVE  last'[x].n >= last[x].n /\ (last'[x].times > 1 => ~last'[x].long)
  <2>1. x = s /\ d > 0
    BY <1>3, <1>6
  <2>2. last'[s].n >= last[s].n
    BY <1>3, <1>5, <2>1
  <2>3. last'[s].times > 1 => ~last'[s].long
    BY <1>3, <1>4, <2>1
  <2> QED
    BY <2>1, <2>2, <2>3
<1> QED
  BY <1>6 DEF InOrder

LEMMA StepInOrder ==
  TransferInv /\ [TransferNext]_transferVars => InOrder
<1> SUFFICES ASSUME TransferInv, [TransferNext]_transferVars PROVE InOrder
  OBVIOUS
<1>1. ASSUME NEW m \in Nodes, NEW copies \in 0..2, Transmit(m, copies) PROVE InOrder
  BY <1>1, SentInOrder
<1>2. last' = last => InOrder
  BY DEF InOrder
<1>3. \/ \E m \in Nodes, copies \in 0..2 : Transmit(m, copies)
      \/ last' = last
  BY DEF TransferNext, Broadcast, DropLate, CleanupStaleTransfers, ClearTxQueue, Recover, Wait,
         transferVars
<1> QED
  BY <1>1, <1>2, <1>3

(* canardHandleRxFrame hands over the transfers of a session in the order  *)
(* they were given to canardBroadcast, and one of several frames at most   *)
(* once, however the bus repeats its frames and the pool runs out.         *)
THEOREM OrderOnceKept == TransferSpec => InOrderOnce
<1>1. TransferInit => TransferInv
  BY TransferAtStart
<1>2. TransferInv /\ [TransferNext]_transferVars => TransferInv'
  BY TransferStep
<1>3. TransferInv /\ [TransferNext]_transferVars =>
        [\A s \in Sessions : last'[s] # last[s] =>
           /\ last'[s].n >= last[s].n
           /\ last'[s].times > 1 => ~last'[s].long]_transferVars
  BY StepInOrder DEF InOrder
<1> QED
  BY <1>1, <1>2, <1>3, PTL DEF TransferSpec, InOrderOnce
=============================================================================
