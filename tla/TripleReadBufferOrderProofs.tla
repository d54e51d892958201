-------------------- MODULE TripleReadBufferOrderProofs --------------------
(***************************************************************************)
(* Where the buffers of TripleReadBuffer are and in which order their      *)
(* chunks pass: one owner each, a held view that stays as it is, delivery  *)
(* once each and in file order, tokens that are backed by buffers.  For    *)
(* any number of buffers and any finite set of threads that stop it.       *)
(***************************************************************************)
EXTENDS TripleReadBufferProofs

(* The proofs below are about streams in which no position of a ring comes *)
(* back to zero: with PosMod = 2^32, files of up to 2^32 - 4 chunks.       *)
(* Beyond, popEmptyIndex takes a full ring for an empty one (see           *)
(* AcquireFindsEmptyBuffer).                                               *)
NoWrap == MaxChunks + buffer_count < PosMod

(* What is queued at position p of a ring, and the positions in use.       *)
Entry(rg, s, p)  == rg[s][p % buffer_count]
Positions(lo, hi, s) == lo[s] .. hi[s] - 1

(* The places outside the rings where an index can be.                     *)
Hands == {"producer", "consumer", "current"}
Hand  == [h \in Hands |-> IF h = "producer" THEN index[Producer]
                          ELSE IF h = "consumer" THEN index[Consumer]
                          ELSE consumer_current]

(* No index is in two places, and every index is in one.                   *)
Apart(rg, lo, hi, hand) ==
    /\ \A s, r \in Side : \A p \in Positions(lo, hi, s), q \in Positions(lo, hi, r) :
          Entry(rg, s, p) = Entry(rg, r, q) => s = r /\ p = q
    /\ \A s \in Side : \A p \in Positions(lo, hi, s) : \A h \in Hands :
          Entry(rg, s, p) # hand[h]
    /\ \A g, h \in Hands : hand[g] = hand[h] /\ hand[g] # None => g = h

Placed(rg, lo, hi, hand) ==
    \A i \in Index : \/ \E s \in Side : \E p \in Positions(lo, hi, s) : Entry(rg, s, p) = i
                     \/ \E h \in Hands : hand[h] = i

(* Positions only grow between two resets, and by no more than the chunks  *)
(* that pass.                                                              *)
One(b) == IF b THEN 1 ELSE 0
PositionInv ==
    /\ \A s \in Side : read_pos[s] <= write_pos[s]
                       /\ write_pos[s] <= read_pos[s] + buffer_count
    /\ write_pos["filled"] = sent
    /\ read_pos["filled"] = Len(delivered)
    /\ write_pos["empty"] + One(index[Consumer] # None) + One(consumer_current # None)
          <= buffer_count + Len(delivered)

(* Who can have an index in hand where.                                    *)
StopSteps == {"stop_store", "stop_empty", "stop_empty_post", "stop_filled",
              "stop_filled_post"}
HandInv ==
    /\ index[Producer] # None => pc[Producer] \in {"filling", "push", "quit"} \cup StopSteps
    /\ index[Consumer] # None => pc[Consumer] \in {"recycle_push", "quit"}
    /\ consumer_current # None => pc[Consumer] \in {"idle", "quit", "enter", "switch"}

(* Before initialize() nothing is queued or held; after it every index is  *)
(* somewhere.                                                              *)
PlaceInv ==
    /\ Apart(ring, read_pos, write_pos, Hand)
    /\ storage => Placed(ring, read_pos, write_pos, Hand)
    /\ ~storage => /\ \A s \in Side : read_pos[s] = 0 /\ write_pos[s] = 0
                   /\ \A h \in Hands : Hand[h] = None

(* The filled ring holds the chunks that follow the delivered ones.        *)
ChunkInv ==
    /\ \A p \in Positions(read_pos, write_pos, "filled") :
          contents[Entry(ring, "filled", p)] = p + 1
    /\ pc[Producer] = "push" => contents[index[Producer]] = sent + 1

OrderInv == PositionInv /\ HandInv /\ PlaceInv /\ ChunkInv


-----------------------------------------------------------------------------
(* Arithmetic of positions.                                                *)
LEMMA SmallMod ==
    ASSUME NEW m \in Nat \ {0}, NEW a \in 0 .. m - 1
    PROVE  a % m = a
BY SMTT(30)

LEMMA ModApart ==
    ASSUME NEW n \in Nat \ {0}, NEW p \in Nat, NEW q \in Nat, p < q, q - p < n
    PROVE  p % n # q % n
<1>1. p = n * (p \div n) + (p % n) /\ q = n * (q \div n) + (q % n)  OBVIOUS
<1>2. p \div n \in Int /\ q \div n \in Int /\ p % n \in Int /\ q % n \in Int  OBVIOUS
<1>3. PICK a \in Int : a = p \div n  BY <1>2
<1>4. PICK b \in Int : b = q \div n  BY <1>2
<1>5. SUFFICES ASSUME p % n = q % n PROVE FALSE  OBVIOUS
<1>6. q - p = n * b - n * a  BY <1>1, <1>2, <1>3, <1>4, <1>5
<1>7. PICK d \in Int : d = b - a  OBVIOUS
<1>8. n * b - n * a = n * d  BY <1>7
<1>9. n * d > 0 /\ n * d < n  BY <1>6, <1>8
<1>10. CASE d <= 0
  <2>1. n * d <= 0  BY <1>10
  <2> QED  BY <2>1, <1>9
<1>11. CASE d >= 1
  <2>1. n * d >= n  BY <1>11
  <2> QED  BY <2>1, <1>9
<1> QED  BY <1>10, <1>11

-----------------------------------------------------------------------------
(* What is queued is an index, and positions are natural numbers.          *)
LEMMA EntryType ==
    ASSUME NEW rg \in [Side -> [Index -> Index]], NEW s \in Side, NEW p \in Int
    PROVE  Entry(rg, s, p) \in Index /\ Entry(rg, s, p) # None
<1>1. p % buffer_count \in Index  BY SideIndex
<1>2. rg[s][p % buffer_count] \in Index  BY <1>1
<1>3. \A i \in Index : i # None  BY DEF Index, None
<1> QED  BY <1>2, <1>3 DEF Entry

LEMMA PositionType ==
    ASSUME NEW lo \in [Side -> Nat], NEW hi \in [Side -> Nat], NEW s \in Side
    PROVE  /\ lo[s] \in Nat /\ hi[s] \in Nat
           /\ \A p \in Positions(lo, hi, s) : p \in Nat /\ lo[s] <= p /\ p < hi[s]
BY DEF Positions

(* The ways an index changes place: a pop takes it from a ring into an     *)
(* empty hand, a push puts it from a hand behind the last of a ring that   *)
(* is not full, and it passes from one hand to another.                    *)
PlaceTypes(rg, lo, hi, hand) ==
    /\ rg \in [Side -> [Index -> Index]]
    /\ lo \in [Side -> Nat] /\ hi \in [Side -> Nat]
    /\ hand \in [Hands -> Index \cup {None}]

Popped(rg, lo, hi, hand, s, h, lo2, hand2) ==
    /\ s \in Side /\ h \in Hands /\ lo[s] < hi[s] /\ hand[h] = None
    /\ lo2[s] = lo[s] + 1 /\ \A r \in Side \ {s} : lo2[r] = lo[r]
    /\ hand2[h] = Entry(rg, s, lo[s]) /\ \A g \in Hands \ {h} : hand2[g] = hand[g]

Pushed(rg, lo, hi, hand, s, h, rg2, hi2, hand2) ==
    /\ s \in Side /\ h \in Hands /\ hand[h] \in Index
    /\ lo[s] <= hi[s] /\ hi[s] - lo[s] < buffer_count
    /\ rg2[s][hi[s] % buffer_count] = hand[h]
    /\ \A i \in Index \ {hi[s] % buffer_count} : rg2[s][i] = rg[s][i]
    /\ \A r \in Side \ {s} : rg2[r] = rg[r] /\ hi2[r] = hi[r]
    /\ hi2[s] = hi[s] + 1
    /\ hand2[h] = None /\ \A g \in Hands \ {h} : hand2[g] = hand[g]

Passed(hand, g, h, hand2) ==
    /\ g \in Hands /\ h \in Hands /\ g # h /\ hand[h] = None
    /\ hand2[h] = hand[g] /\ hand2[g] = None
    /\ \A f \in Hands \ {g, h} : hand2[f] = hand[f]

LEMMA PopMoves ==
    ASSUME NEW rg, NEW lo, NEW hi, NEW hand, NEW s, NEW h, NEW lo2, NEW hand2,
           PlaceTypes(rg, lo, hi, hand), Apart(rg, lo, hi, hand),
           Popped(rg, lo, hi, hand, s, h, lo2, hand2)
    PROVE  /\ Apart(rg, lo2, hi, hand2)
           /\ Placed(rg, lo, hi, hand) => Placed(rg, lo2, hi, hand2)
<1>0. /\ rg \in [Side -> [Index -> Index]]
      /\ lo \in [Side -> Nat] /\ hi \in [Side -> Nat]
      /\ hand \in [Hands -> Index \cup {None}]
      /\ s \in Side /\ h \in Hands /\ lo[s] < hi[s] /\ hand[h] = None
      /\ lo2[s] = lo[s] + 1 /\ \A r \in Side \ {s} : lo2[r] = lo[r]
  BY DEF PlaceTypes, Popped
<1>1. /\ lo[s] \in Positions(lo, hi, s)
      /\ Positions(lo2, hi, s) = Positions(lo, hi, s) \ {lo[s]}
      /\ \A r \in Side \ {s} : Positions(lo2, hi, r) = Positions(lo, hi, r)
  BY <1>0 DEF Positions
<1>2. /\ hand2[h] = Entry(rg, s, lo[s])
      /\ \A g \in Hands \ {h} : hand2[g] = hand[g]
  BY DEF Popped
<1>3. Entry(rg, s, lo[s]) # None
  <2>1. lo[s] \in Int  BY <1>0
  <2> QED  BY <2>1, <1>0, EntryType
<1>4. Apart(rg, lo2, hi, hand2)
  <2>1. \A r \in Side : Positions(lo2, hi, r) \subseteq Positions(lo, hi, r)  BY <1>1
  <2>2. \A r \in Side : \A p \in Positions(lo2, hi, r) : ~(r = s /\ p = lo[s])  BY <1>1
  <2>3. \A r \in Side : \A p \in Positions(lo2, hi, r) : Entry(rg, r, p) # Entry(rg, s, lo[s])
    <3> SUFFICES ASSUME NEW r \in Side, NEW p \in Positions(lo2, hi, r),
                        Entry(rg, r, p) = Entry(rg, s, lo[s])
                 PROVE  FALSE
      OBVIOUS
    <3>1. p \in Positions(lo, hi, r) /\ lo[s] \in Positions(lo, hi, s)  BY <1>1, <2>1
    <3>2. r = s /\ p = lo[s]  BY <3>1, <1>0 DEF Apart
    <3> QED  BY <3>2, <2>2
  <2>4. \A q, r \in Side : \A a \in Positions(lo2, hi, q), b \in Positions(lo2, hi, r) :
           Entry(rg, q, a) = Entry(rg, r, b) => q = r /\ a = b
    BY <2>1 DEF Apart
  <2>5. \A r \in Side : \A p \in Positions(lo2, hi, r) : \A g \in Hands :
           Entry(rg, r, p) # hand2[g]
    <3> SUFFICES ASSUME NEW r \in Side, NEW p \in Positions(lo2, hi, r), NEW g \in Hands
                 PROVE  Entry(rg, r, p) # hand2[g]
      OBVIOUS
    <3>1. p \in Positions(lo, hi, r)  BY <2>1
    <3>2. Entry(rg, r, p) # hand[g]  BY <3>1 DEF Apart
    <3> QED  BY <3>2, <1>2, <2>3
  <2>6. \A g \in Hands : hand[g] # Entry(rg, s, lo[s])  BY <1>0, <1>1 DEF Apart
  <2>7. \A f, g \in Hands : hand2[f] = hand2[g] /\ hand2[f] # None => f = g
    BY <1>2, <2>6 DEF Apart
  <2> QED  BY <2>4, <2>5, <2>7 DEF Apart
<1>5. ASSUME Placed(rg, lo, hi, hand), NEW i \in Index
      PROVE  \/ \E r \in Side : \E p \in Positions(lo2, hi, r) : Entry(rg, r, p) = i
             \/ \E g \in Hands : hand2[g] = i
  <2>1. CASE \E r \in Side : \E p \in Positions(lo, hi, r) : Entry(rg, r, p) = i
    <3>1. PICK r \in Side : \E p \in Positions(lo, hi, r) : Entry(rg, r, p) = i  BY <2>1
    <3>2. PICK p \in Positions(lo, hi, r) : Entry(rg, r, p) = i  BY <3>1
    <3>3. (r = s /\ p = lo[s]) \/ p \in Positions(lo2, hi, r)  BY <1>1
    <3> QED  BY <1>0, <1>2, <3>2, <3>3
  <2>2. CASE \E g \in Hands : hand[g] = i
    <3>1. PICK g \in Hands : hand[g] = i  BY <2>2
    <3>2. g # h  BY <3>1, <1>0 DEF Index, None
    <3> QED  BY <3>1, <3>2, <1>2
  <2> QED  BY <1>5, <2>1, <2>2 DEF Placed
<1> QED  BY <1>4, <1>5 DEF Placed

LEMMA PushMoves ==
    ASSUME NEW rg, NEW lo, NEW hi, NEW hand, NEW s, NEW h,
           NEW rg2, NEW hi2, NEW hand2,
           PlaceTypes(rg, lo, hi, hand), Apart(rg, lo, hi, hand),
           Pushed(rg, lo, hi, hand, s, h, rg2, hi2, hand2)
    PROVE  /\ Apart(rg2, lo, hi2, hand2)
           /\ Placed(rg, lo, hi, hand) => Placed(rg2, lo, hi2, hand2)
           /\ \A p \in Positions(lo, hi, s) : Entry(rg2, s, p) = Entry(rg, s, p)
           /\ Entry(rg2, s, hi[s]) = hand[h]
           /\ Positions(lo, hi2, s) = Positions(lo, hi, s) \cup {hi[s]}
<1>0. /\ rg \in [Side -> [Index -> Index]]
      /\ lo \in [Side -> Nat] /\ hi \in [Side -> Nat]
      /\ hand \in [Hands -> Index \cup {None}]
  BY DEF PlaceTypes
<1>a. /\ s \in Side /\ h \in Hands /\ hand[h] \in Index
      /\ lo[s] \in Nat /\ hi[s] \in Nat /\ lo[s] <= hi[s] /\ hi[s] - lo[s] < buffer_count
      /\ hi2[s] = hi[s] + 1 /\ \A r \in Side \ {s} : rg2[r] = rg[r] /\ hi2[r] = hi[r]
  BY <1>0 DEF Pushed
<1>b. /\ rg2[s][hi[s] % buffer_count] = hand[h]
      /\ \A i \in Index \ {hi[s] % buffer_count} : rg2[s][i] = rg[s][i]
  BY DEF Pushed
<1>1. /\ hi[s] \notin Positions(lo, hi, s)
      /\ Positions(lo, hi2, s) = Positions(lo, hi, s) \cup {hi[s]}
      /\ \A r \in Side \ {s} : Positions(lo, hi2, r) = Positions(lo, hi, r)
  <2>a. ASSUME NEW a \in Nat, NEW b \in Nat, a <= b
        PROVE  a .. b + 1 - 1 = (a .. b - 1) \cup {b}
    <3>1. b + 1 - 1 = b  OBVIOUS
    <3>2. \A x \in Int : x \in a .. b <=> (x \in a .. b - 1 \/ x = b)
      <4> SUFFICES ASSUME NEW x \in Int
                   PROVE  (a <= x /\ x <= b) <=> ((a <= x /\ x <= b - 1) \/ x = b)
        OBVIOUS
      <4> QED  BY <2>a
    <3>3. b \in Int /\ a .. b \subseteq Int /\ a .. b - 1 \subseteq Int  OBVIOUS
    <3>4. a .. b = (a .. b - 1) \cup {b}  BY <3>2, <3>3
    <3> QED  BY <3>1, <3>4
  <2>2. lo[s] .. hi[s] + 1 - 1 = (lo[s] .. hi[s] - 1) \cup {hi[s]}  BY <1>a, <2>a
  <2> QED  BY <1>a, <2>2 DEF Positions
<1>2. hi[s] % buffer_count \in Index  BY <1>a, SideIndex
<1>3. Entry(rg2, s, hi[s]) = hand[h]  BY <1>b DEF Entry
<1>4. \A r \in Side \ {s} : \A p : Entry(rg2, r, p) = Entry(rg, r, p)
  BY <1>a DEF Entry
<1>5. ASSUME NEW p \in Positions(lo, hi, s) PROVE Entry(rg2, s, p) = Entry(rg, s, p)
  <2>1. p \in Nat /\ lo[s] <= p /\ p < hi[s]  BY <1>0, <1>a, PositionType
  <2>a. ASSUME NEW a \in Nat, NEW b \in Nat, NEW c \in Nat, a <= c, b - a < buffer_count
        PROVE  b - c < buffer_count
    BY <2>a, BufferCountAssumption
  <2>b. hi[s] - p < buffer_count  BY <1>a, <2>1, <2>a
  <2>2. p % buffer_count # hi[s] % buffer_count  BY <1>a, <2>1, <2>b, ModApart, BufferCountAssumption
  <2>3. p % buffer_count \in Index  BY <2>1, SideIndex
  <2> QED  BY <1>b, <2>2, <2>3 DEF Entry
<1>6. /\ hand2[h] = None
      /\ \A g \in Hands \ {h} : hand2[g] = hand[g]
      /\ hand[h] # None
  BY <1>a DEF Index, None, Pushed
<1>7. \A r \in Side : \A p \in Positions(lo, hi, r) : Entry(rg2, r, p) = Entry(rg, r, p)
  BY <1>4, <1>5
<1>8. \A r \in Side : \A p \in Positions(lo, hi2, r) :
         p \in Positions(lo, hi, r) \/ (r = s /\ p = hi[s])
  BY <1>1
<1>9. \A r \in Side : \A p \in Positions(lo, hi, r) : Entry(rg2, r, p) # None
  <2> SUFFICES ASSUME NEW r \in Side, NEW p \in Positions(lo, hi, r)
               PROVE  Entry(rg, r, p) # None
    BY <1>7
  <2>1. p \in Int  BY <1>0, PositionType
  <2> QED  BY <1>0, <2>1, EntryType
<1>10. Apart(rg2, lo, hi2, hand2)
  <2>1. ASSUME NEW r \in Side, NEW q \in Side, NEW a \in Positions(lo, hi2, r),
               NEW b \in Positions(lo, hi2, q), Entry(rg2, r, a) = Entry(rg2, q, b)
        PROVE  r = q /\ a = b
    <3>1. \A u \in Side : \A p \in Positions(lo, hi, u) : Entry(rg2, u, p) # hand[h]
      <4> SUFFICES ASSUME NEW u \in Side, NEW p \in Positions(lo, hi, u)
                   PROVE  Entry(rg2, u, p) # hand[h]
        OBVIOUS
      <4>1. Entry(rg, u, p) # hand[h]  BY <1>a DEF Apart
      <4> QED  BY <4>1, <1>7
    <3>2. CASE a \in Positions(lo, hi, r) /\ b \in Positions(lo, hi, q)
      <4>1. Entry(rg, r, a) = Entry(rg, q, b)  BY <2>1, <3>2, <1>7
      <4> QED  BY <4>1, <3>2 DEF Apart
    <3>3. CASE a \in Positions(lo, hi, r) /\ q = s /\ b = hi[s]
      BY <2>1, <3>1, <3>3, <1>3
    <3>4. CASE b \in Positions(lo, hi, q) /\ r = s /\ a = hi[s]
      BY <2>1, <3>1, <3>4, <1>3
    <3>5. CASE r = s /\ a = hi[s] /\ q = s /\ b = hi[s]  BY <3>5
    <3> QED  BY <2>1, <1>8, <3>2, <3>3, <3>4, <3>5
  <2>2. ASSUME NEW r \in Side, NEW p \in Positions(lo, hi2, r), NEW g \in Hands
        PROVE  Entry(rg2, r, p) # hand2[g]
    <3>1. CASE p \in Positions(lo, hi, r)  
      <4>1. Entry(rg2, r, p) # None /\ Entry(rg2, r, p) = Entry(rg, r, p)
        BY <3>1, <1>7, <1>9
      <4>2. Entry(rg, r, p) # hand[g]  BY <3>1 DEF Apart
      <4> QED  BY <4>1, <4>2, <1>6
    <3>2. CASE r = s /\ p = hi[s]  BY <3>2, <1>a, <1>3, <1>6 DEF Apart
    <3> QED  BY <1>8, <3>1, <3>2
  <2>3. \A f, g \in Hands : hand2[f] = hand2[g] /\ hand2[f] # None => f = g
    BY <1>6 DEF Apart
  <2> QED  BY <2>1, <2>2, <2>3 DEF Apart
<1>11. ASSUME Placed(rg, lo, hi, hand), NEW i \in Index
       PROVE  \/ \E r \in Side : \E p \in Positions(lo, hi2, r) : Entry(rg2, r, p) = i
              \/ \E g \in Hands : hand2[g] = i
  <2>1. \A r \in Side : Positions(lo, hi, r) \subseteq Positions(lo, hi2, r)  BY <1>1
  <2>2. CASE \E r \in Side : \E p \in Positions(lo, hi, r) : Entry(rg, r, p) = i
    BY <2>1, <2>2, <1>7
  <2>3. CASE \E g \in Hands : hand[g] = i  BY <2>3, <1>a, <1>1, <1>3, <1>6
  <2> QED  BY <1>11, <2>2, <2>3 DEF Placed
<1> QED  BY <1>1, <1>3, <1>5, <1>10, <1>11 DEF Placed

LEMMA HandMoves ==
    ASSUME NEW rg, NEW lo, NEW hi, NEW hand, NEW g, NEW h, NEW hand2,
           PlaceTypes(rg, lo, hi, hand), Apart(rg, lo, hi, hand), Passed(hand, g, h, hand2)
    PROVE  /\ Apart(rg, lo, hi, hand2)
           /\ Placed(rg, lo, hi, hand) => Placed(rg, lo, hi, hand2)
<1>0. \A s \in Side : \A p \in Positions(lo, hi, s) : Entry(rg, s, p) # None
  <2> SUFFICES ASSUME NEW s \in Side, NEW p \in Positions(lo, hi, s)
               PROVE  Entry(rg, s, p) # None
    OBVIOUS
  <2>1. p \in Int  BY PositionType DEF PlaceTypes
  <2> QED  BY <2>1, EntryType DEF PlaceTypes
<1>1. /\ g \in Hands /\ h \in Hands /\ g # h /\ hand[h] = None
      /\ hand2[h] = hand[g] /\ hand2[g] = None
      /\ \A f \in Hands \ {g, h} : hand2[f] = hand[f]
  BY DEF Passed
<1>2. \A s \in Side : \A p \in Positions(lo, hi, s) : \A f \in Hands :
         Entry(rg, s, p) # hand2[f]
  BY <1>0, <1>1 DEF Apart
<1>3. \A e, f \in Hands : hand2[e] = hand2[f] /\ hand2[e] # None => e = f
  BY <1>1 DEF Apart
<1>4. Apart(rg, lo, hi, hand2)  BY <1>2, <1>3 DEF Apart
<1>5. \A i \in Index : (\E f \in Hands : hand[f] = i) => \E f \in Hands : hand2[f] = i
  BY <1>1 DEF Index, None
<1> QED  BY <1>4, <1>5 DEF Placed

-----------------------------------------------------------------------------
(* What the invariants say of a ring: how many indexes it holds, and that  *)
(* its next positions are below the modulus.                               *)
LEMMA OrderTypes ==
    ASSUME DataInv
    PROVE  /\ ring \in [Side -> [Index -> Index]]
           /\ read_pos \in [Side -> Nat] /\ write_pos \in [Side -> Nat]
           /\ Hand \in [Hands -> Index \cup {None}]
           /\ Hand["producer"] = index[Producer] /\ Hand["consumer"] = index[Consumer]
           /\ Hand["current"] = consumer_current
           /\ sent \in Nat /\ Len(delivered) \in Nat
           /\ \A i \in Index : i # None
<1>1. /\ ring \in [Side -> [Index -> Index]]
      /\ read_pos \in [Side -> Nat] /\ write_pos \in [Side -> Nat]
      /\ sent \in Nat /\ Len(delivered) \in Nat
  BY BoundsAssumption DEF DataInv
<1>2. /\ index[Producer] \in Index \cup {None} /\ index[Consumer] \in Index \cup {None}
      /\ consumer_current \in Index \cup {None}
  BY DEF DataInv
<1>3. \A i \in Index : i # None  BY DEF Index, None
<1> QED  BY <1>1, <1>2, <1>3 DEF Hand, Hands

LEMMA RingFacts ==
    ASSUME NoWrap, DataInv, PositionInv, NEW s \in Side
    PROVE  /\ read_pos[s] \in Nat /\ write_pos[s] \in Nat
           /\ read_pos[s] <= write_pos[s]
           /\ RingLen(s) = write_pos[s] - read_pos[s] /\ RingLen(s) \in 0 .. buffer_count
           /\ read_pos[s] < write_pos[s] => (read_pos[s] + 1) % PosMod = read_pos[s] + 1
<1>n. /\ buffer_count \in Nat \ {0} /\ PosMod \in Nat \ {0} /\ buffer_count < PosMod
      /\ MaxChunks \in Nat /\ MaxChunks + buffer_count < PosMod
  BY BufferCountAssumption, BoundsAssumption DEF NoWrap
<1>1. /\ read_pos[s] \in 0 .. PosMod - 1 /\ write_pos[s] \in 0 .. PosMod - 1
      /\ read_pos[s] <= write_pos[s] /\ write_pos[s] <= read_pos[s] + buffer_count
  BY DEF DataInv, PositionInv
<1>2. PICK r \in Nat : r = read_pos[s]  BY <1>1
<1>3. PICK w \in Nat : w = write_pos[s]  BY <1>1
<1>4. r <= w /\ w <= r + buffer_count /\ w < PosMod  BY <1>n, <1>1, <1>2, <1>3
<1>5. w - r \in 0 .. buffer_count /\ w - r \in 0 .. PosMod - 1  BY <1>n, <1>4
<1>6. (w - r) % PosMod = w - r  BY <1>n, <1>5, SmallMod
<1>7. r < w => r + 1 \in 0 .. PosMod - 1  BY <1>n, <1>4
<1>8. r < w => (r + 1) % PosMod = r + 1  BY <1>n, <1>7, SmallMod
<1> QED  BY <1>2, <1>3, <1>4, <1>5, <1>6, <1>8 DEF RingLen

(* A step that moves no index.                                             *)
HandLabels == {"filling", "push", "quit"} \cup StopSteps
LEMMA QuietHands ==
    ASSUME DataInv, HandInv, NEW t \in Threads, NEW from, NEW to, Goto(t, from, to),
           UNCHANGED <<index, consumer_current>>,
           t = Producer => from \notin HandLabels \/ to \in HandLabels,
           t = Consumer => /\ from \notin {"recycle_push", "quit"} \/ to \in {"recycle_push", "quit"}
                           /\ \/ from \notin {"idle", "quit", "enter", "switch"}
                              \/ to \in {"idle", "quit", "enter", "switch"}
                              \/ consumer_current = None
    PROVE  HandInv'
<1>1. /\ pc[t] = from /\ pc'[t] = to
      /\ t # Producer => pc'[Producer] = pc[Producer]
      /\ t # Consumer => pc'[Consumer] = pc[Consumer]
  BY SideIndex DEF Goto, DataInv
<1>2. index[Producer] # None => pc'[Producer] \in HandLabels
  BY <1>1 DEF HandInv, HandLabels
<1>3. index[Consumer] # None => pc'[Consumer] \in {"recycle_push", "quit"}
  BY <1>1 DEF HandInv
<1>4. consumer_current # None => pc'[Consumer] \in {"idle", "quit", "enter", "switch"}
  BY <1>1 DEF HandInv
<1> QED  BY <1>2, <1>3, <1>4 DEF HandInv, HandLabels

LEMMA QuietOrder ==
    ASSUME DataInv, OrderInv, NEW t \in Threads, NEW from, NEW to, Goto(t, from, to),
           UNCHANGED <<rings, consumer_current, storage, contents, index, sent, delivered>>,
           t = Producer => (from \notin HandLabels \/ to \in HandLabels) /\ to # "push",
           t = Consumer => /\ from \notin {"recycle_push", "quit"} \/ to \in {"recycle_push", "quit"}
                           /\ \/ from \notin {"idle", "quit", "enter", "switch"}
                              \/ to \in {"idle", "quit", "enter", "switch"}
                              \/ consumer_current = None
    PROVE  OrderInv'
<1>1. UNCHANGED <<ring, read_pos, write_pos, consumer_current, storage, contents, index,
                  sent, delivered>>
  BY DEF rings
<1>2. HandInv'  BY <1>1, QuietHands DEF OrderInv
<1>3. UNCHANGED Hand  BY <1>1 DEF Hand
<1>4. pc'[Producer] = "push" => pc[Producer] = "push"
  BY SideIndex DEF Goto, DataInv
<1>5. PositionInv'  BY <1>1 DEF OrderInv, PositionInv
<1>6. PlaceInv'  BY <1>1, <1>3 DEF OrderInv, PlaceInv
<1>7. ChunkInv'  BY <1>1, <1>4 DEF OrderInv, ChunkInv, Positions, Entry
<1> QED  BY <1>2, <1>5, <1>6, <1>7 DEF OrderInv

LEMMA OrderInit == Init => OrderInv
<1> SUFFICES ASSUME Init PROVE OrderInv  OBVIOUS
<1>1. /\ \A s \in Side : read_pos[s] = 0 /\ write_pos[s] = 0
      /\ index[Producer] = None /\ index[Consumer] = None /\ consumer_current = None
      /\ sent = 0 /\ Len(delivered) = 0 /\ storage = FALSE
      /\ pc[Producer] = "idle" /\ pc[Consumer] = "idle"
  BY SideIndex DEF Init
<1>2. \A s \in Side : Positions(read_pos, write_pos, s) = {}
  <2>1. 0 .. 0 - 1 = {}  OBVIOUS
  <2> QED  BY <1>1, <2>1 DEF Positions
<1>3. \A h \in Hands : Hand[h] = None  BY <1>1 DEF Hand
<1>4. PositionInv
  <2>1. buffer_count \in Nat  BY BufferCountAssumption
  <2> QED  BY <1>1, <2>1 DEF PositionInv, One, Side
<1>5. Apart(ring, read_pos, write_pos, Hand)  BY <1>2, <1>3 DEF Apart
<1> QED  BY <1>1, <1>2, <1>3, <1>4, <1>5, SideIndex DEF OrderInv, HandInv, PlaceInv, ChunkInv

LEMMA OrderRearm == ASSUME Rearm, storage' = TRUE PROVE OrderInv'
<1>1. /\ read_pos'["empty"] = 0 /\ write_pos'["empty"] = buffer_count
      /\ read_pos'["filled"] = 0 /\ write_pos'["filled"] = 0
      /\ index'[Producer] = None /\ index'[Consumer] = None /\ consumer_current' = None
      /\ sent' = 0 /\ Len(delivered') = 0
      /\ pc'[Producer] = "idle" /\ pc'[Consumer] = "idle"
      /\ \A i \in Index : ring'["empty"][i] = i
  BY SideIndex DEF Rearm, resetQueues
<1>2. Positions(read_pos', write_pos', "filled") = {}
      /\ Positions(read_pos', write_pos', "empty") = Index
  <2>1. 0 .. 0 - 1 = {}  OBVIOUS
  <2> QED  BY <1>1, <2>1 DEF Positions, Index
<1>3. \A h \in Hands : Hand'[h] = None  BY <1>1 DEF Hand
<1>4. ASSUME NEW i \in Index PROVE Entry(ring', "empty", i) = i /\ i # None
  <2>1. i % buffer_count = i  BY SmallMod, BufferCountAssumption DEF Index
  <2> QED  BY <2>1, <1>1 DEF Entry, Index, None
<1>5. PositionInv'
  <2>1. buffer_count \in Nat  BY BufferCountAssumption
  <2> QED  BY <1>1, <2>1 DEF PositionInv, One, Side
<1>6. \A s \in Side : s = "empty" \/ s = "filled"  BY DEF Side
<1>7. Apart(ring', read_pos', write_pos', Hand')  BY <1>2, <1>3, <1>4, <1>6 DEF Apart
<1>8. Placed(ring', read_pos', write_pos', Hand')
  BY <1>2, <1>4, SideIndex DEF Placed
<1>9. PlaceInv'  BY <1>7, <1>8 DEF PlaceInv
<1> QED  BY <1>1, <1>2, <1>5, <1>9 DEF OrderInv, HandInv, ChunkInv

-----------------------------------------------------------------------------
(* popEmptyIndex: the producer takes the head of the empty ring.           *)
LEMMA PopEmptyOrder ==
    ASSUME NoWrap, DataInv, OrderInv, AcquireEmptyPop, ~RingEmpty("empty")
    PROVE  /\ OrderInv'
           /\ read_pos' = [read_pos EXCEPT !["empty"] = @ + 1]
<1>0. Producer \in Threads /\ Consumer \in Threads /\ Producer # Consumer
      /\ "empty" \in Side /\ "filled" \in Side
  BY SideIndex, ThreadsAssumption
<1>1. /\ Goto(Producer, "pop", "filling")
      /\ index' = [index EXCEPT ![Producer] = RingHead("empty")]
      /\ read_pos' = [read_pos EXCEPT !["empty"] = (@ + 1) % PosMod]
      /\ UNCHANGED <<ring, write_pos, consumer_current, storage, contents, sent, delivered>>
  BY DEF AcquireEmptyPop, PopIndex
<1>2. /\ pc[Producer] = "pop" /\ pc'[Producer] = "filling" /\ pc'[Consumer] = pc[Consumer]
  BY <1>0, <1>1 DEF Goto, DataInv
<1>t. /\ ring \in [Side -> [Index -> Index]]
      /\ read_pos \in [Side -> Nat] /\ write_pos \in [Side -> Nat]
      /\ Hand \in [Hands -> Index \cup {None}] /\ Hand["producer"] = index[Producer]
  BY OrderTypes
<1>3. index[Producer] = None  BY <1>2 DEF OrderInv, HandInv, StopSteps
<1>4. read_pos["empty"] < write_pos["empty"]
  BY <1>0, <1>t DEF RingEmpty
<1>5. read_pos' = [read_pos EXCEPT !["empty"] = @ + 1]
  BY <1>0, <1>1, <1>4, RingFacts DEF OrderInv
<1>6. Hand' = [Hand EXCEPT !["producer"] = Entry(ring, "empty", read_pos["empty"])]
  <2>1. index'[Producer] = Entry(ring, "empty", read_pos["empty"])
        /\ index'[Consumer] = index[Consumer]
    BY <1>0, <1>1 DEF RingHead, Entry, DataInv
  <2> QED  BY <2>1, <1>1 DEF Hand, Hands
<1>7. /\ Apart(ring, read_pos', write_pos, Hand')
      /\ Placed(ring, read_pos, write_pos, Hand) => Placed(ring, read_pos', write_pos, Hand')
  <2>1. Apart(ring, read_pos, write_pos, Hand) /\ "producer" \in Hands
        /\ Hand["producer"] = None
    BY <1>3, <1>t DEF OrderInv, PlaceInv, Hands
  <2>2. PICK lo2, hand2 : lo2 = read_pos' /\ hand2 = Hand'  OBVIOUS
  <2>4. Popped(ring, read_pos, write_pos, Hand, "empty", "producer", lo2, hand2)
    BY <2>1, <2>2, <1>0, <1>t, <1>4, <1>5, <1>6 DEF Popped
  <2>3. PlaceTypes(ring, read_pos, write_pos, Hand)  BY <1>t DEF PlaceTypes
  <2>5. /\ Apart(ring, lo2, write_pos, hand2)
        /\ Placed(ring, read_pos, write_pos, Hand) => Placed(ring, lo2, write_pos, hand2)
    BY <2>1, <2>3, <2>4, PopMoves
  <2> QED  BY <2>2, <2>5
<1>8. storage  BY <1>0, <1>4 DEF OrderInv, PlaceInv
<1>9. PlaceInv'  BY <1>1, <1>7, <1>8 DEF OrderInv, PlaceInv
<1>10. HandInv'
  BY <1>0, <1>1, <1>2 DEF OrderInv, HandInv, DataInv
<1>11. PositionInv'
  <2>1. /\ index'[Consumer] = index[Consumer] /\ read_pos'["filled"] = read_pos["filled"]
        /\ read_pos'["empty"] = read_pos["empty"] + 1
    BY <1>0, <1>1, <1>5, <1>t DEF DataInv
  <2>2. ASSUME NEW r \in Nat, NEW w \in Nat, r < w, w <= r + buffer_count
        PROVE  r + 1 <= w /\ w <= r + 1 + buffer_count
    BY <2>2, BufferCountAssumption
  <2>3. \A s \in Side : read_pos'[s] <= write_pos[s]
                        /\ write_pos[s] <= read_pos'[s] + buffer_count
    BY <2>1, <2>2, <1>0, <1>4, <1>t DEF OrderInv, PositionInv, Side
  <2> QED  BY <2>1, <2>3, <1>1 DEF OrderInv, PositionInv
<1>12. ChunkInv'
  <2>1. Positions(read_pos', write_pos', "filled") = Positions(read_pos, write_pos, "filled")
    BY <1>0, <1>1, <1>5, <1>t DEF Positions
  <2> QED  BY <2>1, <1>1, <1>2 DEF OrderInv, ChunkInv, Entry
<1> QED  BY <1>5, <1>9, <1>10, <1>11, <1>12 DEF OrderInv

(* The producer reads a chunk into the buffer it has: no other place has   *)
(* that buffer.                                                            *)
LEMMA FillOrder == ASSUME DataInv, OrderInv, Fill PROVE OrderInv'
<1>0. Producer \in Threads /\ Consumer \in Threads /\ Producer # Consumer
      /\ "empty" \in Side /\ "filled" \in Side
  BY SideIndex, ThreadsAssumption
<1>1. /\ Goto(Producer, "filling", "push")
      /\ contents' = [contents EXCEPT ![index[Producer]] = sent + 1]
      /\ UNCHANGED <<ring, read_pos, write_pos, index, consumer_current, storage, sent,
                     delivered>>
  BY DEF Fill, rings
<1>2. /\ pc[Producer] = "filling" /\ pc'[Producer] = "push" /\ pc'[Consumer] = pc[Consumer]
  BY <1>0, <1>1 DEF Goto, DataInv
<1>3. index[Producer] \in Index /\ contents \in [Index -> 0 .. MaxChunks]
  BY <1>2 DEF DataInv, Filling
<1>4. UNCHANGED Hand  BY <1>1 DEF Hand
<1>5. PositionInv' /\ PlaceInv'  BY <1>1, <1>4 DEF OrderInv, PositionInv, PlaceInv
<1>6. HandInv'  BY <1>1, <1>2 DEF OrderInv, HandInv
<1>7. ChunkInv'
  <2>1. contents'[index[Producer]] = sent + 1  BY <1>1, <1>3
  <2>2. ASSUME NEW p \in Positions(read_pos, write_pos, "filled")
        PROVE  contents'[Entry(ring, "filled", p)] = p + 1
    <3>1. Hand["producer"] = index[Producer] /\ "producer" \in Hands
      BY OrderTypes DEF Hands
    <3>2. Entry(ring, "filled", p) # index[Producer]
      BY <3>1, <1>0 DEF OrderInv, PlaceInv, Apart
    <3>3. Entry(ring, "filled", p) \in Index
      <4>1. ring \in [Side -> [Index -> Index]] /\ read_pos \in [Side -> Nat]
            /\ write_pos \in [Side -> Nat]
        BY OrderTypes
      <4>2. p \in Int  BY <1>0, <4>1, PositionType
      <4> QED  BY <1>0, <4>1, <4>2, EntryType
    <3>4. contents[Entry(ring, "filled", p)] = p + 1  BY DEF OrderInv, ChunkInv
    <3> QED  BY <1>1, <1>3, <3>2, <3>3, <3>4
  <2>3. Positions(read_pos', write_pos', "filled") = Positions(read_pos, write_pos, "filled")
        /\ \A p : Entry(ring', "filled", p) = Entry(ring, "filled", p)
    BY <1>1 DEF Positions, Entry
  <2> QED  BY <1>1, <2>1, <2>2, <2>3 DEF ChunkInv
<1> QED  BY <1>5, <1>6, <1>7 DEF OrderInv

(* pushFilledIndex: the chunk queued last follows the one before it.       *)
LEMMA PushFilledOrder ==
    ASSUME NoWrap, DataInv, OrderInv, ReleaseFilledPush, ~RingFull("filled")
    PROVE  /\ OrderInv' /\ sent - Len(delivered) < buffer_count /\ sent' = sent + 1
           /\ write_pos' = [write_pos EXCEPT !["filled"] = @ + 1]
<1>0. Producer \in Threads /\ Consumer \in Threads /\ Producer # Consumer
      /\ "empty" \in Side /\ "filled" \in Side /\ "empty" # "filled"
  BY SideIndex, ThreadsAssumption
<1>n. buffer_count \in Nat \ {0} /\ PosMod \in Nat \ {0} /\ MaxChunks \in Nat
      /\ MaxChunks + buffer_count < PosMod
  BY BufferCountAssumption, BoundsAssumption DEF NoWrap
<1>1. /\ Goto(Producer, "push", "publish")
      /\ PushIndex("filled", index[Producer])
      /\ index' = [index EXCEPT ![Producer] = None]
      /\ sent' = sent + 1
      /\ UNCHANGED <<consumer_current, storage, contents, delivered>>
  BY DEF ReleaseFilledPush
<1>2. /\ pc[Producer] = "push" /\ pc'[Producer] = "publish" /\ pc'[Consumer] = pc[Consumer]
  BY <1>0, <1>1 DEF Goto, DataInv
<1>t. /\ ring \in [Side -> [Index -> Index]]
      /\ read_pos \in [Side -> Nat] /\ write_pos \in [Side -> Nat]
      /\ Hand \in [Hands -> Index \cup {None}] /\ Hand["producer"] = index[Producer]
      /\ sent \in Nat /\ Len(delivered) \in Nat
  BY OrderTypes
<1>3. index[Producer] \in Index /\ sent < MaxChunks
  BY <1>2 DEF DataInv, Filling, Seeking
<1>4. /\ read_pos["filled"] <= write_pos["filled"]
      /\ write_pos["filled"] - read_pos["filled"] < buffer_count
      /\ write_pos["filled"] = sent /\ read_pos["filled"] = Len(delivered)
  <2>1. RingLen("filled") < buffer_count /\ PositionInv
    <3>1. RingLen("filled") \in 0 .. buffer_count  BY <1>0, RingFacts DEF OrderInv
    <3>2. ~(RingLen("filled") >= buffer_count)  BY DEF RingFull
    <3> QED  BY <3>1, <3>2, <1>n DEF OrderInv
  <2> QED  BY <2>1, <1>0, RingFacts DEF PositionInv
<1>5. write_pos' = [write_pos EXCEPT !["filled"] = @ + 1]
  <2>1. sent + 1 \in 0 .. PosMod - 1  BY <1>n, <1>3, <1>t
  <2>2. (sent + 1) % PosMod = sent + 1  BY <2>1, <1>n, SmallMod
  <2> QED  BY <2>2, <1>0, <1>1, <1>4, <1>t DEF PushIndex
<1>6. ring' = [ring EXCEPT !["filled"][write_pos["filled"] % buffer_count] = Hand["producer"]]
      /\ read_pos' = read_pos
  BY <1>1, <1>t DEF PushIndex
<1>7. Hand' = [Hand EXCEPT !["producer"] = None]
  <2>1. index'[Producer] = None /\ index'[Consumer] = index[Consumer]
    BY <1>0, <1>1 DEF DataInv
  <2> QED  BY <2>1, <1>1 DEF Hand, Hands
<1>8. /\ Apart(ring', read_pos, write_pos', Hand')
      /\ Placed(ring, read_pos, write_pos, Hand) => Placed(ring', read_pos, write_pos', Hand')
      /\ \A p \in Positions(read_pos, write_pos, "filled") :
            Entry(ring', "filled", p) = Entry(ring, "filled", p)
      /\ Entry(ring', "filled", write_pos["filled"]) = Hand["producer"]
      /\ Positions(read_pos, write_pos', "filled")
            = Positions(read_pos, write_pos, "filled") \cup {write_pos["filled"]}
  <2>1. Apart(ring, read_pos, write_pos, Hand) /\ "producer" \in Hands
        /\ Hand["producer"] \in Index
    BY <1>3, <1>t DEF OrderInv, PlaceInv, Hands
  <2>2. PICK rg2, hi2, hand2 : rg2 = ring' /\ hi2 = write_pos' /\ hand2 = Hand'  OBVIOUS
  <2>5. write_pos["filled"] % buffer_count \in Index  BY <1>0, <1>t, SideIndex
  <2>6. Pushed(ring, read_pos, write_pos, Hand, "filled", "producer", rg2, hi2, hand2)
    BY <2>1, <2>2, <2>5, <1>0, <1>t, <1>4, <1>5, <1>6, <1>7 DEF Pushed
  <2>3. PlaceTypes(ring, read_pos, write_pos, Hand)  BY <1>t DEF PlaceTypes
  <2>4. /\ Apart(rg2, read_pos, hi2, hand2)
        /\ Placed(ring, read_pos, write_pos, Hand) => Placed(rg2, read_pos, hi2, hand2)
        /\ \A p \in Positions(read_pos, write_pos, "filled") :
              Entry(rg2, "filled", p) = Entry(ring, "filled", p)
        /\ Entry(rg2, "filled", write_pos["filled"]) = Hand["producer"]
        /\ Positions(read_pos, hi2, "filled")
              = Positions(read_pos, write_pos, "filled") \cup {write_pos["filled"]}
    BY <2>1, <2>3, <2>6, PushMoves
  <2> QED  BY <2>2, <2>4
<1>9. storage
  <2>1. Hand["producer"] # None /\ "producer" \in Hands  BY <1>3, <1>t DEF Index, None, Hands
  <2> QED  BY <2>1 DEF OrderInv, PlaceInv
<1>10. PlaceInv'  BY <1>1, <1>6, <1>8, <1>9 DEF OrderInv, PlaceInv
<1>11. HandInv'
  BY <1>0, <1>1, <1>2 DEF OrderInv, HandInv, DataInv
<1>12. PositionInv'
  <2>1. /\ index'[Consumer] = index[Consumer] /\ write_pos'["empty"] = write_pos["empty"]
        /\ write_pos'["filled"] = write_pos["filled"] + 1
    BY <1>0, <1>1, <1>5, <1>t DEF DataInv
  <2>2. ASSUME NEW r \in Nat, NEW w \in Nat, r <= w, w - r < buffer_count
        PROVE  r <= w + 1 /\ w + 1 <= r + buffer_count
    BY <2>2, <1>n
  <2>3. \A s \in Side : read_pos[s] <= write_pos'[s]
                        /\ write_pos'[s] <= read_pos[s] + buffer_count
    <3>1. read_pos["filled"] <= write_pos'["filled"]
          /\ write_pos'["filled"] <= read_pos["filled"] + buffer_count
      <4>1. read_pos["filled"] \in Nat /\ write_pos["filled"] \in Nat  BY <1>0, <1>t
      <4>2. read_pos["filled"] <= write_pos["filled"]
            /\ write_pos["filled"] - read_pos["filled"] < buffer_count
        BY <1>4
      <4> QED  BY ONLY <4>1, <4>2, <2>1, <2>2
    <3>2. read_pos["empty"] <= write_pos'["empty"]
          /\ write_pos'["empty"] <= read_pos["empty"] + buffer_count
      BY <2>1, <1>0 DEF OrderInv, PositionInv
    <3> QED  BY ONLY <3>1, <3>2 DEF Side
  <2> QED  BY <2>1, <2>3, <1>1, <1>4, <1>6 DEF OrderInv, PositionInv
<1>13. ChunkInv'
  <2>1. contents[Hand["producer"]] = write_pos["filled"] + 1
    BY <1>2, <1>4, <1>t DEF OrderInv, ChunkInv
  <2>2. \A p \in Positions(read_pos, write_pos', "filled") :
           contents[Entry(ring', "filled", p)] = p + 1
    BY <2>1, <1>8 DEF OrderInv, ChunkInv
  <2> QED  BY <2>2, <1>1, <1>2, <1>6 DEF ChunkInv
<1> QED  BY <1>1, <1>4, <1>5, <1>10, <1>11, <1>12, <1>13 DEF OrderInv

(* popFilledIndex: the consumer gets the chunk after the last one it got.  *)
LEMMA PopFilledOrder ==
    ASSUME NoWrap, DataInv, OrderInv, AcquireCurrentPop, ~RingEmpty("filled")
    PROVE  /\ OrderInv'
           /\ Len(delivered) < sent
           /\ delivered' = Append(delivered, Len(delivered) + 1)
           /\ read_pos' = [read_pos EXCEPT !["filled"] = @ + 1]
<1>0. Producer \in Threads /\ Consumer \in Threads /\ Producer # Consumer
      /\ "empty" \in Side /\ "filled" \in Side /\ "empty" # "filled"
  BY SideIndex, ThreadsAssumption
<1>1. /\ Goto(Consumer, "pop_filled", "idle")
      /\ consumer_current' = RingHead("filled")
      /\ delivered' = Append(delivered, contents[RingHead("filled")])
      /\ read_pos' = [read_pos EXCEPT !["filled"] = (@ + 1) % PosMod]
      /\ UNCHANGED <<ring, write_pos, index, storage, contents, sent>>
  BY DEF AcquireCurrentPop, PopIndex
<1>2. pc[Consumer] = "pop_filled" /\ pc'[Consumer] = "idle" /\ pc'[Producer] = pc[Producer]
  BY <1>0, <1>1 DEF Goto, DataInv
<1>t. /\ ring \in [Side -> [Index -> Index]]
      /\ read_pos \in [Side -> Nat] /\ write_pos \in [Side -> Nat]
      /\ Hand \in [Hands -> Index \cup {None}] /\ Hand["current"] = consumer_current
      /\ sent \in Nat /\ Len(delivered) \in Nat
  BY OrderTypes
<1>3. consumer_current = None /\ index[Consumer] = None
  BY <1>2 DEF OrderInv, HandInv
<1>4. /\ read_pos["filled"] < write_pos["filled"]
      /\ read_pos["filled"] = Len(delivered) /\ write_pos["filled"] = sent
  BY <1>0, <1>t DEF RingEmpty, OrderInv, PositionInv
<1>5. read_pos' = [read_pos EXCEPT !["filled"] = @ + 1]
  BY <1>0, <1>1, <1>4, RingFacts DEF OrderInv
<1>6. Hand' = [Hand EXCEPT !["current"] = Entry(ring, "filled", read_pos["filled"])]
  <2>1. consumer_current' = Entry(ring, "filled", read_pos["filled"])
    BY <1>1 DEF RingHead, Entry
  <2> QED  BY <2>1, <1>1 DEF Hand, Hands
<1>7. /\ Apart(ring, read_pos', write_pos, Hand')
      /\ Placed(ring, read_pos, write_pos, Hand) => Placed(ring, read_pos', write_pos, Hand')
  <2>1. Apart(ring, read_pos, write_pos, Hand) /\ "current" \in Hands
        /\ Hand["current"] = None
    BY <1>3, <1>t DEF OrderInv, PlaceInv, Hands
  <2>2. PICK lo2, hand2 : lo2 = read_pos' /\ hand2 = Hand'  OBVIOUS
  <2>3. PlaceTypes(ring, read_pos, write_pos, Hand)  BY <1>t DEF PlaceTypes
  <2>4. Popped(ring, read_pos, write_pos, Hand, "filled", "current", lo2, hand2)
    BY <2>1, <2>2, <1>0, <1>t, <1>4, <1>5, <1>6 DEF Popped
  <2>5. /\ Apart(ring, lo2, write_pos, hand2)
        /\ Placed(ring, read_pos, write_pos, Hand) => Placed(ring, lo2, write_pos, hand2)
    BY <2>1, <2>3, <2>4, PopMoves
  <2> QED  BY <2>2, <2>5
<1>8. storage
  <2>1. read_pos["filled"] # write_pos["filled"]  BY <1>0, <1>t, <1>4
  <2> QED  BY <2>1, <1>0 DEF OrderInv, PlaceInv
<1>9. PlaceInv'  BY <1>1, <1>7, <1>8 DEF OrderInv, PlaceInv
<1>10. HandInv'  BY <1>1, <1>2, <1>3 DEF OrderInv, HandInv
<1>11. contents[RingHead("filled")] = Len(delivered) + 1
  <2>1. read_pos["filled"] \in Positions(read_pos, write_pos, "filled")
    BY <1>0, <1>t, <1>4 DEF Positions
  <2> QED  BY <2>1, <1>4 DEF OrderInv, ChunkInv, Entry, RingHead
<1>12. Len(delivered') = Len(delivered) + 1
  <2>1. delivered \in Seq(0 .. MaxChunks)  BY DEF DataInv
  <2> QED  BY <2>1, <1>1
<1>13. PositionInv'
  <2>1. /\ read_pos'["empty"] = read_pos["empty"]
        /\ read_pos'["filled"] = read_pos["filled"] + 1
    BY <1>0, <1>5, <1>t
  <2>2. ASSUME NEW r \in Nat, NEW w \in Nat, r < w, w <= r + buffer_count
        PROVE  r + 1 <= w /\ w <= r + 1 + buffer_count
    BY <2>2, BufferCountAssumption
  <2>3. \A s \in Side : read_pos'[s] <= write_pos[s]
                        /\ write_pos[s] <= read_pos'[s] + buffer_count
    BY <2>1, <2>2, <1>0, <1>4, <1>t DEF OrderInv, PositionInv, Side
  <2>4. write_pos["empty"] <= buffer_count + Len(delivered)
    <3>1. One(index[Consumer] # None) = 0 /\ One(consumer_current # None) = 0
      BY <1>3 DEF One
    <3> QED  BY <3>1, <1>0, <1>t, BufferCountAssumption DEF OrderInv, PositionInv
  <2>5. One(index[Consumer] # None) = 0 /\ One(consumer_current' # None) \in {0, 1}
    BY <1>3 DEF One
  <2>6. write_pos["empty"] + One(index[Consumer] # None) + One(consumer_current' # None)
           <= buffer_count + (Len(delivered) + 1)
    BY <2>4, <2>5, <1>0, <1>t, BufferCountAssumption
  <2> QED  BY <2>1, <2>3, <2>6, <1>1, <1>4, <1>12 DEF PositionInv
<1>14. ChunkInv'
  <2>1. Positions(read_pos', write_pos, "filled") \subseteq Positions(read_pos, write_pos, "filled")
    BY <1>0, <1>5, <1>t DEF Positions
  <2> QED  BY <2>1, <1>1, <1>2 DEF OrderInv, ChunkInv, Entry
<1> QED  BY <1>1, <1>4, <1>5, <1>9, <1>10, <1>11, <1>13, <1>14 DEF OrderInv

(* switchToNext exchanges consumer_current for none and holds the buffer.  *)
LEMMA ExchangeOrder ==
    ASSUME DataInv, OrderInv, SwitchExchange, ~error_ready
    PROVE  OrderInv'
<1>0. Producer \in Threads /\ Consumer \in Threads /\ Producer # Consumer
  BY SideIndex, ThreadsAssumption
<1>1. /\ Goto(Consumer, "switch", IF consumer_current # None THEN "recycle_push" ELSE "enter")
      /\ index' = [index EXCEPT ![Consumer] = consumer_current]
      /\ consumer_current' = None
      /\ UNCHANGED <<ring, read_pos, write_pos, storage, contents, sent, delivered>>
  BY DEF SwitchExchange, rings
<1>2. /\ pc[Consumer] = "switch" /\ pc'[Producer] = pc[Producer]
      /\ consumer_current # None => pc'[Consumer] = "recycle_push"
  BY <1>0, <1>1 DEF Goto, DataInv
<1>t. /\ ring \in [Side -> [Index -> Index]]
      /\ read_pos \in [Side -> Nat] /\ write_pos \in [Side -> Nat]
      /\ Hand \in [Hands -> Index \cup {None}] /\ Hand["current"] = consumer_current
      /\ Hand["consumer"] = index[Consumer]
  BY OrderTypes
<1>3. index[Consumer] = None  BY <1>2 DEF OrderInv, HandInv
<1>4. index'[Consumer] = consumer_current /\ index'[Producer] = index[Producer]
  BY <1>0, <1>1 DEF DataInv
<1>5. /\ Apart(ring, read_pos, write_pos, Hand')
      /\ Placed(ring, read_pos, write_pos, Hand) => Placed(ring, read_pos, write_pos, Hand')
  <2>1. Apart(ring, read_pos, write_pos, Hand)  BY DEF OrderInv, PlaceInv
  <2>2. PICK hand2 : hand2 = Hand'  OBVIOUS
  <2>3. PlaceTypes(ring, read_pos, write_pos, Hand)  BY <1>t DEF PlaceTypes
  <2>4. /\ Hand'["consumer"] = consumer_current /\ Hand'["current"] = None
        /\ Hand'["producer"] = index[Producer] /\ Hand["producer"] = index[Producer]
    BY <1>1, <1>4 DEF Hand, Hands
  <2>5. Passed(Hand, "current", "consumer", hand2)
    BY <2>2, <2>4, <1>3, <1>t DEF Passed, Hands
  <2> QED  BY <2>1, <2>2, <2>3, <2>5, HandMoves
<1>6. PlaceInv'
  <2>1. ~storage => \A h \in Hands : Hand'[h] = None
    <3> SUFFICES ASSUME ~storage PROVE \A h \in Hands : Hand'[h] = None  OBVIOUS
    <3>1. \A h \in Hands : Hand[h] = None  BY DEF OrderInv, PlaceInv
    <3>2. index[Producer] = None /\ consumer_current = None  BY <3>1 DEF Hand, Hands
    <3> QED  BY <3>2, <1>1, <1>4 DEF Hand, Hands
  <2> QED  BY <2>1, <1>1, <1>5 DEF OrderInv, PlaceInv
<1>7. HandInv'  BY <1>1, <1>2, <1>3, <1>4 DEF OrderInv, HandInv
<1>8. PositionInv'
  <2>1. One(index[Consumer] # None) = 0 /\ One(consumer_current' # None) = 0
        /\ One(index'[Consumer] # None) = One(consumer_current # None)
        /\ One(consumer_current # None) \in {0, 1}
    BY <1>1, <1>3, <1>4 DEF One
  <2>2. write_pos["empty"] + One(index'[Consumer] # None) + One(consumer_current' # None)
           = write_pos["empty"] + One(index[Consumer] # None) + One(consumer_current # None)
    <3>1. write_pos["empty"] \in Nat  BY <1>t, SideIndex
    <3> QED  BY <3>1, <2>1
  <2> QED  BY <2>2, <1>1 DEF OrderInv, PositionInv
<1>9. ChunkInv'  BY <1>1, <1>2, <1>4 DEF OrderInv, ChunkInv, Positions, Entry
<1> QED  BY <1>6, <1>7, <1>8, <1>9 DEF OrderInv

(* pushEmptyIndex: the consumer gives the buffer back.                     *)
LEMMA PushEmptyOrder ==
    ASSUME NoWrap, DataInv, OrderInv, SwitchPush, ~RingFull("empty")
    PROVE  OrderInv' /\ write_pos' = [write_pos EXCEPT !["empty"] = @ + 1]
<1>0. Producer \in Threads /\ Consumer \in Threads /\ Producer # Consumer
      /\ "empty" \in Side /\ "filled" \in Side /\ "empty" # "filled"
  BY SideIndex, ThreadsAssumption
<1>n. buffer_count \in Nat \ {0} /\ PosMod \in Nat \ {0} /\ MaxChunks \in Nat
      /\ MaxChunks + buffer_count < PosMod
  BY BufferCountAssumption, BoundsAssumption DEF NoWrap
<1>1. /\ Goto(Consumer, "recycle_push", "recycle")
      /\ PushIndex("empty", index[Consumer])
      /\ index' = [index EXCEPT ![Consumer] = None]
      /\ UNCHANGED <<consumer_current, storage, contents, sent, delivered>>
  BY DEF SwitchPush
<1>2. pc[Consumer] = "recycle_push" /\ pc'[Consumer] = "recycle" /\ pc'[Producer] = pc[Producer]
  BY <1>0, <1>1 DEF Goto, DataInv
<1>t. /\ ring \in [Side -> [Index -> Index]]
      /\ read_pos \in [Side -> Nat] /\ write_pos \in [Side -> Nat]
      /\ Hand \in [Hands -> Index \cup {None}] /\ Hand["consumer"] = index[Consumer]
      /\ sent \in Nat /\ Len(delivered) \in Nat
  BY OrderTypes
<1>3. index[Consumer] \in Index /\ index[Consumer] # None /\ consumer_current = None
  BY <1>2 DEF DataInv, OrderInv, HandInv, Index, None
<1>4. /\ read_pos["empty"] <= write_pos["empty"]
      /\ write_pos["empty"] - read_pos["empty"] < buffer_count
  <2>1. RingLen("empty") \in 0 .. buffer_count  BY <1>0, RingFacts DEF OrderInv
  <2>2. ~(RingLen("empty") >= buffer_count)  BY DEF RingFull
  <2>3. RingLen("empty") < buffer_count  BY <2>1, <2>2, <1>n
  <2> QED  BY <2>3, <1>0, RingFacts DEF OrderInv
<1>5. write_pos["empty"] + 1 <= buffer_count + Len(delivered) /\ Len(delivered) <= sent
      /\ sent <= MaxChunks
  <2>1. One(index[Consumer] # None) = 1 /\ One(consumer_current # None) = 0
    BY <1>3 DEF One
  <2>2. write_pos["empty"] + 1 <= buffer_count + Len(delivered)
    BY <2>1, <1>0, <1>n, <1>t DEF OrderInv, PositionInv
  <2>3. Len(delivered) <= sent  BY <1>0 DEF OrderInv, PositionInv
  <2>4. sent <= MaxChunks  BY <1>n DEF DataInv
  <2> QED  BY <2>2, <2>3, <2>4
<1>6. write_pos' = [write_pos EXCEPT !["empty"] = @ + 1]
  <2>1. PICK w \in Nat : w = write_pos["empty"]  BY <1>0, <1>t
  <2>2. w + 1 \in 0 .. PosMod - 1  BY <1>n, <1>5, <1>t, <2>1
  <2>3. (w + 1) % PosMod = w + 1  BY <2>2, <1>n, SmallMod
  <2> QED  BY <2>1, <2>3, <1>0, <1>1, <1>t DEF PushIndex
<1>7. ring' = [ring EXCEPT !["empty"][write_pos["empty"] % buffer_count] = Hand["consumer"]]
      /\ read_pos' = read_pos
  BY <1>1, <1>t DEF PushIndex
<1>8. index'[Consumer] = None /\ index'[Producer] = index[Producer]
  BY <1>0, <1>1 DEF DataInv
<1>9. Hand' = [Hand EXCEPT !["consumer"] = None]  BY <1>1, <1>8 DEF Hand, Hands
<1>10. /\ Apart(ring', read_pos, write_pos', Hand')
       /\ Placed(ring, read_pos, write_pos, Hand) => Placed(ring', read_pos, write_pos', Hand')
  <2>1. Apart(ring, read_pos, write_pos, Hand) /\ "consumer" \in Hands
        /\ Hand["consumer"] \in Index
    BY <1>3, <1>t DEF OrderInv, PlaceInv, Hands
  <2>2. PICK rg2, hi2, hand2 : rg2 = ring' /\ hi2 = write_pos' /\ hand2 = Hand'  OBVIOUS
  <2>3. PlaceTypes(ring, read_pos, write_pos, Hand)  BY <1>t DEF PlaceTypes
  <2>5. write_pos["empty"] % buffer_count \in Index  BY <1>0, <1>t, SideIndex
  <2>6. Pushed(ring, read_pos, write_pos, Hand, "empty", "consumer", rg2, hi2, hand2)
    BY <2>1, <2>2, <2>5, <1>0, <1>t, <1>4, <1>6, <1>7, <1>9 DEF Pushed
  <2>4. /\ Apart(rg2, read_pos, hi2, hand2)
        /\ Placed(ring, read_pos, write_pos, Hand) => Placed(rg2, read_pos, hi2, hand2)
    BY <2>1, <2>3, <2>6, PushMoves
  <2> QED  BY <2>2, <2>4
<1>11. storage
  <2>1. Hand["consumer"] # None /\ "consumer" \in Hands  BY <1>3, <1>t DEF Hands
  <2> QED  BY <2>1 DEF OrderInv, PlaceInv
<1>12. PlaceInv'  BY <1>1, <1>7, <1>10, <1>11 DEF OrderInv, PlaceInv
<1>13. HandInv'  BY <1>1, <1>2, <1>3, <1>8 DEF OrderInv, HandInv
<1>14. PositionInv'
  <2>1. /\ write_pos'["filled"] = write_pos["filled"]
        /\ write_pos'["empty"] = write_pos["empty"] + 1
    BY <1>0, <1>6, <1>t
  <2>2. ASSUME NEW r \in Nat, NEW w \in Nat, r <= w, w - r < buffer_count
        PROVE  r <= w + 1 /\ w + 1 <= r + buffer_count
    BY <2>2, <1>n
  <2>3. \A s \in Side : read_pos[s] <= write_pos'[s]
                        /\ write_pos'[s] <= read_pos[s] + buffer_count
    <3>1. read_pos["empty"] <= write_pos'["empty"]
          /\ write_pos'["empty"] <= read_pos["empty"] + buffer_count
      <4>1. read_pos["empty"] \in Nat /\ write_pos["empty"] \in Nat  BY <1>0, <1>t
      <4> QED  BY ONLY <4>1, <2>1, <2>2, <1>4
    <3>2. read_pos["filled"] <= write_pos'["filled"]
          /\ write_pos'["filled"] <= read_pos["filled"] + buffer_count
      BY <2>1, <1>0 DEF OrderInv, PositionInv
    <3> QED  BY ONLY <3>1, <3>2 DEF Side
  <2>4. write_pos'["empty"] + One(index'[Consumer] # None) + One(consumer_current' # None)
           <= buffer_count + Len(delivered)
    <3>1. One(index'[Consumer] # None) = 0 /\ One(consumer_current' # None) = 0
      BY <1>1, <1>3, <1>8 DEF One
    <3>2. write_pos["empty"] \in Nat  BY <1>0, <1>t
    <3> QED  BY <3>1, <3>2, <2>1, <1>5, <1>n, <1>t
  <2> QED  BY <2>1, <2>3, <2>4, <1>1, <1>7 DEF OrderInv, PositionInv
<1>15. ChunkInv'
  <2>1. Positions(read_pos', write_pos', "filled") = Positions(read_pos, write_pos, "filled")
    BY <1>0, <1>6, <1>7, <1>t DEF Positions
  <2>2. ring'["filled"] = ring["filled"]  BY <1>0, <1>7, <1>t
  <2> QED  BY <2>1, <2>2, <1>1, <1>2, <1>8 DEF OrderInv, ChunkInv, Entry
<1> QED  BY <1>6, <1>12, <1>13, <1>14, <1>15 DEF OrderInv

-----------------------------------------------------------------------------
(* What a step may do to the stream of chunks: queue the next one when     *)
(* there is room, hand out the next one that is queued, or begin anew.     *)
ChunkStep ==
    \/ UNCHANGED <<sent, delivered>>
    \/ sent - Len(delivered) < buffer_count /\ sent' = sent + 1 /\ UNCHANGED delivered
    \/ /\ Len(delivered) < sent /\ delivered' = Append(delivered, Len(delivered) + 1)
       /\ UNCHANGED sent
    \/ sent' = 0 /\ delivered' = <<>>

LEMMA QuietChunks ==
    ASSUME DataInv, OrderInv, NEW t \in Threads, NEW from, NEW to, Goto(t, from, to),
           UNCHANGED <<rings, data>>,
           t = Producer => (from \notin HandLabels \/ to \in HandLabels) /\ to # "push",
           t = Consumer => /\ from \notin {"recycle_push", "quit"} \/ to \in {"recycle_push", "quit"}
                           /\ \/ from \notin {"idle", "quit", "enter", "switch"}
                              \/ to \in {"idle", "quit", "enter", "switch"}
                              \/ consumer_current = None
    PROVE  OrderInv' /\ ChunkStep
<1>1. UNCHANGED <<rings, consumer_current, storage, contents, index, sent, delivered>>
  BY DEF data
<1> QED  BY <1>1, QuietOrder DEF ChunkStep

LEMMA AcquireEmptyOrder ==
    ASSUME NoWrap, DataInv, OrderInv, acquireEmpty PROVE OrderInv' /\ ChunkStep
<1> USE SideIndex, QuietMoves DEF HandLabels, StopSteps
<1>1. CASE CallAcquireEmpty  BY <1>1, QuietChunks DEF CallAcquireEmpty
<1>2. CASE AcquireEmptyCheckStop  BY <1>2, QuietChunks DEF AcquireEmptyCheckStop
<1>3. CASE AcquireEmptyTry
  <2>1. /\ Goto(Producer, "try", "took") \/ Goto(Producer, "try", "blocked")
        /\ UNCHANGED <<rings, data>>
    BY <1>3, TakeTokenQuiet DEF AcquireEmptyTry
  <2> QED  BY <2>1, QuietChunks
<1>4. CASE AcquireEmptyTaken  BY <1>4, CountDownQuiet, QuietChunks DEF AcquireEmptyTaken
<1>5. CASE AcquireEmptyBlock  BY <1>5, TakeTokenQuiet, QuietChunks DEF AcquireEmptyBlock
<1>6. CASE AcquireEmptyWoken  BY <1>6, CountDownQuiet, QuietChunks DEF AcquireEmptyWoken
<1>7. CASE AcquireEmptyRecheck  BY <1>7, QuietChunks DEF AcquireEmptyRecheck
<1>8. CASE AcquireEmptyPop
  <2>1. CASE RingEmpty("empty")
    <3>1. Goto(Producer, "pop", "unget") /\ UNCHANGED <<rings, data>>
      BY <1>8, <2>1 DEF AcquireEmptyPop, data
    <3> QED  BY <3>1, QuietChunks
  <2>2. CASE ~RingEmpty("empty")
    <3>1. UNCHANGED <<sent, delivered>>  BY <1>8 DEF AcquireEmptyPop
    <3> QED  BY <1>8, <2>2, <3>1, PopEmptyOrder DEF ChunkStep
  <2> QED  BY <2>1, <2>2
<1>9. CASE AcquireEmptyUnget
  <2>1. /\ \/ Goto(Producer, "unget", "unget_post") \/ Goto(Producer, "unget", "idle")
           \/ Goto(Producer, "unget_post", "idle")
        /\ UNCHANGED <<rings, data>>
    BY <1>9, SafeReleaseQuiet DEF AcquireEmptyUnget
  <2> QED  BY <2>1, QuietChunks
<1> QED  BY <1>1, <1>2, <1>3, <1>4, <1>5, <1>6, <1>7, <1>8, <1>9 DEF acquireEmpty

LEMMA ProduceOrder ==
    ASSUME NoWrap, DataInv, OrderInv, Fill \/ releaseFilled PROVE OrderInv' /\ ChunkStep
<1> USE SideIndex, QuietMoves DEF HandLabels, StopSteps
<1>1. CASE Fill
  <2>1. UNCHANGED <<sent, delivered>>  BY <1>1 DEF Fill
  <2> QED  BY <1>1, <2>1, FillOrder DEF ChunkStep
<1>2. CASE ReleaseFilledPush
  <2>1. CASE RingFull("filled")
    <3>1. Goto(Producer, "push", "quit") /\ UNCHANGED <<rings, data>>
      BY <1>2, <2>1 DEF ReleaseFilledPush, data
    <3> QED  BY <3>1, QuietChunks
  <2>2. CASE ~RingFull("filled")
    <3>1. UNCHANGED delivered  BY <1>2 DEF ReleaseFilledPush
    <3> QED  BY <1>2, <2>2, <3>1, PushFilledOrder DEF ChunkStep
  <2> QED  BY <2>1, <2>2
<1>3. CASE ReleaseFilledToken
  <2>1. /\ \/ Goto(Producer, "publish", "publish_post") \/ Goto(Producer, "publish", "quit")
           \/ Goto(Producer, "publish_post", "idle")
        /\ UNCHANGED <<rings, data>>
    BY <1>3, SafeReleaseQuiet DEF ReleaseFilledToken
  <2> QED  BY <2>1, QuietChunks
<1> QED  BY <1>1, <1>2, <1>3 DEF releaseFilled

(* A call that sets block.                                                 *)
LEMMA BlockOrder ==
    ASSUME DataInv, OrderInv, NEW to \in {"enter", "switch"}, Goto(Consumer, "idle", to),
           UNCHANGED <<rings, consumer_current, storage, contents, index, sent, delivered>>
    PROVE  OrderInv' /\ ChunkStep
BY SideIndex, QuietMoves, QuietOrder DEF ChunkStep

LEMMA AcquireCurrentOrder ==
    ASSUME NoWrap, DataInv, OrderInv, acquireCurrent PROVE OrderInv' /\ ChunkStep
<1> USE SideIndex, QuietMoves
<1>1. CASE CallAcquireCurrent  BY <1>1, BlockOrder DEF CallAcquireCurrent
<1>2. CASE AcquireCurrentEnter  BY <1>2, QuietChunks DEF AcquireCurrentEnter
<1>3. CASE AcquireCurrentAcquire
  <2>1. /\ Goto(Consumer, "acquire", "acquired") \/ Goto(Consumer, "acquire", "idle")
        /\ UNCHANGED <<rings, data>>
    BY <1>3, TakeTokenQuiet DEF AcquireCurrentAcquire
  <2> QED  BY <2>1, QuietChunks
<1>4. CASE AcquireCurrentAcquired
  BY <1>4, CountDownQuiet, QuietChunks DEF AcquireCurrentAcquired
<1>5. CASE AcquireCurrentErrorCheck  BY <1>5, QuietChunks DEF AcquireCurrentErrorCheck
<1>6. CASE AcquireCurrentPop
  <2>1. CASE RingEmpty("filled")
    <3>1. Goto(Consumer, "pop_filled", "stop_check") /\ UNCHANGED <<rings, data>>
      BY <1>6, <2>1 DEF AcquireCurrentPop, data
    <3> QED  BY <3>1, QuietChunks
  <2>2. CASE ~RingEmpty("filled")
    <3>1. UNCHANGED sent  BY <1>6 DEF AcquireCurrentPop
    <3> QED  BY <1>6, <2>2, <3>1, PopFilledOrder DEF ChunkStep
  <2> QED  BY <2>1, <2>2
<1>7. CASE AcquireCurrentStopCheck  BY <1>7, QuietChunks DEF AcquireCurrentStopCheck
<1> QED  BY <1>1, <1>2, <1>3, <1>4, <1>5, <1>6, <1>7 DEF acquireCurrent

LEMMA SwitchToNextOrder ==
    ASSUME NoWrap, DataInv, OrderInv, switchToNext PROVE OrderInv' /\ ChunkStep
<1> USE SideIndex, QuietMoves
<1>1. CASE CallSwitchToNext  BY <1>1, BlockOrder DEF CallSwitchToNext
<1>2. CASE SwitchExchange
  <2>1. CASE error_ready
    <3>1. Goto(Consumer, "switch", "quit") /\ UNCHANGED <<rings, data>>
      BY <1>2, <2>1 DEF SwitchExchange, data
    <3> QED  BY <3>1, QuietChunks
  <2>2. CASE ~error_ready
    <3>1. UNCHANGED <<sent, delivered>>  BY <1>2 DEF SwitchExchange
    <3> QED  BY <1>2, <2>2, <3>1, ExchangeOrder DEF ChunkStep
  <2> QED  BY <2>1, <2>2
<1>3. CASE SwitchPush
  <2>1. CASE RingFull("empty")
    <3>1. Goto(Consumer, "recycle_push", "quit") /\ UNCHANGED <<rings, data>>
      BY <1>3, <2>1 DEF SwitchPush, data
    <3>2. consumer_current = None
      BY <3>1 DEF Goto, OrderInv, HandInv
    <3> QED  BY <3>1, <3>2, QuietChunks
  <2>2. CASE ~RingFull("empty")
    <3>1. UNCHANGED <<sent, delivered>>  BY <1>3 DEF SwitchPush
    <3> QED  BY <1>3, <2>2, <3>1, PushEmptyOrder DEF ChunkStep
  <2> QED  BY <2>1, <2>2
<1>4. CASE SwitchToken
  <2>1. /\ \/ Goto(Consumer, "recycle", "recycle_post") \/ Goto(Consumer, "recycle", "enter")
           \/ Goto(Consumer, "recycle_post", "enter")
        /\ UNCHANGED <<rings, data>>
    BY <1>4, SafeReleaseQuiet DEF SwitchToken
  <2> QED  BY <2>1, QuietChunks
<1> QED  BY <1>1, <1>2, <1>3, <1>4 DEF switchToNext

(* Who stops a stream: the producer, with or without a buffer in its hand, *)
(* or a thread that never has one.                                         *)
LEMMA StopOrder ==
    ASSUME DataInv, OrderInv, NEW t \in Threads, t # Consumer,
           CallRequestStop(t) \/ publishError(t) \/ requestStopWakeup(t)
    PROVE  OrderInv' /\ ChunkStep
<1> USE DEF HandLabels, StopSteps
<1>1. CASE CallRequestStop(t)  BY <1>1, QuietChunks DEF CallRequestStop
<1>2. CASE publishError(t)  BY <1>2, QuietChunks DEF publishError
<1>3. CASE StopStore(t)  BY <1>3, QuietChunks DEF StopStore
<1>4. CASE StopToken(t)
  <2>1. /\ \/ Goto(t, "stop_empty", "stop_empty_post") \/ Goto(t, "stop_empty", "stop_filled")
           \/ Goto(t, "stop_empty_post", "stop_filled")
           \/ Goto(t, "stop_filled", "stop_filled_post")
           \/ Goto(t, "stop_filled", AfterStop(t)) \/ Goto(t, "stop_filled_post", AfterStop(t))
        /\ UNCHANGED <<rings, data>>
    BY <1>4, SafeReleaseQuiet DEF StopToken
  <2>2. AfterStop(t) \in {"quit", "idle"} /\ (t = Producer => AfterStop(t) = "quit")
    BY DEF AfterStop
  <2> QED  BY <2>1, <2>2, QuietChunks
<1> QED  BY <1>1, <1>2, <1>3, <1>4 DEF requestStopWakeup

LEMMA OrderNext ==
    ASSUME NoWrap, DataInv, OrderInv, [Next]_vars PROVE OrderInv' /\ ChunkStep
<1>1. CASE ProducerNext
  BY <1>1, SideIndex, QuietMoves, AcquireEmptyOrder, ProduceOrder, StopOrder DEF ProducerNext
<1>2. CASE ConsumerNext  BY <1>2, AcquireCurrentOrder, SwitchToNextOrder DEF ConsumerNext
<1>3. ASSUME NEW t \in Stoppers, StopperNext(t) PROVE OrderInv' /\ ChunkStep
  BY <1>3, SideIndex, QuietMoves, StopOrder DEF StopperNext
<1>4. CASE Initialize \/ Reset
  <2>1. Rearm /\ storage' = TRUE  BY <1>4 DEF Initialize, Reset, DataInv
  <2>2. sent' = 0 /\ delivered' = <<>>  BY <2>1 DEF Rearm
  <2> QED  BY <2>1, <2>2, OrderRearm DEF ChunkStep
<1>5. CASE UNCHANGED vars
  <2>1. UNCHANGED <<ring, read_pos, write_pos, consumer_current, storage, contents, index,
                    sent, delivered, pc>>
    BY <1>5 DEF vars, rings, data
  <2> QED  BY <2>1 DEF OrderInv, PositionInv, HandInv, PlaceInv, ChunkInv, ChunkStep, Hand,
                       Positions, Entry
<1> QED  BY <1>1, <1>2, <1>3, <1>4, <1>5 DEF Next

LEMMA OrderAlways == ASSUME NoWrap PROVE Spec => [](DataInv /\ OrderInv)
<1>1. Init => DataInv /\ OrderInv  BY DataInvInit, OrderInit
<1>2. (DataInv /\ OrderInv) /\ [Next]_vars => (DataInv /\ OrderInv)'
  BY DataInvNext, OrderNext
<1> QED  BY <1>1, <1>2, PTL DEF Spec

-----------------------------------------------------------------------------
(* Every buffer is in exactly one place: the empty ring, the producer's    *)
(* hand (acquireEmpty to releaseFilled), the filled ring, consumer_current *)
(* or the hand of switchToNext; through stops and errors too.              *)
THEOREM OneOwnerBelowWrap == ASSUME NoWrap PROVE Spec => []OneOwner
<1>1. ASSUME DataInv, OrderInv, storage, NEW i \in Index PROVE Cardinality(Owners(i)) = 1
  <2>t. /\ read_pos \in [Side -> Nat] /\ write_pos \in [Side -> Nat]
        /\ Hand["producer"] = index[Producer] /\ Hand["consumer"] = index[Consumer]
        /\ Hand["current"] = consumer_current /\ i # None
    BY <1>1, OrderTypes
  <2>1. Hands = {"producer", "consumer", "current"}  BY DEF Hands
  <2>2. ASSUME NEW s \in Side
        PROVE  i \in Queued(s) <=> \E p \in Positions(read_pos, write_pos, s) :
                                      Entry(ring, s, p) = i
    <3>1. PICK r \in Nat : r = read_pos[s]  BY <2>t
    <3>2. PICK w \in Nat : w = write_pos[s]  BY <2>t
    <3>3. RingLen(s) = w - r /\ Positions(read_pos, write_pos, s) = r .. w - 1
      BY <1>1, <3>1, <3>2, RingFacts DEF OrderInv, Positions
    <3>4. ASSUME NEW k \in 0 .. w - r - 1 PROVE r + k \in r .. w - 1  BY <3>4
    <3>5. ASSUME NEW p \in r .. w - 1 PROVE p - r \in 0 .. w - r - 1 /\ r + (p - r) = p
      BY <3>5
    <3>6. i \in Queued(s) <=> \E k \in 0 .. w - r - 1 : ring[s][(r + k) % buffer_count] = i
      BY <3>1, <3>3 DEF Queued
    <3>7. i \in Queued(s) <=> \E p \in r .. w - 1 : ring[s][p % buffer_count] = i
      BY <3>4, <3>5, <3>6
    <3> QED  BY <3>3, <3>7 DEF Entry
  <2>3. ASSUME NEW s \in Side, i \in Queued(s)
        PROVE  /\ index[Producer] # i /\ index[Consumer] # i /\ consumer_current # i
               /\ \A r \in Side : i \in Queued(r) => r = s
    <3>1. PICK p \in Positions(read_pos, write_pos, s) : Entry(ring, s, p) = i
      BY <2>2, <2>3
    <3>2. \A h \in Hands : Hand[h] # i  BY <1>1, <3>1 DEF OrderInv, PlaceInv, Apart
    <3>3. ASSUME NEW r \in Side, i \in Queued(r) PROVE r = s
      <4>1. PICK q \in Positions(read_pos, write_pos, r) : Entry(ring, r, q) = i
        BY <2>2, <3>3
      <4> QED  BY <1>1, <3>1, <4>1 DEF OrderInv, PlaceInv, Apart
    <3> QED  BY <3>2, <3>3, <2>1, <2>t
  <2>4. \A g, h \in Hands : Hand[g] = i /\ Hand[h] = i => g = h
    BY <1>1, <2>t DEF OrderInv, PlaceInv, Apart
  <2>5. \/ \E s \in Side : i \in Queued(s)
        \/ \E h \in Hands : Hand[h] = i
    BY <1>1, <2>2 DEF OrderInv, PlaceInv, Placed
  <2>6. \E x : Owners(i) = {x}
    <3>1. CASE \E s \in Side : i \in Queued(s)
      <4>1. PICK s \in Side : i \in Queued(s)  BY <3>1
      <4>2. Owners(i) = {s}  BY <4>1, <2>3 DEF Owners
      <4> QED  BY <4>2
    <3>2. ASSUME ~\E s \in Side : i \in Queued(s) PROVE \E x : Owners(i) = {x}
      <4>1. CASE index[Producer] = i
        <5>1. index[Consumer] # i /\ consumer_current # i  BY <4>1, <2>1, <2>4, <2>t
        <5>2. Owners(i) = {Producer}  BY <3>2, <4>1, <5>1 DEF Owners
        <5> QED  BY <5>2
      <4>2. CASE index[Consumer] = i
        <5>1. index[Producer] # i /\ consumer_current # i  BY <4>2, <2>1, <2>4, <2>t
        <5>2. Owners(i) = {Consumer}  BY <3>2, <4>2, <5>1 DEF Owners
        <5> QED  BY <5>2
      <4>3. CASE consumer_current = i
        <5>1. index[Producer] # i /\ index[Consumer] # i  BY <4>3, <2>1, <2>4, <2>t
        <5>2. Owners(i) = {"current"}  BY <3>2, <4>3, <5>1 DEF Owners
        <5> QED  BY <5>2
      <4> QED  BY <3>2, <4>1, <4>2, <4>3, <2>1, <2>5, <2>t
    <3> QED  BY <3>1, <3>2
  <2> QED  BY <2>6, FS_Singleton
<1>2. DataInv /\ OrderInv => OneOwner  BY <1>1 DEF OneOwner
<1> QED  BY <1>2, OrderAlways, PTL

(* Only the producer writes into a buffer, and never into the one whose    *)
(* view getCurrent gave to the consumer.                                   *)
LEMMA WritesOwn ==
    ASSUME DataInv, OrderInv, [Next]_vars,
           consumer_current # None, consumer_current' = consumer_current
    PROVE  contents'[consumer_current] = contents[consumer_current]
<1>1. CASE Fill
  <2>1. /\ pc[Producer] = "filling"
        /\ contents' = [contents EXCEPT ![index[Producer]] = sent + 1]
    BY <1>1 DEF Fill, Goto
  <2>2. index[Producer] \in Index /\ contents \in [Index -> 0 .. MaxChunks]
        /\ consumer_current \in Index
    BY <2>1 DEF DataInv, Filling
  <2>3. /\ Hand["producer"] = index[Producer] /\ Hand["current"] = consumer_current
        /\ "producer" \in Hands /\ "current" \in Hands
    BY OrderTypes DEF Hands
  <2>4. index[Producer] # consumer_current
    BY <2>3 DEF OrderInv, PlaceInv, Apart
  <2> QED  BY <2>1, <2>2, <2>4
<1>2. CASE Rearm  BY <1>2 DEF Rearm
<1>3. CASE UNCHANGED contents  BY <1>3
<1>4. UNCHANGED data => UNCHANGED contents  BY DEF data
<1>5. acquireEmpty \/ releaseFilled => UNCHANGED contents
  BY <1>4, TakeTokenQuiet, CountDownQuiet, SafeReleaseQuiet
  DEF acquireEmpty, CallAcquireEmpty, AcquireEmptyCheckStop, AcquireEmptyTry,
      AcquireEmptyTaken, AcquireEmptyBlock, AcquireEmptyWoken, AcquireEmptyRecheck,
      AcquireEmptyPop, AcquireEmptyUnget, releaseFilled, ReleaseFilledPush,
      ReleaseFilledToken
<1>6. acquireCurrent => UNCHANGED contents
  BY <1>4, TakeTokenQuiet, CountDownQuiet
  DEF acquireCurrent, CallAcquireCurrent, AcquireCurrentEnter, AcquireCurrentAcquire,
      AcquireCurrentAcquired, AcquireCurrentErrorCheck, AcquireCurrentPop,
      AcquireCurrentStopCheck
<1>7. switchToNext => UNCHANGED contents
  BY <1>4, SafeReleaseQuiet
  DEF switchToNext, CallSwitchToNext, SwitchExchange, SwitchPush, SwitchToken
<1>8. ASSUME NEW t, CallRequestStop(t) \/ publishError(t) \/ requestStopWakeup(t)
      PROVE  UNCHANGED contents
  BY <1>4, <1>8, SafeReleaseQuiet
  DEF CallRequestStop, publishError, requestStopWakeup, StopStore, StopToken
<1>9. UNCHANGED vars => UNCHANGED contents  BY DEF vars, data
<1> QED  BY <1>1, <1>2, <1>3, <1>5, <1>6, <1>7, <1>8, <1>9
    DEF Next, ProducerNext, ConsumerNext, StopperNext, Initialize, Reset

(* The bytes behind a view stay as they are until the consumer gives the   *)
(* view up in switchToNext, however far the producer has run ahead.        *)
THEOREM HeldViewStableBelowWrap == ASSUME NoWrap PROVE Spec => HeldViewStable
<1>1. DataInv /\ OrderInv /\ [Next]_vars
         => [(consumer_current # None /\ consumer_current' = consumer_current)
                => contents'[consumer_current] = contents[consumer_current]]_vars
  BY WritesOwn
<1> QED  BY <1>1, OrderAlways, PTL DEF Spec, HeldViewStable

(* Chunks reach the consumer once each and in file order, at most          *)
(* buffer_count read ahead of it: the buffer implements OrderedStream.     *)
THEOREM ChunksInOrder == ASSUME NoWrap PROVE Spec => ImplementsOrderedStream
<1>1. Init => Stream!Init  BY DEF Init, Stream!Init
<1>2. DataInv /\ OrderInv /\ [Next]_vars => [Stream!Next]_(Stream!streamVars)
  <2> SUFFICES ASSUME DataInv, OrderInv, [Next]_vars
               PROVE  [Stream!Next]_(Stream!streamVars)
    OBVIOUS
  <2>1. ChunkStep  BY OrderNext
  <2>t. sent \in Nat /\ Len(delivered) \in Nat /\ delivered \in Seq(0 .. MaxChunks)
        /\ buffer_count \in Nat \ {0} /\ 1 \in 0 .. buffer_count
    BY OrderTypes, BufferCountAssumption DEF DataInv
  <2>2. CASE UNCHANGED <<sent, delivered>>  BY <2>2 DEF Stream!streamVars
  <2>3. CASE sent - Len(delivered) < buffer_count /\ sent' = sent + 1 /\ UNCHANGED delivered
    <3>1. sent + 1 - Len(delivered) <= buffer_count  BY <2>3, <2>t
    <3>2. Stream!Produce(1)  BY <2>3, <3>1 DEF Stream!Produce
    <3> QED  BY <3>2, <2>t DEF Stream!Next
  <2>4. CASE /\ Len(delivered) < sent /\ delivered' = Append(delivered, Len(delivered) + 1)
             /\ UNCHANGED sent
    <3>1. Len(delivered) + 1 <= sent  BY <2>4, <2>t
    <3>2. delivered' = delivered \o [k \in 1 .. 1 |-> Len(delivered) + k]
      <4>1. [k \in 1 .. 1 |-> Len(delivered) + k] = <<Len(delivered) + 1>>  BY <2>t
      <4> QED  BY <4>1, <2>4, <2>t
    <3>3. Stream!Deliver(1)  BY <2>4, <3>1, <3>2 DEF Stream!Deliver
    <3> QED  BY <3>3, <2>t DEF Stream!Next
  <2>5. CASE sent' = 0 /\ delivered' = <<>>  BY <2>5 DEF Stream!Next, Stream!Open
  <2> QED  BY <2>1, <2>2, <2>3, <2>4, <2>5 DEF ChunkStep
<1> QED  BY <1>1, <1>2, OrderAlways, PTL DEF Spec, ImplementsOrderedStream, Stream!Spec

-----------------------------------------------------------------------------
(* Who releases a token without a buffer to back it: a thread that stops   *)
(* the stream, and a producer that gives a token back, which it does only  *)
(* when tokens have outrun the buffers.                                    *)
StopInv ==
    /\ \A t \in Threads : pc[t] \in StopSteps \ {"stop_store"} => stop_requested
    /\ pc[Producer] = "unget" /\ storage => stop_requested

(* A thread owes a ring a pop, or a semaphore a token, from these labels.  *)
OwedLabels(s) == IF s = "empty" THEN {"pop", "recycle"}
                 ELSE {"error_check", "pop_filled", "publish"}
Owed(f, s) == Cardinality(At(f, OwedLabels(s)))

BackedInv ==
    storage /\ ~stop_requested => \A s \in Side : count[s] + Owed(pc, s) <= RingLen(s)

LEMMA OwedMove ==
    ASSUME DataInv, NEW t \in Threads, NEW from, NEW to \in Labels, Goto(t, from, to),
           NEW s \in Side
    PROVE  /\ Owed(pc, s) \in Nat /\ Owed(pc, s)' \in Nat
           /\ Owed(pc, s)' + One(from \in OwedLabels(s)) = Owed(pc, s) + One(to \in OwedLabels(s))
<1>1. /\ pc \in [Threads -> Labels] /\ pc[t] = from /\ pc'[t] = to
      /\ \A u \in Threads \ {t} : pc'[u] = pc[u]
  BY DEF DataInv, Goto
<1>2. PICK g : g = pc'  OBVIOUS
<1>3. PICK P : P = OwedLabels(s)  OBVIOUS
<1>4. g[t] = to /\ \A u \in Threads \ {t} : g[u] = pc[u]  BY <1>1, <1>2
<1>5. /\ Cardinality(At(pc, P)) \in Nat /\ Cardinality(At(g, P)) \in Nat
      /\ (from \in P <=> to \in P) => Cardinality(At(g, P)) = Cardinality(At(pc, P))
      /\ (from \notin P /\ to \in P) => Cardinality(At(g, P)) = Cardinality(At(pc, P)) + 1
      /\ (from \in P /\ to \notin P) => Cardinality(At(pc, P)) = Cardinality(At(g, P)) + 1
  BY <1>1, <1>4, MoveThread
<1>6. Owed(pc, s) = Cardinality(At(pc, P)) /\ Owed(pc, s)' = Cardinality(At(g, P))
  BY <1>2, <1>3 DEF Owed, At
<1> QED  BY <1>3, <1>5, <1>6 DEF One

LEMMA OwedSome ==
    ASSUME NEW t \in Threads, NEW s \in Side, pc[t] \in OwedLabels(s)
    PROVE  Owed(pc, s) \in Nat /\ Owed(pc, s) >= 1
<1>1. PICK A : A = At(pc, OwedLabels(s))  OBVIOUS
<1>2. A \subseteq Threads /\ t \in A  BY <1>1 DEF At
<1>3. IsFiniteSet(A)  BY <1>2, ThreadsFinite, FS_Subset
<1>4. Cardinality(A) \in Nat /\ Cardinality(A) # 0
  BY <1>2, <1>3, FS_CardinalityType, FS_EmptySet
<1> QED  BY <1>1, <1>4 DEF Owed

(* The length of a ring, before and after a step.                          *)
LEMMA LengthOf ==
    ASSUME NEW r \in Nat, NEW w \in Nat, r <= w, w <= r + buffer_count
    PROVE  (w - r) % PosMod = w - r
<1>1. /\ buffer_count \in Nat \ {0} /\ PosMod \in Nat \ {0} /\ buffer_count < PosMod
  BY BufferCountAssumption, BoundsAssumption
<1>2. w - r \in 0 .. PosMod - 1  BY <1>1
<1> QED  BY <1>1, <1>2, SmallMod

LEMMA LengthNext ==
    ASSUME DataInv', PositionInv', NEW s \in Side
    PROVE  /\ read_pos'[s] \in Nat /\ write_pos'[s] \in Nat
           /\ RingLen(s)' = write_pos'[s] - read_pos'[s]
<1>1. /\ read_pos'[s] \in Nat /\ write_pos'[s] \in Nat
      /\ read_pos'[s] <= write_pos'[s] /\ write_pos'[s] <= read_pos'[s] + buffer_count
  BY BoundsAssumption DEF DataInv, PositionInv
<1>2. PICK r \in Nat : r = read_pos'[s]  BY <1>1
<1>3. PICK w \in Nat : w = write_pos'[s]  BY <1>1
<1>4. (w - r) % PosMod = w - r  BY <1>1, <1>2, <1>3, LengthOf
<1> QED  BY <1>1, <1>2, <1>3, <1>4 DEF RingLen

(* A step that keeps the balance of both rings: what it adds to a count    *)
(* and to what is owed, it takes from the other or adds to the ring.       *)
Tallied == NoWrap /\ TokenInv /\ DataInv /\ OrderInv

LEMMA BalancedStep ==
    ASSUME Tallied, Tallied', BackedInv,
           NEW t \in Threads, NEW from, NEW to \in Labels, Goto(t, from, to),
           UNCHANGED <<storage, stop_requested>>,
           \A s \in Side : count'[s] + One(to \in OwedLabels(s)) + RingLen(s)
                              <= count[s] + One(from \in OwedLabels(s)) + RingLen(s)'
    PROVE  BackedInv'
<1> SUFFICES ASSUME storage, ~stop_requested, NEW s \in Side
             PROVE  count'[s] + Owed(pc, s)' <= RingLen(s)'
  BY DEF BackedInv
<1>1. /\ Owed(pc, s) \in Nat /\ Owed(pc, s)' \in Nat
      /\ Owed(pc, s)' + One(from \in OwedLabels(s)) = Owed(pc, s) + One(to \in OwedLabels(s))
  BY OwedMove DEF Tallied
<1>2. count[s] \in Nat /\ count'[s] \in Nat
  BY DEF Tallied, TokenInv, TokenTypes
<1>3. RingLen(s) \in Int /\ RingLen(s)' \in Int
  <2>1. RingLen(s) \in Int  BY RingFacts DEF Tallied, OrderInv
  <2>2. /\ read_pos'[s] \in Nat /\ write_pos'[s] \in Nat
        /\ RingLen(s)' = write_pos'[s] - read_pos'[s]
    BY LengthNext DEF Tallied, OrderInv
  <2> QED  BY <2>1, <2>2
<1>4. count[s] + Owed(pc, s) <= RingLen(s)  BY DEF BackedInv
<1>5. One(to \in OwedLabels(s)) \in {0, 1} /\ One(from \in OwedLabels(s)) \in {0, 1}
  BY DEF One
<1>6. count'[s] + One(to \in OwedLabels(s)) + RingLen(s)
         <= count[s] + One(from \in OwedLabels(s)) + RingLen(s)'
  OBVIOUS
<1> QED  BY <1>1, <1>2, <1>3, <1>4, <1>5, <1>6

(* A step that leaves the rings alone and raises no count but to pay what  *)
(* it owed.                                                                *)
LEMMA CalmStep ==
    ASSUME Tallied, Tallied', StopInv, BackedInv,
           NEW t \in Threads, NEW from, NEW to \in Labels, Goto(t, from, to),
           UNCHANGED <<rings, storage, stop_requested>>,
           \A s \in Side : count'[s] + One(to \in OwedLabels(s))
                              <= count[s] + One(from \in OwedLabels(s)),
           to \in StopSteps \ {"stop_store"} => from \in StopSteps \ {"stop_store"},
           t = Producer => to # "unget"
    PROVE  StopInv' /\ BackedInv'
<1>1. StopInv'
  <2>1. /\ pc[t] = from /\ pc'[t] = to
        /\ \A u \in Threads \ {t} : pc'[u] = pc[u]
    BY DEF Goto, Tallied, DataInv
  <2> QED  BY <2>1, SideIndex DEF StopInv
<1>2. ASSUME NEW s \in Side
      PROVE  count'[s] + One(to \in OwedLabels(s)) + RingLen(s)
                <= count[s] + One(from \in OwedLabels(s)) + RingLen(s)'
  <2>1. RingLen(s)' = RingLen(s)  BY DEF rings, RingLen
  <2>2. RingLen(s) \in Int  BY RingFacts DEF Tallied, OrderInv
  <2>3. count[s] \in Nat /\ count'[s] \in Nat
        /\ One(to \in OwedLabels(s)) \in {0, 1} /\ One(from \in OwedLabels(s)) \in {0, 1}
    BY DEF Tallied, TokenInv, TokenTypes, One
  <2>4. count'[s] + One(to \in OwedLabels(s)) <= count[s] + One(from \in OwedLabels(s))
    OBVIOUS
  <2> QED  BY <2>1, <2>2, <2>3, <2>4
<1>3. BackedInv'  BY <1>2, BalancedStep
<1> QED  BY <1>1, <1>3

(* The same where the counts do not change either.                         *)
LEMMA CalmMove ==
    ASSUME Tallied, Tallied', StopInv, BackedInv,
           NEW t \in Threads, NEW from, NEW to \in Labels, Goto(t, from, to),
           UNCHANGED <<rings, storage, stop_requested, count>>,
           \A s \in Side : to \in OwedLabels(s) => from \in OwedLabels(s),
           to \in StopSteps \ {"stop_store"} => from \in StopSteps \ {"stop_store"},
           t = Producer => to # "unget"
    PROVE  StopInv' /\ BackedInv'
<1>1. ASSUME NEW s \in Side
      PROVE  count'[s] + One(to \in OwedLabels(s)) <= count[s] + One(from \in OwedLabels(s))
  <2>1. count[s] \in Nat /\ count' = count  BY DEF Tallied, TokenInv, TokenTypes
  <2> QED  BY <2>1 DEF One
<1> QED  BY <1>1, CalmStep

LEMMA CountDownBacked ==
    ASSUME Tallied, Tallied', StopInv, BackedInv,
           NEW t \in Threads, NEW s \in Side, NEW from, NEW to \in Labels \ StopSteps,
           CountDown(t, s, from, to), to # "unget",
           \A u \in Side : to \in OwedLabels(u) => u = s
    PROVE  StopInv' /\ BackedInv'
<1>1. /\ Goto(t, from, to) /\ UNCHANGED <<rings, storage, stop_requested>>
      /\ count' = [count EXCEPT ![s] = @ - 1]
  BY DEF CountDown, flags, data
<1>2. ASSUME NEW u \in Side
      PROVE  count'[u] + One(to \in OwedLabels(u)) <= count[u] + One(from \in OwedLabels(u))
  <2>1. count[u] \in Nat /\ count \in [Side -> Nat]  BY DEF Tallied, TokenInv, TokenTypes
  <2>2. count'[u] = IF u = s THEN count[u] - 1 ELSE count[u]  BY <1>1, <2>1
  <2> QED  BY <2>1, <2>2 DEF One
<1> QED  BY <1>1, <1>2, CalmStep

(* A release that announces a buffer pushed before.                        *)
LEMMA AnnounceBacked ==
    ASSUME Tallied, Tallied', StopInv, BackedInv,
           NEW t \in Threads, NEW s \in Side, NEW from, NEW posting \in Labels \ StopSteps,
           NEW to \in Labels \ StopSteps, NEW refused \in Labels \ StopSteps,
           safeRelease(t, s, from, posting, to, refused), from \in OwedLabels(s),
           "unget" \notin {posting, to, refused},
           \A u \in Side : {posting, to, refused} \cap OwedLabels(u) = {}
    PROVE  StopInv' /\ BackedInv'
<1>1. CASE safeReleasePost(t, s, posting, to)
  <2>1. Goto(t, posting, to) /\ UNCHANGED <<rings, storage, stop_requested, count>>
    BY <1>1 DEF safeReleasePost, flags, data
  <2> QED  BY <2>1, CalmMove
<1>2. CASE safeReleaseCount(t, s, from, posting, refused)
  <2>1. UNCHANGED <<rings, storage, stop_requested>>
    BY <1>2 DEF safeReleaseCount, flags, data
  <2>2. CASE count[s] < buffer_count
    <3>1. Goto(t, from, posting) /\ count' = [count EXCEPT ![s] = @ + 1]
      BY <1>2, <2>2 DEF safeReleaseCount
    <3>2. ASSUME NEW u \in Side
          PROVE  count'[u] + One(posting \in OwedLabels(u))
                    <= count[u] + One(from \in OwedLabels(u))
      <4>1. count[u] \in Nat /\ count \in [Side -> Nat]  BY DEF Tallied, TokenInv, TokenTypes
      <4>2. count'[u] = IF u = s THEN count[u] + 1 ELSE count[u]  BY <3>1, <4>1
      <4>3. posting \notin OwedLabels(u)  OBVIOUS
      <4> QED  BY <4>1, <4>2, <4>3 DEF One
    <3> QED  BY <2>1, <3>1, <3>2, CalmStep
  <2>3. CASE ~(count[s] < buffer_count)
    <3>1. Goto(t, from, refused) /\ UNCHANGED count
      BY <1>2, <2>3 DEF safeReleaseCount
    <3> QED  BY <2>1, <3>1, CalmMove
  <2> QED  BY <2>2, <2>3
<1> QED  BY <1>1, <1>2 DEF safeRelease

(* The moves of the call paths that touch no ring and no count.            *)
LEMMA CalmMoves ==
    ASSUME Tallied, Tallied', StopInv, BackedInv,
           NEW t \in Threads, NEW from, NEW to \in Labels \ (StopSteps \cup {"unget"}),
           Goto(t, from, to), UNCHANGED <<rings, storage, stop_requested, count>>,
           to \notin {"pop", "recycle", "publish", "error_check"},
           to = "pop_filled" => from = "error_check"
    PROVE  StopInv' /\ BackedInv'
<1>1. ASSUME NEW s \in Side, to \in OwedLabels(s) PROVE from \in OwedLabels(s)
  BY <1>1 DEF OwedLabels
<1> QED  BY <1>1, CalmMove

(* A step that moves one thread, to no label that StopInv watches.         *)
LEMMA StopKept ==
    ASSUME DataInv, StopInv, NEW t \in Threads, NEW from,
           NEW to \in Labels \ (StopSteps \cup {"unget"}), Goto(t, from, to),
           UNCHANGED <<storage, stop_requested>>
    PROVE  StopInv'
<1>1. /\ pc'[t] = to
      /\ \A u \in Threads \ {t} : pc'[u] = pc[u]
  BY DEF Goto, DataInv
<1> QED  BY <1>1, SideIndex DEF StopInv

(* Once a stop is requested nothing is promised any more.                  *)
LEMMA StoppedBacked ==
    ASSUME storage => stop_requested, UNCHANGED <<storage, stop_requested>>
    PROVE  BackedInv'
BY DEF BackedInv

(* A pop uses what it was owed.                                            *)
LEMMA PopBacked ==
    ASSUME Tallied, Tallied', BackedInv, NEW t \in Threads, NEW s \in Side,
           NEW from \in OwedLabels(s), NEW to \in Labels, Goto(t, from, to),
           \A u \in Side : to \notin OwedLabels(u),
           UNCHANGED <<count, write_pos, storage, stop_requested>>,
           read_pos' = [read_pos EXCEPT ![s] = @ + 1]
    PROVE  BackedInv'
<1>1. ASSUME NEW u \in Side
      PROVE  count'[u] + One(to \in OwedLabels(u)) + RingLen(u)
                <= count[u] + One(from \in OwedLabels(u)) + RingLen(u)'
  <2>1. /\ read_pos[u] \in Nat /\ write_pos[u] \in Nat
        /\ RingLen(u) = write_pos[u] - read_pos[u]
    BY RingFacts DEF Tallied, OrderInv
  <2>2. RingLen(u)' = write_pos'[u] - read_pos'[u]
    BY LengthNext DEF Tallied, OrderInv
  <2>3. read_pos'[u] = IF u = s THEN read_pos[u] + 1 ELSE read_pos[u]
    BY OrderTypes DEF Tallied
  <2>4. count[u] \in Nat /\ count'[u] = count[u]  BY DEF Tallied, TokenInv, TokenTypes
  <2>5. One(to \in OwedLabels(u)) = 0 /\ One(from \in OwedLabels(u)) \in {0, 1}
        /\ (u = s => One(from \in OwedLabels(u)) = 1)
    BY DEF One
  <2>6. write_pos'[u] = write_pos[u]  OBVIOUS
  <2>7. CASE u = s
    <3>1. RingLen(u)' = RingLen(u) - 1  BY <2>1, <2>2, <2>3, <2>6, <2>7
    <3>2. RingLen(u) \in Int  BY <2>1
    <3> QED  BY <2>4, <2>5, <2>7, <3>1, <3>2
  <2>8. CASE u # s
    <3>1. RingLen(u)' = RingLen(u)  BY <2>1, <2>2, <2>3, <2>6, <2>8
    <3>2. RingLen(u) \in Int  BY <2>1
    <3> QED  BY <2>4, <2>5, <3>1, <3>2
  <2> QED  BY <2>7, <2>8
<1> QED  BY <1>1, BalancedStep

(* A push adds the buffer whose token it owes from then on.                *)
LEMMA PushBacked ==
    ASSUME Tallied, Tallied', BackedInv, NEW t \in Threads, NEW s \in Side,
           NEW from, NEW to \in Labels, Goto(t, from, to),
           \A u \in Side : to \in OwedLabels(u) => u = s,
           UNCHANGED <<count, read_pos, storage, stop_requested>>,
           write_pos' = [write_pos EXCEPT ![s] = @ + 1]
    PROVE  BackedInv'
<1>1. ASSUME NEW u \in Side
      PROVE  count'[u] + One(to \in OwedLabels(u)) + RingLen(u)
                <= count[u] + One(from \in OwedLabels(u)) + RingLen(u)'
  <2>1. /\ read_pos[u] \in Nat /\ write_pos[u] \in Nat
        /\ RingLen(u) = write_pos[u] - read_pos[u]
    BY RingFacts DEF Tallied, OrderInv
  <2>2. RingLen(u)' = write_pos'[u] - read_pos'[u]
    BY LengthNext DEF Tallied, OrderInv
  <2>3. write_pos'[u] = IF u = s THEN write_pos[u] + 1 ELSE write_pos[u]
    BY OrderTypes DEF Tallied
  <2>4. count[u] \in Nat /\ count'[u] = count[u]  BY DEF Tallied, TokenInv, TokenTypes
  <2>5. One(to \in OwedLabels(u)) \in {0, 1} /\ One(from \in OwedLabels(u)) \in {0, 1}
        /\ (u # s => One(to \in OwedLabels(u)) = 0)
    BY DEF One
  <2>6. read_pos'[u] = read_pos[u]  OBVIOUS
  <2>7. CASE u = s
    <3>1. RingLen(u)' = RingLen(u) + 1  BY <2>1, <2>2, <2>3, <2>6, <2>7
    <3>2. RingLen(u) \in Int  BY <2>1
    <3> QED  BY <2>4, <2>5, <3>1, <3>2
  <2>8. CASE u # s
    <3>1. RingLen(u)' = RingLen(u)  BY <2>1, <2>2, <2>3, <2>6, <2>8
    <3>2. RingLen(u) \in Int  BY <2>1
    <3> QED  BY <2>4, <2>5, <2>8, <3>1, <3>2
  <2> QED  BY <2>7, <2>8
<1> QED  BY <1>1, BalancedStep

LEMMA AcquireEmptyBacked ==
    ASSUME Tallied, Tallied', StopInv, BackedInv, acquireEmpty
    PROVE  StopInv' /\ BackedInv'
<1> USE SideIndex, LabelTypes
<1>s. StopSteps = {"stop_store", "stop_empty", "stop_empty_post", "stop_filled",
                   "stop_filled_post"}
  BY DEF StopSteps
<1>1. CASE CallAcquireEmpty
  <2>1. Goto(Producer, "idle", "check") /\ UNCHANGED <<rings, storage, stop_requested, count>>
    BY <1>1 DEF CallAcquireEmpty, tokens, flags, data
  <2> QED  BY <1>s, <2>1, CalmMoves
<1>2. CASE AcquireEmptyCheckStop
  <2>1. /\ Goto(Producer, "check", "quit") \/ Goto(Producer, "check", "try")
        /\ UNCHANGED <<rings, storage, stop_requested, count>>
    BY <1>2 DEF AcquireEmptyCheckStop, tokens, flags, data
  <2> QED  BY <1>s, <2>1, CalmMoves
<1>3. CASE AcquireEmptyTry
  <2>1. /\ Goto(Producer, "try", "took") \/ Goto(Producer, "try", "blocked")
        /\ UNCHANGED <<rings, storage, stop_requested, count>>
    BY <1>3 DEF AcquireEmptyTry, TakeToken, tokens, flags, data
  <2> QED  BY <1>s, <2>1, CalmMoves
<1>4. CASE AcquireEmptyTaken
  <2>1. CountDown(Producer, "empty", "took", "pop")  BY <1>4 DEF AcquireEmptyTaken
  <2>2. \A u \in Side : "pop" \in OwedLabels(u) => u = "empty"  BY DEF OwedLabels, Side
  <2> QED  BY <1>s, <2>1, <2>2, CountDownBacked
<1>5. CASE AcquireEmptyBlock
  <2>1. /\ Goto(Producer, "blocked", "woke")
        /\ UNCHANGED <<rings, storage, stop_requested, count>>
    BY <1>5 DEF AcquireEmptyBlock, TakeToken, flags, data
  <2> QED  BY <1>s, <2>1, CalmMoves
<1>6. CASE AcquireEmptyWoken
  <2>1. CountDown(Producer, "empty", "woke", "recheck")  BY <1>6 DEF AcquireEmptyWoken
  <2>2. \A u \in Side : "recheck" \in OwedLabels(u) => u = "empty"  BY DEF OwedLabels
  <2> QED  BY <1>s, <2>1, <2>2, CountDownBacked
<1>7. CASE AcquireEmptyRecheck
  <2>1. /\ Goto(Producer, "recheck", "quit") \/ Goto(Producer, "recheck", "check")
        /\ UNCHANGED <<rings, storage, stop_requested, count>>
    BY <1>7 DEF AcquireEmptyRecheck, tokens, flags, data
  <2> QED  BY <1>s, <2>1, CalmMoves
<1>8. CASE AcquireEmptyPop
  <2>1. /\ UNCHANGED <<count, storage, stop_requested>>
    BY <1>8 DEF AcquireEmptyPop, tokens, flags
  <2>2. CASE RingEmpty("empty")
    <3>1. Goto(Producer, "pop", "unget") /\ UNCHANGED rings
      BY <1>8, <2>2 DEF AcquireEmptyPop
    <3>2. "pop" \in OwedLabels("empty") /\ \A s \in Side : "unget" \notin OwedLabels(s)
      BY DEF OwedLabels
    <3>3. RingLen("empty") = 0
      <4>1. /\ read_pos["empty"] \in Nat /\ write_pos["empty"] \in Nat
            /\ read_pos["empty"] <= write_pos["empty"]
            /\ RingLen("empty") = write_pos["empty"] - read_pos["empty"]
        BY RingFacts DEF Tallied, OrderInv
      <4> QED  BY <2>2, <4>1 DEF RingEmpty
    <3>4. Owed(pc, "empty") \in Nat /\ Owed(pc, "empty") >= 1
      <4>1. pc[Producer] \in OwedLabels("empty")  BY <3>1, <3>2 DEF Goto
      <4> QED  BY <4>1, OwedSome DEF Tallied
    <3>5. count["empty"] \in Nat  BY DEF Tallied, TokenInv, TokenTypes
    <3>6. storage => stop_requested
      <4>1. SUFFICES ASSUME storage, ~stop_requested PROVE FALSE  OBVIOUS
      <4>2. count["empty"] + Owed(pc, "empty") <= RingLen("empty")  BY <4>1 DEF BackedInv
      <4> QED  BY <3>3, <3>4, <3>5, <4>2
    <3>7. BackedInv'  BY <2>1, <3>6, StoppedBacked
    <3>8. /\ pc'[Producer] = "unget"
          /\ \A u \in Threads \ {Producer} : pc'[u] = pc[u]
      BY <3>1 DEF Goto, Tallied, DataInv
    <3>9. StopInv'  BY <1>s, <2>1, <3>6, <3>8 DEF StopInv
    <3> QED  BY <3>7, <3>9
  <2>3. CASE ~RingEmpty("empty")
    <3>1. Goto(Producer, "pop", "filling") /\ UNCHANGED write_pos
      BY <1>8, <2>3 DEF AcquireEmptyPop, PopIndex
    <3>2. read_pos' = [read_pos EXCEPT !["empty"] = @ + 1]
      BY <1>8, <2>3, PopEmptyOrder DEF Tallied
    <3>3. "pop" \in OwedLabels("empty") /\ \A s \in Side : "filling" \notin OwedLabels(s)
      BY DEF OwedLabels
    <3>4. BackedInv'  BY <2>1, <3>1, <3>2, <3>3, PopBacked
    <3>5. StopInv'  BY <1>s, <2>1, <3>1, StopKept DEF Tallied
    <3> QED  BY <3>4, <3>5
  <2> QED  BY <2>2, <2>3
<1>9. CASE AcquireEmptyUnget
  <2>1. CASE safeReleasePost(Producer, "empty", "unget_post", "idle")
    <3>1. /\ Goto(Producer, "unget_post", "idle")
          /\ UNCHANGED <<rings, storage, stop_requested, count>>
      BY <2>1 DEF safeReleasePost, flags, data
    <3> QED  BY <1>s, <3>1, CalmMoves
  <2>2. CASE safeReleaseCount(Producer, "empty", "unget", "unget_post", "idle")
    <3>1. /\ Goto(Producer, "unget", "unget_post") \/ Goto(Producer, "unget", "idle")
          /\ UNCHANGED <<storage, stop_requested>>
      BY <2>2 DEF safeReleaseCount, flags, data
    <3>2. storage => stop_requested  BY <3>1 DEF Goto, StopInv
    <3>3. StopInv'  BY <1>s, <3>1, StopKept DEF Tallied
    <3> QED  BY <3>1, <3>2, <3>3, StoppedBacked
  <2> QED  BY <1>9, <2>1, <2>2 DEF AcquireEmptyUnget, safeRelease
<1> QED  BY <1>1, <1>2, <1>3, <1>4, <1>5, <1>6, <1>7, <1>8, <1>9 DEF acquireEmpty

LEMMA ProduceBacked ==
    ASSUME Tallied, Tallied', StopInv, BackedInv, Fill \/ releaseFilled
    PROVE  StopInv' /\ BackedInv'
<1> USE SideIndex, LabelTypes
<1>s. StopSteps = {"stop_store", "stop_empty", "stop_empty_post", "stop_filled",
                   "stop_filled_post"}
  BY DEF StopSteps
<1>1. CASE Fill
  <2>1. Goto(Producer, "filling", "push") /\ UNCHANGED <<rings, storage, stop_requested, count>>
    BY <1>1 DEF Fill, tokens, flags
  <2> QED  BY <1>s, <2>1, CalmMoves
<1>2. CASE ReleaseFilledPush
  <2>1. UNCHANGED <<count, storage, stop_requested>>
    BY <1>2 DEF ReleaseFilledPush, tokens, flags
  <2>2. CASE RingFull("filled")
    <3>1. Goto(Producer, "push", "quit") /\ UNCHANGED rings
      BY <1>2, <2>2 DEF ReleaseFilledPush
    <3> QED  BY <1>s, <2>1, <3>1, CalmMoves
  <2>3. CASE ~RingFull("filled")
    <3>1. Goto(Producer, "push", "publish") /\ UNCHANGED read_pos
      BY <1>2, <2>3 DEF ReleaseFilledPush, PushIndex
    <3>2. write_pos' = [write_pos EXCEPT !["filled"] = @ + 1]
      BY <1>2, <2>3, PushFilledOrder DEF Tallied
    <3>3. \A u \in Side : "publish" \in OwedLabels(u) => u = "filled"
      BY DEF OwedLabels, Side
    <3>4. BackedInv'  BY <2>1, <3>1, <3>2, <3>3, PushBacked
    <3>5. StopInv'  BY <1>s, <2>1, <3>1, StopKept DEF Tallied
    <3> QED  BY <3>4, <3>5
  <2> QED  BY <2>2, <2>3
<1>3. CASE ReleaseFilledToken
  <2>1. safeRelease(Producer, "filled", "publish", "publish_post", "idle", "quit")
    BY <1>3 DEF ReleaseFilledToken
  <2>2. "publish" \in OwedLabels("filled")
        /\ \A u \in Side : {"publish_post", "idle", "quit"} \cap OwedLabels(u) = {}
    BY DEF OwedLabels
  <2>3. "unget" \notin {"publish_post", "idle", "quit"}  OBVIOUS
  <2>4. {"publish_post", "idle", "quit"} \subseteq Labels \ StopSteps
    BY <1>s
  <2> QED  BY <2>1, <2>2, <2>3, <2>4, AnnounceBacked
<1> QED  BY <1>1, <1>2, <1>3 DEF releaseFilled

LEMMA AcquireCurrentBacked ==
    ASSUME Tallied, Tallied', StopInv, BackedInv, acquireCurrent
    PROVE  StopInv' /\ BackedInv'
<1> USE SideIndex, LabelTypes
<1>s. StopSteps = {"stop_store", "stop_empty", "stop_empty_post", "stop_filled",
                   "stop_filled_post"}
  BY DEF StopSteps
<1>1. CASE CallAcquireCurrent
  <2>1. Goto(Consumer, "idle", "enter") /\ UNCHANGED <<rings, storage, stop_requested, count>>
    BY <1>1 DEF CallAcquireCurrent, tokens, flags
  <2> QED  BY <1>s, <2>1, CalmMoves
<1>2. CASE AcquireCurrentEnter
  <2>1. /\ \/ Goto(Consumer, "enter", "quit") \/ Goto(Consumer, "enter", "idle")
           \/ Goto(Consumer, "enter", "acquire")
        /\ UNCHANGED <<rings, storage, stop_requested, count>>
    BY <1>2 DEF AcquireCurrentEnter, tokens, flags, data
  <2> QED  BY <1>s, <2>1, CalmMoves
<1>3. CASE AcquireCurrentAcquire
  <2>1. /\ Goto(Consumer, "acquire", "acquired") \/ Goto(Consumer, "acquire", "idle")
        /\ UNCHANGED <<rings, storage, stop_requested, count>>
    BY <1>3 DEF AcquireCurrentAcquire, TakeToken, tokens, flags, data
  <2> QED  BY <1>s, <2>1, CalmMoves
<1>4. CASE AcquireCurrentAcquired
  <2>1. CountDown(Consumer, "filled", "acquired", "error_check")
    BY <1>4 DEF AcquireCurrentAcquired
  <2>2. \A u \in Side : "error_check" \in OwedLabels(u) => u = "filled"
    BY DEF OwedLabels, Side
  <2> QED  BY <1>s, <2>1, <2>2, CountDownBacked
<1>5. CASE AcquireCurrentErrorCheck
  <2>1. /\ Goto(Consumer, "error_check", "quit") \/ Goto(Consumer, "error_check", "pop_filled")
        /\ UNCHANGED <<rings, storage, stop_requested, count>>
    BY <1>5 DEF AcquireCurrentErrorCheck, tokens, flags, data
  <2> QED  BY <1>s, <2>1, CalmMoves
<1>6. CASE AcquireCurrentPop
  <2>1. UNCHANGED <<count, storage, stop_requested>>
    BY <1>6 DEF AcquireCurrentPop, tokens, flags
  <2>2. CASE RingEmpty("filled")
    <3>1. Goto(Consumer, "pop_filled", "stop_check") /\ UNCHANGED rings
      BY <1>6, <2>2 DEF AcquireCurrentPop
    <3> QED  BY <1>s, <2>1, <3>1, CalmMoves
  <2>3. CASE ~RingEmpty("filled")
    <3>1. Goto(Consumer, "pop_filled", "idle") /\ UNCHANGED write_pos
      BY <1>6, <2>3 DEF AcquireCurrentPop, PopIndex
    <3>2. read_pos' = [read_pos EXCEPT !["filled"] = @ + 1]
      BY <1>6, <2>3, PopFilledOrder DEF Tallied
    <3>3. "pop_filled" \in OwedLabels("filled") /\ \A s \in Side : "idle" \notin OwedLabels(s)
      BY DEF OwedLabels
    <3>4. BackedInv'  BY <2>1, <3>1, <3>2, <3>3, PopBacked
    <3>5. StopInv'  BY <1>s, <2>1, <3>1, StopKept DEF Tallied
    <3> QED  BY <3>4, <3>5
  <2> QED  BY <2>2, <2>3
<1>7. CASE AcquireCurrentStopCheck
  <2>1. /\ \/ Goto(Consumer, "stop_check", "quit") \/ Goto(Consumer, "stop_check", "enter")
           \/ Goto(Consumer, "stop_check", "idle")
        /\ UNCHANGED <<rings, storage, stop_requested, count>>
    BY <1>7 DEF AcquireCurrentStopCheck, tokens, flags, data
  <2> QED  BY <1>s, <2>1, CalmMoves
<1> QED  BY <1>1, <1>2, <1>3, <1>4, <1>5, <1>6, <1>7 DEF acquireCurrent

LEMMA SwitchToNextBacked ==
    ASSUME Tallied, Tallied', StopInv, BackedInv, switchToNext
    PROVE  StopInv' /\ BackedInv'
<1> USE SideIndex, LabelTypes
<1>s. StopSteps = {"stop_store", "stop_empty", "stop_empty_post", "stop_filled",
                   "stop_filled_post"}
  BY DEF StopSteps
<1>1. CASE CallSwitchToNext
  <2>1. Goto(Consumer, "idle", "switch") /\ UNCHANGED <<rings, storage, stop_requested, count>>
    BY <1>1 DEF CallSwitchToNext, tokens, flags
  <2> QED  BY <1>s, <2>1, CalmMoves
<1>2. CASE SwitchExchange
  <2>1. /\ \/ Goto(Consumer, "switch", "quit") \/ Goto(Consumer, "switch", "recycle_push")
           \/ Goto(Consumer, "switch", "enter")
        /\ UNCHANGED <<rings, storage, stop_requested, count>>
    BY <1>2 DEF SwitchExchange, tokens, flags
  <2> QED  BY <1>s, <2>1, CalmMoves
<1>3. CASE SwitchPush
  <2>1. UNCHANGED <<count, storage, stop_requested>>
    BY <1>3 DEF SwitchPush, tokens, flags
  <2>2. CASE RingFull("empty")
    <3>1. Goto(Consumer, "recycle_push", "quit") /\ UNCHANGED rings
      BY <1>3, <2>2 DEF SwitchPush
    <3> QED  BY <1>s, <2>1, <3>1, CalmMoves
  <2>3. CASE ~RingFull("empty")
    <3>1. Goto(Consumer, "recycle_push", "recycle") /\ UNCHANGED read_pos
      BY <1>3, <2>3 DEF SwitchPush, PushIndex
    <3>2. write_pos' = [write_pos EXCEPT !["empty"] = @ + 1]
      BY <1>3, <2>3, PushEmptyOrder DEF Tallied
    <3>3. \A u \in Side : "recycle" \in OwedLabels(u) => u = "empty"
      BY DEF OwedLabels, Side
    <3>4. BackedInv'  BY <2>1, <3>1, <3>2, <3>3, PushBacked
    <3>5. StopInv'  BY <1>s, <2>1, <3>1, StopKept DEF Tallied
    <3> QED  BY <3>4, <3>5
  <2> QED  BY <2>2, <2>3
<1>4. CASE SwitchToken
  <2>1. safeRelease(Consumer, "empty", "recycle", "recycle_post", "enter", "enter")
    BY <1>4 DEF SwitchToken
  <2>2. "recycle" \in OwedLabels("empty")
        /\ \A u \in Side : {"recycle_post", "enter"} \cap OwedLabels(u) = {}
    BY DEF OwedLabels
  <2>3. "unget" \notin {"recycle_post", "enter", "enter"}  OBVIOUS
  <2>4. {"recycle_post", "enter", "enter"} \subseteq Labels \ StopSteps
    BY <1>s
  <2> QED  BY <2>1, <2>2, <2>3, <2>4, AnnounceBacked
<1> QED  BY <1>1, <1>2, <1>3, <1>4 DEF switchToNext

(* A stop raises counts without a buffer, but only once stop_requested is  *)
(* set.                                                                    *)
LEMMA StopBacked ==
    ASSUME Tallied, Tallied', StopInv, BackedInv, NEW t \in Threads, t # Consumer,
           CallRequestStop(t) \/ publishError(t) \/ requestStopWakeup(t)
    PROVE  StopInv' /\ BackedInv'
<1> USE SideIndex, LabelTypes
<1>s. StopSteps = {"stop_store", "stop_empty", "stop_empty_post", "stop_filled",
                   "stop_filled_post"}
  BY DEF StopSteps
<1>1. CASE CallRequestStop(t) \/ publishError(t)
  <2>1. PICK from \in {"idle", "filling"} : Goto(t, from, "stop_store")
    BY <1>1 DEF CallRequestStop, publishError
  <2>2. UNCHANGED <<rings, storage, stop_requested, count>>
    BY <1>1 DEF CallRequestStop, publishError, tokens, flags, data
  <2>3. \A s \in Side : "stop_store" \notin OwedLabels(s)  BY DEF OwedLabels
  <2> QED  BY <1>s, <2>1, <2>2, <2>3, CalmMove
<1>2. CASE StopStore(t)
  <2>1. Goto(t, "stop_store", "stop_empty") /\ stop_requested' = TRUE /\ UNCHANGED storage
    BY <1>2 DEF StopStore, data
  <2> QED  BY <2>1 DEF StopInv, BackedInv
<1>3. CASE StopToken(t)
  <2>1. /\ \/ Goto(t, "stop_empty", "stop_empty_post") \/ Goto(t, "stop_empty", "stop_filled")
           \/ Goto(t, "stop_empty_post", "stop_filled")
           \/ Goto(t, "stop_filled", "stop_filled_post")
           \/ Goto(t, "stop_filled", AfterStop(t)) \/ Goto(t, "stop_filled_post", AfterStop(t))
        /\ UNCHANGED <<flags, data>>
    BY <1>3, SafeReleaseQuiet DEF StopToken
  <2>2. pc[t] \in StopSteps \ {"stop_store"}  BY <1>s, <2>1 DEF Goto
  <2>3. stop_requested /\ UNCHANGED <<storage, stop_requested>>
    BY <2>1, <2>2 DEF StopInv, flags, data
  <2> QED  BY <2>3 DEF StopInv, BackedInv
<1> QED  BY <1>1, <1>2, <1>3 DEF requestStopWakeup

LEMMA RearmBacked ==
    ASSUME Rearm, storage' = TRUE PROVE StopInv' /\ BackedInv'
<1>1. /\ pc' = [t \in Threads |-> "idle"]
      /\ count' = [s \in Side |-> IF s = "empty" THEN buffer_count ELSE 0]
      /\ read_pos' = [s \in Side |-> 0]
      /\ write_pos' = [s \in Side |-> IF s = "empty" THEN buffer_count ELSE 0]
  BY DEF Rearm, normalizeSemaphores, resetQueues
<1>2. StopInv'
  <2>1. \A t \in Threads : pc'[t] = "idle"  BY <1>1
  <2> QED  BY <2>1, SideIndex DEF StopInv, StopSteps
<1>3. ASSUME NEW s \in Side PROVE Owed(pc, s)' = 0
  <2>1. At(pc, OwedLabels(s))' = {}  BY <1>1 DEF At, OwedLabels
  <2> QED  BY <2>1, FS_EmptySet DEF Owed
<1>4. ASSUME NEW s \in Side PROVE count'[s] \in Nat /\ RingLen(s)' = count'[s]
  <2>n. buffer_count \in Nat  BY BufferCountAssumption
  <2>1. count'[s] \in Nat /\ count'[s] <= buffer_count  BY <1>1, <2>n
  <2>2. write_pos'[s] = count'[s] /\ read_pos'[s] = 0  BY <1>1
  <2>3. PICK w \in Nat : w = count'[s]  BY <2>1
  <2>4. (w - 0) % PosMod = w - 0  BY <2>n, <2>1, <2>3, LengthOf
  <2> QED  BY <2>2, <2>3, <2>4 DEF RingLen
<1>5. BackedInv'  BY <1>3, <1>4 DEF BackedInv
<1> QED  BY <1>2, <1>5

LEMMA BackedNext ==
    ASSUME Tallied, Tallied', StopInv, BackedInv, [Next]_vars
    PROVE  StopInv' /\ BackedInv'
<1>1. CASE ProducerNext
  <2>1. Producer \in Threads /\ Producer # Consumer  BY SideIndex, ThreadsAssumption
  <2> QED  BY <1>1, <2>1, AcquireEmptyBacked, ProduceBacked, StopBacked DEF ProducerNext
<1>2. CASE ConsumerNext  BY <1>2, AcquireCurrentBacked, SwitchToNextBacked DEF ConsumerNext
<1>3. ASSUME NEW t \in Stoppers, StopperNext(t) PROVE StopInv' /\ BackedInv'
  <2>1. t \in Threads /\ t # Consumer  BY SideIndex, ThreadsAssumption
  <2> QED  BY <1>3, <2>1, StopBacked DEF StopperNext
<1>4. CASE Initialize \/ Reset
  <2>1. Rearm /\ storage' = TRUE  BY <1>4 DEF Initialize, Reset, Tallied, DataInv
  <2> QED  BY <2>1, RearmBacked
<1>5. CASE UNCHANGED vars
  <2>1. UNCHANGED <<count, read_pos, write_pos, storage, stop_requested, pc>>
    BY <1>5 DEF vars, tokens, rings, flags, data
  <2> QED  BY <2>1 DEF StopInv, BackedInv, Owed, At, RingLen
<1> QED  BY <1>1, <1>2, <1>3, <1>4, <1>5 DEF Next

LEMMA BackedAlways ==
    ASSUME NoWrap PROVE Spec => [](Tallied /\ StopInv /\ BackedInv)
<1>1. Init => Tallied /\ StopInv /\ BackedInv
  <2>1. ASSUME Init PROVE Tallied
    BY <2>1, TokenInvInit, DataInvInit, OrderInit DEF Tallied
  <2>2. ASSUME Init PROVE StopInv /\ BackedInv
    <3>1. storage = FALSE /\ \A t \in Threads : pc[t] = "idle"  BY <2>2 DEF Init
    <3> QED  BY <3>1 DEF StopInv, BackedInv, StopSteps
  <2> QED  BY <2>1, <2>2
<1>2. Tallied /\ [Next]_vars => Tallied'
  BY TokenInvNext, DataInvNext, OrderNext DEF Tallied, NoWrap
<1>3. (Tallied /\ StopInv /\ BackedInv) /\ [Next]_vars => (Tallied /\ StopInv /\ BackedInv)'
  BY <1>2, BackedNext
<1> QED  BY <1>1, <1>3, PTL DEF Spec

(* What is owed to a ring is owed by threads that are to pop or to         *)
(* announce, and no thread is at both.                                     *)
LEMMA OwedSplit ==
    ASSUME NEW s \in Side
    PROVE  OwedPops(s) + OwedTokens(s) = Owed(pc, s)
<1>1. PICK P, Q :
         /\ P = IF s = "empty" THEN {"pop"} ELSE {"error_check", "pop_filled"}
         /\ Q = IF s = "empty" THEN {"recycle"} ELSE {"publish"}
  OBVIOUS
<1>2. PICK A, B : A = At(pc, P) /\ B = At(pc, Q)  OBVIOUS
<1>3. OwedPops(s) = Cardinality(A) /\ OwedTokens(s) = Cardinality(B)
  <2>1. CASE s = "empty"
    <3>1. A = {t \in Threads : pc[t] = "pop"} /\ B = {t \in Threads : pc[t] = "recycle"}
      BY <1>1, <1>2, <2>1 DEF At
    <3> QED  BY <2>1, <3>1 DEF OwedPops, OwedTokens
  <2>2. CASE s # "empty"
    <3>1. A = {t \in Threads : pc[t] \in {"error_check", "pop_filled"}}
          /\ B = {t \in Threads : pc[t] = "publish"}
      BY <1>1, <1>2, <2>2 DEF At
    <3> QED  BY <2>2, <3>1 DEF OwedPops, OwedTokens
  <2> QED  BY <2>1, <2>2
<1>4. A \cup B = At(pc, OwedLabels(s)) /\ A \cap B = {}
  BY <1>1, <1>2 DEF At, OwedLabels
<1>5. IsFiniteSet(A) /\ IsFiniteSet(B)
  BY <1>2, ThreadsFinite, FS_Subset DEF At
<1>6. Cardinality(A \cup B) = Cardinality(A) + Cardinality(B) - Cardinality(A \cap B)
  BY <1>5, FS_Union
<1>7. Cardinality(A \cap B) = 0 /\ Cardinality(A) \in Nat /\ Cardinality(B) \in Nat
  BY <1>4, <1>5, FS_EmptySet, FS_CardinalityType
<1>8. Cardinality(A \cup B) = Cardinality(A) + Cardinality(B)  BY <1>6, <1>7
<1>9. Owed(pc, s) = Cardinality(A \cup B)  BY <1>4 DEF Owed
<1> QED  BY <1>3, <1>8, <1>9

(* TokensBacked holds: until a stop is requested the tokens of a side      *)
(* never promise more buffers than its ring has, so neither popEmptyIndex  *)
(* nor popFilledIndex comes away empty-handed after an acquire.            *)
THEOREM TokensBackedBelowWrap == ASSUME NoWrap PROVE Spec => []TokensBacked
<1>1. Tallied /\ BackedInv => TokensBacked
  <2> SUFFICES ASSUME Tallied, BackedInv, storage, ~stop_requested, NEW s \in Side
               PROVE  count[s] + OwedPops(s) + OwedTokens(s) <= RingLen(s)
    BY DEF TokensBacked
  <2>1. count[s] + Owed(pc, s) <= RingLen(s)  BY DEF BackedInv
  <2>2. OwedPops(s) + OwedTokens(s) = Owed(pc, s)  BY OwedSplit
  <2>3. count[s] \in Nat /\ OwedPops(s) \in Nat /\ OwedTokens(s) \in Nat
    <3>1. count[s] \in Nat  BY DEF Tallied, TokenInv, TokenTypes
    <3>2. \A P : IsFiniteSet({t \in Threads : pc[t] \in P})
      BY ThreadsFinite, FS_Subset
    <3>3. \A l : IsFiniteSet({t \in Threads : pc[t] = l})
      BY ThreadsFinite, FS_Subset
    <3> QED  BY <3>1, <3>2, <3>3, FS_CardinalityType DEF OwedPops, OwedTokens
  <2> QED  BY <2>1, <2>2, <2>3
<1> QED  BY <1>1, BackedAlways, PTL

(* What run trb_wrap shows violated once a position wraps holds below:     *)
(* acquireEmpty never gives a token back while an empty buffer is queued   *)
(* and nobody stops the stream.                                            *)
THEOREM AcquireFindsEmptyBufferBelowWrap ==
    ASSUME NoWrap PROVE Spec => []AcquireFindsEmptyBuffer
<1>1. StopInv => AcquireFindsEmptyBuffer  BY DEF StopInv, AcquireFindsEmptyBuffer
<1> QED  BY <1>1, BackedAlways, PTL
=============================================================================
