------------------------------ MODULE UsbStdoutProofs ------------------------------
(* What the host reads is what was written, each byte once and in order, for every *)
(* size of the ring, of frames, texts and packets, and every length of the event   *)
(* queue, although events may be lost and a packet of the previous configuration   *)
(* may still be under way. The proof follows the cell at the read index: it is the *)
(* one after the last that the controller has taken.                               *)
EXTENDS UsbStdout, TLAPS, FiniteSetTheorems

(* Cells in the ring, counted from the read index.                                 *)
Used == (write + RingCells - read) % RingCells
First == (number + Numbers - Used) % Numbers
NumberAt(k) == (First + k) % Numbers
CellAt(k) == ring[(read + k) % RingCells]
Filled ==
  \A k \in 0..(Used - 1) : CellAt(k) = [life |-> life, number |-> NumberAt(k)]

(* A packet chosen or under way is what lies at the read index.                    *)
Chosen ==
  /\ txActive \/ usb = "transmit" => active \in 1..Used
  /\ usb = "transmit" => ~txActive

(* The packet the host will have, or has, read last since it configured the device. *)
Latest == IF class = "busy" THEN flight ELSE host
LastOf(s) == s[Len(s)]
Packets ==
  /\ class = "none" => host = <<>>
  /\ class # "busy" => flight = <<>>
  /\ class = "busy" =>
        /\ flight # <<>>
        /\ \A i \in 1..(Len(flight) - 1) : Continues(flight[i], flight[i + 1])
        /\ host # <<>> => Continues(LastOf(host), flight[1])

(* The next packet goes on where the last one ended.                               *)
Followed ==
  Latest # <<>> =>
     \/ /\ LastOf(Latest).life = life
        /\ (LastOf(Latest).number + 1) % Numbers
              = NumberAt(IF txActive THEN active ELSE 0)
     \/ LastOf(Latest).life < life /\ First = 0 /\ ~txActive

(* A reset of the ring is due to an enumeration that has ended.                    *)
Gone(s) == Cardinality({i \in 1..Len(s) : s[i] = "gone"})
Counted == life + Gone(events) + (IF class = "none" THEN 0 ELSE 1) <= enumerations

IInv == TypeOK /\ Filled /\ Chosen /\ Packets /\ Followed /\ Counted

------------------------------------------------------------------------------------
(* Positions and numbers. *)

LEMMA Sizes ==
  /\ RingCells \in Nat /\ RingCells > 1 /\ Numbers \in Nat /\ Numbers >= RingCells
  /\ FrameCells \in Nat /\ FrameCells > 0
  /\ TextCells \in Nat /\ TextCells > 0 /\ PacketCells \in Nat /\ PacketCells > 0
  /\ EventSlots \in Nat /\ EventSlots > 0 /\ MaxEnumerations \in Nat
BY StdoutAssumption

LEMMA Wrapped ==
  ASSUME NEW m \in Nat, m > 0, NEW x \in Nat, x < 3 * m
  PROVE  x % m = IF x < m THEN x ELSE IF x < 2 * m THEN x - m ELSE x - 2 * m
<1>1. CASE x < m
  BY <1>1
<1>2. CASE ~(x < m) /\ x < 2 * m
  <2> DEFINE r == x - m
  <2>1. r \in 0..(m - 1) /\ x = 1 * m + r
    BY <1>2
  <2> HIDE DEF r
  <2>2. (1 * m + r) % m = r
    BY <2>1
  <2> QED
    BY <1>2, <2>1, <2>2 DEF r
<1>3. CASE ~(x < m) /\ ~(x < 2 * m)
  <2> DEFINE r == x - 2 * m
  <2>1. r \in 0..(m - 1) /\ x = 2 * m + r
    BY <1>3
  <2> HIDE DEF r
  <2>2. (2 * m + r) % m = r
    BY <2>1
  <2> QED
    BY <1>3, <2>1, <2>2 DEF r
<1> QED
  BY <1>1, <1>2, <1>3

(* In the ring, and for numbers of cells.                                          *)
LEMMA Turned ==
  /\ \A x \in Nat : x < 3 * RingCells =>
        x % RingCells = IF x < RingCells THEN x
                        ELSE IF x < 2 * RingCells THEN x - RingCells ELSE x - 2 * RingCells
  /\ \A x \in Nat : x < 3 * Numbers =>
        x % Numbers = IF x < Numbers THEN x
                      ELSE IF x < 2 * Numbers THEN x - Numbers ELSE x - 2 * Numbers
BY Sizes, Wrapped

LEMMA UsedIs ==
  ASSUME NEW r \in 0..(RingCells - 1), NEW w \in 0..(RingCells - 1)
  PROVE  /\ (w + RingCells - r) % RingCells = IF w >= r THEN w - r ELSE w + RingCells - r
         /\ (w + RingCells - r) % RingCells \in 0..(RingCells - 1)
         /\ (r + RingCells - w - 1) % RingCells
               = RingCells - 1 - ((w + RingCells - r) % RingCells)
<1> DEFINE x == w + RingCells - r
           y == r + RingCells - w - 1
<1>1. x \in Nat /\ x < 3 * RingCells /\ y \in Nat /\ y < 3 * RingCells
  BY Sizes
<1>2. x % RingCells = IF w >= r THEN w - r ELSE x
  <2> HIDE DEF x
  <2>1. x % RingCells = IF x < RingCells THEN x
                        ELSE IF x < 2 * RingCells THEN x - RingCells ELSE x - 2 * RingCells
    BY <1>1, Turned
  <2> QED
    BY <2>1, Sizes DEF x
<1>3. y % RingCells = IF w >= r THEN y ELSE y - RingCells
  <2> HIDE DEF y
  <2>1. y % RingCells = IF y < RingCells THEN y
                        ELSE IF y < 2 * RingCells THEN y - RingCells ELSE y - 2 * RingCells
    BY <1>1, Turned
  <2> QED
    BY <2>1, Sizes DEF y
<1> QED
  BY <1>2, <1>3, Sizes

LEMMA FirstIs ==
  ASSUME NEW n \in 0..(Numbers - 1), NEW u \in 0..(RingCells - 1)
  PROVE  /\ (n + Numbers - u) % Numbers = IF n >= u THEN n - u ELSE n + Numbers - u
         /\ (n + Numbers - u) % Numbers \in 0..(Numbers - 1)
<1> DEFINE x == n + Numbers - u
<1>1. x \in Nat /\ x < 3 * Numbers
  BY Sizes
<1> HIDE DEF x
<1>2. x % Numbers = IF x < Numbers THEN x
                    ELSE IF x < 2 * Numbers THEN x - Numbers ELSE x - 2 * Numbers
  BY <1>1, Turned
<1> QED
  BY <1>2, Sizes DEF x

LEMMA SumIs ==
  /\ \A a \in 0..(RingCells - 1), b \in 0..RingCells :
        /\ (a + b) % RingCells = IF a + b < RingCells THEN a + b ELSE a + b - RingCells
        /\ (a + b) % RingCells \in 0..(RingCells - 1)
  /\ \A a \in 0..(Numbers - 1), b \in 0..Numbers :
        /\ (a + b) % Numbers = IF a + b < Numbers THEN a + b ELSE a + b - Numbers
        /\ (a + b) % Numbers \in 0..(Numbers - 1)
<1>1. ASSUME NEW a \in 0..(RingCells - 1), NEW b \in 0..RingCells
      PROVE  (a + b) % RingCells = IF a + b < RingCells THEN a + b ELSE a + b - RingCells
  <2> DEFINE x == a + b
  <2>1. x \in Nat /\ x < 3 * RingCells /\ x < 2 * RingCells
    BY Sizes
  <2> HIDE DEF x
  <2>2. x % RingCells = IF x < RingCells THEN x ELSE x - RingCells
    BY <2>1, Turned
  <2> QED
    BY <2>2, Sizes DEF x
<1>2. ASSUME NEW a \in 0..(Numbers - 1), NEW b \in 0..Numbers
      PROVE  (a + b) % Numbers = IF a + b < Numbers THEN a + b ELSE a + b - Numbers
  <2> DEFINE x == a + b
  <2>1. x \in Nat /\ x < 3 * Numbers /\ x < 2 * Numbers
    BY Sizes
  <2> HIDE DEF x
  <2>2. x % Numbers = IF x < Numbers THEN x ELSE x - Numbers
    BY <2>1, Turned
  <2> QED
    BY <2>2, Sizes DEF x
<1>3. \A a \in 0..(RingCells - 1), b \in 0..RingCells :
        (a + b) % RingCells \in 0..(RingCells - 1)
  BY <1>1, Sizes
<1>4. \A a \in 0..(Numbers - 1), b \in 0..Numbers :
        (a + b) % Numbers \in 0..(Numbers - 1)
  BY <1>2, Sizes
<1> QED
  BY <1>1, <1>2, <1>3, <1>4

(* The next number, and the number of a cell read further on.                      *)
LEMMA NumberOn ==
  ASSUME NEW f \in 0..(Numbers - 1), NEW k \in 0..(Numbers - 1)
  PROVE  /\ (((f + k) % Numbers) + 1) % Numbers = (f + (k + 1)) % Numbers
         /\ \A a \in 0..(Numbers - 1) : a + k < Numbers =>
               (((f + a) % Numbers) + k) % Numbers = (f + (a + k)) % Numbers
<1>1. /\ k + 1 \in 0..Numbers /\ 1 \in 0..Numbers /\ k \in 0..Numbers
      /\ \A a \in 0..(Numbers - 1) : a \in 0..Numbers
  BY Sizes
<1>2. /\ (f + k) % Numbers \in 0..(Numbers - 1)
      /\ (f + k) % Numbers = IF f + k < Numbers THEN f + k ELSE f + k - Numbers
      /\ (f + (k + 1)) % Numbers = IF f + (k + 1) < Numbers THEN f + (k + 1)
                                   ELSE f + (k + 1) - Numbers
  BY <1>1, SumIs
<1>3. (((f + k) % Numbers) + 1) % Numbers = (f + (k + 1)) % Numbers
  <2> DEFINE g == (f + k) % Numbers
  <2>1. (g + 1) % Numbers = IF g + 1 < Numbers THEN g + 1 ELSE g + 1 - Numbers
    <3> HIDE DEF g
    <3>1. g \in 0..(Numbers - 1)
      BY <1>2 DEF g
    <3> QED
      BY <1>1, <3>1, SumIs
  <2> QED
    BY <1>2, <2>1, Sizes
<1>4. ASSUME NEW a \in 0..(Numbers - 1), a + k < Numbers
      PROVE  (((f + a) % Numbers) + k) % Numbers = (f + (a + k)) % Numbers
  <2> DEFINE g == (f + a) % Numbers
  <2>1. /\ g \in 0..(Numbers - 1)
        /\ g = IF f + a < Numbers THEN f + a ELSE f + a - Numbers
    BY <1>1, SumIs
  <2>2. (g + k) % Numbers = IF g + k < Numbers THEN g + k ELSE g + k - Numbers
    <3> HIDE DEF g
    <3> QED
      BY <1>1, <2>1, SumIs
  <2>3. a + k \in 0..Numbers
    BY <1>4, Sizes
  <2>4. (f + (a + k)) % Numbers = IF f + (a + k) < Numbers THEN f + (a + k)
                                  ELSE f + (a + k) - Numbers
    BY <2>3, SumIs
  <2> HIDE DEF g
  <2>5. (g + k) % Numbers = (f + (a + k)) % Numbers
    BY <2>1, <2>2, <2>4, Sizes
  <2> QED
    BY <2>5 DEF g
<1> QED
  BY <1>3, <1>4

(* A cell further on in the ring, and a cell just written.                         *)
LEMMA PositionOn ==
  ASSUME NEW r \in 0..(RingCells - 1)
  PROVE  /\ \A k \in 0..(RingCells - 1) : (r + k) % RingCells \in 0..(RingCells - 1)
         /\ \A a, k \in 0..(RingCells - 1) : a + k < RingCells =>
               (((r + a) % RingCells) + k) % RingCells = (r + (a + k)) % RingCells
<1>1. \A k \in 0..(RingCells - 1) :
         /\ (r + k) % RingCells \in 0..(RingCells - 1)
         /\ (r + k) % RingCells = IF r + k < RingCells THEN r + k ELSE r + k - RingCells
  <2>1. \A k \in 0..(RingCells - 1) : k \in 0..RingCells
    BY Sizes
  <2> QED
    BY <2>1, SumIs
<1>2. ASSUME NEW a \in 0..(RingCells - 1), NEW k \in 0..(RingCells - 1), a + k < RingCells
      PROVE  (((r + a) % RingCells) + k) % RingCells = (r + (a + k)) % RingCells
  <2> DEFINE g == (r + a) % RingCells
  <2>1. /\ g \in 0..(RingCells - 1)
        /\ g = IF r + a < RingCells THEN r + a ELSE r + a - RingCells
    BY <1>1
  <2>2. a + k \in 0..(RingCells - 1) /\ k \in 0..RingCells
    BY <1>2, Sizes
  <2>3. (g + k) % RingCells = IF g + k < RingCells THEN g + k ELSE g + k - RingCells
    <3> HIDE DEF g
    <3> QED
      BY <2>1, <2>2, SumIs
  <2>4. (r + (a + k)) % RingCells = IF r + (a + k) < RingCells THEN r + (a + k)
                                    ELSE r + (a + k) - RingCells
    BY <1>1, <2>2
  <2> HIDE DEF g
  <2>5. (g + k) % RingCells = (r + (a + k)) % RingCells
    BY <2>1, <2>3, <2>4, Sizes
  <2> QED
    BY <2>5 DEF g
<1> QED
  BY <1>1, <1>2

LEMMA OffsetIs ==
  ASSUME NEW r \in 0..(RingCells - 1), NEW w \in 0..(RingCells - 1),
         NEW k \in 0..(RingCells - 1),
         NEW u, u = (w + RingCells - r) % RingCells
  PROVE  (((r + k) % RingCells) + RingCells - w) % RingCells
            = IF k >= u THEN k - u ELSE k + RingCells - u
<1> DEFINE j == (r + k) % RingCells
<1>1. /\ j \in 0..(RingCells - 1)
      /\ j = IF r + k < RingCells THEN r + k ELSE r + k - RingCells
  <2>1. k \in 0..RingCells
    BY Sizes
  <2> QED
    BY <2>1, SumIs
<1>2. u = IF w >= r THEN w - r ELSE w + RingCells - r
  BY UsedIs
<1> HIDE DEF j
<1>3. (j + RingCells - w) % RingCells = IF j >= w THEN j - w ELSE j + RingCells - w
  BY <1>1, UsedIs
<1>4. (j + RingCells - w) % RingCells = IF k >= u THEN k - u ELSE k + RingCells - u
  BY <1>1, <1>2, <1>3, Sizes
<1> QED
  BY <1>4 DEF j

(* The counters after n cells are written, and after a are taken.                  *)
LEMMA CountersWrite ==
  ASSUME NEW r \in 0..(RingCells - 1), NEW w \in 0..(RingCells - 1),
         NEW m \in 0..(Numbers - 1),
         NEW u, u = (w + RingCells - r) % RingCells,
         NEW n \in Nat, n <= (r + RingCells - w - 1) % RingCells,
         NEW w2, w2 = (w + n) % RingCells, NEW m2, m2 = (m + n) % Numbers
  PROVE  /\ w2 \in 0..(RingCells - 1) /\ m2 \in 0..(Numbers - 1)
         /\ n + u < RingCells
         /\ (w2 + RingCells - r) % RingCells = u + n
         /\ (m2 + Numbers - (u + n)) % Numbers = (m + Numbers - u) % Numbers
         /\ \A k \in u..(u + n - 1) :
               (m + (k - u)) % Numbers = (((m + Numbers - u) % Numbers) + k) % Numbers
<1>1. /\ u = IF w >= r THEN w - r ELSE w + RingCells - r
      /\ u \in 0..(RingCells - 1)
      /\ n <= RingCells - 1 - u
  BY UsedIs
<1>2. n \in 0..RingCells /\ n \in 0..Numbers /\ n + u < RingCells
      /\ u + n \in 0..(RingCells - 1)
  BY <1>1, Sizes
<1>3. /\ w2 \in 0..(RingCells - 1)
      /\ w2 = IF w + n < RingCells THEN w + n ELSE w + n - RingCells
  BY <1>2, SumIs
<1>4. /\ m2 \in 0..(Numbers - 1)
      /\ m2 = IF m + n < Numbers THEN m + n ELSE m + n - Numbers
  BY <1>2, SumIs
<1>5. (w2 + RingCells - r) % RingCells = u + n
  <2>1. (w2 + RingCells - r) % RingCells = IF w2 >= r THEN w2 - r ELSE w2 + RingCells - r
    BY <1>3, UsedIs
  <2> QED
    BY <1>1, <1>2, <1>3, <2>1, Sizes
<1> DEFINE f == (m + Numbers - u) % Numbers
<1>6. /\ f = IF m >= u THEN m - u ELSE m + Numbers - u
      /\ f \in 0..(Numbers - 1)
  BY <1>1, FirstIs
<1>7. (m2 + Numbers - (u + n)) % Numbers
         = IF m2 >= u + n THEN m2 - (u + n) ELSE m2 + Numbers - (u + n)
  BY <1>2, <1>4, FirstIs
<1> HIDE DEF f
<1>8. (m2 + Numbers - (u + n)) % Numbers = f
  BY <1>1, <1>2, <1>4, <1>6, <1>7, Sizes
<1>9. ASSUME NEW k \in u..(u + n - 1)
      PROVE  (m + (k - u)) % Numbers = (f + k) % Numbers
  <2> DEFINE x == k - u
  <2>1. k \in 0..Numbers /\ x \in 0..Numbers /\ x = k - u
    BY <1>1, <1>2, Sizes
  <2> HIDE DEF x
  <2>2. (f + k) % Numbers = IF f + k < Numbers THEN f + k ELSE f + k - Numbers
    BY <1>6, <2>1, SumIs
  <2>3. (m + x) % Numbers = IF m + x < Numbers THEN m + x ELSE m + x - Numbers
    BY <2>1, SumIs
  <2>4. (m + x) % Numbers = (f + k) % Numbers
    BY <1>1, <1>2, <1>6, <2>1, <2>2, <2>3, Sizes
  <2> QED
    BY <2>4 DEF x
<1> QED
  BY <1>2, <1>3, <1>4, <1>5, <1>8, <1>9 DEF f

LEMMA CountersTake ==
  ASSUME NEW r \in 0..(RingCells - 1), NEW w \in 0..(RingCells - 1),
         NEW m \in 0..(Numbers - 1),
         NEW u, u = (w + RingCells - r) % RingCells,
         NEW a \in 0..u, NEW r2, r2 = (r + a) % RingCells
  PROVE  /\ r2 \in 0..(RingCells - 1)
         /\ (w + RingCells - r2) % RingCells = u - a
         /\ (m + Numbers - (u - a)) % Numbers = (((m + Numbers - u) % Numbers) + a) % Numbers
<1>1. /\ u = IF w >= r THEN w - r ELSE w + RingCells - r
      /\ u \in 0..(RingCells - 1)
  BY UsedIs
<1>2. a \in 0..RingCells /\ a \in 0..Numbers /\ u - a \in 0..(RingCells - 1)
  BY <1>1, Sizes
<1>3. /\ r2 \in 0..(RingCells - 1)
      /\ r2 = IF r + a < RingCells THEN r + a ELSE r + a - RingCells
  BY <1>2, SumIs
<1>4. (w + RingCells - r2) % RingCells = u - a
  <2>1. (w + RingCells - r2) % RingCells = IF w >= r2 THEN w - r2 ELSE w + RingCells - r2
    BY <1>3, UsedIs
  <2> QED
    BY <1>1, <1>2, <1>3, <2>1, Sizes
<1> DEFINE f == (m + Numbers - u) % Numbers
           v == u - a
<1>5. /\ f = IF m >= u THEN m - u ELSE m + Numbers - u
      /\ f \in 0..(Numbers - 1)
  BY <1>1, FirstIs
<1> HIDE DEF f
<1>6. v \in 0..(RingCells - 1) /\ v = u - a
  BY <1>2
<1> HIDE DEF v
<1>7. (m + Numbers - v) % Numbers = IF m >= v THEN m - v ELSE m + Numbers - v
  BY <1>6, FirstIs
<1>8. (f + a) % Numbers = IF f + a < Numbers THEN f + a ELSE f + a - Numbers
  BY <1>2, <1>5, SumIs
<1>9. (m + Numbers - v) % Numbers = (f + a) % Numbers
  BY <1>1, <1>2, <1>5, <1>6, <1>7, <1>8, Sizes
<1> QED
  BY <1>3, <1>4, <1>9 DEF f, v

------------------------------------------------------------------------------------
(* The event queue. *)

LEMMA GoneAppend ==
  ASSUME NEW s \in Seq(Events), NEW e \in Events
  PROVE  /\ Gone(s) \in Nat
         /\ Gone(Append(s, e)) = Gone(s) + (IF e = "gone" THEN 1 ELSE 0)
<1> DEFINE A == {i \in 1..Len(s) : s[i] = "gone"}
           t == Append(s, e)
           B == {i \in 1..Len(t) : t[i] = "gone"}
<1>1. IsFiniteSet(A) /\ Cardinality(A) \in Nat
  <2>1. IsFiniteSet(1..Len(s))
    BY FS_Interval
  <2> QED
    BY <2>1, FS_Subset, FS_CardinalityType
<1>2. /\ Len(t) = Len(s) + 1 /\ Len(s) \in Nat
      /\ \A i \in 1..Len(s) : t[i] = s[i]
      /\ t[Len(s) + 1] = e
  OBVIOUS
<1> HIDE DEF t
<1>0. Gone(s) = Cardinality(A) /\ Gone(t) = Cardinality(B)
  BY DEF Gone
<1>3. CASE e = "gone"
  <2>1. B = A \cup {Len(s) + 1}
    BY <1>2, <1>3
  <2>2. Len(s) + 1 \notin A
    BY <1>2
  <2>3. Cardinality(B) = Cardinality(A) + 1
    BY <1>1, <2>1, <2>2, FS_AddElement
  <2> QED
    <3> HIDE DEF A, B
    <3> QED
      BY <1>0, <1>1, <1>3, <2>3 DEF t
<1>4. CASE e # "gone"
  <2>1. B = A
    BY <1>2, <1>4
  <2> QED
    <3> HIDE DEF A, B
    <3> QED
      BY <1>0, <1>1, <1>4, <2>1 DEF t
<1> QED
  BY <1>3, <1>4

LEMMA GoneTail ==
  ASSUME NEW s \in Seq(Events), s # <<>>
  PROVE  /\ Gone(Tail(s)) \in Nat
         /\ Gone(Tail(s)) + (IF Head(s) = "gone" THEN 1 ELSE 0) <= Gone(s)
         /\ Tail(s) \in Seq(Events) /\ Len(Tail(s)) <= Len(s)
<1> DEFINE t == Tail(s)
           A == {i \in 1..Len(t) : t[i] = "gone"}
           B == {i \in 1..Len(s) : s[i] = "gone"}
           C == B \ {1}
           f == [i \in A |-> i + 1]
<1>1. /\ Len(s) \in Nat /\ Len(s) > 0
      /\ Len(t) = Len(s) - 1 /\ t \in Seq(Events)
      /\ \A i \in 1..Len(t) : t[i] = s[i + 1]
      /\ Head(s) = s[1]
  OBVIOUS
<1>2. IsFiniteSet(A) /\ Cardinality(A) \in Nat /\ IsFiniteSet(B) /\ Cardinality(B) \in Nat
  <2>1. IsFiniteSet(1..Len(s)) /\ IsFiniteSet(1..Len(t))
    BY <1>1, FS_Interval
  <2> QED
    BY <2>1, FS_Subset, FS_CardinalityType
<1>3. /\ IsFiniteSet(C)
      /\ Cardinality(C) = IF 1 \in B THEN Cardinality(B) - 1 ELSE Cardinality(B)
  BY <1>2, FS_RemoveElement
<1>4. f \in Injection(A, C)
  <2>1. ASSUME NEW i \in A
        PROVE  f[i] = i + 1 /\ f[i] \in C
    BY <1>1
  <2>2. f \in [A -> C]
    BY <2>1
  <2>3. \A i, j \in A : f[i] = f[j] => i = j
    <3>1. \A i \in A : i \in Nat
      OBVIOUS
    <3> QED
      BY <2>1, <3>1
  <2> QED
    BY <2>2, <2>3 DEF Injection, IsInjective
<1>5. 1 \in B <=> Head(s) = "gone"
  BY <1>1
<1>6. Gone(s) = Cardinality(B) /\ Gone(t) = Cardinality(A)
  BY DEF Gone
<1> HIDE DEF A, B, C, f
<1>7. Cardinality(A) <= Cardinality(C)
  BY <1>3, <1>4, FS_Injection
<1>8. Gone(t) \in Nat /\ Gone(t) + (IF Head(s) = "gone" THEN 1 ELSE 0) <= Gone(s)
  BY <1>2, <1>3, <1>5, <1>6, <1>7
<1> QED
  BY <1>1, <1>8

LEMMA Posted ==
  ASSUME TypeOK, NEW e \in Events, Post(e)
  PROVE  /\ events' \in Seq(Events) /\ Len(events') <= EventSlots /\ lost' \in BOOLEAN
         /\ Gone(events) \in Nat /\ Gone(events') \in Nat
         /\ Gone(events') <= Gone(events) + (IF e = "gone" THEN 1 ELSE 0)
<1>1. /\ events \in Seq(Events) /\ Len(events) <= EventSlots /\ lost \in BOOLEAN
  BY DEF TypeOK
<1>2. events' = events \/ (events' = Append(events, e) /\ Len(events) < EventSlots)
  BY DEF Post
<1>3. lost' \in BOOLEAN
  BY DEF Post
<1>4. events' \in Seq(Events) /\ Len(events') <= EventSlots
  BY <1>1, <1>2, Sizes
<1>5. Gone(events) \in Nat /\ Gone(Append(events, e)) = Gone(events) + (IF e = "gone" THEN 1 ELSE 0)
  BY <1>1, GoneAppend
<1> HIDE DEF Post
<1>6. Gone(events') \in Nat /\ Gone(events') <= Gone(events) + (IF e = "gone" THEN 1 ELSE 0)
  <2>1. CASE events' = events
    BY <1>5, <2>1
  <2>2. CASE events' = Append(events, e)
    BY <1>5, <2>2
  <2> QED
    BY <1>2, <2>1, <2>2
<1> QED
  BY <1>3, <1>4, <1>5, <1>6

------------------------------------------------------------------------------------
(* The cells. *)

LEMMA CellsTypes ==
  ASSUME TypeOK
  PROVE  /\ read \in 0..(RingCells - 1) /\ write \in 0..(RingCells - 1)
         /\ Used \in 0..(RingCells - 1) /\ First \in 0..(Numbers - 1)
         /\ Space = RingCells - 1 - Used
         /\ number \in 0..(Numbers - 1)
         /\ Used = 0 <=> read = write
<1>1. read \in 0..(RingCells - 1) /\ write \in 0..(RingCells - 1) /\ number \in 0..(Numbers - 1)
  BY DEF TypeOK
<1>2. /\ Used \in 0..(RingCells - 1) /\ Space = RingCells - 1 - Used
      /\ Used = IF write >= read THEN write - read ELSE write + RingCells - read
  BY <1>1, UsedIs DEF Used, Space
<1>3. First \in 0..(Numbers - 1)
  BY <1>1, <1>2, FirstIs DEF First
<1> QED
  BY <1>1, <1>2, <1>3, Sizes

(* Nothing happens to the ring.                                                    *)
LEMMA RingStays ==
  ASSUME Filled, ring' = ring, read' = read, write' = write, number' = number, life' = life
  PROVE  /\ Used' = Used /\ First' = First /\ Filled'
         /\ \A k : NumberAt(k)' = NumberAt(k)
<1>1. Used' = Used
  BY DEF Used
<1>2. First' = First
  BY <1>1 DEF First
<1>3. \A k : NumberAt(k)' = NumberAt(k) /\ CellAt(k)' = CellAt(k)
  BY <1>2 DEF NumberAt, CellAt
<1> QED
  BY <1>1, <1>2, <1>3 DEF Filled

LEMMA Written ==
  ASSUME TypeOK, Filled, NEW n \in Nat, n <= Space, Write(n), read' = read, life' = life
  PROVE  /\ ring' \in [0..(RingCells - 1) -> Cells]
         /\ write' \in 0..(RingCells - 1) /\ number' \in 0..(Numbers - 1)
         /\ Used' = Used + n /\ First' = First /\ Filled'
         /\ \A k : NumberAt(k)' = NumberAt(k)
<1>1. /\ read \in 0..(RingCells - 1) /\ write \in 0..(RingCells - 1)
      /\ number \in 0..(Numbers - 1) /\ Used \in 0..(RingCells - 1)
      /\ First \in 0..(Numbers - 1) /\ life \in 0..MaxEnumerations
      /\ ring \in [0..(RingCells - 1) -> Cells]
  BY CellsTypes DEF TypeOK
<1>2. /\ write' \in 0..(RingCells - 1) /\ number' \in 0..(Numbers - 1)
      /\ n + Used < RingCells
      /\ (write' + RingCells - read) % RingCells = Used + n
      /\ (number' + Numbers - (Used + n)) % Numbers = First
      /\ \A k \in Used..(Used + n - 1) : (number + (k - Used)) % Numbers = NumberAt(k)
  BY <1>1, CountersWrite DEF Write, Space, Used, First, NumberAt
<1>3. Used' = Used + n
  BY <1>2 DEF Used
<1>4. First' = First
  BY <1>2, <1>3 DEF First
<1>5. \A k : NumberAt(k)' = NumberAt(k)
  BY <1>4 DEF NumberAt
<1>6. ring' \in [0..(RingCells - 1) -> Cells]
  <2>1. \A k \in Nat : (number + k) % Numbers \in 0..(Numbers - 1)
    BY <1>1, Sizes
  <2>2. \A i \in 0..(RingCells - 1) : (i + RingCells - write) % RingCells \in Nat
    BY <1>1, UsedIs
  <2>3. \A i \in 0..(RingCells - 1) : ring'[i] \in Cells
    BY <1>1, <2>1, <2>2 DEF Write, Cells
  <2> QED
    BY <2>3 DEF Write
<1>7. ASSUME NEW k \in 0..(Used + n - 1)
      PROVE  CellAt(k)' = [life |-> life, number |-> NumberAt(k)]
  <2> DEFINE j == (read + k) % RingCells
             o == (j + RingCells - write) % RingCells
  <2>1. k \in 0..(RingCells - 1)
    BY <1>1, <1>2, Sizes
  <2>2. j \in 0..(RingCells - 1)
    BY <1>1, <2>1, PositionOn
  <2>3. o = IF k >= Used THEN k - Used ELSE k + RingCells - Used
    BY <1>1, <2>1, OffsetIs DEF Used
  <2>4. CellAt(k)' = ring'[j]
    BY DEF CellAt
  <2>5. ring'[j] = IF o < n THEN [life |-> life, number |-> (number + o) % Numbers] ELSE ring[j]
    BY <2>2 DEF Write
  <2> HIDE DEF o, j
  <2>6. CASE k >= Used
    <3>1. o = k - Used /\ o < n /\ k \in Used..(Used + n - 1)
      BY <1>1, <2>1, <2>3, <2>6
    <3>2. (number + o) % Numbers = NumberAt(k)
      BY <1>2, <3>1
    <3> QED
      BY <2>4, <2>5, <3>1, <3>2
  <2>7. CASE ~(k >= Used)
    <3>1. ~(o < n) /\ k \in 0..(Used - 1)
      BY <1>1, <1>2, <2>1, <2>3, <2>7, Sizes
    <3>2. CellAt(k) = [life |-> life, number |-> NumberAt(k)]
      BY <3>1 DEF Filled
    <3>3. CellAt(k) = ring[j]
      BY DEF CellAt, j
    <3> QED
      BY <2>4, <2>5, <3>1, <3>2, <3>3
  <2> QED
    BY <2>6, <2>7
<1>8. Filled'
  <2>1. \A k \in 0..(Used' - 1) : CellAt(k)' = [life |-> life', number |-> NumberAt(k)']
    <3>1. 0..(Used' - 1) = 0..(Used + n - 1)
      BY <1>1, <1>3, Sizes
    <3>2. SUFFICES ASSUME NEW k \in 0..(Used + n - 1)
                   PROVE  CellAt(k)' = [life |-> life', number |-> NumberAt(k)']
      BY <3>1
    <3>3. CellAt(k)' = [life |-> life, number |-> NumberAt(k)] /\ NumberAt(k)' = NumberAt(k)
      BY <1>5, <1>7
    <3> QED
      BY <3>3
  <2> QED
    BY <2>1 DEF Filled
<1> QED
  BY <1>2, <1>3, <1>4, <1>5, <1>6, <1>8

LEMMA Taken ==
  ASSUME TypeOK, Filled, NEW a \in 0..Used, read' = (read + a) % RingCells,
         ring' = ring, write' = write, number' = number, life' = life
  PROVE  /\ read' \in 0..(RingCells - 1)
         /\ Used' = Used - a /\ Filled'
         /\ NumberAt(0)' = NumberAt(a)
<1>1. /\ read \in 0..(RingCells - 1) /\ write \in 0..(RingCells - 1)
      /\ number \in 0..(Numbers - 1) /\ Used \in 0..(RingCells - 1)
      /\ First \in 0..(Numbers - 1)
  BY CellsTypes
<1>2. /\ read' \in 0..(RingCells - 1)
      /\ (write + RingCells - read') % RingCells = Used - a
      /\ (number + Numbers - (Used - a)) % Numbers = NumberAt(a)
  BY <1>1, CountersTake DEF Used, First, NumberAt
<1>3. Used' = Used - a
  BY <1>2 DEF Used
<1>4. First' = NumberAt(a)
  BY <1>2, <1>3 DEF First
<1>5. ASSUME NEW k \in 0..(Used - a - 1)
      PROVE  CellAt(k)' = CellAt(a + k) /\ NumberAt(k)' = NumberAt(a + k)
             /\ a + k \in 0..(Used - 1)
  <2>1. /\ a \in 0..(RingCells - 1) /\ k \in 0..(RingCells - 1) /\ a + k < RingCells
        /\ a \in 0..(Numbers - 1) /\ k \in 0..(Numbers - 1) /\ a + k < Numbers
        /\ a + k \in 0..(Used - 1)
    BY <1>1, Sizes
  <2>2. (((read + a) % RingCells) + k) % RingCells = (read + (a + k)) % RingCells
    BY <1>1, <2>1, PositionOn
  <2>3. (((First + a) % Numbers) + k) % Numbers = (First + (a + k)) % Numbers
    BY <1>1, <2>1, NumberOn
  <2>4. CellAt(k)' = CellAt(a + k)
    BY <2>2 DEF CellAt
  <2>5. NumberAt(k)' = NumberAt(a + k)
    BY <1>4, <2>3 DEF NumberAt
  <2> QED
    BY <2>1, <2>4, <2>5
<1>6. Filled'
  BY <1>3, <1>5 DEF Filled
<1>7. NumberAt(0)' = NumberAt(a)
  <2>1. NumberAt(a) \in 0..(Numbers - 1)
    BY <1>1, <1>4, Sizes DEF NumberAt
  <2>2. First' + 0 = First'
    BY <1>4, <2>1
  <2>3. NumberAt(a) % Numbers = NumberAt(a)
    BY <2>1, Sizes
  <2> QED
    BY <1>4, <2>2, <2>3 DEF NumberAt
<1> QED
  BY <1>2, <1>3, <1>6, <1>7

(* A packet is what lies at the read index, up to the end of the ring at most.     *)
LEMMA PacketIs ==
  ASSUME NEW r \in 0..(RingCells - 1), NEW w \in 0..(RingCells - 1), r # w
  PROVE  Smaller(PacketCells, IF w > r THEN w - r ELSE RingCells - r)
            \in 1..((w + RingCells - r) % RingCells)
         /\ Smaller(PacketCells, IF w > r THEN w - r ELSE RingCells - r) \in 0..PacketCells
BY UsedIs, Sizes DEF Smaller

------------------------------------------------------------------------------------
(* The steps. *)

LEMMA InitHolds == Init => IInv
<1> SUFFICES ASSUME Init PROVE IInv
  OBVIOUS
<1>1. /\ 0 \in 0..(RingCells - 1) /\ 0 \in 0..(Numbers - 1) /\ 0 \in 0..PacketCells
      /\ 0 \in 0..MaxEnumerations
  BY Sizes
<1>2. TypeOK
  <2>1. ring \in [0..(RingCells - 1) -> Cells]
    BY <1>1 DEF Init, Cells
  <2>2. <<>> \in Seq(Events) /\ Len(<<>>) <= EventSlots /\ <<>> \in Seq(Cells)
    BY Sizes
  <2> QED
    BY <1>1, <2>1, <2>2 DEF Init, TypeOK
<1>3. Used = 0
  <2>1. read = write
    BY DEF Init
  <2> QED
    BY <1>2, <2>1, CellsTypes
<1>4. Filled
  BY <1>3 DEF Filled
<1>5. Chosen /\ Packets /\ Followed
  BY DEF Init, Chosen, Packets, Followed, Latest
<1>6. Counted
  <2>1. Gone(<<>>) = 0
    <3>1. {i \in 1..Len(<<>>) : <<>>[i] = "gone"} = {}
      OBVIOUS
    <3> QED
      BY <3>1, FS_EmptySet DEF Gone
  <2> QED
    BY <2>1 DEF Init, Counted
<1> QED
  BY <1>2, <1>4, <1>5, <1>6 DEF IInv

(* Steps that leave the ring, the packet and the USB thread alone.                 *)
LEMMA CellsStay ==
  ASSUME IInv, UNCHANGED <<cells, names, usb>>
  PROVE  /\ Filled' /\ Chosen' /\ First' = First
         /\ \A k : NumberAt(k)' = NumberAt(k)
<1>1. /\ Used' = Used /\ First' = First /\ Filled'
      /\ \A k : NumberAt(k)' = NumberAt(k)
  BY RingStays DEF IInv, cells, names
<1>2. Chosen'
  BY <1>1 DEF IInv, Chosen, cells, names
<1> QED
  BY <1>1, <1>2

(* Steps that leave the packets of the host alone too.                             *)
LEMMA PacketsStay ==
  ASSUME IInv, UNCHANGED <<cells, names, usb, device>>
  PROVE  Filled' /\ Chosen' /\ Packets' /\ Followed'
<1>1. /\ Filled' /\ Chosen' /\ First' = First
      /\ \A k : NumberAt(k)' = NumberAt(k)
  BY CellsStay
<1>2. Packets'
  BY DEF IInv, Packets, device, LastOf, Continues
<1>3. Latest' = Latest
  BY DEF Latest, device
<1>4. Followed'
  <2>1. Followed
    BY DEF IInv
  <2>2. life' = life /\ txActive' = txActive /\ active' = active
    BY DEF cells, names
  <2> QED
    BY <1>1, <1>3, <2>1, <2>2 DEF Followed, LastOf
<1> QED
  BY <1>1, <1>2, <1>4

LEMMA TransportStep ==
  ASSUME IInv, TransportWakes \/ TransportSleeps
  PROVE  IInv'
<1>1. /\ UNCHANGED <<cells, queue, usb, textPost, device, names>>
      /\ transport' \in {"asleep", "awake", "post"}
  BY DEF TransportWakes, TransportSleeps
<1>2. Filled' /\ Chosen' /\ Packets' /\ Followed'
  BY <1>1, PacketsStay
<1>3. TypeOK'
  BY <1>1 DEF IInv, TypeOK, cells, queue, device, names
<1>4. Counted'
  BY <1>1 DEF IInv, Counted, queue, device, names
<1> QED
  BY <1>2, <1>3, <1>4 DEF IInv

LEMMA PostStep ==
  ASSUME IInv, PostFrame \/ PostText
  PROVE  IInv'
<1>1. /\ Post("queued") /\ "queued" \in Events
      /\ UNCHANGED <<cells, usb, device, names>>
      /\ transport' \in {transport, "awake"} /\ textPost' \in {textPost, FALSE}
  BY DEF PostFrame, PostText, Events
<1>2. /\ TypeOK
      /\ events' \in Seq(Events) /\ Len(events') <= EventSlots /\ lost' \in BOOLEAN
      /\ Gone(events) \in Nat /\ Gone(events') \in Nat
      /\ Gone(events') <= Gone(events)
  BY <1>1, Posted DEF IInv
<1>3. Filled' /\ Chosen' /\ Packets' /\ Followed'
  BY <1>1, PacketsStay
<1>4. TypeOK'
  BY <1>1, <1>2 DEF TypeOK, cells, device, names
<1>5. Counted'
  <2>1. life' = life /\ class' = class /\ enumerations' = enumerations
    BY <1>1 DEF device, names
  <2>2. life \in Nat /\ enumerations \in Nat
    BY <1>2 DEF TypeOK
  <2> QED
    BY <1>2, <2>1, <2>2 DEF IInv, Counted
<1> QED
  BY <1>3, <1>4, <1>5 DEF IInv

(* A writer fills what is free.                                                    *)
LEMMA WriteStep ==
  ASSUME IInv, NEW n \in Nat, n <= Space, Write(n),
         UNCHANGED <<read, active, connected, txActive, queue, usb, device, life>>,
         transport' \in {"asleep", "awake", "post"}, textPost' \in BOOLEAN
  PROVE  IInv'
<1>1. TypeOK /\ Filled
  BY DEF IInv
<1>2. /\ ring' \in [0..(RingCells - 1) -> Cells]
      /\ write' \in 0..(RingCells - 1) /\ number' \in 0..(Numbers - 1)
      /\ Used' = Used + n /\ First' = First /\ Filled'
      /\ \A k : NumberAt(k)' = NumberAt(k)
  BY <1>1, Written
<1>3. TypeOK'
  BY <1>1, <1>2 DEF TypeOK, queue, device
<1>4. Chosen'
  <2>1. Used \in Nat /\ \A k \in 1..Used : k \in 1..(Used + n)
    BY <1>1, CellsTypes
  <2> QED
    BY <1>2, <2>1 DEF IInv, Chosen
<1>5. Packets'
  BY DEF IInv, Packets, device, LastOf, Continues
<1>6. Latest' = Latest
  BY DEF Latest, device
<1>7. Followed'
  <2>1. Followed
    BY DEF IInv
  <2> QED
    BY <1>2, <1>6, <2>1 DEF Followed, LastOf
<1>8. Counted'
  BY DEF IInv, Counted, queue, device
<1> QED
  BY <1>2, <1>3, <1>4, <1>5, <1>7, <1>8 DEF IInv

LEMMA WritersStep ==
  ASSUME IInv, WriteFrame \/ WriteText
  PROVE  IInv'
<1>0. /\ Space \in Nat /\ FrameCells \in Nat /\ transport \in {"asleep", "awake", "post"}
      /\ textPost \in BOOLEAN
  <2>1. TypeOK
    BY DEF IInv
  <2>2. Used \in 0..(RingCells - 1) /\ Space = RingCells - 1 - Used
    BY <2>1, CellsTypes
  <2> QED
    BY <2>1, <2>2, Sizes DEF TypeOK
<1>1. CASE WriteFrame
  BY <1>0, <1>1, WriteStep DEF WriteFrame
<1>2. CASE WriteText
  <2>1. PICK n \in 1..TextCells : Write(Smaller(n, Space)) /\ textPost' = (Space # 0)
    BY <1>2 DEF WriteText
  <2>2. Smaller(n, Space) \in Nat /\ Smaller(n, Space) <= Space
    BY <1>0, Sizes DEF Smaller
  <2>3. /\ UNCHANGED <<read, active, connected, txActive, queue, usb, device, life>>
        /\ transport' = transport
    BY <1>2 DEF WriteText
  <2>4. textPost' \in BOOLEAN
    BY <2>1
  <2> QED
    BY <1>0, <2>1, <2>2, <2>3, <2>4, WriteStep
<1> QED
  BY <1>1, <1>2

(* The USB interrupt.                                                              *)
LEMMA ConfigureStep ==
  ASSUME IInv, Configure
  PROVE  IInv'
<1>1. /\ Post("configured") /\ "configured" \in Events
      /\ UNCHANGED <<cells, names, usb>> /\ UNCHANGED <<transport, textPost, flight, host>>
      /\ class = "none" /\ class' = "idle"
      /\ enumerations < MaxEnumerations /\ enumerations' = enumerations + 1
  BY DEF Configure, Events, threads
<1>2. /\ TypeOK
      /\ events' \in Seq(Events) /\ Len(events') <= EventSlots /\ lost' \in BOOLEAN
      /\ Gone(events) \in Nat /\ Gone(events') \in Nat
      /\ Gone(events') <= Gone(events)
  BY <1>1, Posted DEF IInv
<1>3. Filled' /\ Chosen'
  BY <1>1, CellsStay
<1>4. TypeOK'
  <2>1. enumerations' \in 0..MaxEnumerations
    BY <1>1, <1>2, Sizes DEF TypeOK
  <2> QED
    BY <1>1, <1>2, <2>1 DEF TypeOK, cells, names
<1>5. Packets' /\ Followed'
  <2>1. host' = <<>> /\ flight' = <<>>
    BY <1>1 DEF IInv, Packets
  <2> QED
    BY <1>1, <2>1 DEF Packets, Followed, Latest
<1>6. Counted'
  <2>1. life' = life /\ life \in Nat /\ enumerations \in Nat
    BY <1>1, <1>2 DEF names, TypeOK
  <2> QED
    BY <1>1, <1>2, <2>1 DEF IInv, Counted
<1> QED
  BY <1>3, <1>4, <1>5, <1>6 DEF IInv

LEMMA UnconfigureStep ==
  ASSUME IInv, Unconfigure
  PROVE  IInv'
<1>1. /\ Post("gone") /\ "gone" \in Events
      /\ UNCHANGED <<cells, names, usb>> /\ UNCHANGED <<transport, textPost, enumerations>>
      /\ class # "none" /\ class' = "none" /\ flight' = <<>> /\ host' = <<>>
  BY DEF Unconfigure, Events, threads
<1>2. /\ TypeOK
      /\ events' \in Seq(Events) /\ Len(events') <= EventSlots /\ lost' \in BOOLEAN
      /\ Gone(events) \in Nat /\ Gone(events') \in Nat
      /\ Gone(events') <= Gone(events) + 1
  BY <1>1, Posted DEF IInv
<1>3. Filled' /\ Chosen'
  BY <1>1, CellsStay
<1>4. TypeOK'
  <2>1. <<>> \in Seq(Cells)
    OBVIOUS
  <2> QED
    BY <1>1, <1>2, <2>1 DEF TypeOK, cells, names
<1>5. Packets' /\ Followed'
  BY <1>1 DEF Packets, Followed, Latest
<1>6. Counted'
  <2>1. life' = life /\ life \in Nat /\ enumerations \in Nat
    BY <1>1, <1>2 DEF names, TypeOK
  <2> QED
    BY <1>1, <1>2, <2>1 DEF IInv, Counted
<1> QED
  BY <1>3, <1>4, <1>5, <1>6 DEF IInv

LEMMA DataInStep ==
  ASSUME IInv, DataIn
  PROVE  IInv'
<1>1. /\ Post("sent") /\ "sent" \in Events
      /\ UNCHANGED <<cells, names, usb>> /\ UNCHANGED <<transport, textPost, enumerations>>
      /\ class = "busy" /\ class' = "idle" /\ flight' = <<>> /\ host' = flight
  BY DEF DataIn, Events, threads
<1>2. /\ TypeOK
      /\ events' \in Seq(Events) /\ Len(events') <= EventSlots /\ lost' \in BOOLEAN
      /\ Gone(events) \in Nat /\ Gone(events') \in Nat
      /\ Gone(events') <= Gone(events)
  BY <1>1, Posted DEF IInv
<1>3. /\ Filled' /\ Chosen' /\ First' = First
      /\ \A k : NumberAt(k)' = NumberAt(k)
  BY <1>1, CellsStay
<1>4. TypeOK'
  <2>1. <<>> \in Seq(Cells)
    OBVIOUS
  <2> QED
    BY <1>1, <1>2, <2>1 DEF TypeOK, cells, names
<1>5. Packets'
  BY <1>1 DEF Packets
<1>6. Followed'
  <2>1. Latest' = Latest /\ life' = life /\ txActive' = txActive /\ active' = active
    BY <1>1 DEF Latest, cells, names
  <2>2. Followed
    BY DEF IInv
  <2> QED
    BY <1>3, <2>1, <2>2 DEF Followed, LastOf
<1>7. Counted'
  <2>1. life' = life /\ life \in Nat /\ enumerations \in Nat
    BY <1>1, <1>2 DEF names, TypeOK
  <2> QED
    BY <1>1, <1>2, <2>1 DEF IInv, Counted
<1> QED
  BY <1>3, <1>4, <1>5, <1>6, <1>7 DEF IInv

(* The USB thread takes an event.                                                  *)
LEMMA EventTaken ==
  ASSUME TypeOK, events # <<>>, events' = Tail(events)
  PROVE  /\ events' \in Seq(Events) /\ Len(events') <= EventSlots
         /\ Gone(events) \in Nat /\ Gone(events') \in Nat
         /\ Gone(events') + (IF Head(events) = "gone" THEN 1 ELSE 0) <= Gone(events)
<1>1. events \in Seq(Events) /\ Len(events) <= EventSlots /\ Len(events) \in Nat
  BY DEF TypeOK
<1>2. Gone(events) \in Nat
  BY <1>1, GoneAppend DEF Events
<1>3. /\ Gone(Tail(events)) \in Nat
      /\ Gone(Tail(events)) + (IF Head(events) = "gone" THEN 1 ELSE 0) <= Gone(events)
      /\ Tail(events) \in Seq(Events) /\ Len(Tail(events)) <= Len(events)
  BY <1>1, GoneTail
<1>4. Len(Tail(events)) \in Nat
  BY <1>3
<1> QED
  BY <1>1, <1>2, <1>3, <1>4, Sizes

LEMMA CountedStays ==
  ASSUME IInv, events # <<>>, events' = Tail(events),
         life' = life, class' = class, enumerations' = enumerations
  PROVE  Counted'
<1>1. TypeOK
  BY DEF IInv
<1>2. /\ Gone(events) \in Nat /\ Gone(events') \in Nat
      /\ Gone(events') <= Gone(events)
  BY <1>1, EventTaken
<1>3. life \in Nat /\ enumerations \in Nat
  BY <1>1 DEF TypeOK
<1> QED
  BY <1>2, <1>3 DEF IInv, Counted

(* It chooses the next packet, if there is one to choose.                          *)
LEMMA NextChosen ==
  ASSUME NEW r \in 0..(RingCells - 1), write \in 0..(RingCells - 1), usb = "wait",
         NEW online, NEW sending, StartNext(r, online, sending)
  PROVE  \/ usb' = "wait" /\ active' = active
         \/ /\ usb' = "transmit" /\ ~sending
            /\ active' \in 1..((write + RingCells - r) % RingCells)
            /\ active' \in 0..PacketCells
<1>1. CASE ~online \/ sending \/ r = write
  BY <1>1 DEF StartNext
<1>2. CASE ~(~online \/ sending \/ r = write)
  BY <1>2, PacketIs DEF StartNext
<1> QED
  BY <1>1, <1>2

LEMMA ConfiguredOrQueuedStep ==
  ASSUME IInv, ReceiveConfigured \/ ReceiveQueued
  PROVE  IInv'
<1>1. /\ usb = "wait" /\ events # <<>> /\ events' = Tail(events) /\ lost' = lost
      /\ UNCHANGED <<ring, read, write, txActive, transport, textPost, device, names>>
      /\ connected' \in {TRUE, connected}
  BY DEF ReceiveConfigured, ReceiveQueued, UsbThreadRuns
<1>2. TypeOK /\ Filled /\ Chosen /\ Packets /\ Followed
  BY DEF IInv
<1>3. read \in 0..(RingCells - 1) /\ write \in 0..(RingCells - 1)
  BY <1>2 DEF TypeOK
<1>4. \/ usb' = "wait" /\ active' = active
      \/ /\ usb' = "transmit" /\ ~txActive
         /\ active' \in 1..Used /\ active' \in 0..PacketCells
  <2>1. CASE ReceiveConfigured
    <3>1. StartNext(read, TRUE, txActive)
      BY <2>1 DEF ReceiveConfigured
    <3> QED
      BY <1>1, <1>3, <3>1, NextChosen DEF Used
  <2>2. CASE ReceiveQueued
    <3>1. StartNext(read, connected, txActive)
      BY <2>2 DEF ReceiveQueued
    <3> QED
      BY <1>1, <1>3, <3>1, NextChosen DEF Used
  <2> QED
    BY <2>1, <2>2
<1>5. /\ Used' = Used /\ First' = First /\ Filled'
      /\ \A k : NumberAt(k)' = NumberAt(k)
  BY <1>1, <1>2, RingStays DEF names
<1>6. TypeOK'
  <2>1. events' \in Seq(Events) /\ Len(events') <= EventSlots
    BY <1>1, <1>2, EventTaken
  <2>2. usb' \in {"wait", "transmit"} /\ active' \in 0..PacketCells
    BY <1>2, <1>4 DEF TypeOK
  <2>3. connected' \in BOOLEAN
    BY <1>1, <1>2 DEF TypeOK
  <2> QED
    BY <1>1, <1>2, <2>1, <2>2, <2>3 DEF TypeOK, device, names
<1>7. Chosen'
  <2>1. txActive' = txActive
    BY <1>1
  <2> QED
    BY <1>1, <1>2, <1>4, <1>5, <2>1 DEF Chosen
<1>8. Packets'
  BY <1>1, <1>2 DEF Packets, device, LastOf, Continues
<1>9. Followed'
  <2>1. Latest' = Latest /\ life' = life /\ txActive' = txActive
    BY <1>1 DEF Latest, device, names
  <2>2. (IF txActive' THEN active' ELSE 0) = (IF txActive THEN active ELSE 0)
    BY <1>4, <2>1
  <2> QED
    BY <1>2, <1>5, <2>1, <2>2 DEF Followed, LastOf
<1>10. Counted'
  BY <1>1, CountedStays DEF device, names
<1> QED
  BY <1>5, <1>6, <1>7, <1>8, <1>9, <1>10 DEF IInv

(* reset_transport: the ring starts again; whatever the host has read is older.    *)
LEMMA GoneStep ==
  ASSUME IInv, ReceiveGone
  PROVE  IInv'
<1>1. /\ events # <<>> /\ Head(events) = "gone" /\ events' = Tail(events) /\ lost' = lost
      /\ connected' = FALSE /\ read' = 0 /\ write' = 0 /\ active' = 0 /\ txActive' = FALSE
      /\ life' = life + 1 /\ number' = 0 /\ usb = "wait"
      /\ UNCHANGED <<ring, threads, device>>
  BY DEF ReceiveGone, UsbThreadRuns
<1>2. TypeOK /\ Packets
  BY DEF IInv
<1>3. /\ events' \in Seq(Events) /\ Len(events') <= EventSlots
      /\ Gone(events) \in Nat /\ Gone(events') \in Nat
      /\ Gone(events') + 1 <= Gone(events)
  BY <1>1, <1>2, EventTaken
<1>4. /\ life \in Nat /\ enumerations \in Nat /\ enumerations <= MaxEnumerations
      /\ MaxEnumerations \in Nat
  BY <1>2, Sizes DEF TypeOK
<1>5. Counted' /\ life' \in 0..MaxEnumerations
  <2>1. life + Gone(events) + (IF class = "none" THEN 0 ELSE 1) <= enumerations
    BY DEF IInv, Counted
  <2>2. class' = class /\ enumerations' = enumerations
    BY <1>1 DEF device
  <2> QED
    BY <1>1, <1>3, <1>4, <2>1, <2>2 DEF Counted
<1>6. TypeOK'
  <2>1. 0 \in 0..(RingCells - 1) /\ 0 \in 0..(Numbers - 1) /\ 0 \in 0..PacketCells
    BY Sizes
  <2> QED
    BY <1>1, <1>2, <1>3, <1>5, <2>1 DEF TypeOK, threads, device
<1>7. Used' = 0 /\ First' = 0
  <2>1. 0 \in 0..(RingCells - 1) /\ 0 \in 0..(Numbers - 1)
    BY Sizes
  <2>2. (0 + RingCells - 0) % RingCells = 0
    BY <2>1, UsedIs
  <2>3. (0 + Numbers - 0) % Numbers = 0
    BY <2>1, FirstIs
  <2>4. Used' = 0
    BY <1>1, <2>2 DEF Used
  <2> QED
    BY <1>1, <2>3, <2>4 DEF First
<1>8. Filled' /\ Chosen'
  <2>1. usb' = "wait"
    BY <1>1 DEF threads
  <2> QED
    BY <1>1, <1>7, <2>1 DEF Filled, Chosen
<1>9. Packets'
  BY <1>1, <1>2 DEF Packets, device, LastOf, Continues
<1>10. Followed'
  <2>1. Latest' = Latest
    BY <1>1 DEF Latest, device
  <2>2. Latest \in Seq(Cells)
    BY <1>2 DEF TypeOK, Latest
  <2>3. Latest # <<>> => LastOf(Latest).life < life'
    <3>1. ASSUME Latest # <<>> PROVE LastOf(Latest) \in Cells
      BY <2>2, <3>1 DEF LastOf
    <3>2. \/ LastOf(Latest).life = life
          \/ LastOf(Latest).life < life
          \/ Latest = <<>>
      BY DEF IInv, Followed
    <3>3. \A c \in Cells : c.life \in Nat
      BY DEF Cells
    <3> QED
      BY <1>1, <1>4, <3>1, <3>2, <3>3
  <2> QED
    BY <1>1, <1>7, <2>1, <2>3 DEF Followed, LastOf
<1> QED
  BY <1>5, <1>6, <1>8, <1>9, <1>10 DEF IInv

(* The packet has been sent: the read index passes it.                             *)
LEMMA SentStep ==
  ASSUME IInv, ReceiveSent
  PROVE  IInv'
<1>1. /\ usb = "wait" /\ events # <<>> /\ events' = Tail(events) /\ lost' = lost
      /\ UNCHANGED <<ring, write, connected, transport, textPost, device, names>>
      /\ txActive' = FALSE
  BY DEF ReceiveSent, UsbThreadRuns
<1>2. TypeOK /\ Filled /\ Chosen /\ Packets /\ Followed
  BY DEF IInv
<1>3. /\ read \in 0..(RingCells - 1) /\ write \in 0..(RingCells - 1) /\ active \in Nat
      /\ Used \in 0..(RingCells - 1) /\ First \in 0..(Numbers - 1)
      /\ txActive \in BOOLEAN
  BY <1>2, CellsTypes DEF TypeOK
<1> DEFINE a == IF txActive THEN active ELSE 0
<1>4. a \in 0..Used /\ read' = (read + a) % RingCells
  <2>1. CASE txActive
    <3>1. active \in 1..Used
      BY <1>2, <2>1 DEF Chosen
    <3>2. read' = (read + active) % RingCells
      BY <2>1 DEF ReceiveSent
    <3> QED
      BY <1>3, <2>1, <3>1, <3>2
  <2>2. CASE ~txActive
    <3>1. read' = read
      BY <2>2 DEF ReceiveSent
    <3>2. read + 0 = read /\ read % RingCells = read
      BY <1>3, Sizes
    <3> QED
      BY <1>3, <2>2, <3>1, <3>2
  <2> QED
    BY <2>1, <2>2
<1>5. ~txActive => First' = First
  <2>1. ASSUME ~txActive PROVE read' = read
    BY <2>1 DEF ReceiveSent
  <2> QED
    BY <1>1, <1>2, <2>1, RingStays DEF names
<1> HIDE DEF a
<1>6. /\ read' \in 0..(RingCells - 1)
      /\ Used' = Used - a /\ Filled' /\ NumberAt(0)' = NumberAt(a)
  BY <1>1, <1>2, <1>4, Taken DEF names
<1>7. \/ usb' = "wait" /\ active' \in 0..PacketCells
      \/ usb' = "transmit" /\ active' \in 1..Used' /\ active' \in 0..PacketCells
  <2>1. CASE connected /\ read' # write
    <3>1. StartNext(read', connected, FALSE)
      BY <2>1 DEF ReceiveSent
    <3>2. \/ usb' = "wait" /\ active' = active
          \/ /\ usb' = "transmit"
             /\ active' \in 1..((write + RingCells - read') % RingCells)
             /\ active' \in 0..PacketCells
      BY <1>1, <1>3, <1>6, <3>1, NextChosen
    <3>3. Used' = (write + RingCells - read') % RingCells
      BY <1>1 DEF Used
    <3>4. active \in 0..PacketCells
      BY <1>2 DEF TypeOK
    <3> QED
      BY <3>2, <3>3, <3>4
  <2>2. CASE ~(connected /\ read' # write)
    <3>1. active' = 0 /\ usb' = usb
      BY <2>2 DEF ReceiveSent
    <3> QED
      BY <1>1, <3>1, Sizes
  <2> QED
    BY <2>1, <2>2
<1>8. TypeOK'
  <2>1. events' \in Seq(Events) /\ Len(events') <= EventSlots
    BY <1>1, <1>2, EventTaken
  <2>2. usb' \in {"wait", "transmit"} /\ active' \in 0..PacketCells
    BY <1>7
  <2> QED
    BY <1>1, <1>2, <1>6, <2>1, <2>2 DEF TypeOK, device, names
<1>9. Chosen'
  BY <1>1, <1>7 DEF Chosen
<1>10. Packets'
  BY <1>1, <1>2 DEF Packets, device, LastOf, Continues
<1>11. Followed'
  <2>1. Latest' = Latest /\ life' = life
    BY <1>1 DEF Latest, device, names
  <2>2. ASSUME Latest # <<>>
        PROVE  \/ /\ LastOf(Latest).life = life
                  /\ (LastOf(Latest).number + 1) % Numbers = NumberAt(a)
               \/ LastOf(Latest).life < life /\ First' = 0
    BY <1>2, <1>5, <2>2 DEF Followed, a
  <2>3. (IF txActive' THEN active' ELSE 0) = 0
    BY <1>1
  <2> QED
    BY <1>1, <1>6, <2>1, <2>2, <2>3 DEF Followed, LastOf
<1>12. Counted'
  BY <1>1, CountedStays DEF device, names
<1> QED
  BY <1>6, <1>8, <1>9, <1>10, <1>11, <1>12 DEF IInv

(* CDC_Transmit_FS: the controller copies what lies at the read index, which goes  *)
(* on where the packet before it ended.                                            *)
LEMMA TransmitStep ==
  ASSUME IInv, Transmit
  PROVE  IInv'
<1>1. /\ usb = "transmit" /\ usb' = "wait"
      /\ UNCHANGED <<ring, read, write, connected, queue, transport, textPost,
                     enumerations, host, names>>
  BY DEF Transmit
<1>2. TypeOK /\ Filled /\ Chosen /\ Packets /\ Followed
  BY DEF IInv
<1>3. /\ active \in 1..Used /\ ~txActive
  BY <1>1, <1>2 DEF Chosen
<1>4. /\ read \in 0..(RingCells - 1) /\ Used \in 0..(RingCells - 1)
      /\ First \in 0..(Numbers - 1) /\ active \in 0..PacketCells
      /\ ring \in [0..(RingCells - 1) -> Cells]
  BY <1>2, CellsTypes DEF TypeOK
<1>5. /\ Used' = Used /\ First' = First /\ Filled'
      /\ \A k : NumberAt(k)' = NumberAt(k)
  BY <1>1, <1>2, RingStays DEF names
<1>6. CASE class = "idle"
  <2>1. /\ class' = "busy" /\ txActive' = TRUE /\ active' = active
        /\ flight' = [i \in 1..active |-> ring[(read + i - 1) % RingCells]]
    BY <1>6 DEF Transmit
  <2>2. ASSUME NEW i \in 1..active
        PROVE  flight'[i] = [life |-> life, number |-> NumberAt(i - 1)] /\ flight'[i] \in Cells
    <3>0. Used \in Nat /\ Used <= RingCells - 1 /\ active \in Nat /\ active <= Used
      BY <1>3, <1>4, Sizes
    <3>1. i - 1 \in 0..(Used - 1) /\ i - 1 \in 0..(RingCells - 1)
      BY <3>0, Sizes
    <3>2. read + i - 1 = read + (i - 1)
      BY <1>4
    <3>3. flight'[i] = CellAt(i - 1)
      BY <2>1, <3>2 DEF CellAt
    <3>4. (read + (i - 1)) % RingCells \in 0..(RingCells - 1)
      BY <1>4, <3>1, PositionOn
    <3> QED
      BY <1>2, <1>4, <3>1, <3>3, <3>4 DEF Filled, CellAt
  <2>3. flight' \in Seq(Cells) /\ Len(flight') = active /\ flight' # <<>>
    <3>1. flight' \in [1..active -> Cells]
      BY <2>1, <2>2
    <3> QED
      BY <1>3, <1>4, <2>1, <3>1
  <2>4. ASSUME NEW k \in 0..(Used - 1)
        PROVE  (NumberAt(k) + 1) % Numbers = NumberAt(k + 1)
    <3>1. k \in 0..(Numbers - 1)
      BY <1>4, Sizes
    <3> QED
      BY <1>4, <3>1, NumberOn DEF NumberAt
  <2>5. \A i \in 1..(Len(flight') - 1) : Continues(flight'[i], flight'[i + 1])
    <3> SUFFICES ASSUME NEW i \in 1..(active - 1)
                 PROVE  Continues(flight'[i], flight'[i + 1])
      BY <2>3
    <3>1. /\ i \in 1..active /\ i + 1 \in 1..active /\ i - 1 \in 0..(Used - 1)
          /\ (i + 1) - 1 = (i - 1) + 1
      BY <1>3, <1>4
    <3>2. /\ flight'[i] = [life |-> life, number |-> NumberAt(i - 1)]
          /\ flight'[i + 1] = [life |-> life, number |-> NumberAt((i - 1) + 1)]
      BY <2>2, <3>1
    <3> QED
      BY <2>4, <3>1, <3>2 DEF Continues
  <2>6. flight'[1] = [life |-> life, number |-> NumberAt(0)]
    <3>1. 1 \in 1..active /\ 1 - 1 = 0
      BY <1>3, <1>4
    <3> QED
      BY <2>2, <3>1
  <2>7. host # <<>> => Continues(LastOf(host), flight'[1])
    <3>1. SUFFICES ASSUME host # <<>> PROVE Continues(LastOf(host), flight'[1])
      OBVIOUS
    <3>2. Latest = host
      BY <1>6 DEF Latest
    <3>3. First = 0 => NumberAt(0) = 0
      <4>1. (0 + 0) % Numbers = 0
        BY Sizes
      <4> QED
        BY <4>1 DEF NumberAt
    <3> QED
      BY <1>2, <1>3, <2>6, <3>1, <3>2, <3>3 DEF Followed, Continues
  <2>8. Packets'
    <3>1. host' = host
      BY <1>1
    <3> QED
      BY <2>1, <2>3, <2>5, <2>7, <3>1 DEF Packets, LastOf
  <2>9. TypeOK'
    BY <1>1, <1>2, <2>1, <2>3 DEF TypeOK, queue, names
  <2>10. Chosen'
    BY <1>1, <1>3, <1>5, <2>1 DEF Chosen
  <2>11. Followed'
    <3>1. LastOf(flight') = [life |-> life, number |-> NumberAt(active - 1)]
      <4>1. active \in 1..active
        BY <1>3, <1>4
      <4> QED
        BY <2>2, <2>3, <4>1 DEF LastOf
    <3>2. (NumberAt(active - 1) + 1) % Numbers = NumberAt(active)
      <4>1. active - 1 \in 0..(Used - 1) /\ (active - 1) + 1 = active
        BY <1>3, <1>4
      <4> QED
        BY <2>4, <4>1
    <3>3. Latest' = flight' /\ life' = life
      BY <1>1, <2>1 DEF Latest, names
    <3>4. (IF txActive' THEN active' ELSE 0) = active
      BY <2>1
    <3>5. LastOf(flight').life = life /\ (LastOf(flight').number + 1) % Numbers = NumberAt(active)
      BY <3>1, <3>2
    <3>6. LastOf(Latest)' = LastOf(flight')
      BY <3>3 DEF LastOf
    <3> QED
      BY <1>5, <3>3, <3>4, <3>5, <3>6 DEF Followed
  <2>12. Counted'
    BY <1>1, <1>6, <2>1 DEF IInv, Counted, queue, names
  <2> QED
    BY <1>5, <2>8, <2>9, <2>10, <2>11, <2>12 DEF IInv
<1>7. CASE class # "idle"
  <2>1. active' = 0 /\ UNCHANGED <<class, flight, txActive>>
    BY <1>7 DEF Transmit
  <2>2. TypeOK'
    BY <1>1, <1>2, <2>1, Sizes DEF TypeOK, queue, names
  <2>3. Chosen'
    BY <1>1, <1>3, <2>1 DEF Chosen
  <2>4. Packets'
    BY <1>1, <1>2, <2>1 DEF Packets, LastOf, Continues
  <2>5. Followed'
    <3>1. Latest' = Latest /\ life' = life /\ txActive' = txActive
      BY <1>1, <2>1 DEF Latest, names
    <3>2. (IF txActive' THEN active' ELSE 0) = 0 /\ (IF txActive THEN active ELSE 0) = 0
      BY <1>3, <3>1
    <3> QED
      BY <1>2, <1>5, <3>1, <3>2 DEF Followed, LastOf
  <2>6. Counted'
    BY <1>1, <2>1 DEF IInv, Counted, queue, names
  <2> QED
    BY <1>5, <2>2, <2>3, <2>4, <2>5, <2>6 DEF IInv
<1> QED
  BY <1>6, <1>7

LEMMA NextKeeps == IInv /\ [Next]_vars => IInv'
<1> SUFFICES ASSUME IInv, [Next]_vars PROVE IInv'
  OBVIOUS
<1>1. CASE TransportWakes \/ TransportSleeps
  BY <1>1, TransportStep
<1>2. CASE WriteFrame \/ WriteText
  BY <1>2, WritersStep
<1>3. CASE PostFrame \/ PostText
  BY <1>3, PostStep
<1>4. CASE Configure
  BY <1>4, ConfigureStep
<1>5. CASE Unconfigure
  BY <1>5, UnconfigureStep
<1>6. CASE DataIn
  BY <1>6, DataInStep
<1>7. CASE ReceiveConfigured \/ ReceiveQueued
  BY <1>7, ConfiguredOrQueuedStep
<1>8. CASE ReceiveGone
  BY <1>8, GoneStep
<1>9. CASE ReceiveSent
  BY <1>9, SentStep
<1>10. CASE Transmit
  BY <1>10, TransmitStep
<1>11. CASE UNCHANGED vars
  <2>1. UNCHANGED <<cells, names, usb, device>> /\ UNCHANGED <<queue, threads>>
    BY <1>11 DEF vars, threads
  <2>2. Filled' /\ Chosen' /\ Packets' /\ Followed'
    BY <2>1, PacketsStay
  <2>3. TypeOK'
    BY <2>1 DEF IInv, TypeOK, cells, queue, threads, device, names
  <2>4. Counted'
    BY <2>1 DEF IInv, Counted, queue, device, names
  <2> QED
    BY <2>2, <2>3, <2>4 DEF IInv
<1> QED
  BY <1>1, <1>2, <1>3, <1>4, <1>5, <1>6, <1>7, <1>8, <1>9, <1>10, <1>11 DEF Next, UsbThread

(* The strengthened invariant holds of every execution.                           *)
LEMMA Inductive == Spec => []IInv
<1>1. Init => IInv
  BY InitHolds
<1>2. IInv /\ [Next]_vars => IInv'
  BY NextKeeps
<1> QED
  BY <1>1, <1>2, PTL DEF Spec

-----------------------------------------------------------------------------
(* Every step of the program is correctly typed; the event queue keeps to its      *)
(* slots, the indices to the ring.                                                 *)
THEOREM TypeCorrect == Spec => []TypeOK
<1>1. IInv => TypeOK
  BY DEF IInv
<1> QED
  BY <1>1, Inductive, PTL

(* What the host reads while it stays configured is what was written, each byte    *)
(* once and in order.                                                              *)
THEOREM StreamContinuous == Spec => StreamIsContinuous
<1>1. IInv /\ [Next]_vars =>
        (class = "busy" /\ class' = "idle" =>
           /\ \A i \in 1..(Len(flight) - 1) : Continues(flight[i], flight[i + 1])
           /\ host # <<>> => Continues(host[Len(host)], flight[1]))
  BY DEF IInv, Packets, LastOf
<1> QED
  BY <1>1, Inductive, PTL DEF Spec, StreamIsContinuous

====================================================================================
