--------------------------- MODULE VernierPositionProofs ---------------------------
(* What holds of the joint's position for every resolution of the encoders, every     *)
(* pair of ratios, every divider of the pairs and wherever the joint may go.          *)
EXTENDS VernierPosition, TLAPS

------------------------------------------------------------------------------------
(* Angles. *)

LEMMA Sizes ==
  /\ Turn \in Nat \ {0} /\ Ratio \in Nat \ {0} /\ Ratio > 1
  /\ Divider \in Nat \ {0} /\ MaxAuxMiss \in Nat /\ MaxTravel \in Nat
  /\ Round \in Nat \ {0} /\ Round = Turn * Ratio /\ 2 * Turn <= Round
  /\ 2 * MaxTravel < Turn /\ 2 * (MaxTravel * (Ratio - 1)) < Turn
  /\ Position = 0..(Round - 1)
<1>1. /\ Turn \in Nat \ {0} /\ Ratio \in Nat \ {0} /\ Ratio > 1
      /\ Divider \in Nat \ {0} /\ MaxAuxMiss \in Nat /\ MaxTravel \in Nat
      /\ 2 * MaxTravel * (Ratio - 1) < Turn
  BY ConstantsAssumption
<1>2. Turn * Ratio \in Nat /\ Turn * Ratio >= 2 * Turn
  BY <1>1
<1>3. MaxTravel * (Ratio - 1) >= MaxTravel
  BY <1>1
<1>4. 2 * MaxTravel * (Ratio - 1) = 2 * (MaxTravel * (Ratio - 1))
  BY <1>1
<1>5. MaxTravel * (Ratio - 1) \in Nat
  BY <1>1
<1> QED
  BY <1>1, <1>2, <1>3, <1>4, <1>5 DEF Round, Position

LEMMA Whole ==
  Round \in Nat \ {0} /\ Position = 0..(Round - 1)
BY Sizes

LEMMA Remainder ==
  ASSUME NEW n \in Nat \ {0}, NEW k \in Int, NEW r \in 0..(n - 1)
  PROVE  (k * n + r) % n = r
OBVIOUS

LEMMA Quotient ==
  ASSUME NEW n \in Nat \ {0}, NEW x \in Int
  PROVE  /\ x \div n \in Int /\ x % n \in 0..(n - 1)
         /\ x = (x \div n) * n + (x % n)
OBVIOUS

LEMMA WholeTurns ==
  ASSUME NEW n \in Nat \ {0}, NEW x \in Int, NEW k \in Int
  PROVE  (x + k * n) % n = x % n
<1> DEFINE q == x \div n
           r == x % n
<1>1. q \in Int /\ r \in 0..(n - 1) /\ x = q * n + r
  BY Quotient
<1>2. x + k * n = (q + k) * n + r /\ q + k \in Int
  BY <1>1
<1> QED
  BY <1>1, <1>2, Remainder

LEMMA OneTurn ==
  ASSUME NEW n \in Nat \ {0}, NEW x \in (-n)..(2 * n - 1)
  PROVE  x % n = IF x < 0 THEN x + n ELSE IF x < n THEN x ELSE x - n
<1>1. CASE x < 0
  <2>1. x = (-1) * n + (x + n) /\ x + n \in 0..(n - 1)
    BY <1>1
  <2> QED
    BY <2>1, <1>1, Remainder
<1>2. CASE 0 <= x /\ x < n
  BY <1>2, Remainder
<1>3. CASE n <= x
  <2>1. x = 1 * n + (x - n) /\ x - n \in 0..(n - 1)
    BY <1>3
  <2> QED
    BY <2>1, <1>3, Remainder
<1> QED
  BY <1>1, <1>2, <1>3

LEMMA PlusIs ==
  ASSUME NEW p \in Int, NEW d \in Int
  PROVE  Plus(p, d) \in Position
<1>1. p + d \in Int
  OBVIOUS
<1>2. (p + d) % Round \in 0..(Round - 1)
  BY <1>1, Whole, Quotient
<1> QED
  BY <1>2, Whole DEF Plus

LEMMA MoveIs ==
  ASSUME NEW p \in Position, NEW d \in Int
  PROVE  Plus(p, d) \in Position /\ -p \in Int
<1>1. p \in Int
  BY Whole
<1> QED
  BY <1>1, PlusIs

(* A sum of angles does not depend on whole turns of a part of it.                    *)
LEMMA PlusPlus ==
  ASSUME NEW p \in Int, NEW d \in Int, NEW e \in Int
  PROVE  Plus(Plus(p, d), e) = Plus(p, d + e)
<1> DEFINE k == (p + d) \div Round
<1>0. p + d \in Int
  OBVIOUS
<1>1. k \in Int /\ Plus(p, d) \in Int /\ p + d = k * Round + Plus(p, d)
  BY <1>0, Whole, Quotient DEF Plus
<1> HIDE DEF k
<1>2. p + (d + e) = (Plus(p, d) + e) + k * Round
  BY <1>1, Sizes
<1>3. ((Plus(p, d) + e) + k * Round) % Round = (Plus(p, d) + e) % Round
  <2>1. Plus(p, d) + e \in Int
    BY <1>1
  <2> QED
    BY <1>1, <2>1, Whole, WholeTurns
<1> QED
  BY <1>2, <1>3 DEF Plus

LEMMA PlusZero ==
  ASSUME NEW p \in Position
  PROVE  Plus(p, 0) = p
BY Sizes, OneTurn DEF Plus

(* The way around from q to p, when it is short.                                      *)
Way(p, q) == IF p - q > MaxTravel THEN p - q - Round
             ELSE IF q - p > MaxTravel THEN p - q + Round ELSE p - q

Near(p, q) == Way(p, q) \in (-MaxTravel)..MaxTravel

LEMMA NearIs ==
  ASSUME NEW p \in Position, NEW q \in Position
  PROVE  Apart(p, q) <= MaxTravel <=> Near(p, q)
<1> DEFINE h == Round \div 2
           x == p - q + h
<1>1. h \in Nat /\ 2 * h <= Round /\ Round <= 2 * h + 1
  BY Sizes
<1> HIDE DEF h
<1>2. x \in (-Round)..(2 * Round - 1)
  BY Sizes, <1>1
<1>3. x % Round = IF x < 0 THEN x + Round ELSE IF x < Round THEN x ELSE x - Round
  BY <1>2, OneTurn, Sizes
<1>4. Apart(p, q) = LET d == (x % Round) - h IN IF d < 0 THEN -d ELSE d
  BY DEF Apart, HalfWrap, h
<1> QED
  BY <1>1, <1>3, <1>4, Sizes DEF Near, Way

LEMMA WayIs ==
  ASSUME NEW p \in Position, NEW q \in Position, Near(p, q)
  PROVE  /\ Way(p, q) \in Int /\ Way(p, q) \in (-MaxTravel)..MaxTravel
         /\ p = Plus(q, Way(p, q))
         /\ \E k \in {-1, 0, 1} : p - q = Way(p, q) + k * Round
<1>1. Way(p, q) \in (-MaxTravel)..MaxTravel
  BY DEF Near
<1>2. \E k \in {-1, 0, 1} : p - q = Way(p, q) + k * Round
  BY Sizes DEF Way
<1>3. q + Way(p, q) \in (-Round)..(2 * Round - 1)
  BY Sizes, <1>1
<1> DEFINE x == q + Way(p, q)
<1>4. x % Round = p
  <2>1. x % Round = IF x < 0 THEN x + Round ELSE IF x < Round THEN x ELSE x - Round
    BY <1>3, OneTurn, Whole
  <2>2. \/ x = p \/ x = p - Round \/ x = p + Round
    BY <1>1, <1>2, Whole
  <2> QED
    BY <2>1, <2>2, Whole
<1> QED
  BY <1>1, <1>2, <1>4, Sizes DEF Plus

LEMMA NearSelf ==
  ASSUME NEW p \in Position
  PROVE  Near(p, p)
BY Sizes DEF Near, Way

LEMMA NearBack ==
  ASSUME NEW p \in Position, NEW q \in Position, Near(p, q)
  PROVE  Near(q, p)
BY Sizes DEF Near, Way

LEMMA NearSameTurn ==
  ASSUME NEW p \in Position, NEW q \in Position, Near(p, q)
  PROVE  SameTurn(p, q)
<1> DEFINE a == Apart(p, q)
           h == Round \div 2
<1>1. a <= MaxTravel
  BY NearIs
<1>2. a \in Int
  <2>1. h \in Int /\ p - q + h \in Int
    BY Sizes
  <2>2. (p - q + h) % Round \in 0..(Round - 1)
    BY <2>1, Sizes
  <2> QED
    BY <2>1, <2>2, Sizes DEF Apart, HalfWrap
<1> HIDE DEF a
<1>3. 2 * a < Turn
  BY <1>1, <1>2, Sizes
<1> QED
  BY <1>3 DEF SameTurn, a

(* The way around, when it is less than half a turn of the motor.                     *)
LEMMA SameTurnIs ==
  ASSUME NEW p \in Position, NEW q \in Position, SameTurn(p, q)
  PROVE  \E e \in Int : 2 * e < Turn /\ -Turn < 2 * e /\ p = Plus(q, e)
<1> DEFINE h == Round \div 2
           x == p - q + h
           e == (x % Round) - h
<1>1. h \in Nat /\ 2 * h <= Round /\ Round <= 2 * h + 1
  BY Sizes
<1> HIDE DEF h
<1>2. x \in Int /\ p \in Int /\ q \in Int
  BY Sizes, <1>1
<1>3. x % Round \in 0..(Round - 1) /\ x = (x \div Round) * Round + (x % Round) /\ x \div Round \in Int
  BY <1>2, Whole, Quotient
<1>4. e \in Int
  BY <1>1, <1>3, Whole
<1>5. 2 * e < Turn /\ -Turn < 2 * e
  <2>1. Apart(p, q) = IF e < 0 THEN -e ELSE e
    BY DEF Apart, HalfWrap, h
  <2> HIDE DEF e
  <2> QED
    BY <1>4, <2>1, Sizes DEF SameTurn
<1>6. p = Plus(q, e)
  <2> DEFINE k == x \div Round
  <2>1. q + e = p + (-k) * Round /\ -k \in Int
    <3> DEFINE r == x % Round
    <3>1. r \in Int /\ k \in Int /\ x = k * Round + r /\ e = r - h
      BY <1>3, Whole
    <3> HIDE DEF r, k, e
    <3>2. k * Round \in Int /\ (-k) * Round = -(k * Round)
      BY <3>1, Whole
    <3> QED
      BY <1>1, <1>2, <3>1, <3>2
  <2> HIDE DEF k, e
  <2>2. (p + (-k) * Round) % Round = p % Round
    BY <1>2, <2>1, Whole, WholeTurns
  <2>3. p % Round = p
    BY PlusZero, <1>2 DEF Plus
  <2> QED
    BY <2>1, <2>2, <2>3 DEF Plus
<1> QED
  BY <1>4, <1>5, <1>6

(* What a single encoder shows of a motion by less than half a turn of its own.       *)
LEMMA PhaseStep ==
  ASSUME NEW p \in Position, NEW e \in Int, 2 * e < Turn, -Turn < 2 * e
  PROVE  /\ HalfWrap(Main(Plus(p, e)) - Main(p), Turn) = e
         /\ HalfWrap(Main(p) - Main(Plus(p, e)), Turn) = -e
<1> DEFINE r == Plus(p, e)
           h == Turn \div 2
<1>1. h \in Nat /\ 2 * h <= Turn /\ Turn <= 2 * h + 1
  BY Sizes
<1> HIDE DEF h
<1>2. p \in Int /\ r \in Int /\ Main(p) \in Int /\ Main(r) \in Int
  <2>1. p \in Int /\ r \in Int
    BY PlusIs, Whole
  <2> HIDE DEF r
  <2>2. \A x \in Int : x % Turn \in Int
    BY Sizes, Quotient
  <2> QED
    BY <2>1, <2>2 DEF Main
<1>3. PICK k \in Int : p + e = k * Round + r
  <2>1. p + e \in Int
    BY <1>2
  <2>2. p + e = ((p + e) \div Round) * Round + r /\ (p + e) \div Round \in Int
    BY <2>1, Whole, Quotient DEF Plus
  <2> QED
    BY <2>2
<1>4. PICK i \in Int : p = i * Turn + Main(p)
  BY Sizes, Quotient, <1>2 DEF Main
<1>5. PICK j \in Int : r = j * Turn + Main(r)
  BY Sizes, Quotient, <1>2 DEF Main
<1> HIDE DEF r
<1>6. k * Round = (k * Ratio) * Turn /\ k * Ratio \in Int
  BY Sizes, <1>3
<1> DEFINE m == i - j - k * Ratio
<1>7. m \in Int
  BY <1>6, <1>4, <1>5
<1>8. Main(r) - Main(p) = m * Turn + e
  <2>1. Main(r) - Main(p) = (i * Turn - j * Turn - (k * Ratio) * Turn) + e
    BY <1>2, <1>3, <1>4, <1>5, <1>6, Sizes
  <2>2. i * Turn - j * Turn - (k * Ratio) * Turn = m * Turn
    BY <1>6, Sizes
  <2> QED
    BY <2>1, <2>2
<1>9. Main(p) - Main(r) = (-m) * Turn + (-e)
  BY <1>2, <1>7, <1>8, Sizes
<1> HIDE DEF m
<1>10. e + h \in 0..(Turn - 1) /\ -e + h \in 0..(Turn - 1)
  BY <1>1, Sizes
<1>11. (m * Turn + (e + h)) % Turn = e + h
  BY <1>7, <1>10, Remainder, Sizes
<1>12. ((-m) * Turn + (-e + h)) % Turn = -e + h
  <2>1. -m \in Int
    BY <1>7
  <2> QED
    BY <2>1, <1>10, Remainder, Sizes
<1>13. Main(r) - Main(p) + h = m * Turn + (e + h)
  BY <1>1, <1>2, <1>7, <1>8, Sizes
<1>14. Main(p) - Main(r) + h = (-m) * Turn + (-e + h)
  BY <1>1, <1>2, <1>7, <1>9, Sizes
<1> QED
  BY <1>1, <1>11, <1>12, <1>13, <1>14 DEF HalfWrap, r, h

(* The counts of the main encoder are an account of a motion that is followed.        *)
LEMMA Counted ==
  ASSUME NEW p \in Position, NEW q \in Position, Near(p, q), NEW s \in Int
  PROVE  Plus(s, HalfWrap(Main(p) - Main(q), Turn)) = Plus(s, p - q)
<1> DEFINE d == Way(p, q)
<1>1. d \in Int /\ d \in (-MaxTravel)..MaxTravel /\ p = Plus(q, d)
  BY WayIs
<1>2. PICK k \in {-1, 0, 1} : p - q = d + k * Round
  BY WayIs
<1> HIDE DEF d
<1>3. HalfWrap(Main(p) - Main(q), Turn) = d
  BY <1>1, PhaseStep, Sizes
<1>4. s + (p - q) = (s + d) + k * Round /\ k \in Int
  BY <1>1, <1>2, Sizes
<1>5. ((s + d) + k * Round) % Round = (s + d) % Round
  <2>1. s + d \in Int
    BY <1>1
  <2> QED
    BY <2>1, <1>4, Whole, WholeTurns
<1> QED
  BY <1>3, <1>4, <1>5 DEF Plus

(* Both encoders, read at about one place, tell that place: the first of the two.     *)
LEMMA NoniusIs ==
  ASSUME NEW p \in Position, NEW q \in Position, Near(p, q)
  PROVE  Nonius(p, q) = p
<1> DEFINE d == Way(p, q)
           e == (Ratio - 1) * d
           coarse == Plus(Ratio * p, -(Ratio - 1) * q)
<1>1. d \in Int /\ d \in (-MaxTravel)..MaxTravel
  BY WayIs
<1>2. PICK k \in {-1, 0, 1} : p - q = d + k * Round
  BY WayIs
<1> HIDE DEF d
<1>3. e \in Int /\ 2 * e < Turn /\ -Turn < 2 * e
  <2>1. (Ratio - 1) * d <= (Ratio - 1) * MaxTravel /\ -((Ratio - 1) * MaxTravel) <= (Ratio - 1) * d
    BY <1>1, Sizes
  <2>2. (Ratio - 1) * MaxTravel = MaxTravel * (Ratio - 1) /\ MaxTravel * (Ratio - 1) \in Int
    BY Sizes
  <2> QED
    BY <1>1, <2>1, <2>2, Sizes
<1>4. coarse = Plus(p, e)
  <2>1. Ratio * p + (-(Ratio - 1) * q) = p + (Ratio - 1) * (p - q)
    BY Sizes
  <2>2. (Ratio - 1) * (p - q) = e + ((Ratio - 1) * k) * Round
    BY <1>1, <1>2, Sizes
  <2>3. p + e \in Int /\ (Ratio - 1) * k \in Int /\ p \in Int
    BY <1>2, <1>3, Sizes
  <2> HIDE DEF e
  <2>4. Ratio * p + (-(Ratio - 1) * q) = (p + e) + ((Ratio - 1) * k) * Round
    <3>1. ((Ratio - 1) * k) * Round \in Int
      BY <2>3, Whole
    <3> QED
      BY <1>3, <2>1, <2>2, <2>3, <3>1
  <2>5. ((p + e) + ((Ratio - 1) * k) * Round) % Round = (p + e) % Round
    BY <2>3, Whole, WholeTurns
  <2> QED
    BY <2>4, <2>5 DEF Plus
<1> HIDE DEF e
<1>5. HalfWrap(Main(p) - Main(coarse), Turn) = -e
  BY <1>3, <1>4, PhaseStep
<1>6. Plus(coarse, -e) = Plus(p, 0)
  BY <1>3, <1>4, PlusPlus, Sizes
<1> QED
  BY <1>5, <1>6, PlusZero DEF Nonius

------------------------------------------------------------------------------------
(* Types. *)

USE DEF sensors, estimate

LEMMA Zero ==
  0 \in Position
BY Whole

LEMMA HalfWrapIs ==
  ASSUME NEW d \in Int, NEW n \in Nat \ {0}
  PROVE  HalfWrap(d, n) \in Int
<1>1. n \div 2 \in Int /\ d + n \div 2 \in Int
  OBVIOUS
<1>2. (d + n \div 2) % n \in Int
  BY <1>1, Quotient
<1> QED
  BY <1>1, <1>2 DEF HalfWrap

LEMMA MainIs ==
  ASSUME NEW p \in Position
  PROVE  Main(p) \in Int /\ Main(p) \in Position
<1>1. Main(p) \in 0..(Turn - 1)
  BY Sizes, Quotient DEF Main
<1> QED
  BY <1>1, Sizes

LEMMA PhaseIs ==
  ASSUME NEW p \in Position, NEW q \in Position
  PROVE  HalfWrap(Main(p) - Main(q), Turn) \in Int
<1>1. Main(p) - Main(q) \in Int
  BY MainIs
<1> QED
  BY <1>1, HalfWrapIs, Sizes

LEMMA ResolverTypes ==
  ASSUME TypeOK, NEW p \in Position, NEW q \in Position
  PROVE  Predicted(p) \in Position /\ Nonius(p, q) \in Position /\ Resolved(p, q) \in Position
<1>1. resolver.turns \in Position /\ resolver.last \in Position
  BY DEF TypeOK
<1>2. Predicted(p) \in Position
  <2>1. HalfWrap(Main(p) - Main(resolver.last), Turn) \in Int
    BY <1>1, PhaseIs
  <2> QED
    BY <1>1, <2>1, MoveIs DEF Predicted
<1>3. Nonius(p, q) \in Position
  <2> DEFINE coarse == Plus(Ratio * p, -(Ratio - 1) * q)
  <2>1. coarse \in Position
    <3>1. Ratio * p \in Int /\ -(Ratio - 1) * q \in Int
      BY Sizes
    <3> QED
      BY <3>1, PlusIs
  <2> HIDE DEF coarse
  <2>2. HalfWrap(Main(p) - Main(coarse), Turn) \in Int
    BY <2>1, PhaseIs
  <2>3. Plus(coarse, HalfWrap(Main(p) - Main(coarse), Turn)) \in Position
    BY <2>1, <2>2, PlusIs, Whole
  <2> QED
    BY <2>3 DEF Nonius, coarse
<1>4. Resolved(p, q) \in Position
  <2> DEFINE off == HalfWrap(Nonius(p, q) - Predicted(p), Round)
             near == NearestTurn(-off)
  <2>1. off \in Int
    <3>1. Nonius(p, q) - Predicted(p) \in Int
      BY <1>2, <1>3, Whole
    <3> QED
      BY <3>1, HalfWrapIs, Whole
  <2> HIDE DEF off
  <2>2. near \in Int
    <3>1. -off + Turn \div 2 \in Int
      BY <2>1, Sizes
    <3>2. (-off + Turn \div 2) \div Turn \in Int
      BY <3>1, Quotient, Sizes
    <3> QED
      BY <3>2, Sizes DEF NearestTurn
  <2> HIDE DEF near
  <2>3. Plus(Predicted(p), off + near) \in Position
    <3>1. off + near \in Int
      BY <2>1, <2>2
    <3> QED
      BY <1>2, <3>1, MoveIs
  <2> QED
    BY <1>3, <2>3 DEF Resolved, off, near
<1> QED
  BY <1>2, <1>3, <1>4

LEMMA InitType ==
  ASSUME Init
  PROVE  TypeOK
<1>1. shaft \in Position
  BY ConstantsAssumption DEF Init
<1>2. HalfWrap(Main(shaft), Turn) \in Int
  BY <1>1, MainIs, HalfWrapIs, Sizes
<1>3. shadow \in Position
  BY <1>2, PlusIs DEF Init
<1>4. 0 \in 0..(Divider - 1) /\ 0 \in 0..MaxAuxMiss
  BY Sizes
<1> QED
  BY <1>1, <1>3, <1>4, Zero DEF Init, TypeOK, States, NoRead, NoResult

LEMMA SampleType ==
  ASSUME TypeOK, sample_now, shaft' \in Position
  PROVE  /\ reading' \in {"none", "self", "pair"} /\ pair' \in {"idle", "main", "aux"}
         /\ angle' \in Position /\ samples' \in 0..(Divider - 1)
         /\ pending' = pending
<1>1. (samples + 1) % Divider \in 0..(Divider - 1)
  <2>1. samples + 1 \in Int
    BY DEF TypeOK
  <2> QED
    BY <2>1, Quotient, Sizes
<1> QED
  BY <1>1 DEF sample_now, TypeOK

LEMMA AnchorType ==
  ASSUME TypeOK, NEW s \in Position, result' = result, Anchor(s)
  PROVE  {branch', position', circular', lastShadow'} \subseteq Position /\ tracking' \in BOOLEAN
<1>1. result.unwrapped \in Position /\ -s \in Int
  BY MoveIs DEF TypeOK
<1>2. Plus(result.unwrapped, -s) \in Position
  BY <1>1, MoveIs
<1> QED
  BY <1>1, <1>2 DEF Anchor

LEMMA PublishType ==
  ASSUME TypeOK, NEW s \in Position, result' = result, publish_vernier_output_estimate(s)
  PROVE  {branch', position', circular', lastShadow'} \subseteq Position /\ tracking' \in BOOLEAN
<1>1. {branch, position, circular, lastShadow} \subseteq Position /\ tracking \in BOOLEAN
  BY DEF TypeOK
<1>2. CASE Anchor(s)
  BY <1>2, AnchorType
<1>3. CASE tracking /\ ~Anchor(s)
  <2>1. Plus(branch, s) \in Position /\ Plus(circular, s - lastShadow) \in Position
    <3>1. s \in Int /\ s - lastShadow \in Int
      BY <1>1, Whole
    <3> QED
      BY <1>1, <3>1, MoveIs
  <2> QED
    BY <1>1, <1>3, <2>1 DEF publish_vernier_output_estimate
<1>4. CASE ~tracking /\ ~Anchor(s)
  BY <1>1, <1>4 DEF publish_vernier_output_estimate
<1> QED
  BY <1>1, <1>2, <1>3, <1>4

LEMMA ControlPeriodType ==
  ASSUME TypeOK, ControlPeriod
  PROVE  TypeOK'
<1>1. shaft' \in Position
  <2>1. PICK d \in Steps : shaft' = Plus(shaft, d)
    BY DEF ControlPeriod
  <2>2. d \in Int /\ shaft \in Int
    BY ConstantsAssumption, Whole DEF TypeOK
  <2> QED
    BY <2>1, <2>2, PlusIs
<1>2. /\ reading' \in {"none", "self", "pair"} /\ pair' \in {"idle", "main", "aux"}
      /\ angle' \in Position /\ samples' \in 0..(Divider - 1)
      /\ pending' = pending
  BY <1>1, SampleType DEF ControlPeriod
<1>3. count' \in Position /\ shadow' \in Position
  <2>1. pos_abs \in Position /\ count \in Position /\ shadow \in Int
    BY Whole DEF TypeOK
  <2> QED
    BY <2>1, PhaseIs, PlusIs DEF ControlPeriod, update
<1>4. {branch', position', circular', lastShadow'} \subseteq Position /\ tracking' \in BOOLEAN
  BY <1>3, PublishType DEF ControlPeriod, update
<1>5. astray' \subseteq Causes
  BY DEF ControlPeriod, TypeOK, Causes
<1> QED
  BY <1>1, <1>2, <1>3, <1>4, <1>5 DEF ControlPeriod, TypeOK

LEMMA ResolveType ==
  ASSUME TypeOK, Resolve
  PROVE  TypeOK'
<1>1. call \in [ok : BOOLEAN, auxOk : BOOLEAN, main : Position, aux : Position]
  BY DEF TypeOK, Resolve
<1> DEFINE R == [state : States, hasLast : BOOLEAN, last : Position, turns : Position,
                 misses : 0..MaxAuxMiss]
<1>2. resolver \in R /\ 0 \in 0..MaxAuxMiss
  BY Sizes DEF TypeOK
<1>3. TakePair(call.main, call.aux) \in R
  BY <1>1, <1>2, ResolverTypes DEF TakePair, States
<1>4. TakeMainOnly(call.main) \in R
  <2>1. (resolver.misses + 1) % (MaxAuxMiss + 1) \in 0..MaxAuxMiss
    <3>1. resolver.misses + 1 \in Int /\ MaxAuxMiss + 1 \in Nat \ {0}
      BY <1>2, Sizes
    <3>2. (resolver.misses + 1) % (MaxAuxMiss + 1) \in 0..((MaxAuxMiss + 1) - 1)
      BY <3>1, Quotient
    <3>3. (MaxAuxMiss + 1) - 1 = MaxAuxMiss
      BY Sizes
    <3> QED
      BY <3>2, <3>3
  <2>2. Predicted(call.main) \in Position
    BY <1>1, ResolverTypes
  <2> QED
    BY <1>1, <1>2, <2>1, <2>2 DEF TakeMainOnly, States
<1>5. resolver' \in R
  BY <1>2, <1>3, <1>4 DEF Resolve, Update, States
<1>6. result' \in [valid : BOOLEAN, locked : BOOLEAN, unwrapped : Position]
  BY <1>5, Zero DEF Resolve, NoResult
<1>7. astray' \subseteq Causes
  BY DEF Resolve, TypeOK
<1> QED
  BY <1>5, <1>6, <1>7 DEF Resolve, TypeOK

LEMMA SpiType ==
  ASSUME TypeOK, \/ MainDone \/ \E ok \in BOOLEAN : PairMainDone(ok) \/ PairDone(ok)
  PROVE  TypeOK'
<1>1. CASE MainDone
  BY <1>1, Zero DEF MainDone, TakeSample, TypeOK
<1>2. ASSUME NEW ok \in BOOLEAN, PairMainDone(ok)
      PROVE  TypeOK'
  BY <1>2, Zero DEF PairMainDone, TypeOK, NoRead
<1>3. ASSUME NEW ok \in BOOLEAN, PairDone(ok)
      PROVE  TypeOK'
  <2>1. pending \in [ok : BOOLEAN, main : Position, aux : Position]
    BY DEF TypeOK
  <2> QED
    BY <1>3, <2>1, Zero DEF PairDone, TakeSample, TypeOK, NoRead
<1> QED
  BY <1>1, <1>2, <1>3

LEMMA ThreadType ==
  ASSUME TypeOK,
         \/ ResetEstimate \/ start_closed_loop_control \/ stop_closed_loop_control
         \/ run_offset_calibration \/ (\E c \in Counts : set_linear_count(c))
         \/ ResetBegins \/ ResetEnds
  PROVE  TypeOK'
<1>1. shadow \in Position /\ result.valid \in BOOLEAN /\ result.locked \in BOOLEAN
  BY DEF TypeOK
<1>2. CASE ResetEstimate
  <2>1. CASE result.valid
    <3>1. {branch', position', circular', lastShadow'} \subseteq Position /\ tracking' \in BOOLEAN
      BY <1>1, <1>2, <2>1, AnchorType DEF ResetEstimate, reset_vernier_output_velocity_estimate
    <3> QED
      BY <1>2, <3>1 DEF ResetEstimate, TypeOK
  <2>2. CASE ~result.valid
    BY <1>2, <2>2, Zero
    DEF ResetEstimate, reset_vernier_output_velocity_estimate, NoAnchor, TypeOK
  <2> QED
    BY <2>1, <2>2
<1>3. CASE start_closed_loop_control
  <2>1. CASE result.valid
    <3>1. {branch', position', circular', lastShadow'} \subseteq Position /\ tracking' \in BOOLEAN
      BY <1>1, <1>3, <2>1, AnchorType
      DEF start_closed_loop_control, reset_vernier_output_velocity_estimate
    <3> QED
      BY <1>1, <1>3, <3>1 DEF start_closed_loop_control, TypeOK
  <2>2. CASE ~result.valid
    BY <1>1, <1>3, <2>2, Zero
    DEF start_closed_loop_control, reset_vernier_output_velocity_estimate, NoAnchor, TypeOK
  <2> QED
    BY <2>1, <2>2
<1>4. CASE stop_closed_loop_control
  BY <1>4 DEF stop_closed_loop_control, TypeOK
<1>5. CASE run_offset_calibration
  <2>1. count \in Position
    BY DEF TypeOK
  <2>2. Main(count) \in Position
    BY <2>1, MainIs
  <2> QED
    BY <1>5, <2>2 DEF run_offset_calibration, TypeOK
<1>6. ASSUME NEW c \in Counts, set_linear_count(c)
      PROVE  TypeOK'
  <2>1. c \in Position /\ position \in Position
    BY ConstantsAssumption DEF TypeOK
  <2>2. Plus(position, -c) \in Position
    <3>1. -c \in Int
      BY <2>1, Whole
    <3> QED
      BY <2>1, <3>1, MoveIs
  <2> QED
    BY <1>6, <2>1, <2>2 DEF set_linear_count, TypeOK
<1>7. CASE ResetBegins
  BY <1>7, Zero DEF ResetBegins, TypeOK, States
<1>8. CASE ResetEnds
  <2>1. 0 \in 0..MaxAuxMiss
    BY Sizes
  <2> QED
    <3>1. resolver' \in [state : States, hasLast : BOOLEAN, last : Position,
                         turns : Position, misses : 0..MaxAuxMiss]
      BY <1>8, <2>1, Zero DEF ResetEnds, TypeOK
    <3>2. /\ {lastShadow', branch', position', circular'} \subseteq Position
          /\ tracking' \in BOOLEAN /\ resetting' \in BOOLEAN
      BY <1>8, Zero DEF ResetEnds, NoAnchor
    <3>3. UNCHANGED <<shaft, reading, angle, pair, pending, call, samples, pos_abs, result,
                      count, shadow, running>>
      BY <1>8 DEF ResetEnds
    <3>4. astray' \subseteq Causes
      BY <1>8 DEF ResetEnds, TypeOK, Causes
    <3> QED
      BY <3>1, <3>2, <3>3, <3>4 DEF TypeOK
<1> QED
  BY <1>2, <1>3, <1>4, <1>5, <1>6, <1>7, <1>8

LEMMA StepType ==
  ASSUME TypeOK, [Next]_vars
  PROVE  TypeOK'
<1>1. CASE UNCHANGED vars
  BY <1>1 DEF vars, TypeOK
<1> QED
  BY <1>1, ControlPeriodType, ResolveType, SpiType, ThreadType DEF Next

(* The sensors, the resolver, the position and the flags keep their types.            *)
THEOREM TypeCorrect == Spec => []TypeOK
<1>1. Init => TypeOK
  BY InitType
<1>2. TypeOK /\ [Next]_vars => TypeOK'
  BY StepType
<1> QED
  BY <1>1, <1>2, PTL DEF Spec

------------------------------------------------------------------------------------
(* What has been read is near to what will be read. *)

(* Two samples may come between two control periods, a pair's and one of its own: the  *)
(* count, which is the last one taken in, is near to either, and they to each other.   *)
Together ==
  /\ Near(shaft, pos_abs) /\ Near(pos_abs, count)
  /\ reading # "none" => Near(shaft, angle) /\ Near(angle, pos_abs) /\ Near(angle, count)
  /\ pending.ok =>
       /\ pair = "aux"
       /\ Near(shaft, pending.main) /\ Near(shaft, pending.aux)
       /\ Near(pending.main, pending.aux)
       /\ Near(pending.main, pos_abs) /\ Near(pending.main, count)
       /\ reading # "none" => Near(angle, pending.main)

LEMMA ShaftFollowed ==
  ASSUME TypeOK, Together, ControlPeriod
  PROVE  /\ shaft' \in Position /\ Near(shaft', pos_abs)
         /\ reading # "none" => Near(shaft', angle)
         /\ pending.ok => Near(shaft', pending.main) /\ Near(shaft', pending.aux)
         /\ shaft' = shaft \/ Followed(shaft')
<1>1. PICK d \in Steps : /\ shaft' = Plus(shaft, d)
                         /\ d # 0 => Followed(shaft')
  BY DEF ControlPeriod
<1>2. /\ d \in Int /\ shaft \in Position /\ angle \in Position /\ pos_abs \in Position
      /\ pending.main \in Position /\ pending.aux \in Position
  BY ConstantsAssumption DEF TypeOK
<1>3. shaft' \in Position
  BY <1>1, <1>2, MoveIs
<1>4. CASE d = 0
  <2>1. shaft' = shaft
    BY <1>1, <1>2, <1>4, PlusZero
  <2> QED
    BY <1>3, <2>1 DEF Together
<1>5. CASE d # 0
  BY <1>1, <1>2, <1>3, <1>5, NearIs DEF Followed
<1> QED
  BY <1>4, <1>5

LEMMA InitTogether ==
  ASSUME Init
  PROVE  Together
<1>1. shaft \in Position
  BY ConstantsAssumption DEF Init
<1> QED
  BY <1>1, NearSelf DEF Init, Together, NoRead

LEMMA TogetherStep ==
  ASSUME TypeOK, Together, [Next]_vars
  PROVE  Together'
<1>1. CASE ControlPeriod
  <2>1. /\ shaft' \in Position /\ Near(shaft', pos_abs)
        /\ reading # "none" => Near(shaft', angle)
        /\ pending.ok => Near(shaft', pending.main) /\ Near(shaft', pending.aux)
    BY <1>1, ShaftFollowed
  <2>2. pos_abs' = pos_abs /\ count' = pos_abs /\ pending' = pending /\ pos_abs \in Position
    BY <1>1 DEF ControlPeriod, update, sample_now, TypeOK
  <2>4. \/ reading' # "none" /\ angle' = shaft'
        \/ reading' = reading /\ angle' = angle
    BY <1>1 DEF ControlPeriod, sample_now
  <2>3. pair = "aux" => pair' = "aux"
    BY <1>1 DEF ControlPeriod, sample_now
  <2>5. Near(pos_abs, pos_abs) /\ Near(shaft', shaft')
    BY <2>1, <2>2, NearSelf
  <2>6. CASE reading' # "none" /\ angle' = shaft'
    BY <2>1, <2>2, <2>3, <2>5, <2>6 DEF Together
  <2>7. CASE reading' = reading /\ angle' = angle
    BY <2>1, <2>2, <2>3, <2>5, <2>7 DEF Together
  <2> QED
    BY <2>4, <2>6, <2>7
<1>2. CASE MainDone
  BY <1>2 DEF MainDone, TakeSample, Together
<1>3. ASSUME NEW ok \in BOOLEAN, PairMainDone(ok)
      PROVE  Together'
  <2>1. angle \in Position /\ shaft \in Position
    BY DEF TypeOK
  <2>2. Near(angle, shaft) /\ Near(shaft, shaft)
    BY <1>3, <2>1, NearBack, NearSelf DEF Together, PairMainDone
  <2> QED
    BY <1>3, <2>2 DEF PairMainDone, Together, NoRead
<1>4. ASSUME NEW ok \in BOOLEAN, PairDone(ok)
      PROVE  Together'
  BY <1>4 DEF PairDone, TakeSample, Together, NoRead
<1>5. CASE UNCHANGED <<shaft, sensors, pos_abs, count>>
  BY <1>5 DEF Together
<1>6. CASE \/ Resolve \/ ResetEstimate \/ start_closed_loop_control \/ stop_closed_loop_control
           \/ run_offset_calibration \/ (\E c \in Counts : set_linear_count(c))
           \/ ResetBegins \/ ResetEnds \/ UNCHANGED vars
  BY <1>5, <1>6 DEF Resolve, ResetEstimate, start_closed_loop_control,
       stop_closed_loop_control, run_offset_calibration, set_linear_count, ResetBegins,
       ResetEnds, vars
<1> QED
  BY <1>1, <1>2, <1>3, <1>4, <1>6 DEF Next

------------------------------------------------------------------------------------
(* Nothing looks like motion. *)

(* The position is rebuilt from the count and the branch it was anchored to.          *)
Anchored ==
  running /\ "started" \notin astray =>
    /\ tracking /\ lastShadow = shadow
    /\ position = Plus(branch, shadow) /\ circular = position

(* A position that is anchored where it is.                                          *)
LEMMA AnchorHolds ==
  ASSUME NEW p \in Position, NEW s \in Position
  PROVE  Plus(Plus(p, -s), s) = p
<1>1. p \in Int /\ s \in Int /\ -s \in Int
  BY Whole
<1>2. Plus(Plus(p, -s), s) = Plus(p, -s + s)
  BY <1>1, PlusPlus
<1>3. -s + s = 0
  BY <1>1
<1> QED
  BY <1>2, <1>3, PlusZero

(* What a control period does to the position while the motor is under control.      *)
LEMMA PeriodMoves ==
  ASSUME TypeOK, Together, Anchored, running, "started" \notin astray, ControlPeriod
  PROVE  /\ tracking' /\ lastShadow' = shadow' /\ position' = Plus(branch', shadow')
         /\ circular' = position'
         /\ position' = Plus(position, count' - count)
<1>1. /\ pos_abs \in Position /\ count \in Position /\ shadow \in Position
      /\ branch \in Position /\ Near(pos_abs, count)
  BY DEF TypeOK, Together
<1>2. /\ tracking /\ lastShadow = shadow /\ position = Plus(branch, shadow)
      /\ circular = position
  BY DEF Anchored
<1>3. /\ count' = pos_abs
      /\ shadow' = Plus(shadow, HalfWrap(Main(pos_abs) - Main(count), Turn))
      /\ tracking' = tracking /\ branch' = branch /\ lastShadow' = shadow'
      /\ position' = Plus(branch, shadow')
      /\ circular' = Plus(circular, shadow' - lastShadow)
  BY <1>2 DEF ControlPeriod, update, publish_vernier_output_estimate
<1> DEFINE d == pos_abs - count
<1>4. /\ shadow \in Int /\ branch \in Int /\ d \in Int /\ shadow + d \in Int
      /\ branch + shadow \in Int
  BY <1>1, Whole
<1>5. shadow' = Plus(shadow, d)
  BY <1>1, <1>3, <1>4, Counted
<1>6. position' = Plus(branch, shadow + d)
  <2>1. PICK k \in Int : shadow + d = k * Round + shadow'
    <3>1. shadow + d = ((shadow + d) \div Round) * Round + shadow' /\ (shadow + d) \div Round \in Int
      BY <1>4, <1>5, Whole, Quotient DEF Plus
    <3> QED
      BY <3>1
  <2>2. shadow' \in Int /\ branch + shadow' \in Int
    <3>1. shadow' \in Position
      BY <1>1, <1>4, <1>5, MoveIs
    <3> QED
      BY <1>4, <3>1, Whole
  <2>3. branch + (shadow + d) = (branch + shadow') + k * Round
    BY <1>4, <2>1, <2>2, Whole
  <2>4. ((branch + shadow') + k * Round) % Round = (branch + shadow') % Round
    BY <2>1, <2>2, Whole, WholeTurns
  <2> QED
    BY <1>3, <2>3, <2>4 DEF Plus
<1>7. position' = Plus(position, d)
  BY <1>2, <1>4, <1>6, PlusPlus
<1>8. circular' = position'
  <2>1. shadow' \in Int /\ shadow' - shadow \in Int
    <3>1. shadow' \in Position
      BY <1>1, <1>4, <1>5, MoveIs
    <3> QED
      BY <1>4, <3>1, Whole
  <2>2. circular' = Plus(branch, shadow + (shadow' - shadow))
    BY <1>2, <1>3, <1>4, <2>1, PlusPlus
  <2>3. shadow + (shadow' - shadow) = shadow'
    <3> DEFINE t == shadow'
    <3>1. shadow \in Int /\ t \in Int
      BY <1>4, <2>1
    <3> HIDE DEF t
    <3>2. shadow + (t - shadow) = t
      BY <3>1
    <3> QED
      BY <3>2 DEF t
  <2> QED
    BY <1>3, <2>2, <2>3
<1> QED
  BY <1>2, <1>3, <1>7, <1>8

LEMMA AnchoredStep ==
  ASSUME TypeOK, Together, Anchored, [Next]_vars
  PROVE  Anchored'
<1>1. CASE ControlPeriod
  <2>1. "started" \notin astray' => "started" \notin astray
    BY <1>1 DEF ControlPeriod
  <2> QED
    BY <1>1, <2>1, PeriodMoves DEF ControlPeriod, Anchored
<1>2. CASE ResetEstimate \/ run_offset_calibration \/ ResetBegins \/ stop_closed_loop_control
           \/ ResetEnds
  BY <1>2 DEF ResetEstimate, run_offset_calibration, ResetBegins, ResetEnds,
       stop_closed_loop_control, Anchored
<1>3. CASE start_closed_loop_control
  <2> SUFFICES ASSUME result.valid
               PROVE  Anchored'
    BY <1>3 DEF start_closed_loop_control, Anchored, TypeOK
  <2>1. result.unwrapped \in Position /\ shadow \in Position
    BY DEF TypeOK
  <2>2. /\ branch' = Plus(result.unwrapped, -shadow)
        /\ position' = result.unwrapped /\ circular' = result.unwrapped
        /\ lastShadow' = shadow /\ tracking' = TRUE /\ shadow' = shadow
    BY <1>3 DEF start_closed_loop_control, reset_vernier_output_velocity_estimate, Anchor
  <2> QED
    BY <2>1, <2>2, AnchorHolds DEF Anchored
<1>4. ASSUME NEW c \in Counts, set_linear_count(c)
      PROVE  Anchored'
  <2>1. c \in Position /\ position \in Position
    BY ConstantsAssumption DEF TypeOK
  <2>2. Plus(Plus(position, -c), c) = position
    BY <2>1, AnchorHolds
  <2> QED
    BY <1>4, <2>2 DEF set_linear_count, Anchored
<1>5. CASE UNCHANGED <<estimate, running>> /\ (astray' = astray \/ ~running)
  BY <1>5 DEF Anchored
<1>6. CASE Resolve \/ MainDone \/ (\E ok \in BOOLEAN : PairMainDone(ok) \/ PairDone(ok))
           \/ UNCHANGED vars
  BY <1>5, <1>6 DEF Resolve, MainDone, PairMainDone, PairDone, vars
<1> QED
  BY <1>1, <1>2, <1>3, <1>4, <1>6 DEF Next

Motion == TypeOK /\ Together /\ Anchored

LEMMA MotionHolds ==
  Spec => []Motion
<1>1. Init => Motion
  BY InitType, InitTogether DEF Init, Motion, Anchored
<1>2. Motion /\ [Next]_vars => Motion'
  BY StepType, TogetherStep, AnchoredStep DEF Motion
<1> QED
  BY <1>1, <1>2, PTL DEF Spec

(* Under control the position moves by what the main encoder turned and by nothing     *)
(* else, also while the resolver is lost, on a wrong turn or reset: unless the reset    *)
(* was under way when control was started.                                             *)
THEOREM NoFalseMotion == Spec => NothingLooksLikeMotion
<1>1. ASSUME Motion, [Next]_vars, running, running', "started" \notin astray'
      PROVE  /\ position' = Plus(position, count' - count)
             /\ circular' = Plus(circular, count' - count)
  <2>1. "started" \notin astray
    BY <1>1 DEF Next, vars, ControlPeriod, MainDone, PairMainDone, PairDone, Resolve,
         ResetEstimate, start_closed_loop_control, stop_closed_loop_control,
         run_offset_calibration, set_linear_count, ResetBegins, ResetEnds
  <2>2. /\ TypeOK /\ Together /\ Anchored
        /\ position \in Position /\ count \in Int /\ circular = position
    BY <1>1, <2>1, Whole DEF Motion, TypeOK, Anchored
  <2>3. CASE ControlPeriod
    BY <1>1, <2>1, <2>2, <2>3, PeriodMoves
  <2>4. CASE UNCHANGED <<position, circular, count>>
    <3>1. count' - count = 0
      BY <2>2, <2>4
    <3> QED
      BY <2>2, <2>4, <3>1, PlusZero
  <2>5. ControlPeriod \/ UNCHANGED <<position, circular, count>>
    BY <1>1 DEF Next, vars, MainDone, PairMainDone, PairDone, Resolve, ResetEstimate,
         start_closed_loop_control, stop_closed_loop_control, run_offset_calibration,
         set_linear_count, ResetBegins, ResetEnds
  <2> QED
    BY <2>3, <2>4, <2>5
<1>2. Motion /\ [Next]_vars =>
        [running /\ running' /\ "started" \notin astray' =>
           /\ position' = Plus(position, count' - count)
           /\ circular' = Plus(circular, count' - count)]_vars
  BY <1>1
<1> QED
  BY <1>2, MotionHolds, PTL DEF Spec, NothingLooksLikeMotion

------------------------------------------------------------------------------------
(* The resolver. *)

OnTrack == {"lost", "paired"} \intersect astray = {}

(* What it has been given is in the turn of the motor it was in last.                 *)
Resolving ==
  /\ OnTrack /\ resolver.hasLast =>
       /\ resolver.turns = resolver.last
       /\ SameTurn(shaft, resolver.last)
       /\ reading = "pair" => SameTurn(angle, resolver.last)
       /\ pending.ok => SameTurn(pending.main, resolver.last)
       /\ call.ok => SameTurn(call.main, resolver.last)
  /\ resolver.state \in {"LOCKED", "SUSPECT"} => resolver.hasLast
  /\ call.ok => call.main = pos_abs
  /\ call.ok /\ call.auxOk => Near(call.main, call.aux)
  /\ pair = "aux" => call = NoCall

LEMMA PredictedIs ==
  ASSUME TypeOK, NEW p \in Position, resolver.turns = resolver.last,
         SameTurn(p, resolver.last)
  PROVE  Predicted(p) = p
<1> DEFINE q == resolver.last
<1>1. q \in Position
  BY DEF TypeOK
<1>2. PICK d \in Int : 2 * d < Turn /\ -Turn < 2 * d /\ p = Plus(q, d)
  BY <1>1, SameTurnIs
<1>3. HalfWrap(Main(p) - Main(q), Turn) = d
  BY <1>1, <1>2, PhaseStep, Sizes
<1> QED
  BY <1>2, <1>3 DEF Predicted

LEMMA ResolvedIs ==
  ASSUME TypeOK, NEW p \in Position, NEW q \in Position, Near(p, q),
         resolver.hasLast => resolver.turns = resolver.last /\ SameTurn(p, resolver.last)
  PROVE  Resolved(p, q) = p
<1>1. Nonius(p, q) = p
  BY NoniusIs
<1>2. CASE ~resolver.hasLast
  BY <1>1, <1>2 DEF Resolved
<1>3. CASE resolver.hasLast
  <2>1. Predicted(p) = p
    BY <1>3, PredictedIs
  <2>2. HalfWrap(p - p, Round) = 0
    <3> DEFINE h == Round \div 2
    <3>1. h \in 0..(Round - 1) /\ p - p = 0 /\ 0 + h = h
      BY Sizes
    <3>2. h % Round = h
      <4>1. h \in (-Round)..(2 * Round - 1) /\ ~(h < 0) /\ h < Round
        BY <3>1, Whole
      <4> HIDE DEF h
      <4> QED
        BY <4>1, OneTurn, Whole
    <3>3. h - h = 0
      BY <3>1
    <3> QED
      BY <3>1, <3>2, <3>3 DEF HalfWrap
  <2>3. NearestTurn(-0) = 0
    <3>1. -0 + Turn \div 2 = Turn \div 2 /\ (Turn \div 2) \div Turn = 0
      BY Sizes
    <3> QED
      BY <3>1, Sizes DEF NearestTurn
  <2>4. Plus(p, 0) = p
    BY PlusZero
  <2>5. 0 + 0 = 0
    OBVIOUS
  <2> QED
    BY <1>1, <1>3, <2>1, <2>2, <2>3, <2>4, <2>5 DEF Resolved
<1> QED
  BY <1>2, <1>3

LEMMA ResolveExact ==
  ASSUME TypeOK, Together, Resolving, Resolve
  PROVE  Resolving'
<1>1. /\ call \in [ok : BOOLEAN, auxOk : BOOLEAN, main : Position, aux : Position]
      /\ call' = NoCall /\ pair # "aux" /\ ~pending.ok
  BY DEF TypeOK, Resolve, Resolving, Together
<1>2. /\ resolver' = Update(call)
      /\ UNCHANGED <<shaft, reading, angle, pair, pending, pos_abs>>
      /\ ~NoCall.ok
  BY DEF Resolve, NoCall
<1>3. resolver \in [state : States, hasLast : BOOLEAN, last : Position, turns : Position,
                    misses : 0..MaxAuxMiss]
  BY DEF TypeOK
<1>0. OnTrack' => OnTrack \/ ~resolver.hasLast
  BY DEF Resolve, OnTrack
<1> DEFINE p == call.main
<1>4. CASE ~call.ok
  <2>1. resolver' = [resolver EXCEPT !.state = "LOST", !.misses = 0]
    BY <1>2, <1>4 DEF Update
  <2>2. /\ resolver'.hasLast = resolver.hasLast /\ resolver'.last = resolver.last
        /\ resolver'.turns = resolver.turns /\ resolver'.state = "LOST"
    BY <1>3, <2>1
  <2> QED
    BY <1>0, <1>1, <1>2, <2>2 DEF Resolving
<1>5. ASSUME call.ok, resolver'.hasLast, resolver'.last = p,
             OnTrack' => resolver'.turns = p
      PROVE  Resolving'
  <2>1. /\ p = pos_abs /\ Near(shaft, p) /\ (reading = "pair" => Near(angle, p))
        /\ p \in Position /\ shaft \in Position /\ angle \in Position
    BY <1>5 DEF Resolving, Together, TypeOK
  <2>2. SameTurn(shaft, p) /\ (reading = "pair" => SameTurn(angle, p))
    BY <2>1, NearSameTurn
  <2> QED
    BY <1>1, <1>2, <1>5, <2>2 DEF Resolving
<1>6. CASE call.ok /\ call.auxOk
  <2>1. OnTrack' => Resolved(p, call.aux) = p
    BY <1>0, <1>1, <1>6, ResolvedIs DEF Resolving
  <2>2. resolver' = TakePair(p, call.aux)
    BY <1>2, <1>6 DEF Update
  <2> QED
    BY <1>5, <1>6, <2>1, <2>2 DEF TakePair
<1>7. CASE call.ok /\ ~call.auxOk
  <2>1. resolver' = TakeMainOnly(p)
    BY <1>2, <1>7 DEF Update
  <2>2. CASE resolver.state \in {"LOCKED", "SUSPECT"}
    <3>1. OnTrack' => Predicted(p) = p
      BY <1>0, <1>1, <1>7, <2>2, PredictedIs DEF Resolving
    <3> QED
      BY <1>5, <1>7, <2>1, <2>2, <3>1 DEF TakeMainOnly
  <2>3. CASE resolver.state \notin {"LOCKED", "SUSPECT"}
    <3>1. resolver' = resolver
      BY <2>1, <2>3 DEF TakeMainOnly
    <3> QED
      BY <1>0, <1>1, <1>2, <3>1 DEF Resolving
  <2> QED
    BY <2>2, <2>3
<1> QED
  BY <1>1, <1>4, <1>6, <1>7

LEMMA ResolvingStep ==
  ASSUME TypeOK, Together, Resolving, [Next]_vars
  PROVE  Resolving'
<1>1. CASE ControlPeriod
  <2>1. /\ shaft' \in Position
        /\ shaft' = shaft \/ Followed(shaft')
    BY <1>1, ShaftFollowed
  <2>2. OnTrack' => OnTrack /\ ~Strays(shaft')
    BY <1>1 DEF ControlPeriod, OnTrack
  <2>4. OnTrack' /\ resolver.hasLast => SameTurn(shaft', resolver.last)
    BY <2>1, <2>2 DEF Followed, Strays, Resolving, TypeOK, States
  <2>3. /\ UNCHANGED <<resolver, call, pending, pos_abs>>
        /\ pair' = "aux" => pair = "aux"
        /\ reading' = "pair" => angle' = shaft' \/ (reading = "pair" /\ angle' = angle)
    BY <1>1 DEF ControlPeriod, sample_now
  <2> QED
    BY <2>2, <2>3, <2>4 DEF Resolving
<1>2. CASE Resolve
  BY <1>2, ResolveExact
<1>3. CASE MainDone
  BY <1>3 DEF MainDone, SpiContext, NoCall, Resolving, OnTrack
<1>4. ASSUME NEW ok \in BOOLEAN, PairMainDone(ok)
      PROVE  Resolving'
  BY <1>4 DEF PairMainDone, SpiContext, NoRead, Resolving, OnTrack
<1>5. ASSUME NEW ok \in BOOLEAN, PairDone(ok)
      PROVE  Resolving'
  BY <1>5 DEF PairDone, TakeSample, NoRead, Resolving, OnTrack, Together
<1>6. CASE ResetBegins
  <2>1. resolver'.hasLast = FALSE /\ resolver'.state = "LOST"
    BY <1>6 DEF ResetBegins, TypeOK
  <2> QED
    BY <1>6, <2>1 DEF ResetBegins, ThreadContext, NoCall, Resolving, OnTrack
<1>7. CASE ResetEnds
  <2>1. /\ resolver'.hasLast = resolver.hasLast /\ resolver'.state = resolver.state
        /\ OnTrack' => ~resolver.hasLast
    BY <1>7 DEF ResetEnds, OnTrack, TypeOK
  <2> QED
    BY <1>7, <2>1 DEF ResetEnds, Resolving
<1>8. CASE UNCHANGED <<shaft, sensors, call, pos_abs, resolver, OnTrack>>
  BY <1>8 DEF Resolving
<1>9. CASE \/ ResetEstimate \/ start_closed_loop_control \/ stop_closed_loop_control
           \/ run_offset_calibration \/ (\E c \in Counts : set_linear_count(c))
           \/ UNCHANGED vars
  BY <1>8, <1>9 DEF ResetEstimate, start_closed_loop_control, stop_closed_loop_control,
       run_offset_calibration, set_linear_count, vars, OnTrack
<1> QED
  BY <1>1, <1>2, <1>3, <1>4, <1>5, <1>6, <1>7, <1>9 DEF Next

(* The first pair, the pairs after it and what goes on without the auxiliary encoder    *)
(* all resolve to where the main encoder was read, for every pair of ratios, until a    *)
(* resolver that has given up is taken out of its turn or a reset is met by a pair; and *)
(* again from the first pair after a whole reset.                                      *)
THEOREM ResolverExact == Spec => []ResolverIsExact
<1>1. Init => Resolving
  BY DEF Init, Resolving, NoRead, NoCall
<1>2. Motion /\ Resolving /\ [Next]_vars => Resolving'
  BY ResolvingStep DEF Motion
<1>3. Resolving => ResolverIsExact
  BY DEF Resolving, ResolverIsExact, OnTrack
<1> QED
  BY <1>1, <1>2, <1>3, MotionHolds, PTL DEF Spec

------------------------------------------------------------------------------------
(* The position at a start. *)

(* p is at most k times as far from q as the shaft turns between two samples.         *)
Within(p, q, k) ==
  \E e \in Int : -(k * MaxTravel) <= e /\ e <= k * MaxTravel /\ p = Plus(q, e)

LEMMA WithinSelf ==
  ASSUME NEW p \in Position, NEW k \in Nat
  PROVE  Within(p, p, k)
<1>1. k * MaxTravel \in Nat
  BY Sizes
<1> DEFINE b == k * MaxTravel
<1> HIDE DEF b
<1>2. -b <= 0 /\ 0 <= b
  BY <1>1 DEF b
<1>3. p = Plus(p, 0)
  BY PlusZero
<1> QED
  BY <1>2, <1>3 DEF Within, b

LEMMA WithinMore ==
  ASSUME NEW p, NEW q, NEW j \in Nat, NEW k \in Nat, j <= k, Within(p, q, j)
  PROVE  Within(p, q, k)
<1> DEFINE a == j * MaxTravel
           b == k * MaxTravel
<1>1. a \in Nat /\ b \in Nat /\ a <= b
  BY Sizes
<1> HIDE DEF a, b
<1>2. PICK e \in Int : -a <= e /\ e <= a /\ p = Plus(q, e)
  BY DEF Within, a
<1>3. -b <= e /\ e <= b
  BY <1>1, <1>2
<1> QED
  BY <1>2, <1>3 DEF Within, b

(* One more sample.                                                                   *)
LEMMA WithinNear ==
  ASSUME NEW p \in Position, NEW q \in Position, NEW r \in Position, NEW k \in Nat,
         Within(p, q, k), Near(r, p)
  PROVE  Within(r, q, k + 1)
<1> DEFINE a == k * MaxTravel
           b == (k + 1) * MaxTravel
           d == Way(r, p)
<1>1. a \in Nat /\ b = a + MaxTravel /\ MaxTravel \in Nat
  BY Sizes
<1>2. d \in Int /\ d \in (-MaxTravel)..MaxTravel /\ r = Plus(p, d)
  BY WayIs
<1> HIDE DEF a, b, d
<1>3. PICK e \in Int : -a <= e /\ e <= a /\ p = Plus(q, e)
  BY DEF Within, a
<1>4. r = Plus(q, e + d)
  <2>1. q \in Int
    BY Whole
  <2> QED
    BY <1>2, <1>3, <2>1, PlusPlus
<1>5. e + d \in Int /\ -b <= e + d /\ e + d <= b
  BY <1>1, <1>2, <1>3
<1> QED
  BY <1>4, <1>5 DEF Within, b

LEMMA WithinBack ==
  ASSUME NEW p \in Position, NEW q \in Position, NEW k \in Nat, Within(p, q, k)
  PROVE  Within(q, p, k)
<1> DEFINE a == k * MaxTravel
<1>1. a \in Nat
  BY Sizes
<1> HIDE DEF a
<1>2. PICK e \in Int : -a <= e /\ e <= a /\ p = Plus(q, e)
  BY DEF Within, a
<1>3. q \in Int /\ -e \in Int /\ e + (-e) = 0
  BY <1>2, Whole
<1>4. Plus(p, -e) = q
  BY <1>2, <1>3, PlusPlus, PlusZero
<1>5. -a <= -e /\ -e <= a
  BY <1>1, <1>2
<1> QED
  BY <1>3, <1>4, <1>5 DEF Within, a

(* What moves by the same stays as far apart.                                         *)
LEMMA WithinMoves ==
  ASSUME NEW p \in Position, NEW q \in Position, NEW k \in Nat, Within(p, q, k),
         NEW d \in Int
  PROVE  Within(Plus(p, d), Plus(q, d), k)
<1>1. PICK e \in Int : -(k * MaxTravel) <= e /\ e <= k * MaxTravel /\ p = Plus(q, e)
  BY DEF Within
<1>2. q \in Int /\ e + d = d + e
  BY Whole
<1>3. Plus(p, d) = Plus(Plus(q, d), e)
  BY <1>1, <1>2, PlusPlus
<1> QED
  BY <1>1, <1>3 DEF Within

LEMMA WithinApart ==
  ASSUME NEW p \in Position, NEW q \in Position, NEW k \in Nat, Within(p, q, k),
         2 * (k * MaxTravel) < Turn
  PROVE  2 * Apart(p, q) < Turn
<1> DEFINE a == k * MaxTravel
           h == Round \div 2
<1>1. a \in Nat /\ 2 * a < Turn
  BY Sizes
<1>2. h \in Nat /\ 2 * h <= Round /\ Round <= 2 * h + 1
  BY Sizes
<1> HIDE DEF a, h
<1>3. PICK e \in Int : -a <= e /\ e <= a /\ p = Plus(q, e)
  BY DEF Within, a
<1>4. q \in Int /\ p \in Int /\ q + e \in Int
  BY Whole
<1>5. PICK i \in Int : q + e = i * Round + p
  BY <1>3, <1>4, Whole, Quotient DEF Plus
<1>6. p - q + h = (e + h) + (-i) * Round
  BY <1>2, <1>4, <1>5, Whole
<1>7. e + h \in 0..(Round - 1)
  BY <1>1, <1>2, <1>3, Sizes
<1>8. (p - q + h) % Round = e + h
  <2>1. ((e + h) + (-i) * Round) % Round = (e + h) % Round
    <3>1. -i \in Int /\ e + h \in Int
      BY <1>7
    <3> QED
      BY <3>1, Whole, WholeTurns
  <2>2. (e + h) % Round = e + h
    <3> DEFINE x == e + h
    <3>1. x \in (-Round)..(2 * Round - 1) /\ ~(x < 0) /\ x < Round
      BY <1>2, <1>3, <1>7, Whole
    <3> HIDE DEF x
    <3>2. x % Round = x
      BY <3>1, Whole, OneTurn
    <3> QED
      BY <3>2 DEF x
  <2> QED
    BY <1>6, <2>1, <2>2
<1>9. HalfWrap(p - q, Round) = e
  BY <1>2, <1>8 DEF HalfWrap, h
<1>10. Apart(p, q) = IF e < 0 THEN -e ELSE e
  BY <1>9 DEF Apart
<1> QED
  BY <1>1, <1>3, <1>10, Sizes

(* How many samples of its own the main encoder may have given since the last pair    *)
(* was begun; while a pair is being read none is taken in.                            *)
Used == (IF samples = 0 THEN Divider ELSE samples) - 1

Lag == IF pair = "idle" THEN Used ELSE Divider - 1

Late == IF Divider > 3 THEN Divider - 1 ELSE 2

Sampling ==
  /\ reading = "pair" <=> pair = "main"
  /\ reading = "self" => Used >= 1
  /\ Near(shaft, count)

(* The pair a result is from may be old, even resolved before a reset; but samples    *)
(* that are not pairs come one by one, until the next pair is due, and then none do.  *)
Kept ==
  OnTrack /\ result.valid /\ result.locked /\ call = NoCall =>
    /\ Within(pos_abs, result.unwrapped, Lag)
    /\ pair = "idle" /\ reading = "self" => Within(angle, result.unwrapped, Lag)
    /\ Within(count, result.unwrapped, Late)

Placed == running /\ astray = {} => Within(position, count, Late)

LEMMA Counters ==
  ASSUME TypeOK
  PROVE  /\ Used \in Nat /\ Used <= Divider - 1
         /\ Lag \in Nat /\ Used <= Lag /\ Lag <= Divider - 1
         /\ Late \in Nat /\ 2 <= Late /\ Divider - 1 <= Late
<1>1. samples \in 0..(Divider - 1) /\ Divider \in Nat \ {0}
  BY Sizes DEF TypeOK
<1>2. Used \in Nat /\ Used <= Divider - 1
  BY <1>1 DEF Used
<1> QED
  BY <1>1, <1>2 DEF Lag, Late

(* The samples are counted: where no pair is needed, one more has been used.          *)
LEMMA OneMore ==
  ASSUME TypeOK, samples # 0, samples' = (samples + 1) % Divider
  PROVE  Used' = Used + 1
<1>1. samples \in 0..(Divider - 1) /\ Divider \in Nat \ {0}
  BY Sizes DEF TypeOK
<1>2. (samples + 1) % Divider = IF samples + 1 < Divider THEN samples + 1 ELSE 0
  <2> DEFINE x == samples + 1
  <2>1. /\ x \in (-Divider)..(2 * Divider - 1)
        /\ ~(x < 0) /\ (x < Divider \/ x - Divider = 0)
    BY <1>1
  <2> HIDE DEF x
  <2>2. x % Divider = IF x < Divider THEN x ELSE 0
    BY <1>1, <2>1, OneTurn
  <2> QED
    BY <2>2 DEF x
<1> QED
  BY <1>1, <1>2 DEF Used

LEMMA SamplingStep ==
  ASSUME TypeOK, Together, Sampling, [Next]_vars
  PROVE  Sampling'
<1>1. CASE ControlPeriod
  <2>1. Near(shaft', count')
    BY <1>1, ShaftFollowed DEF ControlPeriod, update
  <2>2. CASE UNCHANGED <<reading, pair, samples>>
    BY <2>1, <2>2 DEF Sampling, Used
  <2>3. CASE reading' = "pair" /\ pair' = "main"
    BY <2>1, <2>3 DEF Sampling
  <2>4. CASE /\ samples # 0 /\ samples' = (samples + 1) % Divider /\ pair' = pair
             /\ (reading = "none" /\ reading' = "self") \/ reading' = reading
    <3>1. Used' = Used + 1 /\ Used \in Nat
      BY <2>4, OneMore, Counters
    <3> QED
      BY <2>1, <2>4, <3>1 DEF Sampling
  <2> QED
    BY <1>1, <2>2, <2>3, <2>4 DEF ControlPeriod, sample_now
<1>2. CASE MainDone
  BY <1>2 DEF MainDone, Sampling, Used
<1>3. ASSUME NEW ok \in BOOLEAN, PairMainDone(ok)
      PROVE  Sampling'
  BY <1>3 DEF PairMainDone, Sampling, Used
<1>4. ASSUME NEW ok \in BOOLEAN, PairDone(ok)
      PROVE  Sampling'
  BY <1>4 DEF PairDone, Sampling, Used
<1>5. CASE UNCHANGED <<shaft, sensors, samples, count>>
  BY <1>5 DEF Sampling, Used
<1>6. CASE \/ Resolve \/ ResetEstimate \/ start_closed_loop_control \/ stop_closed_loop_control
           \/ run_offset_calibration \/ (\E c \in Counts : set_linear_count(c))
           \/ ResetBegins \/ ResetEnds \/ UNCHANGED vars
  BY <1>5, <1>6 DEF Resolve, ResetEstimate, start_closed_loop_control,
       stop_closed_loop_control, run_offset_calibration, set_linear_count, ResetBegins,
       ResetEnds, vars
<1> QED
  BY <1>1, <1>2, <1>3, <1>4, <1>6 DEF Next

LEMMA PeriodKeeps ==
  ASSUME TypeOK, Together, Kept, ControlPeriod,
         OnTrack, result.valid, result.locked, call = NoCall
  PROVE  /\ Within(pos_abs, result.unwrapped, Lag')
         /\ pair' = "idle" /\ reading' = "self" => Within(angle', result.unwrapped, Lag')
         /\ Within(pos_abs, result.unwrapped, Late)
<1> DEFINE L == result.unwrapped
<1>1. /\ L \in Position /\ pos_abs \in Position /\ angle \in Position /\ shaft' \in Position
      /\ Near(shaft', pos_abs)
  BY ShaftFollowed DEF TypeOK
<1>2. /\ Used \in Nat /\ Lag \in Nat /\ Lag <= Divider - 1 /\ Divider - 1 <= Late
      /\ Late \in Nat /\ Divider - 1 \in Nat
  BY Counters, Sizes
<1>3. /\ Within(pos_abs, L, Lag)
      /\ pair = "idle" /\ reading = "self" => Within(angle, L, Lag)
  BY DEF Kept
<1>4. Within(pos_abs, L, Late)
  <2> HIDE DEF L
  <2> QED
    BY <1>2, <1>3, WithinMore
<1>5. CASE UNCHANGED <<sensors, samples>>
  BY <1>3, <1>4, <1>5 DEF Lag, Used
<1>6. CASE samples = 0 /\ pair = "idle" /\ pair' = "main"
  <2>1. Lag = Divider - 1 /\ Lag' = Divider - 1
    BY <1>6 DEF Lag, Used
  <2> QED
    BY <1>3, <1>4, <1>6, <2>1
<1>7. CASE /\ samples # 0 /\ samples' = (samples + 1) % Divider /\ pair' = pair
           /\ (reading' = "self" /\ angle' = shaft') \/ UNCHANGED <<reading, angle>>
  <2>1. Used' = Used + 1
    BY <1>7, OneMore
  <2>2. CASE pair # "idle"
    <3>1. Lag' = Lag
      BY <1>7, <2>2 DEF Lag
    <3> QED
      BY <1>3, <1>4, <1>7, <2>2, <3>1
  <2>3. CASE pair = "idle"
    <3>1. Lag' = Lag + 1
      BY <1>7, <2>1, <2>3 DEF Lag
    <3> HIDE DEF L
    <3>2. Within(shaft', L, Lag + 1)
      BY <1>1, <1>2, <1>3, WithinNear
    <3>3. Within(pos_abs, L, Lag + 1)
      BY <1>2, <1>3, WithinMore
    <3>4. reading = "self" => Within(angle, L, Lag + 1)
      BY <1>2, <1>3, <2>3, WithinMore
    <3> QED
      BY <1>4, <1>7, <3>1, <3>2, <3>3, <3>4 DEF L
  <2> QED
    BY <2>2, <2>3
<1> QED
  BY <1>5, <1>6, <1>7 DEF ControlPeriod, sample_now

(* A pair that locks tells where the main encoder was read, which is what the control *)
(* loop will take in.                                                                  *)
LEMMA LockedIs ==
  ASSUME TypeOK, Together, Resolving, Resolve, result'.locked, OnTrack'
  PROVE  result'.unwrapped = pos_abs
<1>1. call \in [ok : BOOLEAN, auxOk : BOOLEAN, main : Position, aux : Position]
  BY DEF TypeOK, Resolve
<1>2. /\ resolver' = Update(call)
      /\ resolver'.state = "LOCKED" /\ result'.unwrapped = resolver'.turns
  BY DEF Resolve, NoResult
<1>3. call.ok /\ call.auxOk
  <2>1. CASE ~call.ok
    <3>1. resolver' = [resolver EXCEPT !.state = "LOST", !.misses = 0]
      BY <1>2, <2>1 DEF Update
    <3> QED
      BY <1>2, <3>1 DEF TypeOK
  <2>2. CASE call.ok /\ ~call.auxOk
    <3>1. resolver' = TakeMainOnly(call.main)
      BY <1>2, <2>2 DEF Update
    <3> QED
      BY <1>2, <3>1 DEF TakeMainOnly
  <2> QED
    BY <1>1, <2>1, <2>2
<1>4. OnTrack \/ ~resolver.hasLast
  BY DEF Resolve, OnTrack
<1>5. Resolved(call.main, call.aux) = call.main
  BY <1>1, <1>3, <1>4, ResolvedIs DEF Resolving
<1> QED
  BY <1>2, <1>3, <1>5 DEF Update, TakePair, Resolving

LEMMA ResolveKeeps ==
  ASSUME TypeOK, Together, Resolving, Sampling, Resolve, result'.locked, OnTrack'
  PROVE  Kept'
<1> DEFINE L == pos_abs
<1>1. /\ L \in Position /\ angle \in Position /\ shaft \in Position /\ count \in Position
      /\ Near(shaft, L) /\ Near(shaft, count) /\ (reading # "none" => Near(angle, L))
  BY DEF TypeOK, Together, Sampling
<1>2. /\ result'.unwrapped = L /\ Lag' = Lag /\ Late' = Late
      /\ UNCHANGED <<pos_abs, angle, count, pair, reading>>
  BY LockedIs DEF Resolve, Lag, Used, Late
<1>3. Lag \in Nat /\ Used \in Nat /\ Used <= Lag /\ Late \in Nat /\ 2 <= Late
  BY Counters
<1>4. Within(L, L, Lag) /\ Within(L, L, 0)
  BY <1>1, <1>3, WithinSelf
<1>5. reading = "self" => Within(angle, L, Lag)
  <2> SUFFICES ASSUME reading = "self"
               PROVE  Within(angle, L, Lag)
    OBVIOUS
  <2>1. Near(angle, L) /\ 1 <= Lag
    BY <1>1, <1>3 DEF Sampling
  <2>2. Within(angle, L, 0 + 1)
    BY <1>1, <1>4, <2>1, WithinNear
  <2> QED
    BY <1>3, <2>1, <2>2, WithinMore
<1>6. Within(count, L, Late)
  <2>1. Within(shaft, L, 0 + 1)
    BY <1>1, <1>4, WithinNear
  <2>2. Near(count, shaft)
    BY <1>1, NearBack
  <2>3. Within(count, L, 1 + 1)
    BY <1>1, <2>1, <2>2, WithinNear
  <2> QED
    BY <1>3, <2>3, WithinMore
<1> QED
  BY <1>2, <1>4, <1>5, <1>6 DEF Kept

LEMMA KeptStep ==
  ASSUME TypeOK, Together, Resolving, Sampling, Kept, [Next]_vars
  PROVE  Kept'
<1>0. Late' = Late
  BY DEF Late
<1>1. CASE ControlPeriod
  <2>1. UNCHANGED <<result, call, pos_abs>> /\ count' = pos_abs /\ (OnTrack' => OnTrack)
    BY <1>1 DEF ControlPeriod, update, OnTrack
  <2> QED
    BY <1>0, <1>1, <2>1, PeriodKeeps DEF Kept
<1>2. CASE MainDone
  <2>1. /\ UNCHANGED <<result, call, pair, samples, count>> /\ reading = "self" /\ pair = "idle"
        /\ reading' = "none" /\ pos_abs' \in {pos_abs, angle} /\ OnTrack' = OnTrack
    BY <1>2 DEF MainDone, TakeSample, Sampling, TypeOK, OnTrack
  <2> QED
    BY <1>0, <2>1 DEF Kept, Lag, Used
<1>3. ASSUME NEW ok \in BOOLEAN, PairMainDone(ok)
      PROVE  Kept'
  <2>1. /\ UNCHANGED <<result, call, pos_abs, count, OnTrack>>
        /\ pair = "main" /\ pair' = "aux"
    BY <1>3 DEF PairMainDone, Sampling, OnTrack
  <2> QED
    BY <1>0, <2>1 DEF Kept, Lag
<1>4. ASSUME NEW ok \in BOOLEAN, PairDone(ok)
      PROVE  Kept'
  <2>1. pending.main \in Nat
    BY Whole DEF TypeOK
  <2>2. call'.main = pending.main /\ NoCall.main = -1
    BY <1>4 DEF PairDone, NoCall
  <2> QED
    BY <2>1, <2>2 DEF Kept
<1>5. CASE Resolve
  <2>1. CASE result'.locked /\ OnTrack'
    BY <1>5, <2>1, ResolveKeeps
  <2>2. CASE ~(result'.locked /\ OnTrack')
    BY <2>2 DEF Kept
  <2> QED
    BY <2>1, <2>2
<1>6. CASE UNCHANGED <<sensors, call, samples, pos_abs, result, count>> /\ (OnTrack' => OnTrack)
  BY <1>0, <1>6 DEF Kept, Lag, Used
<1>7. CASE \/ ResetEstimate \/ start_closed_loop_control \/ stop_closed_loop_control
           \/ run_offset_calibration \/ (\E c \in Counts : set_linear_count(c))
           \/ ResetBegins \/ ResetEnds \/ UNCHANGED vars
  BY <1>6, <1>7 DEF ResetEstimate, start_closed_loop_control, stop_closed_loop_control,
       run_offset_calibration, set_linear_count, ResetBegins, ResetEnds, vars,
       OnTrack
<1> QED
  BY <1>1, <1>2, <1>3, <1>4, <1>5, <1>7 DEF Next

LEMMA PlacedStep ==
  ASSUME TypeOK, Together, Anchored, Kept, Placed, [Next]_vars
  PROVE  Placed'
<1>0. Late' = Late /\ Late \in Nat /\ position \in Position /\ count \in Position
  BY Counters DEF Late, TypeOK
<1>1. CASE start_closed_loop_control
  <2> SUFFICES ASSUME result.valid, result.locked, astray = {}
               PROVE  Placed'
    BY <1>1 DEF start_closed_loop_control, Placed, TypeOK
  <2>1. position' = result.unwrapped /\ count' = count /\ result.unwrapped \in Position
    BY <1>1 DEF start_closed_loop_control, reset_vernier_output_velocity_estimate, Anchor, TypeOK
  <2>2. Within(count, result.unwrapped, Late)
    BY <1>1 DEF start_closed_loop_control, ThreadContext, Kept, OnTrack
  <2>3. Within(result.unwrapped, count, Late)
    BY <1>0, <2>1, <2>2, WithinBack
  <2> QED
    BY <1>0, <2>1, <2>3 DEF Placed
<1>2. CASE ControlPeriod
  <2> SUFFICES ASSUME running, astray = {}
               PROVE  Placed'
    BY <1>2 DEF ControlPeriod, Placed
  <2> DEFINE d == pos_abs - count
  <2>1. count' = pos_abs /\ pos_abs \in Position
    BY <1>2 DEF ControlPeriod, update, TypeOK
  <2>2. d \in Int /\ count \in Int /\ pos_abs \in Int /\ count + d = pos_abs + 0
    BY <1>0, <2>1, Whole
  <2>3. Plus(count, d) = pos_abs
    BY <2>1, <2>2, PlusZero DEF Plus
  <2>4. position' = Plus(position, d)
    BY <1>2, <2>1, PeriodMoves
  <2> HIDE DEF d
  <2>5. Within(Plus(position, d), Plus(count, d), Late)
    BY <1>0, <2>2, WithinMoves DEF Placed
  <2> QED
    BY <1>0, <2>1, <2>3, <2>4, <2>5 DEF Placed
<1>3. CASE UNCHANGED <<position, count, running>> /\ (astray' = {} => astray = {} \/ ~running)
  BY <1>0, <1>3 DEF Placed
<1>4. CASE ~running' \/ astray' # {}
  BY <1>4 DEF Placed
<1>5. CASE \/ MainDone \/ (\E ok \in BOOLEAN : PairMainDone(ok) \/ PairDone(ok)) \/ Resolve
           \/ ResetEstimate \/ stop_closed_loop_control \/ run_offset_calibration
           \/ (\E c \in Counts : set_linear_count(c))
           \/ ResetBegins \/ ResetEnds \/ UNCHANGED vars
  <2>1. \/ UNCHANGED <<position, count, running>> /\ (astray' = {} => astray = {} \/ ~running)
        \/ ~running' \/ astray' # {}
    BY <1>5 DEF MainDone, PairMainDone, PairDone, Resolve, ResetEstimate,
         stop_closed_loop_control, run_offset_calibration, set_linear_count, ResetBegins,
         ResetEnds, vars
  <2> QED
    BY <1>3, <1>4, <2>1
<1> QED
  BY <1>1, <1>2, <1>5 DEF Next

LEMMA LateIs ==
  ASSUME Ratio > 2, Divider <= Ratio
  PROVE  2 * (Late * MaxTravel) < Turn
<1>1. /\ Ratio \in Nat /\ Divider \in Nat /\ MaxTravel \in Nat /\ Turn \in Nat
      /\ 2 * (MaxTravel * (Ratio - 1)) < Turn
  BY Sizes
<1>2. Late \in Nat /\ Late <= Ratio - 1
  BY <1>1, Sizes DEF Late
<1>3. Late * MaxTravel <= MaxTravel * (Ratio - 1) /\ Late * MaxTravel \in Nat
      /\ MaxTravel * (Ratio - 1) \in Nat
  BY <1>1, <1>2
<1> DEFINE a == Late * MaxTravel
           b == MaxTravel * (Ratio - 1)
<1> HIDE DEF a, b
<1>4. a \in Nat /\ b \in Nat /\ a <= b /\ 2 * b < Turn
  BY <1>1, <1>3 DEF a, b
<1>5. 2 * a < Turn
  BY <1>1, <1>4
<1> QED
  BY <1>5 DEF a

(* A motor that was not led astray is told the turn it is really in, however old the   *)
(* pair is that its position was anchored to, and after any whole reset: if pairs come  *)
(* at least as often as one sample in Ratio, which the production profile keeps with    *)
(* 25 and 42.                                                                          *)
THEOREM TrueTurn ==
  ASSUME Ratio > 2, Divider <= Ratio
  PROVE  Spec => []PositionIsAbsolute
<1> DEFINE Inv == Motion /\ Resolving /\ Sampling /\ Kept /\ Placed
<1>1. Init => Inv
  <2> SUFFICES ASSUME Init
               PROVE  Inv
    OBVIOUS
  <2>1. TypeOK /\ Together
    BY InitType, InitTogether
  <2>2. Motion /\ Resolving
    BY <2>1 DEF Init, Motion, Anchored, Resolving, NoRead, NoCall
  <2>3. Sampling /\ Kept /\ Placed
    BY <2>1, NearSelf DEF Init, Sampling, Kept, Placed, NoResult, TypeOK
  <2> QED
    BY <2>2, <2>3
<1>2. Inv /\ [Next]_vars => Inv'
  <2> SUFFICES ASSUME Inv, [Next]_vars
               PROVE  Inv'
    OBVIOUS
  <2>1. Motion'
    BY StepType, TogetherStep, AnchoredStep DEF Motion
  <2>2. Resolving' /\ Sampling' /\ Kept' /\ Placed'
    BY ResolvingStep, SamplingStep, KeptStep, PlacedStep DEF Motion
  <2> QED
    BY <2>1, <2>2
<1>3. Inv => PositionIsAbsolute
  <2> SUFFICES ASSUME Inv
               PROVE  PositionIsAbsolute
    OBVIOUS
  <2>1. TypeOK /\ ResolverIsExact
    BY DEF Motion, Resolving, ResolverIsExact, OnTrack
  <2>2. ASSUME running, astray = {}
        PROVE  SameTurn(position, count) /\ circular = position
    <3>1. Within(position, count, Late) /\ circular = position
      BY <2>2 DEF Motion, Anchored, Placed
    <3>2. position \in Position /\ count \in Position /\ Late \in Nat
      BY <2>1, Counters DEF TypeOK
    <3>3. 2 * Apart(position, count) < Turn
      BY <3>1, <3>2, LateIs, WithinApart
    <3> QED
      BY <3>1, <3>3 DEF SameTurn
  <2> QED
    BY <2>1, <2>2 DEF PositionIsAbsolute
<1> QED
  BY <1>1, <1>2, <1>3, PTL DEF Spec
====================================================================================
