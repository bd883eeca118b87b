------------------------------- MODULE NvmStoreProofs -------------------------------
(* The flash log is one durable configuration that a save replaces atomically, for *)
(* every size of sectors and records, width of the sequence numbers and number of  *)
(* saves, as long as nothing interrupts the retirement of an old record. The proof *)
(* follows the shape of a sector: the fields below its frontier have been used, and *)
(* it is live if a record ends at the frontier.                                    *)
EXTENDS NvmStore, TLAPS

------------------------------------------------------------------------------------
(* Sectors *)

States == {Valid, Invalid, Erased}
Chunks == {Chunk(c, i) : c \in Configs, i \in 1..PayloadFields}
Seals == {Unsealed} \union {Record(c) : c \in Configs}
Headers == {Header(s, p) : s \in 0..(SeqModulus - 1), p \in Seals}
Contents == {Blank} \union Chunks \union Headers
SectorType == [alloc : [Fields -> States], cell : [Fields -> Contents]]
RamType == [index : [Sectors -> 0..N], readSector : Sectors, hasHeader : BOOLEAN,
            readStart : 0..N, readFields : 0..N, sequence : 0..(SeqModulus - 1)]

Front(sector, e) == e \in 0..N /\ \A f \in Fields : sector.alloc[f] = Erased <=> f >= e
Dead(sector) ==
  \E e \in 0..N : Front(sector, e) /\ (e > 0 => sector.alloc[e - 1] # Valid)
Live(sector, c, header, first, fields, seq) ==
  /\ Front(sector, first + fields)
  /\ \A f \in first..(first + fields - 1) : sector.alloc[f] = Valid
  /\ first > 0 => sector.alloc[first - 1] # Valid
  /\ header => /\ fields = RecordFields
               /\ sector.cell[first] = Header(seq, Record(c))
               /\ PayloadAt(sector, first + 1) = Record(c)
  /\ ~header => /\ fields = PayloadFields /\ seq = 0
                /\ PayloadAt(sector, first) = Record(c)

LEMMA Sizes ==
  /\ N \in Nat /\ PayloadFields \in Nat /\ PayloadFields > 0
  /\ RecordFields = PayloadFields + 1 /\ RecordFields <= N
  /\ SeqModulus \in Nat /\ SeqModulus >= 4
BY NvmAssumption DEF RecordFields

LEMMA ScanIs ==
  ASSUME NEW sector, NEW max \in Nat, NEW ref, NEW i \in 0..max,
         \A f \in i..(max - 1) : sector.alloc[f] = ref,
         i > 0 => sector.alloc[i - 1] # ref
  PROVE  Scan(sector, max, ref) = i
<1> DEFINE P(j) == /\ \A f \in j..(max - 1) : sector.alloc[f] = ref
                   /\ j > 0 => sector.alloc[j - 1] # ref
<1>1. P(i)
  OBVIOUS
<1>2. ASSUME NEW j \in 0..max, P(j)
      PROVE  j = i
  <2>1. CASE j < i
    <3>1. i - 1 \in j..(max - 1)
      BY <2>1
    <3> QED
      BY <1>2, <2>1, <3>1
  <2>2. CASE i < j
    <3>1. j - 1 \in i..(max - 1)
      BY <2>2
    <3> QED
      BY <1>2, <2>2, <3>1
  <2> QED
    BY <2>1, <2>2
<1>3. Scan(sector, max, ref) = CHOOSE j \in 0..max : P(j)
  BY DEF Scan
<1> HIDE DEF P
<1> QED
  BY <1>1, <1>2, <1>3

LEMMA FrontScanned ==
  ASSUME NEW sector \in SectorType, NEW e, Front(sector, e)
  PROVE  Scan(sector, N, Erased) = e
<1>1. e \in 0..N /\ N \in Nat
  BY Sizes DEF Front
<1>2. \A f \in e..(N - 1) : sector.alloc[f] = Erased
  BY <1>1 DEF Front, Fields
<1>3. e > 0 => sector.alloc[e - 1] # Erased
  BY <1>1 DEF Front, Fields
<1> QED
  BY <1>1, <1>2, <1>3, ScanIs

LEMMA FrontUnique ==
  ASSUME NEW sector \in SectorType, NEW e, NEW d, Front(sector, e), Front(sector, d)
  PROVE  d = e
BY FrontScanned

LEMMA DeadAt ==
  ASSUME NEW sector, NEW e \in 0..N, Front(sector, e), e > 0 => sector.alloc[e - 1] # Valid
  PROVE  Dead(sector)
BY DEF Dead

LEMMA InspectDead ==
  ASSUME NEW sector \in SectorType, Dead(sector), NEW e, Front(sector, e)
  PROVE  /\ Inspect(sector).index = e /\ Inspect(sector).tail # Valid
         /\ Inspect(sector).valid = FALSE /\ Inspect(sector).sequence = 0
<1>1. Scan(sector, N, Erased) = e
  BY FrontScanned
<1>2. e > 0 => sector.alloc[e - 1] # Valid
  BY FrontUnique DEF Dead
<1>3. Preceding(sector, e, Erased) # Valid
  BY <1>2, Sizes DEF Preceding, Front, Valid, Erased
<1> QED
  BY <1>1, <1>3 DEF Inspect

LEMMA InspectLive ==
  ASSUME NEW sector \in SectorType, NEW c \in Configs, NEW header \in BOOLEAN,
         NEW first \in Nat, NEW fields \in Nat, NEW seq \in 0..(SeqModulus - 1),
         Live(sector, c, header, first, fields, seq)
  PROVE  Inspect(sector) = [index |-> first + fields, tail |-> Valid, start |-> first,
                            valid |-> header, sequence |-> seq]
<1> DEFINE e == first + fields
<1>1. e \in 0..N /\ fields > 0 /\ e \in Nat /\ first \in 0..e
  BY Sizes DEF Live, Front
<1>2. Scan(sector, N, Erased) = e
  BY FrontScanned DEF Live
<1>3. Scan(sector, e, Valid) = first
  BY <1>1, ScanIs DEF Live
<1>4. Preceding(sector, e, Erased) = Valid
  <2>1. e - 1 \in first..(first + fields - 1) /\ e # 0
    BY <1>1
  <2> QED
    BY <2>1 DEF Live, Preceding
<1> HIDE DEF e
<1>5. CASE header
  <2>1. /\ sector.cell[first].kind = "header" /\ sector.cell[first].payload = Record(c)
        /\ sector.cell[first].sequence = seq
        /\ PayloadAt(sector, first + 1) = Record(c)
    BY <1>5 DEF Live, Header
  <2>2. e - first = RecordFields
    BY <1>5, Sizes DEF e, Live
  <2> QED
    BY <1>2, <1>3, <1>4, <1>5, <2>1, <2>2 DEF Inspect, e
<1>6. CASE ~header
  <2>1. e - first # RecordFields /\ seq = 0
    BY <1>6, Sizes DEF e, Live
  <2> QED
    BY <1>2, <1>3, <1>4, <1>6, <2>1 DEF Inspect, e
<1> QED
  BY <1>5, <1>6

LEMMA RecordsDiffer ==
  ASSUME NEW c \in Configs, NEW d \in Configs, Record(c) = Record(d)
  PROVE  c = d
<1>1. 1 \in 1..PayloadFields
  BY Sizes
<1>2. Record(c)[1] = Chunk(c, 1) /\ Record(d)[1] = Chunk(d, 1)
  BY <1>1 DEF Record
<1>3. Chunk(c, 1).config = c /\ Chunk(d, 1).config = d
  BY DEF Chunk
<1> QED
  BY <1>2, <1>3

------------------------------------------------------------------------------------
(* A flash at rest: no record, or one live sector, whose record is what RAM says.  *)

NoRecord(fl, ram, c) ==
  /\ Dead(fl[0]) /\ Dead(fl[1]) /\ c = Defaults
  /\ ram.readSector = 0 /\ ram.hasHeader
  /\ ram.readStart = 0 /\ ram.readFields = 0 /\ ram.sequence = 0
OneRecord(fl, ram, c) ==
  /\ Live(fl[ram.readSector], c, ram.hasHeader, ram.readStart, ram.readFields, ram.sequence)
  /\ Dead(fl[1 - ram.readSector])
Rest(fl, ram, c) == NoRecord(fl, ram, c) \/ OneRecord(fl, ram, c)

FlashType == [Sectors -> SectorType]

(* What a record is read back as. *)
LEMMA LoadedIs ==
  ASSUME NEW fl, NEW ram, NEW c \in Configs,
         ram.readFields >= (IF ram.hasHeader THEN 1 ELSE 0) + PayloadFields,
         PayloadAt(fl[ram.readSector],
                   ram.readStart + (IF ram.hasHeader THEN 1 ELSE 0)) = Record(c)
  PROVE  Loaded(fl, ram) = c
<1> DEFINE skip == IF ram.hasHeader THEN 1 ELSE 0
           payload == PayloadAt(fl[ram.readSector], ram.readStart + skip)
           matching == {d \in Configs : payload = Record(d)}
<1>1. payload = Record(c)
  OBVIOUS
<1> HIDE DEF payload
<1>2. matching = {c}
  BY <1>1, RecordsDiffer
<1>3. (CHOOSE d \in matching : TRUE) = c
  BY <1>2
<1>4. Loaded(fl, ram) = IF ram.readFields >= skip + PayloadFields /\ matching # {}
                        THEN CHOOSE d \in matching : TRUE ELSE Defaults
  BY DEF Loaded, payload
<1> QED
  BY <1>2, <1>3, <1>4

LEMMA NothingLoaded ==
  ASSUME NEW fl, NEW ram, ram.readFields = 0
  PROVE  Loaded(fl, ram) = Defaults
BY Sizes DEF Loaded

LEMMA LiveLoaded ==
  ASSUME NEW fl \in FlashType, NEW ram \in RamType, NEW c \in Configs,
         Live(fl[ram.readSector], c, ram.hasHeader, ram.readStart, ram.readFields, ram.sequence)
  PROVE  Loaded(fl, ram) = c
BY LoadedIs, Sizes DEF Live, RamType

(* A power-up finds what RAM says is there.                            *)
LEMMA RestRead ==
  ASSUME NEW fl \in FlashType, NEW ram \in RamType, NEW c \in Configs, Rest(fl, ram, c)
  PROVE  LET fresh == NVM_init(fl)
         IN  /\ fresh = [ram EXCEPT !.index = fresh.index]
             /\ fresh.index \in [Sectors -> 0..N]
             /\ \A s \in Sectors : Front(fl[s], fresh.index[s])
             /\ Loaded(fl, fresh) = c
<1> DEFINE zero == Inspect(fl[0])
           one == Inspect(fl[1])
           fresh == NVM_init(fl)
           index == [s \in Sectors |-> IF s = 0 THEN zero.index ELSE one.index]
           takeOne == one.valid /\ (~zero.valid \/ IsNewer(one.sequence, zero.sequence))
           legacy == ~zero.valid /\ ~one.valid
           empty == legacy /\ zero.tail # Valid /\ one.tail # Valid
           sector == IF takeOne \/ (legacy /\ one.tail = Valid) THEN 1 ELSE 0
           chosen == IF sector = 1 THEN one ELSE zero
<1>1. fresh = [index |-> index, readSector |-> sector,
               hasHeader |-> empty \/ ~legacy,
               readStart |-> IF empty THEN 0 ELSE chosen.start,
               readFields |-> IF empty THEN 0 ELSE chosen.index - chosen.start,
               sequence |-> IF legacy THEN 0 ELSE chosen.sequence]
  BY DEF NVM_init
<1>2. fl[0] \in SectorType /\ fl[1] \in SectorType
  BY DEF FlashType, Sectors
<1>3. ram = [index |-> ram.index, readSector |-> ram.readSector,
             hasHeader |-> ram.hasHeader, readStart |-> ram.readStart,
             readFields |-> ram.readFields, sequence |-> ram.sequence]
  BY DEF RamType
<1> HIDE DEF zero, one, fresh
<1>4. ASSUME NEW e \in 0..N, NEW d \in 0..N, Front(fl[0], e), Front(fl[1], d),
             zero.index = e, one.index = d
      PROVE  /\ index \in [Sectors -> 0..N]
             /\ \A s \in Sectors : Front(fl[s], index[s])
  BY <1>4 DEF Sectors
<1>5. CASE NoRecord(fl, ram, c)
  <2>1. PICK e \in 0..N, d \in 0..N : Front(fl[0], e) /\ Front(fl[1], d)
    BY <1>5 DEF NoRecord, Dead
  <2>2. /\ zero.index = e /\ zero.tail # Valid /\ zero.valid = FALSE
        /\ one.index = d /\ one.tail # Valid /\ one.valid = FALSE
    BY <1>2, <1>5, <2>1, InspectDead DEF NoRecord, zero, one
  <2>0. /\ ram.readSector = 0 /\ ram.hasHeader /\ ram.hasHeader \in BOOLEAN
        /\ ram.readStart = 0 /\ ram.readFields = 0 /\ ram.sequence = 0
    BY <1>5 DEF NoRecord, RamType
  <2>3. fresh = [index |-> index, readSector |-> ram.readSector,
                 hasHeader |-> ram.hasHeader, readStart |-> ram.readStart,
                 readFields |-> ram.readFields, sequence |-> ram.sequence]
    BY <1>1, <2>0, <2>2
  <2>4. fresh = [ram EXCEPT !.index = fresh.index]
    BY <1>3, <2>3
  <2>5. Loaded(fl, fresh) = c
    BY <1>5, <2>0, <2>3, NothingLoaded DEF NoRecord
  <2> QED
    BY <1>4, <2>1, <2>2, <2>3, <2>4, <2>5 DEF fresh
<1>6. CASE OneRecord(fl, ram, c) /\ ram.readSector = 0
  <2>1. Live(fl[0], c, ram.hasHeader, ram.readStart, ram.readFields, ram.sequence)
        /\ Dead(fl[1])
    BY <1>6 DEF OneRecord
  <2>2. PICK d \in 0..N : Front(fl[1], d)
    BY <2>1 DEF Dead
  <2>3. one.index = d /\ one.tail # Valid /\ one.valid = FALSE
    BY <1>2, <2>1, <2>2, InspectDead DEF one
  <2>4. /\ ram.hasHeader \in BOOLEAN /\ ram.readStart \in Nat /\ ram.readFields \in Nat
        /\ ram.sequence \in 0..(SeqModulus - 1)
    BY Sizes DEF RamType
  <2>5. zero = [index |-> ram.readStart + ram.readFields, tail |-> Valid,
                start |-> ram.readStart, valid |-> ram.hasHeader, sequence |-> ram.sequence]
    BY <1>2, <2>1, <2>4, InspectLive DEF zero
  <2>6. Front(fl[0], zero.index) /\ zero.index \in 0..N
    BY <2>1, <2>5 DEF Live, Front
  <2>7. ~ram.hasHeader => ram.sequence = 0
    BY <2>1 DEF Live
  <2>8. fresh = [index |-> index, readSector |-> 0, hasHeader |-> ram.hasHeader,
                 readStart |-> ram.readStart, readFields |-> ram.readFields,
                 sequence |-> ram.sequence]
    BY <1>1, <2>3, <2>4, <2>5, <2>7
  <2>9. fresh = [ram EXCEPT !.index = fresh.index]
    BY <1>3, <1>6, <2>8
  <2>10. /\ fresh.index \in [Sectors -> 0..N]
         /\ \A s \in Sectors : Front(fl[s], fresh.index[s])
    BY <1>4, <2>2, <2>3, <2>6, <2>8
  <2>11. fresh \in RamType
    BY <2>9, <2>10 DEF RamType
  <2>12. Loaded(fl, fresh) = c
    BY <2>1, <2>8, <2>11, LiveLoaded
  <2> QED
    BY <2>9, <2>10, <2>12 DEF fresh
<1>7. CASE OneRecord(fl, ram, c) /\ ram.readSector = 1
  <2>1. Live(fl[1], c, ram.hasHeader, ram.readStart, ram.readFields, ram.sequence)
        /\ Dead(fl[0])
    BY <1>7 DEF OneRecord
  <2>2. PICK d \in 0..N : Front(fl[0], d)
    BY <2>1 DEF Dead
  <2>3. zero.index = d /\ zero.tail # Valid /\ zero.valid = FALSE
    BY <1>2, <2>1, <2>2, InspectDead DEF zero
  <2>4. /\ ram.hasHeader \in BOOLEAN /\ ram.readStart \in Nat /\ ram.readFields \in Nat
        /\ ram.sequence \in 0..(SeqModulus - 1)
    BY Sizes DEF RamType
  <2>5. one = [index |-> ram.readStart + ram.readFields, tail |-> Valid,
               start |-> ram.readStart, valid |-> ram.hasHeader, sequence |-> ram.sequence]
    BY <1>2, <2>1, <2>4, InspectLive DEF one
  <2>6. Front(fl[1], one.index) /\ one.index \in 0..N
    BY <2>1, <2>5 DEF Live, Front
  <2>7. ~ram.hasHeader => ram.sequence = 0
    BY <2>1 DEF Live
  <2>8. fresh = [index |-> index, readSector |-> 1, hasHeader |-> ram.hasHeader,
                 readStart |-> ram.readStart, readFields |-> ram.readFields,
                 sequence |-> ram.sequence]
    BY <1>1, <2>3, <2>4, <2>5, <2>7
  <2>9. fresh = [ram EXCEPT !.index = fresh.index]
    BY <1>3, <1>7, <2>8
  <2>10. /\ fresh.index \in [Sectors -> 0..N]
         /\ \A s \in Sectors : Front(fl[s], fresh.index[s])
    BY <1>4, <2>2, <2>3, <2>6, <2>8
  <2>11. fresh \in RamType
    BY <2>9, <2>10 DEF RamType
  <2>12. Loaded(fl, fresh) = c
    BY <2>1, <2>8, <2>11, LiveLoaded
  <2> QED
    BY <2>9, <2>10, <2>12 DEF fresh
<1> QED
  BY <1>5, <1>6, <1>7 DEF Rest, RamType, Sectors

------------------------------------------------------------------------------------
(* A flash in which a new record has been published and the old one not retired.   *)

Superseded(sector, seq) ==
  \/ Dead(sector)
  \/ \E d \in Configs, header \in BOOLEAN, first \in 0..N, fields \in 0..N,
        s \in 0..(SeqModulus - 1) :
        /\ Live(sector, d, header, first, fields, s)
        /\ header => seq = (s + 1) % SeqModulus

LEMMA Newer ==
  ASSUME NEW s \in 0..(SeqModulus - 1)
  PROVE  LET t == (s + 1) % SeqModulus IN IsNewer(t, s) /\ ~IsNewer(s, t)
<1> DEFINE t == (s + 1) % SeqModulus
           M == SeqModulus
<1>1. M \in Nat /\ M >= 4
  BY Sizes
<1>2. ASSUME NEW x \in 0..(M - 1)
      PROVE  x % M = x /\ (x + M) % M = x
  <2>1. (0 * M + x) % M = x /\ (1 * M + x) % M = x
    BY <1>1, <1>2
  <2>2. 0 * M + x = x /\ 1 * M + x = x + M
    BY <1>1, <1>2
  <2> QED
    BY <2>1, <2>2
<1>3. t = IF s + 1 = M THEN 0 ELSE s + 1
  <2>1. CASE s + 1 = M
    BY <1>1, <1>2, <2>1
  <2>2. CASE s + 1 # M
    <3>1. s + 1 \in 0..(M - 1)
      BY <1>1, <2>2
    <3> QED
      BY <1>2, <2>2, <3>1
  <2> QED
    BY <2>1, <2>2
<1> HIDE DEF t
<1>4. (t + M - s) % M = 1
  <2>1. t + M - s = 1 \/ t + M - s = 1 + M
    BY <1>1, <1>3
  <2> QED
    BY <1>1, <1>2, <2>1
<1>5. (s + M - t) % M = M - 1
  <2>1. s + M - t = M - 1 \/ s + M - t = (M - 1) + M
    BY <1>1, <1>3
  <2>2. M - 1 \in 0..(M - 1)
    BY <1>1
  <2> QED
    BY <1>2, <2>1, <2>2
<1>6. 1 \in 1..((M \div 2) - 1) /\ M - 1 \notin 1..((M \div 2) - 1)
  BY <1>1
<1>7. IsNewer(t, s) /\ ~IsNewer(s, t)
  BY <1>4, <1>5, <1>6 DEF IsNewer
<1> QED
  BY <1>7 DEF t

LEMMA NewestRead ==
  ASSUME NEW fl \in FlashType, NEW ram \in RamType, NEW c \in Configs,
         Live(fl[ram.readSector], c, ram.hasHeader, ram.readStart, ram.readFields, ram.sequence),
         ram.hasHeader,
         Superseded(fl[1 - ram.readSector], ram.sequence)
  PROVE  Loaded(fl, NVM_init(fl)) = c
<1> DEFINE zero == Inspect(fl[0])
           one == Inspect(fl[1])
           fresh == NVM_init(fl)
           new == Inspect(fl[ram.readSector])
           old == Inspect(fl[1 - ram.readSector])
<1>1. /\ ram.readSector \in {0, 1} /\ fl[0] \in SectorType /\ fl[1] \in SectorType
      /\ fl[ram.readSector] \in SectorType /\ fl[1 - ram.readSector] \in SectorType
      /\ ram.readStart \in Nat /\ ram.readFields = RecordFields /\ ram.readFields \in Nat
      /\ ram.hasHeader \in BOOLEAN /\ ram.sequence \in 0..(SeqModulus - 1)
  BY Sizes DEF FlashType, RamType, Sectors, Live
<1>2. new = [index |-> ram.readStart + ram.readFields, tail |-> Valid,
             start |-> ram.readStart, valid |-> ram.hasHeader, sequence |-> ram.sequence]
  <2> DEFINE sector == fl[ram.readSector]
  <2>1. sector \in SectorType /\ ram.hasHeader \in BOOLEAN /\ ram.readStart \in Nat
        /\ ram.readFields \in Nat /\ ram.sequence \in 0..(SeqModulus - 1)
        /\ Live(sector, c, ram.hasHeader, ram.readStart, ram.readFields, ram.sequence)
    BY <1>1
  <2> HIDE DEF sector
  <2>2. Inspect(sector) = [index |-> ram.readStart + ram.readFields, tail |-> Valid,
             start |-> ram.readStart, valid |-> ram.hasHeader, sequence |-> ram.sequence]
    BY <2>1, InspectLive
  <2> QED
    BY <2>2 DEF sector
<1>3. CASE Dead(fl[1 - ram.readSector])
  <2>1. Rest(fl, ram, c)
    BY <1>3 DEF Rest, OneRecord
  <2> QED
    BY <2>1, RestRead
<1>4. ASSUME /\ old.valid \in BOOLEAN
             /\ old.valid => /\ IsNewer(new.sequence, old.sequence)
                             /\ ~IsNewer(old.sequence, new.sequence)
      PROVE  Loaded(fl, NVM_init(fl)) = c
  <2>1. /\ new.valid /\ new.start = ram.readStart
        /\ new.index - new.start = RecordFields
    BY <1>1, <1>2
  <2> HIDE DEF zero, one, new, old
  <2>2. /\ fresh.readSector = ram.readSector /\ fresh.hasHeader
        /\ fresh.readStart = ram.readStart /\ fresh.readFields = RecordFields
    <3>1. CASE ram.readSector = 0
      <4>1. zero = new /\ one = old
        BY <3>1 DEF zero, one, new, old
      <4> QED
        BY <1>4, <2>1, <3>1, <4>1 DEF NVM_init, zero, one
    <3>2. CASE ram.readSector = 1
      <4>1. one = new /\ zero = old
        BY <3>2 DEF zero, one, new, old
      <4> QED
        BY <1>4, <2>1, <3>2, <4>1 DEF NVM_init, zero, one
    <3> QED
      BY <1>1, <3>1, <3>2
  <2>3. PayloadAt(fl[ram.readSector], ram.readStart + 1) = Record(c)
    BY DEF Live
  <2> QED
    BY <2>2, <2>3, LoadedIs, Sizes
<1>5. CASE ~Dead(fl[1 - ram.readSector])
  <2>1. PICK d \in Configs, header \in BOOLEAN, first \in 0..N, fields \in 0..N,
             s \in 0..(SeqModulus - 1) :
             /\ Live(fl[1 - ram.readSector], d, header, first, fields, s)
             /\ header => ram.sequence = (s + 1) % SeqModulus
    BY <1>5 DEF Superseded
  <2>2. first \in Nat /\ fields \in Nat
    BY Sizes
  <2>3. old.valid = header /\ old.sequence = s
    BY <1>1, <2>1, <2>2, InspectLive
  <2>4. header => IsNewer(new.sequence, old.sequence) /\ ~IsNewer(old.sequence, new.sequence)
    BY <1>2, <2>1, <2>3, Newer
  <2> QED
    BY <1>4, <2>3, <2>4
<1> QED
  BY <1>3, <1>5

------------------------------------------------------------------------------------
(* Flash operations. *)

LEMMA AllocSet ==
  ASSUME flash \in FlashType, NEW s \in Sectors, NEW f \in Fields, NEW state \in States,
         SetAlloc(s, f, state)
  PROVE  /\ flash' \in FlashType /\ flash'[1 - s] = flash[1 - s]
         /\ flash'[s].cell = flash[s].cell
         /\ \A g \in Fields : flash'[s].alloc[g] = IF g = f THEN state
                                                   ELSE flash[s].alloc[g]
BY DEF SetAlloc, FlashType, SectorType, Sectors

LEMMA CellSet ==
  ASSUME flash \in FlashType, NEW s \in Sectors, NEW f \in Fields, NEW value \in Contents,
         flash[s].cell[f] = Blank, ProgramCell(s, f, value)
  PROVE  /\ flash' \in FlashType /\ flash'[1 - s] = flash[1 - s]
         /\ flash'[s].alloc = flash[s].alloc
         /\ \A g \in Fields : flash'[s].cell[g] = IF g = f THEN value
                                                  ELSE flash[s].cell[g]
<1>1. flash' = [flash EXCEPT ![s].cell[f] = value]
  BY DEF ProgramCell
<1> QED
  BY <1>1 DEF FlashType, SectorType, Sectors

LEMMA ErasedIs ==
  /\ ErasedSector \in SectorType /\ Dead(ErasedSector) /\ Front(ErasedSector, 0)
  /\ \A f \in Fields : ErasedSector.alloc[f] = Erased /\ ErasedSector.cell[f] = Blank
<1>1. \A f \in Fields : ErasedSector.alloc[f] = Erased /\ ErasedSector.cell[f] = Blank
  BY DEF ErasedSector
<1>2. Front(ErasedSector, 0)
  BY <1>1, Sizes DEF Front, Fields
<1>3. ErasedSector \in SectorType
  BY DEF ErasedSector, SectorType, States, Contents
<1> QED
  BY <1>1, <1>2, <1>3, Sizes DEF Dead

------------------------------------------------------------------------------------
(* The invariant. *)

Resting == {"off", "erase0", "erase1", "reset"}
Staging == {"claim", "header", "payload", "seal", "publish"}
Saving == Staging \union {"erase"}
Current == nvm.readSector

TypesOK ==
  /\ flash \in FlashType /\ nvm \in RamType
  /\ storeState \in {"idle", "preparing", "inProgress", "failed"}
  /\ running \in Configs \union {Off} /\ stored \in Configs
  /\ pc \in Resting \union Saving \union {"idle", "retire"}
  /\ pc = "off" <=> running = Off
  /\ at \in 0..RecordFields
  /\ outcome \in {"none", "saved", "failed"}
  /\ saves \in 0..MaxSaves

(* What has not been used since the last erase can still be programmed.            *)
BlankAbove ==
  \A s \in Sectors, f \in Fields : flash[s].alloc[f] = Erased => flash[s].cell[f] = Blank

(* Until a record is published completely, the flash is at rest.                   *)
AtRest ==
  /\ pc \in Resting => \E ram \in RamType : Rest(flash, ram, stored)
  /\ pc \in Saving \union {"idle"} => Rest(flash, nvm, stored)

(* The indices in RAM are the frontiers, but for the staging area, which a failed  *)
(* save leaves behind.                                                             *)
Indexed ==
  /\ (pc = "idle" /\ storeState = "idle") \/ pc \in {"erase", "retire"}
       => \A s \in Sectors : Front(flash[s], nvm.index[s])
  /\ pc \in Saving => Front(flash[Current], nvm.index[Current])

(* The staging area: claimed, programmed and published field by field.             *)
Area ==
  /\ Position + RecordFields <= N
  /\ Position > 0 => flash[Target].alloc[Position - 1] # Valid
  /\ \A f \in Fields : /\ f < Position => flash[Target].alloc[f] # Erased
                       /\ f >= Position + RecordFields => flash[Target].alloc[f] = Erased
  /\ at < (IF pc = "payload" THEN PayloadFields ELSE RecordFields)
  /\ pc \in {"header", "seal"} => at = 0
Claimed ==
  \A k \in 0..PayloadFields :
     flash[Target].alloc[Position + k] =
        CASE pc = "claim" -> IF k < at THEN Invalid ELSE Erased
          [] pc = "publish" -> IF k < at THEN Valid ELSE Invalid
          [] OTHER -> Invalid
NextSequence == (nvm.sequence + 1) % SeqModulus
Programmed ==
  /\ flash[Target].cell[Position] =
        CASE pc \in {"claim", "header"} -> Blank
          [] pc = "publish" -> Header(NextSequence, Record(running))
          [] OTHER -> Header(NextSequence, Unsealed)
  /\ \A i \in 1..PayloadFields :
        flash[Target].cell[Position + i] =
           IF pc \in {"claim", "header"} \/ (pc = "payload" /\ i > at) THEN Blank
           ELSE Chunk(running, i)
Staged == /\ pc \in Staging => Area /\ Claimed /\ Programmed
          /\ pc = "erase" => at = 0

(* Two records: the one just published is the newer.                               *)
Overlap ==
  pc = "retire" =>
     /\ Live(flash[Current], running, nvm.hasHeader, nvm.readStart, nvm.readFields,
             nvm.sequence)
     /\ nvm.hasHeader /\ stored = running
     /\ Superseded(flash[Target], nvm.sequence)

IInv == TypesOK /\ BlankAbove /\ AtRest /\ Indexed /\ Staged /\ Overlap

(* A rest outlives whatever leaves the current sector alone and the other one dead. *)
LEMMA RestMoved ==
  ASSUME NEW fl \in FlashType, NEW ram \in RamType, NEW c \in Configs, Rest(fl, ram, c),
         NEW fl2 \in FlashType, NEW ram2 \in RamType,
         ram2 = [ram EXCEPT !.index = ram2.index],
         fl2[ram.readSector] = fl[ram.readSector], Dead(fl2[1 - ram.readSector])
  PROVE  Rest(fl2, ram2, c)
<1>1. /\ ram2.readSector = ram.readSector /\ ram2.hasHeader = ram.hasHeader
      /\ ram2.readStart = ram.readStart /\ ram2.readFields = ram.readFields
      /\ ram2.sequence = ram.sequence
  BY DEF RamType
<1>2. CASE NoRecord(fl, ram, c)
  <2>1. fl2[0] = fl[0] /\ Dead(fl2[1])
    BY <1>2 DEF NoRecord
  <2> QED
    BY <1>1, <1>2, <2>1 DEF Rest, NoRecord
<1>3. CASE OneRecord(fl, ram, c)
  BY <1>1, <1>3 DEF Rest, OneRecord
<1> QED
  BY <1>2, <1>3 DEF Rest

LEMMA OtherDead ==
  ASSUME NEW fl, NEW ram, NEW c, Rest(fl, ram, c)
  PROVE  Dead(fl[1 - ram.readSector])
BY DEF Rest, NoRecord, OneRecord

(* A record being claimed, or being published, is not one yet.                     *)
LEMMA ClaimDead ==
  ASSUME NEW sector \in SectorType, NEW p \in Nat, NEW n \in Nat, p + n <= N,
         p > 0 => sector.alloc[p - 1] # Valid,
         \A f \in Fields : /\ f < p => sector.alloc[f] # Erased
                           /\ f >= p + n => sector.alloc[f] = Erased
                           /\ f \in p..(p + n - 1) => sector.alloc[f] = Invalid
  PROVE  Dead(sector) /\ Front(sector, p + n)
<1>1. p + n \in 0..N
  BY Sizes
<1>2. Front(sector, p + n)
  <2>1. ASSUME NEW f \in Fields
        PROVE  sector.alloc[f] = Erased <=> f >= p + n
    <3>1. f \in Nat
      BY Sizes DEF Fields
    <3> QED
      BY <3>1 DEF Erased, Invalid
  <2> QED
    BY <1>1, <2>1 DEF Front
<1>3. p + n > 0 => sector.alloc[p + n - 1] # Valid
  <2>1. CASE n = 0
    BY <2>1
  <2>2. CASE n > 0
    <3>1. p + n - 1 \in Fields /\ p + n - 1 \in p..(p + n - 1)
      BY <2>2, Sizes DEF Fields
    <3> QED
      BY <3>1 DEF Valid, Invalid
  <2> QED
    BY <2>1, <2>2
<1> QED
  BY <1>1, <1>2, <1>3 DEF Dead

LEMMA PublishDead ==
  ASSUME NEW sector \in SectorType, NEW p \in Nat, NEW n \in Nat, n > 0, p + n <= N,
         sector.alloc[p + n - 1] # Valid,
         \A f \in Fields : f < p + n <=> sector.alloc[f] # Erased
  PROVE  Dead(sector)
<1>1. p + n \in 0..N
  BY Sizes
<1>2. Front(sector, p + n)
  BY <1>1, Sizes DEF Front, Fields
<1> QED
  BY <1>1, <1>2 DEF Dead

LEMMA StoredKept ==
  ASSUME TypesOK, Rest(flash, nvm, stored),
         stored' = Loaded(flash', NVM_init(flash')),
         flash' \in FlashType, nvm' \in RamType, nvm' = [nvm EXCEPT !.index = nvm'.index],
         flash'[Current] = flash[Current], Dead(flash'[Target])
  PROVE  stored' = stored /\ Rest(flash', nvm', stored')
<1>1. Rest(flash', nvm', stored)
  BY RestMoved DEF TypesOK, Current, Target
<1>2. Loaded(flash', NVM_init(flash')) = stored
  BY <1>1, RestRead DEF TypesOK
<1> QED
  BY <1>1, <1>2

LEMMA PlaceIs ==
  ASSUME TypesOK
  PROVE  /\ Current \in Sectors /\ Target \in Sectors /\ Target = 1 - Current
         /\ Current = 1 - Target /\ Position \in 0..N /\ Current # Target
         /\ flash[Target] \in SectorType /\ flash[Current] \in SectorType
BY DEF TypesOK, RamType, FlashType, Current, Target, Position, Sectors

LEMMA ColdRamIs == ColdRam \in RamType
<1> DEFINE fl == [s \in Sectors |-> ErasedSector]
           ram == [index |-> [s \in Sectors |-> 0], readSector |-> 0,
                   hasHeader |-> TRUE, readStart |-> 0, readFields |-> 0, sequence |-> 0]
<1>1. ram \in RamType /\ fl \in FlashType
  BY ErasedIs, Sizes DEF RamType, Sectors, FlashType
<1>2. Rest(fl, ram, Defaults)
  BY ErasedIs DEF Rest, NoRecord, Sectors
<1> HIDE DEF ram, fl
<1>3. NVM_init(fl) \in RamType
  BY <1>1, <1>2, RestRead, NvmAssumption DEF RamType
<1> QED
  BY <1>3 DEF ColdRam, fl

------------------------------------------------------------------------------------
(* Every step keeps the invariant. *)

Reread == stored' = Loaded(flash', NVM_init(flash'))

LEMMA InitHolds == Init => IInv
<1> SUFFICES ASSUME Init PROVE IInv
  OBVIOUS
<1>1. /\ \A s \in Sectors, c \in Configs :
             /\ LegacySector(c) \in SectorType
             /\ Live(LegacySector(c), c, FALSE, 0, PayloadFields, 0)
             /\ \A f \in Fields : LegacySector(c).alloc[f] = Erased
                                    => LegacySector(c).cell[f] = Blank
  <2> SUFFICES ASSUME NEW c \in Configs
               PROVE  /\ LegacySector(c) \in SectorType
                      /\ Live(LegacySector(c), c, FALSE, 0, PayloadFields, 0)
                      /\ \A f \in Fields : LegacySector(c).alloc[f] = Erased
                                             => LegacySector(c).cell[f] = Blank
    OBVIOUS
  <2> DEFINE sector == LegacySector(c)
  <2>1. \A f \in Fields : /\ sector.alloc[f] = IF f < PayloadFields THEN Valid ELSE Erased
                          /\ sector.cell[f] = IF f < PayloadFields THEN Chunk(c, f + 1)
                                              ELSE Blank
    BY DEF LegacySector
  <2>2. sector \in SectorType
    <3>1. \A f \in Fields : f < PayloadFields => Chunk(c, f + 1) \in Chunks
      <4> SUFFICES ASSUME NEW f \in Fields, f < PayloadFields
                   PROVE  Chunk(c, f + 1) \in Chunks
        OBVIOUS
      <4>1. f + 1 \in 1..PayloadFields
        BY Sizes DEF Fields
      <4> QED
        BY <4>1 DEF Chunks
    <3>2. sector.cell \in [Fields -> Contents]
      BY <3>1 DEF LegacySector, Contents
    <3>3. sector.alloc \in [Fields -> States]
      BY DEF LegacySector, States
    <3> QED
      BY <3>2, <3>3 DEF LegacySector, SectorType
  <2> HIDE DEF sector
  <2>3. Front(sector, 0 + PayloadFields)
    BY <2>1, Sizes DEF Front, Fields, Valid, Erased
  <2>4. \A f \in 0..(0 + PayloadFields - 1) : sector.alloc[f] = Valid
    BY <2>1, Sizes DEF Fields
  <2>5. PayloadAt(sector, 0) = Record(c)
    <3>1. \A i \in 1..PayloadFields : sector.cell[0 + i - 1] = Chunk(c, i)
      <4> SUFFICES ASSUME NEW i \in 1..PayloadFields
                   PROVE  sector.cell[0 + i - 1] = Chunk(c, i)
        OBVIOUS
      <4>1. /\ 0 + i - 1 \in Fields /\ 0 + i - 1 < PayloadFields
            /\ (0 + i - 1) + 1 = i
        BY Sizes DEF Fields
      <4> QED
        BY <2>1, <4>1
    <3> QED
      BY <3>1 DEF PayloadAt, Record
  <2>6. Live(sector, c, FALSE, 0, PayloadFields, 0)
    BY <2>3, <2>4, <2>5 DEF Live
  <2>7. \A f \in Fields : sector.alloc[f] = Erased => sector.cell[f] = Blank
    BY <2>1 DEF Valid, Erased
  <2> QED
    BY <2>2, <2>6, <2>7 DEF sector
<1>2. /\ flash \in FlashType
      /\ \A s \in Sectors, f \in Fields : flash[s].alloc[f] = Erased
                                            => flash[s].cell[f] = Blank
  <2>1. CASE flash = [s \in Sectors |-> ErasedSector]
    BY <2>1, ErasedIs DEF FlashType
  <2>2. ASSUME NEW t \in Sectors, NEW c \in Configs,
               flash = [s \in Sectors |-> IF s = t THEN LegacySector(c) ELSE ErasedSector]
        PROVE  /\ flash \in FlashType
               /\ \A s \in Sectors, f \in Fields : flash[s].alloc[f] = Erased
                                                     => flash[s].cell[f] = Blank
    <3>1. \A s \in Sectors : flash[s] = LegacySector(c) \/ flash[s] = ErasedSector
      BY <2>2
    <3>2. flash \in FlashType
      BY <1>1, <2>2, ErasedIs DEF FlashType
    <3> QED
      BY <1>1, <3>1, <3>2, ErasedIs
  <2> QED
    BY <2>1, <2>2 DEF Init
<1>3. \E ram \in RamType, c \in Configs : Rest(flash, ram, c)
  <2>1. CASE flash = [s \in Sectors |-> ErasedSector]
    <3> DEFINE ram == [index |-> [s \in Sectors |-> 0], readSector |-> 0,
                       hasHeader |-> TRUE, readStart |-> 0, readFields |-> 0,
                       sequence |-> 0]
    <3>1. ram \in RamType
      BY Sizes DEF RamType, Sectors
    <3>2. NoRecord(flash, ram, Defaults)
      BY <2>1, ErasedIs DEF NoRecord, Sectors
    <3> QED
      BY <3>1, <3>2, NvmAssumption DEF Rest
  <2>2. CASE \E t \in Sectors, c \in Configs :
                flash = [s \in Sectors |-> IF s = t THEN LegacySector(c) ELSE ErasedSector]
    <3>1. PICK t \in Sectors, c \in Configs :
             flash = [s \in Sectors |-> IF s = t THEN LegacySector(c) ELSE ErasedSector]
      BY <2>2
    <3> DEFINE ram == [index |-> [s \in Sectors |-> 0], readSector |-> t,
                       hasHeader |-> FALSE, readStart |-> 0, readFields |-> PayloadFields,
                       sequence |-> 0]
    <3>2. ram \in RamType
      BY Sizes DEF RamType
    <3>3. flash[t] = LegacySector(c) /\ Dead(flash[1 - t])
      BY <3>1, ErasedIs DEF Sectors
    <3>4. OneRecord(flash, ram, c)
      BY <1>1, <3>3 DEF OneRecord
    <3> QED
      BY <3>2, <3>4 DEF Rest
  <2> QED
    BY <2>1, <2>2 DEF Init
<1>4. PICK ram \in RamType, c \in Configs : Rest(flash, ram, c)
  BY <1>3
<1>5. stored = c
  BY <1>2, <1>4, RestRead DEF Init
<1>6. nvm \in RamType
  BY ColdRamIs DEF Init
<1>7. TypesOK
  BY <1>2, <1>5, <1>6, Sizes, NvmAssumption
  DEF TypesOK, Init, Resting
<1>8. AtRest
  BY <1>4, <1>5 DEF AtRest, Init, Saving, Staging
<1> QED
  BY <1>2, <1>7, <1>8
  DEF IInv, Init, BlankAbove, Indexed, Staged, Overlap, Saving, Staging

LEMMA PowerUpHolds ==
  ASSUME IInv, PowerUp, Reread
  PROVE  IInv' /\ stored' = stored /\ running' = stored
<1>1. PICK ram \in RamType : Rest(flash, ram, stored)
  BY DEF IInv, AtRest, PowerUp, Resting
<1>2. /\ flash' = flash /\ nvm' = NVM_init(flash) /\ saves' = saves
      /\ storeState' = "idle" /\ pc' = "idle" /\ at' = 0 /\ outcome' = "none"
      /\ running' = Loaded(flash, NVM_init(flash))
  BY DEF PowerUp
<1>3. flash \in FlashType /\ stored \in Configs /\ saves \in 0..MaxSaves
  BY DEF IInv, TypesOK
<1>4. /\ nvm' = [ram EXCEPT !.index = nvm'.index]
      /\ nvm'.index \in [Sectors -> 0..N]
      /\ \A s \in Sectors : Front(flash'[s], nvm'.index[s])
      /\ running' = stored
  BY <1>1, <1>2, <1>3, RestRead
<1>5. stored' = stored
  BY <1>2, <1>4 DEF Reread
<1>6. nvm' \in RamType
  BY <1>4 DEF RamType
<1>7. Rest(flash', nvm', stored')
  <2>1. Dead(flash[1 - ram.readSector])
    BY <1>1, OtherDead
  <2> QED
    BY <1>1, <1>2, <1>3, <1>4, <1>5, <1>6, <2>1, RestMoved
<1>8. running' # Off /\ running' \in Configs
  BY <1>3, <1>4, NvmAssumption
<1> QED
  BY <1>2, <1>3, <1>4, <1>5, <1>6, <1>7, <1>8, Sizes
  DEF IInv, TypesOK, BlankAbove, AtRest, Indexed, Staged, Overlap, Resting, Saving, Staging

LEMMA SetConfigHolds ==
  ASSUME IInv, NEW c \in Configs, SetConfig(c), Reread
  PROVE  IInv' /\ stored' = stored
<1>1. stored' = stored /\ Rest(flash', nvm', stored')
  <2>1. Rest(flash, nvm, stored) /\ TypesOK
    BY DEF IInv, AtRest, SetConfig
  <2>2. Loaded(flash, NVM_init(flash)) = stored
    BY <2>1, RestRead DEF TypesOK
  <2> QED
    BY <2>1, <2>2 DEF Reread, SetConfig
<1>2. c # Off
  BY NvmAssumption
<1> QED
  BY <1>1, <1>2
  DEF SetConfig, IInv, TypesOK, BlankAbove, AtRest, Indexed, Staged, Overlap, Resting, Saving,
      Staging

LEMMA RefusedHolds ==
  ASSUME IInv, PrepareStoreRefused, Reread
  PROVE  IInv' /\ stored' = stored
<1>1. stored' = stored /\ Rest(flash', nvm', stored')
  <2>1. Rest(flash, nvm, stored) /\ TypesOK
    BY DEF IInv, AtRest, PrepareStoreRefused
  <2>2. Loaded(flash, NVM_init(flash)) = stored
    BY <2>1, RestRead DEF TypesOK
  <2> QED
    BY <2>1, <2>2 DEF Reread, PrepareStoreRefused
<1> QED
  BY <1>1
  DEF PrepareStoreRefused, IInv, TypesOK, BlankAbove, AtRest, Indexed, Staged, Overlap,
      Resting, Saving, Staging

(* What is left above the frontier of a dead sector is room for a record.          *)
LEMMA RoomFound ==
  ASSUME NEW sector \in SectorType, Dead(sector), NEW p \in 0..N, Front(sector, p),
         RecordFields <= N - p,
         \A f \in Fields : sector.alloc[f] = Erased => sector.cell[f] = Blank
  PROVE  /\ p + RecordFields <= N
         /\ p > 0 => sector.alloc[p - 1] # Valid
         /\ \A f \in Fields : /\ f < p => sector.alloc[f] # Erased
                              /\ f >= p + RecordFields => sector.alloc[f] = Erased
         /\ \A k \in 0..PayloadFields : /\ p + k \in Fields
                                        /\ sector.alloc[p + k] = Erased
                                        /\ sector.cell[p + k] = Blank
<1>1. p + RecordFields <= N
  BY Sizes
<1>2. p > 0 => sector.alloc[p - 1] # Valid
  BY FrontUnique DEF Dead
<1>3. \A k \in 0..PayloadFields : p + k \in Fields /\ p + k >= p
  BY Sizes DEF Fields
<1>4. \A f \in Fields : /\ f < p => sector.alloc[f] # Erased
                        /\ f >= p + RecordFields => sector.alloc[f] = Erased
  BY Sizes DEF Front, Fields
<1> QED
  BY <1>1, <1>2, <1>3, <1>4 DEF Front

LEMMA PrepareHolds ==
  ASSUME IInv, PrepareStore, Reread
  PROVE  IInv' /\ stored' = stored
<1>1. /\ pc = "idle" /\ storeState = "idle" /\ flash' = flash /\ nvm' = nvm
      /\ running' = running /\ at' = 0 /\ storeState' = "preparing" /\ outcome' = "none"
      /\ saves' = saves + 1 /\ saves < MaxSaves
      /\ pc' = IF N - Position < RecordFields THEN "erase" ELSE "claim"
  BY DEF PrepareStore
<1>2. Rest(flash, nvm, stored) /\ TypesOK
  BY <1>1 DEF IInv, AtRest
<1>3. \A s \in Sectors : Front(flash[s], nvm.index[s])
  BY <1>1 DEF IInv, Indexed
<1>4. Target' = Target /\ Position' = Position /\ Current' = Current
  BY <1>1 DEF Target, Position, Current
<1>5. Current \in Sectors /\ Target \in Sectors
  BY <1>2, PlaceIs
<1>6. stored' = stored /\ Rest(flash', nvm', stored')
  <2>1. Loaded(flash, NVM_init(flash)) = stored
    BY <1>2, RestRead DEF TypesOK
  <2> QED
    BY <1>1, <1>2, <2>1 DEF Reread
<1>7. TypesOK' /\ BlankAbove' /\ AtRest' /\ Indexed'
  <2>1. TypesOK'
    BY <1>1, <1>2, <1>6, Sizes, NvmAssumption DEF TypesOK, Resting, Saving, Staging
  <2>2. BlankAbove'
    BY <1>1 DEF IInv, BlankAbove
  <2>3. AtRest'
    BY <1>1, <1>6 DEF AtRest, Resting, Saving, Staging
  <2>4. Indexed'
    BY <1>1, <1>3, <1>4, <1>5 DEF Indexed, Saving, Staging
  <2> QED
    BY <2>1, <2>2, <2>3, <2>4
<1>8. CASE N - Position < RecordFields
  <2>1. pc' = "erase"
    BY <1>1, <1>8
  <2> QED
    BY <1>1, <1>6, <1>7, <2>1 DEF IInv, Staged, Overlap, Staging
<1>9. CASE ~(N - Position < RecordFields)
  <2>1. pc' = "claim"
    BY <1>1, <1>9
  <2> DEFINE sector == flash[Target]
             p == Position
  <2>2. /\ p + RecordFields <= N
        /\ p > 0 => sector.alloc[p - 1] # Valid
        /\ \A f \in Fields : /\ f < p => sector.alloc[f] # Erased
                             /\ f >= p + RecordFields => sector.alloc[f] = Erased
        /\ \A k \in 0..PayloadFields : /\ p + k \in Fields
                                       /\ sector.alloc[p + k] = Erased
                                       /\ sector.cell[p + k] = Blank
    <3>1. sector \in SectorType /\ Dead(sector) /\ p \in 0..N /\ Front(sector, p)
      BY <1>2, <1>3, <1>5, PlaceIs, OtherDead DEF Target, Position
    <3>2. \A f \in Fields : sector.alloc[f] = Erased => sector.cell[f] = Blank
      BY <1>5 DEF IInv, BlankAbove
    <3>3. RecordFields <= N - p
      BY <1>9, <3>1, Sizes
    <3> HIDE DEF sector, p
    <3> QED
      BY <3>1, <3>2, <3>3, RoomFound
  <2>3. Area'
    BY <1>1, <1>4, <2>1, <2>2, Sizes DEF Area
  <2>4. Claimed'
    BY <1>1, <1>4, <2>1, <2>2, Sizes DEF Claimed
  <2>5. Programmed'
    <3>1. 0 \in 0..PayloadFields /\ \A i \in 1..PayloadFields : i \in 0..PayloadFields
      BY Sizes
    <3>2. p + 0 = p
      BY <1>2, PlaceIs
    <3>3. sector.cell[p] = Blank /\ \A i \in 1..PayloadFields : sector.cell[p + i] = Blank
      BY <2>2, <3>1, <3>2
    <3> QED
      BY <1>1, <1>4, <2>1, <3>3 DEF Programmed
  <2> QED
    BY <1>6, <1>7, <2>1, <2>3, <2>4, <2>5 DEF IInv, Staged, Overlap
<1> QED
  BY <1>8, <1>9

LEMMA EraseTargetHolds ==
  ASSUME IInv, EraseTarget, Reread
  PROVE  IInv' /\ stored' = stored
<1>1. /\ pc = "erase" /\ pc' = "claim" /\ flash' = [flash EXCEPT ![Target] = ErasedSector]
      /\ nvm' = [nvm EXCEPT !.index[Target] = 0] /\ storeState' = storeState
      /\ running' = running /\ at' = at /\ outcome' = outcome /\ saves' = saves
  BY DEF EraseTarget
<1>2. TypesOK /\ Rest(flash, nvm, stored) /\ at = 0
      /\ Front(flash[Current], nvm.index[Current])
  BY <1>1 DEF IInv, AtRest, Indexed, Staged, Saving
<1>3. /\ Current \in Sectors /\ Target \in Sectors /\ Target # Current
      /\ Sectors = {Target, Current}
  BY <1>2, PlaceIs DEF Sectors
<1>4. /\ flash' \in FlashType /\ flash'[Target] = ErasedSector
      /\ flash'[Current] = flash[Current]
  BY <1>1, <1>2, <1>3, ErasedIs DEF TypesOK, FlashType
<1>5. /\ nvm' \in RamType /\ nvm' = [nvm EXCEPT !.index = nvm'.index]
      /\ nvm'.index[Target] = 0 /\ nvm'.index[Current] = nvm.index[Current]
  <2>1. nvm \in RamType /\ 0 \in 0..N
    BY <1>2, Sizes DEF TypesOK
  <2> QED
    BY <1>1, <1>3, <2>1 DEF RamType
<1>6. Target' = Target /\ Position' = 0 /\ Current' = Current
  <2>1. nvm'.readSector = nvm.readSector
    BY <1>2, <1>5 DEF TypesOK, RamType
  <2> QED
    BY <1>5, <2>1 DEF Target, Position, Current
<1>7. stored' = stored /\ Rest(flash', nvm', stored')
  BY <1>2, <1>4, <1>5, ErasedIs, StoredKept DEF Reread
<1>8. TypesOK'
  BY <1>1, <1>2, <1>4, <1>5, <1>7 DEF TypesOK, Resting, Saving, Staging
<1>9. BlankAbove'
  BY <1>3, <1>4, ErasedIs DEF IInv, BlankAbove
<1>10. AtRest' /\ Indexed'
  BY <1>1, <1>2, <1>4, <1>5, <1>6, <1>7 DEF AtRest, Indexed, Resting, Saving, Staging
<1>11. Area' /\ Claimed' /\ Programmed'
  <2>1. \A k \in 0..PayloadFields : 0 + k \in Fields
    BY Sizes DEF Fields
  <2>2. \A i \in 1..PayloadFields : i \in 0..PayloadFields
    BY Sizes
  <2>3. 0 \in Fields
    BY Sizes DEF Fields
  <2>4. Area'
    BY <1>1, <1>2, <1>4, <1>6, ErasedIs, Sizes DEF Area, Fields
  <2>5. Claimed'
    BY <1>1, <1>2, <1>4, <1>6, <2>1, ErasedIs, Sizes DEF Claimed
  <2>6. Programmed'
    BY <1>1, <1>4, <1>6, <2>1, <2>2, <2>3, ErasedIs DEF Programmed
  <2> QED
    BY <2>4, <2>5, <2>6
<1> QED
  BY <1>1, <1>7, <1>8, <1>9, <1>10, <1>11 DEF IInv, Staged, Overlap

LEMMA ClaimFieldHolds ==
  ASSUME IInv, ClaimField, Reread
  PROVE  IInv' /\ stored' = stored
<1>1. /\ pc = "claim" /\ SetAlloc(Target, Position + at, Invalid) /\ nvm' = nvm
      /\ at' = (at + 1) % RecordFields
      /\ pc' = IF at + 1 = RecordFields THEN "header" ELSE "claim"
      /\ storeState' = storeState /\ running' = running /\ outcome' = outcome
      /\ saves' = saves
  BY DEF ClaimField
<1>2. TypesOK /\ Rest(flash, nvm, stored) /\ Area /\ Claimed /\ Programmed
      /\ Front(flash[Current], nvm.index[Current])
  BY <1>1 DEF IInv, AtRest, Indexed, Staged, Saving, Staging
<1>3. Current \in Sectors /\ Target \in Sectors /\ Target # Current /\ Position \in 0..N
      /\ Sectors = {Target, Current} /\ Current = 1 - Target
  BY <1>2, PlaceIs DEF Sectors
<1>4. /\ at \in Nat /\ at < RecordFields /\ Position + RecordFields <= N
      /\ at \in 0..PayloadFields /\ Position + at \in Fields
  BY <1>1, <1>2, <1>3, Sizes DEF TypesOK, Area, Fields
<1>5. /\ at' = IF at + 1 = RecordFields THEN 0 ELSE at + 1
  BY <1>1, <1>4, Sizes
<1>6. /\ flash' \in FlashType /\ flash'[Current] = flash[Current]
      /\ flash'[Target].cell = flash[Target].cell
      /\ \A g \in Fields : flash'[Target].alloc[g] = IF g = Position + at THEN Invalid
                                                     ELSE flash[Target].alloc[g]
  BY <1>1, <1>2, <1>3, <1>4, AllocSet DEF TypesOK, States
<1>7. Target' = Target /\ Position' = Position /\ Current' = Current
      /\ NextSequence' = NextSequence
  BY <1>1 DEF Target, Position, Current, NextSequence
<1>8. \A k \in 0..PayloadFields :
         /\ Position + k \in Fields
         /\ flash'[Target].alloc[Position + k] = IF k < at + 1 THEN Invalid ELSE Erased
  <2> SUFFICES ASSUME NEW k \in 0..PayloadFields
               PROVE  /\ Position + k \in Fields
                      /\ flash'[Target].alloc[Position + k] = IF k < at + 1 THEN Invalid
                                                              ELSE Erased
    OBVIOUS
  <2>1. Position + k \in Fields /\ k \in Nat
    BY <1>3, <1>4, Sizes DEF Fields
  <2>2. Position + k = Position + at <=> k = at
    BY <1>3, <1>4, <2>1
  <2>3. flash[Target].alloc[Position + k] = IF k < at THEN Invalid ELSE Erased
    BY <1>1, <1>2 DEF Claimed
  <2> QED
    BY <1>4, <1>6, <2>1, <2>2, <2>3
<1>9. \A f \in Fields :
         /\ f < Position => flash'[Target].alloc[f] # Erased
         /\ f >= Position + RecordFields => flash'[Target].alloc[f] = Erased
  BY <1>2, <1>3, <1>4, <1>6, Sizes DEF Area, Fields
<1>10. Position > 0 => flash'[Target].alloc[Position - 1] # Valid
  <2>1. Position > 0 => Position - 1 \in Fields
    BY <1>3, Sizes DEF Fields
  <2> QED
    BY <1>2, <1>3, <1>4, <1>6, <2>1 DEF Area
<1>11. Dead(flash'[Target])
  <2> DEFINE n == at + 1
  <2>1. n \in Nat /\ Position \in Nat /\ Position + n <= N /\ n <= RecordFields
    BY <1>3, <1>4, Sizes
  <2>2. \A f \in Fields : /\ f >= Position + n => flash'[Target].alloc[f] = Erased
                          /\ f \in Position..(Position + n - 1)
                               => flash'[Target].alloc[f] = Invalid
    <3> SUFFICES ASSUME NEW f \in Fields
                 PROVE  /\ f >= Position + n => flash'[Target].alloc[f] = Erased
                        /\ f \in Position..(Position + n - 1)
                             => flash'[Target].alloc[f] = Invalid
      OBVIOUS
    <3>1. CASE f < Position \/ f >= Position + RecordFields
      BY <1>9, <2>1, <3>1, Sizes DEF Fields
    <3>2. CASE ~(f < Position) /\ ~(f >= Position + RecordFields)
      <4>1. f - Position \in 0..PayloadFields /\ Position + (f - Position) = f
        BY <1>3, <3>2, Sizes DEF Fields
      <4>2. flash'[Target].alloc[f] = IF f - Position < n THEN Invalid ELSE Erased
        BY <1>8, <4>1
      <4> QED
        BY <2>1, <4>1, <4>2
    <3> QED
      BY <3>1, <3>2
  <2>3. flash'[Target] \in SectorType
    BY <1>3, <1>6 DEF FlashType
  <2> HIDE DEF n
  <2> QED
    BY <1>9, <1>10, <2>1, <2>2, <2>3, ClaimDead
<1>12. stored' = stored /\ Rest(flash', nvm', stored')
  <2>1. nvm' \in RamType /\ nvm' = [nvm EXCEPT !.index = nvm'.index]
    BY <1>1, <1>2 DEF TypesOK, RamType
  <2> QED
    BY <1>2, <1>6, <1>11, <2>1, StoredKept DEF Reread
<1>13. TypesOK'
  BY <1>1, <1>2, <1>4, <1>5, <1>6, <1>12, Sizes DEF TypesOK, Resting, Saving, Staging
<1>14. BlankAbove'
  BY <1>3, <1>6 DEF IInv, BlankAbove, Invalid, Erased
<1>15. AtRest' /\ Indexed'
  BY <1>1, <1>2, <1>6, <1>7, <1>12 DEF AtRest, Indexed, Resting, Saving, Staging
<1>16. Area'
  BY <1>1, <1>4, <1>5, <1>7, <1>9, <1>10, Sizes DEF Area
<1>17. Claimed'
  BY <1>1, <1>4, <1>5, <1>7, <1>8, Sizes DEF Claimed
<1>18. Programmed'
  <2>1. pc' \in {"claim", "header"} /\ pc \in {"claim", "header"}
    BY <1>1
  <2> QED
    BY <1>2, <1>6, <1>7, <2>1 DEF Programmed
<1> QED
  BY <1>1, <1>12, <1>13, <1>14, <1>15, <1>16, <1>17, <1>18 DEF IInv, Staged, Overlap

(* A claimed area is programmed without a record appearing or disappearing.        *)
LEMMA ProgramHolds ==
  ASSUME IInv, Reread,
         pc \in {"header", "payload", "seal"}, pc' \in {"payload", "seal", "publish"},
         NEW k \in 0..PayloadFields, NEW value \in Contents,
         flash' = [flash EXCEPT ![Target].cell[Position + k] = value],
         nvm' = nvm, running' = running, outcome' = outcome, saves' = saves,
         storeState' \in {"idle", "preparing", "inProgress", "failed"},
         at' \in Nat, at' < PayloadFields, pc' # "payload" => at' = 0,
         (\A i \in 0..PayloadFields :
             flash'[Target].cell[Position + i] = IF i = k THEN value
                                                 ELSE flash[Target].cell[Position + i])
         => Programmed'
  PROVE  IInv' /\ stored' = stored
<1>1. TypesOK /\ Rest(flash, nvm, stored) /\ Area /\ Claimed
      /\ Front(flash[Current], nvm.index[Current])
  BY DEF IInv, AtRest, Indexed, Staged, Saving, Staging
<1>2. Current \in Sectors /\ Target \in Sectors /\ Target # Current /\ Position \in 0..N
      /\ Sectors = {Target, Current} /\ Current = 1 - Target /\ Position \in Nat
      /\ flash[Target] \in SectorType
  BY <1>1, Sizes, PlaceIs DEF Sectors
<1>3. Position + RecordFields <= N
      /\ \A i \in 0..PayloadFields : Position + i \in Fields
  BY <1>1, <1>2, Sizes DEF Area, Fields
<1>4. /\ flash' \in FlashType /\ flash'[Current] = flash[Current]
      /\ flash'[Target].alloc = flash[Target].alloc
      /\ \A g \in Fields : flash'[Target].cell[g] = IF g = Position + k THEN value
                                                    ELSE flash[Target].cell[g]
  <2>1. Position + k \in Fields
    BY <1>3
  <2>2. flash \in FlashType
    BY <1>1 DEF TypesOK
  <2> QED
    BY <1>2, <2>1, <2>2 DEF FlashType, SectorType
<1>5. Target' = Target /\ Position' = Position /\ Current' = Current
  BY DEF Target, Position, Current
<1>6. Programmed'
  <2>1. \A i \in 0..PayloadFields :
             flash'[Target].cell[Position + i] = IF i = k THEN value
                                                 ELSE flash[Target].cell[Position + i]
    <3> SUFFICES ASSUME NEW i \in 0..PayloadFields
                 PROVE  flash'[Target].cell[Position + i]
                           = IF i = k THEN value ELSE flash[Target].cell[Position + i]
      OBVIOUS
    <3>1. Position + i = Position + k <=> i = k
      BY <1>2
    <3> QED
      BY <1>3, <1>4, <3>1
  <2> QED
    BY <2>1
<1>7. \A i \in 0..PayloadFields : flash[Target].alloc[Position + i] = Invalid
  <2>1. pc # "claim" /\ pc # "publish"
    OBVIOUS
  <2> QED
    BY <1>1, <2>1 DEF Claimed
<1>8. Dead(flash'[Target])
  <2> DEFINE n == RecordFields
             sector == flash[Target]
  <2>1. n \in Nat /\ Position \in Nat /\ Position + n <= N
    BY <1>2, <1>3, Sizes
  <2>2. \A f \in Fields : /\ f < Position => sector.alloc[f] # Erased
                          /\ f >= Position + n => sector.alloc[f] = Erased
                          /\ f \in Position..(Position + n - 1)
                               => sector.alloc[f] = Invalid
    <3>1. \A f \in Fields : f \in Position..(Position + n - 1)
                               => sector.alloc[f] = Invalid
      <4> SUFFICES ASSUME NEW f \in Fields, f \in Position..(Position + n - 1)
                   PROVE  sector.alloc[f] = Invalid
        OBVIOUS
      <4>1. f - Position \in 0..PayloadFields /\ Position + (f - Position) = f
        BY <1>2, Sizes DEF Fields
      <4> QED
        BY <1>7, <4>1
    <3> QED
      BY <1>1, <3>1 DEF Area
  <2>3. Position > 0 => sector.alloc[Position - 1] # Valid
    BY <1>1 DEF Area
  <2>4. Dead(sector)
    <3> HIDE DEF n, sector
    <3>1. sector \in SectorType
      BY <1>2 DEF sector
    <3> QED
      BY <2>1, <2>2, <2>3, <3>1, ClaimDead
  <2> QED
    BY <1>4, <2>4 DEF Dead, Front
<1>9. stored' = stored /\ Rest(flash', nvm', stored')
  <2>1. nvm' \in RamType /\ nvm' = [nvm EXCEPT !.index = nvm'.index]
    BY <1>1 DEF TypesOK, RamType
  <2> QED
    BY <1>1, <1>4, <1>8, <2>1, StoredKept DEF Reread
<1>10. TypesOK'
  BY <1>1, <1>4, <1>9, Sizes DEF TypesOK, Resting, Saving, Staging
<1>11. BlankAbove'
  <2> SUFFICES ASSUME NEW s \in Sectors, NEW f \in Fields, flash'[s].alloc[f] = Erased
               PROVE  flash'[s].cell[f] = Blank
    BY DEF BlankAbove
  <2>1. CASE s = Current
    BY <1>4, <2>1 DEF IInv, BlankAbove
  <2>2. CASE s = Target
    <3>1. flash[Target].alloc[f] = Erased /\ flash[Target].cell[f] = Blank
      BY <1>4, <2>2 DEF IInv, BlankAbove
    <3>2. f # Position + k
      BY <1>7, <3>1 DEF Erased, Invalid
    <3> QED
      BY <1>4, <2>2, <3>1, <3>2
  <2> QED
    BY <1>2, <2>1, <2>2
<1>12. AtRest' /\ Indexed'
  BY <1>1, <1>4, <1>5, <1>9 DEF AtRest, Indexed, Resting, Saving, Staging
<1>13. Area'
  BY <1>1, <1>3, <1>4, <1>5, Sizes DEF Area
<1>14. Claimed'
  <2>1. pc' # "claim" /\ (pc' = "publish" => at' = 0)
    OBVIOUS
  <2>2. \A i \in 0..PayloadFields : ~(i < 0)
    BY Sizes
  <2> QED
    BY <1>4, <1>5, <1>7, <2>1, <2>2 DEF Claimed
<1> QED
  BY <1>6, <1>9, <1>10, <1>11, <1>12, <1>13, <1>14 DEF IInv, Staged, Overlap

LEMMA NextSequenceIs ==
  ASSUME nvm \in RamType
  PROVE  NextSequence \in 0..(SeqModulus - 1)
<1>1. nvm.sequence \in Nat /\ SeqModulus \in Nat /\ SeqModulus > 0
  BY Sizes DEF RamType
<1> QED
  BY <1>1 DEF NextSequence

LEMMA WriteHeaderHolds ==
  ASSUME IInv, WriteHeader, Reread
  PROVE  IInv' /\ stored' = stored
<1> DEFINE value == Header(NextSequence, Unsealed)
<1>1. /\ pc = "header" /\ pc' = "payload" /\ storeState' = "inProgress" /\ nvm' = nvm
      /\ running' = running /\ at' = at /\ outcome' = outcome /\ saves' = saves
      /\ ProgramCell(Target, Position, value)
  BY DEF WriteHeader, NextSequence
<1>2. TypesOK /\ Area /\ Programmed /\ at = 0
  BY <1>1 DEF IInv, Staged, Staging, Area
<1>3. value \in Contents
  BY <1>2, NextSequenceIs DEF TypesOK, Contents, Headers, Seals
<1>4. flash[Target].cell[Position] = Blank
      /\ \A i \in 1..PayloadFields : flash[Target].cell[Position + i] = Blank
  BY <1>1, <1>2 DEF Programmed
<1>5. 0 \in 0..PayloadFields /\ Position + 0 = Position
  BY <1>2, PlaceIs, Sizes
<1>6. flash' = [flash EXCEPT ![Target].cell[Position + 0] = value]
  <2>1. flash' = [flash EXCEPT ![Target].cell[Position] = value]
    <3> HIDE DEF value
    <3> QED
      BY <1>1, <1>2, <1>4, PlaceIs DEF ProgramCell
  <2> QED
    BY <1>5, <2>1
<1>7. Target' = Target /\ Position' = Position /\ NextSequence' = NextSequence
  BY <1>1 DEF Target, Position, NextSequence
<1>8. (\A i \in 0..PayloadFields :
          flash'[Target].cell[Position + i] = IF i = 0 THEN value
                                              ELSE flash[Target].cell[Position + i])
      => Programmed'
  <2> SUFFICES ASSUME \A i \in 0..PayloadFields :
                         flash'[Target].cell[Position + i] =
                            IF i = 0 THEN value ELSE flash[Target].cell[Position + i]
               PROVE  Programmed'
    OBVIOUS
  <2>1. flash'[Target].cell[Position] = value
    BY <1>5
  <2>2. \A i \in 1..PayloadFields : i \in 0..PayloadFields /\ i # 0 /\ i > 0
    BY Sizes
  <2>3. \A i \in 1..PayloadFields : flash'[Target].cell[Position + i] = Blank
    BY <1>4, <2>2
  <2> HIDE DEF value
  <2>4. flash'[Target].cell[Position] = Header(NextSequence, Unsealed)
    BY <2>1 DEF value
  <2> QED
    BY <1>1, <1>2, <1>7, <2>2, <2>3, <2>4 DEF Programmed
<1> HIDE DEF value
<1> QED
  BY <1>1, <1>2, <1>3, <1>5, <1>6, <1>8, Sizes, ProgramHolds

LEMMA WriteChunkHolds ==
  ASSUME IInv, WriteChunk, Reread
  PROVE  IInv' /\ stored' = stored
<1> DEFINE k == at + 1
           value == Chunk(running, k)
<1>1. /\ pc = "payload" /\ storeState' = storeState /\ nvm' = nvm
      /\ pc' = IF k = PayloadFields THEN "seal" ELSE "payload"
      /\ at' = k % PayloadFields
      /\ running' = running /\ outcome' = outcome /\ saves' = saves
      /\ ProgramCell(Target, Position + at + 1, value)
  BY DEF WriteChunk
<1>2. TypesOK /\ Area /\ Programmed /\ at \in Nat /\ at < PayloadFields
  BY <1>1, Sizes DEF IInv, Staged, Staging, Area, TypesOK
<1>3. k \in 1..PayloadFields /\ k \in 0..PayloadFields /\ Position + at + 1 = Position + k
  BY <1>2, Sizes, PlaceIs
<1>4. at' = IF k = PayloadFields THEN 0 ELSE k
  BY <1>1, <1>3, Sizes
<1>5. running \in Configs
  BY <1>1, <1>2 DEF TypesOK
<1>6. value \in Contents
  BY <1>3, <1>5 DEF Contents, Chunks
<1>7. /\ flash[Target].cell[Position] = Header(NextSequence, Unsealed)
      /\ \A i \in 1..PayloadFields : flash[Target].cell[Position + i] =
                                        IF i > at THEN Blank ELSE Chunk(running, i)
  BY <1>1, <1>2 DEF Programmed
<1>8. flash' = [flash EXCEPT ![Target].cell[Position + k] = value]
  <2>1. flash[Target].cell[Position + k] = Blank
    BY <1>2, <1>3, <1>7
  <2>2. ProgramCell(Target, Position + k, value)
    BY <1>1, <1>3
  <2> HIDE DEF k, value
  <2> QED
    BY <2>1, <2>2 DEF ProgramCell
<1>9. Target' = Target /\ Position' = Position /\ NextSequence' = NextSequence
  BY <1>1 DEF Target, Position, NextSequence
<1>10. (\A i \in 0..PayloadFields :
          flash'[Target].cell[Position + i] = IF i = k THEN value
                                              ELSE flash[Target].cell[Position + i])
       => Programmed'
  <2> SUFFICES ASSUME \A i \in 0..PayloadFields :
                         flash'[Target].cell[Position + i] =
                            IF i = k THEN value ELSE flash[Target].cell[Position + i]
               PROVE  Programmed'
    OBVIOUS
  <2>1. 0 \in 0..PayloadFields /\ 0 # k /\ Position + 0 = Position
    BY <1>2, <1>3, Sizes, PlaceIs
  <2>2. flash'[Target].cell[Position] = Header(NextSequence, Unsealed)
    BY <1>7, <2>1
  <2>3. \A i \in 1..PayloadFields : flash'[Target].cell[Position + i] =
                                        IF i > k THEN Blank ELSE Chunk(running, i)
    <3> SUFFICES ASSUME NEW i \in 1..PayloadFields
                 PROVE  flash'[Target].cell[Position + i] =
                                        IF i > k THEN Blank ELSE Chunk(running, i)
      OBVIOUS
    <3>1. i \in 0..PayloadFields /\ (i > at <=> i = k \/ i > k)
      BY <1>2
    <3> QED
      BY <1>2, <1>7, <3>1
  <2>4. \A i \in 1..PayloadFields : (pc' = "payload" /\ i > at') <=> i > k
    BY <1>1, <1>3, <1>4, Sizes
  <2>5. pc' \in {"payload", "seal"}
    BY <1>1
  <2> HIDE DEF k, value
  <2> QED
    BY <1>1, <1>9, <2>2, <2>3, <2>4, <2>5 DEF Programmed
<1>11. /\ pc' \in {"payload", "seal", "publish"} /\ at' \in Nat /\ at' < PayloadFields
       /\ (pc' # "payload" => at' = 0)
  BY <1>1, <1>3, <1>4, Sizes
<1> HIDE DEF k, value
<1> QED
  BY <1>1, <1>2, <1>3, <1>6, <1>8, <1>10, <1>11, ProgramHolds DEF TypesOK

LEMMA SealHeaderHolds ==
  ASSUME IInv, SealHeader, Reread
  PROVE  IInv' /\ stored' = stored
<1> DEFINE value == Header(NextSequence, Record(running))
<1>1. /\ pc = "seal" /\ pc' = "publish" /\ storeState' = storeState /\ nvm' = nvm
      /\ running' = running /\ at' = at /\ outcome' = outcome /\ saves' = saves
  BY DEF SealHeader
<1>2. TypesOK /\ Area /\ Programmed /\ at = 0
  BY <1>1 DEF IInv, Staged, Staging, Area
<1>3. value \in Contents
  <2>1. running \in Configs
    BY <1>1, <1>2 DEF TypesOK
  <2> QED
    BY <1>2, <2>1, NextSequenceIs DEF TypesOK, Contents, Headers, Seals
<1>4. /\ flash[Target].cell[Position] = Header(NextSequence, Unsealed)
      /\ \A i \in 1..PayloadFields : flash[Target].cell[Position + i] = Chunk(running, i)
  BY <1>1, <1>2 DEF Programmed
<1>5. 0 \in 0..PayloadFields /\ Position + 0 = Position
  BY <1>2, PlaceIs, Sizes
<1>6. PayloadAt(flash[Target], Position + 1) = Record(running)
  <2>1. \A i \in 1..PayloadFields : Position + 1 + i - 1 = Position + i
    BY <1>2, PlaceIs, Sizes
  <2> QED
    BY <1>4, <2>1 DEF PayloadAt, Record
<1>7. flash' = [flash EXCEPT ![Target].cell[Position + 0] = value]
  <2>1. /\ flash[Target].cell[Position].kind = "header"
        /\ flash[Target].cell[Position].payload = Unsealed
        /\ flash[Target].cell[Position].sequence = NextSequence
    BY <1>4 DEF Header
  <2>2. flash' = [flash EXCEPT ![Target].cell[Position] =
                     IF @.kind = "header" /\ @.payload = Unsealed
                     THEN Header(@.sequence, PayloadAt(flash[Target], Position + 1))
                     ELSE Garbage]
    BY DEF SealHeader
  <2> QED
    BY <1>5, <1>6, <2>1, <2>2
<1>8. Target' = Target /\ Position' = Position /\ NextSequence' = NextSequence
  BY <1>1 DEF Target, Position, NextSequence
<1>9. (\A i \in 0..PayloadFields :
          flash'[Target].cell[Position + i] = IF i = 0 THEN value
                                              ELSE flash[Target].cell[Position + i])
      => Programmed'
  <2> SUFFICES ASSUME \A i \in 0..PayloadFields :
                         flash'[Target].cell[Position + i] =
                            IF i = 0 THEN value ELSE flash[Target].cell[Position + i]
               PROVE  Programmed'
    OBVIOUS
  <2>1. flash'[Target].cell[Position] = value
    BY <1>5
  <2>2. \A i \in 1..PayloadFields : i \in 0..PayloadFields /\ i # 0
    BY Sizes
  <2>3. \A i \in 1..PayloadFields : flash'[Target].cell[Position + i] = Chunk(running, i)
    BY <1>4, <2>2
  <2>4. flash'[Target].cell[Position] = Header(NextSequence, Record(running))
    BY <2>1
  <2> QED
    BY <1>1, <1>8, <2>3, <2>4 DEF Programmed
<1> HIDE DEF value
<1> QED
  BY <1>1, <1>2, <1>3, <1>5, <1>7, <1>9, Sizes, ProgramHolds DEF TypesOK

(* What publishing one more field does to the area. *)
LEMMA PublishedIs ==
  ASSUME IInv, PublishField
  PROVE  /\ flash' \in FlashType /\ flash'[Current] = flash[Current]
         /\ flash'[Target].cell = flash[Target].cell
         /\ at \in 0..PayloadFields
         /\ Position \in Nat /\ Position + RecordFields <= N
         /\ \A k \in 0..PayloadFields :
               /\ Position + k \in Fields
               /\ flash'[Target].alloc[Position + k] = IF k < at + 1 THEN Valid ELSE Invalid
         /\ \A f \in Fields :
               /\ f < Position => flash'[Target].alloc[f] # Erased
               /\ f >= Position + RecordFields => flash'[Target].alloc[f] = Erased
         /\ \A f \in Fields : f < Position + RecordFields <=> flash'[Target].alloc[f] # Erased
         /\ Position > 0 => flash'[Target].alloc[Position - 1] # Valid
         /\ \A f \in Fields : flash'[Target].alloc[f] = Erased
                                 => flash[Target].alloc[f] = Erased
<1>1. pc = "publish" /\ SetAlloc(Target, Position + at, Valid)
  BY DEF PublishField
<1>2. TypesOK /\ Area /\ Claimed
  BY <1>1 DEF IInv, Staged, Staging
<1>3. Current \in Sectors /\ Target \in Sectors /\ Position \in 0..N /\ Current = 1 - Target
  BY <1>2, PlaceIs
<1>4. /\ at \in 0..PayloadFields /\ Position \in Nat /\ Position + RecordFields <= N
      /\ Position + at \in Fields
  BY <1>1, <1>2, <1>3, Sizes DEF TypesOK, Area, Fields
<1>5. /\ flash' \in FlashType /\ flash'[Current] = flash[Current]
      /\ flash'[Target].cell = flash[Target].cell
      /\ \A g \in Fields : flash'[Target].alloc[g] = IF g = Position + at THEN Valid
                                                     ELSE flash[Target].alloc[g]
  BY <1>1, <1>2, <1>3, <1>4, AllocSet DEF TypesOK, States
<1>6. \A k \in 0..PayloadFields :
         /\ Position + k \in Fields
         /\ flash'[Target].alloc[Position + k] = IF k < at + 1 THEN Valid ELSE Invalid
  <2> SUFFICES ASSUME NEW k \in 0..PayloadFields
               PROVE  /\ Position + k \in Fields
                      /\ flash'[Target].alloc[Position + k] = IF k < at + 1 THEN Valid
                                                              ELSE Invalid
    OBVIOUS
  <2>1. Position + k \in Fields /\ k \in Nat
    BY <1>3, <1>4, Sizes DEF Fields
  <2>2. Position + k = Position + at <=> k = at
    BY <1>3, <1>4, <2>1
  <2>3. flash[Target].alloc[Position + k] = IF k < at THEN Valid ELSE Invalid
    BY <1>1, <1>2 DEF Claimed
  <2> QED
    BY <1>4, <1>5, <2>1, <2>2, <2>3
<1>7. \A f \in Fields :
         /\ f < Position => flash'[Target].alloc[f] # Erased
         /\ f >= Position + RecordFields => flash'[Target].alloc[f] = Erased
  BY <1>2, <1>3, <1>4, <1>5, Sizes DEF Area, Fields
<1>8. Position > 0 => flash'[Target].alloc[Position - 1] # Valid
  <2>1. Position > 0 => Position - 1 \in Fields
    BY <1>3, Sizes DEF Fields
  <2> QED
    BY <1>2, <1>3, <1>4, <1>5, <2>1 DEF Area
<1>9. \A f \in Fields : f < Position + RecordFields <=> flash'[Target].alloc[f] # Erased
  <2> SUFFICES ASSUME NEW f \in Fields
               PROVE  f < Position + RecordFields <=> flash'[Target].alloc[f] # Erased
    OBVIOUS
  <2>1. CASE f < Position \/ f >= Position + RecordFields
    BY <1>4, <1>7, <2>1, Sizes DEF Fields
  <2>2. CASE ~(f < Position) /\ ~(f >= Position + RecordFields)
    <3>1. f - Position \in 0..PayloadFields /\ Position + (f - Position) = f
      BY <1>3, <2>2, Sizes DEF Fields
    <3>2. flash'[Target].alloc[f] # Erased
      BY <1>6, <3>1 DEF Valid, Invalid, Erased
    <3> QED
      BY <1>3, <2>2, <3>2, Sizes DEF Fields
  <2> QED
    BY <2>1, <2>2
<1>10. \A f \in Fields : flash'[Target].alloc[f] = Erased => flash[Target].alloc[f] = Erased
  BY <1>5 DEF Valid, Erased
<1> QED
  BY <1>4, <1>5, <1>6, <1>7, <1>8, <1>9, <1>10

LEMMA PublishMoreHolds ==
  ASSUME IInv, PublishField, Reread, at + 1 # RecordFields
  PROVE  IInv' /\ stored' = stored
<1>1. /\ pc = "publish" /\ pc' = "publish" /\ nvm' = nvm /\ at' = at + 1
      /\ storeState' = storeState /\ running' = running /\ outcome' = outcome
      /\ saves' = saves
  BY DEF PublishField
<1>2. TypesOK /\ Rest(flash, nvm, stored) /\ Programmed
      /\ Front(flash[Current], nvm.index[Current])
  BY <1>1 DEF IInv, AtRest, Indexed, Staged, Saving, Staging
<1>3. Current \in Sectors /\ Target \in Sectors /\ Sectors = {Target, Current}
  BY <1>2, PlaceIs DEF Sectors
<1>4. Target' = Target /\ Position' = Position /\ Current' = Current
      /\ NextSequence' = NextSequence
  BY <1>1 DEF Target, Position, Current, NextSequence
<1>5. Dead(flash'[Target])
  <2> DEFINE sector == flash'[Target]
  <2>1. sector \in SectorType
    BY <1>3, PublishedIs DEF FlashType
  <2>2. /\ PayloadFields \in 0..PayloadFields /\ ~(PayloadFields < at + 1)
        /\ Position + PayloadFields = Position + RecordFields - 1
    BY PublishedIs, Sizes
  <2>3. sector.alloc[Position + RecordFields - 1] # Valid
    <3>1. sector.alloc[Position + PayloadFields] = Invalid
      BY <2>2, PublishedIs
    <3> QED
      BY <2>2, <3>1 DEF Valid, Invalid
  <2>4. \A f \in Fields : f < Position + RecordFields <=> sector.alloc[f] # Erased
    BY PublishedIs
  <2> HIDE DEF sector
  <2>5. Dead(sector)
    BY <2>1, <2>3, <2>4, PublishedIs, Sizes, PublishDead
  <2> QED
    BY <2>5 DEF sector
<1>6. stored' = stored /\ Rest(flash', nvm', stored')
  <2>1. nvm' \in RamType /\ nvm' = [nvm EXCEPT !.index = nvm'.index]
    BY <1>1, <1>2 DEF TypesOK, RamType
  <2> QED
    BY <1>2, <1>5, <2>1, PublishedIs, StoredKept DEF Reread
<1>7. TypesOK'
  BY <1>1, <1>2, <1>6, PublishedIs, Sizes DEF TypesOK, Resting, Saving, Staging
<1>8. BlankAbove'
  BY <1>3, PublishedIs DEF IInv, BlankAbove
<1>9. AtRest' /\ Indexed'
  BY <1>1, <1>2, <1>4, <1>6, PublishedIs DEF AtRest, Indexed, Resting, Saving, Staging
<1>10. Area'
  BY <1>1, <1>4, PublishedIs, Sizes DEF Area
<1>11. Claimed'
  BY <1>1, <1>4, PublishedIs DEF Claimed
<1>12. Programmed'
  BY <1>1, <1>2, <1>4, PublishedIs DEF Programmed
<1> QED
  BY <1>1, <1>6, <1>7, <1>8, <1>9, <1>10, <1>11, <1>12 DEF IInv, Staged, Overlap

(* The last field of the new record is the one step at which a save takes effect.  *)
LEMMA PublishLastHolds ==
  ASSUME IInv, PublishField, Reread, at + 1 = RecordFields
  PROVE  IInv' /\ stored' = running
<1>1. /\ pc = "publish" /\ pc' = "retire" /\ at' = 0
      /\ nvm' = [index |-> [nvm.index EXCEPT ![Target] = @ + RecordFields],
                 readSector |-> Target, hasHeader |-> TRUE,
                 readStart |-> Position, readFields |-> RecordFields,
                 sequence |-> NextSequence]
      /\ storeState' = storeState /\ running' = running /\ outcome' = outcome
      /\ saves' = saves
  BY DEF PublishField, NextSequence
<1>2. TypesOK /\ Rest(flash, nvm, stored) /\ Programmed
      /\ Front(flash[Current], nvm.index[Current])
  BY <1>1 DEF IInv, AtRest, Indexed, Staged, Saving, Staging
<1>3. /\ Current \in Sectors /\ Target \in Sectors /\ Sectors = {Target, Current}
      /\ Target # Current /\ Current = 1 - Target /\ Position \in 0..N
  BY <1>2, PlaceIs DEF Sectors
<1>4. running \in Configs
  BY <1>1, <1>2 DEF TypesOK
<1>5. /\ nvm' \in RamType /\ nvm'.hasHeader /\ nvm'.readStart = Position
      /\ nvm'.readFields = RecordFields /\ nvm'.sequence = NextSequence
      /\ nvm'.readSector = Target
      /\ nvm'.index[Target] = Position + RecordFields
      /\ nvm'.index[Current] = nvm.index[Current]
  <2>1. nvm.index \in [Sectors -> 0..N]
    BY <1>2 DEF TypesOK, RamType
  <2>2. Position + RecordFields \in 0..N /\ RecordFields \in 0..N
    BY <1>3, PublishedIs, Sizes
  <2>3. NextSequence \in 0..(SeqModulus - 1)
    BY <1>2, NextSequenceIs DEF TypesOK
  <2>4. [nvm.index EXCEPT ![Target] = @ + RecordFields] \in [Sectors -> 0..N]
    BY <1>3, <2>1, <2>2 DEF Position
  <2> QED
    BY <1>1, <1>3, <2>1, <2>2, <2>3, <2>4 DEF RamType, Position
<1>6. Current' = Target /\ Target' = Current
  BY <1>3, <1>5 DEF Current, Target
<1>7. Live(flash'[Target], running, nvm'.hasHeader, nvm'.readStart, nvm'.readFields,
           nvm'.sequence)
  <2> DEFINE sector == flash'[Target]
  <2>1. Front(sector, Position + RecordFields)
    BY PublishedIs, Sizes DEF Front, Fields
  <2>2. \A f \in Position..(Position + RecordFields - 1) : sector.alloc[f] = Valid
    <3> SUFFICES ASSUME NEW f \in Position..(Position + RecordFields - 1)
                 PROVE  sector.alloc[f] = Valid
      OBVIOUS
    <3>1. /\ f - Position \in 0..PayloadFields /\ Position + (f - Position) = f
          /\ f - Position < at + 1
      BY <1>3, Sizes
    <3> QED
      BY <3>1, PublishedIs
  <2>3. sector.cell[Position] = Header(NextSequence, Record(running))
    BY <1>1, <1>2, PublishedIs DEF Programmed
  <2>4. PayloadAt(sector, Position + 1) = Record(running)
    <3>1. \A i \in 1..PayloadFields : sector.cell[Position + i] = Chunk(running, i)
      BY <1>1, <1>2, PublishedIs DEF Programmed
    <3>2. \A i \in 1..PayloadFields : Position + 1 + i - 1 = Position + i
      BY <1>3, Sizes
    <3> QED
      BY <3>1, <3>2 DEF PayloadAt, Record
  <2>5. Position > 0 => sector.alloc[Position - 1] # Valid
    BY PublishedIs
  <2> HIDE DEF sector
  <2>6. Live(sector, running, nvm'.hasHeader, nvm'.readStart, nvm'.readFields, nvm'.sequence)
    BY <1>5, <2>1, <2>2, <2>3, <2>4, <2>5 DEF Live
  <2> QED
    BY <2>6 DEF sector
<1>8. Superseded(flash'[Current], nvm'.sequence)
  <2>1. flash'[Current] = flash[Current]
    BY PublishedIs
  <2>2. CASE NoRecord(flash, nvm, stored)
    BY <2>1, <2>2 DEF NoRecord, Superseded, Current
  <2>3. CASE OneRecord(flash, nvm, stored)
    <3>1. /\ stored \in Configs /\ nvm.hasHeader \in BOOLEAN /\ nvm.readStart \in 0..N
          /\ nvm.readFields \in 0..N /\ nvm.sequence \in 0..(SeqModulus - 1)
      BY <1>2 DEF TypesOK, RamType
    <3>2. Live(flash'[Current], stored, nvm.hasHeader, nvm.readStart, nvm.readFields,
               nvm.sequence)
      BY <2>1, <2>3 DEF OneRecord, Current
    <3>3. nvm'.sequence = (nvm.sequence + 1) % SeqModulus
      BY <1>5 DEF NextSequence
    <3> QED
      BY <3>1, <3>2, <3>3 DEF Superseded
  <2> QED
    BY <1>2, <2>2, <2>3 DEF Rest
<1>9. stored' = running
  <2>1. flash'[nvm'.readSector] = flash'[Target]
        /\ flash'[1 - nvm'.readSector] = flash'[Current]
    BY <1>3, <1>5
  <2>2. Loaded(flash', NVM_init(flash')) = running
    BY <1>4, <1>5, <1>7, <1>8, <2>1, PublishedIs, NewestRead
  <2> QED
    BY <2>2 DEF Reread
<1>10. TypesOK'
  BY <1>1, <1>2, <1>4, <1>5, <1>9, PublishedIs, Sizes DEF TypesOK, Resting, Saving, Staging
<1>11. BlankAbove'
  BY <1>3, PublishedIs DEF IInv, BlankAbove
<1>12. AtRest' /\ Staged'
  BY <1>1 DEF AtRest, Staged, Resting, Saving, Staging
<1>13. Indexed'
  <2>1. Front(flash'[Target], Position + RecordFields)
    BY <1>5, <1>7 DEF Live
  <2>2. Front(flash'[Current], nvm.index[Current])
    BY <1>2, PublishedIs
  <2> QED
    BY <1>1, <1>3, <1>5, <2>1, <2>2 DEF Indexed, Saving, Staging
<1>14. Overlap'
  BY <1>1, <1>5, <1>6, <1>7, <1>8, <1>9 DEF Overlap
<1> QED
  BY <1>9, <1>10, <1>11, <1>12, <1>13, <1>14 DEF IInv

LEMMA RetireOldHolds ==
  ASSUME IInv, NEW ok \in BOOLEAN, ok, RetireOld(ok), Reread
  PROVE  IInv' /\ stored' = stored /\ stored = running
<1> DEFINE e == nvm.index[Target]
           room == e < N
<1>1. /\ pc = "retire" /\ pc' = "idle" /\ storeState' = "idle" /\ outcome' = "saved"
      /\ running' = running /\ at' = at /\ saves' = saves
      /\ flash' = IF room THEN [flash EXCEPT ![Target].alloc[e] = Invalid]
                  ELSE [flash EXCEPT ![Target] = ErasedSector]
      /\ nvm' = [nvm EXCEPT !.index[Target] = IF room THEN e + 1 ELSE 0]
  BY DEF RetireOld
<1>2. /\ TypesOK /\ \A s \in Sectors : Front(flash[s], nvm.index[s])
      /\ Live(flash[Current], running, nvm.hasHeader, nvm.readStart, nvm.readFields,
              nvm.sequence)
      /\ stored = running
  BY <1>1 DEF IInv, Indexed, Overlap
<1>3. /\ Current \in Sectors /\ Target \in Sectors /\ Sectors = {Target, Current}
      /\ Target # Current /\ Current = 1 - Target /\ Target = 1 - Current /\ e \in 0..N
  BY <1>2, PlaceIs DEF Sectors, Position
<1>4. running \in Configs /\ nvm \in RamType /\ flash \in FlashType
  BY <1>1, <1>2 DEF TypesOK
<1>5. /\ flash' \in FlashType /\ flash'[Current] = flash[Current]
      /\ Dead(flash'[Target]) /\ Front(flash'[Target], IF room THEN e + 1 ELSE 0)
      /\ \A f \in Fields : flash'[Target].alloc[f] = Erased
                             => flash'[Target].cell[f] = Blank
  <2>1. CASE room
    <3>1. e \in Fields /\ Invalid \in States
      BY <1>3, <2>1, Sizes DEF Fields, States
    <3>2. SetAlloc(Target, e, Invalid)
      BY <1>1, <2>1 DEF SetAlloc
    <3>3. /\ flash' \in FlashType /\ flash'[1 - Target] = flash[1 - Target]
          /\ flash'[Target].cell = flash[Target].cell
          /\ \A g \in Fields : flash'[Target].alloc[g] = IF g = e THEN Invalid
                                                         ELSE flash[Target].alloc[g]
      BY <1>3, <1>4, <3>1, <3>2, AllocSet
    <3>4. Front(flash[Target], e)
      BY <1>2, <1>3
    <3>5. Front(flash'[Target], e + 1)
      <4>1. ASSUME NEW f \in Fields
            PROVE  flash'[Target].alloc[f] = Erased <=> f >= e + 1
        BY <1>3, <3>3, <3>4, Sizes DEF Front, Fields, Invalid, Erased
      <4>2. e + 1 \in 0..N
        BY <1>3, <2>1, Sizes
      <4> QED
        BY <4>1, <4>2 DEF Front
    <3>6. Dead(flash'[Target])
      <4> DEFINE sector == flash'[Target]
                 end == e + 1
      <4>1. end \in 0..N /\ end - 1 = e
        BY <1>3, <2>1, Sizes
      <4>2. flash'[Target].alloc[e] # Valid
        BY <3>1, <3>3 DEF Valid, Invalid
      <4>3. sector.alloc[end - 1] # Valid
        BY <4>1, <4>2
      <4>4. Front(sector, end)
        BY <3>5
      <4> HIDE DEF sector, end
      <4>5. Dead(sector)
        BY <4>1, <4>3, <4>4, DeadAt
      <4> QED
        BY <4>5 DEF sector
    <3>7. \A f \in Fields : flash'[Target].alloc[f] = Erased
                              => flash'[Target].cell[f] = Blank
      BY <1>3, <3>3 DEF IInv, BlankAbove, Invalid, Erased
    <3> QED
      BY <1>3, <2>1, <3>3, <3>5, <3>6, <3>7
  <2>2. CASE ~room
    <3>1. flash' = [flash EXCEPT ![Target] = ErasedSector]
      BY <1>1, <2>2
    <3> QED
      BY <1>3, <1>4, <2>2, <3>1, ErasedIs DEF FlashType
  <2> QED
    BY <2>1, <2>2
<1>6. /\ nvm' \in RamType /\ nvm' = [nvm EXCEPT !.index = nvm'.index]
      /\ nvm'.index[Target] = (IF room THEN e + 1 ELSE 0)
      /\ nvm'.index[Current] = nvm.index[Current]
      /\ nvm'.readSector = nvm.readSector /\ nvm'.hasHeader = nvm.hasHeader
      /\ nvm'.readStart = nvm.readStart /\ nvm'.readFields = nvm.readFields
      /\ nvm'.sequence = nvm.sequence
  <2>1. (IF room THEN e + 1 ELSE 0) \in 0..N
    BY <1>3, Sizes
  <2> HIDE DEF room
  <2> QED
    BY <1>1, <1>3, <1>4, <2>1 DEF RamType
<1>7. Rest(flash', nvm', stored)
  <2>1. flash'[nvm'.readSector] = flash[Current] /\ Dead(flash'[1 - nvm'.readSector])
    BY <1>3, <1>5, <1>6 DEF Current
  <2> QED
    BY <1>2, <1>6, <2>1 DEF Rest, OneRecord
<1>8. stored' = stored
  BY <1>2, <1>4, <1>5, <1>6, <1>7, RestRead DEF Reread
<1>9. TypesOK'
  BY <1>1, <1>2, <1>4, <1>5, <1>6, <1>8 DEF TypesOK, Resting, Saving, Staging
<1>10. BlankAbove'
  BY <1>3, <1>5 DEF IInv, BlankAbove
<1>11. AtRest'
  BY <1>1, <1>7, <1>8 DEF AtRest, Resting, Saving, Staging
<1>12. Indexed'
  <2>1. \A s \in Sectors : Front(flash'[s], nvm'.index[s])
    <3>1. Front(flash'[Target], nvm'.index[Target])
      BY <1>5, <1>6
    <3>2. Front(flash'[Current], nvm'.index[Current])
      BY <1>2, <1>3, <1>5, <1>6
    <3> QED
      BY <1>3, <3>1, <3>2
  <2> QED
    BY <1>1, <2>1 DEF Indexed, Saving, Staging
<1>13. Staged' /\ Overlap'
  BY <1>1 DEF Staged, Overlap, Staging
<1> QED
  BY <1>2, <1>8, <1>9, <1>10, <1>11, <1>12, <1>13 DEF IInv

LEMMA FlashFailureHolds ==
  ASSUME IInv, FlashFailure, Reread
  PROVE  IInv' /\ stored' = stored
<1>1. /\ pc \in Saving /\ pc' = "idle" /\ storeState' = "failed" /\ outcome' = "failed"
      /\ at' = 0 /\ flash' = flash /\ nvm' = nvm /\ running' = running /\ saves' = saves
  BY DEF FlashFailure, Saving, Staging
<1>2. TypesOK /\ Rest(flash, nvm, stored)
  BY <1>1 DEF IInv, AtRest
<1>3. stored' = stored /\ Rest(flash', nvm', stored')
  BY <1>1, <1>2, RestRead DEF Reread, TypesOK
<1>4. TypesOK'
  BY <1>1, <1>2, <1>3, Sizes DEF TypesOK, Resting, Saving, Staging
<1>5. BlankAbove'
  BY <1>1 DEF IInv, BlankAbove
<1> QED
  BY <1>1, <1>3, <1>4, <1>5
  DEF IInv, AtRest, Indexed, Staged, Overlap, Resting, Saving, Staging

LEMMA EraseConfigurationHolds ==
  ASSUME IInv, EraseConfiguration, Reread
  PROVE  IInv' /\ stored' = stored
<1>1. /\ pc = "idle" /\ pc' = "erase0" /\ flash' = flash /\ nvm' = ColdRam
      /\ storeState' = storeState /\ outcome' = outcome /\ running' = running
      /\ at' = at /\ saves' = saves + 1 /\ saves < MaxSaves
  BY DEF EraseConfiguration
<1>2. TypesOK /\ Rest(flash, nvm, stored)
  BY <1>1 DEF IInv, AtRest
<1>3. stored' = stored /\ Rest(flash', nvm, stored')
  BY <1>1, <1>2, RestRead DEF Reread, TypesOK
<1>4. TypesOK'
  BY <1>1, <1>2, <1>3, ColdRamIs, NvmAssumption DEF TypesOK, Resting, Saving, Staging
<1>5. BlankAbove'
  BY <1>1 DEF IInv, BlankAbove
<1>6. AtRest'
  BY <1>1, <1>2, <1>3 DEF AtRest, TypesOK, Saving, Staging
<1> QED
  BY <1>1, <1>3, <1>4, <1>5, <1>6 DEF IInv, Indexed, Staged, Overlap, Saving, Staging

LEMMA EraseSectorHolds ==
  ASSUME IInv, NEW s \in Sectors, NEW ok \in BOOLEAN, EraseSector(s, ok), Reread
  PROVE  IInv' /\ stored' \in {stored, Defaults}
<1>1. /\ pc \in {"erase0", "erase1"} /\ pc' \in {"erase1", "reset"} /\ nvm' = nvm
      /\ flash' = IF ok THEN [flash EXCEPT ![s] = ErasedSector] ELSE flash
      /\ storeState' = storeState /\ outcome' = outcome /\ running' = running
      /\ at' = at /\ saves' = saves
  BY DEF EraseSector
<1>2. TypesOK
  BY DEF IInv
<1>3. PICK ram \in RamType : Rest(flash, ram, stored)
  BY <1>1 DEF IInv, AtRest, Resting
<1>4. flash' \in FlashType
  BY <1>1, <1>2, ErasedIs DEF TypesOK, FlashType
<1>5. \E ram2 \in RamType, c \in {stored, Defaults} : Rest(flash', ram2, c)
  <2>1. CASE ~ok
    BY <1>1, <1>3, <2>1
  <2>2. CASE ok /\ s # ram.readSector
    <3>1. /\ flash'[ram.readSector] = flash[ram.readSector]
          /\ Dead(flash'[1 - ram.readSector])
      BY <1>1, <1>2, <2>2, ErasedIs DEF TypesOK, RamType, FlashType, Sectors
    <3>2. ram = [ram EXCEPT !.index = ram.index] /\ flash \in FlashType
          /\ stored \in Configs
      BY <1>2 DEF RamType, TypesOK
    <3> QED
      BY <1>3, <1>4, <3>1, <3>2, RestMoved
  <2>3. CASE ok /\ s = ram.readSector
    <3> DEFINE ram2 == [index |-> [t \in Sectors |-> 0], readSector |-> 0,
                        hasHeader |-> TRUE, readStart |-> 0, readFields |-> 0,
                        sequence |-> 0]
    <3>1. ram2 \in RamType
      BY Sizes DEF RamType, Sectors
    <3>2. /\ Dead(flash'[ram.readSector]) /\ Dead(flash'[1 - ram.readSector])
          /\ ram.readSector \in {0, 1}
      <4>1. Dead(flash[1 - ram.readSector])
        BY <1>3, OtherDead
      <4> QED
        BY <1>1, <1>2, <2>3, <4>1, ErasedIs DEF TypesOK, RamType, FlashType, Sectors
    <3>3. Dead(flash'[0]) /\ Dead(flash'[1])
      BY <3>2
    <3>4. NoRecord(flash', ram2, Defaults)
      BY <3>3 DEF NoRecord
    <3> QED
      BY <3>1, <3>4 DEF Rest
  <2> QED
    BY <2>1, <2>2, <2>3
<1>6. PICK ram2 \in RamType, c \in {stored, Defaults} : Rest(flash', ram2, c)
  BY <1>5
<1>7. c \in Configs
  BY <1>2, NvmAssumption DEF TypesOK
<1>8. stored' = c
  BY <1>4, <1>6, <1>7, RestRead DEF Reread
<1>9. TypesOK'
  BY <1>1, <1>2, <1>4, <1>7, <1>8 DEF TypesOK, Resting, Saving, Staging
<1>10. BlankAbove'
  <2>1. \A t \in Sectors : flash'[t] = flash[t] \/ flash'[t] = ErasedSector
    BY <1>1, <1>2 DEF TypesOK, FlashType
  <2> QED
    BY <2>1, ErasedIs DEF IInv, BlankAbove
<1>11. AtRest'
  BY <1>1, <1>6, <1>8 DEF AtRest, Saving, Staging
<1> QED
  BY <1>1, <1>6, <1>8, <1>9, <1>10, <1>11
  DEF IInv, Indexed, Staged, Overlap, Saving, Staging

LEMMA PowerLossHolds ==
  ASSUME IInv, PowerLoss, pc # "retire", Reread
  PROVE  IInv' /\ stored' = stored
<1>1. /\ pc' = "off" /\ flash' = flash /\ nvm' = ColdRam /\ storeState' = "idle"
      /\ outcome' = "none" /\ running' = Off /\ at' = 0 /\ saves' = saves
  BY DEF PowerLoss
<1>2. TypesOK
  BY DEF IInv
<1>3. PICK ram \in RamType : Rest(flash, ram, stored)
  BY DEF IInv, AtRest, TypesOK, Saving
<1>4. stored' = stored
  BY <1>1, <1>2, <1>3, RestRead DEF Reread, TypesOK
<1>5. TypesOK'
  BY <1>1, <1>2, <1>4, ColdRamIs, Sizes DEF TypesOK, Resting, Saving, Staging
<1>6. BlankAbove'
  BY <1>1 DEF IInv, BlankAbove
<1>7. AtRest'
  BY <1>1, <1>3, <1>4 DEF AtRest, Saving, Staging
<1> QED
  BY <1>1, <1>4, <1>5, <1>6, <1>7 DEF IInv, Indexed, Staged, Overlap, Saving, Staging

------------------------------------------------------------------------------------
(* Every reachable state satisfies the invariant. *)

LEMMA OldRetired ==
  ASSUME RetireMayFail = FALSE, NEW ok \in {TRUE, ~RetireMayFail}
  PROVE  ok \in BOOLEAN /\ ok
OBVIOUS

LEMMA StepHolds ==
  ASSUME RetireMayFail = FALSE, IInv, [Next]_vars
  PROVE  IInv'
<1>1. CASE UNCHANGED vars
  BY <1>1 DEF vars, IInv, TypesOK, BlankAbove, AtRest, Indexed, Staged, Area, Claimed,
              Programmed, Overlap, Current, Target, Position, NextSequence
<1>2. CASE Operation /\ Reread
  <2>1. CASE PowerUp
    BY <1>2, <2>1, PowerUpHolds
  <2>2. CASE PrepareStore
    BY <1>2, <2>2, PrepareHolds
  <2>3. CASE PrepareStoreRefused
    BY <1>2, <2>3, RefusedHolds
  <2>4. CASE EraseTarget
    BY <1>2, <2>4, EraseTargetHolds
  <2>5. CASE ClaimField
    BY <1>2, <2>5, ClaimFieldHolds
  <2>6. CASE WriteHeader
    BY <1>2, <2>6, WriteHeaderHolds
  <2>7. CASE WriteChunk
    BY <1>2, <2>7, WriteChunkHolds
  <2>8. CASE SealHeader
    BY <1>2, <2>8, SealHeaderHolds
  <2>9. CASE PublishField
    BY <1>2, <2>9, PublishMoreHolds, PublishLastHolds
  <2>10. CASE \E ok \in {TRUE, ~RetireMayFail} : RetireOld(ok)
    BY <1>2, <2>10, OldRetired, RetireOldHolds
  <2>11. CASE FlashFailure
    BY <1>2, <2>11, FlashFailureHolds
  <2>12. CASE EraseConfiguration
    BY <1>2, <2>12, EraseConfigurationHolds
  <2>13. CASE PowerLoss
    <3>1. pc # "retire"
      BY <2>13 DEF PowerLoss
    <3> QED
      BY <1>2, <2>13, <3>1, PowerLossHolds
  <2>14. CASE \E s \in Sectors, ok \in BOOLEAN : EraseSector(s, ok)
    BY <1>2, <2>14, EraseSectorHolds
  <2>15. CASE \E c \in Configs : SetConfig(c)
    BY <1>2, <2>15, SetConfigHolds
  <2> QED
    BY <1>2, <2>1, <2>2, <2>3, <2>4, <2>5, <2>6, <2>7, <2>8, <2>9, <2>10, <2>11, <2>12,
       <2>13, <2>14, <2>15 DEF Operation
<1> QED
  BY <1>1, <1>2 DEF Next, Reread

LEMMA InvariantHolds ==
  ASSUME RetireMayFail = FALSE
  PROVE  Spec => []IInv
<1>1. IInv /\ [Next]_vars => IInv'
  BY StepHolds
<1> QED
  BY <1>1, InitHolds, PTL DEF Spec

LEMMA StepImplements ==
  ASSUME RetireMayFail = FALSE, IInv, [Next]_vars
  PROVE  [Durable!Next]_(Durable!vars)
<1>0. TypesOK
  BY DEF IInv
<1>1. CASE UNCHANGED vars
  BY <1>1 DEF vars, Durable!vars, Phase
<1>2. CASE Operation /\ Reread
  <2>1. CASE PowerUp
    <3>1. Durable!Boot
      BY <1>0, <1>2, <2>1, PowerUpHolds DEF PowerUp, Durable!Boot, Phase, TypesOK
    <3> QED
      BY <3>1 DEF Durable!Next
  <2>2. CASE PrepareStore
    <3>1. Durable!Request
      BY <1>0, <1>2, <2>2, PrepareHolds DEF PrepareStore, Durable!Request, Phase, TypesOK
    <3> QED
      BY <3>1 DEF Durable!Next
  <2>3. CASE PrepareStoreRefused
    <3>1. Durable!Refuse
      BY <1>0, <1>2, <2>3, RefusedHolds
      DEF PrepareStoreRefused, Durable!Refuse, Phase, TypesOK
    <3> QED
      BY <3>1 DEF Durable!Next
  <2>4. CASE EraseTarget
    BY <1>2, <2>4, EraseTargetHolds DEF EraseTarget, Durable!vars, Phase
  <2>5. CASE ClaimField
    BY <1>2, <2>5, ClaimFieldHolds DEF ClaimField, Durable!vars, Phase
  <2>6. CASE WriteHeader
    BY <1>2, <2>6, WriteHeaderHolds DEF WriteHeader, Durable!vars, Phase
  <2>7. CASE WriteChunk
    BY <1>2, <2>7, WriteChunkHolds DEF WriteChunk, Durable!vars, Phase
  <2>8. CASE SealHeader
    BY <1>2, <2>8, SealHeaderHolds DEF SealHeader, Durable!vars, Phase
  <2>9. CASE PublishField /\ at + 1 # RecordFields
    BY <1>2, <2>9, PublishMoreHolds DEF PublishField, Durable!vars, Phase
  <2>10. CASE PublishField /\ at + 1 = RecordFields
    <3>1. Durable!Apply
      BY <1>2, <2>10, PublishLastHolds DEF PublishField, Durable!Apply, Phase
    <3> QED
      BY <3>1 DEF Durable!Next
  <2>11. CASE \E ok \in {TRUE, ~RetireMayFail} : RetireOld(ok)
    <3>1. PICK ok \in {TRUE, ~RetireMayFail} : RetireOld(ok)
      BY <2>11
    <3>2. stored' = stored
      BY <1>2, <3>1, OldRetired, RetireOldHolds
    <3>3. Durable!Succeed
      BY <3>1, <3>2 DEF RetireOld, Durable!Succeed, Phase
    <3> QED
      BY <3>3 DEF Durable!Next
  <2>12. CASE FlashFailure
    <3>1. Durable!Fail
      BY <1>2, <2>12, FlashFailureHolds DEF FlashFailure, Durable!Fail, Phase
    <3> QED
      BY <3>1 DEF Durable!Next
  <2>13. CASE EraseConfiguration
    BY <1>2, <2>13, EraseConfigurationHolds DEF EraseConfiguration, Durable!vars, Phase
  <2>14. CASE PowerLoss
    <3>1. pc # "retire"
      BY <2>14 DEF PowerLoss
    <3>2. stored' = stored
      BY <1>2, <2>14, <3>1, PowerLossHolds
    <3>3. Durable!PowerLoss
      BY <1>0, <2>14, <3>2 DEF PowerLoss, Durable!PowerLoss, Phase, TypesOK
    <3> QED
      BY <3>3 DEF Durable!Next
  <2>15. CASE \E s \in Sectors, ok \in BOOLEAN : EraseSector(s, ok)
    <3>1. PICK s \in Sectors, ok \in BOOLEAN : EraseSector(s, ok)
      BY <2>15
    <3>2. /\ stored' \in {stored, Defaults}
          /\ running' = running /\ outcome' = outcome /\ Phase = "idle" /\ Phase' = "idle"
      BY <1>2, <3>1, EraseSectorHolds DEF EraseSector, Phase, Sectors
    <3>3. CASE stored' = stored
      BY <3>2, <3>3 DEF Durable!vars
    <3>4. CASE stored' = Defaults
      <4>1. Durable!Erase
        BY <3>2, <3>4 DEF Durable!Erase
      <4> QED
        BY <4>1 DEF Durable!Next
    <3> QED
      BY <3>2, <3>3, <3>4
  <2>16. CASE \E c \in Configs : SetConfig(c)
    <3>1. PICK c \in Configs : SetConfig(c)
      BY <2>16
    <3>2. Durable!Edit(c)
      BY <1>0, <1>2, <3>1, SetConfigHolds DEF SetConfig, Durable!Edit, Phase, TypesOK
    <3> QED
      BY <3>2 DEF Durable!Next
  <2> QED
    BY <1>2, <2>1, <2>2, <2>3, <2>4, <2>5, <2>6, <2>7, <2>8, <2>9, <2>10, <2>11, <2>12,
       <2>13, <2>14, <2>15, <2>16 DEF Operation
<1> QED
  BY <1>1, <1>2 DEF Next, Reread

(* What was stored when a save was called is what is stored until it applies.       *)
Kept == before \in Configs /\ (pc \in Saving => before = stored)

LEMMA SavingKeeps ==
  ASSUME RetireMayFail = FALSE, IInv, Next, pc' \in Saving
  PROVE  stored' = stored /\ pc \in Saving \union {"idle"}
<1>1. [Durable!Next]_(Durable!vars)
  BY StepImplements
<1>2. Phase' = "pending"
  BY DEF Phase, Saving, Staging
<1>3. stored' = stored
  BY <1>1, <1>2
  DEF Durable!Next, Durable!vars, Durable!Boot, Durable!Request, Durable!Apply,
      Durable!Succeed, Durable!Fail, Durable!Refuse, Durable!Erase, Durable!PowerLoss,
      Durable!Edit
<1>4. pc \in Saving \union {"idle"}
  BY DEF Next, Operation, PowerUp, PrepareStore, PrepareStoreRefused, EraseTarget,
         ClaimField, WriteHeader, WriteChunk, SealHeader, PublishField, RetireOld,
         FlashFailure, EraseConfiguration, EraseSector, PowerLoss, SetConfig, Saving, Staging
<1> QED
  BY <1>3, <1>4

LEMMA KeptHolds ==
  ASSUME RetireMayFail = FALSE
  PROVE  Spec => [](IInv /\ Kept)
<1>1. Init => Kept
  BY InitHolds DEF Init, Kept, IInv, TypesOK, Saving, Staging
<1>2. IInv /\ Kept /\ [Next]_vars => Kept'
  <2> SUFFICES ASSUME IInv, Kept, [Next]_vars
               PROVE  Kept'
    OBVIOUS
  <2>1. CASE UNCHANGED vars
    BY <2>1 DEF vars, Kept
  <2>2. CASE Next
    <3>1. before' = IF pc = "idle" THEN stored ELSE before
      BY <2>2 DEF Next
    <3>2. before' \in Configs
      BY <3>1 DEF Kept, IInv, TypesOK
    <3>3. ASSUME pc' \in Saving
          PROVE  before' = stored'
      BY <2>2, <3>1, <3>3, SavingKeeps DEF Kept, Saving, Staging
    <3> QED
      BY <3>2, <3>3 DEF Kept
  <2> QED
    BY <2>1, <2>2
<1> QED
  BY <1>1, <1>2, InvariantHolds, PTL DEF Spec

(* The flash, the RAM variables of stm32_nvm.c and the position in a save stay what *)
(* they are declared to be.                                                         *)
LEMMA TypeHolds ==
  ASSUME IInv, Kept
  PROVE  TypeOK
<1>1. \A s \in Sectors : /\ flash[s].alloc \in [Fields -> {Valid, Invalid, Erased}]
                         /\ \A f \in Fields : flash[s].cell[f] \in Contents
  BY DEF IInv, TypesOK, FlashType, SectorType, States
<1>2. \A x \in Contents : x.kind \in {"blank", "garbage", "header", "chunk"}
  BY DEF Contents, Chunks, Headers, Blank, Chunk, Header
<1> QED
  BY <1>1, <1>2 DEF Kept, IInv, TypesOK, TypeOK, RamType, Resting, Saving, Staging

(* The same for every behaviour.                                                    *)
THEOREM TypeCorrect ==
  ASSUME RetireMayFail = FALSE
  PROVE  Spec => []TypeOK
<1>1. IInv /\ Kept => TypeOK
  BY TypeHolds
<1> QED
  BY <1>1, KeptHolds, PTL

(* The log is what every save and every power-up takes it to be: no field is       *)
(* programmed twice, RAM describes the flash, and one sector at most is live.      *)
THEOREM LogSound ==
  ASSUME RetireMayFail = FALSE
  PROVE  Spec => []LogIsSound
<1>1. IInv => NothingSpoiled
  <2> SUFFICES ASSUME IInv PROVE NothingSpoiled
    OBVIOUS
  <2>1. \A s \in Sectors, f \in Fields : flash[s].cell[f] \in Contents
    BY DEF IInv, TypesOK, FlashType, SectorType
  <2>2. \A x \in Contents : x.kind # "garbage"
    BY DEF Contents, Chunks, Headers, Blank, Chunk, Header
  <2>3. Garbage.kind = "garbage"
    BY DEF Garbage
  <2> QED
    BY <2>1, <2>2, <2>3 DEF NothingSpoiled
<1>2. IInv => CacheMatchesFlash
  <2> SUFFICES ASSUME IInv, pc = "idle"
               PROVE  LET fresh == NVM_init(flash)
                      IN  /\ [fresh EXCEPT !.index = nvm.index] = nvm
                          /\ storeState = "idle" => fresh.index = nvm.index
    BY DEF CacheMatchesFlash
  <2> DEFINE fresh == NVM_init(flash)
  <2>1. TypesOK /\ Rest(flash, nvm, stored)
    BY DEF IInv, AtRest
  <2>2. /\ fresh = [nvm EXCEPT !.index = fresh.index]
        /\ fresh.index \in [Sectors -> 0..N]
        /\ \A s \in Sectors : Front(flash[s], fresh.index[s])
    BY <2>1, RestRead DEF TypesOK
  <2> HIDE DEF fresh
  <2>3. [fresh EXCEPT !.index = nvm.index] = nvm
    BY <2>1, <2>2 DEF TypesOK, RamType
  <2>4. ASSUME storeState = "idle"
        PROVE  fresh.index = nvm.index
    <3>1. \A s \in Sectors : Front(flash[s], nvm.index[s]) /\ flash[s] \in SectorType
      BY <2>1, <2>4 DEF IInv, Indexed, TypesOK, FlashType
    <3>2. \A s \in Sectors : fresh.index[s] = nvm.index[s]
      BY <2>2, <3>1, FrontUnique
    <3> QED
      BY <2>1, <2>2, <3>2 DEF TypesOK, RamType
  <2> QED
    BY <2>3, <2>4 DEF fresh
<1>3. IInv => OneLiveSector
  <2> SUFFICES ASSUME IInv, pc = "idle"
               PROVE  \E s \in Sectors : Inspect(flash[s]).tail # Valid
    BY DEF OneLiveSector
  <2>1. TypesOK /\ Rest(flash, nvm, stored)
    BY DEF IInv, AtRest
  <2>2. Target \in Sectors /\ flash[Target] \in SectorType /\ Dead(flash[Target])
    BY <2>1, PlaceIs, OtherDead DEF Target
  <2>3. PICK e \in 0..N : Front(flash[Target], e)
    BY <2>2 DEF Dead
  <2>4. Inspect(flash[Target]).tail # Valid
    BY <2>2, <2>3, InspectDead
  <2> QED
    BY <2>2, <2>4
<1>4. IInv /\ Kept => LogIsSound
  BY <1>1, <1>2, <1>3, TypeHolds DEF LogIsSound
<1> QED
  BY <1>4, KeptHolds, PTL

------------------------------------------------------------------------------------
(* What a save promises. *)

(* The two-sector log, programmed field by field and interrupted anywhere before   *)
(* the retirement of an old record, is one durable configuration that a save       *)
(* replaces in one step.                                                           *)
THEOREM DurableImplemented ==
  ASSUME RetireMayFail = FALSE
  PROVE  Spec => ImplementsDurable
<1>1. Init => Durable!Init
  <2> SUFFICES ASSUME Init PROVE Durable!Init
    OBVIOUS
  <2>1. stored \in Configs
    BY InitHolds DEF IInv, TypesOK
  <2> QED
    BY <2>1 DEF Init, Durable!Init, Phase
<1>2. IInv /\ [Next]_vars => [Durable!Next]_(Durable!vars)
  BY StepImplements
<1> QED
  BY <1>1, <1>2, InvariantHolds, PTL DEF Spec, ImplementsDurable, Durable!Spec

(* finish_store's promise: after a success a power-up loads what was running, and  *)
(* after a failure, whichever flash operation it struck, what a power-up would     *)
(* have loaded when the save was called.                                           *)
THEOREM SaveKept ==
  ASSUME RetireMayFail = FALSE
  PROVE  Spec => SaveContract
<1> DEFINE A == /\ outcome # "saved" /\ outcome' = "saved" => stored' = running
                /\ outcome # "failed" /\ outcome' = "failed" => stored' = before'
<1>1. IInv /\ Kept /\ [Next]_vars => [A]_vars
  <2> SUFFICES ASSUME IInv, Kept, Next
               PROVE  A
    OBVIOUS
  <2>0. Reread /\ before' = IF pc = "idle" THEN stored ELSE before
    BY DEF Next, Reread
  <2>1. CASE \E ok \in {TRUE, ~RetireMayFail} : RetireOld(ok)
    <3>1. PICK ok \in {TRUE, ~RetireMayFail} : RetireOld(ok)
      BY <2>1
    <3>2. stored' = stored /\ stored = running
      BY <2>0, <3>1, OldRetired, RetireOldHolds
    <3>3. outcome' = "saved"
      BY <3>1 DEF RetireOld
    <3> QED
      BY <3>2, <3>3
  <2>2. CASE PrepareStoreRefused
    <3>1. stored' = stored /\ outcome' = "failed" /\ pc = "idle"
      BY <2>0, <2>2, RefusedHolds DEF PrepareStoreRefused
    <3> QED
      BY <2>0, <3>1
  <2>3. CASE FlashFailure
    <3>1. /\ stored' = stored /\ outcome' = "failed"
          /\ pc \in Saving /\ pc # "idle"
      BY <2>0, <2>3, FlashFailureHolds DEF FlashFailure, Saving, Staging
    <3> QED
      BY <2>0, <3>1 DEF Kept
  <2>4. CASE outcome' \in {outcome, "none"}
    BY <2>4
  <2> QED
    BY <2>1, <2>2, <2>3, <2>4
    DEF Next, Operation, PowerUp, PrepareStore, EraseTarget, ClaimField, WriteHeader,
        WriteChunk, SealHeader, PublishField, EraseConfiguration, EraseSector, PowerLoss,
        SetConfig
<1> QED
  BY <1>1, KeptHolds, PTL DEF Spec, SaveContract

====================================================================================
