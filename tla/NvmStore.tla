------------------------------- MODULE NvmStore -------------------------------
(***************************************************************************)
(* The configuration store of the firmware: ConfigManager (nvm_config.hpp) *)
(* over the two-sector flash log of stm32_nvm.c, driven by                 *)
(* ODrive::save_configuration and main().                                  *)
(*                                                                         *)
(* One step is one flash program (of one allocation state or one field) or *)
(* one sector erase, so that power can be removed between any two of them. *)
(* save_configuration runs with interrupts masked: no other task steps in  *)
(* the middle of a save, only a flash error or a loss of power.            *)
(*                                                                         *)
(* A record is one header field followed by PayloadFields payload fields.  *)
(* Field indices count from 0 behind the reserved allocation block.        *)
(***************************************************************************)
EXTENDS Naturals

CONSTANTS Configs,        \* the values the configuration structs can hold
          Defaults,       \* config_clear_all
          Off,            \* running while unpowered
          N,              \* fields of a sector that can hold data
          PayloadFields,  \* payload fields of a record
          SeqModulus,     \* sequence numbers are taken modulo this (2^32)
          MaxSaves,       \* bound: save_configuration calls per behaviour
          RetireMayFail   \* whether power or the flash may fail between
                          \* publishing a record and retiring the old one

RecordFields == 1 + PayloadFields

ASSUME NvmAssumption ==
    /\ Defaults \in Configs
    /\ Off \notin Configs
    /\ PayloadFields \in Nat \ {0}
    /\ N \in Nat /\ N >= RecordFields
    /\ SeqModulus \in Nat /\ SeqModulus >= 4
    /\ MaxSaves \in Nat /\ RetireMayFail \in BOOLEAN

Sectors == {0, 1}
Fields == 0 .. N - 1
Valid == "valid"
Invalid == "invalid"
Erased == "erased"

\* Contents of a field.  A sealed header carries the payload its CRC was
\* computed over; CRCs are taken to be collision-free.
Blank == [kind |-> "blank"]
Garbage == [kind |-> "garbage"]
Chunk(c, i) == [kind |-> "chunk", config |-> c, part |-> i]
Header(s, sealed) == [kind |-> "header", sequence |-> s, payload |-> sealed]
Unsealed == <<>>
Record(c) == [i \in 1 .. PayloadFields |-> Chunk(c, i)]

VARIABLES flash,        \* the two sectors: allocation states and contents
          nvm,          \* the RAM variables of stm32_nvm.c
          storeState,   \* ConfigManager::store_state
          running,      \* the configuration structs in RAM
          pc,           \* position inside save_configuration
          at,           \* fields already programmed by the current loop
          outcome,      \* result of the last save_configuration
          saves,        \* number of save_configuration calls so far
          stored,       \* history: the configuration a power-up would load now
          before        \* history: what it would have loaded when the last
                        \* call of the store was made

vars == <<flash, nvm, storeState, running, pc, at, outcome, saves, stored,
          before>>

ErasedSector == [alloc |-> [f \in Fields |-> Erased],
                 cell |-> [f \in Fields |-> Blank]]

-----------------------------------------------------------------------------
(* Reading the log: scan_allocation_table, inspect_latest_record, NVM_init *)

\* Smallest index from which every field below max has state ref.
Scan(sector, max, ref) ==
    CHOOSE i \in 0 .. max :
        /\ \A f \in i .. max - 1 : sector.alloc[f] = ref
        /\ i > 0 => sector.alloc[i - 1] # ref

\* The state scan_allocation_table reports through its out parameter.
Preceding(sector, i, ref) == IF i = 0 THEN ref ELSE sector.alloc[i - 1]

PayloadAt(sector, first) ==
    [i \in 1 .. PayloadFields |-> sector.cell[first + i - 1]]

\* scan_allocation_table for the next free field and inspect_latest_record for
\* the record that ends right below it.
Inspect(sector) ==
    LET end == Scan(sector, N, Erased)
        start == Scan(sector, end, Valid)
        header == sector.cell[start]
        tail == Preceding(sector, end, Erased)
        ok == /\ tail = Valid
              /\ end - start = RecordFields
              /\ header.kind = "header"
              /\ header.payload = PayloadAt(sector, start + 1)
    IN  [index |-> end, tail |-> tail, start |-> start, valid |-> ok,
         sequence |-> IF ok THEN header.sequence ELSE 0]

IsNewer(a, b) == (a + SeqModulus - b) % SeqModulus \in 1 .. (SeqModulus \div 2) - 1

\* NVM_init: the RAM variables as a function of what the flash holds.  Without
\* a valid record the last run of VALID fields is read as a headerless record.
NVM_init(fl) ==
    LET zero == Inspect(fl[0])
        one == Inspect(fl[1])
        takeOne == one.valid /\ (~zero.valid \/ IsNewer(one.sequence, zero.sequence))
        legacy == ~zero.valid /\ ~one.valid
        empty == legacy /\ zero.tail # Valid /\ one.tail # Valid
        sector == IF takeOne \/ (legacy /\ one.tail = Valid) THEN 1 ELSE 0
        chosen == IF sector = 1 THEN one ELSE zero
    IN  [index |-> [s \in Sectors |-> IF s = 0 THEN zero.index ELSE one.index],
         readSector |-> sector,
         hasHeader |-> empty \/ ~legacy,
         readStart |-> IF empty THEN 0 ELSE chosen.start,
         readFields |-> IF empty THEN 0 ELSE chosen.index - chosen.start,
         sequence |-> IF legacy THEN 0 ELSE chosen.sequence]

\* config_read_all and finish_load: the configuration whose CRC16 matches, and
\* the defaults when too little can be read or no CRC16 matches.
Loaded(fl, ram) ==
    LET skip == IF ram.hasHeader THEN 1 ELSE 0
        payload == PayloadAt(fl[ram.readSector], ram.readStart + skip)
        matching == {c \in Configs : payload = Record(c)}
    IN  IF ram.readFields >= skip + PayloadFields /\ matching # {}
        THEN CHOOSE c \in matching : TRUE
        ELSE Defaults

-----------------------------------------------------------------------------
Target == 1 - nvm.readSector
Position == nvm.index[Target]

SetAlloc(s, f, state) == flash' = [flash EXCEPT ![s].alloc[f] = state]

\* Programming can only clear bits: a field that is not blank is spoiled.
ProgramCell(s, f, value) ==
    flash' = [flash EXCEPT ![s].cell[f] = IF @ \in {Blank, value} THEN value ELSE Garbage]

ColdRam == NVM_init([s \in Sectors |-> ErasedSector])

\* A factory-fresh flash, or one that holds a record of the headerless format.
LegacySector(c) ==
    [alloc |-> [f \in Fields |-> IF f < PayloadFields THEN Valid ELSE Erased],
     cell |-> [f \in Fields |-> IF f < PayloadFields THEN Chunk(c, f + 1) ELSE Blank]]

Init ==
    /\ flash \in {[s \in Sectors |-> ErasedSector]}
                 \union {[s \in Sectors |-> IF s = t THEN LegacySector(c) ELSE ErasedSector] :
                            t \in Sectors, c \in Configs}
    /\ nvm = ColdRam
    /\ storeState = "idle"
    /\ running = Off
    /\ pc = "off"
    /\ at = 0
    /\ outcome = "none"
    /\ saves = 0
    /\ stored = Loaded(flash, NVM_init(flash))
    /\ before = stored

\* main(): NVM_init, config_read_all, finish_load, else config_clear_all.
PowerUp ==
    /\ pc = "off"
    /\ nvm' = NVM_init(flash)
    /\ running' = Loaded(flash, NVM_init(flash))
    /\ storeState' = "idle"
    /\ pc' = "idle"
    /\ at' = 0
    /\ outcome' = "none"
    /\ UNCHANGED <<flash, saves>>

\* A host or a calibration commit changes the configuration structs.
SetConfig(c) ==
    /\ pc = "idle"
    /\ running' = c
    /\ UNCHANGED <<flash, nvm, storeState, pc, at, outcome, saves>>

\* prepare_store with store_state idle, the measuring pass of
\* config_write_all, and start_store up to the room check of NVM_start_write.
PrepareStore ==
    /\ pc = "idle"
    /\ storeState = "idle"
    /\ saves < MaxSaves
    /\ saves' = saves + 1
    /\ storeState' = "preparing"
    /\ outcome' = "none"
    /\ at' = 0
    /\ pc' = IF N - Position < RecordFields THEN "erase" ELSE "claim"
    /\ UNCHANGED <<flash, nvm, running>>

\* prepare_store in any other state.
PrepareStoreRefused ==
    /\ pc = "idle"
    /\ storeState # "idle"
    /\ storeState' = "failed"
    /\ outcome' = "failed"
    /\ UNCHANGED <<flash, nvm, running, pc, at, saves>>

\* Mutant of EraseTarget: the sector that holds the live record is erased.
EraseTarget_Live ==
    /\ pc = "erase"
    /\ flash' = [flash EXCEPT ![nvm.readSector] = ErasedSector]
    /\ nvm' = [nvm EXCEPT !.index[Target] = 0]
    /\ pc' = "claim"
    /\ UNCHANGED <<storeState, running, at, outcome, saves>>

\* NVM_start_write: erase(target) when the record does not fit.
EraseTarget ==
    /\ pc = "erase"
    /\ flash' = [flash EXCEPT ![Target] = ErasedSector]
    /\ nvm' = [nvm EXCEPT !.index[Target] = 0]
    /\ pc' = "claim"
    /\ UNCHANGED <<storeState, running, at, outcome, saves>>

\* NVM_start_write: mark the next field of the staging area INVALID.
ClaimField ==
    /\ pc = "claim"
    /\ SetAlloc(Target, Position + at, Invalid)
    /\ at' = (at + 1) % RecordFields
    /\ pc' = IF at + 1 = RecordFields THEN "header" ELSE pc
    /\ UNCHANGED <<nvm, storeState, running, outcome, saves>>

\* Mutant of WriteHeader: the record repeats the current sequence number.
WriteHeader_SameSequence ==
    /\ pc = "header"
    /\ ProgramCell(Target, Position, Header(nvm.sequence, Unsealed))
    /\ storeState' = "inProgress"
    /\ pc' = "payload"
    /\ UNCHANGED <<nvm, running, at, outcome, saves>>

\* NVM_start_write: the header with both CRC words left erased.
WriteHeader ==
    /\ pc = "header"
    /\ ProgramCell(Target, Position,
                   Header((nvm.sequence + 1) % SeqModulus, Unsealed))
    /\ storeState' = "inProgress"
    /\ pc' = "payload"
    /\ UNCHANGED <<nvm, running, at, outcome, saves>>

\* NVM_write: the second pass of config_write_all and the CRC16.
WriteChunk ==
    /\ pc = "payload"
    /\ ProgramCell(Target, Position + at + 1, Chunk(running, at + 1))
    /\ at' = (at + 1) % PayloadFields
    /\ pc' = IF at + 1 = PayloadFields THEN "seal" ELSE pc
    /\ UNCHANGED <<nvm, storeState, running, outcome, saves>>

\* NVM_commit: CRC32 of the payload as the flash holds it, then of the header.
SealHeader ==
    /\ pc = "seal"
    /\ flash' = [flash EXCEPT ![Target].cell[Position] =
                    IF @.kind = "header" /\ @.payload = Unsealed
                    THEN Header(@.sequence, PayloadAt(flash[Target], Position + 1))
                    ELSE Garbage]
    /\ pc' = "publish"
    /\ UNCHANGED <<nvm, storeState, running, at, outcome, saves>>

\* Mutant of PublishField: the index is not advanced over the new record.
PublishField_KeepsIndex ==
    /\ pc = "publish"
    /\ SetAlloc(Target, Position + at, Valid)
    /\ IF at + 1 = RecordFields
       THEN /\ nvm' = [nvm EXCEPT !.readSector = Target, !.hasHeader = TRUE,
                       !.readStart = Position, !.readFields = RecordFields,
                       !.sequence = (@ + 1) % SeqModulus]
            /\ at' = 0
            /\ pc' = "retire"
       ELSE /\ at' = at + 1
            /\ UNCHANGED <<nvm, pc>>
    /\ UNCHANGED <<storeState, running, outcome, saves>>

\* NVM_commit: mark the record VALID in increasing order; with the last field
\* the RAM variables switch to the new record.
PublishField ==
    /\ pc = "publish"
    /\ SetAlloc(Target, Position + at, Valid)
    /\ IF at + 1 = RecordFields
       THEN /\ nvm' = [index |-> [nvm.index EXCEPT ![Target] = @ + RecordFields],
                       readSector |-> Target, hasHeader |-> TRUE,
                       readStart |-> Position, readFields |-> RecordFields,
                       sequence |-> (nvm.sequence + 1) % SeqModulus]
            /\ at' = 0
            /\ pc' = "retire"
       ELSE /\ at' = at + 1
            /\ UNCHANGED <<nvm, pc>>
    /\ UNCHANGED <<storeState, running, outcome, saves>>

\* NVM_commit, last statement, and finish_store: put one INVALID field behind
\* the old record, or erase the old sector when it is full.  With ok = FALSE
\* the flash operation failed; the status is dropped.
RetireOld(ok) ==
    LET old == Target
        room == nvm.index[old] < N
    IN  /\ pc = "retire"
        /\ flash' = IF ~ok THEN flash
                    ELSE IF room THEN [flash EXCEPT ![old].alloc[nvm.index[old]] = Invalid]
                    ELSE [flash EXCEPT ![old] = ErasedSector]
        /\ nvm' = [nvm EXCEPT !.index[old] = IF room THEN @ + 1 ELSE IF ok THEN 0 ELSE @]
        /\ storeState' = "idle"
        /\ outcome' = "saved"
        /\ pc' = "idle"
        /\ UNCHANGED <<running, at, saves>>

\* Any flash operation before the publication is complete may fail: the call
\* returns false and store_state stays failed until the next power-up.
FlashFailure ==
    /\ pc \in {"erase", "claim", "header", "payload", "seal", "publish"}
    /\ storeState' = "failed"
    /\ outcome' = "failed"
    /\ pc' = "idle"
    /\ at' = 0
    /\ UNCHANGED <<flash, nvm, running, saves>>

\* erase_configuration: NVM_erase and a reset.  NVM_erase clears the RAM
\* variables first, which only the reset that follows could observe.
EraseConfiguration ==
    /\ pc = "idle"
    /\ saves < MaxSaves
    /\ saves' = saves + 1
    /\ pc' = "erase0"
    /\ nvm' = ColdRam
    /\ UNCHANGED <<flash, storeState, running, at, outcome>>

EraseSector(s, ok) ==
    /\ pc = IF s = 0 THEN "erase0" ELSE "erase1"
    /\ flash' = IF ok THEN [flash EXCEPT ![s] = ErasedSector] ELSE flash
    /\ pc' = IF s = 0 THEN "erase1" ELSE "reset"
    /\ UNCHANGED <<nvm, storeState, running, at, outcome, saves>>

\* Power is removed, or NVIC_SystemReset at pc = "reset".
PowerLoss ==
    /\ pc # "off"
    /\ pc = "retire" => RetireMayFail
    /\ nvm' = ColdRam
    /\ storeState' = "idle"
    /\ running' = Off
    /\ pc' = "off"
    /\ at' = 0
    /\ outcome' = "none"
    /\ UNCHANGED <<flash, saves>>

Operation ==
    \/ PowerUp \/ PrepareStore \/ PrepareStoreRefused \/ EraseTarget
    \/ ClaimField \/ WriteHeader \/ WriteChunk \/ SealHeader \/ PublishField
    \/ \E ok \in {TRUE, ~RetireMayFail} : RetireOld(ok)
    \/ FlashFailure \/ EraseConfiguration \/ PowerLoss
    \/ \E s \in Sectors, ok \in BOOLEAN : EraseSector(s, ok)
    \/ \E c \in Configs : SetConfig(c)

Next ==
    /\ Operation
    /\ stored' = Loaded(flash', NVM_init(flash'))
    /\ before' = IF pc = "idle" THEN stored ELSE before

Spec == Init /\ [][Next]_vars
-----------------------------------------------------------------------------
\* Type correctness of every variable.
TypeOK ==
    /\ \A s \in Sectors : flash[s].alloc \in [Fields -> {Valid, Invalid, Erased}]
    /\ \A s \in Sectors, f \in Fields :
          flash[s].cell[f].kind \in {"blank", "garbage", "header", "chunk"}
    /\ nvm.index \in [Sectors -> 0 .. N]
    /\ nvm.readSector \in Sectors
    /\ nvm.readStart \in 0 .. N
    /\ nvm.readFields \in 0 .. N
    /\ nvm.hasHeader \in BOOLEAN
    /\ nvm.sequence \in 0 .. SeqModulus - 1
    /\ storeState \in {"idle", "preparing", "inProgress", "failed"}
    /\ running \in Configs \union {Off}
    /\ pc \in {"off", "idle", "erase", "claim", "header", "payload", "seal",
               "publish", "retire", "erase0", "erase1", "reset"}
    /\ at \in 0 .. RecordFields
    /\ outcome \in {"none", "saved", "failed"}
    /\ saves \in 0 .. MaxSaves
    /\ stored \in Configs
    /\ before \in Configs

\* Flash bits are only cleared between erases: no field that a save programs
\* holds anything yet.  It rests on ConfigManager refusing to restart a store
\* that failed half way, whose staging area nothing has advanced over.
NothingSpoiled ==
    \A s \in Sectors, f \in Fields : flash[s].cell[f] # Garbage

\* While the store is at rest the RAM variables of stm32_nvm.c describe the
\* flash exactly as the next NVM_init will find it, so a reset reads back what
\* NVM_read returns now.
CacheMatchesFlash ==
    pc = "idle" =>
        LET fresh == NVM_init(flash)
        IN  /\ [fresh EXCEPT !.index = nvm.index] = nvm
            /\ storeState = "idle" => fresh.index = nvm.index

\* At rest at most one sector ends in a VALID field: the selection at start-up
\* never depends on sequence numbers alone, and the next record appended to
\* the other sector cannot grow together with an old one.
OneLiveSector ==
    pc = "idle" => \E s \in Sectors : Inspect(flash[s]).tail # Valid

\* The log the code keeps in flash and in RAM stays what every save and every
\* power-up takes it to be.
LogIsSound == TypeOK /\ NothingSpoiled /\ CacheMatchesFlash /\ OneLiveSector

\* finish_store: "If this function succeeds, the new configuration was
\* successfully saved.  If this function fails, the old configuration was not
\* touched."  A save is many flash operations: whichever of them fails, a
\* power-up loads what it would have loaded when save_configuration was called.
SaveContract ==
    [][/\ outcome # "saved" /\ outcome' = "saved" => stored' = running
       /\ outcome # "failed" /\ outcome' = "failed" => stored' = before']_vars

\* stm32_nvm.c: the commit is robust even if power is removed between
\* validating the new record and invalidating the previous one.  Whatever is
\* lost, the next power-up finds what was stored before or what is being saved.
NeverLost ==
    [][stored' \in {stored, running} \/ pc \in {"erase0", "erase1"}]_vars

Phase == IF pc \in {"off", "idle", "erase0", "erase1", "reset"} THEN "idle"
         ELSE IF pc = "retire" THEN "applied" ELSE "pending"

Durable == INSTANCE DurableConfig WITH phase <- Phase

\* The flash log implements one durable configuration replaced atomically.
ImplementsDurable == Durable!Spec
=============================================================================
