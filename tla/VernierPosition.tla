------------------------------ MODULE VernierPosition ------------------------------
(* The position of the joint (encoder.cpp, vernier_resolver.cpp): two encoders,      *)
(* read over SPI, neither of which shows it by itself. The main encoder turns Ratio   *)
(* times as often as the output shaft, the auxiliary one once less. A pair of reads   *)
(* resolves the absolute position; from then on the position follows the counts of   *)
(* the main encoder. Positions are counted modulo one turn of the output shaft, from *)
(* where the configured offsets put zero. An angle is kept as the position it was     *)
(* read at; Main is what the main encoder shows of it, and Nonius what both do.       *)
EXTENDS Integers

CONSTANTS
  Turn,        \* config_.cpr: counts to a turn of the motor
  Ratio,       \* vernier_main_ratio: turns of the motor to one of the output shaft
  Divider,     \* kAuxSampleDivider
  MaxAuxMiss,  \* max_aux_miss_frames
  Counts,      \* values of Set_Linear_Count
  Reach,       \* where the joint may stand
  Steps,       \* what the shaft may turn in a control period
  MaxTravel    \* what it may turn from a sample to the next that is taken in, and
               \* from the read of one encoder to that of the other

Round == Turn * Ratio
Position == 0..(Round - 1)

ASSUME ConstantsAssumption ==
  /\ {Turn, Ratio, Divider} \subseteq Nat \ {0} /\ {MaxAuxMiss, MaxTravel} \subseteq Nat
  /\ Ratio > 1 /\ 2 * MaxTravel * (Ratio - 1) < Turn
  /\ {Reach, Counts} \subseteq SUBSET Position
  /\ Steps \subseteq Int /\ 0 \in Steps

VARIABLES
  shaft,     \* where the motor is
  reading,   \* for whom the main encoder is being read: "none", "self" or "pair"
  angle,     \* where it was when that was begun
  pair,      \* Mt6826sSpiPair::state_: "idle", "main" or "aux"
  pending,   \* pending_pair_: what the pair has read of the main encoder, and where
             \* the motor was when the read of the auxiliary one was begun
  call,      \* the pair callback that is running, or NoCall
  samples,   \* mt6826s_vernier_sample_counter_ modulo Divider
  pos_abs,   \* pos_abs_
  resolver,  \* vernier_resolver_
  resetting, \* the CAN thread is within VernierResolver::reset()
  result,    \* vernier_result_
  count,     \* count_in_cpr_
  shadow, lastShadow,   \* shadow_count64_ and vernier_last_shadow_count_
  tracking,  \* vernier_main_continuous_valid_ and vernier_output_estimate_valid_
  branch,    \* vernier_main_anchor_pos_ - vernier_anchor_shadow_count_
  position,  \* vernier_main_continuous_pos_, which pos_estimate_ follows
  circular,  \* vernier_output_circular_pos_
  running,   \* closed-loop control
  astray     \* (of the model) what the resolver or the position may have been led
             \* astray by since they were last found anew

sensors == <<reading, angle, pair, pending>>
estimate == <<count, shadow, lastShadow, tracking, branch, position, circular>>
vars == <<shaft, sensors, call, samples, pos_abs, resolver, resetting, result, estimate,
          running, astray>>

Plus(p, d) == (p + d) % Round
HalfWrap(d, n) == ((d + n \div 2) % n) - n \div 2
Apart(p, q) == LET d == HalfWrap(p - q, Round) IN IF d < 0 THEN -d ELSE d
SameTurn(p, q) == 2 * Apart(p, q) < Turn
Main(p) == p % Turn
NearestTurn(d) == Turn * ((d + Turn \div 2) \div Turn)

NoRead == [ok |-> FALSE, main |-> 0, aux |-> 0]
NoCall == [ok |-> FALSE, auxOk |-> FALSE, main |-> -1, aux |-> -1]
NoResult == [valid |-> FALSE, locked |-> FALSE, unwrapped |-> 0]

States == {"LOCKED", "SUSPECT", "LOST"}  \* LOST for the ones without a position

(* What leads astray: the shaft leaves the turn of the motor a resolver has given up   *)
(* in ("lost"), and a pair that locks ("paired") or a start of closed-loop control      *)
(* ("started") within VernierResolver::reset().                                       *)
Causes == {"lost", "paired", "started"}

(* The axis thread is started. The control loop has taken in what the main encoder   *)
(* shows, while main() waited for the motor; the auxiliary encoder is still missing.  *)
Init ==
  /\ shaft \in Reach
  /\ reading = "none" /\ angle = 0 /\ pair = "idle" /\ pending = NoRead
  /\ call = NoCall /\ samples = 0 /\ pos_abs = shaft
  /\ resolver = [state |-> "LOST", hasLast |-> FALSE, last |-> 0, turns |-> 0,
                 misses |-> 0]
  /\ resetting = FALSE
  /\ result = NoResult
  /\ count = shaft /\ shadow = Plus(0, HalfWrap(Main(shaft), Turn)) /\ lastShadow = 0
  /\ tracking = FALSE /\ branch = 0
  /\ position = 0 /\ circular = 0 /\ running = FALSE /\ astray = {}

------------------------------------------------------------------------------------
(* VernierResolver::update_phase_difference(). The difference of the phases shows the *)
(* output position, coarsely, when the motor turns between the two reads; the main    *)
(* phase refines it. After the first time that only corrects what the main phase,     *)
(* unwrapped since the last pair, predicts, and by less than half a motor turn.       *)

Nonius(p, q) ==
  LET coarse == Plus(Ratio * p, -(Ratio - 1) * q)
  IN  Plus(coarse, HalfWrap(Main(p) - Main(coarse), Turn))

Predicted_NeverWraps(p) == Plus(resolver.turns, Main(p) - Main(resolver.last))

Predicted(p) == Plus(resolver.turns, HalfWrap(Main(p) - Main(resolver.last), Turn))

Resolved(p, q) ==
  IF ~resolver.hasLast THEN Nonius(p, q)
  ELSE LET off == HalfWrap(Nonius(p, q) - Predicted(p), Round)
       IN  Plus(Predicted(p), off + NearestTurn(-off))

TakePair(p, q) ==
  [state |-> "LOCKED", hasLast |-> TRUE, last |-> p, turns |-> Resolved(p, q), misses |-> 0]

TakeMainOnly(p) ==
  IF resolver.state \in {"LOCKED", "SUSPECT"}
  THEN [state |-> IF resolver.misses = MaxAuxMiss THEN "LOST" ELSE "SUSPECT", hasLast |-> TRUE,
        last |-> p, turns |-> Predicted(p), misses |-> (resolver.misses + 1) % (MaxAuxMiss + 1)]
  ELSE resolver

Update(c) ==
  IF ~c.ok THEN [resolver EXCEPT !.state = "LOST", !.misses = 0]
  ELSE IF c.auxOk THEN TakePair(c.main, c.aux)
  ELSE TakeMainOnly(c.main)

------------------------------------------------------------------------------------
(* SPI interrupts. A callback is preempted by the two control interrupts only. The   *)
(* bus serves who came first; a transfer fails, or its CRC or status does, at will.   *)

SpiContext == call = NoCall

(* handle_mt6826s_spi_cb(). *)
TakeSample(ok, p) ==
  pos_abs' = IF ok THEN p ELSE pos_abs

MainDone ==
  /\ SpiContext /\ reading = "self" /\ pair # "aux"
  /\ \E ok \in BOOLEAN : TakeSample(ok, angle)
  /\ reading' = "none" /\ angle' = 0
  /\ UNCHANGED <<shaft, pair, pending, call, samples, resolver, resetting, result,
                 estimate, running, astray>>

(* A read of the auxiliary encoder that is refused is one that fails at once.         *)
PairMainDone(ok) ==
  /\ SpiContext /\ reading = "pair"
  /\ reading' = "none" /\ angle' = 0
  /\ pair' = "aux"
  /\ pending' = IF ok THEN [ok |-> TRUE, main |-> angle, aux |-> shaft] ELSE NoRead
  /\ UNCHANGED <<shaft, call, samples, pos_abs, resolver, resetting, result, estimate,
                 running, astray>>

(* The pair is idle again before its callback has run.                               *)
PairDone(ok) ==
  /\ SpiContext /\ pair = "aux"
  /\ pair' = "idle" /\ pending' = NoRead
  /\ call' = [ok |-> pending.ok, auxOk |-> ok, main |-> pending.main, aux |-> pending.aux]
  /\ TakeSample(pending.ok, pending.main)
  /\ UNCHANGED <<shaft, reading, angle, samples, resolver, resetting, result,
                 estimate, running, astray>>

(* The rest of handle_mt6826s_spi_pair_cb().                                         *)
Resolve ==
  /\ call # NoCall
  /\ call' = NoCall
  /\ resolver' = Update(call)
  /\ result' = IF resolver'.state \in {"LOCKED", "SUSPECT"}
               THEN [valid |-> TRUE, locked |-> resolver'.state = "LOCKED",
                     unwrapped |-> resolver'.turns]
               ELSE NoResult
  /\ astray' = IF resolver.hasLast \/ running THEN astray ELSE {}
  /\ UNCHANGED <<shaft, sensors, samples, pos_abs, resetting, estimate, running>>

------------------------------------------------------------------------------------
(* The control period: the TIM8 interrupt samples, and the control loop, which comes *)
(* right behind it, takes in what earlier samples have brought.                      *)

sample_now ==
  LET needPair == ~result.valid \/ ~result.locked \/ samples = 0
      begin(for) == reading' = for /\ angle' = shaft'
  IN \/ /\ needPair /\ pair = "idle" /\ reading = "none"
        /\ begin("pair") /\ pair' = "main"
        /\ samples' = (samples + 1) % Divider
        /\ UNCHANGED pending
     \/ /\ needPair                     \* busy, or the start is refused
        /\ UNCHANGED <<sensors, samples>>
     \/ /\ ~needPair
        /\ samples' = (samples + 1) % Divider
        /\ \/ reading = "none" /\ begin("self")
           \/ UNCHANGED <<reading, angle>>
        /\ UNCHANGED <<pair, pending>>

(* The branch is what the last pair says at this count.                              *)
Anchor(s) ==
  /\ branch' = Plus(result.unwrapped, -s)
  /\ position' = result.unwrapped /\ circular' = result.unwrapped
  /\ lastShadow' = s
  /\ tracking' = TRUE

publish_vernier_output_estimate(s) ==
  \/ ~tracking /\ ~result.valid /\ UNCHANGED <<lastShadow, tracking, branch, position, circular>>
  \/ ~tracking /\ result.valid /\ Anchor(s)
  \/ /\ tracking
     /\ position' = Plus(branch, s)
     /\ circular' = Plus(circular, s - lastShadow)
     /\ lastShadow' = s
     /\ UNCHANGED <<tracking, branch>>

(* When samples are missing for too long the motor is stopped, which another action   *)
(* stands for.                                                                        *)
update ==
  /\ count' = pos_abs
  /\ shadow' = Plus(shadow, HalfWrap(Main(pos_abs) - Main(count), Turn))
  /\ publish_vernier_output_estimate(shadow')

(* What makes the counts of the main encoder an account of the motion at all, and     *)
(* the two reads of a pair one position: at full speed the motor turns a small part   *)
(* of a turn in a control period.                                                     *)
Followed(p) ==
  /\ Apart(p, pos_abs) <= MaxTravel
  /\ reading # "none" => Apart(p, angle) <= MaxTravel
  /\ pending.ok => Apart(p, pending.main) <= MaxTravel /\ Apart(p, pending.aux) <= MaxTravel
  /\ resolver.state \in {"LOCKED", "SUSPECT"} => SameTurn(p, resolver.last)

(* Nothing counts the turns of the motor for a resolver that has given up.            *)
Strays(p) ==
  resolver.state = "LOST" /\ resolver.hasLast /\ ~SameTurn(p, resolver.last)

ControlPeriod ==
  /\ \E d \in Steps :
       /\ shaft' = Plus(shaft, d)
       /\ d # 0 => shaft' \in Reach /\ Followed(shaft')
  /\ sample_now
  /\ update
  /\ astray' = astray \union {c \in {"lost"} : Strays(shaft')}
  /\ UNCHANGED <<call, pos_abs, resolver, resetting, result, running>>

------------------------------------------------------------------------------------
(* Threads, which run when no interrupt does.                                        *)

ThreadContext == call = NoCall

(* A position without an anchor is not used again; it is kept as 0.                   *)
NoAnchor ==
  /\ tracking' = FALSE
  /\ lastShadow' = 0 /\ branch' = 0 /\ position' = 0 /\ circular' = 0

reset_vernier_output_velocity_estimate ==
  IF result.valid THEN Anchor(shadow) ELSE NoAnchor

(* The resets of the calibrations and of a commit, with the motor disarmed.          *)
ResetEstimate ==
  /\ ThreadContext /\ ~running
  /\ reset_vernier_output_velocity_estimate
  /\ UNCHANGED <<shaft, sensors, call, samples, pos_abs, resolver, resetting, result,
                 count, shadow, running, astray>>

start_closed_loop_control ==
  /\ ThreadContext /\ ~running
  /\ reset_vernier_output_velocity_estimate
  /\ running' = (result.valid /\ result.locked)
  /\ UNCHANGED <<shaft, sensors, call, samples, pos_abs, resolver, resetting, result,
                 count, shadow, astray>>

stop_closed_loop_control ==
  /\ ThreadContext /\ running
  /\ running' = FALSE
  /\ astray' = astray \ {"started"}
  /\ UNCHANGED <<shaft, sensors, call, samples, pos_abs, resolver, resetting, result,
                 estimate>>

(* It makes the count start from what the main encoder shows; nothing is anchored.   *)
run_offset_calibration ==
  /\ ThreadContext /\ ~running
  /\ shadow' = Main(count)
  /\ UNCHANGED <<shaft, sensors, call, samples, pos_abs, resolver, resetting, result,
                 count, lastShadow, tracking, branch, position, circular, running, astray>>

set_linear_count_KeepsAnchor(c) ==
  /\ ThreadContext /\ ~resetting
  /\ shadow' = c
  /\ UNCHANGED <<shaft, sensors, call, samples, pos_abs, resolver, resetting, result,
                 count, lastShadow, tracking, branch, position, circular, running, astray>>

set_linear_count(c) ==
  /\ ThreadContext /\ ~resetting
  /\ shadow' = c
  /\ IF tracking THEN branch' = Plus(position, -c) /\ lastShadow' = c
     ELSE UNCHANGED <<branch, lastShadow>>
  /\ UNCHANGED <<shaft, sensors, call, samples, pos_abs, resolver, resetting, result,
                 count, tracking, position, circular, running, astray>>

(* apply_vernier_resolver_config(), when the host writes an offset again, which is    *)
(* refused while armed. reset() clears the flags of the resolver before its position, *)
(* with interrupts on and below the axis thread; vernier_result_ stays what it was.    *)
ResetBegins ==
  /\ ThreadContext /\ ~running /\ ~resetting
  /\ resolver' = [resolver EXCEPT !.state = "LOST", !.hasLast = FALSE, !.last = 0]
  /\ resetting' = TRUE
  /\ UNCHANGED <<shaft, sensors, call, samples, pos_abs, result, estimate, running, astray>>

ResetEnds ==
  /\ resetting /\ call = NoCall
  /\ resolver' = [resolver EXCEPT !.turns = 0, !.misses = 0]
  /\ resetting' = FALSE
  /\ NoAnchor
  /\ astray' = astray \union {c \in {"paired"} : resolver.hasLast}
                     \union {c \in {"started"} : running}
  /\ UNCHANGED <<shaft, sensors, call, samples, pos_abs, result, count, shadow, running>>

Next ==
  \/ ControlPeriod
  \/ MainDone \/ (\E ok \in BOOLEAN : PairMainDone(ok) \/ PairDone(ok)) \/ Resolve
  \/ ResetEstimate \/ start_closed_loop_control \/ stop_closed_loop_control
  \/ run_offset_calibration
  \/ (\E c \in Counts : set_linear_count(c))
  \/ ResetBegins \/ ResetEnds

Spec == Init /\ [][Next]_vars

------------------------------------------------------------------------------------
(* The shape of the state; what is unknown is kept as 0.                              *)
TypeOK ==
  /\ {shaft, angle, pos_abs, count, shadow, lastShadow, branch, position, circular}
       \subseteq Position
  /\ reading \in {"none", "self", "pair"} /\ pair \in {"idle", "main", "aux"}
  /\ pending \in [ok : BOOLEAN, main : Position, aux : Position]
  /\ call \in [ok : BOOLEAN, auxOk : BOOLEAN, main : Position, aux : Position] \union {NoCall}
  /\ samples \in 0..(Divider - 1) /\ {resetting, tracking, running} \subseteq BOOLEAN
  /\ resolver \in [state : States, hasLast : BOOLEAN, last : Position, turns : Position,
                   misses : 0..MaxAuxMiss]
  /\ result \in [valid : BOOLEAN, locked : BOOLEAN, unwrapped : Position]
  /\ astray \subseteq Causes

(* Pairs, and main phases where the auxiliary encoder is missing, resolve to the very  *)
(* place where the main encoder was read: no turn of the motor is gained or lost as    *)
(* long as a resolver that has given up is not taken out of its turn and a reset of it  *)
(* is not met by a pair.                                                              *)
ResolverIsExact ==
  {"lost", "paired"} \intersect astray = {} /\ resolver.hasLast => resolver.turns = resolver.last

(* A motor that is under control is told the turn it is really in, whatever has failed, *)
(* been begun late or read at two instants since, unless it was led astray: the        *)
(* position is within half a turn of the motor of where the main encoder was last      *)
(* seen, and only what the shaft turned between a pair and the count it was anchored   *)
(* at is between them. The circular position agrees with it.                           *)
PositionIsAbsolute ==
  /\ TypeOK
  /\ ResolverIsExact
  /\ running /\ astray = {} => SameTurn(position, count) /\ circular = position

(* Under control the position moves by what the main encoder turned and by nothing    *)
(* else: neither a new pair, nor one after a failure or on the wrong turn, nor a count  *)
(* that is set to another value looks like motion. Only a reset that takes the anchor   *)
(* from a motor started meanwhile does.                                               *)
NothingLooksLikeMotion ==
  [][running /\ running' /\ "started" \notin astray' =>
       /\ position' = Plus(position, count' - count)
       /\ circular' = Plus(circular, count' - count)]_vars

(* "pair recovery must not cause a jump by 1/42 of a turn of the output"              *)
(* (MULTIRATE_CONTROL_REFACTOR_PLAN.md:271): a resolver that loses the pairs and finds *)
(* them again tells the turn the motor is in. It is violated: the shaft turns on while *)
(* it is lost, it locks on the turn nearest to where it was, and the next start takes  *)
(* that over.                                                                         *)
RecoveryKeepsTheTurn ==
  astray \subseteq {"lost"} /\ running /\ tracking => SameTurn(position, count)

(* "position_turns = x", the position of the joint (vernier_resolver.hpp:12, 26), of    *)
(* every pair that locks. It is violated by a pair that comes within reset(), which    *)
(* then clears the position but not the flag that says there is one.                   *)
ResetIsWhole ==
  astray \subseteq {"paired", "started"} /\ running /\ tracking => SameTurn(position, count)
====================================================================================
