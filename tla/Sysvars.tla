------------------------------ MODULE Sysvars ------------------------------
(***************************************************************************)
(* The sysvars the native programs read (sysvar.rs) and the warps of the   *)
(* clock (lib.rs): a slot lasts 400 milliseconds, timestamps are seconds,  *)
(* and an epoch is derived from a slot by the epoch schedule.              *)
(*                                                                         *)
(* Left out: epoch_start_timestamp and the leader schedule's epoch, which  *)
(* no warp changes and no program here reads; the saturation of an i64,    *)
(* which takes some 10^16 seconds; and schedules with no slots per epoch   *)
(* or with epochs beyond the largest u64, on which a warp panics.          *)
(***************************************************************************)
EXTENDS Accounts

Clock == [slot : U64, time : Int, epoch : Nat]

EpochSchedule == [slots : Nat \ {0}, firstSlot : U64, firstEpoch : Nat]

\* Below first_normal_slot every epoch has 32 slots.
EpochOf(es, slot) ==
    IF slot < es.firstSlot THEN slot \div 32
    ELSE es.firstEpoch + (slot - es.firstSlot) \div es.slots

\* Division of an i64, towards zero.
Quotient(m, n) == IF m >= 0 THEN m \div n ELSE -((-m) \div n)

\* Mutant of WarpToSlot: the slot is set before the elapsed ones are counted.
WarpToSlotAtOnce(c, es, slot) ==
    [c EXCEPT !.slot = slot, !.epoch = EpochOf(es, slot)]

\* A warp back leaves the timestamp where it is.
WarpToSlot(c, es, slot) ==
    [slot |-> slot,
     time |-> c.time + (400 * SatSub(slot, c.slot)) \div 1000,
     epoch |-> EpochOf(es, slot)]

\* The timestamp is clamped to zero, the slot follows the one asked for.
WarpToTimestamp(c, es, time) ==
    LET slots == Quotient(1000 * (time - c.time), 400)
        slot == IF slots >= 0 THEN SatAdd(c.slot, slots) ELSE SatSub(c.slot, -slots)
    IN  [slot |-> slot,
         time |-> IF time < 0 THEN 0 ELSE time,
         epoch |-> EpochOf(es, slot)]

Rent == [rate : Nat, years : Nat, parts : Nat \ {0}]

\* Rent::minimum_balance: 128 bytes for the account itself, so much for a
\* byte and a year, for an exemption threshold of years/parts.  Rounded down
\* and saturated, as the cast of a float does; its own rounding is left out.
MinimumBalance(rent, len) ==
    LET balance == (rent.years * SatMul(len + 128, rent.rate)) \div rent.parts
    IN  IF balance > U64Max THEN U64Max ELSE balance
=============================================================================
