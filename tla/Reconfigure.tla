---------------------------- MODULE Reconfigure -----------------------------
(***************************************************************************)
(* The reload trigger, cycle by cycle. gateware/blocks/boot/warmboot.py    *)
(* (iCE40) and the OpenDrainReconfigure of reconfigure.py (ECP5) share the *)
(* pending latch and the idle counter; the second adds the latched         *)
(* decision, `holding`, and a wait with the USB PHY in reset before        *)
(* PROGRAMN is pulled. A USB bus reset resets all of it: platforms.py puts *)
(* the whole block under a ResetInserter.                                  *)
(*                                                                         *)
(* arm, activity and reset are this cycle's inputs and are unconstrained.  *)
(***************************************************************************)
EXTENDS Integers

CONSTANTS
  IdleCycles,     \* idle_threshold_cycles
  PhyResetCycles  \* phy_reset_cycles; 0 for the full-speed boards

ASSUME CyclesAssumption == IdleCycles \in Nat \ {0} /\ PhyResetCycles \in Nat

VARIABLES
  arm, activity, reset,
  pending, idle_cnt, holding, hold_cnt,
  quiet_for,  \* history: cycles without activity, to the last one
  armed_for,  \* history: cycles since the first arm after a reset, 0 if none
  held_for    \* history: cycles phy_reset has been high

inputs      == <<arm, activity, reset>>
registers   == <<pending, idle_cnt, holding, hold_cnt>>
reload_vars == <<inputs, registers, quiet_for, armed_for, held_for>>

Elapsed      == pending /\ idle_cnt = IdleCycles
WarmbootFire == Elapsed
phy_reset    == holding
OpenDrainFire == holding /\ hold_cnt = PhyResetCycles

\* Histories count as far as the properties look.
Count(n, limit) == IF n = limit THEN n ELSE n + 1

ReloadInit ==
  /\ arm \in BOOLEAN /\ activity \in BOOLEAN /\ reset \in BOOLEAN
  /\ pending = FALSE /\ idle_cnt = 0
  /\ holding = FALSE /\ hold_cnt = 0
  /\ quiet_for = 0 /\ armed_for = 0 /\ held_for = 0

\* Bug: arm is not latched.
NextPendingLevel == arm
NextPending == pending \/ arm

\* Bug: the counter runs before anything is armed.
NextIdleUnarmed ==
  IF activity THEN 0
  ELSE IF idle_cnt # IdleCycles THEN idle_cnt + 1
  ELSE idle_cnt

\* Bug: the counter does not stop at the threshold.
NextIdleRunsOn ==
  IF activity THEN 0
  ELSE IF pending THEN idle_cnt + 1
  ELSE idle_cnt

NextIdle ==
  IF activity THEN 0
  ELSE IF pending /\ idle_cnt # IdleCycles THEN idle_cnt + 1
  ELSE idle_cnt

\* Bug: late activity takes the decision back.
NextHoldingLevel == Elapsed
NextHolding == holding \/ Elapsed

\* Bug: the hold counter does not wait for the PHY to be in reset.
NextHoldEarly ==
  IF pending /\ hold_cnt # PhyResetCycles THEN hold_cnt + 1 ELSE hold_cnt
NextHold ==
  IF holding /\ hold_cnt # PhyResetCycles THEN hold_cnt + 1 ELSE hold_cnt

\* What the platform sees of the inputs and of phy_reset over time.
Observe ==
  /\ quiet_for' = IF activity THEN 0 ELSE Count(quiet_for, IdleCycles)
  /\ armed_for' = IF reset THEN 0
                  ELSE IF arm \/ armed_for > 0 THEN Count(armed_for, IdleCycles + 1)
                  ELSE 0
  /\ held_for' = IF phy_reset /\ ~reset THEN Count(held_for, PhyResetCycles) ELSE 0

NextInputs == arm' \in BOOLEAN /\ activity' \in BOOLEAN /\ reset' \in BOOLEAN

Advance ==
  /\ ~reset
  /\ pending' = NextPending
  /\ idle_cnt' = NextIdle
  /\ holding' = NextHolding
  /\ hold_cnt' = NextHold
  /\ Observe /\ NextInputs

Cancel ==
  /\ reset
  /\ pending' = FALSE /\ idle_cnt' = 0
  /\ holding' = FALSE /\ hold_cnt' = 0
  /\ Observe /\ NextInputs

ReloadNext == Advance \/ Cancel

\* The clock never stops while a register has something to take in; that an
\* input ever changes is not assumed.
ReloadSpec == ReloadInit /\ [][ReloadNext]_reload_vars /\ WF_registers(ReloadNext)

-----------------------------------------------------------------------------
\* The latches are bits and both counters stop at their thresholds.
TypeOK ==
  /\ arm \in BOOLEAN /\ activity \in BOOLEAN /\ reset \in BOOLEAN
  /\ pending \in BOOLEAN /\ idle_cnt \in 0 .. IdleCycles
  /\ holding \in BOOLEAN /\ hold_cnt \in 0 .. PhyResetCycles
  /\ quiet_for \in 0 .. IdleCycles
  /\ armed_for \in 0 .. IdleCycles + 1
  /\ held_for \in 0 .. PhyResetCycles

\* SB_WARMBOOT is pulsed only after an arm that no bus reset has cancelled and
\* after a whole idle window with no activity, all of it later than that arm:
\* quiet time from before the upload ended does not count.
FiresAfterQuiet == WarmbootFire => armed_for > IdleCycles /\ quiet_for >= IdleCycles

\* PROGRAMN is pulled only with an arm still standing, and after the PHY has
\* been in reset for the whole of phy_reset_cycles.
PhyResetFirst == OpenDrainFire => armed_for > IdleCycles /\ held_for >= PhyResetCycles

\* Once taken, the decision to reload is given up for a bus reset only:
\* activity no longer defers it, and PROGRAMN, once pulled, stays pulled.
DecisionLatched ==
  [][/\ phy_reset /\ ~reset => phy_reset'
     /\ OpenDrainFire /\ ~reset => OpenDrainFire']_reload_vars

\* A reload that was armed happens if the bus goes quiet for good, whether or
\* not the arm is still being driven, on both kinds of board.
ReloadHappens ==
  [](pending /\ [](~activity /\ ~reset) => <>WarmbootFire /\ <>OpenDrainFire)

(* The inductive invariant: each counter against what it stands for. *)
CountersInv ==
  /\ TypeOK
  /\ pending <=> armed_for > 0
  /\ idle_cnt <= quiet_for
  /\ pending => idle_cnt < armed_for
  /\ ~pending => idle_cnt = 0
  /\ holding => armed_for > IdleCycles
  /\ hold_cnt = held_for
  /\ ~holding => hold_cnt = 0

=============================================================================
