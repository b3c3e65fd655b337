----------------------------- MODULE Engagement -----------------------------
(***************************************************************************)
(* The engagement state machine of openpilot: StateMachine.update of       *)
(* selfdrive/selfdrived/state.py and the part of selfdrived.py that calls  *)
(* it, counts the disagreements with the panda and publishes the outcome.  *)
(* The outcome goes out in two messages, the state first and the events    *)
(* after it, and a subscriber may read between them.                       *)
(***************************************************************************)
EXTENDS Integers

CONSTANTS
  SOFT_DISABLE_FRAMES,   (* SOFT_DISABLE_TIME / DT_CTRL                      *)
  MISMATCH_MAX,          (* samples without controlsAllowed, 200             *)
  EventSets              (* event types that may be present together         *)

EventTypes ==
  {"enable", "preEnable", "overrideLateral", "overrideLongitudinal", "noEntry",
   "userDisable", "softDisable", "immediateDisable"}

ASSUME EngagementAssumption ==
  /\ SOFT_DISABLE_FRAMES \in Nat \ {0}
  /\ MISMATCH_MAX \in Nat \ {0}
  /\ EventSets \subseteq SUBSET EventTypes

VARIABLES
  state,                 (* StateMachine.state, published as selfdriveState  *)
  soft_disable_timer,
  mismatch_counter,
  override_now,          (* overrideLongitudinal is among the events         *)
  onroad_override,       (* the same, as last published in onroadEvents      *)
  soft_run               (* history: updates in a row that found the system  *)
                         (* active and asked to soft disable                 *)

engageVars == <<state, soft_disable_timer, mismatch_counter, override_now,
                onroad_override, soft_run>>

ACTIVE_STATES == {"enabled", "softDisabling", "overriding"}
ENABLED_STATES == ACTIVE_STATES \cup {"preEnabled"}
States == ENABLED_STATES \cup {"disabled"}

enabled == state \in ENABLED_STATES

----------------------------------------------------------------------------
(* StateMachine.update.                                                     *)

Overridden(ev) == ev \cap {"overrideLateral", "overrideLongitudinal"} # {}

FromEnabled(ev) ==
  IF "softDisable" \in ev THEN "softDisabling"
  ELSE IF Overridden(ev) THEN "overriding" ELSE "enabled"

\* Mutant of FromSoftDisabling: the timer is left for the alert to show.
FromSoftDisabling_NoTimer(ev, timer) ==
  IF "softDisable" \notin ev THEN "enabled" ELSE "softDisabling"

FromSoftDisabling(ev, timer) ==
  IF "softDisable" \notin ev THEN "enabled"
  ELSE IF timer > 0 THEN "softDisabling" ELSE "disabled"

FromDisabled(ev) ==
  IF "enable" \notin ev \/ "noEntry" \in ev THEN "disabled"
  ELSE IF "preEnable" \in ev THEN "preEnabled"
  ELSE IF Overridden(ev) THEN "overriding" ELSE "enabled"

NextState(ev, timer) ==
  CASE state = "disabled" -> FromDisabled(ev)
    [] state # "disabled" /\ ev \cap {"immediateDisable", "userDisable"} # {} -> "disabled"
    [] OTHER ->
         CASE state = "softDisabling" -> FromSoftDisabling(ev, timer)
           [] state = "preEnabled" -> IF "preEnable" \in ev THEN "preEnabled" ELSE "enabled"
           [] OTHER -> FromEnabled(ev)

\* The timer runs down at every update and is set on entering softDisabling.
TimerDown == IF soft_disable_timer > 0 THEN soft_disable_timer - 1 ELSE 0

update(ev) ==
  /\ state' = NextState(ev, TimerDown)
  /\ soft_disable_timer' =
       IF state' = "softDisabling" /\ state # "softDisabling"
       THEN SOFT_DISABLE_FRAMES ELSE TimerDown

----------------------------------------------------------------------------
(* SelfdriveD.step.                                                         *)

\* data_sample: it counts over the whole session, not in a row.
MismatchCounter(allowed) ==
  IF ~enabled THEN 0
  ELSE IF allowed THEN mismatch_counter ELSE mismatch_counter + 1

\* update_events: controlsMismatch disables at once and blocks the next entry.
MismatchEvents ==
  IF mismatch_counter' >= MISMATCH_MAX THEN {"immediateDisable", "noEntry"} ELSE {}

SoftRequest(ev) == state \in ACTIVE_STATES /\ "softDisable" \in ev

\* One iteration up to the publication of selfdriveState; ev are the types of
\* the other events, allowed what the last pandaStates said.  It waits for the
\* end of the previous one.
SelfdriveStep(ev, allowed) ==
  /\ override_now = onroad_override
  /\ mismatch_counter' = MismatchCounter(allowed)
  /\ update(ev \cup MismatchEvents)
  /\ override_now' = ("overrideLongitudinal" \in ev)
  /\ soft_run' = IF SoftRequest(ev) /\ state' \in ACTIVE_STATES THEN soft_run + 1 ELSE 0
  /\ UNCHANGED onroad_override

\* The end of the iteration: onroadEvents goes out when the events changed.
PublishEvents ==
  /\ override_now # onroad_override
  /\ onroad_override' = override_now
  /\ UNCHANGED <<state, soft_disable_timer, mismatch_counter, override_now, soft_run>>

EngageInit ==
  /\ state = "disabled"
  /\ soft_disable_timer = 0 /\ mismatch_counter = 0
  /\ override_now = FALSE /\ onroad_override = FALSE
  /\ soft_run = 0

Selfdrived ==
  \/ \E ev \in EventSets, allowed \in BOOLEAN : SelfdriveStep(ev, allowed)
  \/ PublishEvents

EngageSpec == EngageInit /\ [][Selfdrived]_engageVars

----------------------------------------------------------------------------
(* Properties.                                                              *)

\* The type of the state; the counters stay within their limits.
EngageTypeOK ==
  /\ state \in States
  /\ soft_disable_timer \in 0..SOFT_DISABLE_FRAMES
  /\ mismatch_counter \in 0..MISMATCH_MAX
  /\ override_now \in BOOLEAN /\ onroad_override \in BOOLEAN
  /\ soft_run \in Nat

\* A condition that asks to soft disable and does not go away ends the session:
\* no sequence of overrides, entries and events keeps the system active for more
\* than the time of the timer, counted from the first update that saw it.
SoftDisableIsBounded == soft_run <= SOFT_DISABLE_FRAMES

=============================================================================
