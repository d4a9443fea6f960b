-------------------------- MODULE LifecycleProofs --------------------------
(* Proofs about Lifecycle, for all limits of the counters and all faults.   *)
EXTENDS Lifecycle, TLAPS

USE LifecycleAssumption DEF LifecycleAssumption, Fault

\* Where connect() has not succeeded, and where it says so to core 1.
Trying == {"connecting", "failed", "reconnecting", "refailed", "spin"}

\* Core 1 may still be at its last frame when core 0 says "Connected!".
Drawing ==
    /\ wifi.trying => pc \in Trying
    /\ core1 = "drawing" => pc \in Trying \cup {"connected", "reconnected"}

\* poweroff works on an enabled display only: a disabled one must be dark.
Dark == oled.disabled => ~oled.lit

Resting == pc \in Asleep => ~relay /\ ~radio /\ ~oled.lit

Buffered == oled.buffer <=> pc \notin Asleep \cup {"main"}

\* The radio is there between its starts and a sleep, or has failed to start.
Radio ==
    /\ "reinit" \in mishaps => "open" \in mishaps
    /\ pc \notin Asleep \cup {"main"} /\ ~radio => "radio" \in mishaps

\* Less than one hard reset in a connect(): init() clears the counters.
Counting ==
    /\ pc \in {"connecting", "reconnecting"} => wifi.resets = 0
    /\ pc \in Trying => ~wifi.up

\* From the sleep to the disarming of its alarm, and without its last step.
Wakes == Asleep \cup {"launch", "stuck", "rewifi", "reconnecting", "refailed", "spin", "reconnected",
                      "strayed", "woken"}

Causes ==
    /\ alarm = "wake" => pc \in Wakes \cup {"unalarmed"}
    /\ rtcInterrupt => IF pc \in Wakes THEN cause # "none" ELSE cause = "late"

IInv == /\ TypeOK
        /\ Drawing /\ Dark /\ Resting /\ Buffered
        /\ Radio /\ Counting /\ Causes

LEMMA Initially == Init => IInv
  <1> SUFFICES ASSUME Init PROVE IInv
    OBVIOUS
  <1>1. /\ radio \in BOOLEAN /\ relay \in BOOLEAN
        /\ rtcInterrupt \in BOOLEAN /\ watchdogInterrupt \in BOOLEAN
        /\ present \in BOOLEAN /\ supply \in BOOLEAN /\ ready \in BOOLEAN /\ battery \in BOOLEAN
    BY Zenon DEF Init
  <1>2. TypeOK
    BY <1>1 DEF Init, TypeOK, Unconnected, NoDisplay
  <1> QED
    BY <1>2 DEF Init, IInv, Drawing, Dark, Resting, Buffered, Radio, Counting, Causes, Asleep,
                Trying, Wakes, Unconnected, NoDisplay
-----------------------------------------------------------------------------
LEMMA RadioInitStep ==
  ASSUME IInv, NEW was \in BOOLEAN, NEW fails \in BOOLEAN, NEW others \in SUBSET {"open"},
         RadioInit(was, fails, others)
  PROVE  /\ radio' \in BOOLEAN /\ mishaps' \subseteq {"radio", "open", "reinit"}
         /\ ~radio' => "radio" \in mishaps'
         /\ mishaps \subseteq mishaps' /\ others \subseteq mishaps'
         /\ "reinit" \in mishaps' => "reinit" \in mishaps \/ was
  <1>1. radio' \in BOOLEAN
    BY Zenon DEF RadioInit
  <1> QED
    BY <1>1 DEF IInv, TypeOK, RadioInit

LEMMA ResetStep == ASSUME IInv, Reset PROVE IInv'
  <1>2. /\ radio' \in BOOLEAN /\ relay' \in BOOLEAN
        /\ rtcInterrupt' \in BOOLEAN /\ watchdogInterrupt' \in BOOLEAN /\ present' \in BOOLEAN
    BY Zenon DEF Reset
  <1>3. supply' \in BOOLEAN /\ ready' \in BOOLEAN /\ battery' \in BOOLEAN
    BY DEF Reset, outside, IInv, TypeOK
  <1>4. TypeOK'
    BY <1>2, <1>3 DEF Reset, TypeOK, Unconnected, NoDisplay
  <1> QED
    BY <1>4 DEF Reset, IInv, Drawing, Dark, Resting, Buffered, Radio, Counting, Causes, Asleep,
                Trying, Wakes, Unconnected, NoDisplay

LEMMA BootStep == ASSUME IInv, NEW fails \in BOOLEAN, Boot(fails) PROVE IInv'
  <1> USE DEF IInv
  <1>1. /\ pc = "main" /\ pc' = "settings" /\ core1' = "idle" /\ alarm' = "watchdog"
        /\ watchdogInterrupt' = FALSE /\ RadioInit(FALSE, fails, {})
        /\ UNCHANGED << wifi, relay, watchdog, rtcInterrupt, cause, present, supply, ready, battery >>
    BY DEF Boot, At, WatchdogAlarm, outside
  <1>2. /\ oled' \in [buffer : BOOLEAN, disabled : BOOLEAN, lit : BOOLEAN]
        /\ oled'.buffer = TRUE /\ Dark'
    BY DEF Boot, Opened, Disabled, TypeOK, Dark
  <1>3. /\ radio' \in BOOLEAN /\ mishaps' \subseteq {"radio", "open", "reinit"}
        /\ ~radio' => "radio" \in mishaps'
        /\ "reinit" \in mishaps' => "open" \in mishaps'
    BY <1>1, RadioInitStep DEF Radio
  <1>4. TypeOK'
    BY <1>1, <1>2, <1>3, Zenon DEF TypeOK
  <1> QED
    BY <1>1, <1>2, <1>3, <1>4 DEF Drawing, Resting, Buffered, Radio, Counting, Causes, Asleep, Trying, Wakes

LEMMA SettingsStep == ASSUME IInv, NEW stored \in BOOLEAN, Settings(stored) PROVE IInv'
  <1> USE DEF IInv
  <1>1. relay' \in BOOLEAN
    BY Zenon DEF Settings
  <1>2. TypeOK'
    BY <1>1 DEF Settings, At, outside, TypeOK
  <1> QED
    BY <1>2 DEF Settings, At, outside, Drawing, Dark, Resting, Buffered, Radio, Counting, Causes,
                Asleep, Trying, Wakes

LEMMA ConfigStep ==
  ASSUME IInv, NEW fails \in BOOLEAN, Config(fails) \/ ConfigRefused(fails)
  PROVE  IInv'
  <1> USE DEF IInv
  <1>1. /\ pc = "config" /\ pc' = "wifi"
        /\ UNCHANGED << core1, wifi, oled, relay, watchdog, alarm, rtcInterrupt, watchdogInterrupt,
                        cause, present, supply, ready, battery >>
    BY DEF Config, ConfigRefused, At, rtc, outside
  <1>2. /\ radio' \in BOOLEAN /\ mishaps' \subseteq {"radio", "open", "reinit"}
        /\ ~radio' => "radio" \in mishaps'
        /\ "reinit" \in mishaps' => "open" \in mishaps'
    <2>1. CASE Config(fails)
      <3>1. RadioInit(FALSE, fails, {})
        BY <2>1 DEF Config
      <3> QED
        BY <3>1, RadioInitStep DEF Radio
    <2>2. CASE ConfigRefused(fails)
      <3>1. RadioInit(radio, fails, {"open"}) /\ radio \in BOOLEAN
        BY <2>2 DEF ConfigRefused, TypeOK
      <3> QED
        BY <3>1, RadioInitStep
    <2> QED
      BY <2>1, <2>2
  <1>3. TypeOK'
    BY <1>1, <1>2 DEF TypeOK
  <1> QED
    BY <1>1, <1>2, <1>3 DEF Drawing, Dark, Resting, Buffered, Radio, Counting, Causes,
                Asleep, Trying, Wakes

-----------------------------------------------------------------------------
\* What leaves all but pc as it is, and stays on one side of every boundary
\* of the invariant.
LEMMA GoStep ==
  ASSUME IInv, UNCHANGED << board, rtc, present, outside >>,
         << pc, pc' >> \in { << "connecting", "failed" >>, << "reconnecting", "refailed" >>,
                             << "connected", "loop" >>, << "reconnected", "woken" >>,
                             << "reconnected", "strayed" >>, << "upload", "hung" >>,
                             << "uploaded", "loop" >>, << "wfi", "dormant" >>, << "dormant", "poll" >>,
                             << "launch", "stuck" >> },
         pc \in {"connected", "reconnected"} => core1 # "drawing"
  PROVE  IInv'
  BY DEF IInv, TypeOK, board, rtc, outside, Drawing, Dark, Resting, Buffered, Radio, Counting, Causes,
                Asleep, Trying, Wakes

LEMMA ConnectStep ==
  ASSUME IInv, Connect("wifi", "connecting") \/ Connect("rewifi", "reconnecting")
  PROVE  IInv'
  <1> USE DEF IInv
  <1>1. wifi' = [up |-> FALSE, trying |-> TRUE, trys |-> 0, resets |-> 0]
    BY DEF Connect, Begun, Unconnected
  <1>2. /\ << pc, pc' >> \in { << "wifi", "connecting" >>, << "rewifi", "reconnecting" >> }
        /\ UNCHANGED << core1, radio, oled, relay, watchdog, mishaps, alarm, rtcInterrupt,
                        watchdogInterrupt, cause, present, supply, ready, battery >>
    BY DEF Connect, At, rtc, outside
  <1>3. TypeOK'
    BY <1>1, <1>2 DEF TypeOK
  <1> QED
    BY <1>1, <1>2, <1>3 DEF Drawing, Dark, Resting, Buffered, Radio, Counting, Causes, Asleep, Trying, Wakes

\* A success counts one hard reset at most, a failure none.
LEMMA CountedValues ==
  ASSUME IInv, pc \in {"connecting", "reconnecting"}
  PROVE  /\ Counted(TRUE) \in [up : {TRUE}, trying : BOOLEAN, trys : 0 .. TryLimit, resets : 0 .. 1]
         /\ Counted(FALSE) \in [up : {FALSE}, trying : BOOLEAN, trys : 0 .. TryLimit, resets : {0}]
         /\ ~GivesUp(TRUE) /\ ~GivesUp(FALSE)
  <1>1. /\ wifi.resets = 0 /\ wifi.trys \in 0 .. TryLimit
        /\ wifi \in [up : BOOLEAN, trying : BOOLEAN, trys : 0 .. TryLimit, resets : 0 .. 1]
    BY DEF IInv, TypeOK, Counting
  <1>2. Counted(TRUE) \in [up : {TRUE}, trying : BOOLEAN, trys : 0 .. TryLimit, resets : 0 .. 1]
    <2>1. Counted(TRUE).trys \in 0 .. TryLimit /\ Counted(TRUE).resets \in 0 .. 1
      BY <1>1 DEF Counted
    <2>2. Counted(TRUE) = [wifi EXCEPT !.up = TRUE, !.resets = Counted(TRUE).resets, !.trys = Counted(TRUE).trys]
      BY <1>1 DEF Counted
    <2> QED
      BY <1>1, <2>1, <2>2
  <1>3. Counted(FALSE) \in [up : {FALSE}, trying : BOOLEAN, trys : 0 .. TryLimit, resets : {0}]
    <2>1. Counted(FALSE).trys \in 0 .. TryLimit /\ Counted(FALSE).resets = 0
      BY <1>1 DEF Counted
    <2>2. Counted(FALSE) = [wifi EXCEPT !.up = FALSE, !.resets = 0, !.trys = Counted(FALSE).trys]
      BY <1>1 DEF Counted
    <2> QED
      BY <1>1, <2>1, <2>2
  <1>4. ~GivesUp(TRUE) /\ ~GivesUp(FALSE)
    BY <1>1 DEF GivesUp, Counted
  <1> QED
    BY <1>2, <1>3, <1>4, Zenon

\* A turn of the loop that ends it.
LEMMA UpStep ==
  ASSUME IInv,
         UNCHANGED << core1, radio, oled, relay, watchdog, mishaps, alarm, rtcInterrupt,
                      watchdogInterrupt, cause, present, supply, ready, battery >>,
         << pc, pc' >> \in { << "connecting", "connected" >>, << "reconnecting", "reconnected" >> },
         wifi' \in [up : {TRUE}, trying : {FALSE}, trys : 0 .. TryLimit, resets : 0 .. 1]
  PROVE  IInv'
  <1> USE DEF IInv
  <1>1. wifi' \in [up : BOOLEAN, trying : BOOLEAN, trys : 0 .. TryLimit, resets : 0 .. 1]
    OBVIOUS
  <1>2. TypeOK'
    BY <1>1 DEF TypeOK
  <1> QED
    BY <1>2 DEF Drawing, Dark, Resting, Buffered, Radio, Counting, Causes, Asleep, Trying, Wakes

\* A turn of the loop that does not.
LEMMA DownStep ==
  ASSUME IInv,
         UNCHANGED << core1, radio, oled, relay, watchdog, mishaps, alarm, rtcInterrupt,
                      watchdogInterrupt, cause, present, supply, ready, battery >>,
         pc \in {"connecting", "reconnecting"}, pc' = pc,
         wifi' \in [up : {FALSE}, trying : {TRUE}, trys : 0 .. TryLimit, resets : {0}]
  PROVE  IInv'
  <1> USE DEF IInv
  <1>1. wifi' \in [up : BOOLEAN, trying : BOOLEAN, trys : 0 .. TryLimit, resets : 0 .. 1]
    <2>1. {0} \subseteq 0 .. 1
      OBVIOUS
    <2>2. [up : {FALSE}, trying : {TRUE}, trys : 0 .. TryLimit, resets : {0}]
            \subseteq [up : BOOLEAN, trying : BOOLEAN, trys : 0 .. TryLimit, resets : 0 .. 1]
      BY <2>1, Zenon
    <2> QED
      BY <2>2, Zenon
  <1>2. TypeOK'
    BY <1>1 DEF TypeOK
  <1> QED
    BY <1>2 DEF Drawing, Dark, Resting, Buffered, Radio, Counting, Causes, Asleep, Trying, Wakes

LEMMA AttemptStep ==
  ASSUME IInv, NEW from \in {"connecting", "reconnecting"},
         NEW to, to = IF from = "connecting" THEN "connected" ELSE "reconnected",
         NEW failed, Attempt(TRUE, from, to, failed) \/ Attempt(FALSE, from, to, failed)
  PROVE  IInv'
  <1>1. pc = from
    BY DEF Attempt, At
  <1>2. UNCHANGED << core1, radio, oled, relay, watchdog, mishaps, alarm, rtcInterrupt,
                     watchdogInterrupt, cause, present, supply, ready, battery >>
    BY DEF Attempt, At, rtc, outside
  <1>3. CASE Attempt(TRUE, from, to, failed)
    <2>1. (GivesUp(TRUE) \/ ~TRUE) = FALSE
      BY <1>1, CountedValues, Zenon
    <2>2. pc' = to /\ wifi' = [Counted(TRUE) EXCEPT !.trying = FALSE]
      BY <1>3, <2>1, Zenon DEF Attempt, At
    <2>3. wifi' \in [up : {TRUE}, trying : {FALSE}, trys : 0 .. TryLimit, resets : 0 .. 1]
      BY <1>1, <2>2, CountedValues
    <2> QED
      BY <1>1, <1>2, <2>2, <2>3, UpStep
  <1>4. CASE Attempt(FALSE, from, to, failed)
    <2>1. (GivesUp(FALSE) \/ ~FALSE) = TRUE /\ ~GivesUp(FALSE)
      BY <1>1, CountedValues, Zenon
    <2>2. pc' = from /\ wifi' = [Counted(FALSE) EXCEPT !.trying = TRUE]
      BY <1>4, <2>1, Zenon DEF Attempt, At
    <2>3. wifi' \in [up : {FALSE}, trying : {TRUE}, trys : 0 .. TryLimit, resets : {0}]
      BY <1>1, <2>2, CountedValues
    <2> QED
      BY <1>1, <1>2, <2>2, <2>3, DownStep
  <1> QED
    BY <1>3, <1>4

LEMMA GiveUpStep == ASSUME IInv, GiveUp PROVE IInv'
  BY DEF IInv, TypeOK, GiveUp, At, rtc, outside, Drawing, Dark, Resting, Buffered,
         Radio, Counting, Causes, Asleep, Trying, Wakes
-----------------------------------------------------------------------------
LEMMA MeasureStep == ASSUME IInv, Measure PROVE IInv'
  <1> USE DEF IInv
  <1>1. /\ oled' \in [buffer : BOOLEAN, disabled : BOOLEAN, lit : BOOLEAN]
        /\ oled'.buffer = oled.buffer /\ Dark'
    BY DEF Measure, Judged, Disabled, TypeOK, Dark
  <1> QED
    BY <1>1 DEF TypeOK, Measure, At, rtc, outside, Drawing, Resting, Buffered,
         Radio, Counting, Causes, Asleep, Trying, Wakes

LEMMA UploadStep == ASSUME IInv, StartUpload \/ Uploaded PROVE IInv'
  <1> USE DEF IInv
  <1>1. present' \in BOOLEAN /\ watchdogInterrupt' \in BOOLEAN
    BY Zenon DEF TypeOK, StartUpload, Uploaded, WatchdogAlarm
  <1>2. /\ << pc, pc' >> \in { << "measured", "upload" >>, << "upload", "uploaded" >> }
        /\ alarm' \in {"none", "watchdog"}
        /\ UNCHANGED << core1, wifi, radio, oled, relay, watchdog, mishaps, rtcInterrupt, cause,
                        supply, ready, battery >>
    BY DEF StartUpload, Uploaded, WatchdogAlarm, At, board, outside
  <1>3. TypeOK'
    BY <1>1, <1>2 DEF TypeOK
  <1> QED
    BY <1>2, <1>3 DEF Drawing, Dark, Resting, Buffered, Radio, Counting, Causes, Asleep, Trying, Wakes

LEMMA ShutdownStep == ASSUME IInv, Shutdown PROVE IInv'
  <1> USE DEF IInv
  <1>1. /\ oled' \in [buffer : BOOLEAN, disabled : BOOLEAN, lit : BOOLEAN]
        /\ oled'.buffer = FALSE /\ oled'.lit = FALSE
    BY DEF Shutdown, Closed, TypeOK, Dark
  <1> QED
    BY <1>1 DEF TypeOK, Shutdown, At, outside, Dark, Drawing, Resting, Buffered,
         Radio, Counting, Causes, Asleep, Trying, Wakes

LEMMA AwakeStep ==
  ASSUME IInv, NEW button \in BOOLEAN, NEW fails \in BOOLEAN, Awake(button, fails)
  PROVE  IInv'
  <1> USE DEF IInv
  <1>1. /\ oled' \in [buffer : BOOLEAN, disabled : BOOLEAN, lit : BOOLEAN]
        /\ oled'.buffer = TRUE /\ Dark'
    BY DEF Awake, Opened, TypeOK, Dark
  <1>2. /\ pc = "poll" /\ pc' \in {"woken", "launch"}
        /\ RadioInit(radio, fails, {})
        /\ UNCHANGED << core1, wifi, relay, watchdog, alarm, rtcInterrupt, watchdogInterrupt, cause,
                        present, supply, ready, battery >>
    BY DEF Awake, At, rtc, outside
  <1>3. radio = FALSE
    BY <1>2 DEF Resting, Asleep, TypeOK
  <1>4. /\ radio' \in BOOLEAN /\ mishaps' \subseteq {"radio", "open", "reinit"}
        /\ ~radio' => "radio" \in mishaps'
        /\ "reinit" \in mishaps' => "open" \in mishaps'
    BY <1>2, <1>3, RadioInitStep DEF Radio
  <1>5. TypeOK'
    BY <1>1, <1>2, <1>4 DEF TypeOK
  <1> QED
    BY <1>1, <1>2, <1>4, <1>5 DEF Drawing, Resting, Buffered, Radio, Counting, Causes, Asleep, Trying, Wakes

\* A wake gets beyond the launch of core 1, or waits there for ever.
LEMMA RelaunchStep == ASSUME IInv, Relaunch PROVE IInv'
  <1> USE DEF IInv
  <1>1. CASE pc' = "rewifi"
    <2>1. /\ pc = "launch" /\ core1' = "idle"
          /\ UNCHANGED << wifi, radio, oled, relay, watchdog, mishaps, alarm, rtcInterrupt,
                          watchdogInterrupt, cause, present, supply, ready, battery >>
      BY <1>1 DEF Relaunch, Go, At, rtc, outside
    <2>2. TypeOK'
      BY <1>1, <2>1 DEF TypeOK
    <2> QED
      BY <1>1, <2>1, <2>2 DEF Drawing, Dark, Resting, Buffered, Radio, Counting, Causes, Asleep,
                              Trying, Wakes
  <1>2. CASE Go("launch", "stuck")
    BY <1>2, GoStep DEF Go, At
  <1> QED
    BY <1>1, <1>2 DEF Relaunch, At

\* rtcInterrupt goes first, then the alarm: what comes in between is late.
LEMMA WokenStep == ASSUME IInv, Woken \/ Disarm PROVE IInv'
  <1> USE DEF IInv
  <1>1. rtcInterrupt' \in BOOLEAN
    BY Zenon DEF Woken, Disarm, TypeOK
  <1>2. /\ << pc, pc' >> \in { << "woken", "unalarmed" >>, << "unalarmed", "loop" >> }
        /\ UNCHANGED << core1, wifi, radio, oled, relay, watchdog, mishaps, watchdogInterrupt,
                        present, supply, ready, battery >>
    BY DEF Woken, Disarm, At, board, outside
  <1>3. /\ alarm' \in {alarm, "none"} /\ cause' \in {cause, "none"}
        /\ Causes'
    BY <1>2 DEF Woken, Disarm, At, Causes, Wakes, Asleep
  <1>4. TypeOK'
    BY <1>1, <1>2, <1>3 DEF TypeOK
  <1> QED
    BY <1>2, <1>3, <1>4 DEF Drawing, Dark, Resting, Buffered, Radio, Counting, Asleep, Trying
-----------------------------------------------------------------------------
LEMMA AlarmStep == ASSUME IInv, Alarm PROVE IInv'
  <1> USE DEF IInv
  <1>1. watchdogInterrupt' \in BOOLEAN /\ rtcInterrupt' \in BOOLEAN
    BY Zenon DEF Alarm
  <1>2. TypeOK'
    BY <1>1 DEF TypeOK, Alarm, board, outside
  <1>3. Causes'
    BY DEF Alarm, Causes, TypeOK, Wakes, Asleep
  <1> QED
    BY <1>2, <1>3 DEF Alarm, board, outside, Drawing, Dark, Resting, Buffered, Radio, Counting

LEMMA Core1Step == ASSUME IInv, Core1 PROVE IInv'
  BY DEF IInv, TypeOK, Core1, StartFrame, EndTurn, Feed, rtc, outside, Drawing, Dark, Resting,
         Buffered, Radio, Counting, Causes

LEMMA OutsideStep == ASSUME IInv, Outside PROVE IInv'
  BY DEF IInv, TypeOK, Outside, board, rtc, Drawing, Dark, Resting, Buffered, Radio, Counting, Causes

LEMMA Inductive == IInv /\ [Next]_vars => IInv'
  <1> SUFFICES ASSUME IInv, [Next]_vars PROVE IInv'
    OBVIOUS
  <1>1. CASE Booting
    BY <1>1, BootStep, ConfigStep, SettingsStep, ResetStep DEF Booting, ConfigFailed
  <1>2. CASE Connecting
    <2>1. Show("connected", "loop") \/ Show("reconnected", "woken") \/ Stray => IInv'
      BY GoStep DEF Show, Stray, Go, At
    <2> QED
      BY <1>2, <2>1, ConnectStep, RelaunchStep, GiveUpStep DEF Connecting
  <1>3. CASE Looping
    <2>1. StayAwake \/ Wfi => IInv'
      BY GoStep DEF StayAwake, Wfi, Go, At
    <2> QED
      BY <1>3, <2>1, MeasureStep, UploadStep, ShutdownStep, WokenStep DEF Looping
  <1>4. CASE Waking
    BY <1>4, AwakeStep DEF Waking
  <1>5. CASE Revive \/ Refusal \/ UploadLost
    BY <1>5, GoStep DEF Revive, Refusal, BadAuth, UploadLost, Go, At
  <1>6. CASE \E up \in BOOLEAN : Network(up)
    BY <1>6, AttemptStep, Zenon DEF Network
  <1>7. CASE WatchdogReset
    BY <1>7, ResetStep DEF WatchdogReset
  <1>8. CASE UNCHANGED vars
    BY <1>8 DEF vars, board, rtc, outside, IInv, TypeOK, Drawing, Dark, Resting, Buffered, Radio,
                Counting, Causes
  <1> QED
    BY <1>1, <1>2, <1>3, <1>4, <1>5, <1>6, <1>7, <1>8, AlarmStep, Core1Step, OutsideStep DEF Next

LEMMA Invariance == Spec => []IInv
  BY Initially, Inductive, PTL DEF Spec
-----------------------------------------------------------------------------
(* The counters of connect() stay within their limits, and the state has    *)
(* its types.                                                               *)
THEOREM TypeCorrect == Spec => []TypeOK
  BY Invariance, PTL DEF IInv

(* Relay, radio, panel and core 1 are off in every sleep, disabled display, *)
(* failed wakes and late alarms included.                                   *)
THEOREM SleepsAreQuiet == Spec => []SleepIsQuiet
  <1>1. IInv => SleepIsQuiet
    BY DEF IInv, SleepIsQuiet, Resting, Drawing, Asleep, Trying
  <1> QED
    BY <1>1, Invariance, PTL

(* The display's buffer is allocated and freed in turn, and every frame of  *)
(* core 1 has one.                                                          *)
THEOREM BuffersArePaired == Spec => []BufferPaired
  <1>1. IInv => BufferPaired
    BY DEF IInv, BufferPaired, Buffered, Drawing, Asleep, Trying, TypeOK
  <1> QED
    BY <1>1, Invariance, PTL

(* The radio is started once between two stops and is there for connects    *)
(* and uploads, unless a start of radio or server has failed.               *)
THEOREM RadioIsPaired == Spec => []RadioPaired
  <1>1. IInv => RadioPaired
    BY DEF IInv, RadioPaired, Radio, Asleep
  <1> QED
    BY <1>1, Invariance, PTL

(* connect() fails on a wrong password only, whatever its limits are.       *)
THEOREM LinksAreKept == Spec => []LinkIsKept
  <1>1. IInv => LinkIsKept
    BY DEF IInv, LinkIsKept, Counting, Trying
  <1> QED
    BY <1>1, Invariance, PTL

(* An alarm ends the sleep it was set for, or comes between the end of one  *)
(* and its disarming.                                                       *)
THEOREM AlarmsBelongToSleeps == Spec => []AlarmsWakeOnce
  <1>1. IInv => AlarmsWakeOnce
    BY DEF IInv, AlarmsWakeOnce, Causes, Wakes, Asleep
  <1> QED
    BY <1>1, Invariance, PTL

-----------------------------------------------------------------------------
\* The watchdog is enabled only where the firmware has given up by itself.
WatchdogSpins == watchdog # "off" => pc = "spin"

LEMMA WatchdogPreserved == ASSUME IInv, WatchdogSpins, [Next]_vars PROVE WatchdogSpins'
  <1> USE DEF WatchdogSpins
  <1>1. CASE UNCHANGED << pc, watchdog >>
    BY <1>1
  <1>2. CASE watchdog' = "off"
    BY <1>2
  <1>3. CASE GiveUp
    BY <1>3 DEF GiveUp, At
  <1>4. CASE watchdog' = watchdog /\ pc # "spin"
    BY <1>4
  <1>5. CASE Booting
    BY <1>2, <1>4, <1>5 DEF Booting, Boot, Config, ConfigRefused, Settings, ConfigFailed, Reset, At
  <1>6. CASE Connecting
    BY <1>3, <1>4, <1>6 DEF Connecting, Connect, Relaunch, Show, Stray, Go, At, board
  <1>7. CASE Looping \/ Waking \/ Revive \/ Refusal \/ UploadLost
    <2>1. Looping \/ Waking => watchdog' = watchdog /\ pc # "spin"
      BY DEF Looping, Waking, Measure, StartUpload, Uploaded, StayAwake, Shutdown, Wfi, Woken, Disarm,
             Awake, Go, At, board
    <2>2. Revive \/ Refusal \/ UploadLost => watchdog' = watchdog /\ pc # "spin"
      BY DEF Revive, Refusal, BadAuth, UploadLost, Go, At, board
    <2> QED
      BY <1>4, <1>7, <2>1, <2>2
  <1>8. CASE \E up \in BOOLEAN : Network(up)
    BY <1>4, <1>8 DEF Network, Attempt, At
  <1>9. CASE WatchdogReset
    BY <1>2, <1>9 DEF WatchdogReset, Reset
  <1>10. CASE Alarm \/ Outside \/ UNCHANGED vars
    BY <1>1, <1>10 DEF Alarm, Outside, board, vars
  <1>11. CASE Core1
    BY <1>11 DEF Core1, StartFrame, EndTurn, Feed
  <1> QED
    BY <1>5, <1>6, <1>7, <1>8, <1>9, <1>10, <1>11 DEF Next

\* Where nothing but the supply can help the board on, with no one to revive it.
Final == {"failed", "hung", "stuck"}
Slept == {"wfi", "dormant"}

LEMMA NoWayOut ==
  ASSUME WatchdogSpins, Next, pc \in Final \cup Slept
  PROVE  /\ pc \in Final => pc' = pc
         /\ ~Revives /\ pc \in Slept => pc' \in Slept
  <1> USE DEF Final, Slept
  <1>1. ~WatchdogReset
    BY DEF WatchdogReset, WatchdogSpins
  <1>2. ~Booting
    BY DEF Booting, Boot, Config, ConfigRefused, Settings, ConfigFailed, At
  <1>3. ~Connecting
    BY DEF Connecting, Connect, Relaunch, GiveUp, Show, Stray, Go, At
  <1>4. ~Waking /\ ~Refusal /\ ~UploadLost
    BY DEF Waking, Awake, Refusal, BadAuth, UploadLost, Go, At
  <1>5. ~ \E up \in BOOLEAN : Network(up)
    BY DEF Network, Attempt, At
  <1>6. Looping => pc = "wfi" /\ pc' = "dormant"
    BY DEF Looping, Measure, StartUpload, Uploaded, StayAwake, Shutdown, Wfi, Woken, Disarm, Go, At
  <1>7. Revive => Revives /\ pc = "dormant"
    BY DEF Revive, Go, At
  <1>8. Alarm \/ Core1 \/ Outside => pc' = pc
    BY DEF Alarm, Core1, Outside
  <1> QED
    BY <1>1, <1>2, <1>3, <1>4, <1>5, <1>6, <1>7, <1>8 DEF Next

LEMMA WatchdogInvariance == Spec => [](IInv /\ WatchdogSpins)
  <1>1. Init => IInv /\ WatchdogSpins
    BY Initially DEF Init, WatchdogSpins
  <1>2. IInv /\ WatchdogSpins /\ [Next]_vars => (IInv /\ WatchdogSpins)'
    BY Inductive, WatchdogPreserved
  <1> QED
    BY <1>1, <1>2, PTL DEF Spec

(* A board whose first connect has failed, one whose upload hangs and one    *)
(* whose core 1 does not answer its second launch stay as they are: the      *)
(* watchdog, which would have to reset them, is enabled where a connect      *)
(* after a sleep has failed, and nowhere else.                               *)
THEOREM NoResetFromOutside ==
  Spec => /\ [](watchdog # "off" => pc = "spin")
          /\ [][(pc \in {"failed", "hung", "stuck"}) => (pc' = pc)]_vars
  <1>1. WatchdogSpins /\ [Next]_vars => [(pc \in {"failed", "hung", "stuck"}) => (pc' = pc)]_vars
    BY NoWayOut DEF Final
  <1>2. WatchdogSpins => (watchdog # "off" => pc = "spin")
    BY DEF WatchdogSpins
  <1> QED
    BY <1>1, <1>2, WatchdogInvariance, PTL DEF Spec

(* The code on its own never leaves a sleep: the alarm that is set for it    *)
(* leads from the first part of it to the second at most.                    *)
THEOREM SleepsStayAsleep ==
  ASSUME ~Revives
  PROVE  Spec => [][(pc \in {"wfi", "dormant"}) => pc' \in {"wfi", "dormant"}]_vars
  <1>1. WatchdogSpins /\ [Next]_vars => [(pc \in {"wfi", "dormant"}) => pc' \in {"wfi", "dormant"}]_vars
    BY NoWayOut DEF Slept
  <1> QED
    BY <1>1, WatchdogInvariance, PTL DEF Spec
=============================================================================
