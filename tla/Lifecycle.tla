----------------------------- MODULE Lifecycle -----------------------------
(* The life of the board above its settings (main.cpp): boot, Wi-Fi connect *)
(* (wifi/WiFiManager.cpp), the measuring loop, sleep and wake               *)
(* (sleep/sleep.c), the two RTC alarms, the display's buffer and panel      *)
(* (oled/oled_display.cpp) and core 1, which draws while core 0 connects.   *)
(* The upload itself is in TlsClient, the configuration in ConfigServer.    *)
EXTENDS Integers

CONSTANTS
    TryLimit,   \* attempts before a hard reset would be due: 5
    ResetLimit, \* hard resets before connect() would give up: 5
    Faults,     \* what may fail: see Fault
    Revives     \* something outside ends the dormant mode

\* cyw43_arch_init, tcpServerOpen, http_request, the password, the launch of a
\* core 1 that runs, and the return from awakeWifiSetup, declared [[noreturn]].
Fault == {"radio", "open", "upload", "password", "launch", "noreturn"}

ASSUME LifecycleAssumption ==
    /\ TryLimit \in Nat \ {0} /\ ResetLimit \in Nat \ {0, 1}
    /\ Faults \subseteq Fault
    /\ Revives \in BOOLEAN

VARIABLES
    pc,                \* where core 0 is
    core1,             \* "off", "idle" or "drawing"
    wifi,              \* WiFiManager: link_up = 0, trying_to_connect, counters
    radio,             \* cyw43_arch_init has succeeded
    oled,              \* buffer allocated, disabled, panel lit
    relay,             \* RELAY_POWER_24V
    watchdog,          \* "off", "armed" by watchdog_enable, "fed" once since
    alarm,             \* callback of the armed RTC alarm
    rtcInterrupt, watchdogInterrupt,
    present,           \* externalVoltagePresent
    supply, ready,     \* V_24_SENSE and POWER_24V_READY
    battery,           \* the battery is charged
    cause,             \* history: which sleep's alarm set rtcInterrupt
    mishaps            \* history: what went wrong since the reset

board == << core1, wifi, radio, oled, relay, watchdog, mishaps >>
rtc == << alarm, rtcInterrupt, watchdogInterrupt, cause >>
outside == << supply, ready, battery >>
vars == << pc, board, rtc, present, outside >>

Asleep == {"wfi", "dormant", "poll"}
Unconnected == [up |-> FALSE, trying |-> FALSE, trys |-> 0, resets |-> 0]
NoDisplay == [buffer |-> FALSE, disabled |-> FALSE, lit |-> FALSE]

Init ==
    /\ pc = "main" /\ core1 = "off" /\ wifi = Unconnected /\ radio = FALSE
    /\ oled = NoDisplay /\ relay = FALSE /\ watchdog = "off" /\ mishaps = {}
    /\ alarm = "none" /\ rtcInterrupt = FALSE /\ watchdogInterrupt = FALSE /\ cause = "none"
    /\ present = FALSE /\ supply \in BOOLEAN /\ ready \in BOOLEAN /\ battery \in BOOLEAN

\* RAM after a reset.
Reset ==
    /\ pc' = "main" /\ core1' = "off" /\ wifi' = Unconnected /\ radio' = FALSE
    /\ oled' = NoDisplay /\ relay' = FALSE /\ watchdog' = "off" /\ mishaps' = {}
    /\ alarm' = "none" /\ rtcInterrupt' = FALSE /\ watchdogInterrupt' = FALSE /\ cause' = "none"
    /\ present' = FALSE /\ UNCHANGED outside
-----------------------------------------------------------------------------
(* Display: while it is disabled nothing is written to the panel.           *)

\* init and poweron
Opened(d) == [d EXCEPT !.buffer = TRUE, !.lit = (@ \/ ~d.disabled)]
\* Mutant of Closed: the panel is left on.
ClosedLit(d) == [d EXCEPT !.buffer = FALSE]
\* poweroff and deinit
Closed(d) == [d EXCEPT !.buffer = FALSE, !.lit = (@ /\ d.disabled)]
\* disableDisplay: poweroff comes first
Disabled(d) == [d EXCEPT !.disabled = TRUE, !.lit = (@ /\ d.disabled)]
\* Mutant of Judged: the display is never enabled again.
JudgedOnce(d) == IF battery THEN d ELSE Disabled(d)
\* disableDisplay or enableDisplay, which does not power on
Judged(d) == IF battery THEN [d EXCEPT !.disabled = FALSE] ELSE Disabled(d)

(* setupWatchdogAlarm                                                       *)
WatchdogAlarm == watchdogInterrupt' = FALSE /\ alarm' = "watchdog"

(* cyw43_arch_init, with the radio as it was, among other mishaps.          *)
RadioInit(was, fails, others) ==
    /\ fails => "radio" \in Faults
    /\ radio' = (was \/ ~fails)
    /\ mishaps' = mishaps \cup others \cup (IF fails THEN {"radio"} ELSE {})
                          \cup (IF was THEN {"reinit"} ELSE {})
-----------------------------------------------------------------------------
(* Core 0: boot.                                                            *)

At(from, to) == pc = from /\ pc' = to /\ UNCHANGED outside
Go(from, to) == At(from, to) /\ UNCHANGED << board, rtc, present >>

\* main, and the alarm that setupEEpromSettings sets first
Boot(fails) ==
    /\ At("main", "settings")
    /\ RadioInit(FALSE, fails, {})
    /\ oled' = IF battery THEN Opened(oled) ELSE Disabled(Opened(oled))
    /\ core1' = "idle"
    /\ WatchdogAlarm
    /\ UNCHANGED << wifi, relay, watchdog, rtcInterrupt, cause, present >>

\* What setupEEpromSettings does besides its settings.
Settings(stored) ==
    /\ At("settings", IF stored THEN "wifi" ELSE "config")
    /\ relay' = (relay \/ (stored /\ supply))
    /\ alarm' = "none"
    /\ UNCHANGED << core1, wifi, radio, oled, watchdog, mishaps >>
    /\ UNCHANGED << rtcInterrupt, watchdogInterrupt, cause, present >>

\* Mutant of Config: cyw43_arch_deinit is left out.
ConfigUnpaired(fails) ==
    /\ At("config", "wifi")
    /\ RadioInit(radio, fails, {})
    /\ UNCHANGED << core1, wifi, oled, relay, watchdog, rtc, present >>
\* A form came in and the radio was shut down; it starts again.
Config(fails) ==
    /\ At("config", "wifi")
    /\ RadioInit(FALSE, fails, {})
    /\ UNCHANGED << core1, wifi, oled, relay, watchdog, rtc, present >>

\* tcpServerOpen failed: initConfigServer returned with the radio as it was.
ConfigRefused(fails) ==
    /\ "open" \in Faults /\ At("config", "wifi")
    /\ RadioInit(radio, fails, {"open"})
    /\ UNCHANGED << core1, wifi, oled, relay, watchdog, rtc, present >>

\* The form could not be stored: watchdog_enable(1).
ConfigFailed == pc = "config" /\ Reset
-----------------------------------------------------------------------------
(* Core 0: connect, after boot and after waking up.                         *)

\* Mutant of Begun: init() leaves the hard resets as they are.
BegunCounting == [Unconnected EXCEPT !.trying = TRUE, !.resets = wifi.resets]
\* init(), and connect() up to its loop
Begun == [Unconnected EXCEPT !.trying = TRUE]

Connect(from, to) ==
    /\ At(from, to)
    /\ wifi' = Begun
    /\ UNCHANGED << core1, radio, oled, relay, watchdog, mishaps, rtc, present >>

\* The counters of the loop are tested together with !link_up, which means a
\* success: link_up is an error code.  They stop at their limits here.
Counted(up) ==
    LET hardReset == up /\ wifi.trys >= TryLimit
        trys == IF hardReset THEN 0 ELSE wifi.trys
    IN  [wifi EXCEPT !.up = up,
                     !.resets = IF hardReset THEN @ + 1 ELSE @,
                     !.trys = IF trys < TryLimit THEN trys + 1 ELSE trys]

GivesUp(up) == up /\ Counted(up).resets >= ResetLimit

\* One turn of the loop: cyw43_arch_wifi_connect_timeout_ms returns.
Attempt(up, from, to, failed) ==
    /\ At(from, IF GivesUp(up) THEN failed ELSE IF up THEN to ELSE from)
    /\ wifi' = [Counted(up) EXCEPT !.trying = (GivesUp(up) \/ ~up)]
    /\ UNCHANGED << core1, radio, oled, relay, watchdog, mishaps, rtc, present >>

\* CYW43_LINK_BADAUTH: connect() returns false, with trying_to_connect set.
BadAuth(from, failed) == "password" \in Faults /\ Go(from, failed)

\* Mutant of GiveUp: the watchdog is not enabled.
GiveUpSpinning == Go("refailed", "spin")
\* awakeWifiSetup lets the watchdog reset the board; setupWifiSettings, which
\* stays at "failed", does not.
GiveUp ==
    /\ At("refailed", "spin")
    /\ watchdog' = "armed"
    /\ UNCHANGED << core1, wifi, radio, oled, relay, mishaps, rtc, present >>

\* Mutant of Show: nothing is shown.
ShowNothing(from, to) == Go(from, to)
\* "Connected!", for two seconds: longer than core 1 needs for a frame.
Show(from, to) == core1 # "drawing" /\ Go(from, to)

\* Undefined: the processor runs on behind awakeWifiSetup.
Stray == "noreturn" \in Faults /\ core1 # "drawing" /\ Go("reconnected", "strayed")
-----------------------------------------------------------------------------
(* Core 0: the loop.                                                        *)

\* The first lines of loop(), up to the judgement of the battery.
Measure ==
    /\ At("loop", "measured")
    /\ relay' = supply
    /\ oled' = Judged(oled)
    /\ UNCHANGED << core1, wifi, radio, watchdog, mishaps, rtc, present >>

\* Mutant of StartUpload: POWER_24V_READY is not read.
StartUploadAsBefore ==
    /\ At("measured", "upload")
    /\ WatchdogAlarm
    /\ UNCHANGED << board, rtcInterrupt, cause, present >>
StartUpload ==
    /\ At("measured", "upload")
    /\ present' = ready
    /\ WatchdogAlarm
    /\ UNCHANGED << board, rtcInterrupt, cause >>

UploadLost == "upload" \in Faults /\ Go("upload", "hung")

\* http_request returns; writeInfo shows what was measured.
Uploaded ==
    /\ At("upload", "uploaded")
    /\ alarm' = "none"
    /\ UNCHANGED << board, rtcInterrupt, watchdogInterrupt, cause, present >>

StayAwake == present /\ Go("uploaded", "loop")

\* shutdown, the change of the clocks and setupAlarm
Shutdown ==
    /\ ~present /\ At("uploaded", "wfi")
    /\ relay' = FALSE /\ oled' = Closed(oled) /\ radio' = FALSE
    /\ alarm' = "wake" /\ cause' = (IF cause = "late" THEN "late" ELSE "none")
    /\ UNCHANGED << core1, wifi, watchdog, mishaps, rtcInterrupt, watchdogInterrupt, present >>
-----------------------------------------------------------------------------
(* Core 0: sleep and wake.                                                  *)

\* Mutant of Wfi: an interrupt from before the polling is forgotten.
WfiForgetting ==
    /\ At("wfi", "dormant")
    /\ rtcInterrupt' = FALSE
    /\ UNCHANGED << board, alarm, watchdogInterrupt, cause, present >>
\* __wfi returns on the alarm or another interrupt, and go_dormant follows.
Wfi == Go("wfi", "dormant")

\* "started again by an external event": none that the firmware has set up.
Revive == Revives /\ Go("dormant", "poll")

Awake(button, fails) ==
    /\ button \/ rtcInterrupt
    /\ At("poll", IF fails THEN "woken" ELSE "launch")
    /\ oled' = Opened(oled)
    /\ RadioInit(radio, fails, {})
    /\ UNCHANGED << core1, wifi, relay, watchdog, rtc, present >>

\* multicore_launch_core1 hands the entry to a core that is fresh from a reset.
\* Core 1 has run since the boot and is not reset: either it starts over all
\* the same, or core 0 waits for its answer for ever.
Relaunch ==
    \/ /\ At("launch", "rewifi") /\ core1' = "idle"
       /\ UNCHANGED << wifi, radio, oled, relay, watchdog, mishaps, rtc, present >>
    \/ "launch" \in Faults /\ Go("launch", "stuck")

\* Mutant of Woken: rtcInterrupt stays set.
WokenTwice ==
    /\ At("woken", "unalarmed") /\ cause' = "none"
    /\ UNCHANGED << board, alarm, rtcInterrupt, watchdogInterrupt, present >>
Woken ==
    /\ At("woken", "unalarmed")
    /\ rtcInterrupt' = FALSE /\ cause' = "none"
    /\ UNCHANGED << board, alarm, watchdogInterrupt, present >>

\* rtc_disable_alarm, and loop() again
Disarm ==
    /\ At("unalarmed", "loop")
    /\ alarm' = "none"
    /\ UNCHANGED << board, rtcInterrupt, watchdogInterrupt, cause, present >>
-----------------------------------------------------------------------------
(* Around core 0.                                                           *)

\* send_callback and alarm_callback.  The RTC stands still in dormant mode.
Alarm ==
    /\ pc # "dormant" /\ alarm # "none"
    /\ alarm' = "none"
    /\ watchdogInterrupt' = (watchdogInterrupt \/ alarm = "watchdog")
    /\ rtcInterrupt' = (rtcInterrupt \/ alarm = "wake")
    /\ cause' = IF alarm = "watchdog" THEN cause ELSE IF pc = "unalarmed" THEN "late" ELSE "own"
    /\ UNCHANGED << pc, board, present, outside >>

WatchdogReset == watchdog # "off" /\ Reset

\* watchdog_update by core 1
Feed == watchdog' = IF watchdog = "armed" /\ ~watchdogInterrupt THEN "fed" ELSE watchdog

\* A turn of core1_entry feeds the watchdog, with or without a frame before.
StartFrame == core1 = "idle" /\ wifi.trying /\ core1' = "drawing" /\ UNCHANGED watchdog
EndTurn == (core1 = "drawing" \/ (core1 = "idle" /\ ~wifi.trying)) /\ core1' = "idle" /\ Feed
Core1 ==
    /\ StartFrame \/ EndTurn
    /\ UNCHANGED << pc, wifi, radio, oled, relay, mishaps, rtc, present, outside >>

Outside ==
    /\ supply' \in BOOLEAN /\ ready' \in BOOLEAN /\ battery' \in BOOLEAN
    /\ UNCHANGED << pc, board, rtc, present >>

Booting ==
    \/ \E fails \in BOOLEAN : Boot(fails) \/ Config(fails) \/ ConfigRefused(fails)
    \/ \E stored \in BOOLEAN : Settings(stored)
    \/ ConfigFailed
Connecting ==
    \/ Connect("wifi", "connecting") \/ Connect("rewifi", "reconnecting")
    \/ Relaunch \/ GiveUp
    \/ Show("connected", "loop") \/ Show("reconnected", "woken") \/ Stray
Network(up) ==
    \/ Attempt(up, "connecting", "connected", "failed")
    \/ Attempt(up, "reconnecting", "reconnected", "refailed")
Refusal == BadAuth("connecting", "failed") \/ BadAuth("reconnecting", "refailed")
Looping == Measure \/ StartUpload \/ Uploaded \/ StayAwake \/ Shutdown \/ Wfi \/ Woken \/ Disarm
Waking == \E button, fails \in BOOLEAN : Awake(button, fails)

Next ==
    \/ Booting \/ Connecting \/ Looping \/ Waking \/ Revive
    \/ Refusal \/ UploadLost
    \/ \E up \in BOOLEAN : Network(up)
    \/ Alarm \/ WatchdogReset \/ Core1 \/ Outside

\* Both cores run, an armed alarm goes off while the RTC runs, and the network
\* lets a board in that keeps trying.  Nothing need end a dormant mode.  An
\* enabled watchdog resets: it waits for one second, a turn of core 1 takes
\* one second and its own work, so that core 1 feeds it once at most.
Fairness ==
    /\ WF_vars(Booting) /\ WF_vars(Connecting) /\ WF_vars(Looping)
    /\ WF_vars(Waking /\ rtcInterrupt)
    /\ SF_vars(Network(TRUE))
    /\ WF_vars(Alarm) /\ WF_vars(WatchdogReset) /\ WF_vars(EndTurn /\ Core1)

Spec == Init /\ [][Next]_vars
FairSpec == Spec /\ Fairness
-----------------------------------------------------------------------------
(* Types.                                                                   *)
TypeOK ==
    /\ pc \in {"main", "settings", "config", "wifi", "connecting", "failed", "connected", "loop",
               "measured", "upload", "hung", "uploaded", "wfi", "dormant", "poll", "launch",
               "stuck", "rewifi", "reconnecting", "refailed", "spin", "reconnected", "strayed",
               "woken", "unalarmed"}
    /\ core1 \in {"off", "idle", "drawing"}
    /\ wifi \in [up : BOOLEAN, trying : BOOLEAN, trys : 0 .. TryLimit, resets : 0 .. 1]
    /\ oled \in [buffer : BOOLEAN, disabled : BOOLEAN, lit : BOOLEAN]
    /\ radio \in BOOLEAN /\ relay \in BOOLEAN /\ watchdog \in {"off", "armed", "fed"}
    /\ rtcInterrupt \in BOOLEAN /\ watchdogInterrupt \in BOOLEAN
    /\ present \in BOOLEAN /\ supply \in BOOLEAN /\ ready \in BOOLEAN /\ battery \in BOOLEAN
    /\ alarm \in {"none", "watchdog", "wake"}
    /\ cause \in {"none", "own", "late"}
    /\ mishaps \subseteq {"radio", "open", "reinit"}

(* A sleeping board draws nothing from the battery that shutdown() is there *)
(* to save: relay, radio and panel are off, whether the display had been    *)
(* disabled or not, and core 1 does not draw.                               *)
SleepIsQuiet ==
    pc \in Asleep => ~relay /\ ~radio /\ ~oled.lit /\ core1 # "drawing"

(* init and deinit of the display come in pairs through boots, sleeps and   *)
(* failed wakes, and neither core draws into a buffer that is not there.    *)
BufferPaired ==
    /\ oled.buffer <=> pc \notin Asleep \cup {"main"}
    /\ core1 = "drawing" => oled.buffer

(* The radio is initialised once for every time it is shut down, and it is  *)
(* there for every connect and upload, unless its own start or the start of *)
(* the configuration server failed before.                                  *)
RadioPaired ==
    /\ "reinit" \in mishaps => "open" \in mishaps
    /\ pc \in {"connecting", "reconnecting", "upload"} /\ ~radio => "radio" \in mishaps

(* The counters of connect() never make it give up on a link it has got: it *)
(* fails on a wrong password only.                                          *)
LinkIsKept == pc \in {"failed", "refailed", "spin"} => ~wifi.up

(* A sleep ends by its own alarm or the button.  rtcInterrupt is cleared    *)
(* before the alarm is disabled: only one that comes in between wakes the   *)
(* next sleep.                                                              *)
AlarmsWakeOnce == pc \in Asleep /\ rtcInterrupt => cause # "none"

(* sleep_goto_sleep_until: "Go to sleep until woken up by the RTC".         *)
SleepEnds == pc = "wfi" ~> pc \notin Asleep

(* No alarm is lost between a sleep and the loop that polls for it, at       *)
(* whatever moment it goes off and however the dormant mode between them     *)
(* holds it up: once that mode is over, the sleep ends without the button.   *)
NoAlarmLost == pc = "poll" ~> pc \notin Asleep

(* After every wake the board measures and uploads again, or it resets,     *)
(* unless core 1 does not answer its second launch or the compiler took     *)
(* awakeWifiSetup at its word.                                              *)
WakeIsFollowedUp == pc \in {"launch", "woken"} ~> pc \in {"upload", "main", "stuck", "strayed"}

(* Whether to sleep is decided on a reading of POWER_24V_READY that is as    *)
(* old as the upload; once the 24 V stay, the board goes to sleep only       *)
(* finitely often all the same, whatever V_24_SENSE says.                    *)
SupplyKeepsAwake == <>[]ready => <>[](pc # "wfi")

(* A display that was disabled for a low battery is lit again by the sleeps  *)
(* of a charged one, if the board comes out of them, though enableDisplay    *)
(* does not power it.                                                        *)
PanelReturns ==
    <>[]battery /\ []<>(pc \in Asleep) => <>[](pc = "uploaded" => oled.lit)
=============================================================================
