# TLA+ models of CncInterfaceARM

CncInterfaceARM is the firmware of a Raspberry Pi Pico W that measures two
batteries and a 24 V supply, uploads the measurement over TLS and sleeps while
the 24 V are absent.  Its Wi-Fi settings come from a web form served by an
access point of its own and are kept in a 128-byte I2C EEPROM.

This directory holds TLA+ modules for the parts of the firmware where an order
of events decides about correctness, the TLC configurations that check them on
small instances, and TLAPS proofs of what matters most for every instance.
All paths below are relative to `src/`.

Contents: [the system](#the-system) - [the modules](#the-modules) -
[the runs](#the-runs) - [bounds](#bounds) - [fairness](#fairness) -
[the proofs](#the-proofs) - [disagreements found](#disagreements-found) -
[not modelled](#not-modelled) - [plan](#plan) - [use](#use)

## The system

| Part | State | Operations | Talks to |
|---|---|---|---|
| EEPROM driver, `eeprom/eeprom.cpp` | none of its own: the cells and the address counter of the chip, the locals of a call | `write`, `writeString`, `writeBoolean`, `read`, `readString`, `readBoolean` | I2C bus; called by the settings code |
| Settings life, `main.cpp:73-161`, `334-404` | the 128 cells, `simpleWifiCredentials`, `trys` | boot check of the flag, erase by the button, save loop, load | EEPROM driver, configuration server |
| Configuration web server, `http_server/server.h` | one `TCP_CONNECT_STATE_T` per connection, `ssid_` `password_` `hostname_` `port_`, `kill_server`, `complete` | accept, receive, sent, poll, error callbacks; open, close | lwIP (calls back in an interrupt), the main thread (shared globals) |
| DHCP server, `dhcp/dhcpserver.cpp` | the lease table | DISCOVER, REQUEST | lwIP, clients over lossy broadcasts, the tick counter |
| DNS server and packet pool, `dns/dnsserver.cpp` | whether its callback is registered, its address; the 24 packet buffers all handlers share | init, one handler that answers every question with its own address, deinit | lwIP, the stack frame of `initConfigServer` |
| TLS client and upload, `wifi/tls2_client.h`, `wifi/WiFiManager.cpp:68-104` | `TLS_CLIENT_T`, `tls_config` | `http_request`, `tls_client_open`, DNS, connected, recv, poll, err callbacks | lwIP and mbedTLS (interrupt), main loop (waits for `complete`) |
| Wi-Fi connect, `wifi/WiFiManager.cpp:11-62` | `link_up`, two counters, `trying_to_connect` | `connect`, `init` | radio, core 1 (reads `trying_to_connect`) |
| Main loop and sleep, `main.cpp`, `sleep/sleep.c` | `rtcInterrupt`, `watchdogInterrupt`, `externalVoltagePresent`, clocks, relays | `main`, `loop`, `shutdown`, `awake`, two RTC alarms | everything; core 1 feeds the watchdog and draws |
| OLED, `oled/` | frame buffer, `disabled`, the panel | init, draw, show, power, disable, deinit | both cores, I2C bus |
| UART history, `utils/utils.cpp` | ring of messages | receive interrupt, waits | nothing in this firmware |
| Measurements, request builder, ADC, settings classes, ring oscillator | values | formatting, register writes | main loop |

What is hard about it:

* **Interrupts.**  lwIP is built as `pico_cyw43_arch_lwip_threadsafe_background`
  (`CMakeLists.txt:44`): every callback runs in an interrupt of core 0, atomic for the
  main thread and between any two of its steps.  The web server and the upload
  share plain variables with it.
* **Power.**  A battery board loses power at any moment; the EEPROM keeps what
  was written so far, byte by byte.
* **A bus and a network that fail.**  I2C transactions can fail, datagrams get
  lost, connections are reset, clients send partial forms.
* **A wrapping clock** behind the DHCP leases.
* **Waiting without a way out.**  Half a dozen loops spin until somebody else
  acts; the watchdog that should end them is enabled only where the code already
  knows that it wants a reset.
* **Sleep.**  Relay, radio, display, clocks and a second core go down and come up
  again on several paths, some of which fail half-way.

What makes each part correct: the driver is a byte store in spite of the bus;
a completed save survives, an interrupted one is not taken for complete; the web
server hands over the form of one complete request and never a freed block;
leases are exclusive; a name server's answer stays in its buffer and nobody is
called with a stack frame that is gone; an upload ends and gives back what it
allocated; a sleep is quiet, loses no alarm, and what it switched off comes back.
Where the code falls short of this, the properties say how far it goes, and
[the disagreements](#disagreements-found) what is missing.
`PROJECT.json` lists the hazards line by line with the properties about them.

## The modules

```
EepromInterface <- ByteStore            abstract: a store of bytes
       ^              ^ implements
       +------- Eeprom <- EepromProofs      the driver, one I2C transaction a step
                      <- MCEeprom
SettingsStore                           abstract: a form that survives the board
       ^ implements
Settings     <- SettingsProofs,     MCSettings
ConfigServer <- ConfigServerProofs, MCConfigServer
AccessPoint  <- AccessPointProofs,  MCAccessPoint
LeaseService                            abstract: leases without table and clock
       ^ implements
DhcpServer   <- DhcpServerProofs,   MCDhcpServer
TlsClient    <- TlsClientProofs,    MCTlsClient
Lifecycle    <- LifecycleProofs,    MCLifecycle
NatFacts                                induction and remainders, for SettingsProofs and AccessPointProofs
```

`Lifecycle` is the frame of the others: its step `Settings` is module Settings,
`Config` is AccessPoint with ConfigServer and DhcpServer inside, and the stay at
`"upload"` is TlsClient.  `AccessPoint` takes of its two guests what they
cost and what they are there for: a lease, a name, a form.

**EepromInterface, ByteStore, Eeprom.**  A call is a record (operation, address,
data); `writeBoolean` and `writeString` are writes of one or more consecutive
bytes, a string with its NUL.  `Eeprom` executes a call transaction by
transaction: `SendByte` / `SendFault` (`write`), `SetAddress`, `ReadByte`,
`ReadBlank`, `DataFault` (`read`), with the retry loops of the API functions in
`Verified`, `GotBoolean` and `GotChar`.  An address is cast to a byte and cut to
the size of the chip by the chip itself (`Cell`).  The chip's own address counter
(`cursor`) is part of the state, since it decides what is read after a failed
address transaction.  `ByteStore` says what the header promises: bytes are
stored in ascending order, a call answers with what is stored.  The refinement
maps `store` to `memory` and `busy` to `pc # "idle"`.

**Settings.**  Phases of the life of the board: boot, erase (three passes, by
the button), the check of the flag, load, configuration, save, verify, running,
reset.  A step writes one byte, so that a power loss fits between any two of
them; the reads of one phase are a single step, which blocks on a string without
a NUL, as the driver does.  The port is written as decimal text and compared as
a number, and strings read back carry their NUL, so the comparison of the save
loop (`Matches`) is what the code computes.  `LostWrites` lets a verified write
leave its cell unchanged: in `Eeprom` that is what a failed address transaction
leads to (see [the disagreements](#disagreements-found)), and the worst
(`FaultsOnlyLoseBytes`).
`epoch` and `record` are history: what was begun or completed on the chip last.
`SettingsStore` is what the rest of the firmware may expect of all this: a form
is saved as a whole, a boot runs on the form saved last, or waits; only what an
interrupted save leaves is open.  The refinement maps `content` to `epoch`, `form` to
`record`, and `running` to `creds` while the phase is `"running"`.

**ConfigServer.**  lwIP's view (open connections, their callback argument, parts
not yet acknowledged), the heap of connection blocks, the globals, and the main
thread with one step per global it copies.  Control blocks and heap blocks are reused
as soon as they are free: that is what makes a stale pointer visible.  A request
is a set of parameters, delivered to the globals one set at a time.  `Detach` is
what removes callbacks and frees the block, through close or error.  `form` and
`again` are history: the request that set `kill_server`, and whether parameters
came after it.

**DhcpServer.**  The table is a function from addresses to hardware address and
expiry.  The scan of DISCOVER is three definitions: the client's own entry, the
usable ones, and the one whose owner the scan removes on its way (`Removed`).
The clock wraps, the table stores its upper half, `Expired` is the signed
comparison.  The server's memory is volatile while clients remember addresses from before:
`known` is arbitrary at the start.  `arrives` is FALSE when the offer is lost; a
lost request or a lost acknowledgement is a request that does not happen, or one
that the client repeats.  `promise` is history: how much longer the server's
word to a client binds it.  `LeaseService` has neither table nor clock, only what clients
were offered and how long they were told to keep it: an address that somebody has is offered and
given to nobody else, and nobody gets a second one.  The refinement maps
`offer` to `known` and `left` to `promise`.

**AccessPoint.**  `initConfigServer` from the start of the access point to its return, one
step per call that a datagram can fall between: the DNS callback is registered
(`DnsBind`) before the address it answers with is copied (`DnsCopyIp`), and an
early return (`OpenRefused`) leaves the sockets behind.  A DHCP or DNS server that gets
no pcb or no port returns without a word, and the access point serves on without it
(`DhcpRefused`, `DnsRefused`).  `wild` records that a callback was
called with a frame that no longer exists.  A query is its length, its header fields and
the bytes at which the walk finds the lengths of labels; `Walk` follows them
as the loop of the handler does, over the end of the message too, and `Answer` is
where the reply begins and ends.  `pool` is the number of free packet buffers;
a handler that answers keeps one (`Keep`), one that ignores gives it back
(`Free`).  A request comes as TCP data.  The receive callback frees what it has taken; its four
error returns (`http_server/server.h:230`, `239`, `253`, `261`) leave that to lwIP, which takes
refused data back unless the connection was aborted: `TcpRecv` gives the buffer back or
loses it.  Datagrams arrive or get lost; clients repeat
what was not answered.  What the pool has lost stays lost when the radio goes to station mode.

**Lifecycle.**  `pc` is where core 0 is, one value per point between two calls
that an alarm, core 1 or the outside can fall between.  `wifi` holds the variables of
`WiFiManager`; its counters stop at their limits (`Counted`).  `oled` is the
display's buffer, its `disabled` flag and the panel, changed by `Opened`, `Closed`, `Disabled` and
`Judged` as init, poweron, poweroff, deinit, disableDisplay and enableDisplay
change them in the orders the callers use.  Two pins report the 24 V and may
disagree: `supply` is `V_24_SENSE`, which switches the relay, `ready` is `POWER_24V_READY`,
which decides about sleep.  An RTC alarm is its
callback; there is one at a time, and setting another replaces it.  The RTC does
not run in dormant mode, so that no alarm goes off there.  Nothing that the firmware sets up ends that
mode; `Revive` is an event from outside that may, where `Revives` allows it, and need not.  `Stray` is the
return from `awakeWifiSetup`, a function declared `[[noreturn]]`: undefined
behaviour, as a choice between continuing in the caller and running on behind it.
Core 1 draws a frame while `trying_to_connect` is set; a frame is shorter than
the two seconds for which core 0 shows "Connected!".  At the end of each turn it feeds the
watchdog, unless `watchdogInterrupt` is set (`Feed`).  `awake` launches it although it still
runs (`Relaunch`): the library's handshake expects a core that is fresh from its reset, so
that either it starts over or core 0 waits for ever (`"stuck"`).  `mishaps` and `cause` are history: what has failed since the
last reset, and whether the alarm that woke the board came in during its own sleep or
too late.

**TlsClient.**  `http_request` and its `TLS_CLIENT_T` on one side; on the other
lwIP's control blocks, each with its stage and callback argument.  `Open` covers
the branches in which the wait begins, `OpenRefused` and `OpenFailed` those that
return early and leak.  `texts` counts the texts of `build_request`, two a cycle: the one that
`loop` logs (`main.cpp:538`) and the request (`wifi/WiFiManager.cpp:77`).  Nothing frees them, and
`HeapSpent` is the panic of `new` that follows.  `OpenRefused` contains undefined behaviour
(`tls2_client.h:260` passes the pcb for the state): its outcomes are a halt of
the processor or a return.  `before` and `lost` are history.

Every module is parameterised by constants with a named assumption.  Mutants
(definitions marked "Mutant of") are variants of one definition each, named in
`PROJECT.json` with the property that each of them breaks; they are not part of
any specification.

## The runs

| Run | Expect | States | Shows |
|---|---|---|---|
| `eeprom` | pass | 8,985 | the driver implements `ByteStore`; a returned write is in the chip; bytes go in order; a call the chip can answer returns |
| `settings_powerloss` | pass | 3,290 | a completed save stays stored; the whole is a `SettingsStore`, where saved forms come back as entered; an erase is final from its first byte; no read spins; a boot decides once the supply holds |
| `settings_lostwrites` | pass | 41,511 | with lost writes the reported port is right and the save loop ends |
| `settings_flagfirst` | violation | | power lost during a save: the next boot loads what nobody entered |
| `config` | pass | 104,053 | callbacks get live blocks of their own; no field is applied that nobody gave; the credentials are those of one form; a submitted form is applied while browsers keep connecting |
| `dhcp` | pass | 15,600 | leases are exclusive for their whole time; a client keeps its address; table and clock keep a `LeaseService`; who keeps asking is served |
| `tls` | pass | 2,198 | callbacks get the waiting upload's state; a finished upload has cost the heap its two texts and nothing else; it ends unless lwIP reports an error |
| `tls_hang` | violation | | after an error the upload never ends |
| `accesspoint` | pass | 2,359 | an answer stays in its buffer and follows the question it answers; handlers have a frame to work on, unless the TCP server was refused; a form comes in while a buffer is left and all servers have started |
| `accesspoint_deaf` | violation | | with enough answers nobody is heard any more and no form comes in |
| `lifecycle` | pass | 76,456 | sleeps are quiet and lose no alarm; display and radio are started and stopped in turn; a connect never gives up a link; a wake leads to an upload or a reset, unless core 1 does not answer; 24 V that stay keep the board awake; a disabled panel returns |
| `lifecycle_dormant` | violation | | the sleep goes on into dormant mode, which no alarm ends |

### Bounds

* `eeprom`: three cells behind six addresses, so strings wrap and addresses
  alias; four byte values: NUL, two letters and blank; two writes of strings, one
  of which wraps; `HeapLimit` 4 is longer than any string in the chip.  More
  cells only add cells that no call touches; the proofs have no bound.
* `settings_*`: ten cells with room for two forms whose strings have lengths 0
  to 2, so that one form leaves remains of the other; `MaxTrys` 2 instead of 10:
  the loop's counter is tested on both sides of its limit.  `PowerFails` names
  the phases in which the supply may fail; in `settings_lostwrites` it is stable
  while saving, because that run asks about the loop's end.  `FactoryBlank` is
  FALSE: on a chip that was never written the first boot does not get past the
  flag (see the hazard at `eeprom/eeprom.cpp:42`).
* `config`: two connections and two blocks, reused; two values per field; a
  complete form, two partial ones, the plain page and a redirect; `MaxUnacked` 2
  is one page (header and body), so an answer also meets a full queue.
  `Errors` is a reset only: `ERR_ABRT` leaks its block, and with a leak in each
  run of the loop the blocks would soon be used up; the theorems cover it.
* `dhcp`: three clients for two addresses (eight on the board), so the table
  can be full; a counter of eight values, of which the table keeps every second, and
  a lease of two: expiries wrap, and an entry that expired looks fresh again.
  The assumption `2 * (Lease + Granule) <= Modulus` is what the comparison needs
  and the board has: 2 * (86,400,000 + 65,536) < 2^32.
* `accesspoint*`: two phones and seven buffers instead of 24.  A phone needs three
  answers and a buffer for its form, so that repetitions of either can use up what
  the other needs, and both can get through.  The sizes are the board's own
  (header 12, label 63, name 255, buffer 300); the eight queries lie on both sides
  of each of them, and of the end of the message.
* `lifecycle*`: two attempts and two hard resets instead of five, on both sides of their limits;
  every fault may happen at every chance (`MCFaults`), and both pins of the supply and the battery change at any moment.
* `tls`: three blocks and control blocks, two configurations, so the heap runs
  out after one or two leaks; texts for three cycles, and one over.

Deadlock is checked in the runs but these: the board may stop for good in `tls`
(`halted`: a fault, or no heap for a text), in `config` when configuration is over and no client is left, and in
`accesspoint*` when the pool is empty.

### Fairness

* `eeprom`: the processor executes the driver (weak), and bus faults are
  transient: a transaction repeated for ever succeeds at some time, also right
  after the address was set (strong).
* `settings`: the firmware runs (weak).  Nothing is assumed of the button, the
  form or the supply; `BootDecides` is about supplies that hold from some time on,
  by its own antecedent.
* `config`: the main thread runs, and lwIP's poll timer drops idle connections
  (weak: the timer is periodic).  `BrowsingSpec` adds that browsers keep connecting (strong
  on accept): this is an assumption on people: without a
  further connection the form is not applied (`http_server/server.h:311`).
* `dhcp`: clients repeat DISCOVER and REQUEST, as DHCP clients do, and not every
  message is lost.  Time is not forced to pass; `AskersAreServed` assumes that
  it stops (`Settled`), which stands for a configuration shorter than the lease of a day.
* `accesspoint*`: the main thread runs, and each phone repeats what it got no answer to; not
  all of its datagrams are lost (strong, as other traffic may use up the moment).
* `lifecycle*`: both cores run, an armed alarm goes off while the RTC runs, an enabled
  watchdog resets, and the network lets a board in that keeps trying (strong).
  The watchdog is enabled for one second (`main.cpp:48`) and core 1 feeds it once a turn, which takes
  one second and its own work: it can postpone the reset once (`"fed"`), not for ever.
  Nothing is assumed of the dormant mode: in `lifecycle` something outside may end it (`Revives`)
  or never do so, and each property holds either way; in `lifecycle_dormant` nothing does.
* `tls`: the wait loop looks at `complete`, lwIP gives up on a name it cannot
  resolve, and its poll timer runs (weak).  No answer of the server is assumed.

## The proofs

| Theorem | States |
|---|---|
| `EepromProofs!TypeCorrect` | no access leaves the chip |
| `EepromProofs!WritesAreVerified`, `WritesAreOrdered`, `DriverImplementsStore` | if no address transaction fails: verified writes, ascending order, refinement of `ByteStore` |
| `EepromProofs!FaultsOnlyLoseBytes` | any faults: a cell changes only to the byte the write in progress has for it |
| `SettingsProofs!TypeCorrect`, `ReportedPortIsStored` | for any layout, forms and lost writes: no write leaves the chip; a reported success has the right port |
| `SettingsProofs!SavedStaysStored`, `FirmwareKeepsSettings` | if writes are not lost and forms fit: a completed save stays in the chip; refinement of `SettingsStore` |
| `SettingsProofs!LoadsOnlySavedIfUncut` | if also the supply holds during saves and there are attempts to make (`MaxTrys > 0`): only completed saves are loaded |
| `SettingsProofs!ReadsEnd` | if forms fit and the chip was written before: no read spins, even with lost writes |
| `SettingsProofs!EraseIsFinal` | if writes are not lost: after the first byte of an erase nothing is loaded |
| `ConfigServerProofs!TypeCorrect`, `CallbacksGetLiveBlocks`, `EveryFieldIsSupplied`, `CredentialsAreTheForm` | the four invariants of `config`, for any number of connections and any errors |
| `DhcpServerProofs!TypeCorrect`, `LeasesAreExclusive`, `ClientsKeepTheirAddress`, `ServerKeepsLeases` | the safety properties of `dhcp`, with the refinement of `LeaseService`, for any table, clients and clock |
| `TlsClientProofs!TypeCorrect`, `CallbacksGetOurState`, `UploadsLeaveTheirTexts` | the safety properties of `tls`, for any heap |
| `TlsClientProofs!LostUploadsHang` | an upload whose connection reported an error stays where it is |
| `AccessPointProofs!TypeCorrect`, `AnswersStayInBuffer`, `AnswersFollowQuestions`, `HandlersHaveTheirFrame` | the invariants of `accesspoint`, for any pool, phones and queries |
| `AccessPointProofs!DeafAfterLastAnswer` | never more answers than buffers; after the last one nobody is heard |
| `LifecycleProofs!TypeCorrect`, `SleepsAreQuiet`, `BuffersArePaired`, `RadioIsPaired`, `LinksAreKept`, `AlarmsBelongToSleeps` | the invariants of `lifecycle`, for any limits of the counters and any faults |
| `LifecycleProofs!NoResetFromOutside`, `SleepsStayAsleep` | the watchdog is enabled only where the code asks for a reset, so a board that has failed, hangs or waits for core 1 stays so; without help from outside a sleep never ends |

The assumptions are named in the modules: `AllFormsFit` (no two bytes of a form
share a cell; the table of `main.cpp:375-379` meets it for forms of the lengths it names, save a
hostname of 20), `~LostWrites` (no address transaction fails), `~FactoryBlank` (the chip has been
written before).  Where a theorem does not name one, it does not need it.

How they go:

* **Eeprom.**  Without address faults the chip's counter is where the driver
  wants it when data are read (`cursor = Target` while `pc = "data"`), and the
  bytes before `index` are stored.  Both are needed: the first makes the byte
  compared the byte written, the second is what a completed call inherits.  The
  refinement proof reuses the invariant to show that a returned string is the
  one in the chip, and that every byte is stored behind its predecessors.  The
  assumption is necessary: see the disagreements without a run below.  Without it
  `FaultsOnlyLoseBytes` still holds: a write sends its address along with its byte,
  and only its verification can be misled.  This is what `LostWrites` of `Settings`
  stands on: a fault can lose a byte, and damage no other.
* **Settings.**  A cell belongs to at most one byte of a form that fits
  (`Fits`), so a byte of the form stays once written; the invariant states how
  far the save loop has come, field and byte, through failed attempts and resets.
  The erase starts with cell 0: from its first byte the flag is clear, and only
  a save sets it again.  `ReadsEnd` rests on the last cell before
  the next field: if every form fits, none writes anything but a NUL to it (`Spare`), so it
  keeps the NUL it has whatever is lost; no read runs past it, and no byte written is blank.  `ReportedPortIsStored` needs no layout
  at all: a string read back ends with the NUL, a string entered holds none, so that the three
  comparisons of text in `Matches` are false and the fourth is all there is.  For the
  refinement, `Stored` gives back each field with its NUL (`StoredString`),
  and an induction over the port that `Atoi` undoes `Decimal`.  Every step then maps
  to one of the store: the first byte of a save is `Begin`, `Verify` is `Complete`,
  a power loss is `Stop` or a stutter.  If no save is cut short, the flag is only
  found set when `epoch` is `"saved"`: with `LoadsOnlySaved` violated otherwise,
  the order of `main.cpp:132` is the whole of that disagreement.
* **ConfigServer.**  `ArgsAlive` is inductive as it stands, because a block names
  its control block: two open connections cannot share one.  For the form,
  `FormInv` adds that `complete` implies `kill_server`, that `kill_server` implies
  that all globals are supplied, that the globals equal `form` unless `again`, and
  the same of the fields copied so far, in the order of `CopyOrder`.
* **DhcpServer.**  `Kept` relates a promise to the table: while one is running,
  its entry has that client, and its expiry is at least the promise and at most
  a lease and a granule ahead of the clock.  The assumption on the clock then
  makes `Expired` false.  `AddressKept` is inductive with it, and gives that a
  client owns no more than one entry.  For the refinement: what a client holds is
  in the table as its own (`HeldIsKnown`) and not usable for others (`TakenInTable`), which are
  the guards of `Offer` and `Grant`.
* **TlsClient.**  `CallbacksAreOurs` needs that `complete` of the waiting state
  implies that its pcb is gone, and that the waiting upload's block and
  configuration are what was there before it plus one, the texts plus two.  `LostIsSilent`: after an
  error the pcb is gone and `complete` is false, and no active pcb
  means that no callback will ever set it.
* **AccessPoint.**  `AnswersPaid` says that each answer has taken a buffer and nothing puts one in, whatever
  else loses some.  `SocketsClosed` says what is closed at each stage on the way out, so that no
  handler is called at `"returned"`.  A query that is answered has passed
  `TooLong`, which alone keeps its answer in the buffer, wherever the walk ended.  For
  `AnswerFramed` the walk is followed: one lemma says what a step of it does, an induction over the steps
  that it visits the labels of the question one after another, and so stops
  behind the last of them, or at `BufferSize`, where the query is not answered.
* **Lifecycle.**  The invariant names what holds between two steps of core 0: core 1
  is told to draw only in `Trying`; a disabled display is dark (without it, a
  poweroff before a sleep might do nothing); a radio that is off outside a sleep has
  failed to start; a connect has counted no hard reset before its last
  attempt; and `Causes` follows `rtcInterrupt` from the alarm over the two steps of
  its disarming to the next sleep.  `WatchdogSpins` adds where the watchdog is
  enabled: `"spin"` alone.
* **NatFacts.**  Inductions over data (a port, a walk, a string) are stated of sets and
  functions, from the least element of a set of naturals: a recursive function is
  the union of its finite approximations, and a property is the set of numbers
  that have it.

The type invariants of `AccessPoint`, `Lifecycle` and `TlsClient` are proved and in no run;
all other safety properties of the passing runs are both checked and proved.
Only model-checked are the liveness properties, since fairness is out of the prover's
reach: `EveryCallReturns`, `BootDecides`, `SaveEnds`, `SubmitIsApplied`, `AskersAreServed`,
`UploadEndsUnlessLost`, `ServedUnlessDeaf`, `NoAlarmLost`, `WakeIsFollowedUp`,
`SupplyKeepsAwake`, `PanelReturns`.

## Disagreements found

Shown by a run:

1. `main.cpp:132` - the flag is set before the settings are stored
   (`settings_flagfirst`).
2. `wifi/tls2_client.h:103` - an error of the connection leaves the upload waiting, and the
   watchdog that should end it is not enabled (`tls_hang`).
3. `dns/dnsserver.cpp:218`, `dhcp/dhcpserver.cpp:272` - the path that answers does
   not free its packet: after 24 answers the access point is deaf
   (`accesspoint_deaf`).
4. `sleep/sleep.c:152` - the sleep "until woken up by the RTC" goes on into the dormant mode,
   in which the RTC stands still (`lifecycle_dormant`).

The counterexamples are of small instances; what is at their core is a theorem
for every instance.  1: `LoadsOnlySavedIfUncut` says that a save that is cut is needed for it.
2: `LostUploadsHang` and `NoResetFromOutside`.  3: `DeafAfterLastAnswer`.  4: `SleepsStayAsleep`.

Without a run of their own:

* `eeprom/eeprom.cpp:45` - the verifying read ignores a failed address
  transaction and looks at whatever cell the chip's counter is at; `WriteVerified`
  and its theorem therefore leave address transactions out of `Faults`, and
  are false with them.
* `main.cpp:135` - the hostname has 20 cells, for 20 characters and a NUL; the
  theorems that assume `AllFormsFit` do not cover such a form.
* `http_server/server.h:311` - a form is applied on the next connection, not on
  the click; `SubmitIsApplied` needs `BrowsingSpec`.
* `wifi/WiFiManager.cpp:77`, `main.cpp:538` - `build_request` allocates its text
  (`wifi/HTTPRequestBuilder.cpp:46`) and nobody frees it: each cycle costs two of them
  (`UploadsLeaveTheirTexts`), until `new` panics.
* `dhcp/dhcpserver.cpp:279`, `dns/dnsserver.cpp:222` - a server that cannot start does not say so,
  and `initConfigServer` serves a form that no phone finds; `ServedUnlessDeaf` leaves that out (`Crippled`).
* `main.cpp:254` - `awake` launches core 1 without resetting it; if it does not answer, the board waits
  for ever, and no watchdog ends that (`NoResetFromOutside`); `WakeIsFollowedUp` leaves that out.
* `main.cpp:183` - after a failed first connection the board spins without the reset
  that the page announces (`http_server/server.h:49`): `"failed"` in `Lifecycle` has no
  way out (`NoResetFromOutside`).

## Not modelled

* Drawing: lines, characters and images in the frame buffer.  `Lifecycle` has the
  life of the buffer and the panel only.
* The UART history: set up by `main`, read by nobody; the waits over it in
  `utils/utils.cpp` are never called.
* Parsing: the HTTP request line, DHCP options and the bytes of a form are
  delivered in parsed form.  The request buffer of 127 bytes (`http_server/server.h:204`), which cuts the last
  parameters of a long form, and the missing URL decoding are not modelled.
* The bytes of an answer: `tcp_write` sends from the connection block without
  copying (`http_server/server.h:250`), so an early close or a second request changes
  what is still in flight.  `ConfigServer` counts parts, not their contents.
* The depth of the stack: `loop` calls itself, and whether that costs a frame is
  the compiler's choice.
* ADC conversion (floating point), measurements and JSON, the formatting of
  requests, the settings classes (unused), the ring oscillator (registers),
  font and images (data).

## Plan

In this order:

1. Proofs: that `Lifecycle` uses the radio as `AccessPoint` leaves it.
2. `Settings` over `Eeprom`: the byte writes of `Settings` as calls of the driver, so
   that `FaultsOnlyLoseBytes` becomes a step of a refinement instead of the reason for `LostWrites`.
3. `ConfigServer` with the blocks that queued parts refer to.
4. The frame buffer as a function, its drawing checked against a definition by points.

## Use

```
tlc -config eeprom.cfg MCEeprom        # any run: <name>.cfg with its MC module
tlapm EepromProofs.tla                 # any *Proofs module
```
