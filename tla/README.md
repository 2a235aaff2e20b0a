# YKB firmware: a TLA+ verification of the keyboard's core

The firmware runs a split keyboard: two halves with Hall-effect keys read
through an ADC, joined by a Bluetooth LE link, one of them (the *master*)
connected to a host over USB or Bluetooth. This directory holds TLA+ models of
its core logic, the TLC configurations that check them and proofs checked by
TLAPS. Paths below are relative to `src/`. `PROJECT.json` maps every definition
to the lines it models, and lists the runs, their mutants, the hazards and the
theorems.

Run everything from this directory:

    tlc -workers 2 -config MCMasterLeft.cfg MCKbHandleMaster
    tlapm KbHandleMasterProofs.tla

## 1. Inventory

### The system

Two boards exist: `dactyl_v1` (35 keys per half, analog multiplexers) and
`choco_v1` (22 keys per half, one enable line per key). Both set
`BT_MAX_CONN` to 2. Three kinds of code run on a half:

- the **keyboard thread** (`app/src/main.c`): `while (true) { kb_handle();
  k_yield(); }` at the lowest preemptible priority;
- the **backlight thread**: the same loop around `kb_backlight_handle()`, at
  the same priority;
- **callbacks**: Bluetooth (connected, disconnected, recycled, scan result,
  notification, CCC write, discovery), USB, the settings loader, and the DMA
  interrupt. All preempt the two threads, and none takes a lock the threads
  would respect.

| Component | State | Operations | Talks to |
|---|---|---|---|
| Key engine, `kb_handle_common.c`, `kb_mappings.h` | `pressed_keys`, `fn_buff`, `fn_pressed`, `layer_modifiers` | `on_press_default`, `on_release_default`, `edge_detection`, `get_kscan_bitmap`, `handle_hid_report` | called by the three `kb_handle()`; calls FN keystrokes, backlight events, the transports |
| `kb_handle()` master / slave / single | current and previous bitmaps of the halves, `change` | one poll | key scan, engine, link |
| Inter-keyboard link, master, `inter_kb_comm/master.c`, `bt_connect.c` | `ykb_slave_conn`, `slave_was_disconnected`, `incoming_keys`, scan and advertising | stack callbacks; `bt_connect_get_slave_keys`, `bt_connect_start_advertising` | BLE stack; read by `kb_handle()` |
| Inter-keyboard link, slave, `inter_kb_comm/slave.c` | `ykb_master_conn`, `ykb_ccc_enabled` | stack callbacks; `bt_connect_send_slave_keys` | BLE stack; called by `kb_handle()` |
| Packet format, `inter_kb_proto.h` | none | `inter_kb_proto_new`, `_parse` | link: settings and backlight images |
| Reports, `kb_handle_common.c` | none between two calls | `handle_hid_report` | chooses HID over GATT or USB for each report |
| HID over GATT, `bt_connect.c` | host connection, `bt_kb_ready` | ready, send | transport of a report |
| USB, `usb_connect.c`, `usbd_init.c` | `kb_ready`, `kb_duration` | ready, wake up, send | transport of a report |
| Key scan, muxes, `kscan_muxes.c` + `mux_gpio.c` | per mux: `current`, enable and select lines | `poll_normal`, `poll_race`, `mux_select_next` | called by `get_kscan_bitmap` |
| Key scan, enable lines, `kscan_enables.c` | level of the lines | `poll_normal`, `poll_race` | same |
| Settings, `kb_settings.c` | `settings`, `runtime_mappings`, the image in flash | init, load handler, defaults, save | read by every poll; pushed to the slave |
| Backlight, `kb_backlight_*.c` | mode, brightness, speed, on | keystrokes, events, `kb_backlight_handle` | settings, LED driver |
| Boards, `mappings/*.h`, `keystrokes/*.h` | none | default keymap, FN keystrokes | settings, key engine |
| Start-up, `main.c` | none | initialises the rest in order, creates the threads | all |
| LED strip, `ws2812_pwm_dma_stm32wb.c` | DMA buffer, semaphore, `sem_release` | `update_rgb`, DMA interrupt | called by the backlight thread |

### What is hard here, and what should hold

- **A key's release must undo its press** whatever happened to the layers, FN
  and the table in between, or the host sees the key stay down. Sequences of
  legal key events reach this, and so does losing the slave.
- **The master's poll against the Bluetooth callbacks**: the copy of
  `incoming_keys` is not protected (`// TODO: sem or mut`), and the connection
  pointer is read several times.
- **Two kinds of connections share one pool** of two objects, one `recycled`
  callback, which does not say whose object it was, and one flag. The halves
  must find each other again and the host must too.
- **Notifications**: a bitmap is sent once; it can be lost with the link or for
  want of a buffer, and nothing sends it again.
- **The slave's engine hears of part of its keys only** because its callbacks
  look at the link each time.
- **Positional state in the drivers**: a mux poll never names a channel; one
  failed GPIO write moves every later poll.
- **A line that could not be lowered** stays high over later polls, and its key's
  signal mixes with those of the keys on its ADC channel.
- **Start-up order**: the scan's thresholds come through a callback that must be
  registered before the settings are loaded from an image of unknown origin.
- **Two hosts**: each report goes to one of them, by flags that callbacks change at
  any time; a lost report is not repeated, a blocked one stops the keyboard.
- **An interrupt handler that counts**: two interrupts per LED frame, of which
  the second wakes the thread, which waits without a time limit.

`PROJECT.json` lists the hazards one by one, each at its line, with the
properties that would catch it.

## 2. What is modelled

    BoardKeymaps    KbEngine ----+-----------> KbHandleSlave
          |            |   |     v
          +--> MCFnKeystrokes  KbHandleMaster <--- SlaveLink
                  (FnKeystrokes)                      ^
                                                      | refines
    InterKbProto ------------------------------- InterKbLink
                                                      | built from
    KbHandleSlave ------------ refines ----------> SlaveSends

    KbSettings -----+--> KbScan        KbBacklight --+--> Lights
    KscanEnables ---+                  LedStripDma --+

    KbSettings, KbBacklight --- refine ---> SavedState

    MuxGpio ---> KscanMuxes            HostReports

Arrows are EXTENDS, except for the refinements. `SlaveLink` is the abstract
specification between the two big state machines: it says what
`kb_handle()` of the master may rely on, `KbHandleMaster` is checked against
all it allows, and `InterKbLink` is shown to implement it. `SlaveSends` does the same
at the other end: the slave's steps of `InterKbLink` are its steps, and
`KbHandleSlave` is shown to implement them.

**KbEngine**: the press and release callbacks over keymap indices. A key code is
only its range (ordinary, modifier, FN, layer). `TranslatesTo` is the rule
lookup, with the last rule as the default. One operator per branch of
`on_press_default` and `on_release_default`. `ReportEndsAt` gives the table
prefix a report carries. The report is kept as table entries, not bytes.

**BoardKeymaps, FnKeystrokes**: both boards' default keymaps and FN keystrokes as
written, and the engine over them. TLC evaluates that both keymaps satisfy
what the engine's theorems assume (`BoardsStable`).

**KbHandleMaster**: one `kb_handle()` call is a sequence of steps by `phase`:
poll, edges of the own half one callback at a time, connection test, copy
of the slave's bitmap word by word, edges of the slave half, report. The
callbacks of `SlaveLink` interleave between any two. `prev_down` moves key by key
where the code copies it after the last callback; nobody reads it in between.
`masked` and `dropped` are history variables: the keys whose release FN took,
and those forgotten when the slave was lost.

**SlaveLink**: `incoming_keys` and "there is a connection object", and the three
ways the callbacks change them.

**InterKbLink**: the callbacks of both ends over the master's connection objects.
Each object is free, advertising, a host's, being created, the slave's, closed
(its `recycled` is owed) or leaked. The notification queue, both ends' separate
knowledge of a lost link, discovery and subscription, the FN keystroke that
advertises, and what the master's poll makes of the result (`view`). The
stack itself is external and named as such.

**SlaveSends**: which bitmaps the slave's `kb_handle()` brings to
`bt_connect_send_slave_keys`, and when. `KbHandleSlave` maps to it by counting a send
as due from the poll on, where the code sets `change` in the callbacks that follow.

**InterKbProto**: `inter_kb_proto_new` and `inter_kb_proto_parse` as operators on
byte sequences, with their error codes, and the lengths of what the code packs.

**KbHandleSlave**: poll, edges, send. `ready` (connected and subscribed) changes
between any two steps, so every callback decides anew whether the local engine
hears of the key.

**MuxGpio, KscanMuxes**: `mux_gpio_select_next` with the lines half driven when a
write fails; the poll's two loops, a step per select and per sample. A reading is
only above or below its threshold; the uninitialised `val` of
`kscan_key_pressed_by_threshold` is a free choice.

**KbSettings**: `main()` as a sequence of steps with its early returns, the loading
of an image with all its checks, the defaults with the half's place in the keymap, the
conversions that keep the last rules of a key, the save, and the callback that copies
the thresholds. Flash may hold any image an earlier build left.

**KscanEnables, KbScan**: both polls of the enable-line scan, a step per line raised,
read and lowered, where every write and read can fail. A line keeps its level when
its write fails, and while another line of its channel is high a key reads as
anything. `KbScan` runs these polls from `get_kscan_bitmap` with the mode and the
thresholds of `KbSettings`, with a reset at any step. `found_high`, `travel` and
`misread` are history variables: the lines a poll found high, what each key's own
signal was when it was read, and whose read failed.

**HostReports**: `handle_hid_report` in steps: the report is built, the flags are read
one after the other in the build's order, then Bluetooth notifies or USB wakes and
submits. The flags `bt_kb_ready` and `kb_ready` lag behind the hosts, since callbacks
set them. `shown` is what each host shows as pressed. A report is the set of keys in
the table, which the edges of a poll may change in any way.

**LedStripDma**: the thread inside `ws2812_pwm_update_rgb` statement by statement,
the DMA channel, its flags, and the interrupt handler, which may run late and find
two flags.

**SavedState, KbBacklight**: the abstract promise about a remembered setting, and
`kb_backlight_led_strip.c` with `kb_backlight_settings.c`, which implement it. Start-up,
each function a keystroke calls as its statements in order (`op` is the next one), the
image in flash, which outlives a reset at any of them, and the frames of the backlight
thread. A mode is its index and whether it is initialised; colours are left out.
`raced` is a history variable: a keystroke overtook the present frame.

**Lights**: both together. The backlight thread draws, is then inside the driver until
the interrupts wake it, and only then ends its frame; a frame is known by the mode that
drew it. A reset stops both, and the LEDs may keep their colours.

## 3. The runs

| Run | Asks | Answer |
|---|---|---|
| `master_left` | does an entry or a layer bit outlive its key, does an entry vanish early? both scan modes, torn copies of the slave's bitmap | only in the two ways named by `masked` and `dropped` |
| `master_keys` | FN mode's owners with the table, the FN buffer and the report each full; does a key that stays up leave the report? fair scheduling, a key without rules, the right half as master | keys beyond the limits are ignored, the others are untouched, nothing flickers; yes, in normal mode |
| `slave_releases` | "runs on every slave key just released" | **violated**: not when the slave is lost |
| `fn_keystrokes` | does a factory reset need a key its line names? | **violated**: on choco_v1 FN and D do one |
| `inter_kb_link` | does the master ever give up on slave or host, is its bitmap the latest one, do the halves reconnect, is `SlaveLink` implemented? | holds, given that no event of `Disturbed` happened |
| `press_real` | "runs on every slave key just pressed" | **violated**: a stale bitmap after a reconnection |
| `slave_handle` | who owns the slave's FN mode; is the bitmap sent the one the callbacks saw? | keys that are down or were released unheard; yes unless the link was down, and it keeps `SlaveSends` |
| `kscan_muxes` | does each sample belong to its key, poll after poll? what does a failed select do? | yes until a select fails; then a mux's keys are rotated, none lost or doubled |
| `kscan_values` | are the stored values the readings? | **violated**: below the threshold an uninitialised variable is stored |
| `kb_scan` | what does a reset, an old image, a failed load, save, read or line write do to the settings in use and to the keys found? | the settings are the saved ones or the defaults; a complete poll finds exactly the keys over their thresholds, except next to a line it found high, and repairs the lines |
| `reports` | do the hosts show the keys that are down, whoever comes, goes or sleeps; does the thread get stuck? | the host of choice does, once things settle; the thread does only if USB sleeps or goes under a report |
| `lights` | which mode draws a frame, is it sent whole, what stays on the LEDs, what does a reset lose? | the selected one, unless a keystroke overtook the frame; yes; the mode the user left, unless the driver had an error; at most the keystroke under way, or what failed to be saved or loaded |

Each run is the module and the configuration named here; every property is stated in words at its definition.

| Run | Module, configuration | Properties |
|---|---|---|
| `master_left` | `MCKbHandleMaster`, `MCMasterLeft.cfg` | `TypeOK`, `PressedOwned`, `LayersOwned`, `OnlyOwnRelease` |
| `master_keys` | `MCMasterKeys`, `MCMasterKeys.cfg` | `FnOwned`, `NoFlicker`, `ReleaseReported` |
| `slave_releases` | `MCKbHandleMaster`, `MCSlaveReleases.cfg` | `EverySlaveReleaseRuns` |
| `kscan_muxes` | `MCKscanMuxes`, `MCKscanMuxes.cfg` | `TypeOK`, `ReadsOwnKey`, `BitmapExact`, `CountExact` |
| `kscan_values` | `MCKscanMuxes`, `MCKscanValues.cfg` | `ValuesCurrent` |
| `lights` | `MCLights`, `MCLights.cfg` | `TypeOK`, `FrameOfMode`, `StripTypeOK`, `FrameWhole`, `StateRemembered`, `BufferQuiet`, `UpdateReturns`, `ModeShown` |
| `kb_scan` | `MCKbScan`, `MCKbScan.cfg` | `TypeOK`, `KeymapAligned`, `LinesRecover`, `BitmapExact`, `RaceGreatest`, `SettingsRemembered` |
| `reports` | `MCHostReports`, `MCHostReports.cfg` | `TypeOK`, `NoStuckKeys`, `KeysReach`, `ThreadFree`, `KeyWakesHost` |
| `fn_keystrokes` | `MCFnKeystrokes`, `MCFnKeystrokes.cfg` | `FactoryResetMeant` |
| `inter_kb_link` | `MCInterKbLink`, `MCInterKbLink.cfg` | `TypeOK`, `StillLooking`, `StillAdvertising`, `ViewCurrent`, `Reconnects`, `ImplementsSlaveLink` |
| `press_real` | `MCInterKbLink`, `MCPressReal.cfg` | `PressReal` |
| `slave_handle` | `MCKbHandleSlave`, `MCKbHandleSlave.cfg` | `TypeOK`, `SlaveFnOwned`, `SentCurrent`, `ImplementsSlaveSends` |

### Bounds, and why they suffice

- **Masters**: `master_left` has two keys per half with one key per word: every kind of
  key (a letter with two layers, FN, a modifier, a layer key), both halves, and torn
  copies. The table holds 2 and the FN buffer 1 of up to 4 keys, so both overflow.
  `master_keys` has three local keys over two words and two on the slave, a table of 3, so that the
  order within it matters, an FN buffer of 2 and one report slot. Its own keys go
  through six bitmaps of the eight; the two left out have the second letter without
  the first, alone and under FN.
- **FN keystrokes**: the choco board in full, two keys held at a time: one is FN.
- **Slave**: a letter and two FN keys in two words; a table of 2.
- **Link**: two connection objects, as on the boards; one slave key (bitmaps
  are only compared), two notifications under way, so that the third is refused.
- **Muxes**: two of different sizes, one that does not fill its lines and wraps
  inside the pattern space, one with a single channel; one with an enable line.
- **Settings and scan**: a right-hand master with three keys per half, so that both
  halves of the keymap are offset; keys with no rule, one, two and three rules of which two fit;
  images of this build, of another version and of another size. Two of the three lines
  share a channel. Readings 0, 1, 2 around thresholds 0, 1, 2.
- **Reports**: two keys; builds with both orders and either host alone, with and without
  VBUS detection and remote wake-up; one buffer for notifications, so that the second
  report is refused.
- **Lights**: three modes, so that the next and the previous one differ, two levels
  of brightness, which are only stored, and a fourth index that only old images have.
  The DMA buffer has two halves because the DMA interrupts there.

No model needs a state constraint: every variable is finite by itself.
No cfg switches off the check for deadlocks.

### Fairness

- `KbHandleMaster`: weak fairness of the steps of a `kb_handle()` call, because the
  keyboard thread loops and Bluetooth work is finite; of a successful normal poll and
  of a race poll that finds nothing. Which keys a poll finds is free, so the
  properties are conditional on a key staying up.
- `InterKbLink`: weak fairness of the stack's obligations only: a closed connection
  is reported and recycled, a creation succeeds or fails, a scan finds an advertising
  slave, the slave notices the lost link. Nothing is assumed of hosts, links, the
  user or discovery.
- `Lights`: the backlight thread takes its next step (both threads have priority
  `K_PRIO_PREEMPT(15)` and yield after every call, `main.c` 22-48), the DMA proceeds,
  interrupts are taken. Not that a keystroke's function goes on: `ModeShown` only speaks
  of behaviours that end between keystrokes.
- `HostReports`: the keyboard thread runs when it is not blocked, the stack calls back
  after a subscription changed, packets get through while a connection lasts, a host
  polls an interface in use, and resumes when it is asked to. Nothing is assumed of when
  hosts come, go, sleep, subscribe or unsubscribe.
- `KbHandleSlave`, `KscanMuxes`, `KbScan` and `FnKeystrokes` have safety properties only.

### Assumptions

- `StableKeymap`: a key has the same kind (normal, FN, one particular layer) on all
  layers. Both default keymaps satisfy it, which `BoardsStable` makes TLC evaluate.
  Without it a key pressed as a letter and released as FN keeps its entry, and
  `PressedOwned` is false.
- `HandleConstants`, `HalvesEqual`: both halves have the same number of keys, as both
  boards do. `edge_detection` loops over `KB_BITMAP_WORDS` for either half, and the
  engine's keymap offset is the own half's count, the settings' the left half's.
- `LinkConstants`: at least two connection objects. With one, the advertiser takes
  it and the master can never connect its slave.
- `LinesSuffice`: the select lines tell the channels of a mux apart, that is, a mux has at
  most 2^lines channels. The binding's default is exactly that number
  (`mux-gpio.yaml:29`); nothing in the driver checks one the board gives.
- `OneLinePerKey`: the board gives the enable-line scan as many lines as the half has
  keys; the driver's `BUILD_ASSERT` only ties lines to channels.
- `FramesOfModes`: frames are compared by the mode that drew them.
- A GPIO write that fails leaves the line's level alone.
- The stack runs one `recycled` call per object, as soon as the object is free. One
  that merges the calls for two objects is outside the model.
- `hid_device_submit_report` without an `input_report_done` callback returns when the
  host has fetched the report or the transfer was cancelled; it refuses a report while
  the bus does not run. A bus reset or disabling the device cancels a transfer, a
  suspended or unplugged bus does not.
- A host that sees the keyboard's connection go, or its cable pulled, lets go of its
  keys. One that merely unsubscribes does not.
- The backlight is initialised before the first keystroke: `main` runs above the
  keyboard thread, which it has created before. A flash driver that sleeps in
  `settings_save_one` would let a keystroke in, which is outside the model.
- The keyboard and the backlight thread interleave at every statement of
  `KbBacklight`. They have the same priority, so on the boards they do so when one
  waits (flash, DMA) or its time slice ends: the model allows more.
- `settings_save_one` replaces the image as a whole or not at all.
- `Disturbed` = a connection failed to be created (its reference is never
  returned), or the advertising keystroke took the slave's object or its notice.
  Under it the master can lose its slave for good; the code has nothing against it.

### Disagreements between the code and what it says

1. `kb_handle_master.c:83` "Runs on every slave key just released once": losing the
   slave runs no release callback (`slave_releases`).
2. `keystrokes/choco_v1.h:12` gives `bt_connect_factory_reset` the key code `KEY_H`,
   where lines 9 and 11 give keymap indices, as the engine expects: FN with the D key,
   index 11, unpairs every host (`fn_keystrokes`). The lines below it, and
   all of `dactyl_v1.h`, have the same mistake with other keys.
3. `kb_handle_common.h:11` "Fill out current ADC values": an uninitialised variable
   for each key that is up (`kscan_values`).
4. `kb_handle_master.c:68` "Runs on every slave key just pressed once": also on keys
   that are up, from the bitmap of an earlier connection (`press_real`).

Met while modelling, without a run of their own: a race poll that finds no key makes
`get_kscan_bitmap` return false, which `kb_handle_common.h:13` keeps for the polling
rate and errors, so that the last release is never reported (only an image in flash can
select race mode); the settings image fits no packet, so the slave never gets it
(theorem `WhatFits`); turning the backlight off leaves the last frame on the LEDs.

## 4. The proofs

TLAPS checks these for every value of the constants that satisfies the assumptions.

| Module | Theorems | The argument |
|---|---|---|
| `KbEngineProofs` | lemmas | what removing an entry from a sequence keeps; each callback preserves the engine's types; the kinds of keys `StableKeymap` gives; a key has one code (`OneCode`) and a table one report (`OneReport`) |
| `KbHandleMasterProofs` | `TypeCorrect`, `TableOwned`, `FnModeOwned`, `LayerBitsOwned`, `OnlyOwnReleaseHolds`, `NoFlickerHolds`, `ReportIsHeld`, `KbHandleGoesOn`, `KbHandleEnds` | see below |
| `KbHandleSlaveProofs` | `SlaveTypeCorrect`, `SlaveFnModeOwned`, `SentCurrentHolds`, `SendsImplemented` | ownership and sending, one invariant each; what was sent lags behind only while `change` is set |
| `InterKbLinkProofs` | `LinkTypeCorrect`, `StillLookingHolds`, `StillAdvertisingHolds`, `ViewCurrentHolds`, `LinkImplemented`, `PacketsArrive`, `WhatFits` | see below |
| `KscanMuxesProofs` | `ScanTypeCorrect`, `ScanAligned`, `ScanExact`, `ScanCounts` | where a pass leaves each mux, and which key each sample so far was of |
| `KbScanProofs` | `KeymapIsAligned`, `SettingsAreRemembered`, `ScanTypeCorrect`, `LinesDoRecover`, `BitmapIsExact`, `RaceFindsGreatest` | an account of the poll so far |
| `HostReportsProofs` | `ReportsTypeCorrect`, `NoKeysStuck` | the report in hand is the table |
| `LightsProofs` | `TypeCorrect`, `FrameCorrect`, `StateIsRemembered`, `LedTypeCorrect`, `FrameWholeHolds`, `BufferQuietHolds`, `WakeUpComes`, `LightsImplement` | what each statement may rely on; an account of the transfer's two interrupts |

*Key handling, master.* Types are inductive by themselves. Ownership (`PressedOwned`,
`FnOwned`, `LayersOwned` together) is not: that the release of an FN or a layer key
leaves no entry behind needs that neither ever has one. `Recorded` adds this: every
entry of the table and of the FN buffer is of a key that has normal codes. With
`StableKeymap`, a key with one normal code has only normal codes, so the release takes
the branch the press took (or the FN branch, which `masked` records). A press callback
runs only for a key not in `prev_down`, and `KeymapIndex` is injective over both halves
(this is where equal key counts are needed), so a press never makes a second entry for
a key that is not `dropped` or `masked`, and a release in normal mode, which searches
the table by index, removes the only one. `OnlyOwnRelease` follows from the type
invariant and the same lemmas about one callback.

*Reports of the master.* `NoFlicker` compares a report with the next one, many steps
later, so its invariant speaks of the last report at any time between. `ReportHeld`:
the keys it shows are down, or were released since, and then have no press callback
before the next report, because a bitmap is taken once per call. `InReach`: a reported
entry still in the table has fewer than `ReportSlots` ordinary entries before it.
Releases only take such entries away (`OrdinaryRemoved`, an injection between the two
tables' slots); a press adds its entry at the end, and `ReportHeld` is what excludes
that this is a second entry of a reported key. `ReportIsHeld` is `ReportHeld` when the
call has ended. `KbHandleGoesOn` needs least elements: of the words with an edge, then of
the keys in it; `KbHandleEnds` counts the edges and words left.

*Link.* `LinkInv` ties the link to the master's pointer: exactly the object being
created or connected is the slave's, and only a link carries notifications. `PoolInv`
is the heart of `StillLooking`: it counts the *open* objects (advertising, a host's, or
closed). There is one while the master has its slave or scans for it, and there are two,
one of them closed, while a closed connection of the slave is to be recycled. So a scan
always finds an object left, though the notices do not say which of the two they are
about. `OpenInv` is what remains of this when the pool was disturbed; it gives
`StillAdvertising`. `QueueInv`: the last bitmap under way, or `incoming_keys` when none
is, is the slave's latest unless it was missed or is yet to be sent. `LinkImplemented`
maps `slave_conn` to `ykb_slave_conn # None`; `LinkInv` supplies that notifications and
losses only come with a connection. `PacketsArrive` is about operators, for payloads of any bytes.

*Slave.* `FnInv` adds to `SlaveFnOwned` that the FN buffer lists no FN and no layer key.
`SentInv`: what was sent lags behind the callbacks only while `change` says so.
`SendsImplemented` maps a poll to the abstract poll and the callbacks to stutters:
an edge is left or `change` is set until the send, and then the keys polled are the
keys the callbacks were told.

*Mux scan.* The poll keeps no record of where the muxes stand, so the invariant has to:
every mux the loops are not inside is at its last channel or was never stepped
(`Parked`), and the present one is a step behind until it is selected. `Counting` ties
`key_index` to the number of keys before the present one. For the bitmap, `Accounted`
says that the bits set are those of the keys passed whose *sampled* key is down, where
`Sampled` shifts a mux's keys by where the poll found it (`Start`). Before any select
failed the shift is none, which gives `BitmapExact`. After that it is some rotation of
each mux's channels, a bijection, which gives `CountExact`. `Selected` and `LinesSuffice`
make "the sampled key" one key: no two channels of a mux have the same lines.

*Settings and enable-line scan.* The settings half shows at each statement of `main()`
what `settings` is, and that whatever `BuildImage` saves loads as itself, because keeping
the last rules twice is keeping them once. The thresholds equal those of the settings from the
load on, since the callback was registered two statements earlier. The scan half accounts for a poll under
way: the lines high are those it found and has not passed, and at most the present one;
every key before the present one is in the bitmap if and only if it should be; and in
race mode the key found is the furthest of those passed.

*Reports.* From the build of a report until it is handed over, `report` is the table,
because only the keyboard thread changes the table. `DeliverTells`: delivering a
notification changes what a host shows but not what it was told.

*LED driver.* Every interrupt of the present transfer is still a flag, or was the first
(`sem_release`), or was the second (the semaphore). Outside the wait nothing is under
way (`Quiet`). `WakeUpComes` adds a count of halves and interrupts to come, which every
step during the wait lowers.

*Backlight.* `Statement` says for every value of `op` which modes are initialised and
whether `mode` and `mode_idx` are the old or the new ones, `Startup` that a start-up works
on the restored state or the default, `FrameAlone` that a frame not raced began between
operations. The refinement maps a starting keyboard to `None`, and the image in flash to
what the next start makes of it. `LightsImplement`: every step of the composition is
a step or a stutter of each part, so what is proved of the parts holds of it.

*Only model-checked*: the liveness properties (`ReleaseReported`, `Reconnects`,
`UpdateReturns`, `ModeShown`, `KeysReach`, `ThreadFree`, `KeyWakesHost`), since liveness
under fairness and ENABLED are out of the prover's reach. Every invariant, every action
property and every refinement a passing run checks is also a theorem. What a liveness
property says once time is taken out of it is a theorem where it says much:
`ReportIsHeld`, `KbHandleGoesOn` and `KbHandleEnds` for `ReleaseReported`, `StillLookingHolds`
for `Reconnects`, `WakeUpComes` for `UpdateReturns`.

## 5. What is not modelled

- *Race poll of the mux scan*: `kscan_muxes.c` steps another device than it reads.
  `KbHandleMaster` and `KbHandleSlave` run with what `kb_handle_common.c` asks of any
  race poll, and `KscanEnables` has the other driver's. `mux_gpio`'s select by number
  and `ws2812_pwm_update_channels` have no caller.
- *Single-board `kb_handle_normal.c`*: calls a function no file defines, and no
  board builds it.
- *Pairing, connection parameters, USB and GATT descriptors, register set-up*: one-off
  calls into the stacks that leave no state in this code. Factory reset is
  modelled as the callback a keystroke runs, not by what the stack then forgets.
- *Settings and backlight packets to the slave*: the slave has no handler for them.
- *Logging, battery*: no property is about them.
- *The backlight's modes*: what they draw, `on_event`, the scaling of colours. A frame
  overtaken by a keystroke may be drawn from state `deinit` has cleared
  (`press_bruise_red.c:107` could then divide by zero, which no property excludes).
- *The polling rate*: it only delays polls, and no property counts time.
- *The whole keyboard in one model*: `SlaveLink` takes the place of the link and
  the slave where the master is checked, `SlaveSends` that of the slave's engine
  where the link is, `HandleEdges` that of the engine where the hosts are. The
  first two steps are proved to be sound, the third allows any table.
