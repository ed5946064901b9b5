# Verification of the Geiger/GPS display firmware

The repository holds the firmware of a display unit (PIC32MZ, Harmony 2) that shows what a
sensor box measures: radiation, position, attitude, radio stations. The box is connected by
CAN; the unit has an OLED display, a knob with a button, an SD card with pictures and
sounds, a wireless module, and keeps its configuration in flash. This directory models the
parts of `src/firmware/src` whose correctness depends on interleavings, failures and
boundaries, checks them with TLC and proves some of the results with TLAPS.

Paths below are relative to `src/firmware/src` unless they begin with `src/`.

## 1. Inventory

**Execution.** `main.c` calls `SYS_Tasks`, which calls `APP_Tasks` (`app.c:749-847`) for ever:
one pass of every state machine in a fixed order, with `vSndRd` between any two. Interrupts
preempt the loop: timer 4 (sound, priority 5), CAN 2 (reception, 3), SPI (3), UART 4
(wireless, 2), change notice (knob and button, 1) and timer 5 (milliseconds, 1). All share
the structures `appData` and `sConfig` (`app.h`) without locks, and a higher interrupt
preempts a lower one.

| Component | State | Operations | Hard about it | What makes it correct |
|---|---|---|---|---|
| CAN reception (`can.c`) | sequence state, type, size, checksum, buffer and write pointer; the structures of `appData`; graph ring | `vCAN_MsgRecv` per frame, `vFetchData` per message | one-deep FIFO loses frames; no numbering, no timeout; SID ignored within a sequence; malloc in an interrupt | one buffer, no overrun, only data with the announced checksum, back in step, list sorted, ring right |
| CAN transmission (`can.c`) | `uiCanState`, `cCfgChanged`, `cCanSendScreen` | `vCan_State`, `vCanSendBuffer`, `vCanTransmit` | sends the live `sConfig` while it is edited; frames given up silently; a request cleared after it was served | configuration never torn and converging; the box knows what is shown |
| SD card and sound (`sdcard.c`, `common_library_32x.c`, timer 4 in `system_interrupt.c`, `ucReadSndBuff` in `app.c`) | one file handle, `cSdBusy`, two buffers, play position, request, end mark | `SD_State`, `vSoundfromSD`, `ucPlaySound`, `vPicturefromSD`, `vSndRd`, `timer4_handler` | double buffering between interrupt and loop; the interrupt frees and closes; reservation dropped each pass; the timer never stops | bytes in order, the end found, buffers freed once |
| Configuration in flash (`nvram.c`) | `uiNvramState`, driver handle and command, the page | `vNvram_State`, `vResetDevice` (`app.c`) | power failure or reset between erase and write; edits during a save; wear | a change is saved, what was saved is kept, flash programmed only after an erase, no needless erase |
| Alarms (`alarms.c`) | `uiAlarmState`, `cAlarmScreen`, the screen to return to | `vAlarms_State` | needs the SD card when it may be busy; alarms overlapping; return to a screen the user has left meanwhile | the panel is given back, and to a screen that stands alone on it |
| Display state machine (`display.c`) | `uiDisplayState`, screen, previous and old screen, lock | `vDisplay_State`, `vUpdateScreen`, the screens | the screen changes in an interrupt while it is drawn; every screen has its own way of not being drawn again | what is drawn is what is selected |
| Navigation (`switch.c`) | screen, function, subscreen, settings, list indexes | `APP_SwitchReceiveEventHandler`, `vNavigateMenus` | runs in an interrupt; time windows; wrapping indexes; the main loop sets the screen, too | a subscreen belongs to its screen, an edit to its setting, a push leads out again |
| Wireless (`wifi.c`) | `uiWifiState`, status bits, answer buffer | `vWifi_State`, `APP_WifiReceiveEventHandler` | answers arrive in an interrupt, late or never | no answer credited to the wrong command, never stuck |
| Housekeeping (`app.c`, `temperature.c`, `contrast.c`) | counters, calibration, time base | `vMisc_State`, `vPress_State`, `Temperature_State`, `Auto_Contrast`, `vTmr5_event` | tasks that pace each other by passes; the reset held by the button in their middle | every value is read again in time, and read right |
| Display primitives (`ssd1351_drv.c`; pictures in `common_library_32x.c`; scales and LEDs in `display.c`) | the controller's window, cursor and scan | `by1351_...`, `ucDisplayImage`, `vUpdateScales`, `vSetIndicator` | drawn from the main loop and from the switch interrupt; pixels counted by the code, wrapped by the controller | every drawing is on the panel as asked for |
| Callsign lookup (`common_library_32x.c`) | the file on the card, read in blocks | `ucHamLookup`, `vParseRecord` | records across the border of two blocks; a match is any place in a block | found where it first stands |
| Station list (`switch.c`) | `uiStation` | turns of the knob, `vDisplayAprsList` | empty entries come first, the index is a byte | stays in the list, shows every station, and as old as it is |
| SPI driver of the card (`drv_spi_tasks.c`, `drv_spi_master_ebm_tasks.c`, `drv_spi_api.c`) | queue, job, bytes on their way, modes of the interrupts | `DRV_SPI_...Tasks`, its two sub tasks | the bus goes on while the handler runs; a FIFO is shorter than a job | a job gets the answers to its own bytes, and ends |
| Static flash driver (`drv_nvm_static.c`) | buffers, queue, tokens, the media | `DRV_NVM_Write`, `Erase`, `Read`, `CommandStatus`, `Tasks` | buffers taken again under handles still held; commands of several blocks | commands whole and in order, their states told right |
| Not part of the logic | | fonts, `delays.c`, other generated Harmony code | | |
| Unused | | `gps.c` (positions come over CAN), `usbhost.c` (not called) | | |
| Server page | | `src/jpsmart.php`, `src/jp.html` | | not firmware |

**Interactions.** The switch interrupt writes `sConfig`, the screen and `cCanSendScreen`, which
`vNvram_State`, `vCan_State` and `vDisplay_State` read. `vNvram_State` sets `cCfgChanged`
for `vCan_State`. Alarms and screens play sounds and show pictures through `sdcard.c`. The
CAN interrupt fills what the screens and alarms read. A reset from the button
(`vMisc_State` -> `vResetDevice`) sets the states of all machines back at whatever state
they are.

## 2. Modules

| Module | Models | Extends |
|---|---|---|
| `AprsSort` | the bubble sort of the station list in `vFetchData`, and its reference | |
| `CanReceive` | CAN reception with the peer's `vCanSendBuffer` and a bus that loses and inserts frames | `AprsSort` |
| `CanDelivery` | abstract: a message is received whole or not at all | `AprsSort` |
| `CanTransmit` | `vCan_State` against the display's announcements and the switch interrupt | |
| `SdSound` | the SD card's reservation and handle, and sound played from it | |
| `SpiDriver` | the driver of the bus to the card: its interrupt handler against the FIFOs | |
| `NvramConfig` | `vNvram_State` with the flash driver, edits, resets and power failures | |
| `NvmDriver` | the static flash driver: buffers, queue, handles, blocks | |
| `Navigation` | abstract for `Panel` and `Housekeeping`: where the user is, and what knob, button and main loop may do about it | |
| `Panel` | display task, screens, alarms, show and reset against knob and button | `Navigation` |
| `Housekeeping` | the periodic tasks, paced by each other, with knob, button and reset | `Navigation` |
| `Wifi` | `vWifi_State`, its receive interrupt and the wireless module | |
| `Figures` | where slanted lines and circles are drawn, as functions of ends and radius | |
| `Oled` | the primitives as streams to the display's controller, and the interrupt's wipes between their elements | `Figures` |
| `Indicators` | scales and LEDs, as functions of what they show | |
| `HamLookup` | the callsign lookup, as a function of the file | |
| `MessageLines` | how messages and comments are broken into lines | |
| `StationList` | the list of stations: the knob's turns, the rows, the ages | |
| `Thermometer` | the one-wire bus to the sensor, its set-up, and `fReadOwTemp` | |
| `Computations` | the inputs of `Figures` and the five modules above, one a state, and what each should give | `Figures`, `Indicators`, `HamLookup`, `MessageLines`, `StationList`, `Thermometer` |
| `MC_CanReceive`, `MC_CanTransmit`, `MC_Panel`, `MC_Housekeeping`, `MC_Oled`, `MC_SdSound`, `MC_NvramConfig` | constants for TLC; in `MC_Oled` each input of `Computations` is through before the first drawing begins; `MC_SdSound` and `MC_NvramConfig` run either the component or the driver below it | |
| `CanReceiveProofs`, `CanTransmitProofs`, `SdSoundProofs` (with `SpiDriver`), `NvramConfigProofs` (with `NvmDriver`), `WifiProofs`, `NavigationProofs`, `PanelProofs`, `HousekeepingProofs` (with `Computations`) | theorems | |

State variables carry the names of the code's; history variables, which no action of the
code reads, are marked `(history)`. Operators whose comment begins with "Mutant" are
deliberate faults: each shows that one property notices a plausible bug in the definition
that follows it. No specification uses them.

### CanReceive

One action per path of `vCAN_MsgRecv`: `ReceiveMore` (more than a frame remains),
`ReceiveLast` (the rest is copied, the checksum compared, `vFetchData` called or not, the
buffer freed), `ReceiveHeader` (malloc may fail) and `ReceiveSingle`. The interrupt is
atomic for what it shares with the loop: nothing of lower priority runs in between.
`Deliver`, `Lose` and `Single` are the bus. A byte is one bit: XOR acts on each bit lane by
itself, and a fixed sequence of compare-and-swap steps that sorts all lists over two values
sorts all lists. The handler copies eight bytes of a frame whatever its length code, so the
bytes the sender did not give take any value. A station is its distance. A message other
than the Geiger counter's and the station list is a plain copy.
Left out: the averaging of `CID_GYRO`, the beep of `CID_TICK`.

### CanTransmit

`vCanSendBuffer(&sConfig)` is split where the switch interrupt can come: per step of the
checksum loop (`ConfigSum`), at the header, before each body. The fields the interrupt
edits lie within one frame each, so frame and field are one. The announcement is split into
the reading of `cCanSendScreen`, the transmission, and the clearing. `vDisplay_State`'s
state 40 is split likewise. The sensor box (external) takes the configuration whose
checksum is right. `vCanTransmit` gives up a frame in two ways (`GivenUp`).
Left out: alarm screens (`cAlarmScreen`), the reset from the button.

### SdSound

The main loop has a program counter `pc` that stops where timer 4 can matter: between the
test of `ucReadSndBuff`, the read and the clearing, and between the assignments of
`vSoundfromSD` and `ucPlaySound`. `TickPlay` is the whole handler. A buffer is a heap block
and the file positions it holds. A negative result of `SYS_FS_FileRead` ends in an unsigned
variable (`ReadFailed`). What the code relies on but does not enforce is recorded in
`disturbed` (refill too late, handle taken by another operation, stale timer, failed
read); properties of playback are about undisturbed playbacks, and the runs reach
disturbed ones too.
Left out: the two-byte `memcpy` of a sample, and movies: `vVidfromSD` takes the file handle as pictures
do, tests `cSdBusy` but never sets it.

### SpiDriver

`DRV_SPI_ISRMasterEBM8BitTasks` is cut into steps between which the bus shifts bytes: the choice of a job, sending,
receiving, the end of a round. Two jobs wait or run at a time; a job is so many bytes out and so many
in, and a byte is known by its job and place, so that a lost or a foreign answer shows.
Left out: callbacks, baud rates, the error interrupt.

### NvmDriver

`_DRV_NVM_BlockOperation` for writes and erases, reads, `DRV_NVM_CommandStatus`, and
`DRV_NVM_Tasks` block by block. The controller is done when its call returns: the code waits for
it. `plan` is what the commands given make of the media, against which the media is compared.
Queued commands and buffers taken again are about this driver as it stands: `vNvram_State` has one command
outstanding and waits for it.
The build links the dynamic driver instead, and `nvram.c` could not run on this one: it takes a handle of
0 for a failure, and that is what this driver's `DRV_NVM_Open` returns.
Left out: `Deinitialize`, the combined erase and write, which no function of the driver requests, the event
handler, requests out of range.

### NvramConfig

One action per state of `vNvram_State`; the driver's erase and write are steps of their own,
between which edits, `vResetDevice` and `PowerFailure` may come. The page is a
configuration, erased, or torn: cut off with its magic in place, which the code takes for a
configuration. The driver (external) has one client, as `DRV_NVM_CLIENTS_NUMBER` says
(`system_config.h:199`); `drv_nvm_static.c` is another version of it (`NvmDriver`) and not the one
linked. The time tests of state 10 are two Booleans: `young` for
`ulLonglife <= 10` and `recent` for the two seconds after an edit of the system screen. (After a
reset `ulLonglife` restarts below `ulLastCfgChange`; the moment it passes it again delays a
save by two seconds and is left out.)

### Navigation

The user's place: the screen, whether it or a subscreen is shown, the subscreen, what is being
edited, and the line of the settings. `NavTurn` and `NavPush` are `vNavigateMenus`;
`MainLoopSets`, `AlarmEnds` and `ResetStarts` are what the main loop does to the place:
the display sets GYRO after the start, an alarm its screen, a push too early to count goes
back to the screen before, an alarm or a reset ends the subscreen first. The order of the
tests in a push matters and is kept: SYSTEM, SHOW and GYRO act before a subscreen is thought
of. Two histories name the causes of the two oddities the code has: `strayed` (the screen was
set under a subscreen) and `cut` (an edit was cut off).
The position in the station list is in `StationList`. Left out: zoom, sea level, the values edited.

### Panel

The main loop runs `SD_State`, `vDisplay_State`, `vAlarms_State` and the reset in the order of
`APP_Tasks`; knob and button come between any two steps. A view is a screen and the function
it is shown in. A new screen clears rows 9 to 118 only (`display.c:2236`): `painted` holds the views that
left marks in this window since it was last cleared, `edges` those with marks in the bars above and below, and
`Logo` and `Picture` tell the start's pictures from an alarm's. `stale` is which screens are to be drawn again (`cChangedScreen` and the flags of the
single screens). Every `vDisplay...` function says when it draws, whether it clears, and
what it needs. Alarms are kinds in the order `vAlarms_State` looks for them; that a condition
holds is an event (`Raise`). `mixed` is the history of screens that changed while they were
drawn. The place moves as `Navigation` allows (`ImplementsNavigation`).
A state of `vDisplay_State` is one step, but for a screen being drawn; an interrupt's assignment
`uiDisplayState = 40` in the middle of another state, which the task's own then overwrites, is not seen (the
next pass comes to 40 by itself).
Left out: thresholds and intervals of the alarms, state 130 of `vAlarms_State` (a test that
nothing enters), `vDisplayBt` (not called).

### Housekeeping

One action per state of `Temperature_State`, `vMisc_State` and `vPress_State`, one task after
the other in a pass; `Auto_Contrast` is part of the state that calls it. The sensor
(external) takes up to `ConversionPasses` passes. 12 bits take 750 ms, for which the four passes between the
command and the reading have no time of their own; a conversion that takes more than three is too slow for its round,
is restarted by the next one, and is counted in `missed`. The reset is split around its delay.
Left out: settings taken from an SMS, the setting of the clock, the altitudes computed.

### Wifi

The pass of `vWifi_State` is split where the receive interrupt can matter: the state it found,
the flag it tests, the command it sends, the state it sets. A line is received in one step;
streams of lines (the list of access points) are collected in `ucWifiMsg`. The module
(external) executes one command at a time, may be slow, restart, or lose a line. It is assumed
not to refuse a command of the configuration other than the host name, and to answer only
after the state of the command has been set.
Left out: the content of the request, state 220, which is never entered, and that the echo of `AT+CWLAPOPT`
(`wifi.c:543`) begins a stream like the list does, as it contains "+CWL": the next OK ends it, and its text is left in
the buffer that the list then begins anew.

### Oled, Figures, Computations

A drawing is the sequence of commands, data and pixels that its `by1351_` function sends. `Send`
passes one element to the controller (external: window, cursor, direction of scan), and
`Interrupt` is a wipe of `vNavigateMenus` between any two of them. A pixel carries the place it
is meant for where that matters (texts, sprites, pictures). `DrawnAsAsked` compares
what is painted with a definition of the figure that does not know of windows: a line within
half a place of the straight one, a circle within half a place of the true one, and so on.
Two quirks of the primitives are kept and show in `Painted`: a vertical line lacks its last
place, and a text takes no account of its size when it looks for room.
A film is frames drawn one after the other with the window and scan of the first (`vVidfromSD`).
`Figures`, `Indicators`, `HamLookup`, `MessageLines`, `StationList` and `Thermometer` are pure functions; `Computations`
compares them with references, every input a state of its own. `Inputs` says which there are: numbers without
a bound, texts and files of any length. A file is a sequence of characters, and a callsign with its semicolon is
looked for at every place of it, as the code's `memcmp` does. In the station list an entry without a
station has distance 0 and the sort puts it first, so a list is the number of its empty entries.
Left out: the bits of fonts and colours, scrolling, fading, `by1351_WriteString` and
`by1351_DumpText`, which nothing calls; of the lookup its failures and its end when the screen
changes.

## 3. Runs

| Run | Module, configuration | Shows |
|---|---|---|
| `can_lossless` | `MC_CanReceive`, `CanLossless.cfg` | `WholeMessages` (refinement of `CanDelivery`), `RingHoldsLatest`, `StationsNearestFirst` |
| `can_lossy` | `MC_CanReceive`, `CanLossy.cfg` | one buffer, no overrun, one header per sequence; data only with its checksum; back in step |
| `sd_sound` | `MC_SdSound`, `SdSound.cfg` | order, bounded loss at the end, the idle buffer refilled, buffers returned, playback ends; `AnswersInOrder` and `JobsGoOn` of the SPI driver |
| `can_config` | `MC_CanTransmit`, `CanConfig.cfg` | no torn configuration; convergence; the box learns the screen and its function if nobody hurries (`ViewKnownIfUnhurried`) |
| `nvram_config` | `MC_NvramConfig`, `NvramConfig.cfg` | typing; erase before write; what was saved is kept; wear; a change is saved; `MediaAsCommanded` and `CompletedIfDone` of the static driver |
| `panel` | `MC_Panel`, `Panel.cfg` | `ImplementsNavigation` (refinement); an alarm's picture, once up, is drawn over by nothing but the pushes, the reset and the start named, and ends; a screen comes to stand alone in the window, or over one other if it was changed while that one was drawn |
| `housekeeping` | `MC_Housekeeping`, `Housekeeping.cfg` | the temperature is as fresh as the conversions too slow for a round allow; a subscreen is over its parent, an edit in the settings, but for the causes named |
| `wifi` | `Wifi`, `Wifi.cfg` | in rounds without a fault the request waits for its prompt; with one fault at most, a restart is heard of before the next request is asked for (`RestartHeard`); reported only if sent; the device comes back to looking for networks |
| `oled` | `MC_Oled`, `Oled.cfg` | every drawing is on the panel as asked for (`DrawnAsAsked`); scales, LEDs, lines, circles and texts (`IndicatorsShowValues`); callsigns, the knob, rows and ages of stations (`StationsFound`); the thermometer (`TemperatureRight`) |
| `sd_freed_once` | `SdSound`, `SdSoundFreedOnce.cfg` | **violated**: buffers freed twice |
| `nvram_reset` | `NvramConfig`, `NvramReset.cfg` | **violated**: never saved again after a reset during a save |
| `panel_push` | `MC_Panel`, `PanelPush.cfg` | **violated**: a push that does not lead out of a subscreen |

**Bounds.** Frames of two bytes, and messages of one, two and three bytes, are the smallest with a
message shorter than a frame, one that fills it, and one with a remnant; a ring of two
wraps with every second reading. `MaxLost` 2 and `MaxAlien` 1 allow losing a header and a
body, or a body and a frame of the next message, with a frame inserted. Three stations take two passes of the sort.
Sounds of 3 to 6 bytes with buffers of 2 end in the first, on the border of, and in the middle of a
buffer; two sounds and one picture are enough for a stale timer and a stolen handle; four
blocks let a freed block be allocated again or not. Two configuration fields with two
values, one of them of odd parity, let the checksum both see a change and miss two.
The user of `MC_CanTransmit` is out for the screens, and then changes no value, or for the settings, and then does what leads there or
takes place there: both at once would double each other's states. `MaxUser` 4 actions are a turn, a push into the settings, one that
begins an edit and one that ends it, in any gap of an announcement or of a configuration being sent.
Three edits, one reset and two power failures interrupt a save, its repetition and the load
in between.

On the panel two turns lead from where the start and the alarm end to every screen of the list, and
a turn with a push into every subscreen; the list has a screen of every way of being
drawn, and one alarm of each way of ending (a screen, none). One reset meets every
state of the display and of the alarm. Three actions of the user lead to a screen that changes while it is drawn and
stands over it: a turn, a turn or push, and a push in the middle of drawing. So the user has four where there is neither alarm nor reset,
and two where there is (`MC_Panel`). Two access points make one that is tried and one
that is next; one fault is a slow answer, a lost line, a restart or a reset in any
state. Housekeeping has no bounds on the user; its counters are at their smallest (a
count that is compared and one more), and the sensor takes one to four passes, four once between two readings. The panel of
6 by 6 places has characters of 2, large ones of 3 and bands of 2 lines: a picture of several
bands, text that fills the panel and text that does not fit, and lines in all octants from
both ends; the interrupt comes once in a drawing, and in any. Blocks of 10 characters that overlap in 3
split files of three lines of different lengths at every place, before, in and behind callsign and record; one callsign is
the end of another, fields repeat callsigns, and one is in no file. The mark of the repeaters stands before any of the lines or nowhere. Films have one or two frames. A station list of 10 has every
number of empty entries at every position. Messages have words of every length that makes
a difference to a line, and lengths around one, two, and seven to ten lines. Stations are heard at both ends of a minute, an hour and a day. One-wire bits are looked at at both
ends and in the middle of what the sensor may take, with delays in time, nearly too late and too late.

FIFOs of 4 with half full at 2 have jobs of 0, 1, 3 and 7 bytes each way: shorter than
the half, fitting, longer than the FIFO, and one way only. The flash driver has two rows in a page, three
buffers, and tokens that recur after two, so that handles recur while their commands are still asked for.

Lines of up to 50 places and circles of radius up to 50, too large for the panel of `Oled`, are looked at by themselves.
That the inputs of `MC_Oled` are among `Inputs` is an assumption TLC evaluates (`InputsAreSome`).

The bounds on the environment are in the guards of its actions, and in `MC_CanTransmit` and `MC_Panel` in what they let the user do; the
program's own steps are never bounded.

**Fairness.** Weak fairness of the main loop's state machines (the loop never stops: the watchdog
resets the device otherwise), of timers 4 and 5, of the driver's task, and of the bus
delivering what it does not lose. Users, losses, faults, resets and power failures have none. For
`BackInStep` the peer repeats its messages, as the sensor box does by the second.
In `Panel` strong fairness says that delays pass (`DisplayWaited`, `AlarmOver`: time
in a state goes on though the loop leaves it to come back) and that a card that can be
mounted again and again is (`SdMount`). In `Wifi` strong fairness of `TimeOut` stands for the
count of passes in one state, which reaches 5000 though other passes come in between; the
module answers what it has taken, unless a fault comes.

Deadlock is checked in every run.

## 4. What the violations show

* **Double free.** `DRV_TMR_Stop(handleTmr)` (`system_interrupt.c:191`) stops another timer;
  timer 4 keeps calling its handler, silent while `cPwmDone` is set. `vSoundfromSD` clears
  `cPwmDone` before `ucPlaySound` has set `ulSndBytes`, so that a tick in between
  finds the end of the last file again and frees its buffers again.
* **Never saved again.** `vResetDevice` during a save sets `uiNvramState` to 0 and keeps the
  driver's only client open.
* **A push that does not leave the subscreen.** "Subscreen, reset to normal" (`switch.c:354`) comes after the tests for
  SYSTEM, SHOW and GYRO (`switch.c:326-353`). A push while the first pictures are shown enters the intro's
  subscreen; state 30 of the display then sets GYRO (`display.c:2221`). A push by itself then only
  zeroes the gyro, and a turn changes the intro's picture. The ways out are an alarm, a reset, and a push within 300 ms
  of a turn: it sets the screen back to INTRO first (`switch.c:598-599`), and leaves the subscreen there.

Also in the models, without a violated run:

* State 40 of the display, "Something changed, clear and update" (`display.c:2226`), takes for the previous screen whatever is
  selected when it has drawn (`display.c:2240`). A push that comes too early sets the screen back while the new one is drawn, or during the show: screen and previous
  screen are then the same, and the one is drawn over the other, which nothing clears (`mixed` in `LiveScreenShown`).
* "Step back a bit to cover splits" (`common_library_32x.c:227`) holds for callsigns, which
  are shorter than the step; of a record that a block ends in, the fields are taken from what is behind the block in memory (`FindsRecord`).
* The callsign with its semicolon is compared at every place of the block
  (`common_library_32x.c:187-191`): the end of a longer callsign, or of a field, matches as well, and the
  last match of the block is what remains (`FindsRecord`).
* "Don't count station if older than n seconds" (`app.h:114`, 600) is a difference of clock
  readings in HHMMSS: a station heard six minutes ago is not counted any more, and none is when an hour has begun. `AgeShown` says what
  holds: nothing is taken for younger than it is, in the colours of the list alike.
* A push that ends an edit (`switch.c:75-188`) announces nothing, though it may have set the screen back before
  (`switch.c:598-599`); a turn taken back before the display noticed it is not noticed; and `vCan_State` clears `cCanSendScreen`
  after `vCanTransmit` (`can.c:482`), with it the request of a push in between. No repetition makes up for any of
  them. `ViewKnownIfUnhurried` leaves such users out by the history `untold`; screen 0 cannot be announced at all.
* Both frequencies set back by one long push can slip a mixture past the XOR checksum
  (`NoTornConfig` excludes it by name), and so can two frames given up, a body and the next header:
  the box then completes the old message's bodies with the new one's. An unsuccessful open leaks both sound buffers; a torn
  row with its magic is loaded.
* An alarm or a reset ends the subscreen but not the edit in it: the knob then edits the setting
  in the next subscreen (`cut`).
* The carry of the temperature's low byte is lost: -16, -32 and -48 degrees read as 0, -16 and -32
  (`TemperatureRight` names them).
* The start's second picture and its clearing (`display.c:2204`, `2216`) do not ask for an alarm that has the panel already, at
  power-up as after a reset (`AlarmPictureStays` names them).
* A new screen clears the window only, so what the start, the intro's picture, the show or a circle drew in the bars
  above and below it stays where no scale is drawn (`LiveScreenShown` leaves the bars out, but for an alarm's picture and under the gyro).
* Turned to the right, the station list never shows the nearest station behind empty entries: the
  search stops at it and the index goes one on. Turned to the left from entry 1 to an
  empty entry 0, it counts below 0 and reads behind the array (`switch.c:288`, `StationsFound`).
* The record of a callsign is written over a comment of seven or eight lines: the comments say "One line" and
  "Two lines", the rectangle is right, the texts stay at the rows they have with less (`CommentRight`).
* The bits written to the thermometer stand interrupts of less than 9 us; a bit read is sampled 15 us after the bus
  went down, so it has no slack but what the sensor gives (`TemperatureRight`). A comment promises a conversion
  in "Tconv/4 187mS" (`temperature.c:143`), but the configuration 0x7f asks for 12 bits, 750 ms, and the
  sixteenths read need them.
* The SPI driver's transmit interrupt is pending as long as its FIFO is empty: with all bytes sent
  the handler goes round, at priority 3, until the last answer has come (`JobsGoOn`).
* A drawing cut off between the command and the data of the scan leaves it turned: pictures and
  sprites come out transposed until the next drawing that sets it (`turned`).
* The attitude alarm's red is 18 times a contrast of up to 15: 14 at full contrast
  (`IndicatorsShowValues` names it).
* An altitude calibration too low to be one is given up for good: nothing leaves state 50 of
  `vPress_State`; and one under way at a reset is never finished, as `ucCalStarted` is kept.

Read, not modelled: the distance below a station is that of the entry whose number is the comment's
length (`display.c:1165`, `i` for `appData.uiStation`); the scratchpad of the thermometer is taken without its CRC;
`vSetRGBled` tests its index with `>` and enables interrupts whatever they were; "No echo"
sends the command that turns the echo on; the last access point of a list is never parsed; the
width in a picture's header is not compared with the band's buffer.

## 5. Proofs

TLC checks small instances; the theorems hold for all values of the constants that satisfy
the named assumptions.

`CanReceiveProofs` (from `FrameLenAssumption`, `GraphLenAssumption`, `SizeAssumption`,
`TypesAssumption`, `NoneAssumption`):

* `SentFrames`: the frames of `vCanSendBuffer` are headers that give the size of their type and
  bodies of bytes. It is what the receiver's invariant needs to know of the bus.
* `OneBuffer`, `CopyInBounds`, `OneHeader`, by the inductive invariant `IInv`. The three
  properties are not inductive by themselves: that the copy stays inside needs the buffer to
  have been allocated with the size the header gave (`Buffers(uiCanSize + FrameLen)`), and
  that the size is the type's needs every header on its way to say so
  (`toSend \in Seq(PeerFrames)`). Losing a frame keeps that (a tail of such a sequence).
* `RingCorrect`, by `RingInv` on top: `BackShifts` says that advancing the index moves each
  place one back without the modulus, `BackIsModulus` brings the modulus in,
  `LatestShifts` says the same of the history.
* `StationsSorted`: what the bubble sort makes of any list of numbers is nearest first and has every
  distance as often as before. Checksum and sort are folds over the numbers up to N; the rule for
  them is `UpTo` (a set with 0 that goes on as far as N, by the least number that were missing), and
  `ChainOf` turns a fold into the values it goes through. A pass settles the largest of what is
  left (`PassSettles`), and each swap keeps the stations (`SameCounts`).
* `StationsInOrder` and `NoUncheckedData`, by `AppInv`. Sorting comes after the check and still
  the list has the checksum announced: a swap does not change the exclusive or (`SwapChecksum`).
* `MessagesWhole`, the refinement of `CanDelivery`, where `MaxLost` and `MaxAlien` are 0, as in the
  run: on other buses it is false. `DeliveryInv` says that the receiver is as far in the body sent
  as the frames left on the bus are from its end (`InFlight`), and has what came before; the last
  frame fills the buffer up to the size or beyond (`Outcome`). Its assumption that `None` is no
  message is there to tell an idle bus from one with a message.

`CanTransmitProofs` (from `FieldsAssumption`, `XorAssumption`), by `SendInv`: all configurations there have been while one is sent agree in the fields not
edited, and what the box has collected is of one of them, the last before the edited field was
copied or any after.

* `ConfigTakenWhole`: `NoTornConfig` for any number of frames given up, provided no header is while the box
  still waits for bodies (`HeadersArrive`). Without that it is false with two losses: bodies of an
  earlier message and of this one may make up a configuration that never was, and the checksum,
  one bit in the model and one byte in the code, cannot always tell.
* `ConfigTakenWholeOneLoss`: with `MaxDropped` of at most 1, as in the run, no proviso is needed, by
  `WaitsAfterLoss`: a box that waits has cost a frame already.

`SdSoundProofs` (from `BufSizeAssumption`, `LengthsAssumption`, `BlocksAssumption`): `FilePlayedInOrder`,
`EndLostUpToABuffer`, `IdleBufferRefilled` and `BuffersKeptThenReturned`, by `SdInv`, which is about a playback
nobody disturbs, as the properties are. `SetUp` is what `vSoundfromSD` has prepared at each of its
steps. `Playing` follows the file position at which the buffer being played begins: the file is
read to the end of this buffer or, after a refill, of the other, and each buffer `Holds` its part;
a refill is requested (`ucReadSndBuff`) at the change of buffers and done before the next, or the playback counts as disturbed (`late`).
`Heard` says that what was heard is the file so far, `Returned` that an end leaves no block behind.

Of `SpiDriver`, in the same module and from `SpiAssumption`: `JobAnswered` and `DriverNotStuck`. A byte of a job
is in the transmitter, shifted, in the receiver or taken; `SpiInv` numbers them without a gap from the
taken ones on, and counts no more on the way than a FIFO holds (`Counted`), so that none is lost.

`NvramConfigProofs` (from `ConfigsAssumption`, `EnvAssumption`, and `NvmAssumption` for the driver):

* `TypeCorrect` and `ProgrammedErased`, by `IInv`: what each state of a save knows of the
  driver's command and the page, and that a torn configuration in RAM is one just loaded.
* `WornByChanges`, by `WearInv`: erases done and erases owed (`Owed`) never exceed the changes. The
  owed ones make it inductive: an edit, a restart and a power failure each pay
  for at most one erase, which state 20, the driver or state 10 still has to make.
* `SavedIsKept`, where no reset falls into a save, by `SaveInv`. Without that assumption it is
  false, as the run `nvram_reset` suggests.
* `CommandsPerformedInOrder` and `CompletedWhenDone`, of `NvmDriver`, by `NvmInv`: a buffer is queued once
  and only while in use (`QueuedOnce`); each command makes of the media the one before leaves what
  `plan` says, and a block done is one less for the rest to do (`PlannedInOrder`); a command followed by its
  handle is queued in the buffer the handle names until it is done (`Traced`). Tokens may recur.

`NavigationProofs` (from `NamesAssumption`, `LinesAssumption`): `PlaceExists`, `SubscreenBelongs` and
`EditBelongs`, by `NavInv`. `EditOnlyInSettings` is not inductive: an edit left standing when its
subscreen is left would come back in the next; `EditEnds` says that none is but those cut
off.

`PanelProofs` (those and `KindsAssumption`, `BoundsAssumption`): `PanelRefinesNavigation`, by the
invariant `PlacesKnown`: the screens the main loop may return to exist, and an alarm that sets a
screen has one. Each action of `Panel` is shown to be one of Navigation's or to leave the place
alone, and `PanelKeepsPlace` follows without a look at `Panel` itself. `AlarmKeepsPicture`, by `PictureInv`:
while a new screen, the last one or the show is drawn no alarm has the display, so only what the
property names draws over its picture: a push into or out of a subscreen, the reset, and the start's pictures and clearing, which
come after a reset and, if the alarm is that early, at power-up. `PanelTypes`: the place's part comes from Navigation
by refinement, the rest is inductive with it; no run checks what is proved here.

`HousekeepingProofs` (those of Navigation and `HousekeepingAssumption`):

* `TemperatureStaysFresh`, by `Paced`: which states the measurement can be in, and how old the last
  reading is, in each state of `vMisc_State` before this pass' step of the sensor and after. It is for conversions of any
  length and any number of them: the reading is as old as a round of the tasks, and one more round for each conversion
  too slow for its own (`Cost`), as the next round restarts it blindly. Nothing in the code bounds their number; if every one is too
  slow, the temperature is never read.
* `HousekeepingKeepsPlace`, like `PanelKeepsPlace`.

In the same module, of `Computations`, from `ListAssumption`, `HamAssumption` and what they say of the sizes of list
and blocks: what the run `oled` checks input by input, for all of `Inputs`. The code's loops are recursive functions.
What holds after every turn of one is `UpTo` again; that the function has values at all, which its definition alone
does not give, is `ValuesExist`: the values up to n are found step by step, and any function chosen for the
definition has them.

* `TemperatureIsRight`: a byte read has, after k turns, its k lowest bits at the top (`ReadsBits`), and the reading of
  every sixteenth from -55 to 125 degrees is the temperature, but where the carry is lost (`ReadingIsTemperature`).
* `IndicatorsAreRight`: along rising curves the steps counted are the thresholds reached (`StepsAreReached`),
  so scales light the segments their values say; the bits of an LED are its bytes' (`LowestFirstAre`). Bresenham's error
  is the distance from the straight line times its length (`OnWay`) and stays within the longer side, which bounds the
  distance and, at the end, leaves none (`NoMultiple`); a circle's toggle is how far the next place is from the round one (`OnCircle`),
  so each row is as near as the one before, and the eighth ends where it meets its mirror image. After every line
  what is on lines and what is missing make up the text so far, lines in order and no longer than the width (`LinedOn`).
  A line that is not the last takes 13 characters at least, which is why a comment always has lines enough.
* `StationsAreFound`. The lookup ends in the first block with a match: blocks overlap by no less than a callsign without
  its semicolon, so each place a file has them at is within one block (`CallIs`, `MatchesAre`), and no block before is the last, as that would have
  ended the file (`FirstBlock`). So the callsign's first place is among those taken; any other taken is a place at which the
  file has the same characters, in the same block. What is taken is the record that the file has there or, where the block ends first, the begin of it
  (`RecordIs`). That the place is the begin of a line is not said: it is not so. The knob: where its search stops
  (`UpIs`, `DownIs`), where a turn leads (`RightIs`, `LeftIs`), and what many turns show (`TurnsRight`, `TurnsLeft`), with the two
  exceptions as part of the statement. Rows: the list so far is the first stations of the entries so far (`RowsOn`). Ages:
  the digits of the clock run ahead of its seconds and never behind (`ClockIs`, `AgeIs`).

`WifiProofs` (from `WifiAssumption`: a late start of the module is one of the faults, so there is one at
least):

* `RequestWaitsForPrompt`, by `WifiInv`, while there was no fault. The flags say that an answer came, not to
  which command, and answers are indeed taken for others'; the invariant is only about the three lines that
  do more than end a wait: `ready`, the prompt, and the page of the server, which looks like one. At
  most one of them is on its way, and the driver is in the state that waits for it; but the page may
  outlive its connection as far as state 80. It is the third line of its answer, and each wait since
  has taken one from before it (`PageOK`), so it is gone when the scan is answered.
* `ReportIsTrue`: with any number of faults an upload is reported only if this round's request was sent, by `SentInv`. Any
  answer may be taken for another's by then, but not SEND OK, the evidence: from the request on it is on its
  way only while the driver waits for it or has begun anew (`Placed`), it is the only one (`Single`), and a driver that
  has begun anew is held in state 5 until a `ready` comes, which is behind it. The theorem has a proviso, `[]RestartHeard`: when the module is
  about to send a request, no `ready` of an earlier restart is still unread. Without it the statement is false with
  about fourteen resets of the device, the lines of which stay unread: a round, and the next as far as the
  request, could then be gone through on answers to earlier ones. A receiver that keeps up with a serial line has none such; the run `wifi` checks `RestartHeard`, with one fault, where it
  is no proviso but holds.

Only model-checked: all liveness (`BackInStep`, `PlaybackEnds`, `ConfigConverges`,
`SavedEventually`, `ViewKnownIfUnhurried`, `AlarmPictureEnds`, `LiveScreenShown`, `ScansAgain`), which the prover does
not do under fairness; `RestartHeard`, which is false with faults enough; and `DrawnAsAsked`, which compares what the
controller makes of whole streams with figures: that lines and circles themselves are right is proved of `Figures`, that
windows, scans and wipes put them on the panel is not. The properties of the three violated runs are false.

## 6. Not modelled

* The card taken by a movie (`vVidfromSD`, shown by `vDisplayShow`, `display.c:405-447`); what it draws is in `Oled`.
  `vMoviefromSD` is not called.
* Generated Harmony code but for the SPI handler and the static flash driver: file system, ports, timers, clocks,
  the dynamic flash driver are modelled from their use or not at all. It is most of the lines of the repository.
* `gps.c`, `usbhost.c`: not called. `delays.c`, fonts, `vBeep`, `vDebug`: nothing depends on an
  order. `src/jpsmart.php`, `src/jp.html`: a server's, not the firmware.
* Lengths of time. Intervals are events that may come any time; so the wrap of `ulLife` after
  21 days, at which differences are huge, is not seen.

## 7. Plan

1. Proofs: `DrawnAsAsked`, beginning with what a window's pixels paint; a bound on the unread lines of `Wifi` under
   which `RestartHeard` can be proved.
2. The handle taken by movies in `SdSound`, next to that of pictures.
3. The time base, with intervals across its wrap, in `Housekeeping`.
