# A verification project for gnrc_lorawan

gnrc_lorawan is a LoRaWAN 1.0 class A MAC layer in C: a library without threads
of its own, driven by the calls of an upper layer, of a radio driver and of one
timer. This directory holds TLA+ modules that model it, TLC configurations that
check them on small instances, and proofs checked by TLAPS of what matters most
for every value of the constants. Paths below are relative to the root of the
repository; `mcps.c`, `mlme.c`, `region.c` and `internal.h` stand for
`src/gnrc_lorawan_mcps.c` and so on, `lorawan.h` for
`include/gnrc_lorawan/lorawan.h`.

Contents: [inventory](#inventory), [plan](#plan), [the modules and the
code](#the-modules-and-the-code), [the runs](#the-runs), [fairness](#fairness),
[findings](#findings), [proofs](#proofs), [not modelled](#not-modelled).

## Inventory

All state is in one descriptor, `gnrc_lorawan_t` (lorawan.h:114). Every entry
point runs to completion on the thread that owns the descriptor; what interleaves
is the order in which the entry points are called.

| component | state | operations | what makes it correct |
|---|---|---|---|
| class A machine (`gnrc_lorawan.c`) | `state` IDLE, TX, RX_1, RX_2; the timer and the radio | `send_pkt`, `event_tx_complete`, `open_rx_window`, `event_timeout`, `process_pkt`, `timer_fired`, `reset` | each transmission is followed by two windows, the timer and the radio always stand where `state` says, a handler is only called in a state it handles |
| MCPS data service (`mcps.c`) | `fcnt`, `fcnt_down`, `nb_trials`, `ack_requested`, `waiting_for_ack`, `tx_buf` | `mcps_request`, `mcps_event`, `_end_of_tx`, `process_downlink`, `build_uplink` | one confirm per deferred request, of its type; at most 1 + RETX transmissions; between two resets a counter never serves two frames |
| frame counters (`mcps.c`) | `fcnt_down` | `fcnt_stol`, `parse_dl` | the counter never moves back and follows the sender's |
| MLME service (`mlme.c`) | `activation`, `pending_mlme_opts`, `dev_nonce` | join, link check, MIB set and get, reset, `process_join`, `no_rx` | one confirm per join; a link check stays due until confirmed |
| MAC lock (`internal.h`) | `busy` | `mac_acquire`, `mac_release` | one exchange at a time |
| join backoff (`mlme.c`) | `backoff_state`, `backoff_budget` | `backoff_expire`, the budget test of MLME_JOIN | the time on air of joins is bounded per period |
| MAC commands (`mlme.c`, `mcps.c`) | `pending_mlme_opts` | `build_options`, `parse_dl`, `process_fopts` | each option of a downlink is handled once; the loop ends |
| reception windows (`gnrc_lorawan.c`, `region.c`) | `rx_delay`, `dl_settings`, `last_dr` | `_config_radio`, `rx1_get_dr_offset` | each window opens when the network sends, on its parameters |
| region (`region.c`, `region.h`) | `channel` | `channels_init`, `process_cflist`, `pick_channel`, `validate_dr`, `set_dr` | a transmission uses a channel the network granted; the search for one ends |
| uplink layout (`mcps.c`) | the bytes of `tx_buf` | `build_uplink` | the bytes sent are the header, the options and the payload, without gaps |
| time on air (`gnrc_lorawan.c`) | `toa` | `lora_time_on_air` | the table agrees with the formula it replaces |
| join accept and keys (`mlme.c`, `gnrc_lorawan_crypto.c`) | `nwkskey`, `appskey`, `dev_addr` | `process_join`, key derivation | both sides hold the same session keys |

**How they interact.** The upper layer calls `mcps_request` and `mlme_request`.
Both share `busy`. An accepted request ends in `send_pkt`; the radio driver then
calls `event_tx_complete`, which arms the timer for the first window;
`timer_fired` opens the windows, and each window ends in `event_timeout` or
`process_pkt`. The end of the exchange calls back the upper layer
(`mcps_confirm`, `mlme_confirm`, the indications). One timer serves both windows
*and* the delay before a retransmission, and `timer_fired` tells them apart by
`state` alone. The end of the second window is reported to MLME and to MCPS
alike, whichever the exchange belongs to.

**What is hard.** The lock is released by paths that do not own it and kept by
one that should release it; a retransmission runs after the lock has been
released; a timer set for one exchange may fire in another; a frame of a kind
nobody handles ends the windows; a reset forgets an exchange but not its timer;
confirms, counter increments and flags are written in an order that matters;
`nb_trials` is tested and decremented in one expression; counters are extended
from 16 to 32 bits; the budget's phase and hours share a byte; a key buffer
serves as another key while a join lasts; a window may outlast the timer of the
next; loops over the channel list, over the parts of a payload and over options
advance in their own ways. `PROJECT.json`
lists each under `hazards` at its line, with the properties that cover it.

## Plan

The modules were written in this order, the most important behaviour first; all
of them exist.

1. **The core**: `GnrcLorawan` (every entry point as an action) on `LorawanBackoff`
   and `LorawanFcnt`; `MacClient` (the MAC with its upper layer), `DataService`
   (the abstract data service), `ClassA` (the abstract device); proofs in
   `MacClient_proofs`, `Exchange_proofs`.
2. **The join backoff** over days: `BackoffDay` against the abstract calendar
   `JoinSchedule`; `BackoffDay_proofs`.
3. **Downlink counters**: `DownlinkCounter`, with a server that counts in full and
   a channel that loses, repeats and reorders; `Remainders` (lemmas),
   `DownlinkCounter_proofs`.
4. **Joins and channels**: `Region`, `JoinSession`; `JoinSession_proofs`.
5. **Windows in time**: `DataRates`, `RxWindows`; `RxWindows_proofs`.
6. **The bytes of frames**: `FrameBuffer`; `FrameBuffer_proofs`.

What could be added: a composition of `RxWindows` with `MacClient`, so that an
exchange under the lock is seen in milliseconds (what they have in common now is
`ClassA`); a timer that fires late; an
upper layer that makes requests from within a callback.

## The modules and the code

```
LorawanBackoff        LorawanFcnt ------------ DownlinkCounter -- DownlinkCounter_proofs
   |        \          /                                             (Remainders)
   |         GnrcLorawan
   |              |
   |          MacClient ---ImplementsService---> DataService (abstract)
   |              |   \ \--ImplementsClassA----> ClassA (abstract) <--- RxWindows
   |              |    MC_MacClient (instances)
   |          MacClient_proofs -- Exchange_proofs
   +-- BackoffDay ---FollowsCalendar---> JoinSchedule (abstract)
              \-- BackoffDay_proofs
Region ------ JoinSession -- JoinSession_proofs      MC_JoinSession (instance)
DataRates --- RxWindows ---- RxWindows_proofs        MC_RxWindows (instance)
        \---- FrameBuffer -- FrameBuffer_proofs
```

The modules without a common ancestor are views of one program that share
actions, not state: `gnrc_lorawan_reset`, say, is an action of `MacClient`,
`JoinSession` and `RxWindows`, each with the fields its properties are about.

**`GnrcLorawan`** has one action per public function and one variable per field
the control depends on, under the field's name (`state`, `busy`, `activation`,
`fcnt`, ...). `link_check` is the bit of `pending_mlme_opts`; `tx_buf` is the
frame the buffer holds, a record, `NoFrame` when `tx_len` is 0. External are
`timer` (set and not fired) and `radio` (asleep, transmitting, listening). `out`
holds the calls the last handler made: the status it returned, the confirms and
indications, the frame it gave the radio. A handler is one step; each early
return is a disjunct. What a frame is to the handlers is a record `DownFrame`:
its type, whether MIC, address and size are right, its 16 bit counter, the
flags, whether it answers a link check, whether it has a port.

| code | action or operator |
|---|---|
| `mcps_request` | `McpsRequest` = `McpsRefuse` (each `goto out`) or `McpsAccept` |
| `mcps_event`, `_end_of_tx` | `McpsEvent`, `EndOfTx` (state), `McpsConfirm` (the confirm) |
| `process_downlink`, `parse_dl` | `McpsProcessDownlink` = `DropDownlink` or `TakeDownlink`; `Accepts` |
| `mlme_request` | `JoinRequest` = `JoinRefuse` or `JoinSend`; `LinkCheckRequest`, `SetActivation`, `Reset` |
| `mlme_process_join`, `mlme_no_rx` | `MlmeProcessJoin`; `MlmeNoRx`, `MlmeNoRxConfirm` |
| `event_tx_complete`, `event_timeout` | `TxComplete`; `EventTimeout` = `Rx1Timeout`, `Rx2Timeout` or `UnexpectedTimeout` |
| `process_pkt`, `timer_fired` | `ProcessPkt`; `TimerFired` = `Retransmit` or `OpenRxWindow` |
| `mlme_backoff_expire` | `BackoffTick` (`BackoffExpire` of `LorawanBackoff`) |

`assert(false)` of `event_timeout` is compiled out, as in a release build:
`UnexpectedTimeout` only puts the radio to sleep.

**`MacClient`** adds the upper layer. It records from `out` alone what it has been
told: the type of the data request it awaits a confirm for, whether it awaits
one for a join, where its link check stands, how often its uplink was sent, the
status of its last confirm; and of the frames on the air, which counters were used
since the last reset (`used`) and under the keys of the last join accept
(`spent`). `Disturbances` names what the environment may do
beyond the patient use of the library: requests while one is outstanding, a
reset in flight, frames of a kind the exchange does not expect. With the empty
set the upper layer waits for its confirms and the network answers joins with
join accepts and data with data; frames that are lost, broken, repeated or old
occur in any case.

**`DataService`** is what the data service promises, without radio, windows and
timer: accept, send again up to RETX times, answer once. **`ClassA`** is what the
radio's side sees: idle, transmitting, and the two windows with the gaps before
them, in that order. `WindowPhase` finds the phase from `state` and `radio`, in
`MacClient` and again over the real-time state in `RxWindows_proofs`: the two
views of the machine implement one device.

**`LorawanBackoff`**, **`BackoffDay`**, **`JoinSchedule`**: the byte
`backoff_state` is kept packed (phase in bits 5..7, hours in bits 0..4).
`BackoffDay` lets hours and joins interleave and keeps the time on air spent in
the period; `JoinSchedule` is the calendar of periods by the hour since boot.

**`LorawanFcnt`** has the width of the counters as constants, so that the wrap at
2^16 and 2^32 is met by small instances.

**`DownlinkCounter`** composes it with a server that counts in full. A frame is
its full counter, of which the air carries the lower half. What is in the air is
every frame of the session not overtaken by more than `MaxLate` newer ones,
delivered any number of times or never: that is loss, repetition and reordering
without a variable for the channel. `wide` says which counter the server's MIC
covers; the device's covers 16 bits (`MicValid`, mcps.c:37). `Rejoin` begins a
session with or without MLME_RESET, `clean` says which. `MAX_FCNT_GAP` bounds the
frames lost in a row as LoRaWAN does.

**`Region`** holds the channel list and what a CFList does to it. **`JoinSession`**
is what a join leaves behind: the key buffers, the address, the channels. A key is
the tuple that is encrypted, so two keys are equal exactly if their inputs are.
During a join the AppKey is in the buffer `appskey` (mlme.c:233), and the MIC of
an accept is checked with what is in that buffer. An accept names no request
(1.0 accepts carry a nonce of the network alone), so `air` keeps each the network
has made: it may come late or twice. A CFList that was not sent is any list
(mlme.c:103 reads it from bytes nobody wrote). The loop of `_get_nth_channel` is
the action `Search`, one turn per step; no call is made while it runs.

**`DataRates`** has the arithmetic of the data rates: which exist, the rate of the
first window, symbol and window lengths, payload limits, the time on air.
**`RxWindows`** is the windows in milliseconds: `timer` and `listen` count down,
`Elapse` goes to the first of them. `want` is the windows the network makes of
the last uplink from its own settings `net`; `agreed` says that the device had
the same settings when it sent, and has kept them; `given` is the offset of the
last accept the device took. The network is assumed to learn of a rate the upper
layer sets for the second window (`SetRx2Dr`). The radio, told to listen
while it listens, may go on or begin anew: drivers differ, the code says nothing.

**`FrameBuffer`** is the bytes of a frame as places and lengths. `CopyPart` is a
turn of the loop of `build_uplink`, the cut of the payload being found out as the
loop goes. The network puts link check answers at the head of the options or
behind another command; `LinkCheckAns`, `ShortAnswer` and `EndOfOptions` are the turns of the
loop of `process_fopts`. `in_place` remembers whether every part was put where
the one before it ended. A copy past the end of the buffer changes nothing else
in the model: in the program it is undefined, and `LaidOut` tells when a part
leaves its place.

| code | action or operator |
|---|---|
| `mic_is_valid`, `parse_dl` on counters | `DownlinkCounter`: `MicValid`, `Extended`, `Accepts`; `Take`, `Drop` |
| `pick_channel`, `_get_nth_channel` | `JoinSession`: `PickChannel`, `Search` = `SearchUsed` or `SearchUnused` |
| `mlme_process_join` | `JoinSession`: `TakeAccept` (`SessionKeys`, `CfListsRead`), `RefuseAccept`; `RxWindows`: `ProcessJoin` |
| `_mlme_set` | `SetActivation`, `SetDevAddr` (`JoinSession`), `SetRx2Dr` (`RxWindows`) |
| `event_tx_complete`, `open_rx_window`, `event_timeout` | `RxWindows`: `TxComplete`, `OpenRxWindow`, `EventTimeout` = `Rx1Timeout` or `Rx2Timeout` |
| `lora_time_on_air` | `DataRates`: `TimeOnAir`, `CodedBlocks` |
| `build_uplink` | `FrameBuffer`: `DataRequest`, `CopyPart`, `SendUplink` |
| `parse_dl`, `process_downlink` on options; `process_fopts` | `FrameBuffer`: `CommandBytes`, `Drops`; `ProcessFopts`, `ReadOptions` |

## The runs

| run | question | result |
|---|---|---|
| `mac_patient` | does every exchange run from its request to its confirm, does the confirm come in the end, and what is the MAC to its upper layer and to the radio? | one exchange at a time (`ExchangeInv`, the inductive invariant of the proofs), which each step brings nearer its end; the confirm is that of the request, and comes; no frame counter is used twice between two resets, nor under the keys of one accept; the data service above, a class A device below |
| `mac_adverse` | what survives overlapping requests, resets in flight and foreign frames? | types and bounds, radio against state, the downlink counter, the link check |
| `backoff_day` | does the packed backoff follow the calendar for days, and is the budget kept? | yes, but for one join per period |
| `downlink_counter` | does the device's counter follow the server's over an unreliable channel? | to within one; frames are accepted exactly if not older than the counter, those of a server with a full counter in its MIC up to the first wrap only |
| `join_session` | which keys and channels does a device have after any sequence of joins, resets and personalised sessions? | the network's keys if the accept answers the last request; two keys that belong together, but for a personalised session behind a failed join; granted channels, but for those of a CFList that was not sent; a search that ends unless the list has a hole |
| `rx_windows` | does the radio wake up in time and listen at the right rate? | yes with agreed settings, but for the second window behind a long first one or a lost frame; with an offset kept from an earlier session the first window has another rate |
| `frame_buffer` | is a frame laid out right, does it fit, how long is it on the air, which commands are read? | right exactly if all parts but the last are empty; fits; as the data sheet; one answer too many per three bytes behind the answers, none of those behind another command |
| `find_*` | one statement of a header each | violated, see [findings](#findings) |

**Bounds.** With `FCNT16 = 8`, `FCNT32 = 16` and `MAX_FCNT_GAP = 4`, frames that
carry 1, 2 or 6 are new, repeated, old, too far ahead, carry into the upper
bits, and wrap the window at the full width. `MaxFcnt` is the uplink counter at
which requests end: 2 in `mac_patient`, so that a counter
is used, moved on, and the next frame built; 1 in `mac_adverse`, where resets
start it anew. It appears in the guards of `McpsAccept` and `JoinSend` alone.
`RETX` is 2 in `mac_patient`: a retransmission that is the last and one that
is not; 1 in `mac_adverse`. Budgets of 1, 1 and 0 and a time on air of 1 make
the budget cover no, one or two joins. `MC_FewFrames` keeps one frame for each
way an exchange can go on: a new data frame that acknowledges and answers a link
check, one that does neither, a confirmed one, three counter values (new, repeated
or too far ahead depending on what was received before), and one frame each that
is broken, of another type, a good and a bad join accept.
`mac_adverse` has a budget of 0, which one join exhausts.
`MaxHour = 86` takes `backoff_day` through the first two periods and three
grants of the last. There the hours stop, and once the budget is overspent so do
the joins: that is why this run does not look for deadlock. The budgets are the
code's divided by about six million, with times on air of 1, 2 and 5.

`downlink_counter`: `FCNT16 = 8` and 28 frames wrap the lower half three times;
a gap of 3 and 3 newer frames are the most that leave a late frame and a wrapped
one apart (`ChannelAssumption`). `join_session`: five channels, two of them
default and two of a CFList, so that a list has room for a hole within the CFList
and for a channel no list reaches; two accepts and two nonces, so that an accept
may answer the request before the last. `rx_windows`: data rates 0 (a window
longer than a second), 2 and 5, joins at 0 and at 6, which does not exist; the
default settings and some that differ in delay, offset and a second rate that
does not exist; frames that fit in a second and not; `MaxSince` is above
the longest delay of a window, 16 seconds. `frame_buffer`: payloads of 0, 1, 242
(the limit at the high rates), 50 and 51 (the limit at the low ones, with and
without an option) and 192, cut into parts of 0, 64, 128 or the rest, so that the
index wraps at 256; options of 0, 2, 4 and 6 bytes and payloads for port 0 of 0
and 7: empty, cut short, with bytes behind an answer, two answers, and more.

**Mutants.** For each property of a passing run a definition has a mutated form
next to it (`RetriesOffByOne`, `EndOfTxKeepsFcnt`, `DropDownlinkTimerRuns`, ...)
that changes it the way a slip in the code would; with it, the property fails.

## Fairness

`FairSpec` has weak fairness on three actions. `TxComplete`: a radio that
transmits finishes. `EventTimeout`: `_config_radio` puts it in single listen mode
with a symbol timeout (gnrc_lorawan.c:101), so a window that receives nothing
times out. `TimerFired`: a timer that is set fires. Nothing makes the upper layer
ask, the network answer or the hour pass. Weak fairness is enough: a window in
which a frame arrives instead of the timeout ends too.

How the liveness comes about is split off into properties without fairness, which
are proved: `ExchangeAdvances`, that each report of the radio or of the timer
leaves fewer of them until the end of the exchange (`EventsLeft`), and
`WakeupPending`, that one of them is to come. What fairness adds is that it comes.
One report brings nothing nearer, a timer that fires in a window that is open
already: it leaves the radio listening, whose own report is still to come
(`FairSpec` lets it come; in real time, with a driver that begins anew each time,
it need not, which is the exception in `ExchangeEnds` and in `OpensOnce` of
`RxWindows_proofs`). In the same way `FindsNth` says that a search stands only at
a hole, and `OptionsBounded` (in `FrameBuffer_proofs`) that each turn of the option
loop ends it or moves it on.

`JoinSession` and `FrameBuffer` have weak fairness on `Search` and `ReadOptions`:
a handler that was called is not abandoned in the middle of its loop. `RxWindows`
has it on `Elapse`, time passes, and on `Event`, a radio or a timer whose time
has come reports. `DownlinkCounter` and `BackoffDay` have no liveness property
and no fairness.

## Findings

Each run checks one statement of the repository and TLC's shortest counterexample
shows what the code does instead.

| run | the code | where |
|---|---|---|
| `find_release_by_refused` | a refused data request releases the MAC another exchange holds | mcps.c:317 |
| `find_unexpected_timeout` | a data request refused with ENOTCONN while a join request is on the air unlocks the MAC; the device is activated by personalisation, and a data request made while the timer of the join's first window runs is accepted. That timer fires while the new frame is on the air and opens a window in TX, whose timeout reaches `assert(false)` | gnrc_lorawan.c:152, mcps.c:317 |
| `find_join_data_confirm` | a failed join also yields a successful data confirm and a counter increment | gnrc_lorawan.c:147 |
| `find_budget_lock` | a join refused with EDQUOT leaves the MAC locked; only a data request that is refused in its turn unlocks it | mlme.c:231 |
| `find_lost_confirm` | a frame of another type ends the exchange without any confirm (a join accept in a data exchange does so too, with an MLME confirm only) | gnrc_lorawan.c:220 |

More is visible in properties that hold, because they state the exception:

- A confirmed uplink waits for its retransmission and is retransmitted with the
  MAC unlocked (`LockedInFlight` in `ExchangeInv`; gnrc_lorawan.c:149, 224, 236).
- The last join of a period may overrun its budget, which is compared with zero
  before the join and charged after it (`OverrunOnce`; mlme.c:229).
- The carry of `fcnt_stol` is 0xFFFF: after a wrap the counter is one less than
  the sender's, and until the next frame a frame once accepted can be accepted
  again (`InStep`, `NeverFarBack`; mcps.c:48). A repeated downlink is accepted in
  any case, for an equal counter passes (`AcceptsExactly`; mcps.c:82).
- A reset sets `fcnt` to 0 and keeps the keys: a personalised session behind it
  repeats counters, and with them key stream. `OneFramePerFcnt` says that this is
  the only way: its first half is about the time between two resets, its second,
  for sessions by join, about the time between two accepts (mcps.c:205).
- The MIC of a downlink covers 16 bits of its counter, that of an uplink all of
  them: of a server that covers all of them no frame behind the first wrap is
  accepted (`wide` in `AcceptsExactly`; mcps.c:37, 224).
- A join without a reset carries the old downlink counter into the new session
  (`clean` in `InStep`; mlme.c:133).
- A join that fails leaves the AppKey in the buffer of the application session
  key; a session by personalisation begun then uses it, beside the network session
  key of the session before (`KeysPaired`; mlme.c:233).
- A hole in the channel list keeps `_get_nth_channel` looping (`SearchEnds`;
  region.c:57), and an accept without a CFList sets channels from bytes nobody
  wrote, those of a CFList and no others (`OnGrantedChannel`; mlme.c:103).
- At DR0 the first window outlasts a second: the timer of the second opens the
  first anew, and the second opens late (`OpensOnTime`) or, with a driver that
  begins anew each time, never (`ExchangeEnds`; gnrc_lorawan.c:114).
- A reset keeps the offset of the first window: behind a personalised uplink or a
  join request the radio listens at another rate than the network's exactly if
  the last accept gave an offset and the rate can be lowered (`FirstWindowRate`;
  gnrc_lorawan.c:80).
- A payload of two non-empty parts is laid out with a gap (`LaidOut`; mcps.c:219).
- Bytes behind a link check answer are taken for more answers, and an answer
  behind another command is missed (`OptionsRead`; mlme.c:296).

And met while modelling, without a property: the type of a data indication is the
flag `ack_req`, 1 where `MCPS_CONFIRMED` is 0 (mcps.c:173; `IndicationType` in
`GnrcLorawan`); a reset does not stop the retransmission timer, so that an empty
frame is sent afterwards (gnrc_lorawan.c:75); a link check asked for after the
uplink was built is reported timed out at its end (mlme.c:327).

## Proofs

Assumed are the named assumptions on the constants alone: counter widths that
divide each other, `Frames` a set of frames, `RETX` a natural number, times that
fit in five bits, a channel on which a late frame and a wrapped one differ,
settings within their bits, sizes that are numbers. TLC evaluates them on the instances.

**For every upper layer and network** (`MacClient_proofs`; `Disturbances` is any
set): `TypeCorrect` gives the types, `-1 <= nb_trials <= RETX` among them, by one
step per action; a lemma per handler (`McpsEventType`, ...) keeps the case
analysis short. `RadioCorrect` is inductive with the types.
`FcntDownNeverBack` is a property of steps: only a frame whose extended counter
is in the window writes `fcnt_down`. `LinkCheckCorrect` relates the flag to what
the upper layer was told.

**For an upper layer that waits** (`Exchange_proofs`), whatever frames the network
sends (`Disturbances \subseteq {"foreign_frames"}`): none of the exchange properties
is inductive alone. That the timer of a retransmission never fires in a later
exchange needs that nothing is accepted while one is owed a confirm; that the
counter is new needs that the frame in `tx_buf` is older once its exchange has
ended. `ExchangeInv` is their conjunction in named parts: `PhyMatchesState`,
`OneExchange`, `FrameOfExchange`, `RetriesAccounted`, `LockedInFlight`. It says
that what is in flight is owed a confirm, not the converse, for a foreign frame
ends an exchange without one. `ExchangeCorrect` proves it, with one lemma per
group of actions. From it follow:

- `NoUnexpectedTimeout`, and `RetriesAddUp` and `LockedUnlessResent`, which name two
  of its parts;
- `Refinement`: every step of the MAC is a step of `DataService` or a stutter, the
  safety half of the refinement;
- `ClassARefinement`: the same for `ClassA`. That a transmission begins in phase
  "idle" only, and that no window is opened in TX, needs the invariant;
- `ExchangeBounded`: an exchange ends within `6 * RETX + 5` reports. `EventsLeft` is
  a rank: the place in the transmission, plus six for each retransmission left.
  That a retransmission lowers it needs that one is left exactly when the timer
  was set for it.

`FcntNotReused` holds for more: resets in flight are allowed too, only overlapping
requests are not. Its invariant (`FreshInv`) relates `fcnt` and the frame in
`tx_buf` to `used` and `spent`. A reset sets `used` and `fcnt` to 0 together, and the
session ends with it, so that `spent` binds only the session of the next accept,
which sets it to 0. That a join leaves `fcnt` alone does no harm: the counters of a
new session begin where those of the last one ended, or at 0.

**For an upper layer that waits and a network that answers in kind**
(`Disturbances = {}`) the invariant becomes an equivalence: `NoSilentEnd`, nothing
in flight means that nothing is owed, and with it `NoStrandedExchange`,
`ConfirmsMatch` and `JoinConfirmsMatch`.

The run `mac_patient` has `Disturbances = {}`; what is proved with foreign frames it
shows without them. The conditions are needed. TLC finds a violation, with RETX = 1, as soon as more is
allowed: overlapping requests break every exchange property
(`find_release_by_refused` and `find_unexpected_timeout` are two of them), a reset in
flight every one but `OneFramePerFcnt`, and a foreign frame those of the last
group (`find_lost_confirm`). The other findings occur without any disturbance.

**The backoff** (`BackoffDay_proofs`), for every length of the periods that fits
in five bits, every budget and time on air. `OverrunCorrect`: a join that
overruns the budget makes it negative, and only a grant makes it positive again;
so one join overruns it, and by no more than a join can take on the air. That bound, on
the sum over a period, is not inductive: it needs `BudgetAddsUp` (`SpentInv`,
`SpentStep`).
The calendar needs `StateOnTime`, that the byte holds the phase and the hours
left of the calendar at every hour, and `BudgetAddsUp`; both are inductive once
`NextHour` has shown how the calendar's own functions go on from one hour to the
next, which in the last period is a fact about remainders (`NextRemainder`).
`CalendarRefinement` is the full refinement, `BackoffDay` having no liveness.

`TypeCorrect` gives its types.

**The downlink counter** (`DownlinkCounter_proofs`, on lemmas about remainders in
`Remainders`), for every width, gap and bound that satisfies `ChannelAssumption`.
`InStepCorrect` is inductive with the types and with `sent <= heard +
MAX_FCNT_GAP`: the frame that is accepted lies within the gap on one side and
within `MaxLate` on the other, so that its lower half and the device's counter
determine its upper half, but for the carry. `AcceptsCorrect` is the same
argument for all frames in the air at once; `NotFarBack` follows.

**Joins and channels** (`JoinSession_proofs`), for every region, set of CFLists
and number of accepts. `KeysCorrect` needs that a joined device keeps the buffers
its accept wrote: only a join request writes `appskey` between sessions, and none
is accepted in one. `PairCorrect` follows the two buffers through joins that
fail: they are out of step only while one of them holds the AppKey.
`SearchCorrect` needs that the number asked for is at most the number of used
channels, of which the search has passed `i`: a search that has
something left to find is within the list, a fact about cardinalities
(`FiniteSetTheorems`); and as a used channel is left to find, an unused entry
under the search is a hole. `GrantedCorrect` needs that every used channel is granted
or at an index of a CFList that was not sent.

**The windows** (`RxWindows_proofs`), for every choice of rates, settings, delays
and times. The invariant has a part for the phases of the radio (`PhaseInv`), for
the settings (`SessionInv`), for the rate ahead (`RateInv`), for the offset a device
keeps (`OffsetInv`, on which `FirstWindowCorrect` rests) and for the clock
(`ClockInv`): time since the uplink plus time left on the timer is when the next
window opens, exactly as long as the first window is short and caught no frame.
`ClassARefinement` needs `PhaseInv` alone: a first window that outlasts its timer, a
reset or a MIB call in a window never lets the device leave the order of class A.
`AlwaysAhead` and `OpensOnce` rest on `WindowInv`, which needs no agreement on
settings: a timer or the radio always has something to report, and the timer
fires in an open window only if that is long or holds the network's frame. They
are the safety half of `ExchangeEnds`.

**Frames** (`FrameBuffer_proofs`), for every payload and every cut. `CopyInv` says
that the loop is in place as long as nothing was copied before the last part;
that the wrap at 256 puts nothing right again is the lemma `Wrap`, which needs
the size test. `BlocksRight` is the table against the formula, rate by rate.
`OptionsBounded` is the safety half of `OptionsEnd`: an answer cut short ends the
loop, any other turn moves the index on within the options.

**Model-checked only.** What needs fairness is beyond the prover: the liveness
half of the refinement (`ImplementsFairService`), `JoinAnswered`, `SearchEnds`,
`ExchangeEnds` and `OptionsEnd`. Every other property of a passing run is proved,
and so are the ranks and guards these rest on: see [fairness](#fairness).

## Not modelled

The contents of frames beyond what the handlers branch on; the arithmetic of the
cipher blocks, AES and CMAC (the latter two are in RIOT, outside the repository);
the frequency of the second window, sync word, coding rate and IQ inversion,
which are constants; the random delay before a join request, during which the
library blocks. MLME_GET changes no state. `gnrc_lorawan_perform_save` and
`shutdown_req` are declared and nowhere used. The radio driver, the timer, the
upper layer and the network are external, modelled from how the library uses
them: they are assumed to call it from one thread, to report only what they were
set to do, and to make no request from within a callback; within one handler the
order of its writes and its callbacks is therefore seen only where a value is
read after it was written. A retransmission takes the rate from `last_dr`, which a
request in the unlocked gap before it may have changed (gnrc_lorawan.c:235): the
upper layer of `RxWindows` makes none there, and `GnrcLorawan`, which has it, leaves
the rates out.
