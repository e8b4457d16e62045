# Little Wind Tunnel: TLA+ models, checks and proofs

The repository is the firmware of a small wind tunnel that floats a ball at a
chosen height (an NXP MCXA156 board under RT-Thread: a laser range sensor at
the top, a fan at the bottom, a Wi-Fi module), with the PC programs that talk to
it: a WebSocket proxy with a web page, and a script that searches for PID gains.
This directory models it in TLA+, checks the models with TLC and proves the most
important safety properties with TLAPS. Paths below are relative to the
repository, `applications/` unless they start elsewhere.

## 1. Inventory

| Component | State it keeps | Operations | Talks to |
|---|---|---|---|
| Start-up and control loop, `main.c` 141-238 | `current_height`, `target_height`, `ramped_height`, `KP KI KD`, `integral_error`, `previous_error`, `ff_table` | fan and sensor set-up, then one 20 ms cycle: read, ramp, gains, PID, clip, anti-windup, set the fan | reads the sensor, calls the fan driver; shares every global with the commands |
| Shell commands, `main.c` 240-350 | `is_evaluating`, `total_abs_error` and the globals above | `pid_tune`, `pid_eval`, `get_status` | run in the FinSH thread; `pid_tune` and the status also in the server's thread |
| Remote server, `remote/remote.c` | `server_thread`, the listening and the client socket, one 128-byte buffer | `remote_start`, accept, receive, dispatch, reply | TCP clients; calls `pid_tune`, reads the globals |
| WebSocket proxy, `remote/websocket_proxy.py` | sets of clients, one TCP connection to the board, the poll tasks | reconnect, poll the status, forward commands, broadcast | the server over TCP, web pages over WebSocket |
| Web page, `HTML/` | the form, the charts | send command lines, draw status | the proxy |
| Tuning script, `test/evaluate.py` | the serial port, the best gains | set gains, evaluate, reset | the FinSH shell over a serial line |
| Fan driver, `fan/` | PWM device, period and pulse, duty | init, `set_speed`, and a shell command that calls it | the PWM device; called by the loop and the shell |
| OLED, `OLED/screen.c` | nothing shared | draw height and target each 500 ms | reads two globals |
| Wi-Fi start-up, `drv_rw007.c` | pins, SPI bus | a fixed sequence at boot | external driver package |
| Drivers, `Libraries/drivers`, `board/` | device registers | pin, PWM, SPI, I2C, UART, ADC, flash, watchdog, delays | RT-Thread's device framework |
| RT-Thread, `rt-thread-5.2.1/` | vendored kernel: tick, timer list, ready queues, thread states | threads, delays, sockets, shell | everything |
| Board, `board/board.c` | the SysTick counter | tick interrupt, busy wait | the kernel's clock; the sensor's bit-banged bus |
| Earlier versions, `test/temp.c`, `test/util.*`, `test/remote.py` | - | not built; a one-request client | the server |

### What is hard in it

*Control loop and commands.* Main (priority 10), the LED and screen threads
(11), the server (12) and FinSH (20) share the globals with no lock. The loop
preempts a command between any two of its stores, and the server's `pid_tune`
preempts the shell's. A command is many stores: a low target is stored before it
is clamped, a table row changes field by field, `pid_eval` resets three
variables, raises a flag, sleeps, drops the flag and prints. The PID arithmetic
has its own corners: a target that moves while the ramp is under way, by more or
less than a step; tables a user may have left unsorted; outputs far outside the
fan's range on either side; an integral that must not run away. Correct means:
the fan is only asked for speeds its driver accepts; the setpoint walks towards
the current target and arrives; low targets are clamped; the gains are those of
the setpoint; an evaluation counts exactly its cycles; the integral is bounded;
commands finish.

*Remote server.* TCP is a byte stream, the server treats what one `recv` returns
as one command. One client is served at a time, the rest wait; sockets fail at
any call. Correct means: every line a client sent is executed once, in order,
and answered; no waiting client is forgotten; the server can be started whenever
it does not run.

*Proxy.* Reconnects start pollers, pages come and go while a broadcast awaits its
sends, a failed send abandons the connection, and pollers and commands share that
connection with a server that wants one line per packet. Correct means: what is
written goes to the connection that is read; somebody always polls; pages see
statuses in order; the connection relied on is one the board serves.

*Tuning script.* Its gains compete with the loop's gain schedule, its timeout
with the end of an evaluation, its commands with one another in a receive ring of
64 bytes that overwrites its oldest while an evaluation keeps the shell from
reading. Correct means: a trial is scored with its own gains and its own result.

*Fan driver.* The loop and a shell command store the pulse and set the registers
concurrently; the speed-to-duty conversion rounds once, in single precision, and
truncates twice. Start-up enables a
default pulse before it stops the fan, and may find no fan or no sensor. Correct
means: the fan turns at the speed accepted last.

*Delays.* Every thread waits with `rt_thread_mdelay`: it suspends itself, starts
a timer, unlocks the scheduler and gives up the processor in separate regions,
and the tick it waits for can fall between any two of them. The timer list is sorted on a tick
that wraps, one tick may wake several threads, each with a rescheduling inside
the interrupt. The sensor's bus waits with a busy loop on the counter the tick
comes from, which reloads under it and which preemption hides. Correct means: a
delay ends with its tick, neither lost nor early; the highest ready thread runs.

`PROJECT.json` lists the hazards one by one, each at its line, with the
properties that would catch it.

## 2. Modules

| Module | Role |
|---|---|
| `ControlLaw` | the loop's arithmetic as operators: table lookup, ramp, PID sum, clipping, anti-windup |
| `WindTunnel` | the globals, the control loop, `pid_tune` and `pid_eval` of two threads: the core |
| `SetpointRamp` | abstract specification: what the setpoint promises |
| `FanDriver` | the fan's driver, the PWM registers and the shell's `set_speed`, composed with `WindTunnel` |
| `AntiWindup` | bounds on the users' inputs and the limit of the integral under them |
| `RemoteServer` | `remote_start` and the server thread, its clients and the byte streams between |
| `CommandChannel` | abstract specification: what a remote user expects of a connection |
| `StatusProxy` | the proxy's tasks, composed with `RemoteServer` as the board |
| `EvalTuner` | the tuning script and the serial line, composed with `WindTunnel` as the board |
| `Sleeping` | abstract specification: what a delay promises each thread |
| `ThreadDelay` | `rt_thread_mdelay`, the timer list, the tick and the scheduler of the kernel |
| `UsDelay` | the busy wait `rt_hw_us_delay` and the counter it reads |
| `BoardTime` | both on one counter: its interrupt is the tick, the scheduler decides who polls |
| `MC...` | constants of the checked instances |
| `WindTunnelProofs`, `FanDriverProofs`, `AntiWindupProofs`, `BoardTimeProofs`, `RemoteServerProofs`, `StatusProxyProofs`, `EvalTunerProofs` | theorems; `ExtremePositions` has lemmas several of them share |

A definition named `...Mutant` is the operator after it with one plausible
mistake; `PROJECT.json` names, for every property, the mutant that it catches.

### How the models correspond to the code

*Numbers.* The code computes in single-precision floats. The models use integers
in a fixed-point unit per quantity; the loop's one division (interpolation)
rounds down. No property of the loop depends on that: the proofs use only that a
lookup lies between two rows. The fan's duty does depend on rounding, and
`FanDriver` has it: `Rounded` is the single-precision product of period and speed
(nearest, ties to even, in the unit the product's size leaves), `PulseOf` and
`DutyOf` its two truncations. NaN, infinities, float overflow and the decimal
conversion of a typed number are outside the models.

*WindTunnel.* Variables carry the names of the globals. `ControlCycle(height)` is
one pass of the loop body (main.c:193-233) from the return of the sensor read to
the delay; nothing in it blocks and no thread is above main, so it is one action.
`ReadFails` and `ReadTooHigh` are its two early `continue`s, `Wake` the end of
the delay. A command is one action per store or test of a global, because main's
timer can preempt it between any two: `todo[t]` is the rest of the command line
of thread `t`, `pc[t]` the place in its first option. `Scheduled(t)` is the
priority rule: a command thread moves only while main is blocked, FinSH only
while the server's thread runs no command. Main is blocked in its delay and, if
`ReadBlocks`, in the sensor driver, which is a package outside the repository;
the runs use both values. `fan_speed` is the argument of the last
`ys4028b12h_set_speed`. `window_sum` is a history variable. The model starts at
power-up: `StartFan` (main.c:165-171) sets the fan up and stops it, then the
sensor is there and `EnterLoop` loads the gains, or it is not and `main` returns
(`SensorMissing`), with the command threads alive. Commands may run between these
steps; `AfterOpening` says which ends of opening the sensor an instance has. The
LED and screen threads only read. Left out:
`pid_tune -ff`, `get_status` and a `pid_tune` without arguments, which only
print; an option without its value, for which the code reads past the arguments.

*FanDriver.* `CycleSets` is a control cycle together with the request it ends in,
one action because nothing preempts main there. The shell's `set_speed` is more:
`SetSpeed` stores the shared pulse, `Program` computes the duty cycle from it,
`WriteEdge` writes the value register of one edge of the pulse (drv_pwm.c:81 and
82 each write both, so it happens four times), `Load` sets the bit that makes the
hardware take them. `value` and `duty` are the duty cycle at the last two stages,
edge by edge, in percent; the SDK's own conversion to counter values is outside
the repository, and a load is taken to act at once rather than at the end of the
PWM period. `Program` uses the pulse of its own call or the one now in the
configuration, as the compiler may keep it or read it again. `commanded` and
`cut` are history: the speed accepted last, and those of the cycles that fell
into the last `set_speed`. Such cycles may lose to it, and may leave the two
edges of the pulse at different speeds until the next cycle. `set_speed` is typed
with a number: without one it reads past its arguments.

*ThreadDelay.* An action of a thread is a region with interrupts off:
`EnterCritical`, `Suspend`, `StartTimer`, `ExitCritical`, which only unlocks, and
`GiveWay`, the `rt_schedule` that `rt_exit_critical` calls after it has enabled
interrupts again. In between the scheduler is unlocked under a thread that may be
suspended, and a tick may fall; `HighestRuns` excepts just that place. `sched` is
the scheduler as a record, so that `Insert` (`rt_sched_insert_thread`) and
`Reschedule` (`rt_schedule`) are functions on it and `SysTick` can fold them over
the timers that are due, in order. The per-priority queues are one sequence, of
which only the order within a priority is ever used. Any tick may end the running
thread's time slice. `rt_thread_mdelay` converts at 1000 ticks a second, so the
durations are ticks. Left out: the error number (nothing here reads it), software
timers, other ways to block.

*UsDelay.* `Count` is the hardware; `Call` and `Poll` the function, a poll that
reads an unchanged counter being a stutter. `owed` is history: counts that must
still pass. In `BoardTime` the counter reaching 0 is the tick interrupt, and a
thread polls only when it is the current one.

*RemoteServer.* A stream is a sequence of words and line ends. `Takes` says what
a `recv` may return (whole lines or a full buffer, or anything with `Cuts`),
`FirstLine` and `Argv` are the code's cut at the first line end and its split
into at most eight words, `Kind` and `Reply` the dispatch. Setting the socket
up, accepting, receiving and sending may each fail. `peer` is the connection as
its client sees it. `Connect`, `ClientSends`, `ClientCloses` are the clients,
external to this component. `Window` is how far ahead of the replies each client
writes; those in `Relying` write one line at a time, as the two properties that
promise delivery demand.

*StatusProxy.* The script is cooperative: an action runs from one `await` to the
next. `manager` names the await the connection manager is at, `tcp_writer` is the
global, `opened` the connections in order, `pollers[c]` the poller started with
connection `c` (asleep, in `drain` on a connection, ended). `Proceed` is the loop
over complete messages up to the next broadcast. The sends of one broadcast start
together, as asyncio starts gathered tasks in one round; pages may have left by
then. The set `clients` is the pages that are open: entries of closed pages are
filtered where the set is used. Statuses are named by connection and number; a
cut one left in the buffer may spoil the next connection's first. `Collects`
says whether the interpreter closes a connection the script has forgotten.

*EvalTuner.* `script` is the place in the script, from opening the port to closing
it. What it sends goes into the board's receive ring, `serial`, where it waits
until the shell has returned from the command before. `Received` is the interrupt
handler's `rt_ringbuffer_put_force` at the level of commands: the ring keeps the
latest whole lines of its 64 bytes (`Bytes` has the length of each line), and a
line that has lost its head is no command the shell knows. `Slept` is what
`send_cmd`'s sleeps achieve: the board is through with a line before the next is
sent, unless it runs `pid_eval`, or a failing sensor that does not block starves
the shell. A trial is a profile and the gains the optimizer picks, `Trials` the
sequence of them. A result may be unreadable (`Garbled`), a read or a write may
raise, and the script gives up after 35 s where an evaluation takes 30: on a
result that got lost, or on one that is late because the board was behind
(`GiveUp`). `Finish` is what follows a score: the next trial, the end of a profile
with its best trial, or, if the first trial of a profile fails, the next profile.
A write that raises takes the script straight to its `finally`. `Save` may also
leave the file empty. `results` and `saved` name trials instead of their gains.
`hurried` is history: the trials one of whose commands was sent before the board
was through with what came before it; so is `settled`, that nothing was left to
ramp when the trial's gains were read. Left out: a line whose head the shell has
taken before the ring loses the rest, and a write that is cut short.

## 3. Runs

All use the CONSTANTS of their `.cfg`; times are about two minutes or less.

| Run | Checks | Shows |
|---|---|---|
| `tune` | `RampSafety`, `RampRefined`, `CommandsFinish`, `SpeedAccepted`, `LowTargetIsTransient`, `GainsTrackSetpoint` | both threads store targets, low ones among them, the shell evaluates and rewrites a table row, while the loop preempts them; under fairness the ramp arrives and commands end |
| `set_speed` | `FanTypeOK`, `FanObeys` | with and without fan and sensor, the shell types speeds while cycles fall between the stores and register writes; a product that rounds up across a percent |
| `windup` | `TypeOK`, `EvaluationExact`, `IntegralBounded` | `pid_eval`, targets, gains and an unknown option against lasting disturbances in both directions; a sensor that is missing |
| `waits` | `TypeOK`, `RepliesMatch`, `NothingLost`, `TunesInOrder`, `ChannelSafety` | a client that waits for replies beside one that writes ahead into a buffer that cuts lines, every call failing |
| `lost` | `NothingLost`, violated | a client that relies on commands it writes ahead |
| `restart` | `AlreadyRunning`, violated | a server that could not start blocks the next start |
| `relay` | `ProxyTypeOK`, `WriterIsRead`, `Polled`, `ShownInOrder` | proxy and server, two connections, two pages |
| `served` | `Served` | liveness of proxy and server where forgotten connections are closed |
| `stalled` | `Served`, violated | and where they are not |
| `trials` | `TestsItsGains`, `ScoreIsOwn`, `SavedWasMeasured` | a profile of one trial and one of two, further apart than a step; results garbled, late and lost, the port failing, commands overwritten in the ring |
| `ramping` | `AlwaysTestsItsGains`, violated | the first trial at another height |
| `delay` | `DelayTypeOK`, `HighestRuns`, `NeverEarly`, `DelaysExactly`, `Wakes` | sleeping and busy-waiting threads of two priorities on one counter |

`RampSafety` and `RampRefined` are `WindTunnel` implementing `SetpointRamp` (the
first its safety part); `ChannelSafety` is `RemoteServer` implementing
`CommandChannel`; `DelaysExactly` is `ThreadDelay` implementing `Sleeping`, in
which each thread has a countdown of its own and no tick ever wraps.

### Bounds and why they are enough

* Three gain rows and three feedforward rows, all with values of their own: below,
  at, between and above rows all occur; `-ff_set` makes the table unsorted.
  A ramp step is two units, so that targets can move by less than a step and the
  ramp can end with a full step or a shorter one. Heights on both sides of every
  target make errors of both signs.
* `MaxIntegral` and `MaxTotal` stop the loop from starting a cycle from a larger
  integral, or from going on in an evaluation that has a larger total; a cycle's
  outcome itself is never cut. In `windup` the limit on the integral is 12 and
  `MaxIntegral` 20, so the bound is never what keeps the integral small, and the
  broken variant without anti-windup passes the limit. `tune` reaches no integral
  beyond its bound.
* `FullSpeed` is 1 to 3 units, `set_speed` apart: outputs are clipped on both sides
  within a cycle or two.
* `set_speed` has the fan's real period, 40000, on a scale of 2^15 speeds with
  products rounded to 16 bits: 24 bits, scaled down to what TLC's integers hold.
  One typed speed is out of range. The other is 65% cut off to the scale: its
  exact product is below 65% of the period and the rounded one is not.
* `MaxSent` lines per connection: three, with `RecvRoom` 5, fill the buffer so
  that it cuts a line. `Backlog` 1 makes a second client wait.
* Two connections show a reconnect and everything one leaves behind for the next.
  In `relay` each carries two lines, so that statuses are left over in the buffer
  when a broadcast fails. Symmetry over connections and pages is used in that run
  only, which has no temporal property.
* Two profiles of one and two trials: first trials, which decide whether their
  profile is skipped, a later one, and a profile after a skipped one. In `trials`
  the heights are 6 and 10 with a step of 2, so that the first trial of the second
  profile ramps and the one after it may not. The ring has its real size and the
  lines their real lengths: gains and a target do not fit together.
* `delay`: ticks of three bits, so that the tick wraps while timers run and the
  delays (1 and 2 ticks) are all that half its range admits; main above two
  threads of one priority, so that time slices and the order of a queue count; a
  counter of three states and busy waits of less and more than its turn.
* `CHECK_DEADLOCK FALSE` is set for `EvalTuner` alone: the script ends.

### Fairness

`WindTunnel!Fairness`: the timer wakes main (WF); the sensor, however often it
fails, goes on delivering usable readings (WF on the only step that takes main
from reading to its delay); a command thread that is ready again and again moves
(SF): main leaves it most of every 20 ms, and the server's thread does not keep
FinSH out for ever because it waits for its client between commands. If a failing
read does not block, the loop spins without its delay and starves every thread
below; the fairness excludes a sensor that fails for ever.
`StatusProxy!ProxyFairness`: the board's thread and the script's loop run when
they can, a page takes what it is sent or leaves, `Collect` happens if it can.
Nothing is assumed of connecting, polling or users.
`BoardTime!FairBoard`: the counter counts, and the processor goes on with a call
that is under way; neither the scheduler's choice nor anybody's calling is
assumed fair. `WindTunnel!Fairness` also has main's start-up go on (WF), as
nothing outranks it.

## 4. Proofs

Checked by TLAPS (`tlapm <module>.tla`), for all values of the constants under
the named assumptions (`ConstantsAssumption`, `TablesAssumption`,
`CommandsAssumption`: integers, non-empty tables, gain rows sorted, command lines
that are lists of options; `BoundsAssumption` for the integral):

* `TypeCorrect` (`WindTunnelProofs`): `Spec => []TypeOK`, one step per action.
  The cycle rests on lemmas about `ControlLaw`: a lookup in a non-empty table,
  sorted or not, divides by no zero and lies between the values of two rows
  (`LookupBetweenRows`); a ramp step moves towards the target by at most a step
  and not past it; clipping is into the fan's range.
* `SpeedIsAccepted`, `LowTargetIsClamped`, `ImplementsRamp` (`WindTunnelProofs`):
  with `TypeOK` each is inductive or holds step by step. The low target needs the
  disjunction over both threads: one thread's clamp test may be what is left when
  the other has stored.
* `EvaluationIsExact`: inductive only together with `EvaluationInv`, that the flag
  is up just between two places of `pid_eval`, and that the total is zero at the
  place before the flag is raised.
* `ScheduleIsFollowed` is `GainsTrackSetpoint` under `SpacedTargets`: no gains set
  by hand, targets (and the minimum, which replaces low ones) more than a step
  apart. Where the initial target is does not matter. `TrackInv` says when the
  gains may differ from the setpoint's own: after a snap of at most a step, and
  then the setpoint is at one of these targets, so that no other is close enough
  for a second snap.
* `IntegralIsBounded` (`AntiWindupProofs`): `MinKi * |integral| <= FullSpeed +
  3 * MaxGain * Ceiling`. The invariant `WindupInv` adds that everything the
  output is computed from is in bounds, gains and options still to be executed
  included. If the output was not clipped, `KI * integral` differs from a value in
  the fan's range by at most the other three terms (feedforward, proportional,
  derivative); if it was, the integral is what it was before the cycle. A gain
  change under a large integral does no harm because the limit is stated with
  the smallest `KI`. With `KI = 0`, which `pid_tune -i 0` sets, the code has no
  limit: the integral then does not show in the output that is tested.
* `FirmwareImplements` (`FanDriverProofs`): every step of `FanDriver` is a step of
  `WindTunnel` or leaves its variables alone, so the theorems above hold of the
  firmware with its fan (`FirmwareIsSafe`). `FanIsObedient` is about the fan itself, with the
  rounding of single precision: at rest the pins have the speed accepted last, to
  less than a percent. `RoundedIs`, `PulseIs` and `DutyShows` bound the rounded
  product, the pulse and the duty cycle (a product may be rounded up to a whole
  percent, never past one), for a scale of speeds that is a power of two and a
  period that is a multiple of 100 ns and itself a float (`FanAssumption`).
  `FanInv` adds what holds while a `set_speed` is under way: pulse and value
  registers, edge by edge, are those of the typed speed or of a cycle that cut in
  (`UnderWay`), and nothing is accepted without a device (`NoDevice`).
  `FanTypeCorrect` needs none of it.
* `UsDelayNeverEarly` and `BoardNeverEarly` (`BoardTimeProofs`): inductive with
  `Measured`, that what was counted plus what the next poll will read never
  exceeds what has passed. `UsAssumption` is that the product of microseconds and
  reload value leaves a turn of the counter to 2^32. At 150 MHz that admits 28 ms;
  the bus asks for 5 and 10 microseconds.
* `DelayTypeCorrect`, `HighestAlwaysRuns` and `KernelKeepsPromise`
  (`BoardTimeProofs`), for any threads, priorities and width of the tick, under
  `DelayAssumption`, the window between unlocking and rescheduling included.
  `HighestRuns` excepts that one place of the running thread's own call
  (`GivingWay`). `KernelInv` adds to the two properties that the ready queue
  and the threads' states agree (`SchedOK`), where each thread is in its delay
  (`InCall`), and `TimersOK`: a suspended thread has just one timer once it is
  started, no timer is overdue or a full half of the tick's range ahead, and the
  list is sorted by what is left, whichever side of a wrap each timeout lies.
  Hence the timers that are due are a prefix of the list, and `SysTick` ends those
  delays and no others. The loop over them, `Resumed`, is a recursive function;
  what it computes is shown without induction over data, by taking the least
  number of timers at which it would go wrong. `KernelKeepsPromise` is the
  refinement of `Sleeping`: a thread's countdown is what its timer has left.
* `ServerTypeCorrect` (`RemoteServerProofs`) needs `Placed`, that a connection is
  idle, once in the backlog or served, and that no server runs without its handle.
* `WaitingHasChannel`, `WaitingLosesNothing` and `WaitingRepliesMatch` assume
  `Waiting`: whole lines, and a window of one for the clients in `Relying`, the
  others sending as they like. The invariant `LineByLine`: such a client's last
  line is answered, or alone and whole in the stream (`OnItsWay`), and while its
  connection is not closed it has as many replies as executed lines, which is
  what lets it write again only when the stream is empty. `WholeLineIs` shows
  that such a line is then taken whole and split as written, for every buffer
  that holds it (`LinesAssumption`).
* `WriterAlwaysRead` and `AlwaysPolled` (`StatusProxyProofs`): the invariant
  `ProxyInv` says that the writer is the newest connection or none, and
  `ReaderPolled` that the poller started with that connection sleeps or drains on
  it while it lives. A poller that another one's connection has ended is what
  makes `Polled` not inductive alone: it is the newest poller that never ends
  early, and only a newer connection makes it drain elsewhere.
* `ScoresAreOwn` and `SavedAreMeasured` (`EvalTunerProofs`), for every list of
  trials `TunerAssumption` allows, and every ring. `LineInv` has three parts.
  `BoardInv` places the shell within a line of the script's. `InStep` is how far
  the board is with a trial that has found it at rest so far: at most one line is
  on the way, the one sent last, and no result but the trial's own is to come.
  `Coming` is about evaluations still to run, below. `ScoresInv` holds what was
  noted: `FirstHeld`, that past its first trial a profile has one that succeeded,
  which is why its best did not fail, and `Kept`, that bests are of trials behind
  the current one. `ProfilesAscend` shows that a profile's trials are next to one
  another.
* `TestsOwnGains` (`EvalTunerProofs`) is `TestsItsGains` for any heights, any ring
  and any failures. `ramping` shows why the property speaks of gains that were
  read when the ramp had settled, and section 5 why of trials not in `hurried`.
  `Coming` says that the evaluation of such a trial, also of one the script has
  given up, is first in the ring with the shell free, or the shell runs it, and
  that either way the gains in use are the trial's (`Ready`): what other trials
  send comes in behind it, and if the ring drops it, it is not run. `ReceivedIs`
  is what the ring keeps; `CycleKeepsReach`, that a ramp with nothing left to do
  only snaps, so that the loop loads no gains.
* `ProxyTypeCorrect` and `AlwaysInOrder` (`StatusProxyProofs`), for any number of
  connections, lines and pages. `OrderInv`: what was read came over connections
  that were opened, each once; what each page was shown and what the buffer holds
  are both in order, and all that was shown is earlier than all that is still to
  be sent. `Begun` counts the status a broadcast is under way with, which some
  pages have and others do not. A connection that ends leaves statuses in the
  buffer: they go out before those of the next one, which are later.
* `TunesAlwaysInOrder` (`RemoteServerProofs`) is `TunesInOrder` for clients that
  write ahead as they like, under `WholeTunes`: the network cuts no line and
  `pid_tune` is only ever a first word. Cut by the network, a line could be run
  piece by piece, and a piece is then no line that was sent. A full buffer still
  cuts lines and discards what it took; `Follows` places each word still in the
  stream in a sent line, with the rest of that line behind it, and `StreamsInv`
  that the tunes executed are sent lines, in order, before all that begin in the
  stream.

Only model-checked is what the prover cannot express, liveness: `RampRefined`
beyond its safety part, `CommandsFinish`, `Served` and `Wakes`. The properties of
the runs that expect a violation are refuted by TLC, not proved. `GainsTrackSetpoint`,
`NothingLost`, `RepliesMatch` and `TunesInOrder` are proved under the assumptions
named with them.

## 5. Where code and documents disagree

Each has a run that ends in a counterexample; `PROJECT.json` has the quotes.

1. `lost`: of two lines that arrive together the server executes one
   (remote.c:84). The proxy writes that way: polls and commands share its link.
2. `restart`: a server thread that fails to set its socket up is gone, but every
   later `remote_start` says it runs and starts nothing (remote.c:162).
3. `stalled`: a page that closes in the middle of a broadcast can cut the proxy
   off from the board for good (websocket_proxy.py:64).
4. `ramping`: the first trial of every profile is scored with the schedule's
   gains (evaluate.py:171 against main.c:200-203).

Noticed on the way, without a run of its own:

* The branch that snaps the setpoint to a target within a step (main.c:205) does
  not update the gains; targets nudged by a step or less at a time drift away
  from them. `GainsTrackSetpoint` is stated, and checked, for spaced targets.
* A cycle between the store of a low target and its clamp (main.c:292-295) tracks
  the unclamped value; `LowTargetIsTransient` says that this passes.
* The proxy's pollers survive their connection, so each reconnect adds one
  (websocket_proxy.py:30), against one request per 100 ms in 实践报告.md:385.
* After an error on the serial port the script starts the next trial while the
  board still evaluates the last (evaluate.py:181-183). That trial takes the old
  result; or, as its commands wait in a ring too small for them, its target
  drives the head of its gains line out (dev_serial.c:1463-1468) and it is scored
  with the gains of another trial. This is why `ScoreIsOwn` and `TestsItsGains`
  leave out the trials in `hurried`: without that both are false of the model.
* `accept` may fail for good, of which `remote.c:64-69` makes a loop that never
  blocks; the model's server only fails a connection that is there.
* The reset between trials zeroes the gains but the feedforward speed remains
  (main.c:219-220), where evaluate.py:152 says the fan stops.

## 6. Not modelled, and what is left

Not modelled: OLED and LED threads (they change nothing shared), Wi-Fi start-up
and the chip drivers (straight register access), the optimizer, superseded
copies. The web page is left out too: it runs in one browser task, draws what it
is sent, and each click is a command the models already have; that its form is
filled from the first status only, and so may send old values, is a hazard noted
in `PROJECT.json` and no state of the board or the proxy. Of the vendored kernel
the delay, its timers and the scheduler are modelled; sockets and the shell appear
as what the application sees of them. The rest of `rt-thread-5.2.1/` (file systems,
USB, lwIP, processes and so on) is library code of which this program uses a
configured fraction through interfaces that the models treat as external.

What could still be proved: that the kernel's priority rule is the one
`WindTunnel!Scheduled` assumes, as a refinement from `ThreadDelay`; and the
liveness properties, once the prover handles fairness.
