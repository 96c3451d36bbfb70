# BGOBS in TLA+

Models, model-checking runs and proofs for the BGOBS plugin: an OBS background
filter that mattes a camera picture with a neural network, an enhancement filter,
and a source that reads a phone camera over USB. Paths are relative to the
repository; `src/src/` is the C++ code.

## 1. Inventory

The plugin runs inside OBS. OBS calls a filter or source back on several threads:
`create`, `update`, `activate`, `deactivate` and `destroy` on UI or loader
threads, `video_tick` and `video_render` on the graphics thread. The plugin adds
threads of its own: one inference worker per background filter, one USB worker
per camera source, one update check.

| Component | State it keeps | Operations | Talks to |
|---|---|---|---|
| Background filter: inference pipeline (`background-filter.cpp`) | `isDisabled`, `nativeAlpha`, `inferenceGeneration`; the capacity-one queue; the masks and the alpha; `lastImageBGRA`; model, session and recurrent tensors; the worker thread | the five callbacks, `invalidateInference`, tick, render, the worker's loop | OBS; ONNX Runtime through `ort-session-utils.cpp`; mask post-processing |
| Background filter: settings (`background-filter.cpp` 115-633) | the OBS settings object | presets, migration, property callbacks | the pipeline's `update` |
| ONNX session and models (`ort-utils/`, `models/`) | session, tensors, input and output shapes, RVM's recurrent state, the downsample ratio | create a session, configure the tensors for a frame, run, take the outputs as the next inputs, reset | pipeline, enhance filter |
| Mask operations (`mask-post-processing.cpp`, `crates/bgobs-core`) | none | threshold, cleanup, smoothing over time, refinement, the C interface | pipeline |
| Enhance filter (`enhance-filter.cpp`) | one model, input and output pictures | callbacks, tick (infers on the graphics thread), render | ONNX session |
| Camera source (`cacam-usb-source.cpp`) | `active`, settings, worker thread, stop flag, current USB connection, ADB forward | callbacks, accessory and ADB connection, stream reader, frame output | libusb, adb, curl, OBS |
| Camera stream parser (`cacam-usb-source.cpp` 1162-1276) | buffered USB bytes | resynchronise on a magic, read a header and its payload | the worker |
| Command runner (`cacam-usb-source.cpp` 629-833) | child process, pipe | run `adb` with a deadline | ADB worker |
| Update checker (`update-checker/`) | one thread, the latest release | start a check, read the answer, shut down | curl; plugin load and unload |
| Semantic versions (`semver.cpp`) | none | parse, compare | update checker |
| Plugin lifetime (`plugin-main.c`) | registrations | load, unload | everything |

### What is hard in it, and what makes each part correct

* **Pipeline.** Three threads share the outputs; a settings change must disown an
  inference that is already running. Correct: nothing computed under old settings
  is shown after the change, frames never go back in time, a stopped filter shows
  nothing old, callbacks return, no wakeup is lost.
* **Camera source.** The worker blocks in libusb, in a child process and in a
  connect; callbacks of other threads must stop it without losing a stop or
  leaving two workers. Correct: at most one worker, a stop always ends it,
  it always runs with the current settings, a source with automatic connection has
  a worker, nothing stays open, no webcam loses its mode (the code breaks this: section 6), frames come from the
  phone that was chosen.
* **Stream parser.** Bytes arrive in arbitrary pieces, possibly in the middle of a
  message. Correct: once aligned it stays aligned; after garbage it finds the next
  header.
* **Frame age.** The phone's clock is mapped to the host's by the smallest offset
  seen. Correct: late frames are dropped, punctual ones are not.
* **Command runner.** A child may ignore signals, leave a daemon, or get another command's
  pipe; a read or a wait may fail. Correct: a command returns by its deadline, nothing is
  left behind, a reported status is the child's own, a child that was reaped is left alone.
* **Update checker.** A check may still run at unload. Correct: no thread outlives
  the module, and only a newer version is offered.
* **Enhance filter.** Update, tick, render and destroy share a model, a picture and
  graphics objects under four locks. Correct: nothing is used after it is freed, no lock
  stays taken, a new model's picture comes to be shown.
* **Settings of the background filter.** One object is written by the dialog, by other
  clients and by `update` itself. Correct: a style's name, its values and the filter agree
  in the end, an edit is not lost, a scene is migrated once.
* **RVM's tensors.** The shapes of the recurrent tensors follow the frame's resolution and
  the ratio; buffers are kept when their length fits, and views point into them. Correct:
  the network reads the present buffers, in the shape they were written in, from frames of
  this resolution.
* **Versions, mask operations, crop of a frame.** Pure functions on bounded data with edge
  cases.

The hazards, each at its line, are listed in `PROJECT.json`.


## 2. Modules

| Module | What it is |
|---|---|
| `InferencePipeline` | the background filter's callbacks, queue, worker, tick and render |
| `PipelineInvariant` | its inductive invariants, in named parts |
| `LatestMatte` | abstract: the newest frame's matte is shown, a new epoch disowns the old one at a stroke |
| `PipelineRefinement` | the mapping under which `InferencePipeline` implements `LatestMatte` |
| `PipelineProofs` | theorems about the three |
| `RvmTensors`, `RvmProofs` | the recurrent tensors of RVM from a frame to the next, and the ratio the network is given; theorems about them |
| `CacamSource`, `CacamProofs` | the camera source's callbacks and its worker in both connection modes, and theorems about it |
| `CacamAccessory`, `AccessoryProofs` | how the USB worker finds, switches and opens a phone, and theorems about it |
| `CacamStream` | how the worker cuts the byte stream into messages |
| `MessageChannel` | abstract: a FIFO of messages that may be closed; `CacamStream` implements it |
| `FrameAge` | the clock baseline and the decision to drop a frame |
| `FrameOutput` | which messages are frames, and the part of a picture that fills OBS's canvas |
| `StreamProofs` | theorems about `CacamStream`, `FrameAge` and `FrameOutput` |
| `EnhanceFilter`, `EnhanceProofs` | the enhancement filter's callbacks, tick and render, and theorems about it |
| `FilterSettings`, `FilterProofs` | the background filter's settings on their way into the filter, and theorems about them |
| `MaskOperations` | from a model's confidence to the mask that is shown, on integers |
| `CommandRunner` | `run_command_capture`: pipe, child, deadline and cancellation |
| `UpdateCheck` | module load and unload with the update check's thread |
| `HelperProofs` | theorems about `CommandRunner`, `UpdateCheck` and the comparison of `SemVer` |
| `SemVer` | parsing and comparing versions as the code does, and semver.org's precedence |
| `MC...` | instances for TLC |

Definitions named `Variant...` are those beside them with one plausible slip (a
dropped guard, a missing reset). No specification uses them; replacing a
definition by its variant makes the run that names it fail, which shows what the
property would catch.

### InferencePipeline

One action is one critical section or one access to an atomic, so everything
the mutexes allow to interleave does. `stage[c]` is the program counter of the
callback that thread `c` runs and `op[c]` which callback it is; `wstage` and `job`
are the worker's, `gstage` and `gimage` those of `submitInferenceFrame` on the
graphics thread. The other variables bear the names of the code's members.

* `Create`, `Update`, `Activate`, `Deactivate`, `Destroy` begin the callbacks.
  `invalidateInference` is the steps `BumpGeneration`, `ReleasePending`,
  `ReleaseMats`, `ReleaseLastImage`, `Notify`, one for each critical section.
* `StoreMattingMode` (which waits for `modelMutex`), `ApplySettings` and
  `StoreNativeAlpha` are the settings that `update` stores before it invalidates;
  `InitModel` and `Enable` are its rest. `InitModel` covers session creation with its
  fallback to the CPU, each of which may fail. The number of threads, the third thing
  `update` compares (762), is not a variable: a new session may be made at any update.
* `StartWorker`, `RequestStop`, `NotifyStop`, `JoinAndFree` are the worker's life.
* `TickBegin`, `PushFrame`, `NotifyWorker` are `video_tick`; the two tests of
  `isDisabled` in it are merged into one. `RenderAlpha` is the part of
  `video_render` that writes to a shared picture.
* The worker's actions follow `inferenceWorkerLoop` from its wait to publication.
  An inference may succeed, fail, or throw; a wakeup may be spurious.

A frame is its image and its number; a matte is the number and generation of its
frame and the set of inferences blended into it. Two frames are similar exactly
if they show the same image. `mask_every_x_frames`'s counter is kept modulo
`Every`, which is all the code reads of it. `modelMutex` is a variable since the
worker holds it during the inference; the other mutexes are held for one action.
Pixels, textures, tensors and effects are left out.

### RvmTensors

The same callbacks and worker as in `InferencePipeline`, with other data: here a frame is
its size, and a buffer is its length and what was written into it. `Configure` is
`configureForFrame`, `prepareTensorBuffers` and `loadInputToTensor` of one frame, `Accept`
the end of `runRvmInference`, `Refuse` and `Throw` its failures, `FallBack` the handler. Of
the six inputs the four recurrent ones are modelled, with channels, height and width; the
picture's own tensor is written anew for every frame. The network itself is external:
`Fits` says which recurrent inputs it takes. `rvmDownsampleRatio` is the member that the
filter writes, `HiddenRatio` the one that the inference reads (section 6). The queue, the
similarity test and the outputs are left out: a frame may come at any moment, and is
either current or not.

### CacamSource

`stage[c]` says which `start()` or `stop()` the callback of `c` runs next; `wstage`
where the worker is; `running` holds the settings it was started with.
`workerMutex` is a variable because `stop()` holds it while it joins. The worker's
stages follow `worker_loop` (USB) and `adb_worker_loop` (adb): each adb command is
one action that may end well, badly, or badly after the adb server obeyed it.
The adb server is external: a forward is keyed by its local port and ends with its
phone. `alone` is a history variable for one property.

### CacamAccessory

`ustage` is where `open_accessory` or `request_first_android_accessory` is,
`unseen` the rest of the device list in hand, `handles` the open libusb handles.
Each libusb call is one action with the outcomes the code tells apart. The bus is
external: devices are plugged in and pulled out between any two calls, a phone
that was told to start leaves and comes back as an accessory. `Faults` names the
calls that may fail though the device is there. `settled` marks a moment (which
need not come) from which calls succeed and nothing is pulled out.

### CacamStream

`wire` is what the phone wrote and no transfer has moved yet, `buffer` what
`BulkReader` holds. `Fill` moves any part of the wire that fits a transfer,
`MatchByte` is one round of `read_header`'s hunt for the magic word, `Copy` one
round of `read_exact` with whatever the code does when it is complete. Messages
are short: the header is the four bytes of the magic word and three fields; the
reserved bytes and times are left out, the size is one number. A transfer that
times out after it moved bytes (`FillTimesOut`; libusb documents that it may) loses
them, as `fill()` returns before it looks at `transferred`. `intact` records that.
The other histories are what the properties and the invariant speak of: `sent` and
`due`, the messages written and what the well-formed ones hold; `traffic`, all bytes
ever written; `places`, where in them each message begins.

### FrameAge

`Receive` is the part of `read_stream` between a message and its output. Integers
have the width `MaxInt` gives, unsigned sums wrap around, and the two saturating
helpers are translated with their detours.

### FrameOutput

Pure operators, which `FrameAge` states of the frames it shows. The code computes the crop
with doubles. For the sizes that occur (at most 4096 by 4096, and a canvas of at most
16384) two different quotients differ by more than rounding can hide, so the comparison of
aspects is exact; a product that is a whole number may come out a little less and is then
truncated to the number below, so `Lengths` has both.

### EnhanceFilter

`ustage`, `tstage` and `rstage` are where the update, the tick and the render are; a
callback that returns before it changed anything is not a step. `modelMutex` and the
graphics context are variables, since they are held over several steps; the two `try_lock`s
appear as the branches `SkipInput` and `OutputBusy`. `engine` says which swap each of the
model object, the session and the tensors comes from: `createOrtSession` may fail before it
replaced the session or after. `Holders` are the shared pointers that ticks and renders
copied; `phase` becomes `freed` when the last is gone.

### FilterSettings and MaskOperations

`settings` is OBS's object. The user's thread writes a value and runs the callback
(`WriteTuning`, `TuningModified`, `WriteStyle`, `StyleModified`), another client writes
without one (`ClientWrites`), and `update`, which OBS owes while `pending`, is three steps:
it migrates, overrides the model and reads the style (`UpdateBegins`), writes the style's
values (`UpdateApplies`), and copies everything (`UpdateCopies`). The dialog may write
between any two. `Frame` follows one pixel of the mask through the threshold and the
smoothing over time. Numbers are whole hundredths, as the sliders give them.

`MaskOperations` has the operators of `mask.rs` and `mask-post-processing.cpp`. OpenCV's
blurs, erosion and dilation are external and modelled by what they do to a small mask.

### CommandRunner

The branch for POSIX of `run_command_capture`. `rstage[r]` is where the runner `r` is;
each runner is the adb worker of one camera source. `process` and `ending` are the kernel's
view of the child, `child_exited` and `child_status` the runner's; the two differ when
another part of the host waits for the child first (`StatusIsTaken`): then `waitpid` fails
with `ECHILD` (`NoChild`). `written` and `output` are what the child wrote and what was read;
a read may be interrupted (`ReadInterrupted`) or fail (`ReadFails`, kept in `read_failed`).
`sent` are the signals that the runner sent, each with whether the child had been reaped.
`write_end`, `children` and `daemons` say who holds the write end of each pipe: a fork
hands the child every end its process has at that moment, another runner's included,
and a command may leave a daemon that keeps them. Reading until nothing is left is one
action, as nothing else observes the reads between. What a signal does to the rest of the
process group, or to whoever else has got its number, is left out; that it is sent is not.

### UpdateCheck and SemVer

`module` is where `obs_module_load` and `obs_module_unload` are, `tstage` where the
update thread is, `holder` which `std::thread` object owns it. The transfer ends with an
answer, fails, or runs into its timeout; `info` is the version the answer named, its
`v` dropped. A version is given by the fields its separators leave, a field by the codes
of its characters, so that every rule of `parseSemanticVersion` about fields and all
comparisons are as in the code. `Precedes` is not the code's: it is what semver.org's
eleventh clause says, with numbers as numbers.

## 3. Runs

| Run | Instance | Shows |
|---|---|---|
| `overlap` | two callers, two images, native and legacy path, two frames, ticks and renders during callbacks | the inductive invariant; nothing stale; a disabled filter is empty; no wakeup is lost; `LatestMatte` is implemented |
| `switch` | one caller on the graphics thread, four settings over both devices and models, every second frame masked, sessions and inferences that fail | what is shown is the selected model's; recurrent state and smoothing stay in their generation; callbacks return and queued frames leave |
| `cacam` | two callers, two phones, one port, four settings | what section 1 says of the camera source |
| `accessory` | a phone, a phone that shows only adb, a webcam that is an Android device; every call fails at will | no leak, no half identified start; once the bus settles a phone is opened |
| `stream` | two messages out of six kinds, transfers of any size up to eight bytes, timeouts | nothing lost or invented unless a transfer lost it; the channel is implemented; stop ends the stream |
| `frame_age` | four-bit integers, three frames, all times; pictures and canvases up to 8 by 8 | punctual frames shown, stale ones dropped, drift compensated; every picture fills every canvas |
| `enhance` | two settings, two swaps, sessions that fail early or late, inferences that fail | locks and graphics objects are held and freed in order; a new model's picture is shown; callbacks end |
| `settings` | five scenes old and new, three changes amid updates, a mask of nine pixels | settings settle; edits survive; one migration; named styles smooth; shaping keeps order |
| `update` | 19 versions; as tags these, with and without `v`, and 12 texts that break one rule each; two property pages | the thread ends before libcurl and the module; an update is offered exactly if semver.org says it is newer; unload ends |
| `command` | `start-server` of one source, whose reads and waits fail, and the removal of a forward of another | commands return, leave nothing behind and report the truth as far as they were told it; no reaped child is killed |
| `rvm` | two callers, one of which applies settings; four settings; a camera that is turned; runs that fail or throw | the inductive invariant: whenever RVM runs, its inputs are the present buffers, in the shape and of the resolution they were written in |
| `rvm_ratio` | the same | the network is not given the ratio of the mode: section 6 |

The last is expected to find a violation.

### Bounds, and why they are enough

* *Pipeline.* `MaxGeneration` bounds the invalidations and `MaxFrames` the
  submissions. Two generations suffice for a stale result to meet a new one, a
  third and a fourth for an invalidation inside another; with two frames one waits
  while the other is in hand, and a mask is smoothed into the one before it. Two
  callers are enough for one callback inside another: a third would stand for one of
  them. Proofs lift these bounds for the safety properties of both runs.
* *RVM.* Two sizes of equal area are the case in which lengths cannot tell shapes apart;
  the four settings have every mode, both devices and both kinds of model. An activate or
  deactivate of the other caller may fall anywhere into an update. Proofs lift all this.
* *Camera source.* A second caller lets a start or stop meet a join; two phones on
  one port let a session meet a forward of the other. `HealthRetries = 1` and
  `SnapshotFailures = 2` let each counter take both branches of its test.
* *Accessory.* The three devices are the three ways a device may be answered for.
* *Stream.* Transfers of up to eight bytes cut the messages (four to fourteen) at any
  byte and let one transfer hold the end of one message and the beginning of the
  next. The six kinds are an empty one, one whose payload holds magic words, an
  unknown type, an unsupported version, an oversized one, and one whose rejected
  payload reads like a message. Two messages are enough for one to be misread
  because of what remained of the other; proofs lift every bound.
* *Update.* `MCReleases` has versions that differ in each way the precedence speaks of,
  `MCMalformed` texts that break one rule each; every pair of a build and a tag is tried.
  `ReleasesAssumption` and `MalformedAssumption` say what tells the two apart: the first
  parse as versions, the second do not, with or without their `v`. Proofs lift the bound.
* *Command.* Two runners are enough for one to fork while the other's pipe is open. One
  byte of output is enough to be read late or not at all. `Writers` names the runners whose
  children write, `Unlucky` those whose reads fail and whose children's statuses somebody
  else takes: in the run one of the two, the one that may be stopped and leave a daemon; the
  other's child, which prints nothing, inherits its pipe. Proofs lift all of this for the
  three invariants.
* *Enhance.* Two swaps let a session of the old model meet the new model, and an update
  meet a tick and a render that are still at work on the picture before.
* *Settings.* Three changes are one before, one amid and one after an update, or an edit, its
  style and its undoing. The scenes are a new filter, one old scene for each branch of the
  migration, and one of this version with a style's former name. Nine pixels are the
  smallest mask with a middle; all hard masks of that size are tried, with the shapings that
  `ShapingsAssumption` admits. Proofs lift the size and the strengths.
* *Frame age.* `MaxInt = 7` is small enough to let every sum and difference reach
  both ends; eight pixels a side give shapes wider than, equal to and narrower than the
  canvas, and lengths that truncate to nothing; proofs lift both. The stream ends after `MaxFrames`, which is why
  deadlock is not checked there.

Deadlock is also not checked where the system ends by itself: `accessory`, `stream`,
`update`, `command` and `enhance` (the worker exits, the stream ends, the module is gone,
the commands have returned, the filter is freed). The pipeline's last state stutters
explicitly (`Freed`), so any other state without a step would be reported.

### Fairness

* *Pipeline:* a thread inside a callback, inside `submitInferenceFrame`, and the
  worker, keep running. That is what the scheduler of the operating system gives
  and nothing more: no callback, tick or render has to come, no wakeup is spurious
  by force.
* *Camera source:* the same for callers and worker. A healthy stream may last for
  ever, so `StreamLost` has no fairness.
* *Accessory:* the worker keeps searching and a phone that was told to start does.
  The bus need not settle; `PhoneIsOpened` speaks of the case that it does.
* *Stream:* the worker reads and what is on the wire is transferred in the end. The
  phone need not write and nobody need stop.

* *Enhance:* a callback that has begun goes on, and OBS ticks a live source. Taking
  `modelMutex` for a swap, the graphics context for the effect, and the two `try_lock`s of
  a tick have strong fairness: a lock that is free again and again is obtained, and OBS's
  graphics thread runs tick and render in turn. A source that is never enabled is outside
  `NewModelShows`.
* *Update:* the thread runs, time passes, and an unload that has begun goes on. No server
  has to answer and OBS need not unload.
* *Command:* the runner runs, time passes and SIGKILL works. No child has to write or to
  end, no daemon to close anything.

### Properties that need their condition

* With callbacks of two threads at once `MatteFromSelectedModel` and
  `RecurrentStateIsCurrent` do not hold (an update's model swap may fall into
  another's enabling), so `switch` has one caller. OBS calls a filter back from
  different contexts (`src/docs/ARCHITECTURE.md:46`), but the code takes no lock
  across a callback. The theorems ask no more than that: any number of callers, each
  waiting for the other's callback to return (`OneAtATime`), and ticks and renders at
  any moment.
* With ticks during callbacks `NoMixedMatte` does not hold: `activate` enables the
  filter (875) before it invalidates (877). OBS runs `activate`, `deactivate` and an
  `update` that was asked for within its own tick of the source, on the graphics thread,
  so `switch` has `GraphicsOverlaps = FALSE`; the worker still overlaps with everything.
  The theorem needs nothing else: the callbacks may overlap each other.
* `EditsSurvive` is about edits that no update runs amid, and about the dialog, which runs
  the callback that renames the style; a value that a client writes while a style is named
  is overwritten by the next update.
* `NamedStylesSmooth` is about the four styles. A smoothing factor of 0.01 to 0.04 or 0.99,
  which the slider offers, ends the process (section 6).
* `ShapingKeepsOrder` is about masks without soft pixels before the shaping.
* `WorkerIffAutomatic` is about callbacks that did not overlap since the last
  update began: of two that do, the later `start()` or `stop()` wins.
* `NothingLost` and the refinement of `MessageChannel` hold while the stream is
  `Reliable`: no transfer lost bytes, and no rejected message's payload holds the
  first byte of the magic word (the code hunts through rejected payloads).
* `ResultIsTrue` says what an exit status is worth: it is the child's own unless another part
  of the host waited for the child (782 then reports 0), and comes with the whole output
  unless a read failed (775-776 then reports what was read). `ReapedIsNotKilled` is about
  SIGKILL: SIGTERM is sent to a reaped child's group (791), and after `ECHILD`, which is no
  answer to 793, SIGKILL may follow (section 6).
* `RunsReturn` needs that a command's output ends (`MaxOutput`): the loop that reads the
  pipe (765-778) has no test of the deadline, so a child that writes faster than it is
  read keeps it going.
* `PhoneIsOpened` excepts an accessory that shows only adb: while it is on the bus,
  no other phone is asked.

## 4. Proofs

All theorems hold for every value of the constants the named assumptions allow.

**Pipeline** (`PipelineProofs`). `NoStaleMatte` is not inductive: to know that a
matte about to be published is of the current generation one must know what the
worker's job, the queue and each callback are at. `IndInv` adds

* `LifeCycle` (the creating callback is alone and there is no worker before it ends),
* `TagsFromThePast` (no tag exceeds the generation),
* `FramesInOrder` (mattes < job < queue < submissions, by number),
* `EngineConsistent` (device, model and session belong together),
* `StoppedIsEmpty`, `StoppedWorksInVain` (a filter that a callback disabled holds
  mattes, or has a current job, only while some callback is still about to release or
  disown them),
* `StopComesLast` (only destroy tells the worker to stop),
* `NoLostWakeup` (a worker sleeps with a frame or a stop before it only while whoever left
  it is about to notify).

There is a lemma for each conjunct, each with a step for the actions that can
disturb it. `InvariantHolds` concludes `Spec => []IndInv`; from it follow
`TypeCorrect`, `NeverStale`, `DisabledIsEmpty`, `NeverBackwards` (a property of the
frames' order that `LatestMatte` contains, too). The refinement
`PipelineImplementsLatestMatte` maps what carries an old generation to "absent",
so `BumpGeneration` is the abstract `NewEpoch` and the later releases stutter or
are `Withdraw`; it uses `FramesInOrder` for `Show` and `TagsFromThePast` for
`NewEpoch`.

What is shown comes from the selected model (`ModelOfMatte`), and RVM starts from its own
generation's state (`RecurrentStateOfGeneration`), because of an order of steps that a
callback keeps: disable, disown, release, and only then replace the model. `SerialInv` says
what each step has achieved: no one else enables the filter meanwhile (`StaysDisabled`);
once the frames are disowned, the worker has none that counts, and once the outputs are
released, none is shown, up to the swap (`ModelIsIdle`); so what the worker holds and what
is shown fits the model (`WorkFitsModel`, `MattesFitModel`); and when the filter is enabled
again, no inference of before is still to write the recurrent state (`RecurrentFits`).
`SerialInv` is inductive together with `IndInv` in behaviours of which `OneAtATime` holds
throughout. `NeverMixed` has an invariant of its own, `BlendInv`: without a tick inside the
callback no frame of the new generation is at hand before the old masks are released
(`NothingNewYet`), so the mask that the worker blends with is of its job's generation.

Two more theorems say of steps what liveness says of time. `WorkerIsWoken`: while the worker
sleeps, no frame and no stop waits for it unless whoever left it is about to notify.
`StopIsHeeded`: from the stop on, each step of the worker lowers `StepsToExit`, so nine lead
to its end; no thread is started after destroy began (`StopComesLast`). What
remains for `CallbacksReturn` is that the steps are taken.

**Camera source** (`CacamProofs`). `CacamInvariant` adds that the worker runs the
loop of its mode (`WorkerFollowsMode`), that a join is protected by the mutex
(`JoinIsProtected`), that a worker with old settings has somebody about to stop it
(`StaleWorkerIsStopped`) and that who destroys is alone (`DestructionIsLast`). It
gives `UsbIsReleased`, `WorkerIsCurrent`, `SelectedPhoneOnly`, `DestroyedIsEmpty`.
`WorkerFollowsPolicy` needs that the callback under way, if it overlapped no other, is about
to start or stop the worker exactly as the settings in force ask
(`CallbackFollowsSettings`). `JoinNeedsFewSteps`: whoever joins holds the mutex, so the flag
stays up (`JoinIsProtected`), and with the flag up each step of the worker lowers
`StepsToExit`: no loop goes round again.

**Accessory** (`AccessoryProofs`). `HandlesAccountedFor` is inductive with the types, for
any set of failing calls; `StartIsLast` is an action property that needs that the device in
hand is an Android one.

**Stream** (`StreamProofs`). The invariant looks at the reader from all bytes ever written.
What is in the buffer and on the wire is the rest of the traffic (`RestIsUnderWay`), the
traffic is the messages one after another (`TrafficIsSent`), and of some message `k` the
reader has handed on what was due before it and read of it as many bytes as its stage says,
or it is passing over the payload of a message that it rejected (`ReaderIsAligned`). So the
byte that comes next is known: in the hunt it is the next of the magic word, unless a
rejected payload is hunted, which by assumption does not hold the word's first byte; in the
fields and the payload it is theirs. What is complete is then what was written. Whatever
happens after a loss, `ReadsWithinBounds` holds. `NoMessageLost` follows: when nothing is
under way the reader has consumed all, which only the place behind the last message is
consistent with. `StreamIsChannel` maps a completed read to the abstract `HandOn`, the end
of the stream to `Close`, and what moves bytes to a stutter. The lemmas on sequences (the
bytes of a concatenation, of a front, of a rest) come first.

**RVM** (`RvmProofs`). `RvmInvariant` follows a buffer's contents from the frame that wrote
it to the next: an initialised state is what the last frame wrote at the configured
resolution (`StateIsOfLastFrame`); such a buffer is longer than the single element of a
fresh state (`WrittenIsNotFresh`), so that the two cannot be taken for each other by their
length; and whenever the network runs its inputs are views of those buffers
(`NetworkInputs`). `NetworkAcceptsInputs` concludes that the network is never given a shape
it would refuse. The shapes enter by way of few facts: a network computes them from the
frame's size and its ratio, and they have more than one element.

**Frame age** (`StreamProofs`). `BaselineTracksOffset` bounds the baseline from
both sides, so that no sum overflows and the saturating helpers never saturate
there; `BaselineCatchesUp`, `SteadyBaseline` and `VerdictIsAge` say how the baseline
follows and what the verdict means. From them follow the three statements about
dropped and shown frames for every width, every threshold and any length of stream.
`PicturesAlwaysFillCanvas` is arithmetic on one picture and one canvas of any size: the
crop lies inside, in the middle, and has the canvas's shape to within a pixel.

**Enhance filter** (`EnhanceProofs`). `EnhanceInvariant` says who holds which lock at which
stage (`LocksHeld`), that whoever is inside a callback keeps the instance and that the
graphics objects go only while no render has them (`NothingUsedAfterFree`), that the parts
of an engine and of a picture belong together unless a session failed (`WholeEngine`), and
that no part is newer than the model (`NumbersInOrder`). It is inductive as it stands.

**Settings** (`FilterProofs`). The invariant describes where an update is and what it still
owes: an update that nobody wrote amid leaves settings that it would leave alone, and
whoever writes amid sets `pending` before he returns. The styles' values enter by way of
few facts about them (they differ; one is found again under its name), so the proofs do not
depend on the numbers; `NamedStylesAlwaysSmooth` does, and is arithmetic on a factor between
65 and 88 hundredths. `MigrationAlwaysKeepsModel` follows the version through a load.

**Masks** (`FilterProofs`). `ShapingsAlwaysKeepOrder` holds for pictures of every size and
every strength of every step (`IsShaping`): more of the subject in the model's confidence,
wherever it is, never shows less of it anywhere (`ConfidenceKeepsOrder`). Each step is shown
to keep the pixelwise order of masks, and the order carries through their composition:

* A blur is a sum over the kernel's pixels, which a fold computes. That a sum exists for
  every finite set and grows with its terms (`SumsExist`, `SumKeepsOrder`) is an induction
  over the set's size, by `SetInduction` (below), and rounding a quotient keeps the order.
* Erosion and dilation are the least and the greatest value near a pixel (`LeastValue`,
  `GreatestValue`).
* The components of the background are found by a recursive function. It has a solution
  (`GrowthExists`), and what it reaches is the least set that holds the pixel and is closed
  under neighbours (`ComponentIsLeast`). Where the background grows, so does every component
  (`ComponentKeepsOrder`), so none is removed that was kept before.
* The cleanup clears a pixel of background that has few like it around, up to one limit, and
  fills a pixel of the subject that has many, from another. The limits do not cross at any
  strength (`CleanupLimits`), so a pixel that turns into background and is cleared would not
  have been filled before.

`SmoothingApproaches` covers the next step, the blend over time, for every pair of pixels
and every factor that does not end the process.

**Command runner** (`HelperProofs`). `RunnerInvariant` says what the stage knows of the
child (`ChildOf`: whoever reaped it knows, and knows its status; who thinks it over has
reaped it or lost it to another), the pipe (`PipeOf`: a pipe closed by no interruption and
no failing read means that the child is over and all it wrote was read) and the locals
(`StageOf`). A step of one runner leaves what this says of another alone
(`OthersAreLeftAlone`), though it may hand its pipe on. `NothingIsLeftBehind`,
`ResultsAreTrue` and `ReapedAreSpared` follow. `InterruptionEndsRun` bounds what a runner
still does once it is late or to be stopped.

**Update check** (`HelperProofs`). `Ownership` says who holds the thread object at each
stage of the module's life; `CheckEnds` follows. `OffersNewer` rests on
`ComparisonIsPrecedence`: for any two versions `compareSemanticVersions` is positive exactly
if semver.org says the other precedes. The code never computes a number: it compares two
runs of digits by their lengths, then as text. `MoreDigitsDecide` and `FirstDigitDecides`
show that this compares their values, however long they are: a number that is less after as
many digits stays less whatever digits follow (`StaysLess`), and one without a leading zero
is positive from its first digit on. These are inductions over the places of a field. The
library's induction theorem takes a predicate, which the provers cannot be given; it is
replaced by `SetInduction` (a set of numbers that holds 0 and with each number the next
holds all), which follows from the well-foundedness of `<`. From the comparison `Knowledge`
follows step by step: a tag is untagged to the version it was made of (`UntaggedTag`) or to
no version (`MalformedAssumption`), nothing is offered before the thread is over, and the
thread runs only if the flag is on.

**Only model-checked.** Liveness (`CallbacksReturn`, `PendingFrameLeaves`,
`JoinReturns`, `PhoneIsOpened`, `ValidIsHandled`, `StopEndsStream`, `UnloadReturns`,
`RunsReturn`, `NewModelShows`, `CallbacksEnd`): the prover has no rules for fairness and
ENABLED. Of three of them (`CallbacksReturn` for destroy, `JoinReturns`, `RunsReturn`) the
theorems above bound the steps. What `MaskOperations` computes is proved to keep the order,
not to be any particular picture.

## 5. Assumptions about the outside

* OBS begins `create` once and `destroy` last, when no other callback runs. (`EnhanceFilter`
  lets ticks and renders that began earlier still run, which the code provides for.)
* OBS runs a property's callback right after it wrote the property, and all callbacks when
  it builds the dialog, the style's first; an update that was asked for comes.
* ONNX Runtime's session creation and runs end, well or not.
* A model file whose shapes were accepted once is accepted again: after an exception the
  fallback to the CPU (`background-filter.cpp` 1102-1120) can fail only while it makes the
  session.
* `fcntl` can make the read end of a pipe non-blocking (`cacam-usb-source.cpp` 752-754); a
  killed process ends.
* The adb server drops a forward when its phone leaves.
* libusb reports the bytes a timed-out bulk transfer moved in `transferred`, as its
  documentation says.
* adb commands and HTTP requests end: the code gives each a deadline (`CommandRunner`
  shows it of commands whose output ends).
* The RVM network takes recurrent tensors of one element, or of the shapes it computes for
  the frame at its ratio.
* curl ends a transfer at the timeout it was given.
* OBS shows no property page of the module once it unloads it.

## 6. What the code does otherwise than it says

`rvm_ratio`: `bgobs_background_filter` declares `rvmDownsampleRatio` (`background-filter.cpp`
107) and writes it (748, 1048), which hides the member of that name in `filter_data`
(`FilterData.hpp` 30). `runRvmInference`, given a `filter_data`, reads the latter
(`ort-session-utils.cpp` 45), which nothing writes: the network runs at 0.25 in every mode
and at every resolution, though "**Qualité maximale** suit les ratios RVM recommandés"
(`src/docs/BACKGROUND-MATTING.md:16`). Whoever removes the hiding member gets a race in its
place: `update` stores the mode, which determines the ratio, at 687 and resets the recurrent
state at 806. A frame between the two would come with the new ratio and the old state; the
network would refuse it, and the worker would take that for a failure of the GPU.

More disagreements have no run of their own; the models have the behaviour.

* `lastImageBGRA` is filled (`background-filter.cpp` 1038) before the inference succeeds;
  after a failure a still picture is skipped as similar though there is no mask to reuse.
  An invalidation between the test at 1021 and 1038 has the same effect.
* Render negates the alpha (1336) in pixels it shares with `backgroundAlpha`, unless it had
  to resize it; rendering twice swaps subject and background, so that "RVM returns
  foreground alpha" (1335) is true of every second render.
* `fill()` returns on a timeout (`cacam-usb-source.cpp` 1222-1226) before it looks at
  `transferred`: bytes that the transfer moved are dropped, though "USB transfer boundaries
  have no message semantics" (`src/docs/CACAM-USB-PROTOCOL.md:28-31`). `FillTimesOut` clears
  `intact`.
* `f32::clamp` panics when its lower limit exceeds the upper. Temporal factors of 0.01 to
  0.04 (`mask.rs` 263) and of 0.99 (258) do that; the slider offers them
  (`background-filter.cpp` 587-588), and the panic cannot leave the `extern "C"` function, so
  OBS ends with the second mask (`Abort`).
* An edit of the dialog that falls between an update's reading of the style (697) and its
  writing of the values (703) is overwritten, though "manual adjustments still switch the
  style to Custom" (`src/CHANGELOG.md:94-95`); so is, at any time, a value that another
  client writes while a style is named.
* `filterSmallBackgroundComponents` sets every pixel of at most 128 to 0, soft ones on the
  subject's side included, though "soft edge values are preserved" (`mask.rs` 158-159).
* A scene migrated from another segmentation model keeps that model for the legacy mode for
  ever: `legacy_model_select` has precedence over what the user selects (313-318). A depth
  filter loses its model when another mode has been chosen once.
* The blend of the smoothing stops up to a few steps short of the current mask, where what
  is left to go is lost in rounding (`Approaches`).
* A failed session of the enhancement filter is not tried again before the settings change,
  and the last picture of the model before it stays on the screen.
* `run_command_capture` takes `ECHILD` for the child's end (`cacam-usb-source.cpp` 782) and
  then reports exit code 0 of a status that it never got; it takes a failed read for the end
  of the pipe (775-776) and reports part of the output as if it were all. At the deadline it
  sends SIGTERM under the number of a child that it may have reaped long before (791), and,
  if somebody else took the status, SIGKILL (800), since the loop at 792-798 counts no
  `ECHILD`.

Two more concern what the code means to prevent.

* `has_video_interface` answers false when the configuration cannot be read
  (`cacam-usb-source.cpp` 422), so a webcam may then be told to leave its mode, though
  "Switching it to Android Open Accessory would remove the webcam" (982-984). The run
  `accessory` includes such readings (`"config"` in its `Faults`) and such webcams; it
  promises nothing of them.
* `update` ends with `isDisabled = false` (`background-filter.cpp` 862) whether or not the
  source is active, so a filter that is created on an inactive source, or stopped because
  its source is inactive and then given new settings, runs, though the option says "Pause
  when source is inactive" (`src/data/locale/en-US.ini:42`). It runs until the source has
  been active and is deactivated again.

## 7. Not modelled, and why

Decoding and drawing of pictures, effects, the letterbox (`ort-session-utils.cpp` 93) and
the numbers in tensors: data without control. The tensors of the models other than RVM,
which are allocated once with a session.
`refineBackgroundMaskWithImage` weighs colours of the picture, of which no property speaks.
The scan of JPEG headers, and the three rotating buffers of the frame output (OBS copies a
frame before the call returns). Property lists, logging, the site, scripts and packaging:
not part of the running state. OBS, ONNX Runtime, libusb, curl and adb: external, modelled by what the code
can observe. The branch for Windows
of the command runner.

## 8. Plan

What is left, in this order:

1. Two camera sources on one adb server and one USB bus: `CacamSource` twice.
2. The scan of JPEG headers over short byte sequences, and the C interface's checks.
3. Proofs: what the shaping does to masks with soft pixels, where it is not monotone.
