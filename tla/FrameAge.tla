------------------------------ MODULE FrameAge ------------------------------
(***************************************************************************)
(* How read_stream (src/src/cacam-usb-source.cpp) tells stale frames from  *)
(* punctual ones.  The phone's clock and the host's differ by an unknown   *)
(* offset, so the smallest difference seen stands for a frame without      *)
(* delay; it creeps upwards by at most MaxStep a frame, in case the host's *)
(* clock is the faster one.  A frame is dropped when the time it waited in *)
(* the phone plus its excess over that baseline is more than MaxAge.       *)
(*                                                                         *)
(* All arithmetic is on int64_t and uint64_t; MaxInt is INT64_MAX.         *)
(***************************************************************************)
EXTENDS FrameOutput

CONSTANTS
  MaxInt,    \* INT64_MAX
  MaxAge,    \* MAX_FRAME_AGE_US
  MaxStep,   \* MAX_CLOCK_BASELINE_STEP_US
  MaxFrames  \* bound on the frames of a stream

ASSUME FrameAgeAssumption ==
  /\ MaxInt \in Nat /\ MaxAge \in Nat /\ MaxStep \in Nat /\ MaxFrames \in Nat
  /\ 0 < MaxStep /\ MaxStep < MaxInt /\ MaxAge < MaxInt

Int64  == -MaxInt - 1 .. MaxInt
UInt64 == 0 .. MaxInt + MaxInt + 1

VARIABLES
  now,      \* the host's clock
  minimum,  \* minimum_clock_offset_us; MaxInt before the first frame
  verdict,  \* what became of the last frame: "none", "invalid", "dropped", "shown"
  offset, queue,  \* clock_offset_us and sender_queue_us of the last valid frame
  \* history: the valid frames so far, the least offset among them, the sum of
  \* MaxStep over the frames since the offset last changed, and whether no offset
  \* ever exceeded its predecessor by more than MaxStep
  frames, least, credit, steady

vars == <<now, minimum, verdict, offset, queue, frames, least, credit, steady>>

\* the sum of two unsigned integers, which wraps around at most once
Wrapped(sum) == IF sum \in UInt64 THEN sum ELSE sum - (MaxInt + MaxInt + 2)

Magnitude(lower) == -(lower + 1) + 1

\* saturated_nonnegative_difference
SaturatedDifference(upper, lower) ==
  LET difference == IF lower < 0 /\ upper >= 0
                    THEN Wrapped(Magnitude(lower) + upper)
                    ELSE upper - lower
  IN IF upper <= lower THEN 0
     ELSE IF difference > MaxInt THEN MaxInt ELSE difference

\* saturated_nonnegative_sum
SaturatedSum(left, right) == IF left >= MaxInt - right THEN MaxInt ELSE left + right

\* The definitions named Variant... are those beside them with one plausible slip;
\* no specification uses them.  They show which slip each property would catch.

VariantNeverCreeps(o) == IF o < minimum THEN o ELSE minimum

VariantForgetsBaseline(o) == o

NewMinimum(o) ==
  IF minimum = MaxInt \/ o < minimum
  THEN o
  ELSE minimum + Lesser(SaturatedDifference(o, minimum), MaxStep)

\* the capture time counts only if the sending time does not precede it
SenderQueue(timestamp, captured) ==
  IF timestamp >= captured /\ timestamp - captured <= MaxInt THEN timestamp - captured ELSE 0

Age(o, q) == SaturatedSum(q, SaturatedDifference(o, NewMinimum(o)))

Init ==
  /\ now \in UInt64
  /\ minimum = MaxInt
  /\ verdict = "none"
  /\ offset = 0 /\ queue = 0
  /\ frames = 0 /\ least = MaxInt /\ credit = 0 /\ steady = TRUE

Invalid(timestamp) ==
  /\ timestamp > MaxInt \/ now' > MaxInt
  /\ verdict' = "invalid"
  /\ UNCHANGED <<minimum, offset, queue, frames, least, credit, steady>>

\* An NV21 message sent at `timestamp' that holds a frame captured at `captured'
Valid(timestamp, captured) ==
  /\ timestamp <= MaxInt /\ now' <= MaxInt
  /\ offset' = now' - timestamp
  /\ queue' = SenderQueue(timestamp, captured)
  /\ minimum' = NewMinimum(offset')
  /\ verdict' = IF Age(offset', queue') > MaxAge THEN "dropped" ELSE "shown"
  /\ frames' = frames + 1
  /\ least' = Lesser(least, offset')
  /\ credit' = IF frames > 0 /\ offset' = offset THEN credit + MaxStep ELSE 0
  /\ steady' = (steady /\ (frames > 0 => offset' <= offset + MaxStep))

\* The sender's times are whatever it wrote; the host's clock never goes back.
Receive ==
  /\ frames < MaxFrames
  /\ now' \in UInt64 /\ now' >= now
  /\ \E timestamp, captured \in UInt64 : Invalid(timestamp) \/ Valid(timestamp, captured)

Next == Receive

Spec == Init /\ [][Next]_vars

-----------------------------------------------------------------------------
FrameAgeTypeOK ==
  /\ now \in UInt64
  /\ minimum \in Int64
  /\ verdict \in {"none", "invalid", "dropped", "shown"}
  /\ offset \in Int64 /\ queue \in 0 .. MaxInt
  /\ frames \in Nat /\ least \in Int64 /\ credit \in Nat /\ steady \in BOOLEAN

\* The baseline lies between the least offset seen and the last one and has crept
\* at most MaxStep a frame, however the offsets jump: its sum never overflows.
BaselineTracksOffset ==
  frames > 0 => /\ least <= minimum /\ minimum <= offset
                /\ minimum <= least + MaxStep * (frames - 1)

\* A frame is dropped only if it is later than the quickest one by more than
\* MaxAge, and after a jump of the clocks each frame makes up for MaxStep of it,
\* so that punctual frames are not dropped for ever.
PunctualFramesShown ==
  verdict = "dropped" => \/ queue > MaxAge
                         \/ queue + (offset - least) - credit > MaxAge

\* What is shown is no staler than MaxAge and what the baseline may have crept.
StaleFramesDropped ==
  verdict = "shown" => queue + (offset - least) <= MaxAge + MaxStep * (frames - 1)

\* Frames are dropped and shown for no other reasons.
VerdictIsFair == PunctualFramesShown /\ StaleFramesDropped

\* "compensating for Android and host clock drift" (release-notes/v0.3.5.md:5): as
\* long as the clocks drift apart by no more than MaxStep a frame, only the time
\* spent in the phone counts.
DriftIsNotDelay ==
  steady /\ verdict = "dropped" => queue > MaxAge

\* Whatever the sizes of a frame that is shown and of OBS's canvas, which may change
\* between two frames: the frame's pixels are the message's, and the picture fills the
\* canvas from a part of itself, in the middle, without being stretched
\* (cacam-usb-source.cpp:1827-1887).
PicturesFillCanvas ==
  verdict = "shown" => EveryPictureFits /\ EveryMessageIsWhole

\* The inductive invariant the proofs rest on: besides the bounds above, how far the
\* baseline has followed an offset that stays, and what the verdict says in terms of
\* the baseline.
BaselineCatchesUp ==
  frames > 0 => minimum = offset \/ minimum >= least + credit

SteadyBaseline == steady /\ frames > 0 => minimum = offset

VerdictIsAge ==
  /\ verdict \in {"dropped", "shown"} => frames > 0
  /\ verdict = "dropped" => queue + (offset - minimum) > MaxAge
  /\ verdict = "shown" => queue + (offset - minimum) <= MaxAge

Unset == frames = 0 => minimum = MaxInt /\ least = MaxInt

FrameAgeInvariant ==
  /\ FrameAgeTypeOK /\ Unset /\ BaselineTracksOffset
  /\ BaselineCatchesUp /\ SteadyBaseline /\ VerdictIsAge
=============================================================================
