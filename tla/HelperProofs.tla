---------------------------- MODULE HelperProofs ----------------------------
(***************************************************************************)
(* What the plugin starts beside its filters and sources.  Of the commands *)
(* (run_command_capture): what holds however many run at once, whatever    *)
(* they write and whoever holds on to their pipes.  Of the update check:   *)
(* its thread ends before the module it runs in and before libcurl, and it *)
(* offers exactly what semver.org calls newer, for every set of pages,     *)
(* releases and tags.                                                      *)
(***************************************************************************)
EXTENDS CommandRunner, UpdateCheck, SequenceTheorems, WellFoundedInduction, TLAPS

\* The types of all variables.
Types == LocalTypes /\ KernelTypes /\ PipeTypes

\* What the processes, the other threads and time do.
Around(r) ==
  \/ ChildWrites(r) \/ ChildExits(r) \/ ChildIsSignaled(r)
  \/ LeaveDaemon(r) \/ DaemonCloses(r)
  \/ StatusIsTaken(r) \/ RequestStop(r) \/ Deadline(r)

\* What RunnerInvariant says of r depends on no more than this of the state.
Frame(r) ==
  /\ rstage'[r] = rstage[r] /\ pipe_closed'[r] = pipe_closed[r]
  /\ child_exited'[r] = child_exited[r] /\ output'[r] = output[r]
  /\ cause'[r] = cause[r] /\ exit_code'[r] = exit_code[r]
  /\ process'[r] = process[r] /\ child_status'[r] = child_status[r]
  /\ ending'[r] = ending[r] /\ sent'[r] = sent[r]
  /\ written'[r] = written[r] /\ read_failed'[r] = read_failed[r]
  /\ read_end'[r] = read_end[r] /\ write_end'[r] = write_end[r]
  /\ r \in children'[r] <=> r \in children[r]
  /\ stop_requested'[r] = stop_requested[r] /\ late'[r] = late[r]

\* What is read stays within what is written when either grows.
LEMMA OrderOfNumbers ==
  \A m, n \in Nat : m <= m /\ (m <= n => m <= n + 1)
  OBVIOUS

\* A reading of some bytes leaves the count between what was read and what is written.
LEMMA SomeAreRead ==
  ASSUME Types, NEW r \in Runners, ReadsSome(r)
  PROVE  /\ output' \in [Runners -> Nat]
         /\ output[r] <= written[r] => output'[r] <= written[r]
         /\ output[r] = written[r] => output'[r] = written[r]
<1>1. output \in [Runners -> Nat] /\ written \in [Runners -> Nat]
  BY DEF Types, LocalTypes, KernelTypes
<1>2. PICK n \in output[r] .. written[r] : output' = [output EXCEPT ![r] = n]
  BY DEF ReadsSome
<1>3. n \in Nat /\ n <= written[r] /\ n >= output[r]
  BY <1>1, <1>2
<1> QED
  BY <1>1, <1>2, <1>3

\* The record of the signals stays one.
LEMMA SignalsTyped ==
  ASSUME Types, NEW r \in Runners, NEW signal \in {"TERM", "KILL"}, Signal(r, signal)
  PROVE  sent' \in [Runners -> SUBSET ({"TERM", "KILL"} \X BOOLEAN)]
<1>1. sent \in [Runners -> SUBSET ({"TERM", "KILL"} \X BOOLEAN)]
  BY DEF Types, KernelTypes
<1>2. <<signal, process[r] = "reaped">> \in {"TERM", "KILL"} \X BOOLEAN
  BY Zenon
<1>3. sent[r] \cup {<<signal, process[r] = "reaped">>} \in SUBSET ({"TERM", "KILL"} \X BOOLEAN)
  BY <1>1, <1>2, Zenon
<1> QED
  BY <1>1, <1>3, Zenon DEF Signal

\* What a child's end gives its runner.
LEMMA ReapTyped ==
  ASSUME Types, NEW r \in Runners, Reap(r) \/ NoChild(r),
         process[r] = "zombie" => ending[r] # "none"
  PROVE  /\ child_exited' \in [Runners -> BOOLEAN]
         /\ child_status' \in [Runners -> Statuses]
         /\ process' \in [Runners -> {"none", "running", "zombie", "reaped", "lost"}]
<1>1. /\ child_exited \in [Runners -> BOOLEAN] /\ child_status \in [Runners -> Statuses]
      /\ process \in [Runners -> {"none", "running", "zombie", "reaped", "lost"}]
      /\ ending[r] \in Statuses \cup {"none"}
  BY DEF Types, LocalTypes, KernelTypes
<1>2. CASE Reap(r)
  BY <1>1, <1>2 DEF Reap
<1>3. CASE NoChild(r)
  BY <1>1, <1>3 DEF NoChild
<1> QED
  BY <1>2, <1>3

\* Before any command runs, RunnerInvariant holds.
LEMMA InitInvariant == Init => RunnerInvariant
  BY DEF Init, RunnerInvariant, LocalTypes, KernelTypes, PipeTypes, ChildOf, PipeOf, StageOf,
     Stages, Statuses

\* What the runners do keeps the types.
LEMMA StepTypes == ASSUME Types, NEW r \in Runners, ChildOf(r), Step(r) PROVE Types'
<1>0. process[r] = "zombie" => ending[r] # "none"
  BY DEF ChildOf
<1> USE DEF Types, LocalTypes, KernelTypes, PipeTypes, Stages, Statuses, Go, Returns, kernel,
            pipes, signals, locals
<1>1. CASE OpenPipe(r)
  BY <1>1 DEF OpenPipe
<1>2. CASE PipeFails(r)
  BY <1>2 DEF PipeFails
<1>3. CASE Fork(r)
  BY <1>3 DEF Fork
<1>4. CASE ForkFails(r)
  BY <1>4 DEF ForkFails
<1>5. CASE CloseWriteEnd(r)
  BY <1>5 DEF CloseWriteEnd
<1>6. CASE Drain(r)
  BY <1>6 DEF Drain
<1>15. CASE ReadInterrupted(r)
  BY <1>15, SomeAreRead DEF ReadInterrupted
<1>16. CASE ReadFails(r)
  BY <1>16, SomeAreRead DEF ReadFails
<1>7. CASE WaitForChild(r)
  BY <1>7, <1>0, ReapTyped DEF WaitForChild, Reap, NoChild
<1>8. CASE NothingToReap(r)
  BY <1>8 DEF NothingToReap
<1>9. CASE Proceed(r)
  BY <1>9 DEF Proceed
<1>17. CASE Interrupt(r)
  BY <1>17, SignalsTyped DEF Interrupt, Interruption
<1>10. CASE AwaitTerm(r)
  BY <1>10, <1>0, ReapTyped DEF AwaitTerm, GivesUp
<1>11. CASE AlreadyExited(r)
  BY <1>11 DEF AlreadyExited, GivesUp
<1>12. CASE Kill(r)
  BY <1>12, SignalsTyped DEF Kill
<1>13. CASE AwaitKill(r)
  BY <1>13, <1>0, ReapTyped DEF AwaitKill, GivesUp
<1>14. CASE Finish(r)
  BY <1>14 DEF Finish
<1> QED
  BY <1>1, <1>2, <1>3, <1>4, <1>5, <1>6, <1>7, <1>8, <1>9, <1>10, <1>11, <1>12, <1>13, <1>14,
     <1>15, <1>16, <1>17
  DEF Step

\* So does what happens around them.
LEMMA AroundTypes == ASSUME Types, NEW r \in Runners, Around(r) PROVE Types'
<1> USE DEF Types, LocalTypes, KernelTypes, PipeTypes, Stages, Statuses, kernel, pipes, signals,
            locals
<1>1. CASE ChildWrites(r)
  <2>1. written' = [written EXCEPT ![r] = written[r] + 1]
    BY <1>1 DEF ChildWrites
  <2>2. written' \in [Runners -> Nat]
    <3> HIDE DEF LocalTypes, PipeTypes
    <3> QED
      BY <2>1
  <2> QED
    BY <1>1, <2>2 DEF ChildWrites
<1>2. ASSUME NEW how \in Statuses, ChildEnds(r, how) PROVE Types'
  BY <1>2 DEF ChildEnds
<1>3. CASE LeaveDaemon(r)
  BY <1>3 DEF LeaveDaemon
<1>4. CASE DaemonCloses(r)
  BY <1>4 DEF DaemonCloses
<1>5. CASE RequestStop(r) \/ Deadline(r)
  BY <1>5, ZenonT(60) DEF RequestStop, Deadline
<1>6. CASE StatusIsTaken(r)
  BY <1>6 DEF StatusIsTaken
<1> QED
  BY <1>1, <1>2, <1>3, <1>4, <1>5, <1>6 DEF Around, ChildExits, ChildIsSignaled, Statuses

\* A step of r's runner keeps what RunnerInvariant says of r.
LEMMA StepOwn ==
  ASSUME Types, NEW r \in Runners, ChildOf(r), PipeOf(r), StageOf(r), Step(r)
  PROVE  (ChildOf(r) /\ PipeOf(r) /\ StageOf(r))'
<1> USE DEF Types, LocalTypes, KernelTypes, PipeTypes, ChildOf, PipeOf, StageOf, Stages, Statuses,
            Go, Returns, kernel, pipes, signals, locals
<1>1. CASE OpenPipe(r)
  BY <1>1 DEF OpenPipe
<1>2. CASE PipeFails(r)
  BY <1>2 DEF PipeFails
<1>3. CASE Fork(r)
  BY <1>3 DEF Fork
<1>4. CASE ForkFails(r)
  BY <1>4 DEF ForkFails
<1>5. CASE CloseWriteEnd(r)
  BY <1>5 DEF CloseWriteEnd
<1>6. CASE Drain(r)
  <2>1. ChildOf(r)' /\ StageOf(r)'
    BY <1>6 DEF Drain
  <2>2. output'[r] = written[r] /\ written'[r] = written[r] /\ written[r] \in Nat
    BY <1>6 DEF Drain
  <2>3. process[r] = "running" => r \in children[r]
    BY <1>6 DEF Drain
  <2>4. pipe_closed'[r] /\ cause[r] = "none" /\ ~read_failed[r] => process[r] # "running"
    BY <1>6, <2>3 DEF Drain, EndOfFile
  <2>5. output'[r] <= written'[r]
    BY <2>2, OrderOfNumbers, Zenon
  <2>6. (write_end[r] <=> rstage[r] \in {"fork", "parent"})'
    BY <1>6 DEF Drain
  <2>7. /\ process' = process /\ children' = children /\ cause' = cause
        /\ read_failed' = read_failed
    BY <1>6 DEF Drain
  <2>8. PipeOf(r)'
    <3> HIDE DEF LocalTypes, KernelTypes, PipeTypes, ChildOf, StageOf
    <3> QED
      BY <2>2, <2>3, <2>4, <2>5, <2>6, <2>7
  <2> QED
    BY <2>1, <2>8
<1>15. CASE ReadInterrupted(r)
  <2>1. output'[r] <= written'[r]
    BY <1>15, SomeAreRead DEF ReadInterrupted
  <2>2. output[r] = written[r] => output'[r] = written'[r]
    BY <1>15, SomeAreRead DEF ReadInterrupted
  <2> QED
    BY <1>15, <2>1, <2>2 DEF ReadInterrupted
<1>16. CASE ReadFails(r)
  BY <1>16, SomeAreRead DEF ReadFails, ReadsSome
<1>7. CASE WaitForChild(r)
  BY <1>7 DEF WaitForChild, Reap, NoChild, Over
<1>8. CASE NothingToReap(r)
  BY <1>8 DEF NothingToReap, Over
<1>9. CASE Proceed(r)
  BY <1>9 DEF Proceed
<1>17. CASE Interrupt(r)
  BY <1>17 DEF Interrupt, Interruption, Signal
<1>10. CASE AwaitTerm(r)
  BY <1>10 DEF AwaitTerm, Reap, GivesUp
<1>11. CASE AlreadyExited(r)
  BY <1>11 DEF AlreadyExited, GivesUp
<1>12. CASE Kill(r)
  BY <1>12 DEF Kill, MustBeKilled, Signal
<1>13. CASE AwaitKill(r)
  BY <1>13 DEF AwaitKill, Reap, NoChild, GivesUp
<1>14. CASE Finish(r)
  BY <1>14 DEF Finish
<1> QED
  BY <1>1, <1>2, <1>3, <1>4, <1>5, <1>6, <1>7, <1>8, <1>9, <1>10, <1>11, <1>12, <1>13, <1>14,
     <1>15, <1>16, <1>17
  DEF Step

\* So does what happens around r itself.
LEMMA AroundOwn ==
  ASSUME Types, NEW r \in Runners, ChildOf(r), PipeOf(r), StageOf(r), Around(r)
  PROVE  (ChildOf(r) /\ PipeOf(r) /\ StageOf(r))'
<1> USE DEF Types, LocalTypes, KernelTypes, PipeTypes, ChildOf, PipeOf, StageOf, Statuses,
            kernel, pipes, signals, locals
<1>1. CASE ChildWrites(r)
  <2>1. ChildOf(r)' /\ StageOf(r)'
    BY <1>1 DEF ChildWrites
  <2>2. /\ output'[r] = output[r] /\ written'[r] = written[r] + 1
        /\ output[r] \in Nat /\ written[r] \in Nat /\ output[r] <= written[r]
    BY <1>1 DEF ChildWrites
  <2>3. output'[r] <= written'[r]
    <3> HIDE DEF LocalTypes, KernelTypes, PipeTypes, ChildOf, PipeOf, StageOf
    <3> QED
      BY <2>2
  <2>4. PipeOf(r)'
    BY <1>1, <2>3 DEF ChildWrites
  <2> QED
    BY <2>1, <2>4
<1>2. ASSUME NEW how \in Statuses, ChildEnds(r, how)
      PROVE  (ChildOf(r) /\ PipeOf(r) /\ StageOf(r))'
  BY <1>2 DEF ChildEnds
<1>3. CASE LeaveDaemon(r)
  BY <1>3 DEF LeaveDaemon
<1>4. CASE DaemonCloses(r)
  BY <1>4 DEF DaemonCloses
<1>5. CASE RequestStop(r)
  BY <1>5 DEF RequestStop
<1>6. CASE Deadline(r)
  BY <1>6 DEF Deadline
<1>7. CASE StatusIsTaken(r)
  BY <1>7 DEF StatusIsTaken
<1> QED
  BY <1>1, <1>2, <1>3, <1>4, <1>5, <1>6, <1>7 DEF Around, ChildExits, ChildIsSignaled

\* Nothing that happens in or around r changes anything for another runner, except who
\* else holds its pipe: a fork hands the ends of all pipes on.
LEMMA OthersAreLeftAlone ==
  ASSUME Types, NEW r \in Runners, Step(r) \/ Around(r), NEW q \in Runners \ {r}
  PROVE  Frame(q)
<1> USE DEF Types, LocalTypes, KernelTypes, PipeTypes, Frame, Go, Returns, kernel, pipes,
            signals, locals
<1>1. CASE OpenPipe(r) \/ PipeFails(r)
  BY <1>1, ZenonT(60) DEF OpenPipe, PipeFails
<1>2. CASE Fork(r)
  BY <1>2 DEF Fork
<1>3. CASE ForkFails(r)
  BY <1>3 DEF ForkFails
<1>12. CASE CloseWriteEnd(r)
  BY <1>12 DEF CloseWriteEnd
<1>4. CASE Drain(r) \/ Proceed(r) \/ Finish(r)
  BY <1>4, ZenonT(60) DEF Drain, Proceed, Finish
<1>14. CASE ReadInterrupted(r) \/ ReadFails(r)
  BY <1>14, ZenonT(60) DEF ReadInterrupted, ReadFails, ReadsSome
<1>15. CASE Interrupt(r)
  BY <1>15 DEF Interrupt, Signal
<1>9. CASE WaitForChild(r) \/ NothingToReap(r)
  BY <1>9, ZenonT(60) DEF WaitForChild, NothingToReap, Reap, NoChild
<1>10. CASE AwaitTerm(r) \/ AlreadyExited(r)
  BY <1>10, ZenonT(60) DEF AwaitTerm, AlreadyExited, Reap, GivesUp
<1>11. CASE Kill(r)
  BY <1>11 DEF Kill, Signal
<1>13. CASE AwaitKill(r)
  BY <1>13 DEF AwaitKill, Reap, NoChild, GivesUp
<1>5. CASE ChildWrites(r)
  BY <1>5 DEF ChildWrites
<1>6. ASSUME NEW how, ChildEnds(r, how) PROVE Frame(q)
  BY <1>6 DEF ChildEnds
<1>7. CASE LeaveDaemon(r) \/ DaemonCloses(r)
  BY <1>7 DEF LeaveDaemon, DaemonCloses
<1>8. CASE RequestStop(r) \/ Deadline(r) \/ StatusIsTaken(r)
  BY <1>8, ZenonT(60) DEF RequestStop, Deadline, StatusIsTaken
<1> QED
  BY <1>1, <1>2, <1>3, <1>4, <1>5, <1>6, <1>7, <1>8, <1>9, <1>10, <1>11, <1>12,
     <1>13, <1>14, <1>15
  DEF Step, Around, ChildExits, ChildIsSignaled

\* RunnerInvariant is inductive.
LEMMA NextInvariant == RunnerInvariant /\ [Next]_vars => RunnerInvariant'
<1> USE DEF RunnerInvariant, Types
<1>1. ASSUME NEW r \in Runners, ChildOf(r), PipeOf(r), StageOf(r), Frame(r)
      PROVE  (ChildOf(r) /\ PipeOf(r) /\ StageOf(r))'
  BY <1>1, ZenonT(60) DEF Frame, ChildOf, PipeOf, StageOf
<1>2. ASSUME RunnerInvariant, NEW r \in Runners, Step(r) PROVE RunnerInvariant'
  BY <1>2, <1>1, StepTypes, StepOwn, OthersAreLeftAlone
<1>3. ASSUME RunnerInvariant, NEW r \in Runners, Around(r) PROVE RunnerInvariant'
  BY <1>3, <1>1, AroundTypes, AroundOwn, OthersAreLeftAlone
<1>4. ASSUME RunnerInvariant, UNCHANGED vars PROVE RunnerInvariant'
  <2>1. Types' /\ \A r \in Runners : Frame(r)
    BY <1>4 DEF vars, kernel, pipes, signals, locals, LocalTypes, KernelTypes, PipeTypes, Frame
  <2> QED
    BY <1>4, <1>1, <2>1
<1> QED
  BY <1>2, <1>3, <1>4 DEF Next, Around

\* A step of an interrupted runner leads on to its return, or leaves it where it was.
LEMMA InterruptedStep ==
  ASSUME Types, NEW r \in Runners, Step(r), stop_requested[r] \/ late[r]
  PROVE  StepsToReturn[rstage'[r]] < StepsToReturn[rstage[r]]
<1>0. ASSUME NEW from, NEW to, Go(r, from, to) PROVE rstage[r] = from /\ rstage'[r] = to
  BY <1>0 DEF Go, Types, LocalTypes
<1> USE <1>0 DEF StepsToReturn
<1>1. CASE OpenPipe(r) \/ PipeFails(r) \/ Fork(r) \/ ForkFails(r) \/ CloseWriteEnd(r)
  BY <1>1 DEF OpenPipe, PipeFails, Fork, ForkFails, CloseWriteEnd
<1>2. CASE Drain(r) \/ ReadInterrupted(r) \/ ReadFails(r)
  BY <1>2 DEF Drain, ReadInterrupted, ReadFails
<1>3. CASE WaitForChild(r) \/ NothingToReap(r)
  <2>1. rstage[r] = "wait" /\ rstage'[r] \in {"finish", "test"}
    BY <1>3, Zenon DEF WaitForChild, NothingToReap
  <2> QED
    BY <2>1
<1>4. CASE Proceed(r) \/ Interrupt(r)
  <2>1. Interruption(r) # "none"
    BY DEF Interruption
  <2>2. rstage[r] = "test" /\ rstage'[r] = "term"
    BY <1>4, <2>1 DEF Proceed, Interrupt
  <2> QED
    BY <2>2
<1>5. CASE AwaitTerm(r) \/ AlreadyExited(r) \/ Kill(r) \/ AwaitKill(r) \/ Finish(r)
  BY <1>5 DEF AwaitTerm, AlreadyExited, Kill, AwaitKill, Finish, GivesUp
<1> HIDE <1>0 DEF StepsToReturn
<1> QED
  BY <1>1, <1>2, <1>3, <1>4, <1>5 DEF Step

\* No other step moves it.
LEMMA OthersMoveNobody ==
  ASSUME Types, NEW r \in Runners, Around(r), NEW q \in Runners
  PROVE  rstage'[q] = rstage[q]
BY DEF Around, ChildWrites, ChildExits, ChildIsSignaled, ChildEnds, LeaveDaemon,
   DaemonCloses, StatusIsTaken, RequestStop, Deadline

\* The locals, the child and the pipe agree at every step of every command.
THEOREM RunnerInvariantHolds == Spec => []RunnerInvariant
  BY InitInvariant, NextInvariant, PTL DEF Spec

\* run_command_capture leaves neither a zombie nor an open end of its pipe, whichever
\* of its returns it takes (cacam-usb-source.cpp:724-831).
THEOREM NothingIsLeftBehind == Spec => []NothingLeftBehind
<1>1. RunnerInvariant => NothingLeftBehind
  BY DEF RunnerInvariant, KernelTypes, ChildOf, PipeOf, StageOf, NothingLeftBehind
<1> QED
  BY RunnerInvariantHolds, <1>1, PTL

\* A command that is late or to be stopped returns within nine steps of its runner
\* (cacam-usb-source.cpp:755-816).
THEOREM InterruptionEndsRun == Spec => InterruptionIsHeeded
<1>1. ASSUME RunnerInvariant, [Next]_vars, NEW q \in Runners, stop_requested[q] \/ late[q]
      PROVE  \/ rstage'[q] = rstage[q]
             \/ StepsToReturn[rstage'[q]] < StepsToReturn[rstage[q]]
  <2>1. CASE \E r \in Runners : Step(r)
    BY <1>1, <2>1, InterruptedStep, OthersAreLeftAlone DEF RunnerInvariant, Types, Frame
  <2>2. CASE \E r \in Runners : Around(r)
    BY <1>1, <2>2, OthersMoveNobody DEF RunnerInvariant, Types
  <2>3. CASE UNCHANGED vars
    BY <2>3 DEF vars
  <2> QED
    BY <1>1, <2>1, <2>2, <2>3 DEF Next, Around
<1>2. RunnerInvariant /\ [Next]_vars =>
        [\A r \in Runners : stop_requested[r] \/ late[r] =>
           rstage'[r] = rstage[r] \/ StepsToReturn[rstage'[r]] < StepsToReturn[rstage[r]]]_vars
  BY <1>1
<1> QED
  BY <1>2, RunnerInvariantHolds, PTL DEF Spec, InterruptionIsHeeded

\* What the adb worker reads as the command's exit code and output is the command's
\* (cacam-usb-source.cpp:819-831), whoever else holds the pipe, unless another thread of
\* the host took the status or a read failed.
THEOREM ResultsAreTrue == Spec => []ResultIsTrue
<1>1. RunnerInvariant => ResultIsTrue
  BY ZenonT(60) DEF RunnerInvariant, LocalTypes, KernelTypes, ChildOf, PipeOf, StageOf, Statuses,
     ResultIsTrue
<1> QED
  BY RunnerInvariantHolds, <1>1, PTL

\* No SIGKILL goes out under the number of a child that its runner has reaped
\* (cacam-usb-source.cpp:799-800), however late its pipe was closed.
THEOREM ReapedAreSpared == Spec => []ReapedIsNotKilled
<1>1. RunnerInvariant => ReapedIsNotKilled
  BY DEF RunnerInvariant, ChildOf, ReapedIsNotKilled
<1> QED
  BY RunnerInvariantHolds, <1>1, PTL

-----------------------------------------------------------------------------
(* The update check. *)

\* Who holds the thread object at each stage of the module's life, and that a thread
\* nobody holds has not been started or is over.
Ownership ==
  /\ module \in {"new", "loading", "loaded", "unloading", "curl", "gone", "refused"}
  /\ module \in {"new", "refused", "gone"} <=> ~curl
  /\ module \in {"new", "loading", "refused"} => tstage = "none"
  /\ module \notin {"loaded", "unloading"} => holder = "none"
  /\ module = "loaded" => holder \in {"none", "static"}
  /\ module = "unloading" => holder \in {"none", "shutdown"}
  /\ tstage \notin {"none", "exited"} => holder # "none"

\* The state in which OBS finds the module satisfies Ownership.
LEMMA InitOwnership == UpdateInit => Ownership
  BY DEF UpdateInit, Ownership

\* Every step of the module, the thread and the pages preserves Ownership.
LEMMA NextOwnership == Ownership /\ [UpdateNext]_updateVars => Ownership'
<1> SUFFICES ASSUME Ownership, [UpdateNext]_updateVars PROVE Ownership'
  OBVIOUS
<1>1. CASE Load
  BY <1>1 DEF Load, Ownership
<1>2. CASE CheckUpdate
  BY <1>2 DEF CheckUpdate, Ownership
<1>3. CASE Answer \/ Fails \/ TimesOut
  <2>1. PICK i : Report(i)
    BY <1>3 DEF Answer, Fails, TimesOut
  <2> QED
    BY <2>1 DEF Report, Ownership
<1>4. CASE Publish
  BY <1>4 DEF Publish, Ownership
<1>5. CASE Wait
  BY <1>5 DEF Wait, Ownership
<1>6. CASE Shutdown
  BY <1>6 DEF Shutdown, Ownership
<1>7. CASE Join
  BY <1>7 DEF Join, Joinable, Ownership
<1>8. CASE CleanUp
  BY <1>8 DEF CleanUp, Ownership
<1>9. ASSUME NEW p \in Pages, ShowPage(p) PROVE Ownership'
  BY <1>9 DEF ShowPage, Ownership
<1>10. CASE UNCHANGED updateVars
  BY <1>10 DEF updateVars, Ownership
<1> QED
  BY <1>1, <1>2, <1>3, <1>4, <1>5, <1>6, <1>7, <1>8, <1>9, <1>10
  DEF UpdateNext, UpdateThread, Unload

\* obs_module_unload never stops libcurl or returns while the thread runs, and never
\* leaves a std::thread unjoined: it takes the object over under the mutex and joins
\* it before curl_global_cleanup (update-checker.cpp:71-81, plugin-main.c:73-81).
THEOREM CheckEnds == UpdateSpec => []CheckEndsBeforeUnload
<1>1. Ownership => CheckEndsBeforeUnload
  BY DEF Ownership, CheckEndsBeforeUnload
<1> QED
  BY InitOwnership, NextOwnership, <1>1, PTL DEF UpdateSpec

-----------------------------------------------------------------------------
(* Induction over a set of numbers, and the least of one. *)

NatLess == {ss \in Nat \X Nat : ss[1] < ss[2]}

LEMMA NatLessWellFounded == IsWellFoundedOn(NatLess, Nat)
BY NatLessThanWellFounded DEF OpToRel, NatLess

\* A set of numbers that holds 0 and with each number the next holds all.
LEMMA SetInduction ==
  ASSUME NEW S \in SUBSET Nat, 0 \in S, \A n \in S : n + 1 \in S
  PROVE  S = Nat
<1>1. SUFFICES ASSUME Nat \ S # {} PROVE FALSE
  OBVIOUS
<1>2. PICK x \in Nat \ S : \A y \in Nat \ S : ~(<<y, x>> \in NatLess)
  BY <1>1, NatLessWellFounded, WFMin
<1>3. x # 0 /\ x - 1 \in Nat \ S
  BY <1>2
<1>4. <<x - 1, x>> \in NatLess
  BY <1>3 DEF NatLess
<1> QED
  BY <1>2, <1>3, <1>4

LEMMA LeastOfSet ==
  ASSUME NEW D \in SUBSET Nat, D # {}
  PROVE  Min(D) \in D /\ \A y \in D : Min(D) <= y
<1>1. PICK x \in D : \A y \in D : ~(<<y, x>> \in NatLess)
  BY NatLessWellFounded, WFMin
<1>2. ASSUME NEW y \in D
      PROVE  x <= y
  <2>1. ~(<<y, x>> \in NatLess) /\ x \in Nat /\ y \in Nat
    BY <1>1
  <2> QED
    BY <2>1 DEF NatLess
<1> QED
  BY <1>2 DEF Min

-----------------------------------------------------------------------------
(* The first difference of two sequences. *)

LEMMA StrictPrefixBytewise ==
  ASSUME NEW X, NEW s \in Seq(X), NEW t \in Seq(X)
  PROVE  IsStrictPrefix(s, t) <=>
           Len(s) < Len(t) /\ \A i \in 1 .. Len(s) : s[i] = t[i]
<1>1. Len(s) \in Nat /\ Len(t) \in Nat
  BY LenProperties
<1>2. SubSeq(s, 1, Len(s)) = s
  BY SubSeqFull
<1>3. ASSUME Len(s) <= Len(t)
      PROVE  /\ SubSeq(t, 1, Len(s)) \in Seq(X) /\ Len(SubSeq(t, 1, Len(s))) = Len(s)
             /\ \A i \in 1 .. Len(s) : SubSeq(t, 1, Len(s))[i] = t[i]
  <2>1. \A i \in 1 .. Len(s) : t[i] \in X
    BY <1>1, <1>3, ElementOfSeq
  <2> QED
    BY <1>1, <2>1, SubSeqProperties
<1>4. ASSUME IsStrictPrefix(s, t)
      PROVE  Len(s) < Len(t) /\ \A i \in 1 .. Len(s) : s[i] = t[i]
  <2>1. Len(s) <= Len(t) /\ s = SubSeq(t, 1, Len(s)) /\ s # t
    BY <1>2, <1>4 DEF IsStrictPrefix, IsPrefix
  <2>2. \A i \in 1 .. Len(s) : s[i] = t[i]
    BY <1>3, <2>1
  <2>3. Len(s) # Len(t)
    BY <2>1, <2>2, SeqEqual
  <2> QED
    BY <1>1, <2>1, <2>2, <2>3
<1>5. ASSUME Len(s) < Len(t), \A i \in 1 .. Len(s) : s[i] = t[i]
      PROVE  IsStrictPrefix(s, t)
  <2>1. Len(s) <= Len(t)
    BY <1>1, <1>5
  <2>2. SubSeq(t, 1, Len(s)) = s
    BY <1>3, <1>5, <2>1, SeqEqual
  <2>3. s # t
    BY <1>1, <1>5
  <2> QED
    BY <1>2, <2>1, <2>2, <2>3 DEF IsStrictPrefix, IsPrefix
<1> QED
  BY <1>4, <1>5

\* s and t differ first at m.
DiffersAt(s, t, m) ==
  /\ m \in 1 .. Len(s) /\ m \in 1 .. Len(t)
  /\ s[m] # t[m] /\ \A j \in 1 .. m - 1 : s[j] = t[j]

LEMMA DiffersOnce ==
  ASSUME NEW s, NEW t, NEW m \in Nat, NEW n \in Nat, DiffersAt(s, t, m), DiffersAt(s, t, n)
  PROVE  m = n
<1>1. m >= 1 /\ n >= 1 /\ s[m] # t[m] /\ s[n] # t[n]
  BY DEF DiffersAt
<1>2. ~(m < n)
  <2>1. m < n => m \in 1 .. n - 1
    BY <1>1
  <2> QED
    BY <1>1, <2>1 DEF DiffersAt
<1>3. ~(n < m)
  <2>1. n < m => n \in 1 .. m - 1
    BY <1>1
  <2> QED
    BY <1>1, <2>1 DEF DiffersAt
<1> QED
  BY <1>2, <1>3

LEMMA DiffersSymmetric ==
  ASSUME NEW s, NEW t, NEW m, DiffersAt(s, t, m)
  PROVE  DiffersAt(t, s, m)
BY Zenon DEF DiffersAt

LEMMA DifferingTexts ==
  ASSUME NEW X, NEW s \in Seq(X), NEW t \in Seq(X), NEW m, DiffersAt(s, t, m)
  PROVE  m \in Nat /\ s # t /\ ~IsStrictPrefix(s, t)
<1>1. m \in 1 .. Len(s) /\ m \in 1 .. Len(t) /\ s[m] # t[m] /\ Len(s) \in Nat
  BY LenProperties DEF DiffersAt
<1> QED
  BY <1>1, StrictPrefixBytewise

\* Two sequences differ first somewhere, or neither differs where both have elements.
LEMMA FirstDifferenceOf ==
  ASSUME NEW X, NEW s \in Seq(X), NEW t \in Seq(X),
         NEW D, D = {i \in DOMAIN s \cap DOMAIN t : s[i] # t[i]}, D # {}
  PROVE  Min(D) \in Nat /\ DiffersAt(s, t, Min(D))
<1>1. Len(s) \in Nat /\ Len(t) \in Nat /\ DOMAIN s = 1 .. Len(s) /\ DOMAIN t = 1 .. Len(t)
  BY LenProperties
<1>2. PICK m : m = Min(D)
  OBVIOUS
<1>3. D \in SUBSET Nat
  BY <1>1
<1>4. m \in D /\ \A y \in D : m <= y
  BY <1>2, <1>3, LeastOfSet
<1>5. m \in Nat /\ m \in 1 .. Len(s) /\ m \in 1 .. Len(t) /\ s[m] # t[m]
  BY <1>1, <1>4
<1>6. ASSUME NEW j \in 1 .. m - 1, s[j] # t[j]
      PROVE  FALSE
  <2>1. j \in 1 .. Len(s) /\ j \in 1 .. Len(t) /\ j < m /\ j \in Nat
    BY <1>1, <1>5
  <2>2. m <= j
    BY <1>1, <1>4, <1>6, <2>1
  <2> QED
    BY <1>5, <2>1, <2>2
<1> QED
  BY <1>2, <1>5, <1>6 DEF DiffersAt

LEMMA NoDifference ==
  ASSUME NEW X, NEW s \in Seq(X), NEW t \in Seq(X),
         {i \in DOMAIN s \cap DOMAIN t : s[i] # t[i]} = {}
  PROVE  /\ s = t <=> Len(s) = Len(t)
         /\ IsStrictPrefix(s, t) <=> Len(s) < Len(t)
         /\ ~ \E m : DiffersAt(s, t, m)
<1>1. Len(s) \in Nat /\ Len(t) \in Nat /\ DOMAIN s = 1 .. Len(s) /\ DOMAIN t = 1 .. Len(t)
  BY LenProperties
<1>2. \A i \in 1 .. Len(s) : i \in 1 .. Len(t) => s[i] = t[i]
  BY <1>1, Zenon
<1>3. \A i \in 1 .. Len(s) : i <= Len(t) => s[i] = t[i]
  BY <1>1, <1>2
<1>4. s = t <=> Len(s) = Len(t)
  <2>1. Len(s) = Len(t) => \A i \in 1 .. Len(s) : s[i] = t[i]
    BY <1>1, <1>3
  <2> QED
    BY <2>1, SeqEqual
<1>5. IsStrictPrefix(s, t) <=> Len(s) < Len(t)
  BY <1>1, <1>3, StrictPrefixBytewise
<1>6. ~ \E m : DiffersAt(s, t, m)
  BY <1>2, Zenon DEF DiffersAt
<1> QED
  BY <1>4, <1>5, <1>6

LEMMA DifferentTexts ==
  ASSUME NEW X, NEW s \in Seq(X), NEW t \in Seq(X), Len(s) = Len(t), s # t
  PROVE  \E m \in Nat : DiffersAt(s, t, m)
<1>1. PICK D : D = {i \in DOMAIN s \cap DOMAIN t : s[i] # t[i]}
  OBVIOUS
<1>2. D # {}
  BY <1>1, NoDifference, Zenon
<1> QED
  BY <1>1, <1>2, FirstDifferenceOf

-----------------------------------------------------------------------------
(* Texts. *)

LEMMA SignOf ==
  ASSUME NEW m \in Nat, NEW n \in Nat
  PROVE  Sign(m, n) \in Int /\ (Sign(m, n) = 0 <=> m = n) /\ (Sign(m, n) > 0 <=> n < m)
BY DEF Sign

\* Texts compare as ASCII codes do where they differ first, and a text comes after
\* what it begins with.
LEMMA TextOrder ==
  ASSUME NEW s \in Seq(Nat), NEW t \in Seq(Nat)
  PROVE  /\ CompareText(s, t) = 0 <=> s = t
         /\ CompareText(s, t) > 0 <=> Before(t, s, <) \/ IsStrictPrefix(t, s)
         /\ \A m \in Nat : DiffersAt(s, t, m) => (CompareText(s, t) > 0 <=> t[m] < s[m])
<1>1. /\ Len(s) \in Nat /\ Len(t) \in Nat /\ DOMAIN s = 1 .. Len(s) /\ DOMAIN t = 1 .. Len(t)
      /\ \A i \in 1 .. Len(s) : s[i] \in Nat
      /\ \A i \in 1 .. Len(t) : t[i] \in Nat
  BY LenProperties, ElementOfSeq
<1>2. PICK D : D = {i \in DOMAIN s \cap DOMAIN t : s[i] # t[i]}
  OBVIOUS
<1>3. CompareText(s, t) = IF D = {} THEN Sign(Len(s), Len(t)) ELSE Sign(s[Min(D)], t[Min(D)])
  <2>1. \A i \in DOMAIN s \cap DOMAIN t : Sign(s[i], t[i]) # 0 <=> s[i] # t[i]
    BY <1>1, SignOf, Zenon
  <2>2. D = {i \in DOMAIN s \cap DOMAIN t : Sign(s[i], t[i]) # 0}
    BY <1>2, <2>1
  <2> QED
    BY <2>2, Zenon DEF CompareText, FirstDifference
<1>4. Before(t, s, <) <=> \E i : DiffersAt(s, t, i) /\ t[i] < s[i]
  <2>1. ASSUME NEW i \in 1 .. Len(t), i \in 1 .. Len(s), t[i] < s[i], \A j \in 1 .. i - 1 : t[j] = s[j]
        PROVE  DiffersAt(s, t, i)
    <3>1. s[i] # t[i]
      BY <1>1, <2>1
    <3> QED
      BY <2>1, <3>1 DEF DiffersAt
  <2>2. Before(t, s, <) <=>
          \E i \in 1 .. Len(t) : i \in 1 .. Len(s) /\ t[i] < s[i] /\ \A j \in 1 .. i - 1 : t[j] = s[j]
    BY <1>1 DEF Before
  <2>3. ASSUME NEW i, DiffersAt(s, t, i)
        PROVE  i \in 1 .. Len(t) /\ i \in 1 .. Len(s) /\ \A j \in 1 .. i - 1 : t[j] = s[j]
    BY <2>3, Zenon DEF DiffersAt
  <2> QED
    BY <2>1, <2>2, <2>3, Zenon
<1>5. CASE D = {}
  <2>1. /\ s = t <=> Len(s) = Len(t)
        /\ ~ \E m : DiffersAt(s, t, m)
    BY <1>2, <1>5, NoDifference, Zenon
  <2>2. IsStrictPrefix(t, s) <=> Len(t) < Len(s)
    <3>1. {i \in DOMAIN t \cap DOMAIN s : t[i] # s[i]} = {}
      BY <1>2, <1>5
    <3> QED
      BY <3>1, NoDifference, Zenon
  <2>3. CompareText(s, t) = Sign(Len(s), Len(t))
    BY <1>3, <1>5
  <2>4. /\ CompareText(s, t) = 0 <=> Len(s) = Len(t)
        /\ CompareText(s, t) > 0 <=> Len(t) < Len(s)
    <3>1. /\ Sign(Len(s), Len(t)) = 0 <=> Len(s) = Len(t)
          /\ Sign(Len(s), Len(t)) > 0 <=> Len(t) < Len(s)
      BY <1>1, SignOf, Zenon
    <3> QED
      BY <2>3, <3>1
  <2> QED
    BY <1>4, <2>1, <2>2, <2>4, Zenon
<1>6. CASE D # {}
  <2>1. PICK m \in Nat : m = Min(D) /\ DiffersAt(s, t, m)
    BY <1>2, <1>6, FirstDifferenceOf
  <2>2. CompareText(s, t) = Sign(s[m], t[m])
    BY <1>3, <1>6, <2>1
  <2>3. s[m] # t[m] /\ s[m] \in Nat /\ t[m] \in Nat
    BY <1>1, <2>1 DEF DiffersAt
  <2>4. CompareText(s, t) # 0 /\ (CompareText(s, t) > 0 <=> t[m] < s[m])
    <3>1. /\ Sign(s[m], t[m]) = 0 <=> s[m] = t[m]
          /\ Sign(s[m], t[m]) > 0 <=> t[m] < s[m]
      BY <2>3, SignOf, Zenon
    <3> QED
      BY <2>2, <2>3, <3>1
  <2>5. s # t /\ ~IsStrictPrefix(t, s)
    BY <2>1, DiffersSymmetric, DifferingTexts, Zenon
  <2>6. \A n : DiffersAt(s, t, n) => n = m
    <3>1. \A n : DiffersAt(s, t, n) => n \in Nat
      BY DifferingTexts, Zenon
    <3> QED
      BY <2>1, <3>1, DiffersOnce, Zenon
  <2>7. Before(t, s, <) <=> t[m] < s[m]
    BY <1>4, <2>1, <2>6, Zenon
  <2> QED
    BY <2>4, <2>5, <2>6, <2>7, Zenon
<1> QED
  BY <1>5, <1>6

-----------------------------------------------------------------------------
(* Numbers. *)

DigitText == Seq(Digits)

\* values[n] is what the first n digits of the field say.
CountsDigits(values, field) ==
  /\ values = [n \in 0 .. Len(field) |-> values[n]]
  /\ \A n \in 0 .. Len(field) : values[n] \in Nat
  /\ values[0] = 0
  /\ \A n \in 1 .. Len(field) : values[n] = 10 * values[n - 1] + field[n] - 48

LEMMA DigitsOfField ==
  ASSUME NEW field \in DigitText
  PROVE  /\ Len(field) \in Nat /\ field \in Seq(Nat)
         /\ \A n \in 1 .. Len(field) : field[n] \in Nat /\ field[n] >= 48 /\ field[n] <= 57
<1>1. Len(field) \in Nat /\ DOMAIN field = 1 .. Len(field)
  BY LenProperties DEF DigitText
<1>2. \A n \in 1 .. Len(field) : field[n] \in 48 .. 57
  BY ElementOfSeq DEF DigitText, Digits
<1>3. \A d \in 48 .. 57 : d \in Nat /\ d >= 48 /\ d <= 57
  OBVIOUS
<1>4. field \in Seq(Nat)
  BY SeqMonotonic DEF DigitText, Digits
<1> QED
  BY <1>1, <1>2, <1>3, <1>4, Zenon

\* The digits of a field can be counted, up to every place.
LEMMA CountingExists ==
  ASSUME NEW field \in DigitText
  PROVE  \E values : CountsDigits(values, field)
<1> DEFINE Counts(f, n) == /\ f = [i \in 0 .. n |-> f[i]]
                           /\ \A i \in 0 .. n : f[i] \in Nat
                           /\ f[0] = 0
                           /\ \A i \in 1 .. n : f[i] = 10 * f[i - 1] + field[i] - 48
           Counted == {n \in Nat : n <= Len(field) => \E f : Counts(f, n)}
<1>1. 0 \in Counted
  <2>1. Counts([i \in 0 .. 0 |-> 0], 0)
    OBVIOUS
  <2> QED
    BY <2>1
<1>2. ASSUME NEW n \in Counted
      PROVE  n + 1 \in Counted
  <2> SUFFICES ASSUME n + 1 <= Len(field) PROVE \E f : Counts(f, n + 1)
    OBVIOUS
  <2>1. n \in Nat /\ n <= Len(field) /\ n + 1 \in 1 .. Len(field)
    BY DigitsOfField
  <2>2. PICK f : Counts(f, n)
    BY <2>1
  <2>3. PICK last \in Nat : last = 10 * f[n] + field[n + 1] - 48
    <3>1. n \in 0 .. n
      BY <2>1
    <3>2. PICK prior \in Nat, digit \in Nat : prior = f[n] /\ digit = field[n + 1] /\ digit >= 48
      BY <2>1, <2>2, <3>1, DigitsOfField, Zenon
    <3>3. 10 * prior + digit - 48 \in Nat
      BY <3>2
    <3> QED
      BY <3>2, <3>3, Zenon
  <2> DEFINE g == [i \in 0 .. n + 1 |-> IF i = n + 1 THEN last ELSE f[i]]
  <2>4. /\ g[n + 1] = last /\ \A i \in 0 .. n : g[i] = f[i]
        /\ g = [i \in 0 .. n + 1 |-> g[i]]
    BY <2>1
  <2> HIDE DEF g
  <2>5. \A i \in 0 .. n + 1 : g[i] \in Nat
    <3>1. \A i \in 0 .. n + 1 : i \in 0 .. n \/ i = n + 1
      BY <2>1
    <3> QED
      BY <2>2, <2>3, <2>4, <3>1, Zenon
  <2>6. g[0] = 0
    BY <2>1, <2>2, <2>4
  <2>7. \A i \in 1 .. n + 1 : g[i] = 10 * g[i - 1] + field[i] - 48
    <3>1. ASSUME NEW i \in 1 .. n
          PROVE  g[i] = 10 * g[i - 1] + field[i] - 48
      <4>1. i \in 0 .. n /\ i - 1 \in 0 .. n
        BY <2>1
      <4>2. g[i] = f[i] /\ g[i - 1] = f[i - 1]
        BY <2>4, <4>1, Zenon
      <4> QED
        BY <2>2, <4>2, Zenon
    <3>2. g[n + 1] = 10 * g[n] + field[n + 1] - 48
      <4>1. n \in 0 .. n
        BY <2>1
      <4> QED
        BY <2>3, <2>4, <4>1, Zenon
    <3>3. \A i \in 1 .. n + 1 : i \in 1 .. n \/ (i = n + 1 /\ i - 1 = n)
      BY <2>1
    <3> QED
      BY <3>1, <3>2, <3>3
  <2> QED
    BY <2>4, <2>5, <2>6, <2>7
<1> HIDE DEF Counted
<1>3. Counted = Nat
  <2>1. Counted \in SUBSET Nat
    BY DEF Counted
  <2> QED
    BY <1>1, <1>2, <2>1, SetInduction
<1>4. Len(field) \in Counted
  BY <1>3, DigitsOfField
<1>5. PICK f : Counts(f, Len(field))
  BY <1>4, DigitsOfField DEF Counted
<1> QED
  BY <1>5 DEF CountsDigits

LEMMA ValueIsCounted ==
  ASSUME NEW field \in DigitText
  PROVE  \E values : CountsDigits(values, field) /\ Value(field) = values[Len(field)]
<1> DEFINE Counted(f) == [n \in 0 .. Len(field) |->
                            IF n = 0 THEN 0 ELSE 10 * f[n - 1] + field[n] - 48]
           chosen == CHOOSE f : f = Counted(f)
<1>1. Value(field) = chosen[Len(field)]
  BY Zenon DEF Value
<1>2. PICK values : CountsDigits(values, field)
  BY CountingExists
<1>3. values = Counted(values)
  <2>1. \A n \in 0 .. Len(field) : values[n] = Counted(values)[n]
    <3>1. \A n \in 0 .. Len(field) : n = 0 \/ n \in 1 .. Len(field)
      BY DigitsOfField
    <3>2. \A n \in 1 .. Len(field) : n # 0
      BY DigitsOfField
    <3>3. values[0] = 0 /\ \A n \in 1 .. Len(field) : values[n] = 10 * values[n - 1] + field[n] - 48
      BY <1>2 DEF CountsDigits
    <3> QED
      BY <3>1, <3>2, <3>3
  <2> QED
    BY <1>2, <2>1 DEF CountsDigits
<1> HIDE DEF Counted
<1>4. chosen = Counted(chosen)
  BY <1>3
<1> HIDE DEF chosen
<1>5. \A n \in 0 .. Len(field) : chosen[n] = IF n = 0 THEN 0 ELSE 10 * chosen[n - 1] + field[n] - 48
  BY <1>4 DEF Counted
<1>6. chosen = [n \in 0 .. Len(field) |-> chosen[n]]
  BY <1>4 DEF Counted
<1>7. \A n \in 0 .. Len(field) : chosen[n] = values[n]
  <2> DEFINE Agrees == {n \in Nat : n <= Len(field) => chosen[n] = values[n]}
  <2>1. 0 \in Agrees
    BY <1>2, <1>5, DigitsOfField DEF CountsDigits
  <2>2. ASSUME NEW n \in Agrees
        PROVE  n + 1 \in Agrees
    <3> SUFFICES ASSUME n + 1 <= Len(field) PROVE chosen[n + 1] = values[n + 1]
      OBVIOUS
    <3>1. n \in Nat /\ n <= Len(field) /\ n + 1 \in 1 .. Len(field) /\ n + 1 \in 0 .. Len(field)
          /\ n + 1 # 0 /\ n + 1 - 1 = n
      BY DigitsOfField
    <3>2. chosen[n + 1] = 10 * chosen[n] + field[n + 1] - 48
      BY <1>5, <3>1
    <3>3. values[n + 1] = 10 * values[n] + field[n + 1] - 48
      <4>1. PICK i \in 1 .. Len(field) : i = n + 1
        BY <3>1, Zenon
      <4>2. values[i] = 10 * values[i - 1] + field[i] - 48
        BY <1>2, Zenon DEF CountsDigits
      <4>3. i - 1 = n
        BY <3>1, <4>1
      <4> QED
        BY <4>1, <4>2, <4>3, Zenon
    <3> QED
      BY <3>1, <3>2, <3>3
  <2>3. Agrees = Nat
    <3> HIDE DEF Agrees
    <3>1. Agrees \in SUBSET Nat
      BY DEF Agrees
    <3> QED
      BY <2>1, <2>2, <3>1, SetInduction
  <2> QED
    BY <2>3, DigitsOfField
<1>8. chosen = values
  BY <1>2, <1>6, <1>7 DEF CountsDigits
<1> QED
  BY <1>1, <1>2, <1>8

\* The next digit after the first n counts as it should.
CountsNext(values, field, n) ==
  \E before \in Nat, digit \in Nat :
    /\ before = values[n] /\ digit = field[n + 1] /\ 48 <= digit /\ digit <= 57
    /\ values[n + 1] \in Nat /\ values[n + 1] = 10 * before + digit - 48

LEMMA CountsOneDigit ==
  ASSUME NEW field \in DigitText, NEW values, CountsDigits(values, field),
         NEW n \in Nat, n + 1 <= Len(field)
  PROVE  CountsNext(values, field, n)
<1>1. PICK i \in 1 .. Len(field) : i = n + 1
  BY DigitsOfField
<1>2. i - 1 = n /\ n \in 0 .. Len(field) /\ i \in 0 .. Len(field)
  BY <1>1, DigitsOfField
<1>3. /\ values[i] = 10 * values[i - 1] + field[i] - 48
      /\ values[i - 1] \in Nat /\ values[i] \in Nat
  BY <1>2, Zenon DEF CountsDigits
<1>4. field[i] \in Nat /\ 48 <= field[i] /\ field[i] <= 57
  BY DigitsOfField
<1> QED
  BY <1>1, <1>2, <1>3, <1>4, Zenon DEF CountsNext

LEMMA ValueIsNatural ==
  ASSUME NEW field \in DigitText
  PROVE  Value(field) \in Nat
<1>1. PICK values : CountsDigits(values, field) /\ Value(field) = values[Len(field)]
  BY ValueIsCounted
<1>2. Len(field) \in 0 .. Len(field)
  BY DigitsOfField
<1> QED
  BY <1>1, <1>2 DEF CountsDigits

LEMMA NextDigitKeepsOrder ==
  ASSUME NEW a \in Nat, NEW b \in Nat, NEW d \in Nat, NEW e \in Nat, a < b, d <= 57, 48 <= e
  PROVE  10 * a + d - 48 < 10 * b + e - 48
<1>1. 10 * a + 10 <= 10 * b
  OBVIOUS
<1> QED
  BY <1>1

\* A number that is less stays less, whatever digits follow.
LEMMA StaysLess ==
  ASSUME NEW f \in DigitText, NEW g \in DigitText, NEW F, NEW G,
         CountsDigits(F, f), CountsDigits(G, g),
         NEW i \in Nat, NEW k \in Nat, F[i] < G[i + k]
  PROVE  \A n \in Nat : i <= n /\ n <= Len(f) /\ n + k <= Len(g) => F[n] < G[n + k]
<1> DEFINE Less == {j \in Nat : i + j <= Len(f) /\ i + j + k <= Len(g) => F[i + j] < G[i + j + k]}
<1>1. Len(f) \in Nat /\ Len(g) \in Nat
  BY DigitsOfField
<1>2. 0 \in Less
  BY <1>1
<1>3. ASSUME NEW j \in Less
      PROVE  j + 1 \in Less
  <2> SUFFICES ASSUME i + (j + 1) <= Len(f), i + (j + 1) + k <= Len(g)
               PROVE  F[i + (j + 1)] < G[i + (j + 1) + k]
    OBVIOUS
  <2>1. PICK n \in Nat, l \in Nat : n = i + j /\ l = i + j + k
    OBVIOUS
  <2>2. /\ n + 1 = i + (j + 1) /\ l + 1 = i + (j + 1) + k
        /\ n + 1 <= Len(f) /\ l + 1 <= Len(g) /\ n <= Len(f) /\ l <= Len(g)
    BY <1>1, <2>1
  <2>3. F[n] < G[l]
    BY <2>1, <2>2
  <2>4. PICK a \in Nat, d \in Nat :
          /\ a = F[n] /\ d <= 57 /\ 48 <= d
          /\ F[n + 1] \in Nat /\ F[n + 1] = 10 * a + d - 48
    <3>1. CountsNext(F, f, n)
      BY <2>1, <2>2, CountsOneDigit, Zenon
    <3> QED
      BY <3>1, Zenon DEF CountsNext
  <2>5. PICK b \in Nat, e \in Nat :
          /\ b = G[l] /\ e <= 57 /\ 48 <= e
          /\ G[l + 1] \in Nat /\ G[l + 1] = 10 * b + e - 48
    <3>1. CountsNext(G, g, l)
      BY <2>1, <2>2, CountsOneDigit, Zenon
    <3> QED
      BY <3>1, Zenon DEF CountsNext
  <2>6. a < b
    BY <2>3, <2>4, <2>5, Zenon
  <2>7. 10 * a + d - 48 < 10 * b + e - 48
    BY <2>4, <2>5, <2>6, NextDigitKeepsOrder, Zenon
  <2> QED
    BY <2>2, <2>4, <2>5, <2>7, Zenon
<1>4. Less = Nat
  <2> HIDE DEF Less
  <2>1. Less \in SUBSET Nat
    BY DEF Less
  <2> QED
    BY <1>2, <1>3, <2>1, SetInduction
<1>5. ASSUME NEW n \in Nat, i <= n, n <= Len(f), n + k <= Len(g)
      PROVE  F[n] < G[n + k]
  <2>1. PICK j \in Nat : n = i + j
    <3>1. n - i \in Nat /\ n = i + (n - i)
      BY <1>5
    <3> QED
      BY <3>1
  <2>2. j \in Less
    BY <1>4
  <2>3. n + k = i + j + k
    BY <2>1
  <2>4. i + j <= Len(f) /\ i + j + k <= Len(g)
    BY <1>5, <2>1, <2>3, Zenon
  <2> QED
    BY <2>1, <2>2, <2>3, <2>4, Zenon
<1> QED
  BY <1>5

LEMMA EqualSoFar ==
  ASSUME NEW f \in DigitText, NEW g \in DigitText, NEW F, NEW G,
         CountsDigits(F, f), CountsDigits(G, g),
         NEW i \in Nat, i <= Len(f), i <= Len(g), \A j \in 1 .. i : f[j] = g[j]
  PROVE  F[i] = G[i]
<1> DEFINE Equal == {n \in Nat : n <= i => F[n] = G[n]}
<1>1. Len(f) \in Nat /\ Len(g) \in Nat
  BY DigitsOfField
<1>2. 0 \in Equal
  BY DEF CountsDigits
<1>3. ASSUME NEW n \in Equal
      PROVE  n + 1 \in Equal
  <2> SUFFICES ASSUME n + 1 <= i PROVE F[n + 1] = G[n + 1]
    OBVIOUS
  <2>1. n \in Nat /\ n <= i /\ n + 1 \in 1 .. i /\ n + 1 <= Len(f) /\ n + 1 <= Len(g)
    BY <1>1
  <2>2. F[n] = G[n] /\ f[n + 1] = g[n + 1]
    BY <2>1
  <2>3. F[n + 1] = 10 * F[n] + f[n + 1] - 48
    <3>1. CountsNext(F, f, n)
      BY <2>1, CountsOneDigit, Zenon
    <3> QED
      BY <3>1, Zenon DEF CountsNext
  <2>4. G[n + 1] = 10 * G[n] + g[n + 1] - 48
    <3>1. CountsNext(G, g, n)
      BY <2>1, CountsOneDigit, Zenon
    <3> QED
      BY <3>1, Zenon DEF CountsNext
  <2> QED
    BY <2>2, <2>3, <2>4, Zenon
<1>4. Equal = Nat
  <2> HIDE DEF Equal
  <2>1. Equal \in SUBSET Nat
    BY DEF Equal
  <2> QED
    BY <1>2, <1>3, <2>1, SetInduction
<1> QED
  BY <1>4

\* A number whose first digit is not 0 is positive, however many digits are read.
LEMMA StaysPositive ==
  ASSUME NEW g \in DigitText, NEW G, CountsDigits(G, g), g # <<>>, g[1] # 48,
         NEW k \in Nat \ {0}, k <= Len(g)
  PROVE  G[k] > 0
<1> DEFINE Positive == {n \in Nat : n + 1 <= Len(g) => G[n + 1] > 0}
<1>1. Len(g) \in Nat
  BY DigitsOfField
<1>2. 0 \in Positive
  <2> SUFFICES ASSUME 1 <= Len(g) PROVE G[1] > 0
    OBVIOUS
  <2>1. 0 + 1 <= Len(g) /\ 0 + 1 = 1
    OBVIOUS
  <2>2. PICK b \in Nat, e \in Nat :
          /\ b = G[0] /\ e = g[1] /\ 48 <= e /\ G[1] \in Nat /\ G[1] = 10 * b + e - 48
    <3>1. CountsNext(G, g, 0)
      BY <2>1, CountsOneDigit
    <3> QED
      BY <2>1, <3>1, Zenon DEF CountsNext
  <2>3. 10 * b + e - 48 > 0
    BY <2>2
  <2> QED
    BY <2>2, <2>3
<1>3. ASSUME NEW n \in Positive
      PROVE  n + 1 \in Positive
  <2> SUFFICES ASSUME n + 1 + 1 <= Len(g) PROVE G[n + 1 + 1] > 0
    OBVIOUS
  <2>1. n \in Nat /\ n + 1 \in Nat /\ n + 1 <= Len(g)
    BY <1>1
  <2>2. PICK b \in Nat, e \in Nat :
          /\ b = G[n + 1] /\ 48 <= e /\ G[n + 1 + 1] \in Nat /\ G[n + 1 + 1] = 10 * b + e - 48
    <3>1. CountsNext(G, g, n + 1)
      BY <2>1, CountsOneDigit, Zenon
    <3> QED
      BY <3>1, Zenon DEF CountsNext
  <2>3. b > 0
    BY <2>1, <2>2
  <2>4. 10 * b + e - 48 > 0
    BY <2>2, <2>3
  <2> QED
    BY <2>2, <2>4
<1>4. Positive = Nat
  <2> HIDE DEF Positive
  <2>1. Positive \in SUBSET Nat
    BY DEF Positive
  <2> QED
    BY <1>2, <1>3, <2>1, SetInduction
<1>5. PICK n \in Nat : k = n + 1
  <2>1. k - 1 \in Nat /\ k = (k - 1) + 1
    OBVIOUS
  <2> QED
    BY <2>1
<1>6. n \in Positive
  BY <1>4
<1> QED
  BY <1>5, <1>6, Zenon

LEMMA NextDigitDecides ==
  ASSUME NEW f \in DigitText, NEW g \in DigitText, NEW F, NEW G,
         CountsDigits(F, f), CountsDigits(G, g),
         NEW n \in Nat, n + 1 <= Len(f), n + 1 <= Len(g)
  PROVE  F[n] = G[n] /\ f[n + 1] < g[n + 1] => F[n + 1] < G[n + 1]
<1>1. PICK a \in Nat, d \in Nat :
        /\ a = F[n] /\ d = f[n + 1] /\ 48 <= d /\ d <= 57
        /\ F[n + 1] \in Nat /\ F[n + 1] = 10 * a + d - 48
  <2>1. CountsNext(F, f, n)
    BY CountsOneDigit, Zenon
  <2> QED
    BY <2>1, Zenon DEF CountsNext
<1>2. PICK b \in Nat, e \in Nat :
        /\ b = G[n] /\ e = g[n + 1] /\ 48 <= e /\ e <= 57
        /\ G[n + 1] \in Nat /\ G[n + 1] = 10 * b + e - 48
  <2>1. CountsNext(G, g, n)
    BY CountsOneDigit, Zenon
  <2> QED
    BY <2>1, Zenon DEF CountsNext
<1>3. a = b /\ d < e => 10 * a + d - 48 < 10 * b + e - 48
  OBVIOUS
<1> QED
  BY <1>1, <1>2, <1>3, Zenon

LEMMA FirstDigitDecides ==
  ASSUME NEW f \in DigitText, NEW g \in DigitText, Len(f) = Len(g),
         NEW m \in Nat, DiffersAt(f, g, m), f[m] < g[m]
  PROVE  Value(f) < Value(g)
<1>1. PICK F : CountsDigits(F, f) /\ Value(f) = F[Len(f)]
  BY ValueIsCounted
<1>2. PICK G : CountsDigits(G, g) /\ Value(g) = G[Len(g)]
  BY ValueIsCounted
<1>3. PICK n \in Nat : n = m - 1 /\ n + 1 = m
  BY DEF DiffersAt
<1>4. n + 1 <= Len(f) /\ n + 1 <= Len(g) /\ n <= Len(f) /\ n <= Len(g) /\ m <= Len(f) /\ Len(f) \in Nat
  BY <1>3, DigitsOfField DEF DiffersAt
<1>5. F[n] = G[n]
  <2>1. \A j \in 1 .. n : f[j] = g[j]
    BY <1>3, Zenon DEF DiffersAt
  <2> QED
    BY <1>1, <1>2, <1>3, <1>4, <2>1, EqualSoFar
<1>6. F[n + 1] < G[n + 1]
  <2>1. f[n + 1] < g[n + 1]
    BY <1>3, Zenon
  <2> QED
    BY <1>1, <1>2, <1>3, <1>4, <1>5, <2>1, NextDigitDecides, Zenon
<1>10. F[m] < G[m + 0]
  <2>1. m + 0 = m
    OBVIOUS
  <2> QED
    BY <1>3, <1>6, <2>1, Zenon
<1>11. \A l \in Nat : m <= l /\ l <= Len(f) /\ l + 0 <= Len(g) => F[l] < G[l + 0]
  BY <1>1, <1>2, <1>10, StaysLess, Zenon
<1>12. PICK l \in Nat : l = Len(f) /\ l + 0 = l /\ l <= l
  BY <1>4
<1> QED
  BY <1>1, <1>2, <1>4, <1>11, <1>12, Zenon

LEMMA MoreDigitsDecide ==
  ASSUME NEW f \in DigitText, NEW g \in DigitText, Len(f) < Len(g), f # <<>>, ~LeadingZero(g)
  PROVE  Value(f) < Value(g)
<1>1. PICK F : CountsDigits(F, f) /\ Value(f) = F[Len(f)]
  BY ValueIsCounted
<1>2. PICK G : CountsDigits(G, g) /\ Value(g) = G[Len(g)]
  BY ValueIsCounted
<1>3. PICK m \in Nat, n \in Nat : m = Len(f) /\ n = Len(g) /\ m < n
  BY DigitsOfField
<1>4. m > 0
  <2>1. Len(f) # 0
    BY EmptySeq DEF DigitText
  <2> QED
    BY <1>3, <2>1
<1>5. PICK k \in Nat \ {0} : n = m + k
  <2>1. n - m \in Nat \ {0} /\ n = m + (n - m)
    BY <1>3
  <2> QED
    BY <2>1
<1>6. k <= n /\ 0 + k = k /\ m <= m /\ 0 <= m /\ n <= n
  BY <1>5
<1>7. g # <<>> /\ g[1] # 48
  <2>1. g # <<>>
    <3>1. Len(<<>>) = 0
      OBVIOUS
    <3> QED
      BY <1>3, <3>1
  <2>2. Len(g) > 1
    BY <1>3, <1>4
  <2> QED
    BY <2>1, <2>2 DEF LeadingZero
<1>8. G[k] > 0
  BY <1>2, <1>3, <1>6, <1>7, StaysPositive, Zenon
<1>9. F[0] < G[0 + k]
  <2>1. F[0] = 0
    BY <1>1 DEF CountsDigits
  <2>2. G[k] \in Nat
    <3>1. k \in 0 .. Len(g)
      BY <1>3, <1>6
    <3> QED
      BY <1>2, <3>1 DEF CountsDigits
  <2>3. F[0] < G[k]
    BY <1>8, <2>1, <2>2
  <2> QED
    BY <1>6, <2>3, Zenon
<1>10. \A l \in Nat : 0 <= l /\ l <= Len(f) /\ l + k <= Len(g) => F[l] < G[l + k]
  BY <1>1, <1>2, <1>9, StaysLess
<1>11. F[m] < G[m + k]
  BY <1>3, <1>5, <1>6, <1>10, Zenon
<1> QED
  BY <1>1, <1>2, <1>3, <1>5, <1>11, Zenon

-----------------------------------------------------------------------------
(* Identifiers. *)

NumericField == {f \in DigitText : f # <<>> /\ ~LeadingZero(f)}
Identifier   == {f \in Seq(Nat) : f # <<>> /\ (Numeric(f) => ~LeadingZero(f))}

LEMMA NumbersCompare ==
  ASSUME NEW f \in NumericField, NEW g \in NumericField
  PROVE  /\ CompareNumericIdentifiers(f, g) = 0 <=> f = g
         /\ CompareNumericIdentifiers(f, g) > 0 <=> Value(g) < Value(f)
<1>1. f \in DigitText /\ g \in DigitText /\ f # <<>> /\ g # <<>> /\ ~LeadingZero(f) /\ ~LeadingZero(g)
  BY DEF NumericField
<1>2. /\ Len(f) \in Nat /\ f \in Seq(Nat) /\ \A n \in 1 .. Len(f) : f[n] \in Nat
      /\ Len(g) \in Nat /\ g \in Seq(Nat) /\ \A n \in 1 .. Len(g) : g[n] \in Nat
  BY <1>1, DigitsOfField
<1>3. Value(f) \in Nat /\ Value(g) \in Nat
  BY <1>1, ValueIsNatural
<1>4. CASE Len(f) = Len(g)
  <2>1. CompareNumericIdentifiers(f, g) = CompareText(f, g)
    BY <1>4 DEF CompareNumericIdentifiers
  <2>2. CompareText(f, g) = 0 <=> f = g
    BY <1>2, TextOrder
  <2>3. CASE f = g
    <3>1. CompareText(f, g) = 0
      BY <2>2, <2>3
    <3> QED
      BY <1>3, <2>1, <2>2, <2>3, <3>1
  <2>4. CASE f # g
    <3>1. PICK m \in Nat : DiffersAt(f, g, m)
      BY <1>2, <1>4, <2>4, DifferentTexts
    <3>2. CompareText(f, g) > 0 <=> g[m] < f[m]
      BY <1>2, <3>1, TextOrder
    <3>3. f[m] \in Nat /\ g[m] \in Nat /\ f[m] # g[m]
      BY <1>2, <3>1 DEF DiffersAt
    <3>4. g[m] < f[m] => Value(g) < Value(f)
      BY <1>1, <1>4, <3>1, DiffersSymmetric, FirstDigitDecides
    <3>5. f[m] < g[m] => Value(f) < Value(g)
      BY <1>1, <1>4, <3>1, FirstDigitDecides
    <3>6. Value(g) < Value(f) => g[m] < f[m]
      BY <1>3, <3>3, <3>5
    <3> QED
      BY <2>1, <2>2, <3>2, <3>4, <3>6, Zenon
  <2> QED
    BY <2>3, <2>4
<1>5. CASE Len(f) # Len(g)
  <2>1. CompareNumericIdentifiers(f, g) = Sign(Len(f), Len(g))
    BY <1>5 DEF CompareNumericIdentifiers
  <2>2. /\ Sign(Len(f), Len(g)) = 0 <=> Len(f) = Len(g)
        /\ Sign(Len(f), Len(g)) > 0 <=> Len(g) < Len(f)
    BY <1>2, SignOf, Zenon
  <2>3. Len(f) < Len(g) => Value(f) < Value(g)
    BY <1>1, MoreDigitsDecide
  <2>4. Len(g) < Len(f) => Value(g) < Value(f)
    BY <1>1, MoreDigitsDecide
  <2>5. Value(g) < Value(f) => Len(g) < Len(f)
    <3>1. Value(g) < Value(f) => ~(Len(f) < Len(g))
      BY <1>3, <2>3
    <3> QED
      BY <1>2, <1>5, <3>1
  <2> QED
    BY <1>5, <2>1, <2>2, <2>4, <2>5, Zenon
<1> QED
  BY <1>4, <1>5

LEMMA NumericIdentifier ==
  ASSUME NEW f \in Identifier
  PROVE  f \in Seq(Nat) /\ (Numeric(f) => f \in NumericField)
<1>1. f \in Seq(Nat) /\ f # <<>> /\ (Numeric(f) => ~LeadingZero(f))
  BY DEF Identifier
<1>2. ASSUME Numeric(f)
      PROVE  f \in Seq(Digits)
  <2>1. f = [i \in 1 .. Len(f) |-> f[i]] /\ Len(f) \in Nat /\ DOMAIN f = 1 .. Len(f)
    BY <1>1
  <2>2. \A i \in 1 .. Len(f) : f[i] \in Digits
    BY <1>2, <2>1 DEF Numeric, ToSet
  <2> QED
    BY <2>1, <2>2, IsASeq
<1> QED
  BY <1>1, <1>2 DEF NumericField, DigitText

LEMMA IdentifiersCompare ==
  ASSUME NEW f \in Identifier, NEW g \in Identifier
  PROVE  /\ CompareIdentifiers(f, g) = 0 <=> f = g
         /\ CompareIdentifiers(f, g) > 0 <=> Lower(g, f)
<1>1. CASE Numeric(f) /\ Numeric(g)
  <2>1. CompareIdentifiers(f, g) = CompareNumericIdentifiers(f, g)
    BY <1>1, Zenon DEF CompareIdentifiers
  <2>2. Lower(g, f) <=> Value(g) < Value(f)
    BY <1>1, Zenon DEF Lower
  <2> QED
    BY <1>1, <2>1, <2>2, NumericIdentifier, NumbersCompare, ZenonT(60)
<1>2. CASE ~Numeric(f) /\ ~Numeric(g)
  <2>1. CompareIdentifiers(f, g) = CompareText(f, g)
    BY <1>2 DEF CompareIdentifiers, Numeric
  <2>2. Lower(g, f) <=> Before(g, f, <) \/ IsStrictPrefix(g, f)
    BY <1>2, Zenon DEF Lower
  <2> QED
    BY <1>2, <2>1, <2>2, NumericIdentifier, TextOrder, Zenon
<1>3. CASE Numeric(f) /\ ~Numeric(g)
  <2>1. CompareIdentifiers(f, g) = -1
    BY <1>3, Zenon DEF CompareIdentifiers
  <2>2. ~Lower(g, f) /\ f # g
    BY <1>3, Zenon DEF Lower
  <2> QED
    BY <2>1, <2>2
<1>4. CASE ~Numeric(f) /\ Numeric(g)
  <2>1. CompareIdentifiers(f, g) = 1
    BY <1>4, Zenon DEF CompareIdentifiers
  <2>2. Lower(g, f) /\ f # g
    BY <1>4, Zenon DEF Lower
  <2> QED
    BY <2>1, <2>2
<1> QED
  BY <1>1, <1>2, <1>3, <1>4, Zenon

LEMMA PrereleasesCompare ==
  ASSUME NEW p \in Seq(Identifier), NEW q \in Seq(Identifier)
  PROVE  ComparePrereleases(p, q) > 0 <=>
           \/ q # <<>> /\ p = <<>>
           \/ /\ q # <<>> /\ p # <<>>
              /\ Before(q, p, Lower) \/ IsStrictPrefix(q, p)
<1>1. /\ Len(p) \in Nat /\ Len(q) \in Nat /\ DOMAIN p = 1 .. Len(p) /\ DOMAIN q = 1 .. Len(q)
      /\ \A i \in 1 .. Len(p) : p[i] \in Identifier
      /\ \A i \in 1 .. Len(q) : q[i] \in Identifier
      /\ p = <<>> <=> Len(p) = 0
      /\ q = <<>> <=> Len(q) = 0
  BY LenProperties, ElementOfSeq, EmptySeq
<1>2. CASE p = <<>> \/ q = <<>>
  <2>1. ComparePrereleases(p, q) = Sign(Len(q), Len(p))
    BY <1>2, Zenon DEF ComparePrereleases
  <2>2. Sign(Len(q), Len(p)) > 0 <=> Len(p) < Len(q)
    BY <1>1, SignOf, Zenon
  <2>3. Len(p) < Len(q) <=> q # <<>> /\ p = <<>>
    BY <1>1, <1>2
  <2> QED
    BY <1>2, <2>1, <2>2, <2>3, Zenon
<1>3. CASE p # <<>> /\ q # <<>>
  <2>1. PICK D : D = {i \in DOMAIN p \cap DOMAIN q : p[i] # q[i]}
    OBVIOUS
  <2>2. ComparePrereleases(p, q) =
          IF D = {} THEN Sign(Len(p), Len(q)) ELSE CompareIdentifiers(p[Min(D)], q[Min(D)])
    <3>1. \A i \in DOMAIN p \cap DOMAIN q : CompareIdentifiers(p[i], q[i]) # 0 <=> p[i] # q[i]
      BY <1>1, IdentifiersCompare, Zenon
    <3>2. D = {i \in DOMAIN p \cap DOMAIN q : CompareIdentifiers(p[i], q[i]) # 0}
      BY <2>1, <3>1
    <3> QED
      BY <1>3, <3>2, Zenon DEF ComparePrereleases, FirstDifference
  <2>3. Before(q, p, Lower) <=> \E i : DiffersAt(p, q, i) /\ Lower(q[i], p[i])
    <3>1. ASSUME NEW i \in 1 .. Len(q), i \in 1 .. Len(p), Lower(q[i], p[i]),
                 \A j \in 1 .. i - 1 : q[j] = p[j]
          PROVE  DiffersAt(p, q, i)
      <4>1. CompareIdentifiers(p[i], q[i]) > 0
        BY <1>1, <3>1, IdentifiersCompare, Zenon
      <4>2. CompareIdentifiers(p[i], q[i]) # 0
        BY <4>1
      <4>3. p[i] # q[i]
        BY <1>1, <3>1, <4>2, IdentifiersCompare, Zenon
      <4> QED
        BY <3>1, <4>3 DEF DiffersAt
    <3>2. Before(q, p, Lower) <=>
            \E i \in 1 .. Len(q) :
              i \in 1 .. Len(p) /\ Lower(q[i], p[i]) /\ \A j \in 1 .. i - 1 : q[j] = p[j]
      BY <1>1 DEF Before
    <3>3. ASSUME NEW i, DiffersAt(p, q, i)
          PROVE  i \in 1 .. Len(q) /\ i \in 1 .. Len(p) /\ \A j \in 1 .. i - 1 : q[j] = p[j]
      BY <3>3, Zenon DEF DiffersAt
    <3> QED
      BY <3>1, <3>2, <3>3, Zenon
  <2>4. CASE D = {}
    <3>1. ~ \E m : DiffersAt(p, q, m)
      BY <2>1, <2>4, NoDifference, Zenon
    <3>2. IsStrictPrefix(q, p) <=> Len(q) < Len(p)
      <4>1. {i \in DOMAIN q \cap DOMAIN p : q[i] # p[i]} = {}
        BY <2>1, <2>4
      <4> QED
        BY <4>1, NoDifference, Zenon
    <3>3. Sign(Len(p), Len(q)) > 0 <=> Len(q) < Len(p)
      BY <1>1, SignOf, Zenon
    <3>4. ComparePrereleases(p, q) = Sign(Len(p), Len(q))
      BY <2>2, <2>4
    <3>5. ComparePrereleases(p, q) > 0 <=> Len(q) < Len(p)
      BY <3>3, <3>4
    <3> QED
      BY <1>3, <2>3, <3>1, <3>2, <3>5, Zenon
  <2>5. CASE D # {}
    <3>1. PICK m \in Nat : m = Min(D) /\ DiffersAt(p, q, m)
      BY <2>1, <2>5, FirstDifferenceOf
    <3>2. p[m] \in Identifier /\ q[m] \in Identifier
      BY <1>1, <3>1 DEF DiffersAt
    <3>3. ComparePrereleases(p, q) = CompareIdentifiers(p[m], q[m])
      BY <2>2, <2>5, <3>1
    <3>4. CompareIdentifiers(p[m], q[m]) > 0 <=> Lower(q[m], p[m])
      BY <3>2, IdentifiersCompare, Zenon
    <3>5. ~IsStrictPrefix(q, p)
      BY <3>1, DiffersSymmetric, DifferingTexts, Zenon
    <3>6. \A n : DiffersAt(p, q, n) => n = m
      <4>1. \A n : DiffersAt(p, q, n) => n \in Nat
        BY DifferingTexts, Zenon
      <4> QED
        BY <3>1, <4>1, DiffersOnce, Zenon
    <3>7. Before(q, p, Lower) <=> Lower(q[m], p[m])
      BY <2>3, <3>1, <3>6, Zenon
    <3>8. ComparePrereleases(p, q) > 0 <=> Lower(q[m], p[m])
      BY <3>3, <3>4
    <3> QED
      BY <1>3, <3>5, <3>7, <3>8, Zenon
  <2> QED
    BY <2>4, <2>5
<1> QED
  BY <1>2, <1>3

-----------------------------------------------------------------------------
(* Versions. *)

LEMMA FieldsOfVersion ==
  ASSUME NEW v \in Text, IsVersion(v)
  PROVE  v.core \in Seq(NumericField) /\ Len(v.core) = 3 /\ v.prerelease \in Seq(Identifier)
<1>1. ASSUME NEW s \in Seq(Seq(Nat)), NEW X, \A f \in ToSet(s) : f \in Seq(Nat) => f \in X
      PROVE  s \in Seq(X)
  <2>1. s = [i \in 1 .. Len(s) |-> s[i]] /\ Len(s) \in Nat /\ DOMAIN s = 1 .. Len(s)
    OBVIOUS
  <2>2. \A i \in 1 .. Len(s) : s[i] \in Seq(Nat) /\ s[i] \in ToSet(s)
    BY <2>1, ElementOfSeq DEF ToSet
  <2>3. \A i \in 1 .. Len(s) : s[i] \in X
    BY <1>1, <2>2, Zenon
  <2>4. [i \in 1 .. Len(s) |-> s[i]] \in Seq(X)
    BY <2>1, <2>3, IsASeq
  <2> QED
    BY <2>1, <2>4, Zenon
<1>2. \A f \in ToSet(v.core) : f \in Seq(Nat) => f \in NumericField
  <2> SUFFICES ASSUME NEW f \in ToSet(v.core), f \in Seq(Nat) PROVE f \in NumericField
    OBVIOUS
  <2>1. f # <<>> /\ Numeric(f) /\ ~LeadingZero(f)
    BY Zenon DEF IsVersion, ParsesCore
  <2> QED
    BY <2>1, NumericIdentifier, Zenon DEF Identifier
<1>3. \A f \in ToSet(v.prerelease) : f \in Seq(Nat) => f \in Identifier
  BY Zenon DEF IsVersion, Identifiers, Identifier
<1>4. v.core \in Seq(Seq(Nat)) /\ v.prerelease \in Seq(Seq(Nat))
  BY DEF Text, Field
<1> QED
  BY <1>1, <1>2, <1>3, <1>4, Zenon DEF IsVersion, ParsesCore

\* compareParsedVersions finds a version greater than another exactly if the other
\* precedes it as semver.org defines precedence.
LEMMA ComparisonIsPrecedence ==
  ASSUME NEW v \in Text, IsVersion(v), NEW w \in Text, IsVersion(w)
  PROVE  CompareVersions(v, w) > 0 <=> Precedes(w, v)
<1>1. PICK s, t, p, q :
        /\ s = v.core /\ t = w.core /\ p = v.prerelease /\ q = w.prerelease
        /\ s \in Seq(NumericField) /\ t \in Seq(NumericField) /\ Len(s) = 3 /\ Len(t) = 3
        /\ p \in Seq(Identifier) /\ q \in Seq(Identifier)
  BY FieldsOfVersion, Zenon
<1>2. /\ DOMAIN s = 1 .. Len(s) /\ DOMAIN t = 1 .. Len(t)
      /\ \A i \in 1 .. Len(s) : s[i] \in NumericField
      /\ \A i \in 1 .. Len(t) : t[i] \in NumericField
  BY <1>1, LenProperties, ElementOfSeq
<1>3. PICK D : D = {i \in DOMAIN s \cap DOMAIN t : s[i] # t[i]}
  OBVIOUS
<1>4. CompareVersions(v, w) =
        IF D = {} THEN ComparePrereleases(p, q) ELSE CompareNumericIdentifiers(s[Min(D)], t[Min(D)])
  <2>1. \A i \in DOMAIN s \cap DOMAIN t : CompareNumericIdentifiers(s[i], t[i]) # 0 <=> s[i] # t[i]
    BY <1>2, NumbersCompare, Zenon
  <2>2. D = {i \in DOMAIN s \cap DOMAIN t : CompareNumericIdentifiers(s[i], t[i]) # 0}
    BY <1>3, <2>1
  <2> QED
    BY <1>1, <2>2, Zenon DEF CompareVersions, FirstDifference
<1>5. Precedes(w, v) <=>
        \/ \E i : DiffersAt(s, t, i) /\ Value(t[i]) < Value(s[i])
        \/ s = t /\ ComparePrereleases(p, q) > 0
  <2>1. Before(t, s, LAMBDA f, g : Value(f) < Value(g)) <=>
          \E i : DiffersAt(s, t, i) /\ Value(t[i]) < Value(s[i])
    <3>1. ASSUME NEW i \in 1 .. Len(t), i \in 1 .. Len(s), Value(t[i]) < Value(s[i]),
                 \A j \in 1 .. i - 1 : t[j] = s[j]
          PROVE  DiffersAt(s, t, i)
      <4>1. Value(s[i]) \in Nat /\ Value(t[i]) \in Nat
        BY <1>2, <3>1, ValueIsNatural DEF NumericField
      <4>2. Value(s[i]) # Value(t[i])
        BY <3>1, <4>1
      <4>3. s[i] # t[i]
        BY <4>2, Zenon
      <4> QED
        BY <3>1, <4>3 DEF DiffersAt
    <3>2. Before(t, s, LAMBDA f, g : Value(f) < Value(g)) <=>
            \E i \in 1 .. Len(t) :
              i \in 1 .. Len(s) /\ Value(t[i]) < Value(s[i]) /\ \A j \in 1 .. i - 1 : t[j] = s[j]
      BY <1>2 DEF Before
    <3>3. ASSUME NEW i, DiffersAt(s, t, i)
          PROVE  i \in 1 .. Len(t) /\ i \in 1 .. Len(s) /\ \A j \in 1 .. i - 1 : t[j] = s[j]
      BY <3>3, Zenon DEF DiffersAt
    <3> QED
      BY <3>1, <3>2, <3>3, Zenon
  <2>2. ComparePrereleases(p, q) > 0 <=>
          \/ q # <<>> /\ p = <<>>
          \/ /\ q # <<>> /\ p # <<>>
             /\ Before(q, p, Lower) \/ IsStrictPrefix(q, p)
    BY <1>1, PrereleasesCompare, Zenon
  <2> QED
    BY <1>1, <2>1, <2>2, Zenon DEF Precedes
<1>6. CASE D = {}
  <2>1. s = t /\ ~ \E m : DiffersAt(s, t, m)
    <3>1. {i \in DOMAIN s \cap DOMAIN t : s[i] # t[i]} = {}
      BY <1>3, <1>6
    <3>2. s = t <=> Len(s) = Len(t)
      BY <1>1, <3>1, NoDifference
    <3>3. ~ \E m : DiffersAt(s, t, m)
      <4>1. s \in Seq(NumericField) /\ t \in Seq(NumericField)
        BY <1>1
      <4> QED
        BY <3>1, <4>1, NoDifference, Zenon
    <3> QED
      BY <1>1, <3>2, <3>3
  <2>2. CompareVersions(v, w) = ComparePrereleases(p, q)
    BY <1>4, <1>6
  <2> QED
    BY <1>5, <2>1, <2>2, Zenon
<1>7. CASE D # {}
  <2>1. PICK m \in Nat : m = Min(D) /\ DiffersAt(s, t, m)
    BY <1>1, <1>3, <1>7, FirstDifferenceOf, Zenon
  <2>2. s[m] \in NumericField /\ t[m] \in NumericField
    BY <1>2, <2>1 DEF DiffersAt
  <2>3. CompareVersions(v, w) = CompareNumericIdentifiers(s[m], t[m])
    BY <1>4, <1>7, <2>1
  <2>4. CompareNumericIdentifiers(s[m], t[m]) > 0 <=> Value(t[m]) < Value(s[m])
    BY <2>2, NumbersCompare, Zenon
  <2>5. s # t
    BY <1>1, <2>1, DifferingTexts, Zenon
  <2>6. \A n : DiffersAt(s, t, n) => n = m
    <3>1. \A n : DiffersAt(s, t, n) => n \in Nat
      BY <1>1, DifferingTexts, Zenon
    <3> QED
      BY <2>1, <3>1, DiffersOnce, Zenon
  <2>7. Precedes(w, v) <=> Value(t[m]) < Value(s[m])
    BY <1>5, <2>1, <2>5, <2>6, Zenon
  <2>8. CompareVersions(v, w) > 0 <=> Value(t[m]) < Value(s[m])
    BY <2>3, <2>4
  <2> QED
    BY <2>7, <2>8, Zenon
<1> QED
  BY <1>6, <1>7

-----------------------------------------------------------------------------
(* What the update check offers. *)

LEMMA LetterV ==
  /\ Len(<<118>>) = 1 /\ SubSeq(<<118>>, 1, 1) = <<118>>
  /\ \A field \in Seq(Nat) :
       IsPrefix(<<118>>, <<118>> \o field) /\ Tail(<<118>> \o field) = field
<1>1. <<118>> \in Seq(Nat) /\ Len(<<118>>) = 1
  OBVIOUS
<1>2. SubSeq(<<118>>, 1, 1) = <<118>>
  BY <1>1, SubSeqFull
<1>3. ASSUME NEW field \in Seq(Nat)
      PROVE  /\ Len(<<118>> \o field) = 1 + Len(field) /\ Len(field) \in Nat
             /\ SubSeq(<<118>> \o field, 1, 1) = <<118>> /\ Tail(<<118>> \o field) = field
  <2> DEFINE whole == <<118>> \o field
             n == Len(field)
  <2>1. /\ n \in Nat /\ whole \in Seq(Nat) /\ Len(whole) = 1 + n
        /\ whole[1] = 118 /\ \A i \in 1 .. n : whole[i + 1] = field[i]
    <3>1. /\ <<118>> \o field \in Seq(Nat) /\ Len(<<118>> \o field) = 1 + Len(field)
          /\ \A i \in 1 .. 1 + Len(field) :
               (<<118>> \o field)[i] = IF i <= 1 THEN <<118>>[i] ELSE field[i - 1]
      BY <1>1, ConcatProperties
    <3>2. Len(field) \in Nat
      BY LenProperties
    <3>3. \A i \in 1 .. Len(field) :
            i + 1 \in 1 .. 1 + Len(field) /\ ~(i + 1 <= 1) /\ i + 1 - 1 = i
      BY <3>2
    <3>4. \A i \in 1 .. Len(field) : (<<118>> \o field)[i + 1] = field[i]
      BY <3>1, <3>3
    <3>5. (<<118>> \o field)[1] = 118
      BY <3>1, <3>2
    <3> QED
      BY <3>1, <3>2, <3>4, <3>5, Zenon
  <2>5. \A s \in Seq(Nat) : Len(s) = n /\ (\A i \in 1 .. n : s[i] = field[i]) => s = field
    BY SeqEqual, Zenon
  <2> HIDE DEF whole, n
  <2>2. whole # <<>> /\ SubSeq(whole, 1, 1) = <<118>>
    <3>1. whole # <<>> /\ \A i \in 1 .. 1 : whole[i] \in Nat
      BY <2>1
    <3>2. SubSeq(whole, 1, 1) \in Seq(Nat) /\ Len(SubSeq(whole, 1, 1)) = 1
      BY <3>1, SubSeqProperties
    <3>3. SubSeq(whole, 1, 1)[1] = 118
      BY <2>1, <3>1, SubSeqProperties
    <3>4. /\ Len(SubSeq(whole, 1, 1)) = Len(<<118>>)
          /\ \A i \in 1 .. Len(SubSeq(whole, 1, 1)) : SubSeq(whole, 1, 1)[i] = <<118>>[i]
      BY <1>1, <3>2, <3>3
    <3>5. SubSeq(whole, 1, 1) = <<118>>
      BY <1>1, <3>2, <3>4, SeqEqual, Zenon
    <3> QED
      BY <3>1, <3>5
  <2>3. /\ Tail(whole) \in Seq(Nat) /\ Len(Tail(whole)) = n
        /\ \A i \in 1 .. n : Tail(whole)[i] = field[i]
    BY <2>1, <2>2, HeadTailProperties
  <2>4. Tail(whole) = field
    BY <2>3, <2>5, Zenon
  <2> QED
    BY <2>1, <2>2, <2>4, Zenon DEF whole, n
<1>4. ASSUME NEW field \in Seq(Nat)
      PROVE  IsPrefix(<<118>>, <<118>> \o field)
  <2>1. 1 <= Len(<<118>> \o field)
    BY <1>3
  <2> QED
    BY <1>1, <1>2, <1>3, <2>1 DEF IsPrefix
<1> QED
  BY <1>1, <1>2, <1>3, <1>4

\* The letter `v' before a version is dropped and no version begins with one.
LEMMA UntaggedTag ==
  ASSUME NEW text \in Releases
  PROVE  Untagged(text) = text /\ Untagged(WithV(text)) = text
<1>1. text \in Text /\ IsVersion(text)
  BY ReleasesAssumption
<1>2. PICK core : core = text.core /\ core \in Seq(Seq(Nat)) /\ Len(core) = 3
  BY <1>1 DEF Text, Field, IsVersion, ParsesCore
<1>3. PICK first : first = core[1] /\ first \in Seq(Nat) /\ first # <<>> /\ first[1] # 118
  <2>1. 1 \in DOMAIN core /\ core[1] \in Seq(Nat)
    BY <1>2, ElementOfSeq
  <2>2. core[1] # <<>> /\ Numeric(core[1])
    BY <1>1, <1>2, <2>1 DEF IsVersion, ParsesCore, ToSet
  <2>3. 1 \in DOMAIN core[1]
    BY <2>1, <2>2, EmptySeq, LenProperties
  <2>4. core[1][1] \in Digits
    BY <2>2, <2>3 DEF Numeric, ToSet
  <2> QED
    BY <2>1, <2>2, <2>4 DEF Digits
<1>4. ~IsPrefix(<<118>>, first)
  <2>1. Len(<<118>>) = 1 /\ SubSeq(<<118>>, 1, 1) = <<118>>
    BY LetterV
  <2>2. ASSUME 1 <= Len(first)
        PROVE  SubSeq(first, 1, 1)[1] = first[1]
    BY <1>3, <2>2
  <2> QED
    BY <1>3, <2>1, <2>2 DEF IsPrefix
<1>5. Untagged(text) = text
  BY <1>2, <1>3, <1>4 DEF Untagged
<1>6. Untagged(WithV(text)) = text
  <2>1. WithV(text).core = [core EXCEPT ![1] = <<118>> \o first]
    BY <1>1, <1>2, <1>3 DEF WithV, Text
  <2>2. WithV(text).core[1] = <<118>> \o first
    BY <1>2, <2>1
  <2>3. IsPrefix(<<118>>, <<118>> \o first) /\ Tail(<<118>> \o first) = first
    BY <1>3, LetterV
  <2>4. [WithV(text).core EXCEPT ![1] = first] = core
    BY <1>2, <1>3, <2>1
  <2>5. Untagged(WithV(text)) = [WithV(text) EXCEPT !.core = core]
    BY <2>2, <2>3, <2>4 DEF Untagged
  <2>6. [WithV(text) EXCEPT !.core = core] = text
    BY <1>1, <1>2 DEF WithV, Text
  <2> QED
    BY <2>5, <2>6
<1> QED
  BY <1>5, <1>6

\* What the thread may report, and what follows from it for the pages.
Knowledge ==
  /\ PLUGIN_VERSION \in Releases
  /\ info = None \/ info \in Releases \/ ~IsVersion(info)
  /\ tstage # "none" => flag = "on"
  /\ tstage # "exited" => latestVersionForUpdate = None
  /\ OnlyNewerIsOffered
  /\ shown = [p \in Pages |-> shown[p]]

LEMMA NoneIsNoRelease == None \notin Releases
BY UpdateNoneAssumption DEF Tags

LEMMA ReleasesOffered ==
  ASSUME Knowledge, Publish
  PROVE  latestVersionForUpdate' =
           IF info' \in Releases /\ Precedes(PLUGIN_VERSION', info') THEN info' ELSE None
<1>1. /\ latestVersionForUpdate = None /\ PLUGIN_VERSION \in Releases
      /\ info = None \/ info \in Releases \/ ~IsVersion(info)
      /\ info' = info /\ PLUGIN_VERSION' = PLUGIN_VERSION
  BY DEF Knowledge, Publish
<1>2. CASE info \in Releases
  <2>1. /\ info \in Text /\ IsVersion(info) /\ info # None
        /\ PLUGIN_VERSION \in Text /\ IsVersion(PLUGIN_VERSION)
    BY <1>1, <1>2, ReleasesAssumption, NoneIsNoRelease
  <2>2. IsNewer <=> Precedes(PLUGIN_VERSION, info)
    BY <2>1, ComparisonIsPrecedence, Zenon DEF IsNewer
  <2>3. latestVersionForUpdate' = IF IsNewer THEN info ELSE None
    BY <2>1 DEF Publish
  <2> QED
    BY <1>1, <1>2, <2>2, <2>3
<1>3. CASE info \notin Releases
  <2>1. latestVersionForUpdate' = None
    BY <1>1, <1>3 DEF Publish
  <2> QED
    BY <1>1, <1>3, <2>1
<1> QED
  BY <1>2, <1>3

LEMMA InitKnowledge == UpdateInit => Knowledge
BY DEF UpdateInit, Knowledge, OnlyNewerIsOffered

LEMMA NextKnowledge == Ownership /\ Knowledge /\ [UpdateNext]_updateVars => Knowledge'
<1> SUFFICES ASSUME Ownership, Knowledge, [UpdateNext]_updateVars PROVE Knowledge'
  OBVIOUS
<1>1. CASE Load
  BY <1>1 DEF Load, Knowledge, OnlyNewerIsOffered
<1>2. CASE CheckUpdate
  BY <1>2 DEF CheckUpdate, ShouldCheckForUpdates, Ownership, Knowledge, OnlyNewerIsOffered
<1>3. CASE Answer \/ Fails \/ TimesOut
  <2>1. PICK i : Report(i) /\ (i = None \/ i \in Releases \/ ~IsVersion(i))
    <3>1. CASE Answer
      <4>1. PICK tag \in Tags : Report(Untagged(tag))
        BY <3>1 DEF Answer
      <4>2. Untagged(tag) \in Releases \/ ~IsVersion(Untagged(tag))
        BY UntaggedTag, MalformedAssumption DEF Tags
      <4> QED
        BY <4>1, <4>2
    <3>2. CASE Fails \/ TimesOut
      BY <3>2 DEF Fails, TimesOut
    <3> QED
      BY <1>3, <3>1, <3>2
  <2> QED
    BY <2>1 DEF Report, Knowledge, OnlyNewerIsOffered
<1>4. CASE Publish
  <2>1. latestVersionForUpdate' =
          IF info' \in Releases /\ Precedes(PLUGIN_VERSION', info') THEN info' ELSE None
    BY <1>4, ReleasesOffered
  <2>2. \A p \in Pages : shown'[p] = None
    BY <1>4 DEF Publish, Knowledge, OnlyNewerIsOffered
  <2> QED
    BY <1>4, <2>1, <2>2 DEF Publish, Knowledge, OnlyNewerIsOffered
<1>5. CASE Wait
  BY <1>5 DEF Wait, Knowledge, OnlyNewerIsOffered
<1>6. CASE Shutdown \/ Join \/ CleanUp
  BY <1>6 DEF Shutdown, Join, CleanUp, Knowledge, OnlyNewerIsOffered
<1>7. ASSUME NEW p \in Pages, ShowPage(p) PROVE Knowledge'
  BY <1>7 DEF ShowPage, Knowledge, OnlyNewerIsOffered
<1>8. CASE UNCHANGED updateVars
  BY <1>8 DEF updateVars, Knowledge, OnlyNewerIsOffered
<1> QED
  BY <1>1, <1>2, <1>3, <1>4, <1>5, <1>6, <1>7, <1>8 DEF UpdateNext, UpdateThread, Unload

\* Nothing is asked of GitHub unless the user wants it, and an update is offered
\* exactly if the release is a version that semver.org places after this build's,
\* however long the numbers and however many the fields (update-checker.cpp:40-62,
\* semver.cpp).
THEOREM OffersNewer == UpdateSpec => []OnlyNewerIsOffered
<1>1. Knowledge => OnlyNewerIsOffered
  BY DEF Knowledge
<1> QED
  BY InitOwnership, NextOwnership, InitKnowledge, NextKnowledge, <1>1, PTL DEF UpdateSpec
=============================================================================
