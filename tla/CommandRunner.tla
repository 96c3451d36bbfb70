--------------------------- MODULE CommandRunner ---------------------------
(***************************************************************************)
(* Running a command (run_command_capture in                               *)
(* src/src/cacam-usb-source.cpp, the branch for POSIX): a pipe, a child in *)
(* a process group of its own, a loop that reads the pipe and asks for the *)
(* child until both have ended, the stop flag is up or the deadline is     *)
(* over.  Each runner is the adb worker of one camera source; their        *)
(* processes share one host, so that whoever forks hands the ends of all   *)
(* pipes to the child.                                                     *)
(*                                                                         *)
(* What a child writes is a number of bytes, below the size at which the   *)
(* code truncates it.  A runner runs one command: the next one would start *)
(* with a new pipe and new locals.  The host is OBS with all its plugins:  *)
(* somebody else in it may take a child's status, and a read may fail.     *)
(***************************************************************************)
EXTENDS Integers, FiniteSets

CONSTANTS
  Runners,    \* threads that run a command
  Starters,   \* those whose command may leave a daemon: `adb start-server'
  Stoppable,  \* those given a stop flag: all but the removal of a forward
  Unlucky,    \* bound: those whose reads fail and whose children's statuses are taken
  Writers,    \* bound: those whose child writes, ...
  MaxOutput   \* ... and the bytes it writes

ASSUME CommandAssumption ==
  /\ Starters \subseteq Runners /\ Stoppable \subseteq Runners /\ Unlucky \subseteq Runners
  /\ Writers \subseteq Runners
  /\ MaxOutput \in Nat

VARIABLES
  rstage,          \* where run_command_capture is
  pipe_closed, child_exited, output,
  child_status,    \* what waitpid gave; "zero" before it gave anything
  cause,           \* "none", "cancelled" or "timed out"
  exit_code,       \* what it returned: a status, a cause, or "failed"
  stop_requested,
  late,            \* the deadline is over
  process,         \* the child: "none", "running", "zombie", then "reaped" by its
                   \* runner or "lost" to somebody else
  ending,          \* how it ended: "none" or a status
  sent,            \* the signals its group was sent, and whether it was "reaped" then
  written,         \* what it wrote
  read_failed,     \* history: a read of r's pipe reported an error
  read_end,        \* the host holds the read end of r's pipe, ...
  write_end,       \* ... the write end,
  children,        \* the runners whose child holds the write end,
  daemons          \* those whose child left a process that does

locals  == <<pipe_closed, child_exited, output, child_status, cause, exit_code>>
kernel  == <<process, ending, sent, written, read_failed>>
pipes   == <<read_end, write_end, children, daemons>>
signals == <<stop_requested, late>>
vars    == <<rstage, locals, kernel, pipes, signals>>

\* wait statuses, a signal among the nonzero ones: zero is also what nobody set
Statuses == {"zero", "nonzero"}

Init ==
  /\ rstage = [r \in Runners |-> "idle"]
  /\ pipe_closed = [r \in Runners |-> FALSE] /\ child_exited = [r \in Runners |-> FALSE]
  /\ output = [r \in Runners |-> 0]
  /\ cause = [r \in Runners |-> "none"] /\ exit_code = [r \in Runners |-> "none"]
  /\ stop_requested = [r \in Runners |-> FALSE] /\ late = [r \in Runners |-> FALSE]
  /\ child_status = [r \in Runners |-> "zero"]
  /\ process = [r \in Runners |-> "none"] /\ ending = [r \in Runners |-> "none"]
  /\ sent = [r \in Runners |-> {}] /\ written = [r \in Runners |-> 0]
  /\ read_failed = [r \in Runners |-> FALSE]
  /\ read_end = [r \in Runners |-> FALSE] /\ write_end = [r \in Runners |-> FALSE]
  /\ children = [r \in Runners |-> {}] /\ daemons = [r \in Runners |-> {}]

\* The definitions named Variant... are those beside them with one plausible slip;
\* no specification uses them.  They show which slip each property would catch.

-----------------------------------------------------------------------------
(* The runner *)

Go(r, from, to) == rstage[r] = from /\ rstage' = [rstage EXCEPT ![r] = to]

Returns(r, code) == exit_code' = [exit_code EXCEPT ![r] = code]

OpenPipe(r) ==
  /\ Go(r, "idle", "fork")
  /\ read_end' = [read_end EXCEPT ![r] = TRUE]
  /\ write_end' = [write_end EXCEPT ![r] = TRUE]
  /\ UNCHANGED <<locals, kernel, children, daemons, signals>>

PipeFails(r) ==
  /\ Go(r, "idle", "done") /\ Returns(r, "failed")
  /\ UNCHANGED <<pipe_closed, child_exited, output, child_status, cause, kernel, pipes, signals>>

\* the child gets every end the host has at this moment
Fork(r) ==
  /\ Go(r, "fork", "parent")
  /\ process' = [process EXCEPT ![r] = "running"]
  /\ children' = [q \in Runners |-> IF write_end[q] THEN children[q] \cup {r} ELSE children[q]]
  /\ UNCHANGED <<locals, ending, sent, written, read_failed, read_end, write_end, daemons, signals>>

VariantForkFails(r) ==
  /\ Go(r, "fork", "done") /\ Returns(r, "failed")
  /\ read_end' = [read_end EXCEPT ![r] = FALSE]
  /\ UNCHANGED <<pipe_closed, child_exited, output, child_status, cause, kernel, write_end,
                 children, daemons, signals>>

ForkFails(r) ==
  /\ Go(r, "fork", "done") /\ Returns(r, "failed")
  /\ read_end' = [read_end EXCEPT ![r] = FALSE]
  /\ write_end' = [write_end EXCEPT ![r] = FALSE]
  /\ UNCHANGED <<pipe_closed, child_exited, output, child_status, cause, kernel, children, daemons,
                 signals>>

CloseWriteEnd(r) ==
  /\ Go(r, "parent", "read")
  /\ write_end' = [write_end EXCEPT ![r] = FALSE]
  /\ UNCHANGED <<locals, kernel, read_end, children, daemons, signals>>

EndOfFile(r) == ~write_end[r] /\ children[r] = {} /\ daemons[r] = {}

\* Reads until nothing is left, which MaxOutput says will happen; the end of file comes
\* when nobody holds the write end.
Drain(r) ==
  /\ Go(r, "read", "wait")
  /\ output' = [output EXCEPT ![r] = written[r]]
  /\ pipe_closed' = [pipe_closed EXCEPT ![r] = @ \/ EndOfFile(r)]
  /\ UNCHANGED <<child_exited, child_status, cause, exit_code, kernel, pipes, signals>>

ReadsSome(r) == \E n \in output[r] .. written[r] : output' = [output EXCEPT ![r] = n]

\* EINTR: the next round goes on
ReadInterrupted(r) ==
  /\ r \in Unlucky /\ Go(r, "read", "wait") /\ ReadsSome(r)
  /\ UNCHANGED <<pipe_closed, child_exited, child_status, cause, exit_code, kernel, pipes, signals>>

\* any other error counts as the end of the pipe
ReadFails(r) ==
  /\ r \in Unlucky /\ Go(r, "read", "wait") /\ ReadsSome(r)
  /\ pipe_closed' = [pipe_closed EXCEPT ![r] = TRUE]
  /\ read_failed' = [read_failed EXCEPT ![r] = TRUE]
  /\ UNCHANGED <<child_exited, child_status, cause, exit_code, process, ending, sent, written,
                 pipes, signals>>

VariantEndsWithChild(exited, closed) == exited

\* the loop ends when child and pipe have ended, in this order of the tests
Over(exited, closed) == exited /\ closed

\* waitpid gives the status of the child, ...
Reap(r) ==
  /\ process[r] = "zombie"
  /\ process' = [process EXCEPT ![r] = "reaped"]
  /\ child_status' = [child_status EXCEPT ![r] = ending[r]]
  /\ child_exited' = [child_exited EXCEPT ![r] = TRUE]

\* ... or fails with ECHILD: somebody else had it, and child_status keeps its zero
NoChild(r) ==
  /\ process[r] = "lost" /\ ~child_exited[r]
  /\ child_exited' = [child_exited EXCEPT ![r] = TRUE]
  /\ UNCHANGED <<process, child_status>>

WaitForChild(r) ==
  /\ Reap(r) \/ NoChild(r)
  /\ Go(r, "wait", IF Over(TRUE, pipe_closed[r]) THEN "finish" ELSE "test")
  /\ UNCHANGED <<pipe_closed, output, cause, exit_code, ending, sent, written, read_failed, pipes,
                 signals>>

NothingToReap(r) ==
  /\ child_exited[r] \/ process[r] = "running"
  /\ Go(r, "wait", IF Over(child_exited[r], pipe_closed[r]) THEN "finish" ELSE "test")
  /\ UNCHANGED <<locals, kernel, pipes, signals>>

VariantNoDeadline(r) == IF stop_requested[r] THEN "cancelled" ELSE "none"

Interruption(r) ==
  IF stop_requested[r] THEN "cancelled" ELSE IF late[r] THEN "timed out" ELSE "none"

Signal(r, signal) == sent' = [sent EXCEPT ![r] = @ \cup {<<signal, process[r] = "reaped">>}]

\* Neither stopped nor late: poll() and another round, ...
Proceed(r) ==
  /\ Interruption(r) = "none"
  /\ Go(r, "test", "read")
  /\ UNCHANGED <<locals, kernel, pipes, signals>>

\* ... else SIGTERM for the group, though its leader may have been reaped.
Interrupt(r) ==
  /\ Interruption(r) # "none" /\ cause' = [cause EXCEPT ![r] = Interruption(r)]
  /\ Go(r, "test", "term")
  /\ Signal(r, "TERM")
  /\ UNCHANGED <<pipe_closed, child_exited, output, child_status, exit_code, process, ending,
                 written, read_failed, pipes, signals>>

\* what follows the child's end here, whatever the pipe may still hold
GivesUp(r, from) ==
  /\ Go(r, from, "finish")
  /\ pipe_closed' = [pipe_closed EXCEPT ![r] = TRUE]
  /\ UNCHANGED <<output, cause, exit_code, ending, sent, written, read_failed, pipes, signals>>

\* The child is asked for twenty times (ECHILD is no answer here), ...
AwaitTerm(r) == Reap(r) /\ GivesUp(r, "term")

\* ... in vain if it was reaped before; ...
AlreadyExited(r) ==
  /\ child_exited[r] /\ GivesUp(r, "term")
  /\ UNCHANGED <<child_exited, process, child_status>>

VariantKillsAnyway(r) == TRUE

MustBeKilled(r) == ~child_exited[r]

\* ... then it gets SIGKILL ...
Kill(r) ==
  /\ MustBeKilled(r)
  /\ Go(r, "term", "killed")
  /\ Signal(r, "KILL")
  /\ UNCHANGED <<locals, process, ending, written, read_failed, pipes, signals>>

\* ... and is waited for.
AwaitKill(r) == (Reap(r) \/ NoChild(r)) /\ GivesUp(r, "killed")

Finish(r) ==
  /\ Go(r, "finish", "done")
  /\ Returns(r, IF cause[r] = "none" THEN child_status[r] ELSE cause[r])
  /\ read_end' = [read_end EXCEPT ![r] = FALSE]
  /\ UNCHANGED <<pipe_closed, child_exited, output, child_status, cause, kernel, write_end,
                 children, daemons, signals>>

Step(r) ==
  \/ OpenPipe(r) \/ PipeFails(r) \/ Fork(r) \/ ForkFails(r) \/ CloseWriteEnd(r)
  \/ Drain(r) \/ ReadInterrupted(r) \/ ReadFails(r)
  \/ WaitForChild(r) \/ NothingToReap(r) \/ Proceed(r) \/ Interrupt(r)
  \/ AwaitTerm(r) \/ AlreadyExited(r) \/ Kill(r) \/ AwaitKill(r) \/ Finish(r)

-----------------------------------------------------------------------------
(* The child and what it leaves behind *)

ChildWrites(r) ==
  /\ r \in Writers /\ process[r] = "running" /\ written[r] < MaxOutput
  /\ written' = [written EXCEPT ![r] = @ + 1]
  /\ UNCHANGED <<rstage, locals, process, ending, sent, read_failed, pipes, signals>>

ChildEnds(r, how) ==
  /\ process[r] = "running"
  /\ process' = [process EXCEPT ![r] = "zombie"]
  /\ ending' = [ending EXCEPT ![r] = how]
  /\ children' = [q \in Runners |-> children[q] \ {r}]
  /\ UNCHANGED <<rstage, locals, sent, written, read_failed, read_end, write_end, daemons, signals>>

ChildExits(r) == ChildEnds(r, "zero") \/ ChildEnds(r, "nonzero")

\* a signal of the runner or of somebody else; SIGTERM may be ignored
ChildIsSignaled(r) == ChildEnds(r, "nonzero")

\* a process outside the group inherits what the child holds
LeaveDaemon(r) ==
  /\ r \in Starters /\ process[r] = "running"
  /\ daemons' = [q \in Runners |-> IF r \in children[q] THEN daemons[q] \cup {r} ELSE daemons[q]]
  /\ UNCHANGED <<rstage, locals, kernel, read_end, write_end, children, signals>>

DaemonCloses(r) ==
  /\ \E q \in Runners : r \in daemons[q]
  /\ daemons' = [q \in Runners |-> daemons[q] \ {r}]
  /\ UNCHANGED <<rstage, locals, kernel, read_end, write_end, children, signals>>

-----------------------------------------------------------------------------
(* The other threads of the host, and time *)

\* another plugin waits for any child, or SIGCHLD is ignored
StatusIsTaken(r) ==
  /\ r \in Unlucky /\ process[r] = "zombie" /\ process' = [process EXCEPT ![r] = "lost"]
  /\ UNCHANGED <<rstage, locals, ending, sent, written, read_failed, pipes, signals>>

\* stop(); what it asks once the command has returned concerns the next one
RequestStop(r) ==
  /\ r \in Stoppable /\ rstage[r] # "done"
  /\ ~stop_requested[r] /\ stop_requested' = [stop_requested EXCEPT ![r] = TRUE]
  /\ UNCHANGED <<rstage, locals, kernel, pipes, late>>

Deadline(r) ==
  /\ rstage[r] \notin {"idle", "done"}
  /\ ~late[r] /\ late' = [late EXCEPT ![r] = TRUE]
  /\ UNCHANGED <<rstage, locals, kernel, pipes, stop_requested>>

Next ==
  \E r \in Runners :
    \/ Step(r)
    \/ ChildWrites(r) \/ ChildExits(r) \/ ChildIsSignaled(r)
    \/ LeaveDaemon(r) \/ DaemonCloses(r)
    \/ StatusIsTaken(r) \/ RequestStop(r) \/ Deadline(r)

Spec == Init /\ [][Next]_vars

Killed(r) == \E s \in sent[r] : s[1] = "KILL"

\* The runner runs on, time passes and SIGKILL works; no child has to write or to
\* end, no daemon to close anything.
FairSpec ==
  /\ Spec
  /\ \A r \in Runners :
       /\ WF_vars(Step(r)) /\ WF_vars(Deadline(r))
       /\ WF_vars(Killed(r) /\ ChildIsSignaled(r))

-----------------------------------------------------------------------------
(* Properties *)

Stages == {"idle", "fork", "parent", "read", "wait", "test", "term", "killed", "finish", "done"}

LocalTypes ==
  /\ rstage \in [Runners -> Stages]
  /\ pipe_closed \in [Runners -> BOOLEAN] /\ child_exited \in [Runners -> BOOLEAN]
  /\ output \in [Runners -> Nat] /\ child_status \in [Runners -> Statuses]
  /\ cause \in [Runners -> {"none", "cancelled", "timed out"}]
  /\ exit_code \in [Runners -> Statuses \cup {"none", "failed", "cancelled", "timed out"}]

KernelTypes ==
  /\ process \in [Runners -> {"none", "running", "zombie", "reaped", "lost"}]
  /\ ending \in [Runners -> Statuses \cup {"none"}]
  /\ sent \in [Runners -> SUBSET ({"TERM", "KILL"} \X BOOLEAN)]
  /\ written \in [Runners -> Nat] /\ read_failed \in [Runners -> BOOLEAN]

PipeTypes ==
  /\ read_end \in [Runners -> BOOLEAN] /\ write_end \in [Runners -> BOOLEAN]
  /\ children \in [Runners -> SUBSET Runners] /\ daemons \in [Runners -> SUBSET Runners]
  /\ stop_requested \in [Runners -> BOOLEAN] /\ late \in [Runners -> BOOLEAN]

\* a child ends before its status is taken; what the runner knows of it, and what it may
\* send it
ChildOf(r) ==
  /\ process[r] = "none" <=> rstage[r] \in {"idle", "fork"} \/ exit_code[r] = "failed"
  /\ process[r] \in {"zombie", "reaped", "lost"} <=> ending[r] # "none"
  /\ process[r] = "reaped" => child_exited[r] /\ child_status[r] = ending[r]
  /\ process[r] # "reaped" => child_status[r] = "zero"
  /\ child_exited[r] => process[r] \in {"reaped", "lost"}
  /\ sent[r] # {} => cause[r] # "none"
  /\ <<"KILL", TRUE>> \notin sent[r]
  /\ rstage[r] = "killed" => ~child_exited[r]
  /\ rstage[r] = "finish" => child_exited[r]

\* who still has something to write, and what the end of file tells
PipeOf(r) ==
  /\ output[r] <= written[r]
  /\ process[r] = "running" /\ rstage[r] # "done" => r \in children[r]
  /\ write_end[r] <=> rstage[r] \in {"fork", "parent"}
  /\ cause[r] = "none" /\ pipe_closed[r] /\ ~read_failed[r] =>
       output[r] = written[r] /\ process[r] # "running"

\* what is left of the run is what the stage still has to deal with
StageOf(r) ==
  /\ read_end[r] <=> rstage[r] \notin {"idle", "done"}
  /\ exit_code[r] # "none" <=> rstage[r] = "done"
  /\ cause[r] # "none" => rstage[r] \in {"term", "killed", "finish", "done"}
  /\ rstage[r] \in {"term", "killed"} => cause[r] # "none"
  /\ rstage[r] \in {"fork", "parent", "idle"} => ~pipe_closed[r]
  /\ cause[r] = "cancelled" => stop_requested[r]
  /\ cause[r] = "timed out" => late[r]
  /\ rstage[r] = "finish" => cause[r] # "none" \/ pipe_closed[r]
  /\ rstage[r] = "done" =>
       \/ exit_code[r] = "failed"
       \/ child_exited[r] /\ cause[r] # "none" /\ exit_code[r] = cause[r]
       \/ /\ child_exited[r] /\ cause[r] = "none" /\ pipe_closed[r]
          /\ exit_code[r] = child_status[r]

\* The invariant of run_command_capture, from which the following three are proved.
RunnerInvariant ==
  /\ LocalTypes /\ KernelTypes /\ PipeTypes
  /\ \A r \in Runners : ChildOf(r) /\ PipeOf(r) /\ StageOf(r)

\* However a command ends, no child of it is left to be waited for and the host holds
\* neither end of its pipe: an adb worker that tries for days leaves no zombies and no
\* descriptors.
NothingLeftBehind ==
  \A r \in Runners :
    rstage[r] = "done" =>
      process[r] \in {"none", "reaped", "lost"} /\ ~read_end[r] /\ ~write_end[r]

\* An exit status is reported only of a child that has ended and was sent no signal by
\* its runner.  It is the child's own unless somebody else took it (then the code says
\* zero, line 782), and it comes with all the output unless a read failed (775-776).  A
\* command counts as cancelled or late only if it is.
ResultIsTrue ==
  \A r \in Runners :
    /\ exit_code[r] \in Statuses =>
         /\ process[r] \in {"reaped", "lost"} /\ sent[r] = {}
         /\ process[r] = "reaped" => exit_code[r] = ending[r]
         /\ ~read_failed[r] => output[r] = written[r]
    /\ exit_code[r] = "cancelled" => stop_requested[r]
    /\ exit_code[r] = "timed out" => late[r]

\* Once a runner has reaped its child, the number may be another process's: SIGKILL is not
\* sent under it, though a daemon may hold the pipe open until the deadline.  (SIGTERM is,
\* line 791, and so is SIGKILL after somebody else took the status.)
ReapedIsNotKilled == \A r \in Runners : <<"KILL", TRUE>> \notin sent[r]

\* a runner's longest way to its return, in steps, once its loop is left
StepsToReturn ==
  [done |-> 0, finish |-> 1, killed |-> 2, term |-> 3, test |-> 4, wait |-> 5, read |-> 6,
   parent |-> 7, fork |-> 8, idle |-> 9]

\* From its deadline on, and from a stop on if it has a flag, each step of a runner brings
\* it nearer to its return: it reads the pipe once more at most and starts no second round,
\* whatever its child still writes, does with SIGTERM or leaves behind.
InterruptionIsHeeded ==
  [][\A r \in Runners : stop_requested[r] \/ late[r] =>
       rstage'[r] = rstage[r] \/ StepsToReturn[rstage'[r]] < StepsToReturn[rstage[r]]]_vars

\* A command returns, though the child ignores SIGTERM, a daemon or another source's
\* child keeps the pipe open for ever, or nobody writes: stop() can join the worker.
RunsReturn == \A r \in Runners : rstage[r] # "idle" ~> rstage[r] = "done"
=============================================================================
