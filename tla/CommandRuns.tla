------------------------------- MODULE CommandRuns -------------------------------
(* startRunCommand of src/src/kernel/exec.ts: one command of a call, its process    *)
(* group, and the two steps that end it.                                            *)
(*                                                                                  *)
(* A command leads a process group of its own.  It may leave a descendant in the    *)
(* group, which either keeps the pipes of its output open, and with them "close"    *)
(* away, or does not.  What a command that leaves the group does is out of reach of *)
(* this code.  (On Windows taskkill stands for both signals.)                       *)
EXTENDS Naturals

CONSTANT Runners   \* tool calls that may run at once

VARIABLE run       \* runner -> its command

NoRun == [step |-> "none"]
Causes == {"none", "timeout", "abort"}
Descendant == {"none", "holds-pipes", "quiet"}
Run ==
  [step : {"validate", "running", "answered"},
   aborted : BOOLEAN,        \* the request's signal is aborted
   listening : BOOLEAN,      \* the command heard, or will hear, of it
   leader : BOOLEAN,         \* the command's own process is alive
   descendant : Descendant,
   cause : Causes,           \* terminalCause
   killed : BOOLEAN,         \* SIGKILL was sent
   outcome : {"none", "exited", "timed-out", "cancelled", "spawn-failed", "not-applied"}]

CommandsTypeOK == run \in [Runners -> Run \cup {NoRun}]
CommandsInit == run = [r \in Runners |-> NoRun]

Running(r) == run[r] # NoRun /\ run[r].step = "running"

\* What is found before any await: arguments beyond a limit; an environment without the
\* absolute paths a command needs; a signal that is aborted already, which is looked at
\* here and only here; a dry run.  All of these are answered without a process.
TooLong == "not-applied"
NoEnvironment == "spawn-failed"
Prepared == {TooLong, NoEnvironment, "not-applied", "none"}
BeginRun(r) ==
  \E outcome \in Prepared :
    run' = [run EXCEPT ![r] =
      [step |-> IF outcome = "none" THEN "validate" ELSE "answered", aborted |-> FALSE,
       listening |-> FALSE, leader |-> FALSE, descendant |-> "none", cause |-> "none",
       killed |-> FALSE, outcome |-> outcome]]

EndsAtOnce(r, outcome) ==
  run' = [run EXCEPT ![r].step = "answered", ![r].outcome = outcome]

\* The binary is no longer the approved file, or it cannot be spawned.
NotSpawned(r) ==
  /\ run[r] # NoRun /\ run[r].step = "validate"
  /\ EndsAtOnce(r, "spawn-failed")

\* It is spawned.  A signal that was aborted while the binary was looked at fires no
\* event any more: the command does not hear of it.
Spawned(r) ==
  /\ run[r] # NoRun /\ run[r].step = "validate"
  /\ run' = [run EXCEPT ![r].step = "running", ![r].leader = TRUE,
                        ![r].listening = ~ run[r].aborted]

\* The first cause ends the command, with SIGTERM to its group.
Terminates(x, cause) == IF x.cause = "none" THEN [x EXCEPT !.cause = cause] ELSE x

AbortRun(r) ==
  /\ run[r] # NoRun /\ run[r].step # "answered" /\ ~ run[r].aborted
  /\ LET x == [run[r] EXCEPT !.aborted = TRUE]
     IN run' = [run EXCEPT ![r] = IF x.listening THEN Terminates(x, "abort") ELSE x]

RunTimesOut(r) ==
  /\ Running(r) /\ run[r].cause = "none"
  /\ run' = [run EXCEPT ![r] = Terminates(@, "timeout")]

\* The grace is over: SIGKILL ends whoever is left of the group.
Killed(x) == [x EXCEPT !.killed = TRUE, !.leader = FALSE, !.descendant = "none"]
GraceEnds(r) ==
  /\ Running(r) /\ run[r].cause # "none" /\ ~ run[r].killed
  /\ run' = [run EXCEPT ![r] = Killed(@)]

\* What the processes do: leave a descendant, exit, with or without a SIGTERM.
Forks(r) ==
  /\ Running(r) /\ run[r].leader /\ run[r].descendant = "none"
  /\ \E d \in Descendant \ {"none"} : run' = [run EXCEPT ![r].descendant = d]
LeaderExits(r) ==
  /\ Running(r) /\ run[r].leader
  /\ run' = [run EXCEPT ![r].leader = FALSE]
DescendantExits(r) ==
  /\ Running(r) /\ run[r].descendant # "none"
  /\ run' = [run EXCEPT ![r].descendant = "none"]

\* "close": the command is gone and its pipes are closed.  One that was to end takes
\* the rest of its group with it, before the timer of the grace is cleared (on POSIX
\* hosts, which are the ones modelled; on Windows "close" does not kill).
XAtClose(x) == x
AtClose(x) == IF x.cause = "none" THEN x ELSE Killed(x)
Closed(r) ==
  LET x == run[r]
  IN /\ Running(r) /\ ~ x.leader /\ x.descendant # "holds-pipes"
     /\ run' = [run EXCEPT ![r] =
          [AtClose(x) EXCEPT !.step = "answered",
             !.outcome = CASE x.cause = "none" -> "exited"
                           [] x.cause = "timeout" -> "timed-out"
                           [] x.cause = "abort" -> "cancelled"]]

RunStep(r) ==
  \/ NotSpawned(r) \/ Spawned(r) \/ RunTimesOut(r) \/ GraceEnds(r)
  \/ LeaderExits(r) \/ DescendantExits(r) \/ Closed(r)

-------------------------------------------------------------------------------
\* A command that is answered as timed out or cancelled has nobody left in its process
\* group, on a POSIX host, also when its own process was gone before a descendant that
\* ignores SIGTERM, and "close" cleared the timer of the grace.
CommandsLeaveNothing ==
  \A r \in Runners :
    run[r] # NoRun /\ run[r].outcome \in {"timed-out", "cancelled"} =>
      ~ run[r].leader /\ run[r].descendant = "none"
=============================================================================
