------------------------------ MODULE CodingSession ------------------------------
(* The coding surface: clients that bootstrap a context and read skills, and the    *)
(* tools that write, edit and run commands once requireContext has let them in.     *)
(*                                                                                  *)
(* The two parts meet only there: a tool's work begins when its context is          *)
(* admitted, and from then on it reads and writes nothing of the harness, nor the   *)
(* harness anything of it.  A behaviour is therefore one of the context or one of   *)
(* the work of admitted tools, and the two are not multiplied with each other.      *)
EXTENDS HarnessContext

CONSTANTS
  Targets,   \* paths
  Kinds,     \* bound: the harness operations that are called
  Work,      \* bound: the tools that are called, of {"write", "edit", "exec"}
  Base,      \* the content of a file that is there
  Outside    \* the content an outsider writes

ASSUME CodingAssumption ==
  MaxChanges \in Nat /\ NoToken \notin Tokens /\ Kinds \subseteq Kind

VARIABLES
  part,                  \* "context" or "tools"
  version,               \* the version of the active policy
  held,                  \* client -> the token it presents
  file, writing, write,   \* FileWrites
  run                    \* CommandRuns

INSTANCE FileWrites WITH Writers <- Slots
INSTANCE CommandRuns WITH Runners <- Slots

files == <<file, writing, write>>
toolVars == <<file, writing, write, run>>
sessionVars == <<harnessVars, part, version, held, toolVars>>

SessionTypeOK ==
  /\ HarnessTypeOK /\ FilesTypeOK /\ CommandsTypeOK
  /\ part \in {"context", "tools"}
  /\ version \in Version /\ held \in [Clients -> Tokens \cup {NoToken}]

SessionInit ==
  /\ HarnessInit /\ FilesInit /\ CommandsInit
  /\ part \in {"context", "tools"}
  /\ version = 1 /\ held = [c \in Clients |-> NoToken]

-------------------------------------------------------------------------------
\* The context.

\* A client calls a tool.  Its exchange captured a policy at some moment up to now.
Ask(s, c) ==
  /\ op[s] = NoOp
  /\ \E v \in 1..version :
       \/ \E key \in Keys : "bootstrap" \in Kinds /\ Bootstrap(s, c, v, key)
       \/ \E kind \in Kinds \ {"bootstrap"} : Require(s, kind, c, v, held[c])
  /\ UNCHANGED <<part, version, held, toolVars>>

CloseContext(c) ==
  /\ held[c] # NoToken
  /\ Close(c, held[c])
  /\ held' = [held EXCEPT ![c] = NoToken]
  /\ UNCHANGED <<part, version, toolVars>>

HarnessRuns ==
  /\ DiscoveryStep \/ \E s \in Slots : op[s] # NoOp /\ HarnessStep(s, {held[c] : c \in Clients})
  /\ UNCHANGED <<part, version, held, toolVars>>

\* The answer goes out; a bootstrap's gives the client its token.
ContextAnswers(s) ==
  /\ op[s] # NoOp /\ op[s].step \in Outcome
  /\ op' = [op EXCEPT ![s] = NoOp]
  /\ held' = IF op[s].step = "booted" THEN [held EXCEPT ![op[s].client] = op[s].token] ELSE held
  /\ UNCHANGED <<disk, discoveries, receipts, changes, part, version, toolVars>>

\* An instruction file changes, a receipt's time is over, or the owner's policy does.
ContextChanges ==
  \/ /\ \/ \E key \in Keys : Edit(key)
        \/ \E t \in Tokens : Expire(t)
     /\ UNCHANGED <<part, version, held, toolVars>>
  \/ /\ changes < MaxChanges /\ changes' = changes + 1
     /\ version' = version + 1
     /\ UNCHANGED <<disk, discoveries, receipts, op, part, held, toolVars>>

ContextNext ==
  \/ \E s \in Slots, c \in Clients : Ask(s, c)
  \/ \E c \in Clients : CloseContext(c)
  \/ HarnessRuns
  \/ \E s \in Slots : ContextAnswers(s)
  \/ ContextChanges

-------------------------------------------------------------------------------
\* The tools.

\* An admitted tool begins, with a hash its client read at some time.
ToolBegins(s) ==
  /\ write[s] = NoWrite /\ run[s] = NoRun
  /\ \/ /\ \E tool \in Work \cap {"write", "edit"}, target \in Targets, dry \in BOOLEAN,
             expected \in {Base, NoHash} \cup Slots :
             BeginWrite(s, tool, target, expected, dry)
        /\ UNCHANGED run
     \/ "exec" \in Work /\ BeginRun(s) /\ UNCHANGED files

ToolRuns(s) ==
  \/ WriteStep(s) /\ UNCHANGED run
  \/ RunStep(s) /\ UNCHANGED files

ToolAnswers(s) ==
  /\ \/ write[s] # NoWrite /\ write[s].step = "answered"
     \/ run[s] # NoRun /\ run[s].step = "answered"
  /\ write' = [write EXCEPT ![s] = NoWrite] /\ run' = [run EXCEPT ![s] = NoRun]
  /\ UNCHANGED <<file, writing>>

\* A call is interrupted, a command leaves a descendant, an outsider writes.
AroundTools(s) ==
  \/ Interrupt(s) /\ UNCHANGED run
  \/ (AbortRun(s) \/ Forks(s)) /\ UNCHANGED files
  \/ \E target \in Targets, content \in {Outside, Absent} :
       OutsiderWrites(target, content) /\ UNCHANGED run

ToolsNext ==
  /\ \E s \in Slots : ToolBegins(s) \/ ToolRuns(s) \/ ToolAnswers(s) \/ AroundTools(s)
  /\ UNCHANGED <<harnessVars, part, version, held>>

SessionNext ==
  \/ part = "context" /\ ContextNext
  \/ part = "tools" /\ ToolsNext

\* While no instruction, no policy and no time changes, a client keeps its context:
\* no bootstrap of another call, of this project or of none, sweeps a receipt away
\* whose token was handed out.
SessionsSurvive ==
  changes = 0 =>
    \A c \in Clients : held[c] # NoToken => Good(c, version, held[c])

SessionSpec == SessionInit /\ [][SessionNext]_sessionVars
=============================================================================
