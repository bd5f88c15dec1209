------------------------------- MODULE FileWrites -------------------------------
(* core.write and core.edit, src/src/kernel/fs-write.ts and fs-edit.ts: replace a *)
(* file whose hash the caller names, or create one, by way of a temporary file.   *)
(*                                                                                *)
(* A content is an opaque value; each call writes its own, so that a file tells   *)
(* who wrote it last.  The kernel keeps the set of targets that are being written *)
(* (activeWriteTargets); outsiders, the owner's editor or a running command, do   *)
(* not know that set.  "interrupted" stands for the aborted request and for the   *)
(* deadline of the guard, which every checkpoint of the code looks at.            *)
EXTENDS Naturals, FiniteSets

CONSTANTS
  Writers,   \* tool calls that may run at once; also the contents they write
  Targets,   \* paths
  Base,      \* the content a file begins with
  Outside    \* the content an outsider writes

VARIABLES
  file,      \* path -> its content, or Absent
  writing,   \* activeWriteTargets
  write      \* writer -> its call

Absent == "absent"
NoHash == "no-hash"
Contents == Writers \cup {Base, Outside}

\* What a call awaits: the path, the base an edit starts from, the current file, its
\* status, the temporary file, the read under the lock, the rename or the link, the removal of
\* the temporary file after a link, and the finally.
Steps == {"edit", "path", "read", "stat", "temp", "recheck", "rename", "link", "unlink", "finally"}
Locked == {"temp", "recheck", "rename", "link", "unlink", "finally"}
Outcomes == {"applied", "preview", "refused", "conflict", "cancelled"}
NoWrite == [step |-> "none"]
Call ==
  [step : Steps \cup {"answered"}, tool : {"write", "edit"}, target : Targets,
   expected : Contents \cup {NoHash},
   dry : BOOLEAN, interrupted : BOOLEAN,
   exists : BOOLEAN,       \* what the path check saw
   seen : Contents \cup {Absent},  \* what it read there
   temp : BOOLEAN,         \* its temporary file is on disk
   committed : BOOLEAN,    \* its content got to the target
   outcome : Outcomes \cup {"none"}]

FilesTypeOK ==
  /\ file \in [Targets -> Contents \cup {Absent}]
  /\ writing \subseteq Targets
  /\ write \in [Writers -> Call \cup {NoWrite}]

FilesInit ==
  /\ file \in [Targets -> {Base, Absent}]
  /\ writing = {}
  /\ write = [w \in Writers |-> NoWrite]

At(w, step) == write[w] # NoWrite /\ write[w].step = step
Held(w) == file[write[w].target]

-------------------------------------------------------------------------------
\* How a call ends.

Answered(c, outcome) == [c EXCEPT !.step = "answered", !.outcome = outcome]

\* An edit's last checkpoint and its test come after the write it was made of: the
\* edit may answer cancelled, or conflict, for a file that it changed.
XAfterWrite(c, outcome) ==
  Answered(c, IF outcome \in {"applied", "preview"} /\ c.interrupted THEN "cancelled" ELSE outcome)
AfterWrite(c, outcome) ==
  IF c.tool = "edit" /\ outcome \in {"applied", "preview"}
  THEN Answered(c, IF c.interrupted THEN "cancelled"
                   ELSE IF ~ c.exists THEN "conflict" ELSE outcome)
  ELSE Answered(c, outcome)

\* The finally: the temporary file goes, then the target may be written by others.
Failed(c, outcome) == [c EXCEPT !.step = "finally", !.outcome = outcome]

-------------------------------------------------------------------------------
\* The call, one action for each await.

\* writeContainedFile or editContainedFile, once its arguments are found valid.
BeginWrite(w, tool, target, expected, dry) ==
  /\ tool = "edit" => expected # NoHash
  /\ write' = [write EXCEPT ![w] =
       [step |-> IF tool = "edit" THEN "edit" ELSE "path", tool |-> tool, target |-> target,
        expected |-> expected, dry |-> dry, interrupted |-> FALSE, exists |-> FALSE,
        seen |-> Absent, temp |-> FALSE, committed |-> FALSE, outcome |-> "none"]]
  /\ UNCHANGED <<file, writing>>

\* The old texts occur exactly once in the base, do not overlap, and the result differs.
Applies(w) == Held(w) # w

\* The edit reads its base, which must have the hash the caller names.
EditRead(w) ==
  /\ At(w, "edit")
  /\ \/ /\ ~ write[w].interrupted /\ Held(w) = write[w].expected /\ Applies(w)
        /\ write' = [write EXCEPT ![w].step = "path"]
     \/ write' = [write EXCEPT ![w] = Answered(@,
                   IF @.interrupted THEN "cancelled"
                   ELSE IF Held(w) \in {Absent, write[w].expected} THEN "refused" ELSE "conflict")]
  /\ UNCHANGED <<file, writing>>

\* acquireWriteTarget, at the end of the last turn before the temporary file.
MayWrite(target) == target \notin writing
Acquire(w, c) ==
  IF MayWrite(c.target)
  THEN /\ writing' = writing \cup {c.target}
       /\ write' = [write EXCEPT ![w] = [c EXCEPT !.step = "temp"]]
  ELSE /\ write' = [write EXCEPT ![w] = Answered(c, "conflict")]
       /\ UNCHANGED writing

\* A path that is not relative, leaves the root or names a secret.
OutOfBounds(c) == Answered(c, IF c.interrupted THEN "cancelled" ELSE "refused")

\* resolveWritableBoundaryPath: contained, no symbolic link, and there or not.  A new
\* file is written at once, whatever hash the caller named.
PathResolved(w) ==
  LET c == [write[w] EXCEPT !.exists = Held(w) # Absent]
  IN /\ At(w, "path")
     /\ \/ /\ write' = [write EXCEPT ![w] = OutOfBounds(c)]
           /\ UNCHANGED writing
        \/ /\ ~ c.interrupted /\ c.exists
           /\ write' = [write EXCEPT ![w] = [c EXCEPT !.step = "read"]]
           /\ UNCHANGED writing
        \/ /\ ~ c.interrupted /\ ~ c.exists /\ c.dry
           /\ write' = [write EXCEPT ![w] = AfterWrite(c, "preview")]
           /\ UNCHANGED writing
        \/ ~ c.interrupted /\ ~ c.exists /\ ~ c.dry /\ Acquire(w, c)
     /\ UNCHANGED file

\* The current file is read.
CurrentRead(w) ==
  /\ At(w, "read")
  /\ write' = [write EXCEPT ![w] =
       IF @.interrupted THEN Answered(@, "cancelled")
       ELSE IF Held(w) = Absent THEN Answered(@, "refused")
       ELSE [@ EXCEPT !.step = "stat", !.seen = Held(w)]]
  /\ UNCHANGED <<file, writing>>

\* After the lstat that follows, what was read must have the hash the caller names.
HashCompared(w) ==
  LET c == write[w]
  IN /\ At(w, "stat")
     /\ IF Held(w) = Absent \/ c.dry \/ c.expected # c.seen \/ c.interrupted
        THEN /\ write' = [write EXCEPT ![w] =
                  IF Held(w) = Absent THEN Answered(c, "refused")
                  ELSE IF c.dry /\ (c.tool = "write" \/ c.expected = c.seen)
                  THEN AfterWrite(c, "preview")
                  ELSE IF c.expected = NoHash THEN Answered(c, "refused")
                  ELSE Answered(c, IF c.expected # c.seen THEN "conflict" ELSE "cancelled")]
             /\ UNCHANGED writing
        ELSE Acquire(w, c)
     /\ UNCHANGED file

\* The temporary file is opened, written and synced, or one of the three fails.
TempWritten(w) ==
  LET c == write[w]
  IN /\ At(w, "temp")
     /\ \E opened, synced \in BOOLEAN :
          /\ synced => opened
          /\ write' = [write EXCEPT ![w] =
               IF synced /\ ~ c.interrupted
               THEN [c EXCEPT !.temp = TRUE, !.step = IF c.exists THEN "recheck" ELSE "link"]
               ELSE Failed([c EXCEPT !.temp = opened],
                           IF synced THEN "cancelled" ELSE "refused")]
     /\ UNCHANGED <<file, writing>>

\* The file is read again under the lock.
XUnchanged(w) == Held(w) # Absent
Unchanged(w) == Held(w) = write[w].expected
Rechecked(w) ==
  LET c == write[w]
  IN /\ At(w, "recheck")
     /\ write' = [write EXCEPT ![w] =
          IF c.interrupted THEN Failed(c, "cancelled")
          ELSE IF Held(w) = Absent THEN Failed(c, "refused")
          ELSE IF ~ Unchanged(w) THEN Failed(c, "conflict")
          ELSE [c EXCEPT !.step = "rename"]]
     /\ UNCHANGED <<file, writing>>

\* The temporary file takes the target's place, or the file system refuses.
Renamed(w) ==
  LET c == write[w]
  IN /\ At(w, "rename")
     /\ \/ /\ file' = [file EXCEPT ![c.target] = w]
           /\ write' = [write EXCEPT ![w] =
                [Failed(c, "applied") EXCEPT !.temp = FALSE, !.committed = TRUE]]
        \/ /\ write' = [write EXCEPT ![w] = Failed(c, "refused")]
           /\ UNCHANGED file
     /\ UNCHANGED writing

\* A new file is linked, and never over one that appeared meanwhile.
Vacant(w) == Held(w) = Absent
Linked(w) ==
  LET c == write[w]
  IN /\ At(w, "link")
     /\ \/ /\ Vacant(w)
           /\ file' = [file EXCEPT ![c.target] = w]
           /\ write' = [write EXCEPT ![w].step = "unlink", ![w].committed = TRUE]
        \/ /\ write' = [write EXCEPT ![w] = Failed(c, IF Vacant(w) THEN "refused" ELSE "conflict")]
           /\ UNCHANGED file
     /\ UNCHANGED writing

\* The name of the temporary file is removed; when that fails, so does the call,
\* whose file stands all the same.
Unlinked(w) ==
  /\ At(w, "unlink")
  /\ \/ write' = [write EXCEPT ![w] = [Failed(@, "applied") EXCEPT !.temp = FALSE]]
     \/ write' = [write EXCEPT ![w] = Failed(@, "refused")]
  /\ UNCHANGED <<file, writing>>

\* The finally: rm with force, then the lock is released whatever rm does.
Freed(target) == writing \ {target}
Cleaned(w) ==
  LET c == write[w]
  IN /\ At(w, "finally")
     /\ write' = [write EXCEPT ![w] = [AfterWrite(c, c.outcome) EXCEPT !.temp = FALSE]]
     /\ writing' = Freed(c.target)
     /\ UNCHANGED file

WriteStep(w) ==
  \/ EditRead(w) \/ PathResolved(w) \/ CurrentRead(w) \/ HashCompared(w)
  \/ TempWritten(w) \/ Rechecked(w) \/ Renamed(w) \/ Linked(w) \/ Unlinked(w) \/ Cleaned(w)

\* The peer leaves, or the guard's time is over.
Interrupt(w) ==
  /\ write[w] # NoWrite /\ write[w].step # "answered" /\ ~ write[w].interrupted
  /\ write' = [write EXCEPT ![w].interrupted = TRUE]
  /\ UNCHANGED <<file, writing>>

\* An outsider writes or removes the file.
OutsiderWrites(target, content) ==
  /\ content \in {Outside, Absent} /\ file[target] # content
  /\ file' = [file EXCEPT ![target] = content]
  /\ UNCHANGED <<writing, write>>

-------------------------------------------------------------------------------
\* Correctness.

\* A write takes the place of what its caller named, or of nothing when it creates the
\* file; never of what another call wrote meanwhile.  Only an outsider, who does not
\* know the lock, can slip in between the second read and the rename.
NoLostUpdate ==
  [][\A w \in Writers :
       write'[w] # NoWrite /\ write'[w].committed /\ ~ write[w].committed =>
         IF write[w].exists THEN Held(w) \in {write[w].expected, Outside, Absent}
         ELSE Held(w) = Absent]_<<file, write>>

\* An edit whose target disappeared after its base was read: the new file that its
\* content was linked as is there, and the test for a target that existed comes after.
CreatedByAnEdit(c) == c.tool = "edit" /\ ~ c.exists

\* What is answered as applied is applied, and an edit is never answered as applied for a
\* file it created.  What is answered as refused, cancelled or in conflict left the file
\* alone, but for the three cases the code has: an edit interrupted after its write is
\* cancelled, an edit that created its target anew is a conflict, and a new file whose
\* temporary name could not be removed after the link is refused.
AnswerTellsTheFile ==
  \A w \in Writers :
    LET c == write[w]
    IN c # NoWrite /\ c.step = "answered" =>
         /\ c.outcome = "applied" => c.committed /\ ~ CreatedByAnEdit(c)
         /\ c.committed =>
              \/ c.outcome = "applied"
              \/ c.outcome = "cancelled" /\ c.tool = "edit" /\ c.interrupted
              \/ c.outcome = "conflict" /\ CreatedByAnEdit(c)
              \/ c.outcome = "refused" /\ ~ c.exists
         /\ c.dry => ~ c.committed
=============================================================================
