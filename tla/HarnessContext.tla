----------------------------- MODULE HarnessContext -----------------------------
(* HarnessRuntime of src/src/context: the receipts that bind a client's coding   *)
(* session to the instructions it was shown, and the check every coding tool     *)
(* makes before it runs.                                                         *)
(*                                                                               *)
(* The instruction files are two numbers, the global root's and the project's,   *)
(* that outsiders change.  A discovery reads them one after the other and is     *)
(* shared by whoever asks while it runs, so every await of the code is a place   *)
(* where files, receipts and the policy may change.  An operation of slot s is   *)
(* op[s]; "step" is the await it stands at.                                      *)
EXTENDS Naturals, FiniteSets

CONSTANTS
  Slots,       \* tool calls that may run at once
  Clients,     \* OAuth clients
  Tokens,      \* context tokens (32 random bytes in the code)
  MaxHandles,  \* MAX_CONTEXT_HANDLES, 1024 in the code
  MaxChanges   \* bound: edits, expiries and policy changes of a behaviour

VARIABLES
  disk,         \* the instruction files: [global, project], a number each
  discoveries,  \* the discovery in flight for a key, or NoDiscovery
  receipts,     \* token -> receipt
  op,           \* slot -> the harness operation it runs
  changes       \* edits, expiries and policy changes so far

harnessVars == <<disk, discoveries, receipts, op, changes>>

Keys == {"global", "project"}
Revision == 1..(MaxChanges + 1)
Version == 1..(MaxChanges + 1)

\* What a discovery answers; project = 0 when only the global root was read.
Snapshot == [global : Revision, project : {0} \cup Revision]
NoSnapshot == [global |-> 0, project |-> 0]

\* A discovery in flight: the global files it has read, and the calls that hold its promise.
NoDiscovery == [running |-> FALSE, global |-> 0, callers |-> {}]
Discovery == [running : {TRUE}, global : {0} \cup Revision, callers : SUBSET Slots]
             \cup {NoDiscovery}

Receipt == [client : Clients, version : Version, globalRevision : Revision,
            revision : Snapshot, key : Keys, expired : BOOLEAN, activated : BOOLEAN]
NoReceipt == [key |-> "none"]
NoToken == "no-token"

\* An operation stands at an await (the path check of the project, a discovery,
\* bootstrap's second discovery, the read of a skill file) or has its outcome:
\* "rejected" is any HarnessError, which tells the caller that nothing was executed.
Awaiting == {"resolve", "discover", "rediscover", "skill-file"}
Outcome == {"admitted", "booted", "rejected"}
Kind == {"bootstrap", "require", "list", "instructions", "resource"}
NoOp == [step |-> "none"]
Op == [step : Awaiting \cup Outcome, kind : Kind, client : Clients, version : Version,
       token : Tokens \cup {NoToken}, key : Keys,
       held : Snapshot \cup {NoSnapshot},  \* the revision it holds across the await
       found : Snapshot \cup {NoSnapshot}, \* what its discovery answered
       read : {0} \cup Revision]           \* the skill file it read
      \cup {NoOp}

HarnessTypeOK ==
  /\ disk \in [global : Revision, project : Revision]
  /\ discoveries \in [Keys -> Discovery]
  /\ receipts \in [Tokens -> Receipt \cup {NoReceipt}]
  /\ op \in [Slots -> Op]
  /\ changes \in 0..MaxChanges

HarnessInit ==
  /\ disk = [global |-> 1, project |-> 1]
  /\ discoveries = [k \in Keys |-> NoDiscovery]
  /\ receipts = [t \in Tokens |-> NoReceipt]
  /\ op = [s \in Slots |-> NoOp]
  /\ changes = 0

-------------------------------------------------------------------------------
\* Discovery, shared by its callers.

\* discover(key): the caller joins the discovery in flight or begins one, and awaits
\* the promise it was given.
Discover(s, key) ==
  discoveries' = IF discoveries[key].running
                 THEN [discoveries EXCEPT ![key].callers = @ \cup {s}]
                 ELSE [discoveries EXCEPT ![key] =
                         [running |-> TRUE, global |-> 0, callers |-> {s}]]

\* The promise settles: it leaves the map, and the calls that hold it have its answer
\* or its failure.
Settle(key, answer) ==
  /\ discoveries' = [discoveries EXCEPT ![key] = NoDiscovery]
  /\ op' = [s \in Slots |->
              IF s \notin discoveries[key].callers THEN op[s]
              ELSE IF answer = NoSnapshot THEN [op[s] EXCEPT !.step = "rejected"]
              ELSE [op[s] EXCEPT !.found = answer]]

\* The global files are read first; a global discovery ends with them.
ReadGlobalFiles(key) ==
  /\ discoveries[key].running /\ discoveries[key].global = 0
  /\ IF key = "global"
     THEN Settle(key, [global |-> disk.global, project |-> 0])
     ELSE /\ discoveries' = [discoveries EXCEPT ![key].global = disk.global]
          /\ UNCHANGED op
  /\ UNCHANGED <<disk, receipts, changes>>

ReadProjectFiles ==
  /\ discoveries["project"].running /\ discoveries["project"].global # 0
  /\ Settle("project", [global |-> discoveries["project"].global, project |-> disk.project])
  /\ UNCHANGED <<disk, receipts, changes>>

\* A file that cannot be read safely or is over a limit fails the discovery.
DiscoveryFails(key) ==
  /\ discoveries[key].running
  /\ Settle(key, NoSnapshot)
  /\ UNCHANGED <<disk, receipts, changes>>

-------------------------------------------------------------------------------
\* The check of a receipt, receipt(): unknown or someone else's, stale, or good.

Known(client, token) == token \in Tokens /\ receipts[token] # NoReceipt
                          /\ receipts[token].client = client
Stale(version, token) == receipts[token].expired \/ receipts[token].version # version
Good(client, version, token) == Known(client, token) /\ ~ Stale(version, token)

\* What receipt() leaves of the receipts: a stale one of the caller is deleted.
Checked(client, version, token) ==
  IF Known(client, token) /\ Stale(version, token)
  THEN [receipts EXCEPT ![token] = NoReceipt] ELSE receipts

Opened(kind, client, version, token, key) ==
  [step |-> IF key = "project" THEN "resolve" ELSE "discover", kind |-> kind, client |-> client,
   version |-> version, token |-> token, key |-> key, held |-> NoSnapshot, found |-> NoSnapshot,
   read |-> 0]

\* bootstrap(actor, requestedProject), up to its first await.
Bootstrap(s, client, version, key) ==
  /\ op' = [op EXCEPT ![s] = Opened("bootstrap", client, version, NoToken, key)]
  /\ IF key = "project" THEN UNCHANGED discoveries ELSE Discover(s, "global")
  /\ UNCHANGED <<disk, receipts, changes>>

\* requireContext(actor, token), up to its first await; list and readSkill begin
\* with it.  The receipt's revision is held across the awaits.
Require(s, kind, client, version, token) ==
  /\ receipts' = Checked(client, version, token)
  /\ IF Good(client, version, token)
     THEN LET r == receipts[token]
          IN /\ op' = [op EXCEPT ![s] = [Opened(kind, client, version, token, r.key)
                                           EXCEPT !.held = r.revision]]
             /\ IF r.key = "global" THEN Discover(s, "global") ELSE UNCHANGED discoveries
     ELSE /\ op' = [op EXCEPT ![s] = [Opened(kind, client, version, token, "global")
                                        EXCEPT !.step = "rejected"]]
          /\ UNCHANGED discoveries
  /\ UNCHANGED <<disk, changes>>

\* resolveProjectRoot: the project lies inside the policy's paths, or it does not.
ProjectResolved(s) ==
  /\ op[s].step = "resolve"
  /\ \/ op' = [op EXCEPT ![s].step = "discover"] /\ Discover(s, "project")
     \/ op' = [op EXCEPT ![s].step = "rejected"] /\ UNCHANGED discoveries
  /\ UNCHANGED <<disk, receipts, changes>>

\* requireContext goes on with the snapshot: the receipt stands for other
\* instructions and is dropped.
Outdated(s) ==
  /\ op[s].step = "discover" /\ op[s].kind # "bootstrap"
  /\ op[s].found \notin {NoSnapshot, op[s].held}
  /\ receipts' = [receipts EXCEPT ![op[s].token] = NoReceipt]
  /\ op' = [op EXCEPT ![s].step = "rejected"]
  /\ UNCHANGED <<disk, discoveries, changes>>

\* Or for these.  The receipt itself is not looked at again.
Admitted(s) ==
  /\ op[s].step = "discover" /\ op[s].kind \in {"require", "list"}
  /\ op[s].found = op[s].held
  /\ op' = [op EXCEPT ![s].step = "admitted"]
  /\ UNCHANGED <<disk, discoveries, receipts, changes>>

\* readSkill does look again, and a resource needs the instructions read first.
SkillChecked(s) ==
  LET o == op[s]
      allowed == /\ Good(o.client, o.version, o.token)
                 /\ o.kind = "resource" => receipts[o.token].activated
  IN /\ o.step = "discover" /\ o.kind \in {"instructions", "resource"}
     /\ o.found = o.held
     /\ receipts' = Checked(o.client, o.version, o.token)
     /\ op' = [op EXCEPT ![s].step = IF allowed THEN "skill-file" ELSE "rejected"]
     /\ UNCHANGED <<disk, discoveries, changes>>

\* The skill file is read.  Instructions must be the ones of the snapshot, and
\* activate the receipt, if the map still has it.
XSameFile(o) == TRUE
SameFile(o) == o.kind = "resource" \/ disk[o.key] = o.found[o.key]
SkillRead(s) ==
  LET o == op[s]
  IN /\ o.step = "skill-file"
     /\ op' = [op EXCEPT ![s].step = IF SameFile(o) THEN "admitted" ELSE "rejected",
                         ![s].read = disk[o.key]]
     /\ receipts' = IF /\ o.kind = "instructions" /\ SameFile(o)
                       /\ receipts[o.token] # NoReceipt
                    THEN [receipts EXCEPT ![o.token].activated = TRUE] ELSE receipts
     /\ UNCHANGED <<disk, discoveries, changes>>

\* bootstrap with a project discovers the global context too.
Rediscover(s) ==
  /\ op[s].step = "discover" /\ op[s].kind = "bootstrap" /\ op[s].key = "project"
  /\ op[s].found # NoSnapshot
  /\ op' = [op EXCEPT ![s].step = "rediscover", ![s].held = op[s].found, ![s].found = NoSnapshot]
  /\ Discover(s, "global")
  /\ UNCHANGED <<disk, receipts, changes>>

\* The receipts a bootstrap of this version, project and revisions sweeps away.
XSwept(version, key, revision, globalRevision) ==
  [t \in Tokens |->
     IF /\ receipts[t] # NoReceipt
        /\ \/ receipts[t].expired
           \/ receipts[t].version # version
           \/ receipts[t].globalRevision # globalRevision
           \/ receipts[t].revision # revision
     THEN NoReceipt ELSE receipts[t]]
Swept(version, key, revision, globalRevision) ==
  [t \in Tokens |->
     IF /\ receipts[t] # NoReceipt
        /\ \/ receipts[t].expired
           \/ receipts[t].version # version
           \/ receipts[t].globalRevision # globalRevision
           \/ receipts[t].key = key /\ receipts[t].revision # revision
     THEN NoReceipt ELSE receipts[t]]

\* The tokens of the map, and the ones a caller may still present: a new token is
\* none of these.
Unissued(t, presented) ==
  /\ receipts[t] = NoReceipt /\ t \notin presented
  /\ \A s \in Slots : op[s] # NoOp => op[s].token # t

\* The rest of bootstrap, after its last discovery: sweep, then store a receipt.
Boot(s, presented) ==
  LET o == op[s]
      revision == IF o.step = "rediscover" THEN o.held ELSE o.found
      swept == Swept(o.version, o.key, revision, o.found.global)
  IN /\ o.step \in {"discover", "rediscover"} /\ o.kind = "bootstrap"
     /\ o.step = IF o.key = "project" THEN "rediscover" ELSE "discover"
     /\ o.found # NoSnapshot
     /\ \/ /\ Cardinality({t \in Tokens : swept[t] # NoReceipt}) >= MaxHandles
           /\ receipts' = swept
           /\ op' = [op EXCEPT ![s].step = "rejected"]
        \/ /\ Cardinality({t \in Tokens : swept[t] # NoReceipt}) < MaxHandles
           /\ \E t \in Tokens :
                /\ Unissued(t, presented)
                /\ receipts' = [swept EXCEPT ![t] =
                     [client |-> o.client, version |-> o.version,
                      globalRevision |-> o.found.global, revision |-> revision, key |-> o.key,
                      expired |-> FALSE, activated |-> FALSE]]
                /\ op' = [op EXCEPT ![s].step = "booted", ![s].token = t]
     /\ UNCHANGED <<disk, discoveries, changes>>

\* close(actor, token): only the client's own receipt goes.
Close(client, token) ==
  /\ receipts' = IF Known(client, token) THEN [receipts EXCEPT ![token] = NoReceipt]
                 ELSE receipts
  /\ UNCHANGED <<disk, discoveries, op, changes>>

-------------------------------------------------------------------------------
\* What happens around the harness.

\* An outsider edits the instructions or a skill of a root.
Edit(key) ==
  /\ changes < MaxChanges /\ changes' = changes + 1
  /\ disk' = [disk EXCEPT ![key] = @ + 1]
  /\ UNCHANGED <<discoveries, receipts, op>>

\* CONTEXT_TTL_MS pass for a receipt.
Expire(t) ==
  /\ changes < MaxChanges /\ changes' = changes + 1
  /\ receipts[t] # NoReceipt /\ ~ receipts[t].expired
  /\ receipts' = [receipts EXCEPT ![t].expired = TRUE]
  /\ UNCHANGED <<disk, discoveries, op>>

\* The awaits that the runtime itself ends.
HarnessStep(s, presented) ==
  \/ ProjectResolved(s) \/ Outdated(s) \/ Admitted(s) \/ SkillChecked(s) \/ SkillRead(s)
  \/ Rediscover(s) \/ Boot(s, presented)

DiscoveryStep ==
  \/ \E key \in Keys : ReadGlobalFiles(key)
  \/ ReadProjectFiles
  \/ \E key \in Keys : DiscoveryFails(key)

-------------------------------------------------------------------------------
\* Correctness.

\* The instructions of a skill that are handed out are the ones of the revision the
\* client's context stands for, though the files may change between the two reads.
SkillsMatchTheirRevision ==
  \A s \in Slots :
    op[s] # NoOp /\ op[s].kind = "instructions" /\ op[s].step = "admitted" =>
      op[s].read = op[s].held[op[s].key]
=============================================================================
