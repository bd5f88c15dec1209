------------------------------ MODULE GatewayTools ------------------------------
(* The tools that createMcpServer registers, src/src/protocol/mcp-server.ts: one *)
(* record per handler, with what tells its calls apart from another tool's.      *)
(* Schemas, descriptions and the wording of answers are left out.                *)

\* The outcomes a handler may record, and whether one of them may leave a change.
Plain == {"success", "error"}
Signalled == Plain \cup {"cancelled", "timeout"}

(* needs    the capability without which the tool is not registered              *)
(* gated    requireHarness is awaited before anything is done                    *)
(* audited  one tool audit event in the handler's finally                        *)
(* denies   an authorization error is audited as a denial                        *)
(* outcomes how the work may end                                                 *)
(* late     an outcome other than success may still leave the change made        *)
(* acts     what a success may change (a dry run, or a call that finds its work  *)
(*          done already, changes nothing), "nothing" for a read                 *)
(* reports  what its timeout or its caller cut off is answered as a result all   *)
(*          the same, without isError                                            *)
Tool(needs, gated, audited, denies, outcomes, late, acts) ==
  [needs |-> needs, gated |-> gated, audited |-> audited, denies |-> denies,
   outcomes |-> outcomes, late |-> late, acts |-> acts, reports |-> FALSE]

\* A file tool: contained in its roots, aborted by the request's signal.  Only the
\* image tool audits a path outside the roots as a denial.
CoreRead == Tool("core.read", TRUE, TRUE, FALSE, Signalled, FALSE, "nothing")
ReadImage == Tool("core.read", TRUE, TRUE, TRUE, Signalled, FALSE, "nothing")
CoreSearch == Tool("core.search", TRUE, TRUE, FALSE, Signalled, FALSE, "nothing")
\* A created file stands also when its temporary name cannot be removed and the call
\* answers an error.
CoreWrite == Tool("core.write", TRUE, TRUE, FALSE, Signalled, TRUE, "files")
\* An edit that is applied may still answer cancelled: its last checkpoint comes
\* after the write.
CoreEdit == Tool("core.edit", TRUE, TRUE, FALSE, Signalled, TRUE, "files")
\* A command that was ended by its timeout or by the caller has run, and its exit is
\* the answer.
CoreExec == [Tool("core.exec", TRUE, TRUE, TRUE, Signalled, TRUE, "process")
               EXCEPT !.reports = TRUE]

\* The task tools; all but cancel wait for the harness.
TaskStart == Tool("core.exec", TRUE, TRUE, TRUE, Plain, FALSE, "task")
TaskCreate == Tool("mcp:tools", TRUE, TRUE, FALSE, Plain, FALSE, "task")
TaskList == Tool("mcp:tools", TRUE, TRUE, FALSE, Plain, FALSE, "nothing")
TaskClaim == Tool("mcp:tools", TRUE, TRUE, FALSE, Plain, FALSE, "task")
TaskRelease == Tool("mcp:tools", TRUE, TRUE, TRUE, Plain, FALSE, "task")
TaskComplete == Tool("mcp:tools", TRUE, TRUE, TRUE, Plain, FALSE, "task")
TaskFail == Tool("mcp:tools", TRUE, TRUE, TRUE, Plain, FALSE, "task")
TaskGet == Tool("mcp:tools", TRUE, TRUE, TRUE, Plain, FALSE, "nothing")
TaskWait == Tool("mcp:tools", TRUE, TRUE, TRUE, Plain \cup {"cancelled"}, FALSE, "nothing")
TaskCancel == Tool("mcp:tools", FALSE, TRUE, TRUE, Plain, FALSE, "task")

\* The tools of every profile: no harness; the debates' keep no tool audit.
CorePing == Tool("none", FALSE, TRUE, FALSE, {"success"}, FALSE, "nothing")
ConnectionRestrict == Tool("grant", FALSE, FALSE, FALSE, Plain, FALSE, "profile")
DebateCreate == Tool("none", FALSE, FALSE, FALSE, Plain, FALSE, "debate")
DebateJoin == Tool("none", FALSE, FALSE, FALSE, Plain, FALSE, "debate")
DebateRead == Tool("none", FALSE, FALSE, FALSE, Plain, TRUE, "debate")
DebateSend == Tool("none", FALSE, FALSE, FALSE, Plain, TRUE, "debate")
DebateWait == Tool("none", FALSE, FALSE, FALSE, Plain, TRUE, "debate")
DebateStop == Tool("none", FALSE, FALSE, FALSE, Plain, FALSE, "debate")

\* A provider's tool, of the runtime generation the exchange holds.
ProviderTool == Tool("provider", TRUE, TRUE, FALSE, Signalled, TRUE, "provider")

\* The harness tools: their work is HarnessContext's, their errors are HarnessErrors.
HarnessTool == Tool("mcp:tools", FALSE, TRUE, FALSE, Plain, FALSE, "receipt")

\* The four harness tools are registered for the full surface only.
HarnessTools == {"context.bootstrap", "context.close", "skills.list", "skills.read"}

Builtins ==
  {"core.read", "media.read_image", "core.search", "core.write", "core.edit", "core.exec",
   "task.start", "task.create", "task.list", "task.claim", "task.release", "task.complete",
   "task.fail", "task.get", "task.wait", "task.cancel", "core.ping", "connection.restrict",
   "debate.create", "debate.join", "debate.read", "debate.send", "debate.wait", "debate.stop"}

Handlers ==
  [tool \in Builtins \cup HarnessTools \cup {"provider"} |->
     CASE tool = "core.read" -> CoreRead [] tool = "media.read_image" -> ReadImage
       [] tool = "core.search" -> CoreSearch [] tool = "core.write" -> CoreWrite
       [] tool = "core.edit" -> CoreEdit [] tool = "core.exec" -> CoreExec
       [] tool = "task.start" -> TaskStart [] tool = "task.create" -> TaskCreate
       [] tool = "task.list" -> TaskList [] tool = "task.claim" -> TaskClaim
       [] tool = "task.release" -> TaskRelease [] tool = "task.complete" -> TaskComplete
       [] tool = "task.fail" -> TaskFail [] tool = "task.get" -> TaskGet
       [] tool = "task.wait" -> TaskWait [] tool = "task.cancel" -> TaskCancel
       [] tool = "core.ping" -> CorePing [] tool = "connection.restrict" -> ConnectionRestrict
       [] tool = "debate.create" -> DebateCreate [] tool = "debate.join" -> DebateJoin
       [] tool = "debate.read" -> DebateRead [] tool = "debate.send" -> DebateSend
       [] tool = "debate.wait" -> DebateWait [] tool = "debate.stop" -> DebateStop
       [] tool = "provider" -> ProviderTool
       [] tool \in HarnessTools -> HarnessTool]

\* isToolVisibleForProfile: a Gateway-only connection sees these, and providers.
GatewayBuiltins ==
  {"core.ping", "connection.restrict", "debate.create", "debate.join", "debate.read",
   "debate.send", "debate.wait", "debate.stop"}
Visible(profile, tool) == profile = "full" \/ tool = "provider" \/ tool \in GatewayBuiltins
=============================================================================
