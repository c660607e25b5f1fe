----------------------------- MODULE McpDriver -----------------------------
(***************************************************************************)
(* driver-mcp. The upper half is the tool list: read from the server page  *)
(* by page when the driver connects, and again by a watcher whenever the   *)
(* server says it has changed; a channel of capacity one holds the signal. *)
(* adapterd registers the agent once its driver has connected. The lower   *)
(* half is one tool call with its progress task and its cancellation.      *)
(* A tool list is known by the number of changes before it.                *)
(***************************************************************************)
EXTENDS Naturals, Sequences, FiniteSets

CONSTANTS
  MaxChanges,    \* bound: changes of the server's tool list
  MaxProgress    \* bound: progress notifications of the call

VARIABLES
  tools,       \* the server's list: the number of its changes so far
  notes,       \* tools/list_changed notifications under way
  signal,      \* is the list_changed channel full?
  mcp,         \* "no", "connecting", "skipped", "built", "registered", "dropped"
  watcher,     \* "none", "waiting", "reading", "updating", "stopped"
  pages,       \* the pages a discovery under way has read (two make a list)
  schemas,     \* tool_schemas: the pages they came from, or <<>>
  skills,      \* the agent's skills likewise; <<>> are the configured ones
  stale,       \* did the last discovery fail?
  call,        \* "no", "sent", "abandoned", "open", "decided", "done"
  handle,      \* active_handles of the call
  token,       \* is its token cancelled?
  progress,    \* the progress task: "no", "running", "aborted", "ended"
  updates,     \* progress notifications of the server so far
  outcome,     \* the event the call is decided on
  out          \* what the call's channel received

listVars  == <<tools, notes, signal, mcp, watcher, pages, schemas, skills, stale>>
callVars  == <<call, handle, token, progress, updates, outcome, out>>
mcpVars   == <<listVars, callVars>>

Init ==
  /\ tools = 0 /\ notes = 0 /\ signal = FALSE /\ mcp = "no" /\ watcher = "none"
  /\ pages = <<>> /\ schemas = <<>> /\ skills = <<>> /\ stale = FALSE
  /\ call = "no" /\ handle = FALSE /\ token = FALSE /\ progress = "no"
  /\ updates = 0 /\ outcome = "none" /\ out = <<>>

-----------------------------------------------------------------------------
(* The server and the handler of its notifications                         *)

Connect ==
  /\ mcp = "no"
  /\ mcp' = "connecting"
  /\ UNCHANGED <<tools, notes, signal, watcher, pages, schemas, skills, stale,
                 callVars>>

ToolsChange ==
  /\ mcp # "no" /\ tools < MaxChanges
  /\ tools' = tools + 1
  /\ notes' = notes + 1
  /\ UNCHANGED <<signal, mcp, watcher, pages, schemas, skills, stale,
                 callVars>>

\* on_tool_list_changed: try_send, so a second signal is not kept.
ListChanged ==
  /\ notes > 0
  /\ notes' = notes - 1
  /\ signal' = TRUE
  /\ UNCHANGED <<tools, mcp, watcher, pages, schemas, skills, stale, callVars>>

-----------------------------------------------------------------------------
(* discover_tools, by from_session and by the watcher                      *)

Discovering == mcp = "connecting" \/ watcher = "reading"

ListTools ==
  /\ Discovering /\ Len(pages) < 2
  /\ pages' = Append(pages, tools)
  /\ UNCHANGED <<tools, notes, signal, mcp, watcher, schemas, skills, stale,
                 callVars>>

\* The whole list replaces the old one; then the watcher starts to wait, or
\* goes on to the registry.
Discovered ==
  /\ Discovering /\ Len(pages) = 2
  /\ schemas' = pages /\ pages' = <<>> /\ stale' = FALSE
  /\ IF mcp = "connecting"
     THEN mcp' = "built" /\ watcher' = "waiting"
     ELSE watcher' = "updating" /\ UNCHANGED mcp
  /\ UNCHANGED <<tools, notes, signal, skills, callVars>>

\* tools/list fails: the agent is left out, or the watcher keeps what it has.
DiscoveryFails ==
  /\ Discovering
  /\ pages' = <<>>
  /\ IF mcp = "connecting"
     THEN mcp' = "skipped" /\ UNCHANGED <<watcher, stale>>
     ELSE watcher' = "waiting" /\ stale' = TRUE /\ UNCHANGED mcp
  /\ UNCHANGED <<tools, notes, signal, schemas, skills, callVars>>

-----------------------------------------------------------------------------
(* Daemon::build registers the agent; the watcher                          *)

Register ==
  /\ mcp = "built"
  /\ mcp' = "registered"
  /\ UNCHANGED <<tools, notes, signal, watcher, pages, schemas, skills, stale,
                 callVars>>

\* The daemon stops, and with it the registry.
Drop ==
  /\ mcp = "registered"
  /\ mcp' = "dropped"
  /\ UNCHANGED <<tools, notes, signal, watcher, pages, schemas, skills, stale,
                 callVars>>

\* A driver that is gone stops the watcher.
WatcherWakes ==
  /\ watcher = "waiting" /\ signal
  /\ signal' = FALSE
  /\ watcher' = IF mcp = "dropped" THEN "stopped" ELSE "reading"
  /\ UNCHANGED <<tools, notes, mcp, pages, schemas, skills, stale, callVars>>


\* The agent's skills are replaced if the registry has the agent; a registry
\* without it stops the watcher.
UpdateSkills ==
  /\ watcher = "updating"
  /\ IF mcp = "registered"
     THEN skills' = schemas /\ watcher' = "waiting"
     ELSE watcher' = "stopped" /\ UNCHANGED skills
  /\ UNCHANGED <<tools, notes, signal, mcp, pages, schemas, stale, callVars>>

-----------------------------------------------------------------------------
(* invoke, cancel and the spawned tasks of one call                        *)

\* validate_input asks the schemas there are; the request is sent before the
\* handle is registered.
Invoke ==
  /\ call = "no" /\ mcp = "registered"
  /\ call' = "sent"
  /\ UNCHANGED <<listVars, handle, token, progress, updates, outcome, out>>

Spawn ==
  /\ call = "sent"
  /\ call' = "open"
  /\ handle' = TRUE
  /\ progress' = "running"
  /\ out' = <<"Accepted">>
  /\ UNCHANGED <<listVars, token, updates, outcome>>

\* The core's timeout drops invoke; a handle registered by then stays.
Abandon ==
  /\ call = "sent"
  /\ call' = "abandoned"
  /\ handle' \in BOOLEAN
  /\ UNCHANGED <<listVars, token, progress, updates, outcome, out>>

\* Mutant: cancel tells the core itself, too.
CancelTells ==
  /\ mcp = "registered" /\ call \in {"sent", "open", "decided"} /\ ~token
  /\ token' = handle
  /\ out' = IF handle THEN Append(out, "Cancelled") ELSE out
  /\ UNCHANGED <<listVars, call, handle, progress, updates, outcome>>

\* cancel: Ok, with or without a handle to cancel.
Cancel ==
  /\ mcp = "registered" /\ call \in {"sent", "open", "decided"} /\ ~token
  /\ token' = handle
  /\ UNCHANGED <<listVars, call, handle, progress, updates, outcome, out>>

\* The progress task sends an update; an abort stops it at its next await,
\* so that one update may still get through.
Progress ==
  /\ progress \in {"running", "aborted"} /\ updates < MaxProgress
  /\ updates' = updates + 1
  /\ out' = Append(out, "Progress")
  /\ progress' = IF progress = "aborted" THEN "ended" ELSE progress
  /\ UNCHANGED <<listVars, call, handle, token, outcome>>

\* The select: the response, an error or the timeout; or the token.
Decide ==
  /\ call = "open"
  /\ call' = "decided"
  /\ outcome' \in {"Completed", "Failed"} \cup (IF token THEN {"Cancelled"} ELSE {})
  /\ UNCHANGED <<listVars, handle, token, progress, updates, out>>

\* progress_task.abort(), the handle is removed, the outcome sent.
Finish ==
  /\ call = "decided"
  /\ call' = "done"
  /\ progress' = "aborted"
  /\ handle' = FALSE
  /\ out' = Append(out, outcome)
  /\ UNCHANGED <<listVars, token, updates, outcome>>

Next ==
  \/ Connect \/ ToolsChange \/ ListChanged
  \/ ListTools \/ Discovered \/ DiscoveryFails
  \/ Register \/ Drop \/ WatcherWakes \/ UpdateSkills
  \/ Invoke \/ Spawn \/ Abandon \/ Cancel \/ Progress \/ Decide \/ Finish

\* Notifications arrive; the watcher and the call run on, and a call has a
\* timeout; a list request is answered or fails.
Fairness ==
  /\ WF_mcpVars(ListChanged) /\ WF_mcpVars(WatcherWakes) /\ WF_mcpVars(UpdateSkills)
  /\ WF_mcpVars(ListTools) /\ WF_mcpVars(Discovered) /\ WF_mcpVars(Register)
  /\ WF_mcpVars(Spawn \/ Abandon) /\ WF_mcpVars(Decide) /\ WF_mcpVars(Finish)

Spec == Init /\ [][Next]_mcpVars /\ Fairness
-----------------------------------------------------------------------------
(* Properties                                                              *)

\* In the end the skills of a registered agent are the tools of its server,
\* if there was a change, unless the last discovery failed or the watcher has
\* stopped: a signal that is dropped because one waits loses nothing.
SkillsFollow ==
  <>[](mcp = "registered" /\ tools > 0 /\ ~stale /\ watcher # "stopped"
         => skills = <<tools, tools>>)

\* A call has one terminal event, whichever of response, timeout and cancel
\* comes first, and then its handle is gone.
OneTerminal ==
  /\ Cardinality({i \in 1..Len(out) : out[i] \in {"Completed", "Failed", "Cancelled"}})
       = (IF call = "done" THEN 1 ELSE 0)
  /\ call = "done" => ~handle
=============================================================================
