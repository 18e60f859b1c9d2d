# Tervin, in TLA+

Tervin is a terminal for working with coding agents: a Tauri application whose Rust
backend runs shells behind PTYs, cuts their output into *Blocks* (one per command), runs
or observes agents, and asks the user before an agent does something risky. This directory
holds TLA+ models of the parts of it where threads, asynchronous commands and events meet,
the TLC configurations that check them, and TLAPS proofs of what matters most.

Every definition is translated from the source. `PROJECT.json` says, definition by
definition, which lines; paths below are relative to the repository.

## 1. Inventory

| Component | State | Operations | Interacts with | What is hard | What makes it correct |
|---|---|---|---|---|---|
| Input gate, `terminal-core/src/pty.rs` | `pending_input`, the writer lock, `alive`, the child's termios | `write`, the readiness watcher, `Drop` | registry, kernel, child | two locks, a deadline, a child that discards input, writes that block half way | order, integrity and delivery of acknowledged input |
| Output pump, `pty.rs` | channel, batch, frame hold, child handle | reader, pump, `kill` | scanner, sink | timeouts, a hold the program controls, `wait` under a lock | verbatim, drawn in the end, exit last, close ends the child |
| Scanner, `osc.rs`, `signals.rs` | escape state, payload, offsets | `feed_indexed`, `pending_marker`, `parse` | pump | sequences cut at any byte | the same markers however the stream is cut |
| Block builder, `block-engine/src/builder.rs` | phase, open Block, carry, screen, spill | `consume`, `on_session_end` | pump, store | cut markers, missing marks, screens that change in a batch, disk errors | Blocks and their output depend on the stream alone |
| Pane life cycle, `tervin-app/src/commands.rs`, `registry.rs`, `TerminalPane.tsx` | `panes`, `sessions`, `backendPaneId`, `disposed` | `pty_spawn`, sink, `pty_close`, mount, unmount | all of the above, webview | answers and events in any order, remounts | no leaked shell, no lost Block |
| Colour scheme, `commands.rs`, `state.rs` | scheme, subscribers | `answer_color_scheme`, `color_scheme_set` | pumps, registry | a read used after its lock | every subscriber told, nobody else, nothing stale |
| Tervin Rules, `rules-engine/src/policy.rs`, `TervinArbiter`, `ApprovalSheet.tsx` | rules, grants, pending requests, the sheet | `evaluate`, `resolve`, rule and thread commands | ACP and Claude runtimes, UI | three locks taken in turn, retries, events before the fact | a standing rule binds, grants are what was approved |
| Risk classifier, `classify.rs` | none | `classify` | rules | quoting, pipes | monotone in the segments it sees |
| ACP runtime, `agent-runtime/src/acp` | waiters, stdin mutex, turn, terminals, Thread state, child | handshake, prompts, mode changes, `terminal/*`, reader, reaper, shutdown | rules, Agent Blocks, event stream | late answers, end of stream, timeouts, a deaf agent, kill against exit | every request ends once, one turn, what is stopped dies |
| Claude runtime and hook, `agent-runtime/src/claude` | control waiters, stdin mutex, gate socket, verdicts | control requests, the agent's questions, reader, reaper, hook server and client, shutdown | rules | a client that gives up while the server decides; one lock for asking and answering | a refusal stops the action, the gate is not let go before the agent |
| Codex and local runtimes | as ACP | turns | event stream | as ACP | as ACP |
| Observed agents, `pane_agents.rs`, `claude/transcript.rs` | sessions by pane, log offset, Thread rows | `observe`, `forget_pane`, `read_new`, pruning | pumps, store, Agent Blocks | one thread per notification, a log read while written | two agents never share a Thread, one agent keeps its own |
| Agent Blocks, `agent_blocks.rs` | the Block in flight of each Thread | `observe`, `close_thread` | store | results after the end | no Block vanishes |
| Store, `store.rs` | SQLite tables, full-text index | upserts, queries, pruning | nearly all | pruning what is new, saves of several calls | rows agree with what they are rows of |
| File index | tree of the project | `rebuild`, `query` | UI | rebuild against change of root | results of the current root |
| Git service | none | status, diff, stage hunks | UI | diff gone stale | a patch of exactly the chosen hunks |
| Session manager, shell integration | aliases | launch specs, expansion | `pty_spawn` | alias cycles | termination |
| Profiles, MCP, instructions, handoff | files | read, merge, save | runtimes | concurrent saves | no lost update |
| UI store, pane tree, session restore, `ui/src/lib` | tabs, trees, focus, restore keys, a debounce | splits, closes, moves, `saveSession`, `restoreSession` | all commands, two tables | saves of several calls against each other, quits, crashes and the setting | the layout stays sound, a pane's history is its own |

Interactions worth naming. A child's bytes go from the **reader** thread by channel to
the **pump**, which scans, batches and calls the pane's **sink**: bytes to the renderer,
colour-scheme answers back to the child through the registry and the **input gate**,
Blocks to the **builder**, whose events are persisted by threads of their own and
announced to the UI. The UI calls back by commands, the synchronous ones on the one main
thread, the others on a pool. Agents ask the **rules engine** through the arbiter and wait;
the user answers through the sheet, which learns of requests by events.

`PROJECT.json` lists the components that are not modelled with the reason, and under
`hazards` each place where this code is hard to test, with the property that watches it.

## 2. Modules

| Module | Models | Abstract side |
|---|---|---|
| `InputGate` | `PtySession::write`, readiness watcher, reader's end, drop | histories `after`, `destroyed` |
| `PtyPump` | reader, pump, `kill`, time in ticks | history `produced` |
| `OscScanner` | the escape machine, as functions | |
| `BlockCapture` | the pump's tap and the builder, extends `OscScanner` | `MarkedBlocks`: what the uncut stream says |
| `OutputSpill` | where a Block's bytes go | `Output`: the bytes written; history `lost` |
| `PaneMount` | `pty_spawn` to `pty_close`, UI effect included | `begun`, `announced` |
| `ColorScheme` | the reports | `toldAt`, `wantsSince` |
| `Approvals` | rules, arbiter, sheet | histories `decided`, `ended`, `barring`, `promised` |
| `RpcCalls` | nothing of its own: what an adapter promises its callers | implemented by the next two |
| `AcpSession` | an ACP session's requests, reader, reaper, shutdown, Thread state | `Rpc == INSTANCE RpcCalls WITH ...` |
| `HookGate` | the PreToolUse hook processes and the gate's tasks | |
| `ClaudeSession` | a Claude session, extends `HookGate` | `Rpc == INSTANCE RpcCalls WITH ...` |
| `AgentBlocks` | the bridge from a Thread's events to Blocks | `begun` |
| `AcpTerminals` | commands run for an ACP agent, extends `AgentBlocks` | |
| `Transcript` | reading an agent's own log, as functions | |
| `PaneAgents` | observed agents, Thread rows; extends `Transcript`, `AgentBlocks` | histories `made`, `taken`, `forgotten`, `lost`, `cut` |
| `PaneTree` | operations on the tree of panes, each a fold of it | `Sound` in `Workspace` |
| `Workspace` | the layout store, snapshot and plan of a restore, as functions | |
| `SavedSession` | runs of the program, saves, the two tables; extends `Workspace` | histories `heirs`, `newest`, `missed`, `overtaken` |
| `InputGateProofs`, `BlockCaptureProofs`, `ApprovalsProofs`, `AcpSessionProofs`, `ClaudeSessionProofs`, `PaneAgentsProofs` | proofs about the module each is named after | |
| `PaneProofs` | proofs about `PtyPump`, `OutputSpill`, `ColorScheme`, `PaneMount`, `PaneTree`, `Workspace` and `SavedSession`; it extends them all, so all but the first name `Init`, `Next` and `Spec` for themselves (`SessionSpec`) | |
| `SequenceInduction` | nothing of the code: lemmas on concatenating, flattening, folding and prefixes of sequences | |

`MC<module>` instantiates a module for TLC. `OscScanner`, `HookGate`, `AgentBlocks`,
`Transcript`, `PaneTree` and `Workspace` are parts, checked in the modules that extend them.
Definitions whose comment starts with *Mutant* are not part of any specification: each is a
definition with a plausible bug, and stands beside the one it would replace.

How state and actions correspond to the code:

* **InputGate.** A call of `write` is a process: `Enter` is the `alive` check, `Hold` and `Pass` the
  two ends of the critical section on `pending_input`, then `LockWriter` and one `WriteByte` for each
  byte the line discipline accepts, so a call can be stuck half way with the lock. The watcher's loop
  is `StopPolling`, its critical section `OpenGate` to `FlushEnds`. `gate` is `pending_input` with its
  lock: "flushing" while the watcher keeps it. The child's `tcsetattr(TCSAFLUSH)` (`TakeOver`)
  discards what it has not read.
* **PtyPump.** The batch, the channel and the two clocks are as in the code. A `Tick` waits for what
  the pump has due: the pump is fast beside milliseconds, and nothing else about speed is assumed.
  `kill` and the pump's `wait` contend for the child's lock.
* **OscScanner, BlockCapture.** Bytes are tokens, an OSC payload is one letter, the only CSI sequence
  is the one that changes screens. The stream is chosen first and cut arbitrarily: `Read` is one
  iteration of the pump, `Flush` a batch going to `consume`. A captured byte is known by its position.
  Every stream is one of `Tokens`. The reference is `MarkedBlocks`, which scans the whole stream once
  and says which Blocks it marks and what each one's output is.
* **OutputSpill.** `AppendOutput` is one piece, seed and note included. The disk refuses any call, or
  takes a part of it, at will, since the code ignores each error; `lost` is the history of what it
  refused for good. The piece that crosses the head's cap goes to the file after a seed that may hold
  its beginning already, as in the code.
* **PaneMount.** A shell is one call of `pty_spawn`; one mount may make several. The answer of a
  command and an event travel separately and arrive in either order. `PersistBlock` is the thread
  spawned per finished Block. The pump drains what a shell left behind after its exit, then takes the
  child's lock for `wait` (`waiting`); `kill` takes it in `CloseLocks`, only when the pump has not,
  and ends the shell in `CloseKills`. `pty_close` keeps the registry's lock from taking the session
  out until `kill` returns (`RegistryHeld`), and an answer to `pty_spawn` needs that lock.
* **ColorScheme.** `PumpLocks` and `PumpAnswers` are the two halves of `answer_color_scheme`;
  `color_scheme_set` is `SetScheme` and one `ReportTo` per pane. It is a synchronous command, so a
  second one waits until the first is through.
* **Approvals.** One step of `evaluate` per lock it takes. The histories are about what people did,
  not about what the engine keeps: `barring` is the rules in force ever since an ask began, `decided`
  the user's first decision about each request, made at the click (`Decide`) and not where a grant is
  added (`Settle`), and `ended` the decisions whose thread was stopped since, with whether they had
  taken effect by then. The sheet refreshes on `permission.requested`, which the runtimes emit before
  or after they ask, or not at all (`Routes`).
* **AcpSession.** A request is a process: `Register` puts its waiter in `pending`, `Check` is the
  second look at `running`, `BeginWrite` and `EndWrite` the two ends of the stdin mutex (a deaf agent
  never lets a write end), `Awake` the answer. That look is taken before the mutex is waited for, so a
  write may begin with `running` seen as it was earlier. The handshake is two such requests in
  `Launch` order; a prompt's task also ends the turn and writes the Thread state. The reader is
  `Read`, `ReaderEnds` (clears `running`) and `ReaderReleases` (drains the map), two steps because the
  code takes two; the reaper is `ReapStop`, its grace, `ReapKills` and `Reaped`. The agent may answer
  in any order, stop reading, close its stdout and live, or die; a process it started may then keep
  the pipe open, so its death need not end the stream.
* **HookGate.** A tool call is a hook process and a task of the gate, and the two meet by message
  only: the hook gives up at any time (`GiveUp`), and the task decides, responds and lists all the
  same. The task's ways are separate: nothing to read from a hook that left (`NothingRead`), a call
  too long or unreadable (`Unread`, refused without the rules), one the rules judge (`Judge`).
* **ClaudeSession.** As `AcpSession`, with the differences of that runtime: the timeout covers the
  answer but not the write; the reader answers the agent's questions itself, so it contends for the
  stdin mutex (`AnswerQuestion`); and the gate goes down when the last of the handle, the reader and
  the reaper drops the shared state (`SharedDropped`), not by a call.
* **AgentBlocks.** One Block in flight per Thread. `Bridge(t, e)` is one event observed, with an
  action per kind of event; starting over an open Block finishes it first.
* **AcpTerminals.** Each `terminal/*` request and each child's waiter is a task. A kill is a one-shot
  sender taken from the terminal: it fires when used or dropped (`KillFires`). The watch channel an
  exit travels on is `exit` against the receiver's `seen`.
* **Transcript.** A line is one unit of the file, or a head and a tail; the file's end may be an
  unfinished line. `ReadNew` reads at most `MaxRead` units from the offset and keeps up to the last
  newline.
* **PaneAgents.** A notification is a thread: `observe` under the lock, then the row and each event
  separately. `PaneExits` is `forget_pane`; `Restart` empties the map and the Blocks in flight, keeps
  the tables, and prunes unless everything is retained; `SetRetention` prunes. No history is ever
  rewritten: `taken` has an entry for every reader a session's log had, with where it began, where it
  came and what it took; `cut` counts the Blocks a restart found in flight.
* **PaneTree, Workspace.** Each recursive function of `panes.ts` makes something of a node out of what
  it made of its children. `FoldTree` is that recursion, and `ListPanes`, `Normalise`, `ReplaceLeaf`,
  `SwapPanes`, `ClosePane` and `Deserialise` are folds that differ in what they make of a leaf and of
  a split. Trees are known by their depth (`Nodes[n]`), so no operator is RECURSIVE. Titles,
  directories and the fractions of splits are left out.
* **SavedSession.** A save is a process with one step per answered call; `End` is a quit, crash or
  power cut at any point. Nothing keeps saves apart: the debounce and the two events of a closing
  window start one whatever is under way, each call is a blocking task, and tasks take the database's
  lock in any order, so up to `Slots` saves run together and land call by call as they like. Pane ids
  are counted up; what a terminal shows is the set of panes whose output it holds, so "history" is a
  set that can be compared with `heirs`.

## 3. What is checked

| Run | Bounds | Shows |
|---|---|---|
| `input_gate` | 3 calls of 2 bytes, kernel buffer of 3 | no write overtakes a held one, calls are not interleaved, acknowledged input is queued or written, the child's take-over destroys nothing before the deadline, and what was acknowledged is delivered |
| `pty_pump` | 3 bytes, reads of 1 or 2, batches of 3, hold of 2 ticks | output verbatim, exit last, everything drawn, every exit reported |
| `block_capture` | about 130 streams of 7 to 18 tokens, every cut | Blocks as marked, each byte in its own Block and in order, output exact outside three kinds of batch |
| `output_spill` | head 3, ceiling 6, pieces of 3, 10 bytes | each byte is read back, was refused by the disk or is past an announced cut, in order but for one return into the head; disk bounded |
| `pane_mount` | 2 spawns, 1 Block each | Blocks accounted for, a closed shell ends and a spawn gets past the close, unless the shell is kept by its own pump; a Block cut short is announced |
| `color_scheme` | 2 panes, 2 changes | every subscriber told, only askers told |
| `approvals` | 1 agent and the user, 3 actions of 2 texts, a rule of each effect, 1 request | a standing rule binds, a grant used goes back to the user's own decision |
| `acp_session` | handshake, 2 prompts, 1 mode change; `PipeBound` 1, `CallBound` 2 | no waiter left in a map nobody drains, one turn, a stop kills, and the session implements `RpcCalls` |
| `agent_terminals` | 2 commands, one of them waited for | waits answered, released commands die, every end reported |
| `pane_agents` | 2 sessions in 1 pane, `NoticeBound` 3, `AtOnce` 2, `FaultBound` 1, logs of 2 calls cut anywhere, `MaxRead` 2 | Threads never merged, and another for a session only after it was left without a row; each reader takes each line once and whole, and there is another only after the session was forgotten; no Block vanishes but one in flight at a restart |
| `claude_session` | 1 tool call, 1 mode change, 1 interrupt, a first prompt; `PipeBound` 1, `Workload` 2 | a refusal stops the action unless the hook had left, a hook finds nobody only after a failed accept, questions are answered, and the session implements `RpcCalls` |
| `saved_session` | `MaxPanes` 4 over all runs, `Events` 2, 2 `Slots` | layout sound, history a pane's own, disk and memory agree when quiet unless a call failed or an older save came last |

A module with actions also defines a `TypeOK` (`SchemeTypeOK`, `MountTypeOK`), `SavedSession`
excepted, whose state is mostly trees that `LayoutSound` describes (what types the rest has is part of
its inductive invariant). All but two are proved, and no
run lists them; for `BlockCapture` and `AcpTerminals`, name `TypeOK` in the configuration, and TLC finds
it kept. So it does `BlockCapture!RedrawsNoted`, that a Block says when a full-screen program used
the terminal and only then, which is not proved either.

Why these bounds are enough to be interesting. Three calls are two that were ordered plus one that
competes; two bytes show an interleaving and a kernel buffer of three can block a call inside its
data. Reads of two against batches of three make a batch end in, on and after a read. The streams
contain each kind of sequence (recognised, unrecognised, cancelled, overlong, cut by the end of the
stream, both terminators) next to each other. Two spawns are the fewest that race, and the second is
the one a held registry keeps waiting; one Block in each may be open, cut, being written or announced
when the pane closes (with two, the liveness checks take too long; the proof of `BlocksAccounted` is
for any number). Two panes let a report wait while the other acts. With one thread, `Approvals` has
two askers (the user's own preflight is the other), which is what an evaluation can interleave with;
the proofs remove this bound.

`AcpSession` needs both prompts for a turn to be contended, and one mode change for a request with a
timeout beside one without; a pipe of one line already separates what the agent wrote from what the
reader saw, and `CallBound` 2 lets any two of the three race. `ClaudeSession` has one tool call
because calls share nothing but the gate (the proofs hold for any number), and a `Workload` of 2 is
any two of prompts, requests, questions, calls and faults, which is what it takes for a question to
meet a request at the stdin mutex. In `PaneAgents` three notifications are a session, another in the
same pane, and the first again after it was forgotten; one fault is a restart, a pruning or a replaced
log in between. Of the kinds of notification it has two: for what is observed, `"other"` is a
`"promptSubmit"` of a session that was prompted before, and `"sessionStart"` one that reads nothing
and prompts nothing. That run takes about a minute and a half, 2.6 million states. In `SavedSession`
four panes are two and their two heirs, so a restore of a restored layout is within reach, and two
saves are one and a newer one beside it, whose calls land in every order; the proofs remove that
bound. That run takes two to three minutes, about 2.5 million states.

### Refinement

`RpcCalls` is what both runtimes promise a caller: a call ends once, by the agent's answer to *that*
call or by an error, and once the agent is gone (for ACP, its stream with it) none stays open.
`AcpSession` and `ClaudeSession` map their stages to the four states of a call, and `Implements` is
the whole of `RpcCalls!Spec`, its liveness included. The mapping differs where the code does: an ACP
answer that reaches a waiter whose call has timed out is dropped, and a Claude call is open from
before it has the stdin mutex. `RpcCalls!Spec` is `Safety /\ Fairness`; that both sessions implement
`Safety` is proved, step by step, as `CallsAnswered` in the two modules of proofs. That they implement
`Fairness` is for TLC.

### Known deviations

Places where the code does something other than what a comment or a document of the repository
says. None of them is among the runs' properties; each is a property of its module, false as
the code stands. Six have a configuration of their own (`tlc -config X.cfg MC<module>` prints
the counterexample); for the others, name the property in a copy of the module's configuration,
those with `~>` as a PROPERTY.

| Property | Said | Done |
|---|---|---|
| `WatcherDescriptorOpen`, `InputGate_descriptor.cfg` | `pty.rs:55`: the descriptor is owned by the session and open for as long as the watcher runs | the session can be dropped first; the watcher owns no handle |
| `CloseTerminates`, `PtyPump_close.cfg` | `registry.rs:50`: terminate and forget a session | a child that let go of its terminal keeps the pump in `wait` with the child's lock, and `kill` waits for it |
| `CleanupClosesPty`, `PaneMount_cleanup.cfg` | `main.tsx:242`: closes its PTY on cleanup | only if `pty_spawn` has answered by then |
| `NewsIsNotTakenBack`, `ColorScheme_stale.cfg` | `docs/TESTING.md:295`: a subscribing program restyles itself | a query's answer, read before the change, is written after the news of it |
| `ApprovedRetryIsNotHeld`, `Approvals_retry.cfg` | `state.rs:446`: the user can approve and let the agent retry | approving once leaves nothing for the retry to find |
| `StopAsks`, `ClaudeSession_stop.cfg` | `claude/mod.rs:838`: closing stdin asks the runtime to finish | `AsyncWrite::shutdown` leaves the descriptor open, as `acp/mod.rs:1147` says |
| `PtyPump!ReleasedRegardless` | `pty.rs:69`: past this the batch is released regardless | every new frame restarts the clock; `HeldPerFrame` is the bound that holds |
| `BlockCapture!SeamsLoseNothing`, `ScreensSplitByOffset`, `NoMarkerFragments`, and `HostAsReported` with `Streams <- MCHostStreams` | output and host are as the stream has them | output of a batch before a marker whose head is in an earlier read of it is dropped; a batch is captured or counted as a whole whatever screens it passes; an ESC that ends a batch is output even if a marker follows; the host, once remote, is never local again |
| `OutputSpill!SpillHoldsWholeStream`, `CutIsSaid` | the file holds the stream, `truncated` says when not | the part of the crossing piece that still fits the head is in the file twice; a spill that cannot be opened cuts without a word |
| `PaneMount!CloseEndsShell`, `SpawnAnswered` | `registry.rs:50`: terminate and forget a session; a pane that is spawned gets its answer | a shell that let go of its terminal before the close is kept by its pump's `wait`; `kill` then waits for it with the registry locked, and every later `pty_spawn` with it |
| `PaneMount!PaneReportsExit`, `NoBlockRunsForever` | a pane shows its exit, a Block ends | an exit before `pty_spawn`'s answer is not shown; closing a pane drops the Block in its builder, which stays "running" |
| `Approvals!HeldByAcpIsShown`, `EditedIsRechecked` | the sheet shows what is held, and an edit is checked again | an ACP request is announced before it is queued; the `re_evaluate` answer is dropped |
| `Approvals!StopEndsApprovals` | `policy.rs:461`: drop grants tied to a finished Thread | a decision on its way when the thread is stopped leaves its grant behind |
| `ColorScheme!QueriesAnswered` | a query is answered | not one printed before the session is in the registry |
| `AcpSession!DeadIsShownDead` | a crash becomes a Disconnected Thread | a line still in the pipe when the process is reaped is normalized after the reaper has written the state, and puts it back to working |
| `AcpSession!ShutdownKills` | shutdown escalates to a kill | it first waits for the stdin mutex, which a write to a deaf agent holds |
| `AcpTerminals!NoOrphans` | a session ending leaves no orphaned command | one still being created is entered after the list was cleared |
| `AcpTerminals!CodesAreReal`, `OwnOutcome` | a Block with a code is of a command that gave it | a command that was killed is reported with the code -1 as if it had given it; with two commands at once the bridge credits an outcome to whichever is in flight |
| `PaneAgents!OwnOutput` with `MaxCalls` 2 | one command at a time per Thread | a log may interleave two calls, and the second Block takes the first's output |
| `PaneAgents!NeverReplayed` | `pane_agents.rs:56-58`: replaying would fill the timeline with rows that look like they just happened | an adopted Thread counts as prompted (`306-308`), so after a restart or a forgotten pane the first stop reads its whole log again (`230-231`) |
| `PaneAgents!NoneCut` | `agent_blocks.rs:159`: a Thread that ends mid-command leaves a Block that would otherwise say running | one that a restart ends leaves none: only finished Blocks are persisted |
| `SavedSession!SavedInAnyOrder` | `store.ts:538`: forget what was already saved rather than leaving old output on disk | a call of an older save may land after the removal, and leaves the output or the layout there for good |
| `HookGate!BlockedDidNotRun`, `StoppedIsShown` | what the timeline calls blocked did not run, and what was stopped is shown | a hook that gave up lets the call run after it was shown as blocked; an unreadable call is refused and not shown |

Saving and restoring has more, met while modelling and not stated as
properties: an early debounced save may overwrite the last session before it has been restored;
after a restore the first save's `retain` deletes the output of panes in tabs not shown yet;
a crash between the first `workspaceSave` and the outputs' saves loses the history the new
snapshot names; a save under way, or up to 1.2 seconds due, lands after the setting has announced
the deletion (`SettingsPanel.tsx:272`, `281-283`); `restoreSession` overwrites panes opened while
it was reading; `splitFocusedPane` without a tab leaves a pane in no tree; a saved pane keeps no
environment; and changing tabs or surface unmounts terminals, which closes their PTYs.

### Fairness

* Threads the code starts run: weak fairness of each thread's steps (`Watch`, `Reader`,
  `Pump`, `PumpEnds`, `PersistBlock`), and of a call of `write` that has begun.
* Waiting for a lock is strongly fair: `parking_lot`'s mutexes hand over to a waiter after
  half a millisecond (eventual fairness), and the watcher and `write` hold theirs for finite
  steps.
* Time passes: `Tick`, `DeadlinePasses`.
* An answer or event sent to the webview arrives.
* In `InputGate` the child reads what it is sent; without that a full line discipline blocks
  any writer for good. It owes no take-over. In `PtyPump` the child owes nothing at all; in
  `PaneMount` it exits only by a kill that has the child's lock: signals end a process, and nothing is
  assumed of a `kill` still waiting for that lock.
* The user owes no decision, no unmount and no theme change.
* In the runtimes each tokio task has weak fairness: requests, the reader, the reaper, waiters,
  the rest of a shutdown that has begun; and timers fire. A write ends only if the agent reads, so
  weak fairness of it promises nothing for a deaf agent. No agent, hook or command owes an answer
  or an exit. A tokio mutex is fair, but `RpcCalls` and the liveness of both sessions do not need it.
* `PaneAgents` and `SavedSession` state safety only: threads and calls may stop anywhere, which is
  how a crash is modelled.

## 4. What is proved

| Theorem | States, for every value of the constants |
|---|---|
| `InputGateProofs!TypeCorrect` | `Spec => []TypeOK` |
| `InputGateProofs!InputInOrder` | `Spec => []NoOvertaking` |
| `InputGateProofs!InputAccounted` | `Spec => []AckedAccounted` |
| `InputGateProofs!CallsInOnePiece` | `Spec => []Contiguous` |
| `InputGateProofs!NothingDestroyed` | `Spec => []TakeOverDestroysNothing` |
| `PaneProofs!TypeCorrect` | `Spec => []TypeOK`, of `PtyPump` |
| `PaneProofs!OutputVerbatim` | `Spec => []Verbatim` |
| `PaneProofs!ExitLast` | `Spec => []ExitIsLast` |
| `BlockCaptureProofs!BuildingAlways` | `Spec => [](Pumping /\ Building)` |
| `BlockCaptureProofs!EveryBlockAsMarked` | `Spec => []BlocksAsMarked` |
| `BlockCaptureProofs!NothingMoved` | `Spec => []InItsOwnBlock` |
| `BlockCaptureProofs!OutputAsMarked` | `Spec => []OutputExact` |
| `PaneProofs!SpillTypeCorrect` | `SpillSpec => []SpillTypeOK` |
| `PaneProofs!SpillBounded` | `SpillSpec => []DiskBounded` |
| `PaneProofs!RawOutputReadsBack` | `SpillSpec => []ReadsBack` |
| `PaneProofs!SchemeTypeCorrect` | `SchemeSpec => []SchemeTypeOK` |
| `PaneProofs!MountTypeCorrect` | `MountSpec => []MountTypeOK` |
| `PaneProofs!EverySubscriberTold` | `SchemeSpec => []NobodyLeftOut` |
| `PaneProofs!NoStrayReports` | `SchemeSpec => OnlyAskersTold` |
| `PaneProofs!NoBlockLost` | `MountSpec => []BlocksAccounted` |
| `PaneProofs!ShownCanBeTypedInto` | `MountSpec => []ShownIsRegistered` |
| `ApprovalsProofs!TypeCorrect` | `Spec => []TypeOK` |
| `ApprovalsProofs!RulesBind` | `Spec => []StandingRulesBind` |
| `ApprovalsProofs!GrantsAreApprovals` | `Spec => OnlyApprovedIsGranted` |
| `AcpSessionProofs!Typed` | `Spec => []TypeOK` |
| `AcpSessionProofs!NoWaiterIsLost` | `Spec => []NoLostWaiter` |
| `AcpSessionProofs!OneTurnAtATime` | `Spec => []OneTurn` |
| `AcpSessionProofs!CallsAnswered` | `Spec => Rpc!Safety` |
| `ClaudeSessionProofs!Typed` | `Spec => []TypeOK` |
| `ClaudeSessionProofs!RefusalsHold` | `Spec => []RefusedIsStopped` |
| `ClaudeSessionProofs!HooksFindGate` | `Spec => HookFindsGate` |
| `ClaudeSessionProofs!CallsAnswered` | `Spec => Rpc!Safety` |
| `PaneAgentsProofs!TypeCorrect` | `Spec => []TypeOK` |
| `PaneAgentsProofs!AgentsApart` | `Spec => []NeverMerged` |
| `PaneAgentsProofs!SessionsLandBack` | `Spec => []LandsBack` |
| `PaneAgentsProofs!LinesTakenOnce` | `Spec => []TranscriptExact` |
| `PaneAgentsProofs!CommandsKept` | `Spec => []NoBlockVanishes` |
| `PaneProofs!SplitProper` | splitting a pane of a normal tree without doubles gives another, with one pane more |
| `PaneProofs!CloseProper` | closing one leaves another without it, or nothing if it was the only one |
| `PaneProofs!SwapProper` | swapping two leaves the same panes |
| `PaneProofs!RestoreProper` | a restored tree is normal and lists the fresh panes where the saved ones were |
| `PaneProofs!SessionIsHeld` | `SessionSpec => []SessionInv` |
| `PaneProofs!LayoutStaysSound` | `SessionSpec => []LayoutSound` |
| `PaneProofs!HistoryStaysOwn` | `SessionSpec => []HistoryIsOwn` |
| `PaneProofs!DatabaseTellsLayout` | `SessionSpec => []QuietInv` |
| `PaneProofs!SavedOnceQuiet` | `SessionSpec => []SavedWhenQuiet` |

Assumptions are those of the modules: finitely many calls, messages and tools, none of the calls
named as the watcher, positive sizes, risky actions are actions, rules have an effect and cover
actions, the user is no thread, the ceiling of a spill is no lower than the head, requests of
different kinds are different requests, a log is a sequence of units in which a line's tail follows
its head, shell commands are commands and their outcomes codes, streams are finite sequences of
tokens, bounds are naturals.

**Input gate.** `NoOvertaking` is not inductive: it says nothing about bytes still queued, nor
why a call past the gate cannot be ahead of them. `IInv` adds `Phases` (which watcher phase
goes with which gate, and that nobody is past a gate that has not opened), `Started` (a call
has bytes somewhere only once it began, and the calls before it had returned), `Accounted`
(a returned call's bytes are sent or queued, a writing call's are sent up to where it is) and
`QueueInOrder` (each queued byte has its predecessors sent, or ahead of it in the queue). The
step that matters is a direct `WriteByte`: the gate is open, so the queue is empty, so every
returned call is wholly sent. The proof goes action by action, each with the lemmas about
appending to and taking from sequences it needs.

`Contiguous` and `TakeOverDestroysNothing` rest on the writer lock, about which `IInv` is silent:
`Locks` says who holds it at each phase and that nothing is sent while the watcher polls;
`Pieced` says what may follow what has been sent (in `sent` and the queue a byte is followed by the
next of its call, or is the last of one; between two holders of the lock `sent` ends with a whole
call), and `Armed` that a watcher which has stopped polling has seen the terminal taken over, or the
deadline, or the end of the session. So while none of the last two is true, a line editor's
`TCSAFLUSH` finds nothing to discard.

**Output pump.** `Verbatim` speaks of a concatenation of concatenations, so its proof is about
sequences: a read moves a prefix of the terminal to the channel, the pump a piece from the channel
to the batch, a flush the batch to the sink, and each time the whole is the same sequence split
elsewhere (`ReadingKeeps`, `ReceivingKeeps`, `Flushes`). What the `FlattenSeq` of a channel is,
with an element more or less, is an induction over its length. The provers cannot use the library's
induction theorems, whose argument is an operator; `SequenceInduction` derives induction over a *set*
of naturals from the order being well-founded (a non-empty set of naturals has a least element), and
uses it with the set of lengths at which the lemma holds. `ExitIsLast` needs how far the end has got
(`Ending`): the reader stops at an empty terminal that was hung up, the pump at an empty channel of a
reader that is done.

**Block builder.** The properties compare the Blocks with a scan of the whole stream, which nobody
performs: the pump feeds its machine one read at a time, offsets are relative to a batch, and the
builder sees a batch's markers only. The proof performs it: `At(stream, n)` is the machine of the one
scan after `n` bytes, and `Trail` gives the states of any feed byte by byte. Machines that are `Alike` do
alike wherever they began to count (`StayAlike`), so a read finds the markers the whole scan finds next,
where it finds them (`ReadMatches`); a marker whose start is in an earlier read has no start. The
invariant `Pumping` says that of the batch so far and of the marker still open.

For the builder, `Control` says what it is after the first `c` markers of the whole: one Block for
each of them that starts a command, in their order, every one but an open last one ended by the first
marker that ends it, and the metadata of the next command. `Kept` says what the Blocks and the carry
hold: positions in order, after the marker that opened the Block and before every marker not yet
handled, but for the `ESC` that a cut leaves behind (`excused.splits`). The fold of `Consume` over a
batch keeps both marker by marker (`MidSignal`, then `TailKept`); that output kept back as carry
belongs where it is put rests on `Frontier`, the position up to which no byte can be part of a later
marker, and which never moves back.

`OutputExact` adds the converse, that nothing is missing, and the screens. `Screened` says the pump's
flag is what the changes of screen read so far make it, and that a batch which is not `switched` has
none, so a byte of such a batch was written to the screen the builder is told of (`OnIs`). Each byte
up to the edge of a batch is then *settled* (in the Block that shall have it, and in no other), carried,
or excused (`Decided`), and what is carried lies beyond the `Frontier`, in a marker that is still open
(`Carried`). A slice before a marker and a carry that turned out to be output settle by being captured
(`SliceSettles`, `CarrySettles`), a marker's own bytes by being in no Block (`MarkerSettles`). That
`consume` may drop its carry at a marker without a start needs the seam flag: a start is lost
only if it is in an earlier batch, where the `Frontier` was, or if the batch is excused
(`BeganBefore`). What is carried when the session ends is the marker that never did (`EndSettles`).

**Output spill.** `DiskBounded` says nothing of how much of the ceiling is used: `Bounded` ties
the file's length to the bytes written while the capture goes on, and says a cut capture is past
the ceiling, so no piece is appended after it. `ReadsBack` needs `Faithful`, what is true at every
moment whatever the disk did: without a file, the bytes beyond the head were refused; with one, the
file `Holds` bytes up to some cut only, all of them but the refused, in order but for one return to a
byte of the head, and the note last. The step that matters is the opening: the seed is a beginning of
the head, the crossing piece begins where the output stood, inside the head or at its end, so the
return goes into the head. A refusal keeps the order, since what is written of a run is a
beginning of it. The lemmas on runs of bytes (`BytesJoin`, `HeadGrows`, `HeadKept`) carry the rest.

**Colour scheme.** `NobodyLeftOut` holds when no report is due, so the invariant has to say what is
true while some are: a subscribed program in reach was told the current scheme, or has subscribed
since, or is among the reports still to be made (`Informed`). `OnlyAskersTold` is about steps: that a
report or an answer finds its program still asking needs that the table of subscribers is what
programs set (`Subscribed`), and that a query between the pump's two halves is one its program waits
for (`Asked`). For any number of panes and changes.

**Pane.** `BlocksAccounted` is inductive with the shapes of the tables it speaks of (`Accounts`): each
Block a shell began is open in a builder whose pump runs, being written, or announced, unless the pane
is being closed; the step that matters is the pump's end, which hands an open Block on.
`ShownIsRegistered` needs which tables know a shell at each stage of `pty_spawn` (`Entered`).

**Approvals.** `StandingRulesBind` needs to know, at each of `evaluate`'s stages, what the first
look at the rules has already excluded: a deny rule in `barring` cannot have been missed, an
ask rule in it has set `forced`, and a forced ask reaches neither a grant nor an allow rule nor
the classifier. `GrantsAreApprovals` relates a grant to a click that came some steps before it, so it
needs what happens in between: `Backed` gives every standing grant, and the decision still on its way,
a decision of the user's that no stop has ended once it had taken effect; `Closed` says a request that
has been decided has left the pending map but for the one whose decision is on its way, so a second
click on a stale sheet finds it gone (`Resolve`); `Past` that no sheet or fetch names a request yet to
come. A stop removes a thread's grants and ends its decisions, all but the one still on its way,
which is exactly what `Unsettled` tells apart.

**ACP session.** `NoLostWaiter` alone says nothing of a request between registering and its
second look at `running`. `Drained` says why that look suffices: once the reader has left its loop
`running` is off, and once it has drained the map whoever is in it has still to look. `OneTurn` needs
that a prompt with the agent has the flag (`TurnHeld`); that the flag can be given back by the
prompt's own task only is where each failing path counts. Both rest on `Shapes` and on the
mutex being held by exactly the request inside a write.

**Claude session.** The gate's invariant is one call's (`CallConsistent`), so the number of
calls does not matter: a hook has an answer only if the task gave it, and it is the verdict. A call
that runs has a hook that was silent or had left, so a refused one had left. `HookFindsGate` is about the
step in which a hook starts: only a living agent starts one, the gate falls with the last share of the
state, the reaper has one and is done only once the agent is gone (`Reaping`), and the dead stay so
(`StaysGone`); what is left is the accept that failed. `TypeOK` needs more than types: the stdin mutex is
held by one of the session's messages, and what the pipe carries is what `Workload` let in.

**Both sessions implement `RpcCalls!Safety`.** An answer on the wire or in a waiter's hand has to be
one to a request the agent was sent and that has not been answered before: an invariant ties the
lines in the two pipes to the stages of their requests. A step then maps to a step of `RpcCalls`
for one call, or for none, or, when the reader or the shared state goes, to the step that ends
every open call together.

**Observed agents.** `NeverMerged` looks at the map, the rows and the notifications; `Owned` adds that
whatever names a Thread names one that was made, and keeps what a notification under way has to
carry. The steps that matter are `observe`, which makes a Thread or finds one in the map or the table,
and the restart, after which the table is all there is. `LandsBack` counts: at most one Thread more was
made for a session than it was lost times, and not even that one more while the session is neither
followed nor in the table (`LeftOnce`), which is the only time `observe` makes another.

`TranscriptExact` rests on what reading a log in pieces gives. A reader's offset is the length of a
prefix of the log, what it has taken are the lines that are whole in that prefix, and the prefix ends
between lines (`TakenWhole`). The lemma that matters is that the complete lines of a concatenation
whose first part ends between lines are those of the first part and those of the second
(`LinesConcat`); with it a read of any size extends the prefix. `ReaderWell` and `Written` keep the
reader's shape and the log a prefix of its script. The history has an entry per reader (`AllEntire`),
of which only the last goes on, and only while the session is followed (`IsLast`); a reader that begins
at the end of the log ends it between lines too, and one that begins anew needs the session forgotten
in between, which is counted. A log that was replaced is where the property asks less: entries from
before it are excused.

`NoBlockVanishes` and `TypeOK` are proved together (`Typed`): the events of a log become Blocks by a
fold of `Push` over its lines and then of `Bridge` over its events, so the fold's accumulator has to
be typed for every prefix, and `BlocksSound` to survive each kind of event. A restart empties the
Blocks in flight and counts them (`Summed`, `CutFew`), and leaves what was begun as it is. That
Threads stay within `NoticeBound` is an argument by counting: no more Threads were made than
notifications have been observed (`Counted`).

**Trees and layouts.** A fold speaks of a tree through `Depth`, whose definition is a search, so the
first lemmas say what the search finds: `Nodes` are levels each holding the one below, every tree has a
depth, and a fold is the one function with the fold's equations (`FoldExists`, `FoldUnique`). Induction
over trees is induction over the levels, from `SequenceInduction`; an operation is then used by its two
equations alone, one for a leaf and one for a split (`CloseFolds`, `DeserialiseFolds` and their like).
The hard part is that an operation keeps a tree normal: `Normalise` flattens into a split its children
of the same direction, so what is to be shown of a child is not that it is normal but that it *fits*
there (`Fitting`), and an operation that may leave nothing has to do so for each number of children that
are left. What it does to the panes is that each is replaced in its place by the panes of what took its
place (`Expanded`): two for a split, none for a close, one for a swap or a restore. So a tree of `Proper`
(normal, no pane twice) stays one.

`Sound`, which `LayoutSound` asks of the layout, is not kept by a single operation of the store without
what else is true of it: `LayoutOK` adds that tabs have ids of their own, that a tab has a tree, and that
panes are numbers. The operations come down to three forms: tabs rewritten one by one with the same panes
(focus, zoom, swap), one tab that takes in a new pane (`RefitTabs`), and one that loses a pane and is
dropped with its last (`WithoutLoses`).

**Saved session.** `LayoutSound` cannot be inductive by itself, because a restore puts the *stored*
snapshot on screen: `SessionInv` says the same of every snapshot, in a save under way and in the table
(`SnapOK`). Nor can `HistoryIsOwn`, because a row is written from what a save took from a terminal some
steps ago, and a terminal is filled from a row: all three, and the saves' `todo`, hold output of panes
made so far only and of the pane's own history (`Owned`), and a pane's history includes that of the pane
it stands for (`Lineage`), across any number of runs, quits and crashes. `SavedWhenQuiet` is about the
moment at which no save is due or under way; `QuietInv` says what is true while some are, any number
of them. It follows the newest: as long as none is due, no call has failed and no call of an older save
has landed after the same call of the newest (`Trusted`), the newest saves the layout as it is and the
database holds what its answered calls have written (`Stands`, `Written`). An older save's call that
lands before the newest's own, or that only removes output, undoes nothing of that (`Undisturbed`);
one that does is what `overtaken` records (`OvertakesSays`), and `SavedInAnyOrder` is false because
the code does nothing against it. That a change of
the layout makes a save due is where it could fail: the effect watches a key, not the layout, and
`KeyTellsSnapshot` is that equal keys have equal snapshots. Both invariants were checked by TLC on all
states of `saved_session` first; the theorems hold for any number of panes, tabs, runs and overlapping saves.

Where the code tests conditions that overlap in order, the definitions have IF and not CASE: of two
true arms of a CASE the language leaves open which is chosen, so nothing follows for a prover where
TLC takes the first.

Only model-checked: the liveness properties (`AckedDelivered`, `EverythingDrawn`, `ExitReported`,
`ClosedShellEnds`, `SpawnGetsThrough`, `CutBlockAnnounced`, `StopKills`, `WaitAnswered`,
`ReleasedDies`, `EndReported`, `QuestionsAnswered`) and the fairness of the two refinements, which are
out of the prover's reach; and, of the properties no run lists, `RedrawsNoted` and the `TypeOK` of
`BlockCapture` and of `AcpTerminals`. Every invariant and every action property of the runs is proved.

## 5. Not modelled

* **Text.** The risk classifier, the Claude and ACP normalizers' wording, query language,
  rc injection, git output, launch specifications, instructions and handoff are functions from text to
  text or to records, without state; alias expansion and the fuzzy match likewise. They are more than
  half of the implementation, and a model of them would be their transcription.
* **Codex and local runtimes.** One process or one HTTP stream per turn, no waiters to strand; the
  part they share with ACP, reading a stream to its end, is in `AcpSession`.
* **File index.** Rebuilt on a thread of its own; a rebuild racing a change of root is listed under
  `hazards`.
* **The rest of the store.** Upserts, annotations, the search index: each is one statement or
  transaction under one lock.
* **Of the modelled runtimes**: `session/cancel`, a notification nobody waits for, and the file calls,
  which touch no state here. A Thread's state is in `AcpSession` only.
* **UI.** Panels, key chords, links, sizes of splits: presentation.

What would come next, in order: `RedrawsNoted`; refinement of `PtyPump` and `PaneMount` to one `Pane`
specification; the file index.

To run: `tlc -config InputGate.cfg MCInputGate`, and likewise for the others; `tlapm
InputGateProofs.tla`, and likewise for the other modules of proofs.
