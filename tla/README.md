# Hearth, specified in TLA+

Hearth is a local coding assistant: a language model runs on the user's machine,
reads and edits the files of one workspace through a small set of tools, and asks
the user before anything that changes state.  This directory holds TLA+ models of
the parts of Hearth whose correctness depends on the order of events or on the
details of a pure algorithm, the TLC configurations that check them, and TLAPS
proofs of what matters most.

Paths below are relative to `src/src/hearth/` unless they start with `docs/`.

Contents: [how to run](#how-to-run) · [inventory](#inventory) ·
[modules](#modules-and-how-they-correspond-to-the-code) ·
[runs](#runs-what-each-shows) · [bounds](#bounds) · [fairness](#fairness) ·
[proofs](#proofs) · [findings](#findings) · [what is left out](#what-is-not-modelled)
· [what comes next](#what-comes-next)

## How to run

    tlc -workers 2 -config WorkspaceWrites.cfg MCWorkspace    # and the other cfgs
    tlapm AgentLoop_proofs.tla

| Configurations | Module |
|---|---|
| `WorkspaceWrites`, `WorkspaceRaces`, `WorkspaceEdits`, `FindUndoExact` | `MCWorkspace` |
| `TurnCalls`, `TurnEnds` | `MCTurn` |
| `IndexRuns` | `MCIndex` |
| `TextRuns` | `MCText` |
| `SearchRuns` | `MCSearch` |
| `PermissionRuns` | `MCPermissions` |
| `SessionRuns` | `MCSessions` |
| `CommandRuns` | `MCWorkflows` |

`PROJECT.json` lists every run with its properties, the source lines behind every
definition, the hazards the properties are for, and a slip for every property: an
alternative definition (marked `A slip:` in the modules) that makes it fail.

## Inventory

For each part: its state, its operations, what is hard about it, and what makes it
correct.  The parts marked ● are modelled, ◐ in part, ○ not.

| Part | State it keeps | Operations | What is hard, and what makes it correct |
|---|---|---|---|
| ● File-writing tools (`tools/write_fs.py`, `tools/edit_engine.py`) | files on disk, `read_hashes` of the context | `prepare` and `execute` of edit, multi-edit, write, move, delete; the matcher | The user looks at a preview for as long as he likes while editors save. A write must land on the file previewed, after a checkpoint, on bytes the model has read; a match must be the text that was meant. |
| ● Checkpoints and undo (`safety/checkpoints.py`, `storage/blobs.py`, `cli/checkpoint_commands.py`) | blob files, the `checkpoints` table, trash | `record`, `revert_step`, `revert_after`, the conflict prompt and its forced retry | Crashes between blob, row and rename; edits made since; `hearth undo` in a second process. Undo restores the bytes, never destroys others unasked, and marks only what it restored. |
| ◐ Turn engine (`core/agent_loop.py`, `core/limits.py`, `core/runner.py`) | `StepTracker`, the transcript | one model request per step, then its calls; limits; loop detection | Mixed reads and writes, repeated calls, shared call ids. A turn ends; calls that may ask run one after the other. |
| ◐ Gateway, bus and prompt (`tools/gateway.py`, `core/bus.py`, `core/tool_channel.py`, `cli/approval.py`) | `_batch` answers, grants, `_pending` futures | `call`, `review_batch`, `request_approval`, `publish`, `resolve_approval` | A stored answer and a moved preview, edited arguments that re-enter, futures found by an id that need not be unique. Nothing runs without leave; every ended call has one audit record; one prompt at a time. |
| ● Audit log (`safety/audit.py`) | one append-only file a month | `write`, `read_records` | Torn lines, two writing processes, the turn of the month. |
| ◐ Sessions and state store (`core/session.py`, `storage/state_repo.py`) | sessions, messages with epochs, checkpoints, trust | append, load, clear, resume | What a restart finds: only completed turns are saved, in order and once, all checkpoints are. |
| ◐ REPL (`cli/repl.py`, `cli/chat_commands.py`) | mode, approved plan, grants, running task | turn, two ways of cancelling, plan approval and revocation, slash commands | `asyncio.shield` leaves a task behind the prompt; grants with two owners. |
| ◐ Context and compaction (`core/context/`) | history, epoch, the map of an epoch | fold, fit, budget, build | A history that changes while the model summarises it; a prefix that must not change inside an epoch; a budget that must not be passed. |
| ● Policy (`safety/policy.py`, `safety/rules.py`, `safety/invariants.py`) | none: a pure function | `evaluate` | The first stage that answers wins, so the order of stages is the policy. |
| ◐ Classifier, path jail, secrets, injection, environment (`safety/*.py`) | none | classification of a command's parts | The verdict of a compound command is the worst of its parts. |
| ◐ Trust and configuration (`safety/trust.py`, `config/loader.py`) | trusted hashes | load, trust, revoke | The hash read and the bytes loaded are two reads; an untrusted project may tighten and never loosen. |
| ◐ Sandbox and commands (`safety/sandbox/`, `tools/shell.py`, `tools/git_write.py`) | one process group | run, time out, escalate, collect | Output, timeout and exit race one another; children outlive their leader; the index moves between the preview and the commit. |
| ◐ Indexing (`indexing/pipeline.py`, `change_detector.py`, `watcher.py`, `storage/index_repo.py`) | files, chunks, contentless FTS rows, meta | scan, classify, batch, prune, `index_one` | A crash between batches; FTS rows kept in step by hand; a file that changes between its stamp and its bytes. |
| ◐ Embedding and vectors (`indexing/embedder.py`, `storage/vector_index.py`) | vectors, a matrix cache, a coverage cache | embed what is missing, search | A batch that fails, a cache another process outdates. |
| ◐ Retrieval (`retrieval/`) | none | query analysis, fusion, expansion, repo map | Rank fusion keeps dominance; the map is the largest prefix that fits. |
| ◐ Parsing and chunking (`indexing/chunker.py`, `parser.py`) | none | boundaries, skeletons, windows | No line lost, ids and line numbers right at every boundary. |
| ◐ Model replies (`llm/tool_call_parser.py`, providers) | none | parse calls out of text, native calls | Malformed replies: what is meant as a call must run, what is not must not. |
| ◐ Workflows and plans (`workflows/`, `core/plan.py`) | a test run's rounds, a plan, a commit | `/test`, `/commit`, `/plan`, `/docs` | A reported result must be one that was seen; a document must keep its template's shape. |
| ○ Evaluation, doctor, rendering, providers' HTTP | — | — | I/O and text. |

How they meet.  The REPL starts a **turn** or a **workflow**; the turn compacts the
**history**, retrieves, builds the **context** and asks the provider; the reply is
parsed and its calls go to the **gateway**; the gateway prepares a call, asks the
**policy**, perhaps asks the user through the **bus** (the prompt runs as a subscriber
*inside* `publish()`), and executes the **tool**.  A write tool verifies the file again,
has **checkpoints** recorded and replaces the file; a command runs in the **sandbox**.
The outcome goes to the audit log and, as a tool message, back to the model.  `/undo`,
`/rewind` (between turns) and `hearth undo` (a process of its own) work on the same
checkpoints and the same files.  `hearth index` (a process of its own too) fills the
**index** that retrieval reads.  The user's editor works on the files at any time.

The models are cut along these lines.  *What a call does to the workspace*, *which calls
come to run at all*, *what a session remembers*, *what the index says of the files* and
*what a search makes of the index* are the five stateful ones; each takes what the
others decide as a free choice, so that what is shown of it holds whatever they do.

## Modules and how they correspond to the code

### Files, checkpoints and undo

| Module | Models | Correspondence |
|---|---|---|
| `Workspace` | `CheckpointStore`, `BlobStore`, the table in `StateRepository` | `disk`, `blobs`, `rows`, `nextId` (the AUTOINCREMENT), `trash`, `now` (the seconds that `_trash` stamps with). `PutBlobs`/`AddCheckpoint` are `record`; `Conflict` is `_conflict_for`; `IsLatestStep` is `latest_step`; `MarkStepReverted` is the UPDATE. A digest is identified with the bytes it names. |
| `WriteTools` | `tools/write_fs.py` under the gateway, `ReadFile` of `tools/read_fs.py` | `known` is `ToolContext.read_hashes`, `call` the one write in flight. `Prepare…` are the `prepare` methods (one that refuses changes nothing and is no action); `Verify` the second read of `execute`; `StoreBlobs`, `RecordCheckpoint`, `Commit`/`Move`/`Delete` its steps in order; `MutationFails` the `OSError` branch. |
| `UndoCommands` | `cli/checkpoint_commands.py`, `revert_step`, `revert_after` | `undo` is a command's progress. `PlanStep`/`ReportConflict` check a step whole, `RestoreFile`/`RemoveCreated` put back its files one at a time in row order, `MarkReverted` marks, `Finish`/`Decline`/`Retry` are `_settle`. |
| `WorkspaceSystem` | all three with an editor and crashes | `Scheduled` says that in one process a command and a turn exclude each other, and that an external `hearth undo` is not bound by it. The properties stand here. |
| `WorkspaceInvariants` | — | The inductive invariants, apart from the proofs so that TLC can check them too. |

A move records its two entries with one `record` each, so it goes twice through
`putting` and `inserting`.  `seen` is a history variable: the bytes the model has been
shown or wrote itself.

### Turns, calls and approvals

| Module | Models | Correspondence |
|---|---|---|
| `TurnLimits` | `core/limits.py` | `Tracker` is `StepTracker`; `Observe`/`Repeats` its loop detection over a window; `RecordResult`; `Exhausted` is `stop_reason() is not None`. An act is a fingerprint: a tool with its arguments. |
| `EventBus` | approvals in `core/bus.py` | `pending` is `_pending`, a map from request id to a future; `RequestApproval`, `Resolve`, `Collect` (the `finally`), `SubscriberRaises` (what `publish` logs and drops). The requester goes on only when its own prompt has returned *and* its own future is resolved. |
| `ToolGateway` | `tools/gateway.py`, the prompt of `cli/approval.py`, one `AuditLog.write` for each ended call | One slot for each call of a message. `Refuse`/`Deny`/`Allow`/`ApprovedInReview`/`RejectedInReview`/`Ask` are `call` up to its first wait; `Answer` is the user; `TakeApproval`/`TakeRefusal`/`TakeEdit`/`Finish` the rest. `BeginReview`, `AnswerReview`, `TakeReview` are `review_batch`; `BatchAnswerFor` and `Consume` are `_batch_answer`. |
| `AgentLoop` | `core/agent_loop.py` | `phase` is where `run` is. `ModelCalls`, `ModelAnswers`, `StopAtLimit` are what a model message leads to; `MyTurn` is `gather` or the sequential loop of `_run_calls`; `StepDone` counts the results and looks for a stop signal. The properties stand here. |
| `ApprovedExecution` | — | The abstract specification, after the core promise of `docs/safety-and-tool-use.md`: calls are proposed, amended, consented to, started with a licence, and finished on record. It knows nothing of prompts, futures, batch answers and previews. `AgentLoop` implements it (`OnlyApprovedExecution`): an outline of `calls`, `leave` and `grants` are its three variables. |
| `TurnInvariants` | — | `TurnInv`, the inductive invariant. |

A preview's hash is the pair of the act and a version, which moves when the act is
carried out or when somebody edits its file (`EditOutside`).  `leave` is a history
variable: for each act and version, the approvals given and not yet used.  `stopped`
holds call ids and not slots, because `nudges` in `_run_calls` is a dict by call id.
Edited arguments keep their tool (`SameTool`), as the prompt only edits arguments.

### Sessions, compaction and context

| Module | Models | Correspondence |
|---|---|---|
| `Context` | `core/context/compactor.py`, `budget.py`, `builder.py` | `Cut` is where the history is cut (the last `KeepRecent` turns stay; a summary begins no turn and is folded again), `Compacted` what replaces it; `Fit`, `Slack`, `RetrievalLimit` and `Block` are the budget and the segments it fills. `Content` is what a message accounts for. |
| `Sessions` | `cli/repl.py`, `core/runner.py`, `core/session.py`, the rounds of `workflows/test_writer.py` | `session` is what the process holds, `db` the rows, `tasks` the task in front of the prompt and the one a cancellation left behind it. A step is what happens between two awaits. `StartCompaction`/`Summarised` are the two sides of the model's summary; `Request`/`Answer`/`Fail` a stream; `EndTurn`, `NextRound`, `EndTests`, `SaveRow` what is saved; `Interrupt` and `Leave` the two ways a Ctrl+C arrives; `Stop` and `Resume` the end of the process and `hearth resume`; `Reindex` another process. |
| `Transcript` | — | The abstract specification of the messages table: rows are added at the end, each message once, and go only all together. `Sessions` implements it (`SavedAsTranscript`). |

`told` is a history variable: every message the session has to account for.  `sent` is
the last request.  `count.left` says that a task was ever left behind the prompt.

### Permissions

| Module | Models | Correspondence |
|---|---|---|
| `CommandClassifier` | `safety/command_classifier.py` | A command is the set of segments that scanning it finds; `Classify` puts its facts together from theirs, and `…Requests` are what the `prepare` methods ask the policy. |
| `Policy` | `safety/policy.py`, `rules.py`, `invariants.py` | `Evaluate` is `evaluate`, stage by stage, and the first that has an opinion decides: hard invariants, mode, deny rules, the overlay for destructive calls, grants, allow rules, ask rules, the default by risk. `Match` and `Relaxing` say which rules count. |
| `Permissions` | grants and plans of `cli/repl.py`, `safety/trust.py`, `config/loader.py`, `cli/trust_commands.py` | A session loads its configuration (the hash and the bytes are two reads), asks, is granted, approves, edits and revokes a plan, runs calls; the project file is edited in between. |

### Index and search

| Module | Models | Correspondence |
|---|---|---|
| `IndexStore` | `storage/index_repo.py` | `files`, `chunks` and `fts` rows; a transaction is applied at its commit. `DeleteFiles` deletes FTS rows by hand before the cascade. |
| `Indexer` | `indexing/pipeline.py`, `change_detector.py`, `watcher.py` | Each process has a run: `Scan` or `Rebuild` looks at the stamps, `Detect` tells what changed, `RemoveDeleted` prunes, `ReadFile`, `WriteFile` and `Commit` go through the list in batches, `Finish` stamps the logic version; `ForgetOne`/`RefreshOne` are `index_one`, `WatchBatch` is `index_paths`; `Crash` at any step; `Save`, `Remove`, `ChangeIgnored` and `Upgrade` in between. |
| `Ranking` | `retrieval/retrievers.py`, `fusion.py`, `expansion.py`, the diversity cap of `engine.py` | What each retriever returns (sorted by keys no two rows share, as SQL and `sorted` with their tie-breaks order them), reciprocal-rank fusion in integers, weights by query kind, expansion by one hop, the cap of chunks per file. |
| `RepoMap` | `retrieval/repomap.py` | The map's entries in order of rank, and the search for how many fit. |
| `SearchSystem` | `retrieval/engine.py`, `indexing/embedder.py`, `storage/vector_index.py` | One process searches, embeds and builds maps: its retrievers read one after the other (`Read`, `ReadDense`, `FuseResults`, `ExpandResults`), its caches were filled at some earlier moment, an embedding run goes by batches that may fail. Others commit in between (`ReplaceFile`, `StoreElsewhere`). |

### Text

`MCText` is a disjoint union of five sequential algorithms: a behaviour picks one and runs
it to its end.

| Module | Models | Correspondence |
|---|---|---|
| `Chunker` | `indexing/chunker.py` | A file is a number of lines and a tree of definitions; what comes out are chunks with their line spans: header, skeletons of oversized classes, windows with overlap. |
| `EditEngine` | `tools/edit_engine.py` | A text is a sequence of marks (words, spaces, the two line-end bytes, a byte-order mark); `Match` tries the three strategies in turn (exact, trailing blanks ignored, indentation ignored) and refuses what is ambiguous; `Splice` puts the replacements in from back to front, `Write` encodes the result. |
| `ModelReply` | `llm/tool_call_parser.py`, the native calls of `ollama_provider.py` | A reply is a sequence of marks (tags, fences, objects, words); `Receive`/`StreamEnds` gather the stream, `Try` is one of the three patterns, `Extracted` the calls it finds, `Answer` a reply without any. |
| `AuditLog` | `safety/audit.py` | Two processes append records to the month's file, in pieces the system call may cut; a write may stop half-way (`WriteStops`) or cross the turn of the month; `ReadRecords` is what `read_records` gives back. |
| `Documents` | `workflows/docs.py` | The facts of a project in six layouts, the sections they lead to, `Cleaned` for `clean_prose`, `Rendered`, and `Verified` for `verify_document`. |
| `Places` | `_line_offsets` of `edit_engine.py`, what a regex substitution leaves | `Ascending` numbers a finite set of places, `Taken` reads a sequence at such a set: a shared vocabulary of `EditEngine`, `ModelReply` and `Documents`. |

### Commands and workflows

| Module | Models | Correspondence |
|---|---|---|
| `Sandbox` | `safety/sandbox/subprocess_runner.py` | A process group of a leader and a child, each with a signal it yields to; the pipe they hold; the timeout's ladder INT, TERM, KILL; cancellation. |
| `Workflows` | `workflows/test_writer.py`, `commit.py`, `tools/git_write.py`, `tools/tests.py` | `/test` writes, runs at most `MaxFilesRun` files and shows the model how they failed, in rounds; `/commit` shows a diff, asks, re-reads it and commits. Test files are places in the tree's order. Both run their commands in `Sandbox`. |

## Runs: what each shows

| Run | States | Shows |
|---|---|---|
| `WorkspaceWrites` | 1.37M | Two files, all five tools, crashes, and an editor that saves outside the window between re-verification and rename: a tool's change has an open row with the bytes before and after (`EveryWriteCheckpointed`), it lands on what was previewed (`LandsOnPreview`), and undo puts back each file its step wrote once (`UndoRestoresStep`). |
| `WorkspaceRaces` | 349k | `hearth undo` in a second process and saves inside every window: no row names a blob that is not stored (`RowBlobsStored`). |
| `WorkspaceEdits` | 117k | One file, edits and overwrites over two steps: bytes are not lost unasked, the model overwrites only what it has seen, an undo marks only what it planned to restore, `/undo` picks the last write, every revert settles (`NothingDestroyedUnasked`, `ReadBeforeWrite`, `MarkedMeansRestored`, `UndoTakesMostRecentWrite`, `RevertSettles`). |
| `FindUndoExact` | violation | See [findings](#findings). |
| `TurnCalls` | 294k | A step of up to two calls of five acts (a read, two writes, a denied and an ungrantable one), edited arguments, a prompt that may raise: one prompt at a time, no future left over, nothing without leave (`OnePromptAtATime`, `NoStrayFuture`, `RunsOnlyWithLeave`), and each consent used once, only reads together, each call ended once and on record (`OnlyApprovedExecution`). |
| `TurnEnds` | 48k | Under fairness every turn ends, with calls that share one id (`TurnEnds`). |
| `IndexRuns` | 1.25M | Full runs, watcher batches and single-file refreshes against saves, removals, ignore files, upgrades of the chunking logic and crashes: FTS rows are those of the chunks (`FtsMirrorsChunks`), a row that is stale can be told from its stamp (`StaleIsDetectable`), a full run nobody disturbed leaves the index equal to the workspace (`FinishedRunInSync`), a batch removes no row but its own (`BatchRemovesOnlyItsOwn`). |
| `SearchRuns` | 745k | Searches and embedding runs with another process committing in between: every result was a row at some moment of the search (`ResultsExisted`), a chunk that every retriever puts before another, and no penalty holds back, comes before it after fusion (`FusionKeepsDominance`), the caches are what this process read and wrote (`CachesTrue`), a run reported complete has a vector for every text it was given (`CompleteMeansEmbedded`), the map shows as many definitions as fit (`LargestPrefix`). |
| `SessionRuns` | 3.34M | Turns, `/test`, `/compact`, `/clear`, mode and epoch changes, both ways of cancelling, failures, the end of the process and resume: nothing is forgotten (`NothingForgotten`), a request fits the window (`FitsWindow`), its prefix is stable within an epoch (`PrefixStable`), the rows are a transcript (`SavedAsTranscript`, a refinement). |
| `PermissionRuns` | 112k | A session of two calls in every mode, with or without a plan, headless or not, under three configurations of the user's and one of the project's that is trusted, revoked, put in place and taken away at any moment: a project's rules only tighten (`ProjectOnlyTightens`), every grant was consented to (`GrantsConsented`), what runs is licensed (`OnlyLicensedRuns`). |
| `CommandRuns` | 1.15M | `/test` and `/commit` around commands that fork, hold the pipe, resist signals, time out and are cancelled, while others edit and stage: "passing" was seen (`PassedMeansRun`), a commit is of the diff shown (`CommitsWhatWasShown`), a command comes to an end (`CommandEnds`). |
| `TextRuns` | 1.12M | Five algorithms over bounded inputs: chunks keep every line and cite the right ones (`EveryLineKept`, `CitationsHold`); an edit replaces the text that was meant and what is written is what was previewed (`EditLandsOnItsText`, `WrittenAsPreviewed`); well-marked calls run, in order, and no others (`MarkedCallsRun`); a torn line costs at most one record besides its own (`TornLineCostsOne`); an offered document has its template's shape (`ShapeIsTheTemplates`). |

Several properties say where they stop.  They were first stated without their conditions,
TLC showed why that cannot be, and the condition names the behaviour of the code that is
described under [findings](#findings):

* `NothingForgotten` speaks of sessions in which no task goes on behind the prompt
  (`session.overlapped`); `SavedAsTranscript` of rows until one did (`count.left`).
* `CommitsWhatWasShown` leaves out the moment between the last comparison of the staged
  diff and git's own reading of the index (`moved`).
* `CommandEnds` leaves out a command that is `Held`: a process that ends neither by
  itself nor on a signal it gets.
* `TornLineCostsOne` is about records without a line separator in their text; `MarkedCallsRun` about replies whose tags and fences pair up;
  `EditLandsOnItsText` about matches that share no lines; `ShapeIsTheTemplates` about
  prose without lines under a heading or tildes, and with stray fences in the overview or
  in roles but not in both.
* `CachesTrue` is about what the process itself read and wrote; `CompleteMeansEmbedded`
  about a model that answers as many vectors as it was given texts.

`CHECK_DEADLOCK FALSE` is set where the bounds or the system bring everything to rest: a
session whose rows and turns are used up, an index whose saves are spent, a workflow that
has ended.  `TurnCalls`, `TurnEnds` and `TextRuns` check for deadlock, but a behaviour
there can always stutter (a file outside can be edited, a finished algorithm idles), so it
is `TurnEnds`, `CommandEnds` and `RevertSettles` that show nobody waits for ever.

## Bounds

| Runs | Bounds | Why enough |
|---|---|---|
| `Workspace…` | 1–2 paths, 2 contents, `MaxStep` 1–2, `MaxRows` 2, `MaxTurns` 1–2, `MaxClock` 0–1 | Two paths are needed for a move and for a step that writes two files. Two contents tell "restored" from "not" and "seen" from "not". Twice the same file in one step is the smallest case where the order of restoring matters; two steps are needed for rewinding, two turns for step numbers that start again, two seconds for trash names. |
| `Turn…` | 2 calls in a message, 1–2 ids, 2 acts (5 in `TurnCalls`), `MaxSteps` 2 (one step of calls, then the model is asked once more), `MaxEdits` 0–1, small windows | Two calls are what interference, a batch review and a shared id need. One act of each kind, two writes. |
| `IndexRuns` | one process, 2 paths, 3 texts (plain, generated, binary), one file per batch, one save, two logic versions, ids to 6 | A crash between batches needs two files in two batches; a stale stamp needs one save at the wrong moment; reuse of ids needs a deleted highest row. The theorems cover any number of processes and of everything else. |
| `SearchRuns` | 2 paths, 4 texts, ids to 4, one commit by others, 2 searches or embedding runs, a map of 6 tokens | One commit between two reads of a search is the hazard; a second search meets the caches of the first. |
| `SessionRuns` | 3 turns, 2 rounds of `/test`, 2 epochs, 1 end of the process, the last turn kept by compaction; a history of four messages | The third turn is the first that folds a summary again; a late task, a compaction and a resume need not come twice. |
| `PermissionRuns` | one session, 2 calls, 3 paths, 2 commands, 2 plans | Grant first, use it second. A session begins anew; only trust, which is in the run, outlives it. |
| `CommandRuns` | 3 test files, of which 2 are run, 2 rounds, 2 diffs, one change by others, a leader and a child that resist no signals or two | The third file is the one the limit leaves out. |
| `TextRuns` | files of up to 8 lines and trees of up to 5 nodes with windows of 4 overlapping by 2; texts of up to 3 lines over `""`, `w`, `"w "`, `" w"` in every line ending with and without a mark, mixed files of up to 4 marks, files of byte order marks and words, needles of up to 3 lines; replies of up to 3 marks and of 3 template pieces, native calls in up to 2 chunks; 2 processes writing 3 records over 2 months with one torn write; 6 project layouts with overviews of up to 4 marks and 7 replies for a role | Eight lines are two windows and a rest, five nodes a class with members beside others. Three lines are the least with an inner one, three marks the least in which one pair of tags encloses something. |

Symmetry: paths and contents in `MCWorkspace`, writes and call ids in `MCTurn`.  Nothing in
the modules distinguishes them, and no run that checks liveness uses it.

## Fairness

* `WorkspaceSystem!Fairness`: a revert pass is a synchronous function, so it goes on until
  it returns (weak fairness of `UndoPass`), and a conflict prompt is answered.  Nothing
  is assumed of turns, of editors or of crashes.
* `AgentLoop!FairSpec`: the event loop runs whatever is ready and a model's stream ends
  (weak fairness of `Program`; providers have a read timeout), and whoever sits at the
  prompt answers (weak fairness of `User`).  A prompt that *raises* is not repaired.
* `Workflows!FairSpec`: the runner's clocks go on (weak fairness of `Runner`: timeouts
  expire, reads return what is there), and a process that was sent a signal it does not
  resist dies (weak fairness of `Die(p)`).  Nothing is assumed of processes that
  were sent none.

## Proofs

TLAPS proves the following for every value of the constants: every set of paths, contents,
acts, call ids and processes, every number of calls in a message, every limit.

| Theorem | States | Assumes |
|---|---|---|
| `InvariantIInv` (`WorkspaceSystem_proofs`) | `[]IInv` | — |
| `StoredTheorem` | `[]RowBlobsStored` | — |
| `LatestTheorem` | `[]UndoTakesMostRecentWrite` | `MaxTurns = 1` |
| `InvariantSInv` | `[]SInv` | no `EditorRaces`, no `ExternalUndo` |
| `CheckpointTheorem`, `PreviewTheorem`, `RestoreTheorem` | `EveryWriteCheckpointed`, `LandsOnPreview`, `UndoRestoresStep` | the same |
| `MarkedTheorem` | `MarkedMeansRestored` | the same |
| `ReadTheorem` | `ReadBeforeWrite` | the same, and no moves |
| `NothingDestroyedTheorem` | `NothingDestroyedUnasked` | the same, edits and writes only |
| `InvariantTurnInv` (`AgentLoop_proofs`) | `[]TurnInv` | `SequentialAsks` |
| `LeaveTheorem`, `OnePromptTheorem`, `NoStrayFutureTheorem` | `RunsOnlyWithLeave`, `[]OnePromptAtATime`, `[]NoStrayFuture` | `SequentialAsks` |
| `ApprovedTheorem` | `OnlyApprovedExecution`: `AgentLoop` implements `ApprovedExecution` | `SequentialAsks` |
| `RecordTheorem` | `[]EveryCallRecordedOnce` | — |
| `IndexTheorem`, `FtsTheorem`, `StaleTheorem` (`Index_proofs`) | `[]IndexInv`, `[]FtsMirrorsChunks`, `[]StaleIsDetectable` | — |
| `SyncTheorem`, `FinishedTheorem`, `BatchTheorem` | `[]SyncInv`, `FinishedRunInSync`, `BatchRemovesOnlyItsOwn` | — |
| `SessionTheorem`, `ForgottenTheorem`, `PrefixTheorem` (`Sessions_proofs`) | `[]SessionInv`, `[]NothingForgotten`, `PrefixStable` | — |
| `WindowTheorem` | `[]FitsWindow` | — |
| `SavedTheorem` | `SavedAsTranscript`: `Sessions` implements `Transcript` | — |
| `AllowedIsLawful`, `HeadlessIsNeverAsked`, `UntrustedAllowIsAbsent` (`Permissions_proofs`) | what `Evaluate` answers, for any request, session and configuration | — |
| `PermissionsTheorem`, `ConsentTheorem`, `TightensTheorem`, `LicenceTheorem` | `[]PermissionsInv`, `[]GrantsConsented`, `[]ProjectOnlyTightens`, `OnlyLicensedRuns` | — |
| `SearchTheorem`, `CachesTheorem`, `CompleteTheorem`, `LargestTheorem` (`SearchSystem_proofs`) | `[]SearchInv`, `[]CachesTrue`, `[]CompleteMeansEmbedded`, `[]LargestPrefix` | — |
| `FoundTheorem`, `ExistedTheorem`, `DominanceTheorem` | `[]FoundInv`, `[]ResultsExisted`, `[]FusionKeepsDominance` | — |
| `MapTheorem` | `[]LargestPrefix` for the builder alone | — |
| `ChunkTheorem`, `LineTheorem`, `CitationTheorem` (`Text_proofs`) | `[]ChunkInv`, `[]EveryLineKept`, `[]CitationsHold` | — |
| `AuditTheorem`, `TornTheorem` | `[]AuditInv`, `[]TornLineCostsOne` | — |
| `DocTheorem`, `ShapeTheorem` | `[]DocInv`, `[]ShapeIsTheTemplates` | — |
| `ReplyTheorem`, `MarkedCallsTheorem` | `[]ReplyInv`, `[]MarkedCallsRun` | — |
| `WrittenTheorem` (`EditEngine_proofs`) | `[]WrittenAsPreviewed` | — |
| `LandTheorem`, `LandsTheorem` | `[]LandInv`, `[]EditLandsOnItsText` | — |
| `JobTheorem`, `PassedTheorem`, `ShownTheorem` (`Permissions_proofs`) | `[]JobInv`, `[]PassedMeansRun`, `CommitsWhatWasShown` | — |

"—" means the named assumptions of the constants and nothing else.

**Workspace.**  `RowBlobsStored` is not inductive: the step that inserts a row must know
that its blobs are there.  `IInv` adds that (`BlobsBeforeRow`, for the moment between the
two halves of `record`), the shape of a call in each phase (`CallShape`, from which the
bound on row ids follows) and that an undo has a step to return to.  `SInv` adds what holds
while nobody saves in the microseconds between the re-verifying read and the rename, and no
second process undoes: a call past verification still sees its preview (`QuietCall`), it
has its rows when it mutates (`EntryRecorded`), turns and undo exclude each other, and a
revert has restored what it is done with (`RestoredSoFar`).  Both assumptions are needed:
an editor that saves inside the window is not noticed by the code, whichever order it
works in.  On top of `SInv`, three more: an undo's plan is the whole step
(`PlannedWhole`), from which `MarkedTheorem`; what the registry knows has been seen
(`KnownIsSeen`), which a move breaks, as it carries the entry along unread; and what a
restore writes over is a row's after-image, hence stored (`OverKeptBytes`), which entries
without an after-image break.

**Turn.**  `RunsOnlyWithLeave` needs an approval to be still unused when the call it was
given for starts.  Between the two lie the bus and the step's other calls.  `TurnInv` says
who may wait (`OnlyAskersWait`), that in a step that is not all reads a call begins only
when those before it are done (`InOrder`), that whoever asks is the one registered under
its id (`AskerIsRegistered`, `NoStranger`), and that the leave for an answered prompt, for
a batch answer and for a yes on the review screen is still there *and separate*
(`AskerHasLeave`, `BatchHasLeave`, `ReviewHasLeave`).  `SequentialAsks` says that no act
the policy asks about belongs to a `concurrent_safe` tool.  That is so for the tools of the
repository under the default policy: the concurrent tools are reads, they pass no
`PolicyFacts`, and `_default_decision` allows a read whose facts say nothing
(`safety/policy.py:315`).  A user's `ask` rule can name a read tool; what happens then is
under findings.

`ApprovedTheorem` maps each step of a turn to one of `ApprovedExecution` or to a stutter.  The
calls of a message are a `Propose`, for which there must be none left over from the message
before (`NoCallBetween`); an answer at the prompt or on the review screen is a `Consent` to calls
that are still only proposed; a call that leaves the queue or the prompt to run is a `Start`,
whose licence is what `AskerHasLeave` and `BatchHasLeave` keep unused, and which finds
nothing running but reads by `InOrder`; going back into the gateway with edited arguments is
an `Amend`; whatever else the bus, the review and the editors do is not seen.

**Index.**  `FtsMirrorsChunks` and `StaleIsDetectable` are about committed tables, while a
transaction works on a copy that another process's commit may not touch.  `IndexInv` says
that stamps are only ones that were given, that a row holds the bytes its file has for as long as
the file has the row's stamp (`Truthful`), that runs
and transactions are well shaped, and that the copy mirrors as well.  A row is then stale
only if its file has another stamp by now.  `SyncInv` follows one full run that nobody
disturbed: what it passed over, read or wrote is in step; what it has not reached is on
its list; rows of files that are gone are on its other list; what a batch holds tells its
file.  It is inductive relative to `IndexInv`, and at the end the lists are empty.

**Sessions.**  `SessionInv` says that epochs only rise; that while an epoch lasts the last
request's history is a prefix of the session's (`RequestKept`), so the next one begins like
it; that without a task behind the prompt a summary was made from the whole history
(`Alone`), so nothing is lost when it replaces it; and that rows and what a running task
will save are distinct and in order (`SavingInv` with `Owed`, until a task is left behind).
`SavedTheorem` maps each step of a session to a step of `Transcript` or to a stutter.
`WindowTheorem` needs no invariant: a request is the only step that makes one, `Fit` fills
the window from the history's end until the next message does not fit, and what retrieval
may add is what `Slack` leaves.

**Permissions.**  The lemmas on `Evaluate` go stage by stage.  `PermissionsInv` ties every
loaded configuration to what was trusted when it was read, every grant to an answer or to
the plan approved last, and an open question to the request it was asked for; so a grant is
taken away with the plan it came from, and an answer cannot license another call.

**Search and embedding.**  A batch stores its vectors one by one and the caches are only
invalidated by its last, so `CachesTrue` holds when nothing is being stored; `CachesFresh`
says that this is the only gap.  For `CompleteMeansEmbedded`, `Counted` bounds the number of
texts counted as embedded by those of the work list that have a vector or are about to
(`Answers`) and are in no batch to come.  A complete run counts as many as the list has, so
by `FS_Subset` and cardinality they are all of them.  The map's search keeps a count known
to fit below its lower bound and one known not to fit above its upper one; a rendered
prefix is a set of tokens that grows with its length, so its cost is monotone, and when the
bounds meet the count is the largest.

`FoundInv` says that the index is a finite set of rows with distinct numbers, and that every
list a retriever returned holds rows that were committed at some moment of the search
(`lived`); a search cannot tell which of them still are.  A retriever orders by a key no two
rows share, so `Sorted` is a bijection between places and rows (`Sorting`: the number of
smaller keys is the place), and neither `Top` nor `At` repeats a row.  Fusion takes each
number once, with the row met first under it, so path, place and text are of one row even
when the number was given again between two reads: `ResultsExisted`.  The cap per file needs
the number of earlier rows of the file to grow along the list (`DiversifyIs`).  For
`FusionKeepsDominance`, contributions shrink with the rank, so the score of a row that
dominates is at least the other's; and where it is only equal (weights may be zero, and
quotients are rounded) the row that dominates was met first, because its first retriever puts it first
as well.  Nothing is assumed of `Unit`: the quotients only need to be monotone.

**Text.**  A line that no chunk has yet is on its way into one: it is ahead in the file, in
a stretch still to be windowed, or below a sibling in some frame of the tree walk
(`NoLineLost`); stretches lie in the file and are numbered as their lines are, or too low
in the one case `CitationsHold` excepts (`StretchesInFile`); frames hold siblings in
order (`FramesInTree`).  When the walk is done nothing is ahead.  `Splits` says
which header lines a split leaves out.  `WellFormed`, the only assumption about files, is
what a parse tree is: spans nest.

**Audit log.**  `AuditInv` says that a record is in one place of one file
(`WrittenOnce`), that what does not end its line was torn (`TornInside`) and that what was
not torn ends one (`ReadableEnds`).  A line is then unreadable only if a torn piece is in
it, a torn piece spoils the line it is in and no other, and what else is in that line is the
one record appended behind it.

**Edits.**  Both properties are of the end of an edit, and of texts of any length, so most of
`EditEngine_proofs` is about what the operators do to a sequence.  Induction is over
numbers (`UpTo`, from well-foundedness) and a sequence is taken mark by mark
(`FlattenNext`).  *What is written* (`PreviewInv`): line feeds are the only line ends that
come into the text, and of a file in a form of its own no byte order mark does
(`OnlyLineFeeds`); such a text is read back mark by mark as it was encoded (`RoundTrip`),
its line ends are all of the file's kind (`UniformEncoded`), and where a file has one
kind, decoding and encoding give each of its marks back (`Restored`).  *Where it lands*
(`LandInv`): matches begin one behind the other (`MatchesFollow`), each is what was asked
for (`MatchesStand`), and, if they share no marks, the text is the one before with the
matches not in `todo` replaced (`SplicedSoFar`).  That a window of lines, cut out of the
text, has the lines it was compared by is `CutLines`, which rests on the uniqueness of a
list that ascends (`AscendingOnly`); `SpliceOne` is why back to front is right: up to the
match the text is as it was, behind it nothing moves.

**Documents.**  `DocInv` is short: what the document says is what cleaning left, and what is
past verification is the template filled with it.  The work is in the operators.
`Cleaned` leaves one fence at most and no mark of a heading at the beginning of a line, as
fences are taken out in pairs from the left and headings with the whole of their line; what
tidying and shortening take away afterwards begins no new line.  The reader of Markdown is a
recursive function over lines, so it is followed section by section: a section whose prose
has no fence and no heading adds its own heading and rows to what was read, and leaves no
block open (`ReadAsWritten`).  That leaves the case of a fence.  If there is
one in the overview and none in a role, every other section holds an even number, the
document an odd one, and `Verified` refuses it (`OddRefused`).  A role stands in a row,
where a fence opens no block.  The condition of the property is therefore exact: with a fence in both the
number is even, and the document is offered (see the findings).

**Replies.**  `ReplyInv` says that the text is read only where the server parsed no call, that
a pattern is tried only when those before it found nothing, and that what is found is all
that the pattern finds.  `Matches` is a recursive function, as a regular expression's
matches follow one another; it is taken place by place (`MatchesAre`), every match is one at
some place (`MatchesOnly`), and where no two overlap all are taken (`MatchesAll`).  In a text
whose tags enclose one object each, a match begins at every tag and ends before the next; in
a text whose fences come in pairs, at the first fence of every pair that holds an object; so
the calls are those of the marked places, in the order of the text.  Of the bare matches at
most one is JSON, since a match runs from the first brace at the beginning of a line to the
last at the end of one; and an object that is the only one, alone on its line, is that match.

**Workflows.**  `RoundInv` says that a round begins with nothing run, that as long as the
round's verdict is good every run that was read passed, and that an empty queue then means
there was one: the queue is never empty when a round starts, because `/test` stops at
"no tests written" before.  `Compared` says that on the way to git the staged diff is the
one shown, unless somebody staged after the comparison.

**Only model-checked.**  Liveness (`RevertSettles`, `TurnEnds`, `CommandEnds`), as fairness
and ENABLED are out of the prover's reach.  Every invariant and every action property the
runs check is a theorem, under the assumptions in the table.  `FindUndoExact` is a counterexample.

## Findings

One is a run; the others were met while modelling, most of them when TLC refuted a
property before it was given its condition, and seen again in the running code.

**Undo and files**

* *A step that wrote a file twice is not undone exactly* (run `FindUndoExact`).
  `revert_step` puts entries back oldest first (`safety/checkpoints.py:206`), so the file
  ends with the bytes between the two writes; `checkpoints.py:4` promises "exactly".
* Undoing a deletion overwrites a file created since: an entry without an after-image
  never conflicts (`safety/checkpoints.py:267`).
* `/undo` may pick a step that is not the most recent write: step numbers start again in
  every turn, checkpoints belong to the session, and `latest_step` takes the highest
  number (`safety/checkpoints.py:165`).
* A rewind whose second step conflicts has already put back the first, though a "no"
  prints that nothing was reverted (`cli/checkpoint_commands.py:152`).
* A move registers the destination as read (`tools/write_fs.py:549`), with the entry of a
  file nobody need have read.
* `edit_engine`: `replace_all` with matches that share lines, beyond the exact strategy,
  loses text that was not matched; the exact search skips overlapping occurrences, so
  `"a\na"` counts as unique in `"a\na\na\n"`; a needle that ends in a newline and matches
  by one of the looser strategies leaves an extra blank line.

**Turns and prompts**

* "Abort task" does not end the turn: `call` treats it as a rejection
  (`tools/gateway.py:239`); `docs/safety-and-tool-use.md:369` says "Turn ends".
* Two concurrent requests with one call id share a future: the answer to the first prompt
  releases the second call (`core/bus.py:103`).  Ids of native calls start again with each
  chunk (`llm/ollama_provider.py:235`).  It needs a `concurrent_safe` tool the policy asks
  about, which only a user's `ask` rule makes.
* A prompt that raises leaves the turn waiting: `publish` logs the exception
  (`core/bus.py:83`) and `request_approval` waits for a future nobody has.
* A denial counts towards the consecutive failures that end a turn (`core/limits.py:88`).

**Sessions**

* Under `asyncio.run` a Ctrl+C first arrives as `CancelledError` in the main task, so a
  shielded turn goes on behind the prompt: what it appends is in memory and never saved,
  and it may put back an older, longer history, after which a `/test` in front counts from
  a stale index and a message can be stored twice.
* `compact` replaces the history after the model's answer by what was made of it before
  (`core/runner.py:543`): a message appended meanwhile is lost from the conversation.
* `_persist_history_since` counts from an index taken before the workflow; a compaction
  within leaves a hole in what is resumed (`cli/repl.py:371`).
* A cancelled workflow goes on beside the next command (`cli/repl.py:360`).

**Index and search**

* A file that is unreadable or absent during a forced run and comes back with the same
  stamp keeps chunks of the old logic, stamped as current (`indexing/pipeline.py:48`).
* A file that was indexed and becomes binary or too large keeps its rows until it changes
  back; `StaleIsDetectable` shows they are recognisable.
* `executescript` in `storage/migrate.py` commits the transaction it runs in.
* The coverage and matrix caches of a session are not told of what another process
  commits; ids are reused, so two retrievers of one search may mean different rows by one
  id (`ResultsExisted` says each was a row at *some* moment).
* The embedder's `zip(strict=False)` counts a short answer as complete.

**Text**

* `docs.py`: a stray fence in the overview and one in a role are even together, so
  `verify_document` finds nothing and the sections between are inside a block; underlined
  headings and `~~~` pass `clean_prose`; two modules of one stem share one role.
* `audit.py`: a record with U+2028 or U+0085 is written and never read back
  (`splitlines`); a lone surrogate raises though the function says it never does; the
  record after a torn line is appended to it and hidden with it.
* `tool_call_parser.py`: of two bare calls on two lines, or two objects in one fence, none
  runs; a tagged object followed by a word takes the next tagged call with it.
* `chunker.py`: a markdown file that begins with blank lines numbers the windows of its
  first section from one; a definition too large for one chunk that is no class keeps its
  header line in the skeleton only.

**Commands**

* `/test` runs at most three files (`MAX_FILES_RUN`) and names all as passing; a run that
  timed out after an output that parses as passed counts as passed, and so do tests that
  were all skipped.
* After a timeout, a leader that has already exited ends the ladder: its child is not
  signalled and, if it holds the pipe, is waited for (`safety/sandbox/subprocess_runner.py:203`;
  `docs/safety-and-tool-use.md:484` says "No orphaned children").
* A `git commit` that times out can be reported as failed though the commit was made.

## What is not modelled

* **Evaluation harness, doctor, rendering, completion**: input, output and measurement.
* **The providers' HTTP**, model profiles, guards and token counting: data or I/O; a
  failing or ending stream is in `ModelReply` and `Sessions`.
* **`/review`, the refactor gate, `diffs.py`, `targets.py`**: they ask the model and print,
  or hand over to a turn, and keep no state.
* **Word tables and character scanning** of the classifier, `secrets.py`, `injection.py`,
  `env.py`: filters over text without state.  What their answers lead to is in `Policy`.
* **Closing the bus during a turn**, and the calls of a cancelled turn one by one.  What a
  cancelled turn does to the history is in `Sessions`.
* **The refresh of the index after a write**: nothing sets `ToolContext.reindex`, so in the
  command line `index_one`, `index_paths` and the watcher are not called; `Indexer` models
  them all the same, as their tests and docs use them.
* **A rebuild of the index while a session is open**, and a model that answers fewer
  vectors than texts.
* **Symlinks, permissions and sizes** in `prepare`: they only refuse.  A call `prepare`
  refuses appears in `ToolGateway` as `Refuse`.
* **The policy's verdict inside a turn** is a constant of the turn model (`Denied`,
  `Asked`, `Ungrantable`), changed only by a grant; `Permissions` is where it is computed.
* **An `OSError` in the middle of a revert** has the effect of the process's death at that
  point, and is covered by it.

`AbortEndsTurn`, `NoOrphans`, `HeadlessNeverAsks`, `ExpansionsSound`, `NoopParsesNothing`,
`EveryCallRecordedOnce`, the types and the inductive invariants are stated in the modules and
not listed in a run: the first two do not hold (see above), the invariants were checked with
TLC before they were proved, and the theorems stand for them.

## What comes next

* Composition of `Sessions` with `AgentLoop`, to follow a cancelled turn's calls.
