# Moonlight for the original Xbox: a TLA+ model

This directory models the parts of the program where several things happen at
once, in an order nobody chose, or against data somebody else changed: the
background tasks of the shell, the saved hosts, settings and what is written of
them, pairing, requests and the client identity, the pages with their modals and
selections, the way from buttons to commands, and the streaming session with its
video and audio paths. Every module is translated from the C++ source;
`PROJECT.json` maps each definition to the lines it stands for. TLC checks small
instances; TLAPS proves every safety property a passing run checks, for every value
of the constants.

Contents: [inventory](#inventory) - [modules](#modules) - [runs](#runs) -
[bounds](#bounds) - [fairness](#fairness) - [proofs](#proofs) -
[disagreements with the code's own words](#disagreements-with-the-codes-own-words) -
[hazards without a property](#hazards-without-a-property) -
[assumptions](#assumptions) - [what is not modelled](#what-is-not-modelled) -
[plan](#plan)

## Inventory

The program has one *shell thread* (`ui::run_shell`), which owns all application
state (`app::ClientState`) and runs frames: finish background tasks that are
ready, start new ones, run the user's commands, render. Threads are created for
single jobs and report through atomics or one locked queue. While a stream runs
the shell is suspended inside `launch_stream_if_requested`.

| Component | State it keeps | Operations | Talks to |
|---|---|---|---|
| Shell loop (`ui/shell_screen.cpp`) | runtime state of all tasks, renderer resources | `finish_*_if_ready`, `start_*_if_needed`, `*_if_requested`, `finalize_shell_tasks` | everything below, by direct calls |
| Client state (`app/client_state.cpp`) | screens, modals, hosts page, snapshot of the active host, drafts, settings | `handle_command`, `apply_*_result`, `set_screen`, load and unload of pages | returns requests that the shell loop carries out |
| Saved hosts (`startup/host_storage.cpp`) | one text file | load, save (truncates, then writes) | shell loop, `main` |
| Saved-host refresh (`ui/host_probe_result_queue.cpp`) | workers, locked queue, counters | begin, publish, skip, drain, complete? | one worker thread per host |
| Host discovery (`network/host_discovery.cpp`) | mDNS collector, bootstrap state | `discover_hosts` | one thread, lwIP callbacks |
| Pairing (`network/host_pairing.cpp`) | session of one attempt | five request phases, cancellation | one thread per attempt, the host |
| Client identity (`startup/client_identity_storage.cpp`) | three files | load, save, delete | pairing, refresh, app tasks, stream launch |
| Apps page | app records of the snapshot, flags, favorites | fetch list, fetch art, merge, toggle | two task threads, cover-art cache |
| Cover-art cache (`startup/cover_art_cache.cpp`) | one file per app | exists, save, load, delete | art thread, list thread, settings page |
| Streaming session (`streaming/session.cpp`) | connection state on the stack behind one global pointer | start with RTSP retry, active loop, stop | start thread, input thread, streaming library |
| Requests (`network/host_pairing.cpp`) | one socket, one TLS session per request | connect, handshake, send, receive with time limits and a flag | pairing, refresh, app tasks, stream launch |
| Video and audio path (`streaming/ffmpeg_stream_backend.cpp`) | decoder, three frame buffers, audio device | callbacks of the library, render | decode thread, main thread |
| Settings (`app/settings_storage.cpp`) | one TOML file | load with clean-up, save | client state |
| Saved-files catalog (`startup/saved_files.cpp`) | - | list, delete one, delete all | settings page, factory reset |
| Logger (`logging/`) | ring of entries, levels, sinks, a file | log, snapshot, load file | every thread |
| Startup (`main.cpp`, `splash/`) | startup task | boot, splash, save at exit | shell loop |
| Input, menus, view (`input/`, `ui/menu_model.cpp`, `ui/shell_view.cpp`) | selection, repeat timers | map buttons, move, build the view | client state |
| Runtime network, video modes, platform layer | set once at startup | probe, choose, wrap | startup |

What is hard here, and what makes each component correct:

- **Refresh.** Publication, completion flag, drain, join and completeness test
  are separate steps of two sides. No answer may be lost, no queue reset under a
  worker, and a round must end even if threads cannot be created, unless a host
  falls silent under TLS.
- **Saved hosts.** Pages unload the list they do not need, results arrive on any
  page, and every save writes whatever is held. Page, snapshot and file must
  agree, and no host may vanish that the user did not remove.
- **Pairing attempts.** A cancelled attempt runs on next to its successor; both
  use the same three files, which other pages delete and status queries present. No attempt may be freed under its thread, only the
  current one may be applied, and the identity on file must be the one hosts
  accepted.
- **Pairing and requests.** Any request of the five phases may fail, be cut off or
  be answered by a host that has changed since. A pairing must not succeed that
  the host did not grant, no status may be reported that nobody gave, and an
  operation must end.
- **Apps page.** Answers belong to a host, not to a page; flags must be backed by
  files; slots must not be reused under a running thread.
- **Pages.** Selections are indices into lists that others change, modals are
  about one entry of them, two menus are rebuilt behind each other.
- **Settings and files.** Every write truncates first; files are edited, deleted
  and listed at different times.
- **Input.** Events and a poll see the same pad; repeats, a hold and a
  combination are told apart by times; a stream takes the events away.
- **Video path.** Units are dropped to catch up, buffers are swapped between two
  threads, the stop must wake a waiting decoder.
- **Audio path.** Samples come faster or slower than the device plays; opening
  fails half way; the main thread asks the device meanwhile.
- **Session.** Callbacks reach stack state through a global pointer from library
  threads; a failed start is retried; the user may stop at any moment.

## Modules

| Module | Models | State and actions against the code |
|---|---|---|
| `HostProbe` | saved-host refresh | `pc` is the position in a frame; `workers`, `metadataChanged` are fields of `HostProbeTaskState`; `target`, `published`, `pending` are the queue's, whose lock makes each of its operations one action; `thread[h]` is the worker of a host, which may wait for a host that fell silent under TLS (`FallSilent`). `finish_host_probe_task_if_ready` is four steps (drain, reap, drain again, check), launching visits one record per step |
| `ProbeRound` | what a refresh promises | targets and answers only; `HostProbe` implements it |
| `ShellHosts` | saved hosts | `items`, `active`, `dirty`, `loaded` are fields of `HostsState`; `disk` is the file. One action for each result and command that changes them, with its `persist_hosts`; a save may fail or stop half-way |
| `PairingAttempts` | attempts and identity | `stage[a]` follows `run_pairing_task` and `pair_host`; `file` has the three parts, saved one by one; `retired`, `active`, `cancelled` are the shell's side. What else touches the identity is there too: status queries that mark a host paired or not (`AskStatus`, `Paired`, `Unpaired`), the deletion of a host, of a single file and the factory reset, which may fail half-way; a host that is silent under TLS (`Silence`) |
| `GameHost` | external: the machine the client talks to | what the client can tell of it: trust, certificate, phase of a pairing, running app; `Answers` gives the answers the client's code is written for |
| `HostRequests` | one request (`http_get`) | `net` is the position: connect, handshake, verify, send, receive; time limits and the cancellation flag are separate ways on; an answer arrives whole, cut off or not |
| `HostClient` | the operations built on requests | `op`, `step` tell which request of `pair_host`, `query_server_info`, `query_app_list`, `query_app_asset`, `launch_or_resume_stream` is under way; each answer handler is one action |
| `AppsPage` | apps page and its tasks | one record per slot (`listTask`, `artTask`) with the stage of its thread; `FinishList`, `FinishArt`, `StartList`, `StartArt` in the order of a pass; commands of the apps and settings pages |
| `MenuModel` | `ui::MenuModel` | operators on rows and a selection |
| `GridMoves` | movement in the grids and on the keypad | operators on indices |
| `ClientScreens` | screens, modals, selections, keypad | `state` holds the fields of `ClientState` these pages use; `User(command)` is `handle_command` with what the shell does of the update it returns; the results of the tasks are actions of their own |
| `SettingsPage` | settings page, confirmations, log viewer, saved files | `page` is the state of the page with its two menus, `disk` the files that exist; deletion and the factory reset belong to the command that confirms them |
| `SettingsFile` | settings in memory and in `moonlight.toml`, video modes | `values`, `dirty`, `modes` are fields of `SettingsState`, `stored` is the content of the file; boot, rows, edits by hand, torn writes |
| `ShellInput` | from buttons to commands | `phase` is the position in a frame: exit combination, held scroll buttons, events, poll; `input` is `ShellInputState`; `pad` and `tilt` are the pad as SDL last saw it |
| `StreamVideo` | video path | decoder, renderer and library; `back`, `latest`, `front` index three buffers, `content` tells which unit a frame came from. `Look` is the main thread's loop, which goes on while the start thread takes a failed start down (`failing`); the decoder thread may not come up |
| `StreamSession` | streaming session | `main`, `start`, `input` are the three threads' positions; the flags are those of `StreamConnectionState`; `registered` is the global pointer |
| `StreamAudio` | audio path within the session | `device`, `context`, `known` are fields of `AudioState`, `queued` is SDL's queue. Every step of `StreamSession` is taken with what it means for the audio path (`AudioFollows`); samples, the device and the main thread's question are steps of their own, and so are the library's stop (the device pauses, its queue stays) and cleanup (the queue is cleared, the device closed) |

`MCShellHosts`, `MCPairing`, `MCAppsPage`, `MCSettingsFile` and `MCShellInput` add
symmetry, a view, a constraint or values for TLC; the other modules are checked
as they are.
`*Proofs` modules hold the theorems. Definitions marked `Mutant:` are plausible
bugs; each property is violated when the marked variant takes the place of the
definition it follows (`PROJECT.json`, `mutants`), so that no property holds
whatever the code does.

How they fit together: `ShellHosts` treats every background task as "may finish
now"; `HostProbe`, `PairingAttempts` and `AppsPage` open up one task each and
keep of the hosts only what that task needs. What such a task does on the network
is `HostClient`, which `HostRequests` carries out against `GameHost`;
`PairingAttempts` keeps of it that a pairing ends as granted or not.
`ClientScreens` has the pages whose hosts `ShellHosts` saves, `SettingsPage` the
page whose rows `SettingsFile` saves; `ShellInput` ends where their commands
begin. `StreamSession` leaves the media backend at "open or not"; `StreamAudio`
composes it with the audio path, `StreamVideo` opens the video path up with the
phases of the connection as its environment.

## Runs

Times are those of two workers on a small machine.

| Run | States, time | Shows |
|---|---|---|
| `host_probe` | 114,532, 30 s | two hosts that answer, do not, or fall silent under TLS: `NoResetUnderWorkers`; every announced round ends unless a silent host holds its worker for ever (`RoundsEnd`); the threads and the queue implement `ProbeRound` (`RoundSpec`), which is to say that no answer is lost |
| `shell_hosts` | 2,523,848, 2 min | two hosts, every page, command, result, failed write and restart: `CleanPageMatchesFile`, `PageCoversFile`, `AttemptHasItsHost`, and a host leaves the file only on request while the page or a snapshot is held (`LossesAreRequested`) |
| `pairing` | 853,332, 2 min | two attempts for one host, status queries, deletions, resets that fail: `ThreadsOwned`, `SuccessIsAccepted`; while `settled`, `IdentityAgrees`; cancelled attempts end and are joined, and only a silent host holds a join (`AttemptsEnd`) |
| `host_client` | 507,104, 1 min | a host that answers, refuses, cuts off, falls silent and changes: `PairedIsGranted`, `StatusIsAnswered`; an operation that does not end waits for a host that is silent under TLS (`StuckOnlyBySilence`) |
| `apps` | 5,207,547, 2.5 min | two hosts, an app that stays or goes, images that fail, a deleted file, a favorite, answers for one host on the page of another: `ListsBelongToHosts`, `LoadingIsFetched`, `FlagsHaveFiles`, `SlotsHeld`, `AppsRemembered` |
| `client_screens` | 317,306, 1.5 min | two hosts, two apps, every command and result: `IndicesHold`, `SelectionSurvives`, `ModalKeepsTarget` |
| `settings_page` | 472,203, 20 s | `RowsMatch`, `ListedOnDisk` while files come and go |
| `settings_file` | 40,733, 5 s | `SettingsSurvive` with failed and torn writes, edited files, restarts and other modes |
| `shell_input` | 1,523,879, 1 min | `ChoiceNeedsNeutral`, `CombinationIsNoCommand`, `PressedAreDown`; the poll waits for the pause after a move (`MovesArePaced`), except in a direction that was let go since or whose opposite was pressed |
| `stream_video` | 42,588, 10 s | losses, drops, decode failures, a failed start, a stop anywhere: `UnitsGivenBack`, `ReferencesHold`, `ShownForward`, `FramesRendered`, `StopEnds` |
| `stream_session` | 35,882, 15 s | two sessions with their audio path, retry and stop: `CallbacksReachSession`, `ResourcesOutliveUse`, `EndsForAReason`, `StopIsFinal`, `SessionEnds`; what waits to be heard is bounded, of this connection, and not played after the stop (`SoundIsOfNow`) |
| `saves_keep_hosts` | ends in a violation | see [disagreements](#disagreements-with-the-codes-own-words) |

`shell_input` allows deadlock: the shell leaves on the exit combination, and
nothing follows.

## Bounds

- **Hosts.** Two: one the shell works on and one that must not be affected. In
  the refresh one worker can be joined while the other has published or is
  probing; the theorems cover any number. `pairing` has one host, which both
  attempts pair with; the theorems cover any number there too.
- **`MaxTasks` = 2** (`MCShellHosts`): background tasks under way at once. Tasks
  meet only through the host list, in pairs; the five kinds are all covered.
- **Attempts.** Two: a cancelled one and its successor. Each runs once; a third
  would meet its predecessor in the same way.
- **`Title`** (`apps`): one app, which a host may offer or not; lists of different
  hosts never share an app. **`MaxDeleted`, `MaxFavorites` = 1**: a deleted art
  file and a favorite are followed through all later steps.
- **`App`, `Cert`** (`host_client`): two each, so that a host can run another app
  and come back with another certificate. **`Ports`, `Paths` = 2**: one try that
  fails and one that follows; the code goes through longer lists the same way.
- **`client_screens`**: two hosts and two apps, in lists of every order and length
  up to **`Longest` = 2**. The grids have one row of each then; moves in grids of any
  length are proved in `ClientScreensProofs`, and so are the properties for any bound.
- **`LogLines` = 5**: a log shorter and longer than a page of the viewer.
- **`settings_file`**: two choices for each row, every list of up to two modes.
- **`shell_input`**: `InitialRepeat` = 2, `Repeat` = `ScrollRepeat` = `ExitHold` =
  1 ticks stand for 150, 45 or 110, and 900 ms: what matters is that the first
  repeat takes longer than the next and that time passes in between; `MaxDown` = 2 buttons are down at a
  time, which is what the combination needs. One button of each kind stands for
  both (shoulders, triggers), up and down for the four directions.
- **`MaxUnits` = 4**: an IDR, two frames that refer to their predecessor and one
  more to be dropped. The counters in the code are 64-bit and do not wrap in a
  stream.
- **`MaxSessions` = 2**: a session and the one after it, to see what is left over.
  **`Limit`, `MaxSample` = 2** with two formats: a queue below, at and above its
  limit, and a resampler that fits or not.
- **Views.** `MCAppsPage!Behaviour` leaves out history variables that no action
  and no property of that run reads, `MCShellInput!NoIssued` the command of the last
  step, which the action properties of that run read in the step itself.
  `MCPairing!NoRest` leaves out, of an attempt that has ended, what nobody reads any
  more: its cancel flag, its identity if it failed, and once it is joined (the code
  frees it then) its target and result, too. Two states that a view makes one take
  the same steps to states it makes one, and `SuccessIsAccepted` of an attempt
  stays what it was when the attempt ended, as hosts do not forget an identity.

## Fairness

- *Threads* (`Publish`/`Complete`, `Run`, `StartThread`, `InputEnds`,
  `DecoderThread`): weak fairness. The scheduler is preemptive. That the requests
  inside them end is what `HostClient` looks into: they do, except for the wait
  for an encrypted answer, which is retried on each timeout
  (`StuckOnlyBySilence`). `HostProbe` and `PairingAttempts` have that wait as a
  stage, and no fairness for leaving it (`OnItsOwn`): `RoundsEnd` says that a round
  ends or a worker is held for ever; `AttemptsEnd` says of cancelled attempts that
  they end, because the wait looks at their flag, and of joins that only an attempt
  nobody cancelled, or a status query, can hold them (`JoinHeld`).
- *Requests* (`Client`, `Asking(Request)`): weak fairness of the client's own
  steps, time limits included; the host (`Network`, `HostAlone`) need not answer.
- *Shell loop and main thread* (`Loop`, `Finish`, `Renderer`, `Cleanup`): weak
  fairness; they poll and never block except in joins. In `StreamAudio` `Starting`
  and `Streaming` are strongly fair: the main thread draws once in each turn of
  its loops, and may not draw for ever instead of looking at the loop's condition.
- *Joins* (`EndJoin`): weak fairness; `SDL_WaitThread` returns when the
  thread has ended. That threads end is not assumed but follows from their steps.
- Not fair: anything the user does, packets of the host, losses, failures. A
  waiting decoder gets a unit only if the host sends one.
- The other modules state no fairness: they have safety properties only.

## Proofs

Eight modules hold proofs, for every value of the constants: any finite set of
hosts in `HostProbe`, any sets of hosts, attempts, titles, certificates and apps
elsewhere, any number of ports, paths, units and sessions, any choices and video
modes, any timers of the input, any number of art files and log lines. The
assumptions are the named `ASSUME`s of the modules: model values are distinct, bounds
are natural numbers (`Longest`, `MaxUnits`, `MaxSessions`, `Limit`, `MaxSample`) or
positive ones (timers, ports, paths, log lines), the first repeat takes no less time
than the next, `Host` of `HostProbe` and the art files are finite, the host offers some
app, lists of choices are not empty.

All safety properties of the passing runs are theorems. A proof module extends the
modules it is about; two of them may share one where their names are apart (the
specifications are then called `Spec` and, for instance, `ClientSpec`).

| Module, about | Inductive invariant | Theorems |
|---|---|---|
| `HostProofs`: `HostProbe` | `RoundInv`: workers are the unjoined threads; pending answers come from workers that published; the counters are the numbers of targets and publications | `TypeCorrect`, `RoundCorrect`, `EveryAnswerIsTaken`, `IdleQueue`, `ResetsAreSafe`, `ImplementsRound` |
| `HostProofs`: `HostClient`, `HostRequests`, `GameHost` | `ClientInv`: every operation under way waits for a request of its own (`Asked`); what the client was told is backed by what the host did (`Heard`); how far a pairing has come tells what the host accepted, and the last request expects the certificate of the first (`Proven`) | `ClientInvHolds`, `ClientTypeCorrect`, `PairingGranted`, `StatusAnswered` |
| `ShellHostsProofs`: `ShellHosts` | page, snapshot, file, attempt and screen together | `TypeCorrect`, `PageMatchesFile`, `PageCovers`, `AttemptIsCurrent`, `PagesHoldTheirHost`, `Losses` |
| `PairingAttemptsProofs`: `PairingAttempts` | every thread has its owner, a success was accepted; `AgreeInv` (below) | `TypeCorrect`, `ThreadsAreOwned`, `ActiveIsCurrent`, `SuccessIsReal`, `IdentityIsShared` |
| `AppsPageProofs`: `AppsPage` | `Core`: every record is *sound* for its host (lists only its apps, flags only art with a file), and so are answers on their way. `AgreeInv`: page and snapshot list the apps the file lists, except of a host that was found unpaired and is not asked any more | `TypeCorrect`, `ListsBelong`, `FlagsBacked`, `LoadingFetched`, `SlotsAreHeld`, `AgreeInvHolds`, `AppsAreRemembered` |
| `ClientScreensProofs`: `ClientScreens`, `GridMoves` | `ScreensInv`: each index fits its list, pages and modals have the host they are about, and the host the user worked with is where it is found again (below) | `ColumnMovesStay`, `HostRowMovesStay`, `AppRowMovesStay`, `KeypadRowMovesStay`, `ScreensInvHolds`, `TypeCorrect`, `IndicesInLists`, `SelectionComesBack`, `TargetStays` |
| `SettingsProofs`: `SettingsPage`, `MenuModel` | `PageInv`: both menus have the rows of the category and a selection in range, a confirmation has its target, the log viewer an offset in the file, and what is listed is on disk (`Shown`, `ListedOnDisk`) | `PageInvHolds`, `TypeCorrect`, `RowsAlwaysMatch`, `NoFileGone` |
| `SettingsProofs`: `SettingsFile` | types and `SettingsSurvive` | `RoundTrip`, `FileTypeCorrect`, `InUseSurvives` |
| `ShellInputProofs`: `ShellInput` | `InputInv`: a direction that moved less than a pause ago is held or waits for its release (`Paced`); what was held when the page changed is waited for; a combination under way was armed and its buttons count as pressed | `InvHolds`, `TypeCorrect`, `ChoicesWait`, `PressedDown`, `Pacing`, `CombinationSilent` |
| `StreamProofs`: `StreamVideo` | `VideoInv`: each queued unit follows its predecessor, the three buffers are apart, versions order the frames | `TypeCorrect`, `VideoCorrect`, `NoUnitLeaks`, `ReferencesAreThere`, `BuffersAreApart`, `VersionsTellNewer`, `ScreenGoesForward` |
| `StreamProofs`: `StreamSession`, `StreamAudio` | `SessionInv`: positions of the three threads, the connection and the flags; `AudioInv`: the device between the calls that open and close it | `SessionTypeCorrect`, `SessionCorrect`, `CallbacksAreSafe`, `ResourcesAreHeld`, `InputIsSafe`, `WaitIsBounded`, `EndIsReal`, `StopHolds`, `AudioKeepsSession`, `SoundIsCurrent` |

Why invariants stronger than the properties are needed: that no answer is lost
says nothing about the counters that decide the end of a round; that a unit's
reference is there depends on every unit still queued before it; that flags have
files holds of the saved record only because it holds of the snapshot it is saved
from and of the answer that was merged into it. The argument is always the same:
`Init` gives the invariant, each action keeps it (one case per action), the
property follows from it. Each invariant was checked by TLC on the instance of its
run first.

`IdentityIsShared`: `settled` tells that no access to an identity file has failed (a
reset that left one behind included), that no two uses of the identity overlapped,
and that the user did not delete a single file of it while hosts were paired. The
code keeps the hosts in each of those cases (`saved_files.cpp:239`,
`shell_screen.cpp:2392`), so nothing can be promised after them. Until then, at most
one attempt makes or loads the identity (`OneUser`), the file is whole
(`FileIsWhole`) or being replaced by that attempt, what an attempt has loaded or saved
so far is of the file (`LoadedSoFar`, `SavedSoFar`), no host is paired while there is
no complete identity (`NonePaired`), the host of an attempt that succeeded has
accepted it (`ActiveAgrees`), and a status query presents the one on file
(`QueryAgrees`), so that a host it marks paired has accepted that one. Their
conjunction `AgreeInv` is inductive.

`AppsAreRemembered`: any save writes all that is held, so a record that differs from
the file without need would be carried into it by a save about something else. That
this cannot happen is not plain: a status without a list changes records and is not
saved (`shell_screen.cpp:3199`: only a list that came is followed by a save). It is harmless
because such a change only clears a host that is not paired, and no fetch for that
host can be under way then which would make it paired again with nothing listed:
there is one slot, and fetches start for a paired snapshot only.

`PairingGranted` and `StatusAnswered`: the certificate of the first phase, the pairing
secret and the last request under TLS are each checked at a different step, and the
host may change its certificate or forget the client in between. The invariant says
of each step what the answers so far have shown of the host.

`SelectionComesBack` and `IndicesInLists`: the commands are followed handler by
handler. `Leads(s, r)` says what any handler called on a good page `s` may answer
with: a good page, a request about a host, and, when the list of hosts was left, the
selected host remembered (`Follows`). The results of tasks change records in place
(`Marked`), the apps of the page only (`AppsOnly`), or add and reload hosts and look
for the remembered one. Clamping an index to a list and restoring it by name are
lemmas of their own, as are the moves in grids and menus.

`RowsAlwaysMatch`: two menus are rebuilt in different orders by many commands; lemmas
about `MenuModel` say that moving, selecting and replacing rows keep the selection on
a row, and each command is one case.

`Pacing` holds of any pauses because the hold keeps the time of the last move and the
poll compares with it; the invariant is about what the model's history knows and the
code's timer knows: the timer is never ahead. The history of a direction starts afresh
in two cases only, which are exceptions of the code: the direction is let go (its
button goes up, or the stick is centred), and then pressed or tilted again moves at
once (`shell_screen.cpp:2007`); its opposite is pressed, which clears its hold (1945).
Other buttons, keys, commands and streams leave it alone: a command that clears the
holds waits for all directions to be let go.

`SoundIsCurrent`: the queue of the device is bounded, and not empty only while sound is
enabled, the device open and its connection there; the device plays only between start
and stop. After the stop samples may still be queued to the paused device, and the
cleanup clears them.

`SettingsSurvive` is inductive given the types: a save that succeeds is read
back as it was written (`RoundTrip`), and detecting the video modes changes the
mode only. `AudioKeepsSession` shows that each step of `StreamAudio` is a step of
`StreamSession` or none, so that the session's invariant carries over. The refinement
theorem `ImplementsRound` maps each step of the loop and the workers to a step of
`ProbeRound` or to none.

Some theorems state what no run checks by itself: all `TypeCorrect`, the grid and row
moves, `RoundCorrect`, `EveryAnswerIsTaken`, `IdleQueue`, `PagesHoldTheirHost`,
`ActiveIsCurrent`, `InputIsSafe`, `WaitIsBounded`, `BuffersAreApart`,
`VersionsTellNewer`, and the invariants themselves.

Only model-checked are the liveness properties `RoundsEnd`, `AttemptsEnd`,
`StuckOnlyBySilence`, `FramesRendered`, `StopEnds` and `SessionEnds`: they rest on
fairness, which is beyond these provers. So is what recursive definitions over data
compute; the modules that are proved about have none.

The proofs led to changes in the models. In `ShellInput` two cases of a `CASE`
overlapped, which TLC resolves by order and the semantics does not; they are nested
conditions now, as in the code. `CASE`s that rely on no other value to occur, in
`HostClient`, `SettingsPage` and `ClientScreens`, say so. `ClientScreens` has the bound
`Longest` on the list of hosts instead of the number of hosts; an app is toggled by
its index, as the code does, and visible apps are a set of places, so that
nothing depends on apps being distinct.

## Disagreements with the code's own words

`saves_keep_hosts` ends with a counterexample, and `PROJECT.json` quotes the line
that promises otherwise: the save at exit writes the unloaded, empty list over the
hosts file when another page is open and the list is dirty (`main.cpp:296`); so
does a refresh that ends on the settings page (`shell_screen.cpp:2136`).

The modules keep further statements of this kind at their ends. TLC finds a
counterexample to each when it is given as a property; no run repeats them:

| Statement | What happens |
|---|---|
| `AppsPage!ThreadsJoined` | a task that completes between the finish and the start of one pass is reset without a join and its result is dropped (`shell_screen.cpp:3234`) |
| `StreamVideo!PresentsFrame` | a failing start cleans the video backend up on its own thread while the main thread presents a frame (`ffmpeg_stream_backend.cpp:603`) |
| `StreamAudio!AskedDeviceIsOpen` | the same of the audio device, which the main thread asks for its queue (`session.cpp:1361`) |
| `StreamAudio!ReadyIsReady` | after a resampler could not be initialised, a frame of the format before finds it "ready for audio conversion" (`ffmpeg_stream_backend.h:170`), and no conversion succeeds until the format changes again |
| `HostClient!AppListIsWhole` | a list of apps that was cut off by the end of the connection counts as retrieved (`host_pairing.cpp:1609`) |
| `HostClient!RequestsEnd` | a silent host under TLS holds a request beyond its time limit (`host_pairing.cpp:1616`) |
| `SettingsFile!ModesStay` | a factory reset forgets the video modes that were detected at boot; the row for the resolution has no choice until a restart (`shell_screen.cpp:2398`) |

## Hazards without a property

`PROJECT.json` lists the hazards at their lines. Met while modelling and not
listed there, for want of a property that a run could check:

- A cancelled attempt saves its new identity over that of its successor
  (`shell_screen.cpp:2740`), or after a factory reset (2387); `IdentityAgrees` excepts
  overlapping uses. Deleting one identity file on the settings page keeps the hosts
  paired (`saved_files.cpp:239`).
- A host may accept a pairing whose last answer is lost; the attempt then fails and the
  host counts as not paired until a status query says otherwise
  (`host_pairing.cpp:2369`).
- A snapshot that outlived its page brings a removed host back into the file
  (`shell_screen.cpp:2134`, in the list), and a host added while the list is not
  reloaded yet is dropped (`client_state.cpp:2343`); `LossesAreRequested` rules
  losses out only while the page or a snapshot is held.
- Deleting a cover-art file leaves the saved flag set (`shell_screen.cpp:2296`);
  `FlagsHaveFiles` excepts deleted art. An image that was written in part is never
  fetched again (`cover_art_cache.cpp:131`).
- The hold time of the exit combination counts from the press, on whatever page it
  was made, and is looked at before the events of the frame: the shell may leave
  after a release (`shell_screen.cpp:4026`), although the log says the buttons were
  held on the hosts page (4032).
- Input state is not reset after a stream: a button let go while the stream had
  the pad counts as pressed until it is pressed and let go again
  (`shell_screen.cpp:4464`); `PressedAreDown` excepts these.
- The result of a connection test marks the host that is selected by then
  (`client_state.cpp:1538`). The endpoint key of a removed paired host is built from
  its saved port, the key that clears it from the one in use (219).
- A hosts file that cannot be read counts as no hosts (`main.cpp:180`), and the
  next save overwrites it.
- The name of a host is read for a log line after the list that holds it was
  unloaded (`shell_screen.cpp:2877`).
- When the shell cannot be set up again after a stream, the loop ends and tasks
  are joined a second time (`shell_screen.cpp:4595`).
- The log viewer splits a line end that falls on the buffer boundary
  (`log_file.cpp:131`).
- The mDNS collector lives on the stack of `discover_hosts` and is reached by
  callbacks (`host_discovery.cpp:456`).

## Assumptions

About code outside `src/`:

- The streaming library: `LiStartConnection` always returns, with 0 only after
  the connection-started callback; callbacks come only between its call and its
  failed return or `LiStopConnection`; it tears the stages down itself on failure,
  the audio stream only if its initialisation succeeded; samples come after the
  audio start callback; a wake-up of a waiting decoder is remembered; completing a
  unit with `NEED_IDR` drops units up to the next IDR.
- The decoder gives at most one frame per unit, or per sample of sound; so the branch
  that drains frames to make it take a packet again is not modelled
  (`ffmpeg_stream_backend.cpp:960`).
- An answer that has begun to arrive ends: it is complete, cut off or times out. A host
  that sends its answer byte by byte for ever, in plain, would hold a request too
  (`host_pairing.cpp:1566`).
- A host of `PairingAttempts` either accepts a client or not, and keeps its
  decision; the host of `HostClient` may forget clients, change its certificate and
  restart a pairing session at any time.
- SDL samples the pad when events are pumped, so that events and the poll of one
  frame agree. No event is lost but those a stream takes.
- The file system writes a file from its start: a torn write leaves a prefix.

About data:

- `AppsPage`: equal content hashes mean equal lists; a host on the apps page is not
  offline; writing the hosts file succeeds there (`ShellHosts` covers failures).
- `ShellHosts`, `ClientScreens`: a host is an endpoint; two records with the same
  endpoint are one.
- `HostClient`: a key, hash or signature is "of this certificate" or not.
- `ShellHosts`, `StreamSession`: the exit combination is "the user leaves" or "the
  user stops the stream"; its timer is in `ShellInput` for the shell and not
  modelled for a stream.

## What is not modelled

- **Rendering of the shell, splash drawing, text formatting**: output that no
  other part reads.
- **Host records**: parsing and serialising single lines is data without control;
  `ShellHosts` takes a whole file for its hosts and knows torn ones.
- **Runtime network, platform layer**: set once at startup or wrappers without
  state of their own. Enumerating video modes and memory reports likewise.
- **mDNS collector** of the discovery, the **ring of the logger** (one lock around
  every call) and the **startup thread** against the splash screen: small pieces
  whose results the other modules take as open choices.
- **In a stream**: controller packets, the exit-combo timer, bitrate and
  statistics.
- OpenSSL, lwIP, SDL, FFmpeg and the streaming library are external.

## Plan

What is left, in this order:

1. Proofs: of the abstractions between the modules, that `PairingAttempts` keeps of a
   pairing what `HostClient` does, and that `ShellHosts` covers what `AppsPage` does to
   the saved hosts; the safety part of `RoundsEnd` and `SessionEnds` (what is true as
   long as an end is outstanding).
2. `HostDiscovery`: collector, callbacks and the end of the search.
3. `Startup`: startup thread and splash, unreadable hosts file, and the shell's
   re-entry after a stream.
4. `Logger`: bounded ring, sinks and levels under the lock, line splitting.
5. The composition of `StreamVideo` with `StreamAudio`, whose failing start is
   the step both share.
