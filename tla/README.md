# Kiosk monitoring: models of patch deployment and remote control

This directory holds TLA+ modules for the Kiosk Monitoring Solution, the TLC
configurations that check them on small instances, and theorems about them with
proofs for TLAPS. File and line numbers are relative to the repository's root.

A **server** (`MonitoringBackend`) sends patches, file jobs and health requests
over MQTT to an **agent** (`SFTPService`, a Windows service) on every kiosk
("branch", "terminal"), and records what the agents report in a SQL database.
Patches and files travel over SFTP. A Blazor **front end** shows the state of
the branches and lets an operator take over a kiosk: the page loads a script and
a noVNC client, which speaks VNC through a WebSocket proxy.

Two parts are modelled. The deployment of a patch decides whether a kiosk works
at all the next morning. Remote control is what the operator is left with when
it does not, and most of the program's JavaScript; it is event handlers, timers
and a byte stream, which tests by hand reach least.
noVNC comes from outside, but it stands in the tree as source that the page
loads file by file, and what the page may rely on (does a disconnect event
always come, which keys stay down, does the picture go on) is decided in it.

## 1. Inventory

| Part | State | Operations | Interacts through | What is hard | What makes it correct |
|---|---|---|---|---|---|
| Agent: `PatchService` | application, update, backup and download folders; processes; restart scripts | one run of `ApplyPatchAsync` per request: download, validate, extract, stop, backup, update, start check, verify, clean up, complete; rollback | SFTP, MQTT `server/<b>/PATCH/Status`, file system, processes, PowerShell | power loss and service stop between two files; a rollback that fails; deployments side by side over the same folders; lost reports | a verdict is true and unique; the old version is never lost; files are replaced only while nothing runs |
| Agent: `Worker` | MQTT subscription, loops for health and CDK status | a task per message; `StopAsync` | MQTT `branch/<b>/#` | tasks are neither serialised nor awaited | a stop does not lie to the server |
| Agent: `SftpFileService` | pool of connections, local files | download with resume, chunked download, upload, delete | SFTP, MQTT | resumed and cut files, pool limits | an archive taken as complete is complete |
| Agent, server: `MQTTHelper` | client, subscriptions, reconnect flag, health timer | init, publish, subscribe, reconnect | broker | silent loss, clean sessions, reconnect loops that end | connected again whenever the broker is up |
| Agent: performance, CDK status, SQLite | last readings | periodic reports | MQTT | overlapping loops | the last state arrives |
| Server: `PatchesController` | rows `PatchAssignBranch`, `Job`, `NewPatch` | deploy to one branch, to all, schedule; upload of chunks, cancel | database, MQTT | check-then-act without a unique index; publication before the save | a row per branch and patch; a row tells what the branch did |
| Server: `MqttWorker` | same rows, terminal status, jobs | one handler per topic, a task per message, a semaphore | MQTT `server/#`, SignalR | reordered, replayed and lost messages | the last report wins; no verdict is invented |
| Server: `SchedulerService` | same rows | poll, mark, send, expire | database, MQTT | jobs beside each other, users and reports; boundaries of time | what is scheduled is sent in time or failed |
| Server: `SFTPFilesController` | `Job`, chunk files | jobs for upload, download, delete; chunk upload and cancel | MQTT, file system | the answer before the job is stored; cancel against merge | a job ends with the answer of the branch |
| Server: `BranchController`, `HealthController`, `UserMangmentController`, `AuthController`, `RemoteController`, `BranchHub` | branches, users, SignalR groups | single reads and writes, relays | HTTP, SignalR | terminal status written by several handlers | the status shown is the last one known |
| VNC proxy | two sockets | dial, copy both ways | WebSocket, TCP | it accepts before it dials and need not answer a close | both sides end together |
| Remote control page, `vnc-interop.js` | the global `rfb`, captured .NET references, spinner, button, screens | connect, disconnect, password, special keys, view-only | JavaScript interop, events of RFB | events of a session that was replaced; pages left and opened again | the page shows the session there is, and a session always ends on it |
| noVNC: session and handshake (`rfb.js`) | connection state, handshake state, timers | one case of `_initMsg` per message; credentials; close | WebSocket, events | handlers that loop over what is queued and may dispatch events on the way | it ends, and says so once |
| noVNC: input (`keyboard.js`, `gesturehandler.js`, `events.js`, `rfb.js`) | keys believed down, AltGr, pointer capture, mouse timer, gesture machine | one handler per browser event and timer | DOM events, key and pointer messages | systems that report keys in pieces; timers against releases; a release that is not seen | the kiosk holds what the operator holds |
| noVNC: messages, decoders, screen (`rfb.js`, `websock.js`, `decoders/*`, `display.js`) | receive queue, position, rectangle, decoder state, render queue, size requests | one handler per message and rectangle | bytes, promises of pictures, observers | messages cut anywhere; pictures decoded later; one update asked for at a time | handled once, in order, and in the end shown |
| Front end: other pages | pages | calls, subscriptions | HTTP, SignalR | reconnect | none of its own |

`PROJECT.json` lists the same parts with what is modelled of each ("components")
and the hazards with the line where each one bites ("hazards").

## 2. Modules

```
DeploymentReports            what a branch promises about its reports
   ^ implemented by             ^ used as the branch by
PatchAgent                   PatchRows            rows, users, report handlers
   ^ theorems about             ^ extended by        ^ theorems about
PatchAgentProofs             Scheduler            PatchRowsProofs
                                ^ theorems about     ^ extended by
                                        SchedulerProofs

RemoteSession                page, script, sessions, handshake, proxy
   ^ theorems about
RemoteSessionProofs
RemoteInput                  keyboard, mouse, touch of a connected session
   ^ theorems about
RemoteInputProofs            gestures; keys, locks, buttons, pointer
RfbDisplay                   the screen
   ^ extended by
RfbStream                    bytes, messages, rectangles, decoders
   ^ theorems about
RfbDecodeProofs              sequences, screen, decoders; extended by
RfbStreamProofs              messages, updates, the whole
RfbResize                    the size of the operator's window
   ^ theorems about
RfbResizeProofs
```

`MC*.tla` and the `.cfg` files give the instances. The four modules of remote
control meet at the state "connected": `RemoteSession` says when a session is in
it and how it leaves it, the other three what happens while it lasts. None of
these ends or begins a session, and `RemoteSession` only sees of them that
messages are read; the state of input, stream and sizes is made anew by every
RFB object, so nothing else passes between them. `RfbStream` and `RfbResize`
share the rectangles that carry a size: the first reads them byte by byte and
resizes the screen, the second handles each whole and says what else it sets off.

### PatchAgent

One value of `Deployments` is one request, so one run of `ApplyPatchAsync`;
`pc[d]` is the call it has reached, `todo[d]` the files its present loop has not
treated. The variables `zip`, `update`, `app`, `backup`, `kept`, `running` and
`restart` are shared by all runs, as the folders, processes and scripts are.

* A folder is a function from files to versions. Copies and deletions go file by
  file (`UpdateFile`, `BackupFile`, `RollbackDeleteFile`, `RollbackCopyFile`),
  so that anything may come between two of them; a copy that fails leaves the
  file as it was or damaged (`UpdateFails`, `RollbackGivesUp`).
* A download leaves the archive of its patch absent, partial, of the full length
  but wrong, or good. A file of the full length is not fetched again
  (`SftpFileService.cs:354`). A missing remote file and a stream that ends early
  return normally, as in the code; the checksum is there to notice.
* `service` follows a stop: `Worker.StopAsync` disconnects MQTT first
  (publications are lost from then on) and then cancels the token. The tasks of
  deployments are not awaited, so they run on until the process exits. With a
  cancelled token only the delays throw, and only then does the outer `catch`
  run (`Throw`). The rollback written in it is never reached: its own
  `Task.Delay` on the same token throws first.
* A stop in the middle of the update makes the update fail, so the rollback
  deletes the whole folder and then throws on the cancelled token: the folder is
  left empty and only the backup holds the old version (`NothingLost` allows
  just that).
* `PowerLoss` and `Reboot` interrupt every run. Nothing resumes an interrupted
  deployment. The applications start with Windows.
* The backup folder's name has a resolution of one second; two backups in one
  second are not modelled. The order in which old backups are deleted is that of
  their creation, where the code takes the last write to the folder.
* Left out: the IN_PROGRESS reports (nothing here depends on them), log files,
  subdirectories, the 100 % figure.

### DeploymentReports and the refinement

`DeploymentReports` says what the server can count on: at most a report of the
download, then at most one verdict, each possibly lost. `PatchAgent` implements
it with `reportStage` computed from `pc` (property `KeepsReportOrder`, theorem
`ReportsImplemented`). `PatchRows` uses it as its branch, so that what is shown
of the server holds of every branch that keeps the promise.

### PatchRows

The rows of one branch, and the tasks that work on them: web requests
(`DeployBranch`, `DeployAll`, `Schedule`) and the handler of a report
(`ReceiveReport`, `ReportRead`, `ReportSave`). A task reads its row, keeps what
it has read (`seen`), and saves what it made of it; Entity Framework writes only
the columns that differ from what was read (`Merged`), which is what a save
does to a row that has changed in the meantime.

* `FirstOrDefaultAsync` without an order may return any matching row (`AnyOf`).
* Deploy-all sends the request before the row is saved, a single deployment
  after it. A deployment is counted as new from its save.
* A restarted row keeps `IsDownload` and `IsFinalized` of the run before.
* Scheduling a patch that already has a row resets it to INIT and to the present
  time and sends nothing, as in the code, so it is never sent.
* The broker keeps the last report with the retain flag, one per branch; every
  `Resubscribe` delivers it again and, as the session is clean, drops what was
  under way.
* Of the progress reports only IN_PROGRESS/DOWNLOAD reaches the table.
* Rows of different branches do not meet, so one branch is enough.
* `Overlapping` says of which kind, requests or reports, two tasks may run side
  by side; the server serialises neither. `crossed` is a ghost: the patches for
  which two deployments were about to insert a row at the same time, and those
  whose report taken last found another one on the patch being treated. The
  properties except these patches instead of ruling overlaps out.
* Left out: the job log, texts and percentages, SignalR.

### Scheduler

Extends `PatchRows` with the loop (`Poll`, `Launch`) and its jobs (`Lookup`,
`Mark`, `PatchEror` as the source spells it, `Process`, `ProcessSkips`,
`Publish`, `Update`). A job is started with the branch's id, so its lookups find
any row of the branch. `db.Update` writes the whole row as it was read. Neither
the online test nor the archive test reads state that is modelled, so
`ProcessSkips` may happen at any time.

### RemoteSession

A session is one RFB object, numbered in the order they are made; `rfb` is the
script's global of that name. `page` is the open page and what it shows, and a
session remembers the page its listeners captured (`owner`).

* The browser has one thread. A handler of one step is one action. The loop of
  `_handleMessage` over `_initMsg` takes an action per message, and `running`
  keeps every other event away until it returns (`Return`, `Continue`); `once`
  says that `_resumeAuthentication`'s timer entered it, which makes one pass.
* The handshake is complete: the protocol versions, the security types, the two
  that wrap others (Tight, VeNCrypt), credentials that are asked for and come
  later, the security result with and without its reason, initialisation.
* `stale` is a ghost: the disconnect event of a session cleared the `rfb` of the
  session that had replaced it (`vnc-interop.js:127`). It marks the one way in
  which the page loses a session, and the properties name it.
* A timer of 0 ms of a session that is no longer the current one is taken to run
  before the operator's next click.
* Left out: the repeater, what RA2, ARD and MSLogon compute (RA2 ends in the
  `TypeError` of `approve()` anyway), and a user name, which the page never has;
  the sockets of sessions that have reported their end.

### RemoteInput

`user` is what the operator's hands do, `io` the input side of the RFB object
and the kiosk's side of it (`down`, `caps`, `buttons`, `at`), `g` the gesture
machine. An action is one browser event or one timer with its whole handler.

* A `setup` is a computer: platform, how its browser names keys, the keys used,
  whether the server takes scancodes and reports its LEDs. Which events a system
  makes of a key (AltGr as two keys on Windows, no keyup beside Meta on macOS,
  one of two Shifts, Japanese keys without a keyup) follows the comments of the
  source, which are the only description the repository has.
* Ghosts: `left` (keys down when view-only was switched on, whose release is not
  sent), `strayed` (a key let go of while the page, not the canvas, had the
  focus), `unseen` (a button let go of outside the canvas, uncaptured),
  `io.muted` (the last pointer message was dropped in view-only). The properties
  except these and nothing else.
* A pinch leaves out the lock's argument of `_handleKeyEvent` (`rfb.js:1432`).
  `undefined` is not `null`, so each pinch toggles the kiosk's CapsLock once its
  state is known: `LockFollows` has to except it.
* NumLock takes the same steps as CapsLock, the wheel's X axis the same as Y. The
  page neither drags nor clips the viewport. The QEMU extension is not switched
  on in the middle of a session. The distance between two taps is abstracted.

### RfbStream, RfbDisplay

A byte of a field is a cell, and the first cell of a field carries what the
field says. The server lays messages out by the protocol (`Body`, `Bytes`); the
client takes what its code counts (tiles, palettes, compact lengths, padding),
so that a wrong count meets the wrong cell. `Arrive(k)` cuts the bytes anywhere.

* `pc` says where the handler of a websocket message stands; from "idle" the
  browser may deliver anything, from elsewhere the handler goes on. A handler
  that lacks bytes puts back what it read and returns, or keeps its place in the
  state of the decoder, as the source does in each case.
* `RfbDisplay` is the back buffer (the sequence of pieces drawn), what of it is
  visible, and the render queue with the pictures that are awaited.
* Ghosts: `skipped` (a message left bytes behind), `hollow` (an update without
  rectangles came while the screen was being drawn and is not asked for again)
  and `smeared` (a queued blit copied the front of its buffer, `display.js:400`).
* Abstracted: the contents of pixels and of compressed data (inflate gives a
  result or fails), a depth of 24 only, the cropping of the picture when the size
  changes. The receive buffer is unbounded: the exception at
  `MAX_RQ_GROW_SIZE` is not modelled. Nor are the limit of 64 contexts of H.264,
  an empty zlib rectangle, a VMware cursor of unknown type, and a viewport that
  is clipped (the page never clips). View-only is fixed per server.
* The server's side is an environment: it answers an update request with one
  update, and ends continuous updates once. What its
  messages may be is `ServersAssumption`, the rules of the protocol
  (`MessageOK`): an update has the rectangles it counts, or ends with a
  LastRect; compressed data is not empty; a palette has colours and pixels; a
  hextile tile without content does not follow a raw one; frames of H.264 come
  with a key frame; a JPEG file ends at its first end marker; the clipboard is
  as long as its action says.

### RfbResize

`window` is what the page's screen element measures, and that is two things. Its
`box` (`getBoundingClientRect`) is in units of which a pixel has several, as
zooming, display scaling and percentages make fractions of a pixel; its `client`
size (`clientWidth`, `clientHeight`) is in whole pixels, rounded down or up.
`Exactly` is the comparison with the screen (`rfb.js:820`), of the box as it is;
`Fit` is the size asked for, `Math.floor` of it (`rfb.js:827`); `ClientSize` is
what is noted and compared when the observer reports (`rfb.js:712-731`).

* `fb` is the screen's size as the client knows it, `expected` the client size it
  has noted, `seen` the box the observer reported last, `frame`, `lately` and
  `timer` the animation frame, the 100 ms and the timeout under way, `pending`
  and `asked` the request. The element is hidden until the session is connected.
* A window of whole pixels is followed and left in peace (`AskingEnds`). With a
  fraction `Exactly` never holds: the screen gets the size down to a pixel
  (`WindowIsFollowed` is about `Fit`), and the client asks for it again after
  every grant, every 100 ms, for as long as the session lasts. No document of the repository
  denies it; it is the condition of `AskingEnds`, and a hazard.
* `lost` is a ghost: nothing will compare the sizes again, because the server
  refused, or set another size, or the change came in view-only, or the client
  size was noted already when the observer reported (by the animation frame of
  the change before, by a size from the server, or as two boxes may have the
  same), or the box came back to what the observer had seen.
* The timers may be early by the clock they are compared with (`lately` and
  `timer` end apart). A timeout that `_resizeTimeout = null` only forgets still
  fires (`rfb.js:815`).
* The server answers every request once; what it grants is the size asked for.
  It may also set a size at any time, with either message. `resizeSession` is
  always on (`vnc-interop.js:72`), and no scrollbars come and go, as the page
  does not clip.

## 3. What is checked

| Run | Checks | Shows |
|---|---|---|
| `PatchAgentSerial` | `TypeOK`, `SuccessMeansInstalled`, `FailureLeavesAppUntouched`, `RollbackRestores`, `NothingLost`, `OneVerdict`, `KeepsReportOrder` | what each verdict means, and that nothing is lost, with every fault between any two steps |
| `PatchAgentLive` | `DeploymentEnds`, `RestartCompletes` | no deployment hangs; a scheduled restart happens |
| `PatchAgentOverlap` | `ReportedSuccessInPlace` violated | two deployments at a time report a success that is none |
| `PatchAgentRollback` | `ReportedRollbackRestored` violated | "Rollback completed" is also said of a rollback that failed |
| `PatchRows` | `TypeOK`, `NoInventedVerdict`, `OneRowPerPatch`, `SettledRowShowsReport` | rows tell what the branch said; a second row takes two deployments that insert at once |
| `PatchRowsSkip` | `SkippedMeansDeployed` violated | a finished download counts as a deployed patch |
| `Scheduler` | `SchedulerTypeOK`, `SentInTime`, `LeavesSchedule` | nothing is sent early, and a due row does not stay scheduled |
| `SchedulerWrongRow` | `SendsTheScheduledPatch` violated | a branch with two rows gets the wrong patch |
| `RemoteSession` | `TypeOK`, `CurrentIsLive`, `LiveIsCurrent`, `ScreenMatchesSession`, `PasswordForAsker`, `SpinnerEnds`, `ButtonComesBack` | the page and its session agree, and the page always comes back |
| `RemoteInput` | `TypeOK`, `KeysHaveHolder`, `NoKeyForgotten`, `ButtonsAreHeld`, `PointerArrives`, `TouchStartsAfresh`, `LockFollows`, `LetsGo` | the kiosk holds no key or button that nobody will release |
| `RfbStream` | `TypeOK`, `HandledAsSent`, `OneUpdateUnderWay`, `EverythingIsShown` | every byte is taken for what it is, and the screen neither freezes nor lags for good |
| `RfbResize` | `TypeOK`, `OneRequest`, `ChangeIsNoticed`, `WindowIsFollowed`, `AskingEnds` | one request at a time, and the screen follows the window |

The four runs that end in a violation belong to the "findings" of `PROJECT.json`,
each of which quotes the line of the repository it disagrees with.

**Conditions.** The properties of `PatchAgentSerial` about folders are about
deployments that do not overlap (`Overlap = FALSE`: the operator waits for the
end of one before asking for the next); the code does not enforce this, and
`PatchAgentOverlap` shows what happens otherwise. `SentInTime` and
`LeavesSchedule` are about a branch with one row. `NoInventedVerdict`,
`OneVerdict` and `KeepsReportOrder` need none of this; the proofs cover them with
every overlap. `OneRowPerPatch`
and `SettledRowShowsReport` hold with every overlap too, of each patch that is
not in `crossed`: a row per branch and patch is not enforced by the database, and
of two reports treated at a time the older may be saved last. That a second row
does appear then, and that a row may keep the older report, is what the code does
and no document denies; both are hazards.

Three invariants are theorems without a run of their own: `FinalMeansJudged`,
`VerdictHasCause` and `StoppedWhileReplaced`. The last sees the applications that
the agent's own doings start, a boot among them, not one that somebody starts by
hand.

The properties of remote control carry their exceptions in their text, as ghosts
or as the condition the code fails under: a stale disconnect event (`stale`), a
server that wants a user name and is asked and answered for ever
(`AsksForever`), a clipboard that is not read (`skipped`), an update without
rectangles (`hollow`), a change of the window that nothing will look for
(`lost`). These are faults of the code that no document of the repository
contradicts; each is a hazard with its line in `PROJECT.json`.

**Bounds.** `PatchAgent`: two deployments of two patches (one replaces the
executable and adds a file, one replaces the library), three files, one backup
kept: enough for a second deployment to find what the first left (an archive, a
half-deleted update folder, a backup to prune), and for a mixture of versions to
be told from either. `PatchAgentLive` repeats one patch of one file, so that
everything is shared. `PatchRows`: two patches, two keys, two tasks, two
operations, two requests; `AttemptLimit` is 1 instead of 3 (a deployment is
repeated), and 0 in `Scheduler` (it starts afresh). The clock moves, but as rows
and entities only carry the time here, `MCView` takes states that differ in it
for one; where it matters, in `Scheduler`, it is seen. `Phases` is empty, as
`HandlePatch` treats the failures of all phases alike (`PatchRowsSkip` has one
phase, so that a failure behind the download occurs). `PatchRows` lets requests
overlap one another and a report; with reports that overlap as well the state
space is beyond what TLC finishes in minutes, and the theorems cover it.
`Scheduler`: one row, two jobs, two tasks, and a clock that passes the timeout.
Its requests are lost on the way (`MaxRequests` 0), so no reports come: the two
properties are about the status SCHEDULE, which a report may take away and never
sets, and `PatchesSentInTime` covers the reports; `SchedulerWrongRow` has them.
`MaxRequests`, `MaxOperations` and `MaxTime` are the only bounds on counters. A
request beyond `MaxRequests` is lost, which the code allows too.
`RemoteSession`: 32 surroundings that between them take every branch of the
handshake, two sessions and two visits, and a third session where a password can
reach another one's; a session differs from the next only by which of them `rfb`
is. `RemoteInput`: seven keyboards with the two or three keys a platform's
workarounds are about, a mouse of two buttons on two positions and the outside
of the canvas, screens of two and three fingers (more are ignored by the code);
`MaxWins` Windows keys and `MaxReports` LED reports under way. `RfbStream`:
thirteen servers of one to three messages whose rectangles are of the smallest
size that takes each branch (33 by 1 for hextile's three tiles, 65 by 1 for
ZRLE's two, 12 pixels for tight's compression). `RfbResize`: pixels of two
units, elements of one pixel, of two, and of one and a half, the last rounded
either way, so that two boxes share a client size and one box has two; one side
varies, as both are treated alike. `MaxWire` 2 bounds the sizes on their way that
nobody asked for; the window changes and view-only is switched without bound.

**Deadlock** is checked except for `PatchRows` and `PatchRowsSkip`, where the operations run out and nothing is left to do, for
`RemoteSession` and `RfbStream`, where sessions, visits and messages do.

**Fairness.** `FairSpec` of `PatchAgent`: each task goes on (the thread pool),
a launched script stops the service and, since the service may be started again
in between any number of times, reboots strongly fairly; a cancelled process
exits. Faults, users and messages are never fair. `FairScheduler`: the loop and
its jobs go on (both swallow exceptions and have no other way to stop), and the
database does not fail on every attempt there ever is (strong fairness of
`Lookup`, `Mark` and `PatchEror`, the alternative being `JobThrows`).
`FairSpec` of `RemoteSession`: the browser runs what is due, the proxy's dial
ends (ten seconds, `VncWebSocketProxy.cs`), a broken connection is noticed, and
the VNC server answers or goes away; that the proxy answers a close is not
assumed, the timer of three seconds is there for that. `FairSpec` of
`RemoteInput`: the timers of the browser run. `FairSpec` of `RfbStream`: handlers
run to their end, the network delivers and the browser decodes its pictures.
`Spec` of `RfbResize`: the browser draws frames, reports sizes and runs timers,
and the server answers requests for a size; that the window stays as it is, and
that nobody else sets sizes, is assumed in the properties that need it. What
operators do is never fair.

Every property is known to fail under a plausible bug: "mutants" in
`PROJECT.json` names for each a changed definition, which stands beside the
original in the module.

## 4. What is proved

`PatchAgentProofs` proves, for any number of deployments, patches and files
(from `PatchAgentAssumption` only):

* `TypeCorrect`: `TypeOK`.
* `ReplacedOnlyWhileStopped`: the processes are stopped from the check of the
  second one on; the invariant is kept per deployment, and nothing but a boot,
  which ends every deployment, starts a process.
* `VerdictIsUnique`: a deployment that has not reached a delay has published no
  verdict (`VerdictInv`); behind the delays only `Throw` reports, and it is
  possible only when the service is cancelled, where `Publish` sends nothing.
* `ReportsImplemented`: every step of `PatchAgent` is a step of
  `DeploymentReports` or leaves its variables alone.

For deployments that do not overlap (`ASSUME ~Overlap`), `SuccessIsTruthful`,
`FailureIsHarmless`, `CompletedRollbackRestores` and `NothingIsLost` follow from
one inductive invariant, `SerialInv`: at most the deployment received last is in
flight (`Alone`); for each point of the pipeline, what the folders hold and what
is still in `todo` (`Phase`); and `NothingLost`, which has to be carried along
because it must hold when a run is cut off, and no phase is left to say so.

`PatchRowsProofs` is about `PatchRows`, for any number of rows, patches, tasks,
requests and operations (from `PatchRowsAssumption`, whose last conjunct only
says that `None` is none of the values it stands beside). Web requests and
reports may overlap in any way unless a theorem says otherwise:

* `RowsTypeCorrect`: `TypeOK`.
* `VerdictsAreHeard` (`NoInventedVerdict`) and `FinalIsJudged`
  (`FinalMeansJudged`) follow from `RowsInv`: the row a task has in hand is in
  the table and is of the patch the task is about, and a deployment brings no
  verdict and no final mark of its own (`HeldInv`); every report that is held,
  queued or retained was published, of a request that was sent (`CarriedInv`);
  and each row is true by itself (`RowsTrue`). A merged save takes each column
  either from the row or from the entity, so it is enough that both are true;
  what was heard stays heard, because nothing sent or published is withdrawn
  and no row changes its patch (`Grows`).
* `OneRowEach` (`OneRowPerPatch`), whatever runs side by side: a second row
  takes two deployments of the patch that have both found none and not yet
  inserted one. Of a patch of which this never happened, at most one deployment
  is about to insert, and while it is, no row is there (`OneInserts`). As there
  is one row at most, the newest row, which deploy-all looks for, is the one
  `PatchdeployBranch` finds.
* `SettledRowsShow` (`SettledRowShowsReport`), whatever runs side by side, for a
  patch whose last report was not treated beside another one on it and that has
  no crossed insertion (`Alone`). The invariant follows the last report on a
  patch on its way (`Newest`): while any report on the patch waits, the last one
  stands behind them (`Last`); else, if `Alone`, it is the one being treated, or
  the row shows it (`Shown`). Which report was last has to be known whether the
  patch is alone or not, because a later report may end its being crossed. A task
  that saves the last report saw in the row the status it still has, or the save
  would leave the status out as unchanged. The report the broker retains is the
  last one on its patch or that one is forgotten (`RetainedInv`), which is why a
  replay undoes nothing.

`SchedulerProofs` extends both `Scheduler` and `PatchRowsProofs`, for any number
of jobs:

* `SchedulerTypeCorrect`: `SchedulerTypeOK`.
* `VerdictsHaveCauses` (`VerdictHasCause`): `Update` writes back a whole row as
  it was read, so what a job holds needs a cause as well as the row does
  (`JobsInv` in `CauseInv`). The steps of the server's own tasks keep the facts
  of `PatchRowsProofs`, those of jobs are shown to.
* `PatchesSentInTime` (`SentInTime`), with one row: from the moment the loop has
  found the row due it stays due (`DueInv`), as no deployment has a later start
  in hand (`PlanInv`); a job past its check finds the row unscheduled whatever
  users save beside it (`PassedInv`).

`RemoteSessionProofs` is about `RemoteSession`, for any number of sessions and
visits and any set of surroundings (from `BoundsAssumption` and
`EnvironmentsAssumption`). The inductive invariant `IInv` is the conjunction of
three properties: an event finds the session it must clear only because `rfb`
is live (`CurrentIsLive`), and a session that becomes live does so only as `rfb`
(`LiveIsCurrent`), each needing the other and the types.

* `TypeCorrect`: `TypeOK`.
* `CurrentSessionIsLive`: `rfb` is never a session that has ended, so no connect
  waits for an event that cannot come.
* `OnlyStaleEventsOrphan`: the page loses a session only through the late
  disconnect event of an earlier one.
* `ScreenShowsSession` (`ScreenMatchesSession`) and `PasswordReachesAsker`
  (`PasswordForAsker`) follow from `IInv` with `PageInv`: until a disconnect
  event was stale, a session that waits for its timer is `rfb` or nobody's
  (`ResumeInv`), the session whose message is handled has no timer and is not
  connected (`LoopInv`), and a page that offers the Connect button beside a
  session of its own has one that is stuck waiting for credentials it will not
  get (`ShowInv`).

`RemoteInputProofs` is about `RemoteInput`, for every set of computers (from the
assumptions of the module):

* `TouchesStartAfresh` (`TouchStartsAfresh`): the tracked fingers that are
  active are on the screen, what is ignored is on the screen, a state of no
  fingers is the first one, and a timer runs only in a state it can decide
  (`GestureInv`).
* `InputTypeCorrect`: `TypeOK`.
* `KeysAlwaysHaveHolder` (`KeysHaveHolder`) from `KeyInv`: what is down is named
  by an entry of the list of keys, by the Windows key the page sent, or was left
  down by view-only; two entries may name the same key, and the release of one
  ends it, so an entry names a key of its own.
* `ButtonsStayHeld` (`ButtonsAreHeld`) and `PointerKeepsUp` (`PointerArrives`)
  from `MouseInv`: the mask sent last is the one of the buttons, or the timer
  will send it, and the position is where the mouse is or will be with the
  timer; a mask that comes from fingers belongs to a drag or a long press.
* `LockKeepsFollowing` (`LockFollows`, an action property): once a lock's state
  is known it is the one the browser last told (`CapsKnown`), so only an event
  that tells another, or a pinch, which tells none, changes it.
* `NoKeyStaysForgotten` (`NoKeyForgotten`) from `ListInv`: an entry of the list
  is a key the user holds, or one whose release comes to nobody because the
  focus moved; a key whose release the system will not report is never entered.
  The theorem assumes `NamedLang`: no computer with Windows, a browser that gives
  only key codes, and a Japanese mode key. There the code cannot tell the key
  (`keyboard.js:188` goes by its name), enters it, and is never told of its
  release, so the property is false. The computers of the run have none such.

`RfbDecodeProofs` and `RfbStreamProofs` are about `RfbStream`, for every set of
servers within `ServersAssumption`, any number of messages and rectangles of any
size, cut into websocket messages in any way:

* `StreamTypeCorrect` (`TypeOK`), `HandledInOrder` (`HandledAsSent`) and
  `OneUpdateAtATime` (`OneUpdateUnderWay`) follow from one inductive invariant,
  `Inv`. It says that there is a story to go on with (`Story`): the unread bytes
  in the queue and on the wire are the bytes `B` that the messages not yet
  handled are written as (`Coming`); what has been handled followed by `P` is
  what the server meant (`Handles`); what the screen has drawn or queued followed
  by `Q` is the picture that is due (`Missing`); and updates sent, answered and
  owed balance (`Balance`). `Situation` says which `B`, `P` and `Q` these are:
  between messages, in the rectangles of an update, in the middle of a rectangle
  with the decoder at some field, behind a message that was left unread
  (`Stuck`), or with the session gone.
* The proof of a step has a lemma per decoder and message: the next field of the
  rectangle as the server writes it (`BodyLeft`, `PiecesLeft`) is the field the
  code counts on, reading it leaves the fields behind it, and the pieces it
  draws are the first of those left. `RfbDecodeProofs` has these facts about the
  operators: what `FlattenSeq` joins, that the display queue shows what was
  submitted in its order, the layout of hextile tiles, tight pixels, palettes
  and compact lengths, JPEG segments, runs of ZRLE.
* `FlattenSeq` and `FoldLeft` are defined by recursion. Facts about them for
  every length are proved by descent: the set of lengths that are exceptions has
  no least element, so (`WFMin`) it is empty (`Least`, `Induct`).

`RfbResizeProofs` is about `RfbResize`, for any number of units in a pixel, any
windows, sizes and announcements on their way (from `RfbResizeAssumption`, which
says that client sizes are boxes rounded down or up). `ResizeTypes` (`TypeOK`),
`OneRequestPending` (`OneRequest`) and `ChangesAreNoticed` (`ChangeIsNoticed`)
follow from `Inv`: the three are inductive together, with the wire being longer
than announcements make it only by an answer (`Wired`). What a comparison leaves
behind (`Looks`) is stated once for `_requestRemoteResize` and used by every
handler that calls it.

Only model-checked: the liveness properties (`DeploymentEnds`,
`RestartCompletes`, `LeavesSchedule`, `SpinnerEnds`,
`ButtonComesBack`, `LetsGo`, `EverythingIsShown`, `WindowIsFollowed`,
`AskingEnds`), which rest on fairness and so on ENABLED, out of the prover's
reach. Every invariant and every action property of a passing run is stated by a
theorem. The four properties that fail are shown by their counterexamples.

## 5. Not modelled

* File jobs (`SFTPFilesController`, the agent's file handlers, their answers),
  the upload of patches, the terminal's status and the reconnect loops of both
  MQTT clients. They have hazards of their own, which `PROJECT.json` lists
  without a property; the runs are spent on the deployment and on remote
  control, where a fault leaves a kiosk broken or out of reach.
* The pool and the chunks of SFTP, and the health and CDK loops of the agent:
  what a download leaves behind is all the deployment sees of the first, and only
  the last reading of the others counts.
* The controllers for branches, users and login and the SignalR hub: a statement
  on the database each, or a relay.
* The cryptography and pako of noVNC, the tables of keysyms and scancodes: pure
  functions and data. The models take them to give a result or to fail.
* Installers, styling and documentation have no behaviour to model.

## 6. Plan

Done, in this order: `DeploymentReports`, `PatchAgent`, `PatchAgentProofs`;
`PatchRows`, `PatchRowsProofs`; `Scheduler`, `SchedulerProofs`; `RemoteSession`,
`RemoteSessionProofs`; `RemoteInput`, `RemoteInputProofs`; `RfbStream` with
`RfbDisplay`, `RfbDecodeProofs`, `RfbStreamProofs`; `RfbResize`,
`RfbResizeProofs`.

Next, what may still be proved beside the properties of the runs:

1. Safety parts of the liveness properties: that an update that is under way has
   a handler, a picture or a message to go on with, so that `EverythingIsShown`
   rests on fairness alone. `ChangeIsNoticed` is that of `WindowIsFollowed`.
2. `SentInTime` for branches with several rows, in the form that holds there:
   about the row that was read rather than the row that was due.

And, where modelling goes on: a `TerminalStatus` (last will against retained
status), an `MqttLink` (the reconnect loop against its timer) and `FileJobs`.
