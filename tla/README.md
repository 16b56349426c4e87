# A TLA+ model of web-ssh-tool

web-ssh-tool gives a browser the terminals and the files of a host. It is one
Rust program (`src/rust`) that runs in two roles, and a React page (`src/web`):

```
 browser page  ── websocket /rest ──►  master (server)  ──ssh──►  sshd
      │                                    ▲      │                 │ exec
      └── HTTP: upload, download, preview ─┘      │                 ▼
                                     websocket /client, PUT  internal client
                                           └──────────────── (user's process)
```

The master terminates TLS, checks passwords by signing in to the host's sshd,
keeps the table of sessions, runs the terminals, and relays everything that
touches files to the *internal client*: the same program, started through ssh
under the user's account, which connects back to the master. Nothing is
persisted; what is hard here is concurrency: tokio tasks, futures Mutexes held
across awaits, channels of capacity zero, one-shot callbacks, three processes
of which two may vanish, and a thread of a library.

## Inventory

| Component | State | Operations | Correct when |
|---|---|---|---|
| Authentication queue (`on_request_authenticate.rs` 48-118, `authenticate_queue.rs`) | map user → `Weak` queue, a Mutex and a channel per queue, its cleaning task | look up or create a queue, wait for the turn, check the password, 5 s penalty, clean up | the checks of one user never overlap, no entry is leaked or lost, everybody gets his turn |
| Sign-in and session table (`on_request_authenticate.rs` 120-205, `on_client.rs` 7-34, `common/mod.rs`) | `websocket_peers`, `suspended_clients`, their Mutexes | draw a token, suspend, launch the client, hand its websocket over, time out, tear down | the maps list the sessions and the waiting attempts, no more and no less; attempts are answered |
| Relay (`on_authenticate.rs`, `on_client.rs` 35-57, `websocket_peer.rs`, `websocket_client/mod.rs`) | callbacks by id, event channel | relay a call, match its response, forward an event, disconnect | each call gets its own answer; the end of a session releases everything |
| HTTP rendezvous (`http_server/`) | `ClientHttp.queue` | register, ask the client, match its PUT, cancel | a request never waits for a PUT that cannot come |
| Terminals (`shell.rs`, `MultiTerminalView.tsx`, `XTerminal.tsx`) | map `shells`, a task per shell, a Controller per terminal | open, data, resize, close; output, end of a shell | one shell per open terminal; ends travel both ways |
| Directory watchers (`watch.rs`, `file-explorer/Common.tsx`) | map of watchers, current path, notify's thread, poll_event | open, cd, cdToParent, close; file system events | the last listing becomes the true one |
| Upload (`upload.rs`, `unzip.rs`, `MultiFileExplorer.tsx`) | placeholder, temporary file, `fileGuard`, UploadController | placeholder, transfer, unzip, cancel | a completed upload is on the disk, a cancelled one leaves nothing |
| File operations (`fs_api.rs`, the dialogs that ask for them) | the file system; objects, target and answers of a dialog | rename, cp, writeFile, unlink, rm, mkdir, trash; submissions of several objects at once | nothing is overwritten or lost, also when a call in the middle fails; what the user is told is true |
| Streams (`download.rs`, `preview.rs`, `forward_body_to_sender`) | bounded channels | read, forward, break off | an end that breaks ends the other |
| Logger (`app_config.rs`) | channel of 64 entries | log, write | entries are kept; callers wait only for the writer |
| Browser connection (`App.tsx`, `SignInPage.tsx`, `Compress*.ts`) | the websocket and its page, the stored password, pending callbacks by tag, requests of the worker | sign in, sign out, rest, reconnect, encode and decode messages | calls leave in order, answers reach their callers, a password that was not to be remembered is forgotten |
| Home page (`HomePage.tsx`, `LayoutBuilder.tsx`, `MultiTerminalView.tsx`) | the layout asked for and the one shown, the tabs of the terminals | hide and show a view, add, select and close a tab, resize | the page gets to its layout; no terminal is lost on the way |
| View of a directory (`DirectoryPreview.tsx`, `directory-preview/`) | listing, selection, drag, dialogs, two windows | select, drag and drop, open and submit dialogs, show a file | the user acts on what is listed, and sees the file he asked for |
| Accept loop and routing, TLS, static files, configuration | none that outlives a request | — | — |
| Theme, locale, icons | presentation | — | — |

Interactions: the authentication queue and the session table are phases of the
same handler but share nothing except the connection: every attempt leaves the
queue's critical part before it draws a token. `websocket_peers` is locked by
sign-in, teardown and every HTTP request. The relay and the rendezvous share the
Mutex of `ClientWebsocket`. A terminal uses the relay's event channel. The
watcher runs inside the one task that handles all requests of a client, so that
a handler that blocks its thread stops them all. In the browser every call
of the explorer, the terminals and the uploads goes through `Auth.rest` and the
one worker; the websocket's end takes the pages above it away; the view of a
directory shows what the watcher sends and asks for file operations, whose
effects come back to it as listings only.

`PROJECT.json` lists the hazards of this code line by line, with the properties
that would catch each.

## The modules

| Module | Role |
|---|---|
| `UserLock` | abstract specification: one lock per user |
| `Session` | abstract specification: what a session promises to its calls and fetches |
| `AuthQueue` | the authentication queue; implements `UserLock` |
| `SignIn` | sign-in, client hand-over, session table, teardown |
| `WebSocketPeer` | relay and HTTP rendezvous of one session; implements `Session` |
| `Shell` | the terminals of one session, server and browser side |
| `Watch` | one directory watcher with its handlers, poll_event and thread |
| `Upload` | uploads to one file name, browser, client and disk |
| `Link` | the browser's websocket, sign-in page, calls and compression worker |
| `Home` | the home page: layouts and their transitions, tabs of the terminals |
| `Files` | the file operations of the client and the dialogs that ask for them |
| `DirectoryView` | the view of a directory: selection, drags, dialogs, windows |
| `MC*` | instances for TLC: the directories of `Watch` and `DirectoryView`, the sizes of `Upload`, the files of `Files` |
| `*_proofs` | theorems and their proofs |

Every module has the same shape: constants with their assumptions, variables,
`Init`, one action per step of a handler between two points where another task
can get in, `Next`, `Spec`, `FairSpec` and the properties; in the modules with
proofs also the inductive invariant `IndInv`, a conjunction of named parts. Operators commented *mutant
of* are altered versions of an action, in no next-state relation: each one is a
plausible mistake that breaks a property.

### AuthQueue

`authenticate_queues` holds a `Weak` for each user, to an
`Arc<Mutex<Sender>>`; an attempt that finds a live queue clones it, any other
creates one with its task. Here a queue is named by the attempt that created it,
`arc[a]` is the queue `a` holds, and the pointer of a user is live while somebody
holds what it points to (`Live`). The sender's channel has capacity zero: the
`send` of line 105 stays pending, and the Mutex of the queue locked, until the
task pops the attempt's oneshot; the task then awaits that oneshot, which the
attempt sends when accepted and drops when it fails. A rejected attempt sleeps
for five seconds first (`penalty`). `return Err` drops locals in reverse order
of their declaration: the queue (`DropQueue`), then the oneshot (`DropSignal`).
An accepted attempt keeps its queue to the end of its block (`Leave`), although
its turn is over. `TaskCleanup` is the last lookup of a dying task, which may
find that the entry of its user points to a younger queue.

`UserLock` has three actions per attempt, request, check and finish. The
refinement mapping `Stage` is on `pc` alone; `ImplementsLock` is the abstract
specification as a property.

### SignIn

`join!` (line 130) polls two lock futures and keeps the guard of the one it
got, so that `JoinPeers` and `JoinClients` are independent. The note in
`suspended_clients` is made under both locks; that of `suspended_clients` is
dropped, that of `websocket_peers` is *kept during the wait for the client*, up
to five seconds. `timeout` polls the oneshot before its delay, so that `Expire`
requires it empty, but a client may be handed over between that poll and the
drop of the receiver (`expiring`): its websocket is then dropped with the
oneshot. `Clean` removes the note after a timeout and needs the second lock.
The internal client has five states; it may die at any time, and `TakeNote`,
`HandOver` are on_client's two steps with the lock released in between. A token
may repeat one in use (the code tests for it) but is otherwise new.

### WebSocketPeer

A *call* is a request of the browser, a *fetch* an HTTP request that needs a PUT
of the client, an *event* what the client sends unasked. `for_each_concurrent`
limits calls to 16 (`Limit`) and the handler leaves its loop only with no call
in progress (`InProgress`), before it removes the peer and disconnects it,
under the lock of `websocket_peers` (`mapLocked`). `disconnect` locks its two
halves in either order. `connHolder` is who keeps the Mutex of
`ClientWebsocket` locked across an await: `send_request` until the socket took
the message (`BeginSend`, `SendRequest`), and `forward_event`, whose channel
has no capacity, until poll_event popped it (`LockConn`, `ForwardEvent`,
`EventForwarded`). All other critical sections are one action.

hyper drops the future of a fetch when its browser gives up the HTTP request
(`Abandon`, at every await of on_download and components.rs): the Mutex is
released, but `cancel_register` never runs, so that registration, callback and
message stay behind until a PUT, a response or the end of the session takes them. It
drops the handler of a PUT whose connection broke in the same way (`DropPut`). The
client has three states: it runs, it is gone after a crash, or it is *jammed*, its
one task of handlers blocked for ever by a relayed watch (`Jam`, the jam that `Watch`
shows), still connected and silent. A PUT may break before it arrives or after.

`Session` knows nothing of ids, maps, Mutexes and messages: a call is taken,
then answered or refused; a fetch waits, is joined with its PUT, served or
fails; the client acts on either. What it promises is in its guards: an answer
only to what the client acted on, no act on what was refused, no join without
an act, no end of the session with a call under way, nothing joined after it.
The refinement mapping reads `Phase` from `session` and `undone` (over is over
once the queue of registrations is dropped), `Stage` from `pc`, `reply` and the
oneshot of the fetch, and `Handled` from what the client has told or sent.

### Shell

A handler takes the Mutex of `shells` (`Lock`; any waiter may be next), and
keeps it until it returns, also while the data it sent waits in the channel of a
shell (`sending`, `buffer`). The task of a shell is `poll_channel`: it selects
between data and the ssh channel's messages, writes with `?`, forwards output
and at the end a close event. It never removes its entry from the map. The
calls relayed to the client meet the shells in two places, and one of them stands for
all in `relay`: its sending holds the Mutex of `client_connection`, which
outputs and close events need (`Forwarding`), and `for_each_concurrent` waits for its
handler too before the map of shells is dropped (`Handled`, `EndSession`). The
browser's part is the Controller: open, input, removal, the close event. Ids
of closed terminals may be drawn again, which `makeUniqueId` allows.

### Watch

A watcher is behind a Mutex (`holder`) that its handlers and `poll_event`
compete for; the map of watchers is locked during an open only. `unwatch` and
`watch` of notify 6.1.1 (inotify) send a message to notify's thread and *block
the calling thread* for the reply. All handlers of one client are futures of one
task, so then `Blocked` holds and no handler runs. notify's thread runs the
callback, which puts the event into a channel of capacity zero with `block_on`
(`slot`). Listings are abstracted to the version of the directory that was
read. A removed path loses its kernel watch; watching a missing one fails.

### Upload

One name is the target of all uploads. An upload is a state of
`UploadController` (`state`), the await at which `props.upload` stands (`step`)
and `fileGuard` (`guard`); what it has asked for is in `writes`, `unlinks` and
`unzip`, what `upload.rs` does for it in `transfer`. The browser goes from one
await to the next in one action, as its event loop does. Everything asked of the
client is a file operation in a thread of its own and may come late: the guards
of `CreatePlaceholder`, `Unlink`, `CreateFile` ask for no order between them.

The disk is the inode that the target names (`entry`), the temporary files
(`temps`) and the `content` of each inode: whose data, how many chunks, and
whether the placeholder's text sticks out behind. A handle keeps its inode
when the name is unlinked. tokio's `write_all` returns before its chunk is
written, so a chunk may be on its way (`landed < taken`), its error is
told to the next `write_all`, and that of the last chunk to nobody. `unzip`
has no await: it is one action, which succeeds on a whole file only.

`Cancel` is both `cancel()` and `close()`. It aborts the POST if its signal is
listened to (`xhr = "open"`); before the token has come it is not heard (`deaf`).
`RefusedPost` is the answer of a master whose session is gone: its text
`"Auth request failed"` parses, quotes included. Failures of `remove_file`
other than a missing file, and changes to the target by others than these
uploads, are left out.

### Link

`work` is the list of requests that `suspend` of Compress.ts waits for, in the
order in which the worker serves them; when the worker fails all are rejected at
once and whoever encodes goes on without it (`WorkerFails`, `closed`). A message
from the server goes to whoever listens when it is dispatched (`Deliver`), its
Blob is read in any order with the others (`Read`), then decoded by the worker.
The sign-in page listens with a once-listener (`listening`) and its answer has
no tag. `page` is what App shows above a websocket: nothing, the form, the form
that is loading, the home page. Tags are numbers of calls over all connections;
`old` are those of earlier ones. A websocket that closes takes its page away, but
not what the worker or a Blob still holds for it (`live = FALSE`): a late
answer of an earlier connection is handled, or dropped, where the code does it.
The server answers when it likes, or never (`Answer`, `SignInAnswer` without
fairness): the modules of the server show how a websocket may stay open and silent.
The opening of the websocket and the mount of the page above it are one step.
App waits two seconds before it reconnects only if the last websocket had not
opened (`lost`). localStorage outlives everything (`remember`, `stored`).

### Home

A page in a layout of one view has a placeholder whose width is a CSS
transition; the layout `both` has two views whose opacity is one. The page shows
`shown` (delayLayout) until such a transition ends, which is when `SyncLayout`
mounts and unmounts views. Opacity and width have three values, none, under way
and full, since the code only tells whether a transition is over. What a browser
does is modelled by its documented behaviour: a style that does not change, or a
length that is not positive, starts no transition (`missed`, `Refused`). The
state of the terminals is `_controllers`, the current one, and the views
that SharedAxis still shows while they fade, each with its close button. A tab
goes at once, its shell does not: constructor and `dispose` send an open and a close,
which the server serves at any time and in either order (`shell`, `close`,
`ServeOpen`, `ServeClose`). A close that comes first finds no shell and the shell that
is opened then runs without a tab (`close = "early"`). A controller that is
gone may be used again as a new one; the model then follows the new shell only.

### Files

Paths lead to inodes, so that `NothingIsLost` can speak of a file whatever
happens to its name. A submission (`Batches`) is a dialog, its button, the
objects that it listed and where they go; an operation is one of its requests.
`stage` names the next system call: `fs.rename` is `Place` (create_new), then
`Rename`; `fs.cp` is `Stat`, the two halves of `join!` in either order, then
`Copy`. Listings and `fs.cp` use `metadata()`, which follows links
(`Followed`), while rename(2), unlink and remove_dir_all do not: an inode is a file, a
directory, a link to either, or special, that is a fifo, a socket or a device. `fs.cp`
answers Ok for a special file and does nothing; `copy_dir_all` passes over links and special
files in the tree, so that a copy may be `pruned`. Every call may fail at what it needs, or for reasons outside the model
where the code handles that. Objects keep the types they were listed with
(`seen`) and the file system does not wait for them. `Report` comes when
all answers of a submission are there and tells the user of all, some or none.
`Again` is the second click of a dialog that is still open. `deleted` is no
program state: it notes which files somebody asked to be deleted.

### DirectoryView

An object of a listing is a path with a version, so that a listing never repeats
an object of an earlier one unless the entry is the same; `Show` replaces the
listing at any time, and with it what the effects of DirectoryPreview.tsx do
to the selection and to the open dialogs (`PathEffect`, `EntriesEffect`,
`Refreshed`). A drag is split into what the browser drags (`held`), whether its
tile is still there to hear of its end (`tile`), and what the view believes
(`dragging`). `dialog` holds what each of the seven dialogs is open for, `pending`
the request of one that is under way. The two windows that show a file load in
stages; the text window aborts a request when its file changes but still
hears the failure of the one that waits for its URL (`late`). A commit of
React and the passive effects behind it are one step, so that what a click does
in the frame between them is not seen.

## What TLC checks

| Run | Instance | Shows |
|---|---|---|
| `auth_queue` | 3 attempts, 2 users | mutual exclusion, exactness of the map, whatever a task awaits goes on, refinement of `UserLock`, every attempt is checked |
| `sign_in` | 2 connections, 2 tokens | peers are sessions, notes are awaited, a client reaches only its attempt; everyone is answered and torn down *unless* two handlers wait for each other's lock; that circle is the only way to be held up for good, and permanent |
| `sign_in_timeout` | 2 connections, 2 tokens | **violated**: the five-second timeout does not always end an attempt |
| `peer` | 2 calls, a fetch, an event, limit 1 | the session implements `Session`; the rendezvous never blocks, no response is lost or forgotten by a running client, and an entry is stale only if it is that of a fetch its browser gave up; answers come unless the client crashed or is jammed, a call it orphaned is one for ever, and any other end of the session ends its fetches |
| `shell` | 1 id, 3 requests, 1 output | whoever holds the map waits for a running shell only; closed terminals are closed; answers and ends come unless a shell stops reading for good or a relayed call stays for ever |
| `watch` | 2 requests, 3 changes | no change is missed; requests are answered and the listing converges unless the jam closes; nothing else stops them, and the jam is permanent |
| `upload` | a plain and a compressed upload | nobody unlinks what is not his and no placeholder is without an owner, completed is intact, nothing temporary stays, uploads end |
| `upload_short` | one compressed upload of 1 chunk, placeholder of 2 | **violated**: the text of the placeholder sticks out behind the file |
| `link` | 2 calls, any number of connections | calls leave in order, an unticked password is forgotten, calls and sign-ins get to the server and answers to their callers although the worker may fail at any moment |
| `home` | 3 terminals | shells have tabs unless their close is on its way or came too early, only the closed terminal goes, a layout not shown yet has its transition, the page gets to its layout |
| `files` | 2 submissions, 3 files | nothing is overwritten or lost, a success is one but for what `fs.cp` passes over, every submission ends with a message |
| `directory_view` | 2 directories, 2 files, 5 clicks | what is selected is listed as it is, the text window shows the file it names |

Deadlock checking is off where requests are finite, so that the system stops;
`link` and `home`, which never stop, have it on. That nothing stops *too early* is
what the liveness properties are for.

### The two disagreements

* **sign_in_timeout.** An attempt whose client never comes holds
  `websocket_peers` at its timeout and asks for `suspended_clients`; a second
  attempt inside `join!` holds `suspended_clients` and asks for
  `websocket_peers`. Neither is answered, nor is any later sign-in, teardown or
  HTTP request of the server.
* **upload_short.** `unzip` writes over the placeholder without truncating it;
  a file shorter than the placeholder's 72 characters is shown as completed and
  ends in the rest of them.

More ways in which the code goes astray are in the models without being
violations of a property, because the properties state what holds beside them.
Each property names what it leaves out:

* the jam of the watcher: two changes close together and a `cd` that waits for
  notify's thread, and the requests of the session stop for ever
  (`JamIsTheDeadlock`, `Jam` of `WebSocketPeer`);
* a call that a crashed or jammed client never answers keeps the handler of its
  session, and with it the peer and, though the browser is gone, the shells
  (`Orphan`, `ShellsEnd`), and the browser waits without a timeout
  (`AnsweredUnlessLost`, `LoadingEnds`);
* a fetch given up in the middle of an await leaves its entries on the maps until
  the end of the session or a late PUT or response (`NoStaleEntry`);
* a shell that exits leaves its entry, so that an open of the same id is
  answered Ok without a shell (`OpenListed`); a close that overtakes its open
  leaves a shell without a tab (`ShellsHaveTabs`);
* a write that fails is answered as if the file were whole (`CompletedIsIntact`
  leaves out the truncated ones);
* "Copy succeed" for a special file, of which nothing is copied, and for a
  tree without its links and special files (`Copied`).

### What the properties leave to others

A property is read with its exceptions; these hazards are in the models but no
property fails if they get worse. `TerminalLearnsTheEnd` starts at the
close event, so a write that fails before it is not caught. `ListingConverges` is
about reported paths only. `CompletedIsIntact` looks neither at failed writes of plain
uploads nor at sessions that ended. `LayoutSettles` leaves out transitions the browser
refuses and windows without room. `TextIsOfFile` is about the object the window was
opened for, not about its file changing on the disk during the load. `Disturbed`, in
`NothingIsLost`, is global: one placeholder taken away excuses all files.

### Bounds

Constants of the configurations bound the models; no action has a hidden limit.
Requests, attempts, calls and events are used once, so the sets bound them.
*AuthQueue*: three attempts give a dying queue, its replacement and a third
attempt that meets either, with the task of the first still to clean up; the
second user shows that users do not mix. *SignIn*: every property relates two
connections, and with two tokens each may fail once and try again, or draw the
other one's. *WebSocketPeer*: with a limit of one, the second call waits for
the first; the event delays both and the teardown, and the fetch may be given up or
the client be lost at each step. *Shell*: three requests are
enough for open, data and close in any order, or for an id that is opened
again while its first shell runs; one output to catch the task out of its
select; one relayed call, since several keep the Mutex and the session no
longer than one that may do so for ever. *Watch*: three changes put one event in poll_event, one in the channel
and one with the thread; two requests on two directories give every order of
open, cd, cdToParent and close with a change in between. *Upload*: a plain and
a compressed upload of one name meet each other at every step; of the plain
one's two chunks the first or the last may fail; the placeholder is as long as
the compressed file, or, in `upload_short`, longer. *Link*: two calls, the least
that has an order; connections are unbounded, and `Backlog` only bounds what
earlier connections leave with the worker when the next one opens: with four, two
calls and a sign-in and its answer fit. *Home*: three terminals, one current, one
fading and one behind; everything else is finite by nature. *Files*: two
submissions that meet at every system call, on a file, a directory, link or special
file, and a name in use.
*DirectoryView*: five clicks are enough to select, drag, open a dialog, open
another from it and submit that, with listings unbounded in between; `MaxLate`
is one URL left behind. For the safety invariants the proofs cover what is
beyond these bounds.

### Fairness

Weak fairness is assumed for what runs by itself: tasks of tokio, timers,
notify's thread, the browser's event loop. Nothing is asked of users, file
system, shells, or the launched client process before it is connected. *SignIn*
has strong fairness on taking a lock: a futures Mutex wakes a waiter but does
not reserve itself, and attempts are repeated without bound there. In the other
modules requests are finite, hence weak fairness suffices. In *SignIn* strong
fairness is more than futures documents of its Mutex: a waiter that is woken
each time and finds the lock taken each time is not excluded. In *Shell* the
properties are conditional on no shell being stalled and no relayed call keeping
`client_connection` for ever (`Released`), the end of the shells also on no relayed
call being unanswered for ever: nothing in the code excludes these. An open assumes
that sshd answers it, since the map is locked meanwhile. In *Upload* browser, client and master go on with what they
have begun; nobody has to begin or to cancel an upload, no chunk has to fail and
no request to break, except one whose response ended early. In *WebSocketPeer* a
client that runs handles what it is asked and reads what it is sent, and a browser reads
what it is sent or its websocket ends; a jammed client does nothing for
anybody. In *Link* timers, worker and Blob reads end, what the server sent
arrives, and a websocket that opens or closes comes to its end;
nobody has to sign in or to call, the server need not answer, and no connection has to
break. In *Home* only
frames are fair, in *Files* the operations and the report of their answers, as the
session does not end there.
*DirectoryView* has no fairness.

## What is proved

All theorems hold for every value of the constants that satisfies the
assumptions of the modules: any finite or infinite sets of attempts,
connections, tokens, calls, fetches, terminals, requests or paths, and any
bound. In each proof module `InitInv` and `StepInv` show that `IndInv` is
inductive (`HomeInitInv`, `ViewInitInv` and so on where three components share a
module), with one lemma per group of actions and one step per action; the
theorems are derived from it. Each `IndInv` was an invariant of a TLC run before
it was proved; the configurations list the properties it serves.

* **AuthQueue_proofs.** `OneAuthenticationPerUser` alone is not inductive: it
  needs that a held queue is the listed one (`AttemptOK`), that a sending
  attempt has the Mutex until it is popped, that an authenticating one is what
  the task awaits (`TurnOK`), and that task, channel and Mutex agree (`QueueOK`).
  Then two authenticating attempts of one user hold one queue, whose task awaits
  both: they are the same. `Refinement` proves that every step of `AuthQueue` is
  a step of `UserLock` or stutters; `Enqueue` … `SendDone` take
  the abstract lock at `SendDone`. `MapIsAccurate` includes that a task never
  waits for nobody (`AwaitedGoesOn`): an attempt that is done with its check has
  sent or dropped its oneshot.
* **SignIn_proofs.** `LocksOK` says in which states which lock is held; with it
  a peer of the map is a session (`PeerMap`), a note has its waiting attempt and
  a delivered client its receiver (`HandOvers`). `Permanence`: in a circle the
  enabled actions touch neither lock, by `LocksOK`; and short of a circle whoever
  waits for a lock waits for a handler that does not itself wait. This is the safety
  half of `EndsUnlessCircle`: what remains to TLC is that fair handlers move.
* **WebSocketPeer_proofs.** The crucial conjunct is in `FetchOK`: a PUT that was
  answered while the callback is still registered has left the queue, so the
  null that follows it finds the oneshot fed or dropped (`Rendezvous`).
  `Relay` has the invariants of the two maps: who waits is in them or has his
  answer, a running client owes every waiting callback its response
  (`AwaitedIsOwed`; without it a callback could wait for ever with nobody at fault), and
  what is in them for nobody is left by a fetch that was dropped at an
  await, until the session ends (`NoStaleEntry`). The drop may fall on any of the
  awaits, so that who has the Mutex is one more conjunct (`HolderOK`). `Orphans` is the permanence of an
  orphaned call. `Refinement` proves `Session`, one step per action of the
  model, from a second layer (`PromiseInv`, inductive together with `IndInv`):
  what was not sent was not acted on (`AskedOK`), and a PUT that found its peer
  before the teardown finds no registration after it (`JoinOK`).
* **Shell_proofs.** The holder of the map is alone and the request in a
  channel is the one that sends (`NoDeadWait`); a terminal closed over
  a running shell means that its id was opened twice (`ClosedTerminals`).
* **Watch_proofs.** `NoMissedChange` needs that a reading which is outdated when
  it is about to be sent has its change reported, which in turn needs that
  `watch` registers before the directory is read (`Refreshes`). `Permanence`: in the
  jam each of the three is disabled by the next one, and no lock or blocked
  call outside it waits for one that is stuck.
* **Upload_proofs.** `GuardIsOwn` needs the placeholder followed from
  `fs.writeFile` through `fileGuard` to the pending `fs.unlink`: only one of the
  three is at work and meanwhile the name is the placeholder's, as `create_new`
  refuses everybody else (`GuardOK`, `OwnFile`). `Temporary` rests on `TempOK`: an
  answered request does not reach the client again, so that nothing
  creates the temporary file anew after its unlinking. `Completed` needs a
  second layer (`IntactInv`, inductive together with `IndInv`): an upload keeps
  its guard until it is settled (`HeldOK`), at most one chunk is between the
  stream and the disk and a response waits for the end of the body
  (`StreamOK`), and while nobody disturbed the file its inode has the chunks that
  landed, in their order, behind its own handle (`DataOK`). `OwnFile` has a third
  layer (`ChargeInv`): a placeholder is in the charge of the call that creates it,
  of the guard of an upload that is not over, or of the call that unlinks it. This is
  the safety half of `NoPlaceholderLeft`.
* **Page_proofs**, the link. `SentInOrder` needs that what is being encoded is with the
  worker (`InHand`), in the order of the calls (`InLine`), and that an answer
  is on its way only to what was sent (`Started`): else a late message could answer
  a call before an earlier one has left. A failing worker sends all at once, so
  that order survives. `PasswordIsForgotten` is inductive by itself: a
  successful answer stores the password only with the tick set, and a sign-out
  closes the connection in the step in which it drops the tick. The safety halves of
  `AnsweredUnlessLost` and `LoadingEnds` (`CallsGoOn`, `SignInGoesOn`) rest on a second
  layer, `WayInv`: calls belong to the home page of a websocket (`PageOK`), and a
  sign-in is in one place at most, and in none unless its page loads (`SignInOK`). Without
  the latter a late refusal could take the home page away under calls whose answers
  nobody would then hear.
* **Page_proofs**, the home page. A shell that runs or will run has a tab, or
  its close was asked for (`EveryShellHasATab`), because
  a view that is hidden has no tabs left (`HiddenHasNoTabs`), so that one that opens
  with a new terminal forgets nothing, and a tab goes together with that request, whatever
  the server makes of it and when (`DisposedShells`); `NoOtherTabGoes` rests on `RemovedTab`,
  what `splice` does to a sequence. `TransitionComes` is the safety half of
  `LayoutSettles`: opacity and width agree with the layout asked for (`LayoutInv`), so
  that a change of layout has started the transition whose end shows it.
* **Page_proofs**, the view of a directory. `SelectionIsListed` and `TextOfTheFile`
  are inductive together once each dialog is open for what it can be open for
  (`ViewTypeOK`) and the text window loads the file of an object (`LoadsAFile`).
* **Files_proofs.** `NothingIsLost` needs `OpOK`: whoever is about to call rename(2) has
  the empty file he placed under the destination, unless somebody deleted
  or moved it (`Disturbed`), so that what is replaced is nobody's; and `Kept`,
  which follows a created file from its first system call. `SucceedInv` adds for
  which button an operation runs, and that a success, once true, stays so: what
  was there first is whole, the types of inodes do not change, and so a copy
  that is not whole is that of a special file, of a tree, or of a file in the making
  (`Copied`).

Only model-checked: the liveness properties, as fairness and ENABLED are beyond the
prover, and the two violations. Every invariant and every action property of the
runs, both refinements, and the safety parts of the liveness properties that have
one are proved.

## Taken from outside

Modelled from how the code uses them, and from their documented behaviour:
russh 0.39 (`authenticate_password`, `Channel::wait`, `data`; an ssh channel
blocks when its window is full), futures 0.3.29 (`Mutex` without queue;
`channel(0)` whose `send` completes when the message is popped; `oneshot`
dropped with either half), tokio (`timeout` polls its future first), notify
6.1.1 (see *Watch*), hyper (a PUT or a response may break at any time).

## Not modelled

TLS, static files, protocol detection, command line: stateless per request.
Theme, locale and icons: no protocol state. The pumps of downloads and previews
copy from one bounded channel to another and keep nothing but the chunk in hand;
where they start and break is in `WebSocketPeer`. The logger's bounded channel blocks a
worker thread when it is full, for a writer that waits for nobody else. What is inside a directory that is copied or
removed, but for whether a copy of it is pruned, the explorer within `CopyToDialog`, the recursion of a dropped
directory, timers of buttons (a long press acts after its dialog has closed), and the quick
commands that several browser tabs write back as a whole are left out. The order of the
terminal's keystrokes on the server is modelled (any waiter of the Mutex may be
next) but no property depends on it, as no text of the repository promises one;
that they leave the browser in order is `SentInOrder`.

## What could follow

1. The composition of `SignIn` and `WebSocketPeer` over the Mutex of
   `websocket_peers`: which HTTP requests wait for a sign-in, and for how long.
2. An abstract upload (done, or failed and gone), and `Upload` shown to implement
   it where no write fails.
3. `Files` with the inside of directories: what a copy or a removal that stops
   half way leaves.
4. Liveness of a whole call: from `Link` through `WebSocketPeer` to the client and
   back, the two composed over their websocket.
