# KeyStore: specification and proofs

KeyStore (`src/KeyStore/KeyStore`) is an iOS app that keeps TOTP secrets in
Firestore and shows the code of each linked account with a countdown.  This
directory holds TLA+ modules for its own logic and for the parts of the vendored
Firebase pods that its correctness rests on, the TLC configurations that check
them, and TLAPS proofs.  The app never waits for a write and never looks at a
token: that an account which was scanned is stored, once, in the right
collection, and can be read again, is up to Firestore's client and FirebaseAuth.

## 1. Inventory

| component | state | operations | talks to |
|---|---|---|---|
| `AccountCellViewModel` (with `generateCode`, `Date.nearestPointDivisibleBy30`) | `currentCode`, `seconds`, a run-loop `Timer` | `init`, `generateNewCode`, `setupTimer`, the timer's block | clock, run loop, the cell bound to it |
| `Observable`, `DefinedObservable` | a value and one listener | set, `bind`, `removeListener` | everything that observes |
| `DBManager` | `accounts`, `isFirstLoadMade` | `prepareData`, `clear`, `getSavedAccounts`, `saveAccount`, `deleteAccount`, `createUser` | Firestore, `AuthManager`, list controller |
| `AuthManager` | none of its own (FirebaseAuth's `currentUser`) | `signIn`, `signUp`, `signOut`, `resetPassword`, the auth-state listener | FirebaseAuth, `DBManager` |
| `AccountsListController` | table rows, empty-list message, refresh control, delete question | reload block, `refresh`, swipe to delete, `cellForRowAt` | `DBManager`, cells |
| `AccountCell` | weak `viewModel`, labels | `prepareForReuse`, `setup`, blocks that set the labels | view models, UIKit's reuse pool |
| `QRScannerViewController` | capture session | `setupCamera`, appear, disappear, `metadataOutput` | AVFoundation, `parseResult`, `DBManager` |
| `parseResult` | none | otpauth URI to `Account` | scanner |
| `SceneDelegate`, login, sign-up, forgot-password and settings screens, `resetWindow` | root view controller, modal activity, form buttons | taps, completions | `AuthManager`, each other |
| Firestore, writing (`SyncEngine`, `LocalStore`, `LevelDbMutationQueue`, `RemoteStore`, `WriteStream`) | a mutation queue per user on disk, callbacks, the write pipeline, a stream | accept a write, fill the pipeline, results and errors, change of user, restart | the backend, credentials |
| Firestore, reading (`EventManager`, `QueryListener`, `RemoteStore`, `WatchChangeAggregator`, `OnlineStateTracker`) | listeners, views, targets, counts of outstanding answers, the online state and its timer, a stream | listen once, remove, watch changes, loss of the stream, timers | the backend, the app's callback |
| Credentials (`FIRAuth`, `FIRUser`, `FIRSecureTokenService`, `FirebaseCredentialsProvider`, `Stream`) | the signed-in user, a token counter, requests under way | sign in and out, notify, fetch and refresh tokens, start a stream | all of Firestore, `AuthManager` |
| `QRCameraMask`, `EmptyListMessage`, `NavigationController`, `ActivityController`, `AppDelegate`, `ViewController` | layout only | drawing | none |

What is hard here.  All app code runs on the main thread (Firestore's on a worker
queue, FirebaseAuth's on another, with blocks dispatched between the three), but clock readings,
timers, Firestore answers, auth notifications, dispatched blocks and the user
interleave freely, and nearly every handler works on state another one may
have replaced: an index kept while a question is asked, a snapshot older than
the list, a listener slot shared by all cells that were ever bound to a view
model, a read asked for a user who has signed out.  The process may be killed
or suspended at any time.

What makes each component correct:

- view model: the code on the screen is the current one, the countdown tells
  how long it lasts, one timer drives both, an expired code is replaced;
- account list: the table shows the list, the list agrees with the store, no
  account is listed twice, another user's accounts get on it only by a late answer
  and not for good, Delete deletes what it asked about, a refresh ends;
- cells: a row shows its own account's code, and goes on showing the latest;
- session: the screen fits the session, and the activity covers a request for as
  long as it is under way and no longer;
- scanner: the camera is off when the scanner is not on the screen and on while it
  waits for a code with a text, and what is saved is the account its URI describes;
- writing: a write the worker has taken is never lost, nor overtaken by an older
  one that is sent again, and its callback hears what became of it;
- reading: a get is answered exactly once, and does not wait for ever;
- credentials: a stream carries the token of the user whose writes it sends, and
  a write is filed in the queue of the user whose collection it is in.

## 2. Modules

`CodeClock`, `AccountStore`, `CellBinding`, `Session`, `QRScanner` (on `OtpUri`),
`WriteSync`, `QueryGet` and `StreamAuth` each model one component;
`PendingWrites` is the abstract specification that `WriteSync` implements.
`...Proofs` modules extend them with theorems, `MC...` modules with values for TLC.
All app code runs on the main thread, so a handler is one action, with everything
it calls.  What a handler dispatches, and what a framework delivers, waits in a queue and is an action of
its own.  Frameworks (Calendar, Timer, UIKit, AVFoundation, Firebase) are
modelled from how the app uses them and are marked external in the map of
`PROJECT.json`.

Definitions named `Slip...` stand before the definition they vary, each with one
plausible mistake.  No specification uses them; they are the mutants of
`PROJECT.json`, which show that every property can be broken by such a mistake.

### CodeClock: one `AccountCellViewModel`

Time is counted in half-second ticks from a whole minute: enough to tell "on a
second" from "within a second", which is all that Calendar's truncation sees.
`currentCode`, `seconds` and `timers` are the fields of the view model; a code is
the counter that SwiftOTP computes it from (the HMAC adds nothing that a property
could tell apart).  `GenerateNewCode` is `generateNewCode()` with `generateCode`
inlined; it reads the clock three times, so it takes three readings at most
`MaxLag` apart.  `Create`/`CreateUndecodable` are `init`, `FireCountdown`,
`FireExpiry` and `FireOrphan` the three ways through the timer's block (the last
for a view model that is gone: its timer is never invalidated), `Suspend`,
`Resume` and `Tick` the system.  `FoldShift` is 3600 in the hour that is repeated
when daylight saving ends, where `Calendar.date(bySettingHour:...)` returns the
first of two matches, and 0 otherwise.

### AccountStore: `DBManager`, `AuthManager`'s listener, `AccountsListController`

`accounts`, `isFirstLoadMade` are `DBManager`'s; `currentUser` is FirebaseAuth's,
`heard` the uid its listener was last called for; `docs`, `work`, `gets` are
Firestore: documents, operations not yet taken, reads not yet answered;
`mainQueue` holds listener calls, completions, answers and reload blocks in FIFO
order; `home`, `shown`, `emptyMessage`, `refreshing`, `alert` are the list
screen.  Every operation that sets `accounts.value` goes through `SetAccounts`,
which queues the controller's reload, as `didSet` does.  `Relaunch` is the end
and the new start of the process at any moment.  `Failures` and `Revocable` switch
on failing reads and forced sign-outs.  A read may be answered (`AnswerGet`) or
denied (`FailGet`) whoever is signed in by then: `FIRAuth` sets its user first, the
notification that tells Firestore and the app is a block of the main queue, and
Firestore's worker hears of it behind the operations it already has, so the stream
of the previous user answers until then, and the cache after it.
`StreamAuth` models this delay step by step; here any delay is allowed.

### CellBinding: `AccountCell`, `Observable`, the table's rows

One observable stands for `currentCode` and `seconds`, which are bound and
released together.  `listener[v]` is the one listener an observable has room for,
`viewModel[c]` the cell's weak reference, `queue` the blocks dispatched to the
main queue.  `CellForRow` is `cellForRowAt` with `prepareForReuse` and `setup`;
`Load`, `SaveAccount` and `DeleteAccount` are `DBManager`'s changes of the list
as the table sees them; `ScrollOut` and `Reload` are UIKit's side.  A row may be
scrolled in between a change of the list and its reload (`CellForRowTraps`).
The model follows one list controller; the next one has cells of its own.

### Session: screens and authentication

`screen` is the controller in front, `sheet` what is presented over it, `form`
the fields and button of each form, `request` the Firebase call whose completion
is outstanding.  Signing up is two requests, and each may fail, be lost, or be cut
short by a kill (`CreateUserFails`, `SetDataFails`, `Relaunch`).  `Revoke` is a
forced sign-out, on which no screen changes.

### OtpUri and QRScanner: `parseResult`, `QRScannerViewController`

All that `parseResult` looks at is where three markers occur first, so a text is
the sequence of the markers in it, and a field of an account is the range of
pieces between markers it was cut from.  `HasFields` is the guard, `Traps` the two
ranges that may end before they begin, `ParseResult` the account; `IsUri` is the
grammar of the example in the comment of `Functions.swift`, written without any
search, as reference.

`session` is `captureSession`, `callbacks` the calls of `metadataOutput` waiting
on the main queue: a text, an object without a string, or no object.  `Pop`
starts a transition, `Gone` ends it; a swipe back may be cancelled.

### WriteSync and PendingWrites: Firestore's write path

A task of the worker queue is one action: `WriteMutations`, the stream's start
and handshake, a result, the end of the stream, the idle and backoff timers, a
change of user, a restart of the process.  `mutations` survives a restart,
everything else of the client does not.  A batch is its id and the write it
stands for; ids are handed out again after a restart (`LoadNextBatchId`), as in
`leveldb_mutation_queue.cc`.  The backend takes the messages of a stream in
order; a lost connection loses any number of its last answers, so writes are
carried out twice.  `written`, `committed`, `latest` and `refused` are history.

`PendingWrites` says what this amounts to: a queue of writes for each user that
survives everything, committed in order, settled from its front.  The mapping
forgets batch ids, pipeline, callbacks and stream.

### StreamAuth: credentials

Three queues: FIRAuth's work queue (`UpdateCurrentUser`, `SignIn`, `RunRequest`,
the four ends of a fetch), the main queue (`Notified`, `TokenCallback`,
`SignedIn`, and the app's `SignOut` and `Write`), and Firestore's worker
(`HandleCredentialChange`, `WriteMutations`, `ResumeStartWithCredentials`, the
stream's timers and errors).  A request carries the `token_counter` and
`close_count_` it was made under.  `auth.signIn` tells two `FIRUser` objects of
one uid apart, as `updateKeychainWithUser` does.

### QueryGet: Firestore's read path

`getDocuments` as a listener that removes itself.  The client's state is one
record and each of its methods an operator that takes and returns it, so that a
task that goes through four classes is their composition; a task is one action.
Documents are left out but for the fact that some have changed.  The aggregator
keeps the count of outstanding answers, `current_` and the pending changes of each
target in a map, whose missing keys matter.  `told`, `rewatched` and `dropped` are
history: what the backend has said of a target since it was added, that it was
watched again before its removal was answered, and that it had an error on this
stream.

## 3. Runs

| run | bounds | shows |
|---|---|---|
| `clock` | 85 s: nearly three windows and the boundaries between them, creation at any tick; lateness and lag of one tick | `StaleByOneWindow`, `CountdownHonest`, `ExpiredIsReplaced` |
| `clock_stale` | two windows | violation of `CodeIsCurrent` |
| `store_users` | two users, three accounts (one scanned without a user), at most 3 things under way, forced sign-outs | `OwnListStays`, `OwnListReturns`, `RefreshEnds` |
| `store_cache` | two users, three accounts, one of them malformed, failing reads, at most 4 things under way | `ScreenCurrent`, `NoDuplicates`, `AgreementKept`, `ForeignOnlyByLateAnswer` |
| `store_delete` | one user, two accounts | violation of `AlertNamesRow` |
| `cells` | three view models, two rows, two cells (a third would never be made), two queued blocks | `RowShowsOwnCode`, `LiveRowCurrent`, `TrapOnlyBeforeReload`, `RowFreezesOnlyByReuse`, `LabelsArrive` |
| `session` | two users | `RequestCovered`, `ScreenMatchesSession` |
| `scanner` | all texts of up to four markers, two waiting callbacks, two accounts saved on a visit | `CameraOnlyOnScreen`, `SavesWhatWasScanned`, `UrisNeverTrap`, `OnlyTheBacklogIsSaved`, `FreezesOnlyUnreadable` |
| `firestore_write` | two users, four writes, a pipeline of two (ten in the code), three faults | `Consistent` (`TypeOK`, `ResultsCorrelate`, `IdleOnlyWhenUnneeded`), `PipelineIsQueueFront`, `CallbackHasBatch`, `NoWriteLost`, `NewestWins`, `ErrorBlamesRefused`, `WritesDrain`, `Implements` |
| `firestore_tokens` | two users, the app started by one of them or by nobody, two sign-ins or faults, two writes | `Consistent` (`TypeOK`, `OneLiveRequest`), `StreamUsesItsUser`, `FiledUnderOwner`, `CredentialsSettle` |
| `firestore_read` | two gets of one collection, two faults, one change, two messages under way | `Consistent` (`TypeOK`, `TimerOnlyWhileUnknown`, `StreamWhileNeeded`), `ListenersHaveTargets`, `AnsweredOnce`, `CurrentWasTold`, `CountedUnlessDropped`, `GetAnswered` |
| `firestore_read_timer` | the same with one fault and a backend that may keep silent | violation of `OnlineStateDecided` |

`TypeOK` of the app's modules, `OneTimer` and `AlignedIsFresh` are in no run: they are proved for all values (section 5).

Why the bounds are enough.  The clock's behaviour repeats every minute, so 85
seconds meet every boundary with a code made before, on and after it.  Late
answers need one read under way, one change of the list or of the user, and the
events these queue, which fit in `MaxLoad`; two users and one account each give
every case of foreign and own.  A cell goes wrong through another cell or another
view model, so two of the one and three of the other (one to come new) suffice.
A text has three markers, and a fourth repeats one of them.  A pipeline of two is
full with a write left over; three faults are a lost answer, the loss of what was
sent again, and a restart or a change of user between them.  A late token needs
one request, one change of user and one more that undoes it.  Two gets of one
collection share a target, one removing it while the other adds it; two faults
are the error of a target and the loss of the stream after it.  The theorems of
section 5 hold without bounds.

Fairness.  `CodeClock`: time passes and a due timer fires, which is what an
active run loop does.  `AccountStore`: the main thread serves its queue, the
Firestore worker its own, and a read is answered or fails in the end.
`RefreshEnds` and `OwnListReturns` take that no read of the user's own fails.
`CellBinding`: the main thread serves its queue.  `Session` and `QRScanner` have
safety properties only.  `WriteSync`, `StreamAuth`, `QueryGet`: the three queues run their tasks
and timers, a fetch of a token ends, and on a connection that is not lost the
backend answers; faults are bounded, so liveness speaks of what happens once they
have ended.  `firestore_read_timer` asks the client's half only, since the
timeout is there for a backend that does not answer.  Deadlock is not checked
where the system may rest: nothing to send, nothing asked.  Nothing is ever
asked of the user, of a relaunch or of a suspension.

## 4. What the violations show

- `clock_stale`: `nearestPointDivisibleBy30` takes second 29 for the second half
  of the minute (`second < 29`).  A code generated in that second belongs to the
  first half, its countdown to the second, and the code stays for the whole next
  window.  The same happens when a window ends between two clock readings of
  `generateCode`.  `StaleByOneWindow` bounds the damage: never more than one window.
- `store_delete`: the row index is kept while "Delete this account?" is on the
  screen.  A refresh or an auth event that ends meanwhile puts another account at
  that index, or none, and then the subscript traps.
- `firestore_read_timer`: the online-state timer has taken the client offline, a
  get was answered from the cache and its listener, the last one, is removed
  while the stream is still being opened.  `StopListening` then calls
  `UpdateState(Unknown)`, which clears the timer and the count of failures, but
  the stream stays started.  The next `Listen` finds it started, so it neither
  starts it nor sets the timer, and while the backend says nothing the state
  is unknown and the get not answered, although the comment promises that the
  client does not wait "indefinitely".

Other weaknesses are stated as properties that say exactly when they occur, which
is more than an example of them:

- `ForeignOnlyByLateAnswer`: the answer to the previous user's read may reach the
  main queue behind the listener's call that clears the list, and the callback does
  not compare the uid; the next user is then shown the previous user's accounts.
  This is the only way.  `OwnListStays` and `OwnListReturns` say that it passes: once
  no read of another user is under way none is started, a list the listener has
  cleared stays free of other users' accounts, and the answer to a read of the
  user's own, on the way or asked by a refresh, removes what a late one has listed.
  Without such a read it stays.
- `AgreementKept`: list and store part only by a change of user or by the answer
  to a read that was served before a later save or deletion.
- `RowFreezesOnlyByReuse`: a visible row stands still only because a cell that was
  bound to its view model before is reused (`prepareForReuse` takes the listener
  away whoever holds it), or because the row is asked for at a new place of the
  list before the table is reloaded; `TrapOnlyBeforeReload`: `cellForRowAt` traps
  only while the reload of a shorter list is still queued.
- `OnlyTheBacklogIsSaved`: `stopRunning()` does not take back callbacks that are
  queued, so one visit may save several accounts, but no code that is seen later.
- `ErrorBlamesRefused`: a write is reported as refused though it was stored exactly
  when a later one is refused, answers are unread, and another message fails to
  be sent first: gRPC's failure then drops the unread answers.
- `CountedUnlessDropped`, `GetAnswered`: the error of a target that crosses another
  request for it upsets the count of outstanding answers, and the target is
  inactive, and a get of it unanswered, until the stream ends.
- `CurrentWasTold`: a target watched again before its removal is answered is taken
  for current when it is added, before the backend has said so.  A target that had
  an error on the stream is exempt: once the error has crossed another request, the
  count of its answers is short, the target counts as active while a removal of an
  earlier watch is still unanswered, and `current_` may then be of that earlier
  watch.  It takes more requests under way than the bounds of the run allow, and
  was found when the proof was planned.

What holds by more than one means: in `StreamAuth` the token counter and the close
count guard the same races; taking either away alone is not observable in
`StreamUsesItsUser`, only restarting the stream on a change of user is needed for
it.

Hazards without a property of their own are listed in `PROJECT.json` with the
reason.

## 5. Proofs

All theorems are of the form `Spec => []P` or `Spec => [][A]_vars`, for every value
of the constants that the named assumptions allow (finite sets where the code has
finite ones, timing in ticks, `MaxLag` below one window).

- `CodeClockProofs`: `TypeCorrect`, `SingleTimer`, `BoundedStaleness`,
  `AlignedFreshness`, `HonestCountdown`.  Each property relates the clock and the
  code, and what ties the two together is the moment `r` at which the clock was
  last read for the countdown.  The invariant (`Published`, `Driven`) says that
  the countdown starts with the code's window or exactly one after it, and that
  there is one timer, due within a second of `r` and not beyond the expiry by more
  than a handler's lag.  A suspension of any length keeps it; `Settled` then
  bounds how far the clock can be ahead.
- `AccountStoreProofs`: `TypeCorrect`, `ScreenIsCurrent`, `ListedOnce`,
  `ForeignListing`, `Agreement`, `OwnListKept`.  `ListedOnce` needs that ids in the list, the
  store, the worker's queue and the answers under way are all among those given
  out, and that every answer on its way is itself without repetition;
  `ForeignListing` needs that answers and writes are about accounts of the user
  they are for (both in `Tidy`).
  `Agreement` needs that no `set` of an id follows its `delete` in the worker's
  queue (`SetsFirst`), so that what the store will hold does not depend on when
  the worker comes to it (`IntendedTakeOp`).
  `OwnListKept` follows reads through the worker's queue, the reads taken and the
  main queue: whoever begins to read is signed in at that step (`ReadersNext`), so
  when the readers are the signed-in user alone they stay so, and a foreign list,
  which by `ForeignNext` takes an answer to somebody else, cannot come.
- `CellBindingProofs`: `TypeCorrect`, `OwnCode`, `LiveRows`, `TrapCause`,
  `FreezeCause`.  The invariant is the
  conjunction of the properties: they are stated over what a cell will show once
  the queue is served (`ShownAfter`), which three lemmas carry through appending
  a block for this cell, a block for another one, and running the first block.
  The causes of traps and of freezing need that the table agrees with the list it
  was loaded from unless a reload is queued, and that no two rows show one view
  model (`Table`).
- `SessionProofs`: `TypeCorrect`, `Covered`, `ScreenFits`.  Strengthened by: a
  button is enabled only with an email typed, profiles belong to registered users, and between the
  halves of signing up the user is registered, has no profile, and is the one
  signed in, if anybody is (`Halfway`).
- `QRScannerProofs`: `TypeCorrect`, `CameraOff`, `FreezeCause`, `BacklogOnly`, and
  for texts of any length `SavesScanned` and `NoTrapOnUri`.  The two rest on lemmas
  about `OtpUri`: a marker that occurs has a first place (`FirstPlace`, from the
  least element of a set of naturals), which is what `Index` chooses, so a text
  that is parsed without a trap is a URI with the fields cut (`ParsedIsUri`), and
  in a URI the first places are in order (`UriDoesNotTrap`).

- `WriteSyncProofs`: `ConsistentAlways`, `PipelineAlwaysFront`,
  `CallbacksHaveBatches`, `NeverLost`, `NewestAlwaysWins`, `BlameIsLimited` and
  `Refinement` (that `WriteSync` implements `PendingWrites`), for any users, any
  `kMaxPendingWrites` above zero and any number of writes and faults.  None of
  them is inductive, not even together: that a removed batch is settled depends on
  what its response means, which depends on what was sent.  The invariant `IInv`
  therefore follows a batch all the way.  Queues grow in ids and in write numbers
  (`Ordered`); the pipeline is the front of the queue (`FrontOf`); after the
  handshake the responses and requests under way are the pipeline, place by place
  (`Correlated`); what has a response is committed and not older than the last
  commit, and a permanent end has refused the batch behind the responses
  (`Answered`); so whatever leaves the head of the queue is settled and older than
  all that stays (`Settled`).  `FillKeeps` shows that `FillWritePipeline` keeps
  pipeline and stream in step, `HeadLeaves` that `HandleSuccessfulWrite` and
  `HandleWriteError` may remove the head.  In the refinement a result or an error
  is `Settle`, a commit of the backend is `Commit`, a change of user `Switch`, a
  relaunch `Restart`; handshakes, backoff, idling, lost connections and refusals
  change nothing that `PendingWrites` has.

- `StreamAuthProofs`: `ConsistentAlways`, `StreamUsesItsUserAlways` and
  `FiledUnderOwnerAlways`, for any users, sign-ins, refreshes, faults and writes.
  Nobody holds a lock over the three queues, so the invariant says how their
  knowledge fits: what a queue tells last is what its sender knows now (`Tells`),
  and a message is about the user its queue has told up to its place (`TellsAt`).
  A token of the present counter is thus for the user the provider will hand it
  over for (`Callbacks`), a token of the present close count for the user
  SyncEngine will have (`Resumes`), and a write for the user it will be filed
  under (`Writes`).  `AtHome` says why the app's uid is the provider's: the home
  screen is shown by a completion queued behind the announcement of its user.
  `UnderWay` follows the one live request through the work queue, the main queue
  and the worker queue.

- `QueryGetProofs`: `ConsistentAlways`, `ListenersHaveTargetsAlways`,
  `AnsweredOnceAlways`, `CountedUnlessDroppedAlways` and `CurrentWasToldAlways`, for
  any finite sets of gets and queries and any bounds.  A task of the worker goes
  through up to four classes, so each operator of the client is first shown to do
  what a relation between its argument and its result says (`Shows` for what tells
  listeners, `Handled` for the aggregator, `Requested` for requests, `Rejected` for a
  target's error); each action is then one of a few such relations, and three
  invariants are shown to be kept by these.
  `Sane` holds the types, the assertions of the tracker and of the stream, that
  nothing is left of a stream that has ended (`Clean`), and that listeners and
  targets go together; it implies the first two theorems.
  `AllOnce` follows a get from its call to its answer: it is in the queue once, it
  listens or an event for it is under way, an error is the last event it gets, a
  listener that is muted was called back, and one that is not muted and may still
  have events was not (`Once`).
  `AllKnown` says of every target that had no error on the stream that no fewer
  answers are counted than are to come, and of one that is not listened to that
  every watch under way is followed by its removal, so that it is not both forgotten
  by the client and current when the last answer is counted (`Knows`).
  `CountedUnlessDropped` follows from the same steps and `Sane`: requests
  and answers change the count and what is to come alike (`Even`), a new stream
  starts with both equal (`OpenedKnows`), and only a target's error changes one of
  the two.

Only model-checked: all liveness (`ExpiredIsReplaced`, `RefreshEnds`, `OwnListReturns`,
`LabelsArrive`, `WritesDrain`,
`CredentialsSettle`, `GetAnswered`), which the prover does not reach.  Every safety
and action property that a run checks is a theorem.

## 6. Not modelled

Layout views, keyboard handling and navigation bars have no state a property
could be about.  `AppDelegate` only configures Firebase.  `handleTime()`,
`closeButtonTapped()` and `found(code:)` are never called.  HMAC and Base32 are
computations on bytes that no property here tells apart.

The repository carries its pods, about 660,000 lines of C, C++ and Objective-C
beside 1,600 lines of Swift.  Most of it is BoringSSL, gRPC, abseil, leveldb,
nanopb, root certificates and generated protocol code: cryptography, transport,
storage and tables that the app reaches only through Firestore's interface, and
that are modelled by what that interface promises (messages of a stream in order,
a transaction on disk that is done or not).  The map therefore covers the app and
the parts of Firestore and FirebaseAuth on the app's paths, and a small share of
all lines.  Of Firestore, what the app does not use is left out (transactions,
snapshot listeners that stay, bundles, limits, indexes), and so are limbo
resolution, garbage collection and the contents of documents; of FirebaseAuth
the providers, multi-factor sign-in and the keychain.

Assumptions about what is external: a stream the client has closed has no further
effect on the backend; the backend answers the requests of a stream once and in
order, except that it may drop a target with an error at any time; a target that
is reset had documents; FirebaseAuth puts the notification of a sign-in and the
completion behind it on the main queue with nothing between them (`SignIn`).

Left out of the modules of Firestore: in `WriteSync` and `QueryGet` a stream that
the server ends with status OK, in `WriteSync` a response that cannot be parsed, in
`QueryGet` resume tokens.  What is modelled and not covered by a property: the
countdown in the hour repeated at the end of daylight saving is wrong for certain
(`clock` takes `FoldShift = 0`; the theorems of `CodeClock` hold for every value, and
bound the age of the code there too); without a connection the completion of
`setData` never comes, and the activity of a sign-up does not end.  `ErrorBlamesRefused` and `CurrentWasTold` bound a hazard of
the code rather than exclude it.  That a get waits for ever on a silent backend is
the violation of `OnlineStateDecided`, not a case of `GetAnswered`, whose fairness
has the backend answer.

## 7. Plan

1. `CodeClock`, `AccountStore`, `CellBinding`, `Session`, `QRScanner`, with their
   runs and theorems: done.  `OtpUri` under the scanner: done.
2. Firestore and FirebaseAuth under the app (`WriteSync` with `PendingWrites`,
   `StreamAuth`, `QueryGet`): done.
3. Proofs that `WriteSync` implements `PendingWrites`, that a stream uses its user's
   token and files writes under their owner (`StreamAuth`), that the list of a
   signed-in user stays the own one (`OwnListStays`), and of the safety of `QueryGet`: done.
4. `App`: `Session` and `AccountStore` composed over one main queue, with
   `PendingWrites` for the store.
5. The layout pass of the table, which asks for all visible cells in one go; limbo
   documents in `QueryGet`.
