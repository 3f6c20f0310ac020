# RCIOS-SDK: a verification project in TLA+

RCIOS-SDK is a kit for iOS apps in Objective-C: a networking layer with caches,
a manager that keeps an app running in the background, and a collection of
views (a keyboard of digits, pop views that get out of the keyboard's way,
pickers, automatic cell heights), with a demo app around them. There is no
server and no database of its own. What is hard in it is what happens between
callbacks: blocks put off to the main queue, timers nobody cancels, requests
that answer after they were cancelled, a run loop on a second thread, views
that UIKit frees, caches that must follow the rows they describe.

The modules here model those parts, TLC checks them on small instances, and
TLAPS proves the central invariants for every instance.

## 1. Inventory

Paths: `S` is `src/RCIOS-SDK`, `P` is `src/Project/RCIOS-SDK`.

| Part | State | Operations | Meets |
|---|---|---|---|
| **Managers** (`P/RCNetworking/Components/BaseAPIManager/RCAPIBaseManager.m`) | `requestIdList`, `isLoading`, `errorType`, `errorMessage`, `fetchedRawData`, `response` | `loadData...`, success and fail callbacks, `cancelAllRequests`, `cancelRequestWithRequestId:`, `cleanData`, `fetchDataWithReformer:` | the proxy, the caches, the service, its delegate, validator, interceptor |
| **Proxy** (`.../APIProxy/RCApiProxy.m`) | `dispatchTable`: task identifier to task | start a task, its completion block, cancel by identifier | AFNetworking, the managers by blocks |
| **Response caches** (`.../CacheComponents`) | an `NSCache`, entries of `NSUserDefaults` | look up (an expired entry is dropped), save, clean | the managers, the wall clock |
| **Background run** (`S/BackTask/RCKeepBGRunManager.m`) | two timers, a run loop, a background task, a player | `startBGRun`, `stopBGRun`, the block on its serial queue, ticks, expirations | `AppDelegate`, the system's background tasks |
| **Cell heights** (`S/Widget/SDAutoLayout/UITableView+SDAutoTableViewCellHeight.m`) | height and frame caches per index path, the width | heights asked, insert, delete, reload, prepend, a new width | `UITableView` (swizzled), the layout engine |
| **Digit keyboard** (`S/KeyBoardDigitalView/KeyBoardDigitalView.m`) | the field served, the panel, a borrowed foot view and its way home, registrations | a field begins or ends editing, hiding, two timers | text fields, the app's views, UIKit |
| **Keyboard manager** (`S/PopView/MidPop/YYKeyboardManager.m`) | last frame, last notification, last observed frame, flags, the transition, delayed performs | two notifications, key-value observation, `_notifyAllObservers`, `keyboardChange:` | UIKit, the run loop, its observers |
| **Pop views** (`S/PopView`) | on the window or not, the origin | `showPopView`, `dismissPopView`, `keyboardChangedWithTransition:` | the keyboard manager, the app |
| **Date sheet** (`S/PickerView/DatePicker/STPickerDate.m`, `NSCalendar+ST.m`) | limits, the date selected, three indices | limits set, a date selected, a wheel turned, OK, cancel | `UIPickerView`, `NSCalendar`, the app |
| **Common picker** (`S/PickerView/STPickerView/STRCCommonPickerView.m`) | up to three indices into lists of the app | rows selected by the app, a wheel turned, OK, cancel | `UIPickerView`, the app |
| **Period sheet** (`S/PickerView/DatePicker/DoubleDatePickerView.m`) | the label selected, the app's dictionary | labels and presets pressed, a wheel turned, OK | `UIDatePicker`, the app's dictionary |
| **Drop-down list** (`S/Widget/DownSelectView/DownSelectView.m`) and **department view** (`S/PopView/MidPop/KPDepartSelectPopView.m`) | models selected, their buttons; the department chosen | opening, a touch, closing; the list's answer, OK, cancel | the app, each other |
| **Small widgets** (`SortSelect`, `PasswordInputView`, `UIButton+EventUnavailabel`) | a selected button, a text, a flag | taps, keys, a timer | the app |
| Tab bar, web view, labels, refresh headers, database demo, demo controllers | layout, or the state of a library | | |
| Vendored pods | | | AFNetworking, MJRefresh, Masonry, LKDBHelper ... |

What makes each part correct:

* **Managers and proxy.** Every call of `loadData` is settled exactly once. The
  two books of requests agree with each other and with the network. Cancelling
  one manager's requests touches nobody else's. What a delegate reads when it
  is told of success is the data of that call.
* **Caches.** They hold only bodies that a validator accepted, under the key
  they were asked for, and the two layers do not contradict each other.
* **Background run.** What runs in the background stops in the foreground; no
  task is ended twice; the player does not play on.
* **Cell heights.** No cached height is ever that of another row or width, and none
  is lost while its row stays.
* **Digit keyboard.** It serves the field that is edited, gives borrowed views
  back and lets go of everything.
* **Keyboard manager and pop views.** Whatever arrives in whatever order, the
  manager ends up with the keyboard's frame, and no pop view stays covered.
* **Pickers.** The value reported is the one shown, and within the limits. A
  period has both ends, in order.
* **Lists.** The row marked, the model selected and what the delegate was told
  are one.

`PROJECT.json` lists every hazard at the line where it bites, and the
properties that cover it.

## 2. Modules

| Module | Models | Extends or uses |
|---|---|---|
| `RCCacheCenter` | the two caches and the clock | |
| `RCAPIManager` | managers, proxy, tasks, main queue | extends `RCCacheCenter` |
| `RCCallContract` | abstract: what one call goes through | refined by `RCAPIManager` |
| `MCRCNetworking` | instances | |
| `RCAPIManagerProofs` | theorems: types, the books of requests | |
| `RCAPICallsProofs` | theorems: the contract, the caches, success | extends `RCAPIManagerProofs` |
| `RCKeepBGRunManager` | the background run, two threads | |
| `RCKeepBGRunProofs` | theorems | |
| `SDCellAutoHeightManager`, `MCSDCellHeights` | cell height cache under a table view | |
| `SDHeightMemo` | abstract: a memo of the rows | refined by `SDCellAutoHeightManager` |
| `SDCellHeightProofs` | theorems | |
| `KeyBoardDigitalView`, `MCKeyBoardDigitalView` | the digit keyboard | |
| `KeyBoardDigitalProofs` | theorems | |
| `YYKeyboardManager` | transitions of the system keyboard, and UIKit as it meets it | |
| `PopBaseView`, `MCPopBaseView` | pop views as its observers | extends `YYKeyboardManager` |
| `PopBaseProofs` | theorems | |
| `UIPickerView` | external: a wheel of UIKit | |
| `STPickerDate` | the date sheet | extends `UIPickerView` |
| `STRCCommonPickerView` | the sheet over the app's lists | extends `UIPickerView` |
| `DoubleDatePickerView` | the sheet for a period | |
| `DownSelectView` | the drop-down list | |
| `KPDepartSelectPopView` | the pop view with such a list | extends `DownSelectView` |
| `MCPickers` | one sheet or list at a time, as the demo shows them | extends all five |
| `PickerProofs` | theorems on the common picker, the period and the date sheet | |
| `ChoiceProofs` | theorems on the list and the department view | |

Every definition is tied to its lines by `map` in `PROJECT.json`. Names are
those of the source where TLA+ allows it. A definition announced with
"Mutant:" is never used by the model: it is a plausible mistake in the
definition that follows it, kept because putting it in that place makes a
property fail.

### 2.1 Networking

A call is numbered by `issued`; its number also stands for its task and for
the body the server returns to it, so that a body tells whose it is. A load
is one action per way `loadDataWithParams:` returns: refused by the
interceptor, invalid parameters, answered from a cache, unreachable, sent to
the network. A task finishes at any time (also one that was told to cancel,
with its answer) and queues a completion block. That block leaves both books
and either fails or succeeds, and then queues one more block, in which the
delegate is told. An interceptor is asked twice: about a success before its
block is queued, about a failure within it (`DeliverFail`), and there it can
keep the failure from the delegate, so that without a `failBlock` nobody is
told. A response whose status is an error comes with a body (`badStatus`), which
the service may consume as it does that of any failure; a task that times out
or finds no network has none. Between any two blocks the app may call any
manager.
`SessionOf` says whether a service shares a session or, as `DemoService`
does, has none, in which case each request has a session of its own and each
identifier is 1. `Discipline` says how careful the app is: it calls at any
time, only when `isLoading` is NO, or only when the last call was answered.

`RCCallContract` is the promise: a call is refused, or it ends exactly once,
as told, handed over (token notifications, errors of the body that the
service consumes), withheld by an interceptor, or lost with the process. A call
that waits for its last block is `succeeding` or `failing`, by the kind of that
block: a success that waits is always told, a failure told or withheld.

`LayersAgree` is about managers that use both layers. Where policies differ, or the
disk layer was cleaned alone, the disk lookup hides a live memory record; no
text says which layer should win, and the hazard is listed without a property.

Left out, with the reason:

* The key of the caches: its formatting does not depend on state.
* `cancelAllRequests` in `dealloc`: a manager with a task in flight is retained
  by its completion block, so it finds nothing to cancel.
* A clock that is set back. Ages are differences of an advancing clock.
* Logging, and reformers, which read only.
* Calls from within a delegate's method: they come to the same as a call
  right after the block.

A validator that is not there answers 0, the type for a missing access token;
`ParamVerdicts` and `BodyVerdicts` include such verdicts. `DemoService` ignores
the body of a response, which is `ServiceKeepsBody = FALSE`.

### 2.2 Background run

The main thread and the thread that serves the serial queue share properties
without a lock. `startBGRun`'s block is taken one assignment at a time
(`place`), `stopBGRun` in the pieces that the other thread can tell apart
(`stopping`). Property accesses are taken as atomic. `CFRunLoopStop(NULL)` and
a timer that is nil for `addTimer:` crash (`crashed`). A run loop whose timers
were invalidated by another thread is not woken by that, so its return
(`LoopDrains`) may never come. `hasty` records that `stopBGRun` was called
while no loop ran (`LoopRuns`), the case that the run `bgrun_stop` reports.
Whether a block waits behind the loop is no part of that premise: `Stoppable`
shows that without a hasty stop none does while a stop is under way, and
`CrashesOnlyHasty` that the two nil arguments are met after a hasty stop only.
An expiration block that ends a later task than the one that expired, and tasks
that are begun and never ended, do happen; no text promises otherwise, and both
are listed as hazards without a property. The system decides how much time is left at a tick. The
audio session's set-up and the printed counter are left out.

### 2.3 Cell heights

The table's rows change together with the call that announces the change.
A cached value records the row and the width it was computed for: so a value
in the wrong place shows. A model cell is assumed to exist and to lay out its
subviews automatically; frames that are cached then win over resizing. The
reaction to a new width has two halves: frames are cleared at once, heights in
a later block. `misled` records two changes that the code does not support and
does not check: `moveRowAtIndexPath:`, which it announces as still to be
implemented, and several deletions that are not listed from the last row to
the first.
A call names up to `MaxAtOnce` rows of one section; the code treats sections
one after the other, so that a call over several sections (also
`reloadDataWithInsertingDataAtTheBeginingOfSections:`) comes to the same as one
call per section before any height is asked.
`updateLayoutWithCellContentView:` with a cell's stale index path is not
modelled.

`SDHeightMemo` is the promise of the header: heights that were computed are
kept and go with their rows. The paths are gone: a memo holds rows with their
widths, each measured once; a change of the table forgets those that leave it
and no others; `reloadData` starts anew; an unsupported change loses the memo
until then. So where `CachesFit` says that nothing wrong is remembered, the
refinement says that nothing is forgotten either.

### 2.4 Digit keyboard

One keyboard serves all fields. Going from one field to the next posts no
notification that the keyboard hides; hiding starts two timers for each
registration with the notification centre, and nothing cancels a timer. Timers
of different hidings fire in any order; of one hiding, `reductionView` comes
before `keyBoardDismiss`. UIKit frees a panel that nobody holds, and the weak
references to it become nil. `disturbed` records that a field began editing
while timers were still to come, or with a foot view other than the one the
keyboard holds. Without that premise `ServesFocus` and `FootIsSafe` fail: a late
`keyBoardDismiss` takes down the keyboard of the next field, and a foot view
can take an old panel for its home. Left out: `headView`, `upToView`, the
text the keys edit, fields with the system's keyboard, controllers that go away.

### 2.5 Keyboard manager and pop views

`YYKeyboardManager` holds the manager and, marked as external, UIKit: the
keyboard is announced to change, its view is given frames, the end of each
animation is announced in turn, also of one that a later one replaced. The user
drags a keyboard that is at rest; the view may be replaced, and the new one is
not observed until the next notification. `PopBaseView` adds views that come,
go and are told. Each showing is of a new view, as in the demo; rich text is
shown in a later block, which is a later showing. A frame is reduced to its
upper edge, a pop view to the lower edge of its centre view; all windows fill
the screen, so converting rectangles changes nothing.

`late` holds pop views shown since the manager last noticed a change: they are
not told where the keyboard already is, and can stay covered until it moves.
No text of the repository promises more, so the properties leave them out and
the hazard is listed. `KPRedAlertPopView`, `KPBandingUnitPopView` and
`KPAddProFinishPopView` show themselves without observing the keyboard.

### 2.6 Pickers and lists

A user meets these sheets one at a time; each is made anew and they share
nothing. So `MCPickers` is a sum: it takes the steps of whichever sheet
is on the screen, and one run explores all of them.

`UIPickerView` is external. A wheel has the rows it was told of when it was last
loaded or reloaded, and keeps its row within them (`Within`); it is at rest
when anything is read from it. It asks for its rows the first time when it is
laid out or when a row is selected, whichever comes first.

`STPickerDate` keeps apart what the code keeps apart: the date, the three
indices, and, in the wheels, how many rows there are, which one is shown and
what the first is labelled. A turn changes an index, reloads, and reads the
date back. `misled` records what the code does not follow: limits set when the wheels
are loaded, when another year is selected, or without their day; a selection
before the begin; `setSelectLastOne` in the first year, which counts from its
January. The app sets and selects real days that are not in the future, and
today is after 2015, the year the wheels begin with unless told otherwise
(`DateAssumption`). `hiddenDay` is left out: it makes a sheet of two wheels that then
asks for the third.

`STRCCommonPickerView` names a value by the rows that lead to it, so a value
taken from another list shows. `moved` records that the third wheel was moved
by something other than the user's turn of it, `astray` that the app selected
rows the wheels were not loaded for. Without these premises what is told is
not what is shown, the finding of `pickers_confirm`, and `selectedOk` can meet
an index beyond its list (`crashed`).

`DoubleDatePickerView` reduces times to days: the code cuts a begin to the start
of its day and moves an end to the end of its day when it saves. The dictionary
is the app's and outlives the sheet; days pass while a sheet is up
(`Midnight`). `crossed` records that the begin was moved with an end in place:
the wheel then has no limit at the end, and a period may be told in which the
begin is later. No text of the repository rules that out.

`DownSelectView` makes its buttons for the first list it is opened with.
`reopened` records that it was opened with another list afterwards, when
buttons and models part. `KPDepartSelectPopView` makes a new list each time.
`stray` records that the app passed a present department that is not in the
list: row 1 is then marked though another department is shown and confirmed.

What these premises leave out is left out of the properties too: a use outside them
(`misled`, `disturbed`, `crossed`, `reopened`, `stray`, `late`) is not shown to go
well, and for most of them it does not. Each is a hazard of its own or part of one,
and its note in `PROJECT.json` says so.

## 3. Runs

Passing runs:

| Run | Instance | What it shows |
|---|---|---|
| `networking_serial` | 2 managers, 1 session, 2 calls, both caches, 2 times, tasks that time out or answer with an error status | Calls are settled once, and in the end (`ImplementsContract`, a refinement with liveness); the books agree; caches hold accepted bodies and do not contradict each other; success shows its own call; cancelling is local |
| `networking_per_request` | 2 managers, 3 calls at any time, a session per request | With colliding identifiers no call is lost or answered twice, and no spinner is left on without a task |
| `bgrun` | 3 starts, 4 tasks, 2 blocks queued | Unless a stop was hasty, nothing is nil where it crashes, what runs is in reach of the next stop, stops, and falls silent; in any case the task held is one not yet ended |
| `cell_heights` | 2 sections of up to 3 rows, 3 rows, 2 in one call, 2 widths, 1 reload due | No entry belongs to another row or, with no reload due, another width; an insertion meets a missing entry only during a turn; the caches are a memo of the rows that stay (`ImplementsMemo`) |
| `digit_keyboard` | 3 fields, 2 foot views (1 with a home), 4 panels | Undisturbed, the keyboard serves the field and the foot view is safe and comes home; in any case it lets go of everything |
| `pickers` | today 2016-03-02, 3 begins, 2 selections; sheets of 2 and 3 wheels over 2, 3 or 2, and 0 to 3 rows; 4 dictionaries, 2 presets, days 3 and 4; 5 models, 3 lists; 3 departments | Not misled, the date sheet offers all dates from begin to today that agree with the wheels before, and tells the one shown; a common picker tells what its wheels show; a period has both ends in order; one row is marked, selected and told |
| `pop_views` | 3 frames, 2 pop views, 2 changes, 2 calls due | At rest the manager has the keyboard's frame, nobody who observed a change is covered, and pop views return to the middle |

Runs that TLC must find violated, each because the code does otherwise than a
text of the repository says (`findings` in `PROJECT.json` quotes the text):

| Run | Property | What happens |
|---|---|---|
| `networking_success_usable` | `SuccessMeansUsable` | the delegate is told in a later block, by which time a second call has changed the manager |
| `networking_cancel_foreign` | `CancelsOnlyOwn` | identifiers of different sessions collide, and one manager cancels the task of another |
| `bgrun_stop` | `StopAlwaysStops` | `stopBGRun` finds no timer yet and does nothing; timers and loop start afterwards |
| `pop_views_transition` | `TellsOfChanges` | observers are told of a transition from a frame to itself |
| `pickers_confirm` | `ConfirmedIsShown` | the third value is that of an index that no longer is the wheel's row |

### Bounds

* **Two managers** are needed for requests to be confused, and a third would only
  add a bystander. Two calls cover an answer from a cache and a call that
  overtakes; three calls in `networking_per_request` put two colliding tasks
  of one manager beside one of another. One key is enough with bodies that
  tell whose they are; keys do not interact. `MaxTime = 1` with cache times of
  1 is the boundary where memory (`<=`) and disk (`<`) differ.
* **Three starts** let a block wait behind a loop that was never stopped, and a
  third replace the timers that the second left. `MaxTasks` allows one
  renewal by a tick; two queued blocks let a tick and an expiration cross.
* **Two sections** show that moves stay in their section. In one section of three
  rows there is a row above, at and below every change; two rows in one call
  (`MaxAtOnce`) have an order and a gap between them.
* **Four panels** let a hiding's timers outlive two later fields. Two of the
  fields share a foot view, the third has one without a home.
* **Two changes** of the keyboard, with drags and sets of the frame between them,
  leave two ends to be announced when the second interrupts the first.
  `MaxTells = 2` is a hiding's call behind a showing's.

* **Dates.** Today is early in March of a leap year, so that today's month is
  short of its end, the month before has 29 days and the year is the
  current one; begins lie on the last day of a month, two years back, at the
  end of a year, and in the current year. The
  wheels' behaviour depends on the first and the current year and month and
  on the months between them, all of which occur.
* **Lists of a common picker** differ in length from row to row, so that an index of
  one list is beyond another, and some third lists are missing.
* **Days 3 and 4** leave room for two presets, a begin before an end, and one
  midnight. **Five models**: three that only select and two that sort; lists of
  different lengths, one of which is opened after another. **Three departments**,
  two of one name, the default not the first.

`CHECK_DEADLOCK FALSE` is set everywhere: the bounds end every behaviour, and
an app that does nothing is no error.

### Fairness

Each is weak fairness of a step that the system owes, never of the app or user:

* Networking: the main thread serves its queue; a task finishes, since its
  session has a timeout.
* Background run: both threads run when they can; a timer in a running loop
  fires. Not: a loop without timers wakes up; a tick finds any particular time
  left.
* Digit keyboard: the run loop fires timers.
* Pop views: the run loop performs what is due; UIKit's animations reach their
  frame and are announced.

## 4. Proofs

All theorems hold for every value of the constants that satisfies the named
assumptions of the modules, which TLC evaluates in the passing runs.

* **`RCAPIManagerProofs!TypeCorrect`.** `TypeOK` is not inductive: an identifier
  must stay within `Calls`. `TypeInv` adds that a session has handed out no
  more identifiers than there were calls (`IdsBounded`).
* **`RCAPIManagerProofs!BooksAgree`, `CancellingIsLocal`**, under `SingleSession`:
  all services hand out the same session. The invariant `BooksInv` adds to the
  agreement what keeps it: a task has a call and an identifier handed out
  before (`TasksKnown`), no two tasks share one (`IdsDistinct`), and a
  completion block stands for one finished task and is alone (`QueueOK`). That
  a manager cancels only its own tasks follows. Without `SingleSession` it is
  false, as `networking_cancel_foreign` shows.
  **`LoadingHasATask`** follows: a manager with an identifier on its list has a task.
* **`RCAPICallsProofs!CallsKeepContract`**: `Spec => Contract!Spec`, the refinement of
  `RCCallContract` but for its fairness, for any sessions and any discipline. What
  makes it inductive is that a call without an outcome has one carrier
  (`CallCarried`: a running task and no block, a finished task and one
  completion block, or no task and one answer block) and the others none:
  only then does a block that is served meet a call in the phase that the
  contract expects, and the kind of the one answer block (`OneAnswer`) say whether
  the call is succeeding or failing, whatever other blocks come and go
  (`SameAnswer`). Each load is shown to issue the next call, each completion
  to decide a pending one, each delivery to answer a waiting one (a success by
  telling, a failure by telling or withholding), and a restart to lose those and
  no others. **`EveryCallIsCarried`** is read off the
  same invariant. **`OutcomesAreFinal`** is what the refinement is for: no step of
  the contract leaves a final phase (`FinalStays`), so no step of the code gives a
  call a second end. It is proved only: the run checks it through the refinement.
* **`CachesHoldAccepted`** and **`LayersHoldTheSame`** rest on one lemma: every step but
  a completion with a body only drops records and renumbers no call
  (`OnlyCompletionsSave`). The second assumes that every manager uses both layers.
* **`SuccessWaits`** and **`SuccessUsable`** assume `Discipline = "serial"`. A manager then
  has at most one call without an outcome (`OnePerManager`), so nothing touches
  it between queueing a success block and serving it; what came from a cache
  belongs to a call made before (`Shown`), so that no later call changes its key.
  The second theorem is the promise that `networking_success_usable` finds
  broken for an app that only checks `isLoading`: the pair says what an app
  must do to rely on it.
* **`RCKeepBGRunProofs!NoCrash`, `RunningIsStoppable`, `HeldTask`, `TypeCorrect`.** Until the first hasty stop,
  the life of one start has phases: the block builds timers and loop while the
  app stays in the background (`Building`: what exists depends on the block's
  place alone), then the stop and the loop's return take all apart (`Leaving`:
  it depends on the place in `stopBGRun` alone). In each phase what is passed to
  `addTimer:` and `CFRunLoopStop` exists, which is `NoCrash`. Types are proved only. That every start has one block
  (`BlocksCounted`) ties the two.
* **`SDCellHeightProofs!HeightTypeTheorem`, `CachesFitTheorem`, `CrashTheorem`,
  `MemoTheorem`**, for any sections, rows, widths and any number of rows in one call. Every call
  that announces a change is shown to be one `RowsStep`: a map `F` from index
  paths to index paths says where each path's row was (`Moves`), and the two
  dictionaries are rekeyed by the same map (`Follows`); only then does an entry
  stay with its row (`EntriesStayFit`) and none get lost (`EntriesKept`). For deleted
  and inserted rows the map counts the changed places below a place; `AtPlace`
  and `PlaceWithout` are proved inverse to each other and monotonic from the
  cardinalities alone. **`DeletionsTogether`** is the step from the code's loop, one
  shift per deleted path, to one such map: by induction on the number of paths, last
  row first. `HeightInv` adds to the three invariants that frames never
  outlive their heights, and are missing only before a reload
  (`FramesHaveHeights`), that nothing is measured before a width is known
  (`NothingMeasured`), and that rows differ. The first is why the code's loops over
  the keys of one dictionary may move the entries of both, and why an
  insertion cannot meet a missing frame. `MemoTheorem` maps every step to one of
  `SDHeightMemo` or to none.
* **`KeyBoardDigitalProofs!TypeCorrect`.** **`LetsGoAtRest`**: whatever the user does, a field that is
  edited or a property that is set means a registration or a dismissal to come.
  **`FootStaysSafe`** and **`FocusStaysServed`** rest on `HomeInv`: undisturbed,
  by the time a dismissal is due the reduction has been there, and until then
  the keyboard knows the way home.
* **`PopBaseProofs!TypeCorrect`**: a transition that is due has a frame to go to
  (`Known`). **`ManagerFollows`**: ends of changes are announced in order and the
  last is where the keyboard is bound for, so once it is at rest what was heard
  last is the frame, and a transition there is due or done (`FollowInv`).
  **`NeverCovered`**: a new frame always leaves a call due, and a call puts
  every pop view clear of the manager's frame of that moment (`ClearInv`),
  which is therefore the right one, although the transition told may be another
  than the one that scheduled the call.

* **`PickerProofs!PeriodTypeTheorem`, `PeriodTheorem`, `WheelTheorem`.** While the sheet is up
  its limits are those of the begin (`Limited`), so an end cannot be chosen
  before it; a dictionary once left with OK has both ends (`Ordered`), so that
  counting its entries counts them. **`CommonTypeTheorem`, `ToldTheorem`,
  `CrashTheorem`**: not astray, the first two wheels are those of the indices and were
  loaded for them (`Agree`), and the third is while nothing moved it
  (`ThirdAgrees`), through layout, selections, turns and reloads, for any lists.
* **`PickerProofs!DateTypeTheorem`, `DateReportTheorem`, `DateOfferTheorem`**, for every
  today, begin and selection of `DateAssumption`. The third index may be off, since a turned month
  leaves its row there. `DateInv` shows why it does no harm: what the wheels are told
  depends on the year and month index alone (`SameYearMonth`), and those two are the
  rows of their wheels once a reload is over (`WheelsAgree`, `ReloadSettles`),
  because a turn moves the other wheels only into the first or the current
  year, and every other year has all months (`SpinSettles`). Rows that the
  wheels have stand for days between begin and today (`RowsOffered`), and all
  such days have rows (`WheelsOffer`).
* **`ChoiceProofs!ListTypeTheorem`, `OneChoiceTheorem`, `ListCrashTheorem`**: a list that
  was not opened yet has no buttons and told nobody (`Fresh`); from there on each
  touch leaves one row. **`TitleTheorem`**: the list is up over the window only, with
  one row per department and no row marked but the chosen one (`DepartInv`).

Induction on the natural numbers is needed in three places (the deletions of one
call, twice for what they keep). The provers cannot use the library's
induction theorem, which takes a predicate; `Induction` of `SDCellHeightProofs`
states it for a set of numbers and follows from the well-foundedness of the
proper-subset relation on finite sets.

Only model-checked: liveness (`ImplementsContract`'s fairness, `StopsWhatRuns`,
`Silenced`, `ComesHome`, `BackInTheMiddle`), which the prover cannot reach.

## 5. Not modelled

`PROJECT.json` names every part with its reason. In short:

* Third-party code: the layout engine of SDAutoLayout, labels, and the vendored
  pods. The repository carries Realm's C++ headers among them, which are most
  of its header lines and which only a demo screen uses; the kit itself is
  Objective-C, and its logic is in `.m` files.
* Drawing and layout: tab bar, contents of pop views, widgets.
* Screens whose states are a library's: web view, refresh headers, database demo;
  and plain data.
* Of the modelled parts: `SortSelect` (a row of buttons over the models of a
  `DownSelectView`), icons of rows, `STPickerSingle` (one wheel of titles), `hiddenDay`, one-wheel common
  pickers, what `cellsTotalHeight` adds up, `headView` and `upToView` of the
  keyboard.
* `PasswordInputView` and `UIButton+EventUnavailabel`: a text of fixed length and a
  flag behind a timer. Each is a few lines that one thread runs from one call;
  their hazards are listed with the reason.

## 6. Plan

Done, in this order, the hardest behaviour first: networking with its caches and
the contract it implements; the background run; cell heights; the digit
keyboard; the keyboard manager with pop views; pickers and lists. Proved: types
of all parts; the safety half of the
refinement of `RCCallContract`; the refinement of `SDHeightMemo`; caches, success and books of requests; the
background run; the digit keyboard; pop views; the common picker, the period,
the date sheet, the list and the department view.

Left:

1. `SortSelect` on top of `DownSelectView`, with several lists open in turn.
