# Verification of the e-sports hall

TLA+ models of the system of an e-sports hall (a backend in Go, gin and gorm over
MySQL, and a frontend in Vue), their model checking with TLC and proofs with
TLAPS.  Members reserve a gaming station, fetch a six-digit boot code and show it
at the desk; staff scan codes, seat walk-in customers, edit stations and end
sessions.  Every function of the backend runs concurrently with every other over
one database, and the browsers hear its answers late or never; that is where it
can go wrong, and what is modelled here.

## 1. Inventory

All paths below are under `src/backend/internal/` unless they say otherwise.

| Component | State | Operations | Interacts with |
|---|---|---|---|
| Boot codes (`service/boot_code_service.go`) | table `boot_codes`: status, reservation, expiry, session | `Generate`, `Verify`, listings | reservations, stations, sessions, member, packages: one transaction over all of them |
| Reservations (`service/reservation_service.go`) | `reservations` | `Create`, `Confirm`, `Cancel`, `CheckIn` | stations |
| Sessions and billing (`service/session_service.go`) | `sessions` | `Start`, `Renew`, `End`, `ChargeWithinTx` | stations, reservations, packages, balance |
| Stations (`service/station_service.go`) | `stations.status` | `Create`, `Update`, `UpdateStatus`, `Delete` | everything that seats somebody |
| Time packages of a member (`repository/user_package_repository.go`) | `user_packages`: hours left, expiry, status | `ConsumeHoursTx` | billing, purchases |
| Member balance (`repository/user_repository.go`) | `users.balance` | `UpdateBalance`, `UpdateBalanceTx` | billing, recharges, purchases |
| Row locks (`repository/common.go`) | InnoDB | `clauseLocking` (`SELECT ... FOR UPDATE`) | all of the above |
| Recharge and orders (`service/recharge_service.go`) | `recharges`, `package_orders` | `Recharge`, `BuyPackage` | balance, packages |
| User administration (`service/user_service.go`), registration (`service/auth_service.go`) | `users` | `Register`, `Create`, `Update`, `Delete` | saves the whole row, balance included |
| Tournaments (`service/tournament_service.go`) | `tournaments`, `registrations`, `matches`, `teams` | `Register`, `DrawGroups`, `SubmitMatchResult`, editing | none |
| Rate limiter (`middleware/rate_limit.go`) | Redis counter, in-process fallback map | one check per request | in front of every handler |
| Station broadcast (`handler/ws_handler.go`, `cmd/server/main.go`) | client map, channel of 64 messages | `Publish`, `Run`, connect, disconnect | reads stations every 5 s |
| Connections and seeding (`database/database.go`) | pool of 100 connections; the first rows of `users`, `stations`, `time_packages` | `Connect`, `migrate`, `Seed` | every statement takes a connection; the rows are edited by administrators later |
| Server process (`cmd/server/main.go`, `middleware/`) | requests in flight, audit log | recovery, limiter, audit, shutdown | runs every handler |
| Frontend (`src/frontend/src/`: `stores/auth.ts`, `router/`, `utils/request.ts`) | login in store and localStorage, page, calls under way | login, logout, navigation, 401 | calls the API |
| Boot code pages (`pages/BootCode.vue`, `pages/ScanBoot.vue`) | code on show, scan under way, result, camera | generate, refresh, scan, scan again | boot codes |
| Catalogue of packages (`service/time_package_service.go`) | `time_packages` | `Create`, `Update`, `Delete` | purchases read it |
| Dashboard, configuration, other pages | - | - | no state the rest depends on |

What makes it hard:

* **Interleaving.**  Each request is a sequence of SQL statements; others commit
  between any two of them.  Only rows read `FOR UPDATE` stay as they were.
* **Reads and writes through the pool.**  Inside `db.Transaction` several services
  call repositories that use `r.db`, not `tx`: such a write is committed at once,
  whatever happens to the transaction, and such a read sees committed rows only.
* **Whole-row saves.**  `Save` writes every column of a row that was read earlier,
  without a lock.
* **Failure.**  Any statement may fail, the process may die, InnoDB may pick the
  request as a deadlock victim, and the acknowledgement of a COMMIT may be lost.
* **A pool of connections.**  A transaction keeps one connection and its reads through
  the pool need another; nothing ends the wait for it.
* **Opposed lock orders.**  `Verify` locks code, reservation, station, member,
  packages; `Generate` locks reservation, then codes; `Start` locks station, then
  reservation.

What makes each component correct:

* boot codes: one live code per reservation; a code is redeemed at most once, for
  the person, station and reservation it was made for, when all of them are still
  ready; used, expired and revoked are final; nobody is let in early;
* sessions: one session per seat, one seat per session, minutes paid exactly once;
* reservations: live reservations of a station do not overlap; a cancelled one
  stays cancelled;
* billing: no overdraft, no free minutes, every hour paid once, the package that
  expires soonest first, every movement of a balance accounted for;
* tournaments: a draw divides the registrations evenly, draws do not mix, paired
  registrations get a match;
* rate limiter: no window lets more than its limit through, nobody is refused before
  it is full, every window ends;
* station feed: every connection gets every snapshot in order, and none too late;
* start: wherever it is cut off, the next one finishes it, adds nothing twice, changes
  no account, and there is always somebody to administer the rest; usernames are unique;
* audit log: a row only for a request that was let through and whose chain came back, be it
  with a refusal;
* frontend: a page only for the users it is made for, a code only for its member, a
  success on the panel only for a scan that seated somebody;
* all: every request is answered, unless every connection of the pool waits for another.

`PROJECT.json` lists the hazards line by line with the properties that cover them.

## 2. Modules

```
HallStore          tables, row locks, transactions, failures, the clock
 ├─ Charging       packages first, then balance
 │   ├─ BootCode   Generate, Verify ............. BootTicket (what codes promise)
 │   └─ Session    Start, Renew, End
 ├─ Reservation    Create, Confirm, Cancel, CheckIn
 └─ Station        UpdateStatus, Update, Delete
Hall               BootCode, Reservation, Session and Station over the same tables
HallPool           Hall on the pool of connections
Wallet             recharges, purchases, charges and edits of one wallet, in hours and money
Tournament         registration, draws, results
RateLimit          the limiter: Redis counter, fallback counter
 └─ StationHub     the station feed over WebSocket
     └─ Server     limiter, role check, handler, audit; the life of the process
Startup            connecting, seeding, restarts; accounts, stations, packages come and go
Browser            login, router, API calls of a tab
 └─ BootScreens    the pages BootCode and ScanBoot, over BootTicket as the server

BootCodeInvariant  the inductive invariant of BootCode
BootCodeProofs     proofs about BootCode: types, locks, seats, books, refinement
 └─ HallProofs     proofs about Hall: the same codes among everything the desk does
Sums               lemmas about sums over finite sets, for BootCodeProofs and WalletProofs
WalletProofs, TournamentProofs, ServerProofs, StartupProofs, ScreensProofs
MCBootCode, MCHall, MCHallPool, MCWallet, MCTournament, MCServer, MCStartup, MCScreens
                   instances for TLC
```

**How the code becomes actions.**  A request `r` runs one service function.  Its
program counter `req[r].pc` names the next SQL statement, the other fields of
`req[r]` are the Go variables it has assigned.  There is one action per statement
that reads or locks something others can change; consecutive Go lines that touch
no shared row belong to the action before or after.  A row that a transaction has
locked cannot change, so its later writes to it are buffered into the step that
commits (`VerifyCommit`, `GenerateInsert`, `StartCommit`); writes made through the
pool are steps of their own (`StartInsert`, `CreateInsert`, `EndSave`), visible at
once.  An early return is a disjunct ending in `Refuse`; `Commit` answers `ok` or,
when the acknowledgement is lost, `error`.

**Locks.**  `held[r]` is the set of rows locked by the transaction of `r`.
`Wanted(r)` gives the rows the next statement waits for; `CanLock` is InnoDB's
wait.  Autocommit updates wait for row locks as well.

**Failures.**  `Fail(r)` ends a request at any statement with everything
uncommitted rolled back: a broken connection, a lock wait timeout or the death of
the server, after which nothing of a request survives but the database.  Two reads drop
their error: a scan whose search for an open session fails goes on as if there were none
(`VerifyNoSession`), a start whose read of the reservation fails inserts its session and
leaves the reservation unchecked (`StartReservation`).
`DeadlockVictim(r)` is enabled exactly when `r` is in a set of requests waiting
for one another.

**Data.**  Minutes are integers and there is one price per minute, a parameter;
`Users` are members with a balance and the minutes left in their packages; `Codes`
are the numbers that can be drawn.  `CodesExhausted` lets `uniqueCodeTx` give up
whenever some number is taken, as five unlucky draws can.  `eligible` stands for
the role and status checks of the member, which no modelled operation changes.

**Connections.**  `HallPool` puts `Hall` on the pool of `database.Connect`.
`conns[r]` counts the connections a request holds: one for its transaction from BEGIN
to COMMIT (a scan begins before it waits for its code row, so it waits with the connection
in hand), and one for each statement that bypasses the transaction, held while that
statement waits for a row (`Needed`) or only while it runs (`Momentary`).
`TakeConnection` waits for ever; a row wait ends with `LockWaitTimeout`.  Every step of
`Hall` is taken with its connections in hand, so that rows and connections may be
waited for in a circle.  What cannot be excluded is stated: when every open connection
belongs to a request that waits for a further one (`PoolExhausted`), nothing moves.

**Coming up.**  `Startup` has one action per statement of `Seed`, each committed on its
own, and the restarts of the container.  A statement that fails ends the process
(`Die`, whether MySQL has run it or not), but for two kinds whose error nobody looks at:
the counts of stations and packages then read 0 (`CountFails`), the lookup of the staff
account reads as "missing" (`FindStaffFails`).  While the server serves,
administrators and registrations insert, edit and delete the rows that seeding will look
for at the next start, users by their statements (the name is looked up, then
inserted; a user is read, then saved, which brings a deleted one back).  Stations
and packages are only counted.  Two history variables say what the properties
except: counts that failed, administrators that were deleted or demoted.

**The wallet apart.**  `Charging` knows what a member has as two sums, enough for the
services that only ask whether a charge succeeds.  `Wallet` opens it up: packages
with an expiry each, rows of orders and recharges, the catalogue, the edits of the
user row, and the two lossy columns (`decimal(10,2)` hours against charges by the
minute, cents).  Its transactions take all they lock in one statement, or, for a
scan, under the member's lock, so each is one step and no lock is held between steps.

**Tournaments** share no table with the rest.  `AssignGroup` locks registrations one
by one in a random order, so here the locks are steps; matches and the tournament row
are written through the pool during the transaction.

**The server process.**  In `Server` a request is one HTTP call of one address: through
the limiter to its handler, and, if it writes, to the audit row; or it becomes a
connection to the feed.  A role check may abort it before its handler (`Forbid`): a 403 to
a write of somebody logged in leaves an audit row too, since the audit middleware is
further out and asks only for the user.  The handlers themselves are the operations of the other
modules, so here they only end, panic or are cut off.  Redis may count a call whose
INCR fails, or count it twice; `Expire` may do nothing, for nobody looks at its error.
`unset` is history: the windows whose EXPIRE failed.  The unlocked client map is undefined behaviour in Go: either the runtime stops the
process (`Crash`) or the walk sees a new entry or not (`Join`).

**The browsers.**  A tab of `Browser` has the login twice, in the Pinia store and in
localStorage, as the code has: calls send the second, the guard looks at the first.
An API call is a record from when it is sent until it is heard; `from` says who hears
it, the page that made it, a page that was left, a camera that still runs, or nobody
any more.  Navigation takes two steps, for the pages are loaded on demand.
`BootScreens` puts the two boot code pages on top, with `BootTicket`, which `BootCode`
is proved to implement, as the server.  Other tabs act on the server only
(`Elsewhere`): they make and scan codes, and the reservation desk saves rows it read
earlier (`DeskSaves`), so that a reservation may be open again after a scan has closed it.
A panel then still tells the truth: its code is used and has given the visit.  Two assumptions: each tab is in a browser of its own (tabs of one
browser share localStorage), and nobody submits the login form a second time while
the dashboard is loading.

**The abstract specification.**  `BootTicket` has three indivisible operations:
`Issue` replaces all live codes of a bookable reservation by a fresh one, `Redeem`
uses a live code, closes its reservation and records the visit, `Lapse` ends a live
code.  There are no requests, locks, time or failures.  Under the mapping `TicketOf`,
`Bookable`, `VisitOf` (module `BootCode`), `BootCode` implements it.

## 3. What is checked

| Run | Question |
|---|---|
| `boot` | Two reservations of one slot for one station and one member, four requests, two numbers, a charge that packages and balance can share, the clock from before the arrival window to past the expiry of a code: is a station in use exactly when one session sits there, is every prepaid minute paid once, also when the transaction fails after charging, is each used code the one that opened its session, is nobody early, and is `BootTicket` implemented? |
| `hall_desk` | Codes against everything the desk does to the same reservation and station at the same time, walk-in sessions, renewals and ends included, three requests, all twelve operations: does a scan still seat a member only when all is ready at the very moment the code is used, do prepaid minutes never exceed what was paid, do used codes keep their session? |
| `hall_answers` | Three requests on two connections, which generate, scan, start and cancel over the same rows in opposed orders, with statements outside their transaction: every request is answered or the pool is exhausted. |
| `wallet` | Two packages with different expiry, three requests, eight operations: is every charged hour paid once, from the right package, does every balance add up unless an edit saved over it, does every granted package match its order and its debit? |
| `tournament` | Two registrations, a third user, three requests, five operations: are draws even and unmixed although they deadlock, fail, or miss late registrations; is everything answered? |
| `server` | Two requests of one address, with a limit of one, four snapshots and a channel of one, a process that stops, dies and starts again: what the limiter, the feed and the audit log promise; every window begun by a first count ends. |
| `startup` | Two stations and one package to seed, two faults (a process that dies at any statement, a count or lookup that fails), three requests that register, create, edit and delete: what a start leaves behind, and that the next one comes up. |
| `screens` | Two members and the staff share a tablet, with two calls under way at most: late, lost and refused answers, pages left and loaded again, codes made and scanned elsewhere, the reservation closed and opened again by the desk. |

Runs that refute what the documentation or a comment says (`findings` in
`PROJECT.json` quotes the lines):

| Run | What happens |
|---|---|
| `double_booking` | Conflicts are counted before the transaction: two bookings of one slot. |
| `lost_renewal` | Two renewals charge; one extension is overwritten. |
| `paid_package_lost` | A purchase fails after its debit: the money is gone and no hours are granted. |
| `draw_makes_no_matches` | A first draw looks for pairs by the group numbers read before it, all 0. |

Also seen while modelling, without a run of their own:

* `allowedStationTransition` lets staff move a station from reserved to using although
  the comment at `service/station_service.go:152` allows that from idle only;
* `Cancel` never touches `boot_codes`; a scan of the code is refused all the same
  (`SeatedOnlyWhenReady`);
* `Confirm` saves a row read before a cancellation and so revives it;
* a renewal refused for lack of balance has consumed the package (`Wallet`:
  `ChargePackages` is committed when `ChargeBalance` refuses);
* the profile edit saves the balance it read: recharges and charges made meanwhile
  vanish (`BalancesAddUp` excludes edited users), and it brings back a deleted user; if
  somebody else has taken the name since, gorm's upsert writes over that account
  (`EditSave` of `Startup`);
* a start that dies after it has inserted the administrator finds users at the next start
  and inserts no demo member any more, which `src/README.md:20` says the start makes;
  likewise the stations that are missing when it dies among them stay missing;
* a station or package catalogue emptied by hand, and a deleted or renamed staff account,
  come back at the next start;
* a transaction that needs a second connection waits for it without limit: when every
  open connection belongs to such a request, all wait for ever (`PoolExhausted`);
* `UpdateStatus` saves the station it read without a lock, although `src/README.md:361`
  lists the change of a station's status among what `SELECT ... FOR UPDATE` protects;
* `Dashboard.vue:3` tells the user that the page follows the station feed; no page opens
  the WebSocket;
* two registrations of one user, or two results of one match, both succeed;
* `Start` inserts the session outside its transaction; after a failure the session stays
  open at an idle station, and a second one can be opened there;
* INCR and EXPIRE are two commands, although the comment at
  `middleware/rate_limit.go:16` calls the count atomic: after a failed EXPIRE, or an INCR
  that was counted without an answer or twice, the key stays for ever, and the address is
  refused for ever once the window is full (`WindowsEnd` says that nothing else does it);
* the limit holds for each window (`NoWindowAboveLimit`): while Redis comes and goes, an
  address has one window there and one in the process, and may use up both;
* a client of the feed that does not read stops it for everybody, as the writes have no
  deadline;
* a wrong password is answered with HTTP 500: `handler/helpers.go` has no status for
  `CodeWrongPass`;
* a 401 clears localStorage but not the store, so the guard sends the user from the login
  page back to the dashboard until they log out or load the page again;
* `fetchProfile` of `stores/auth.ts` calls itself instead of the API function (nothing
  calls it);
* answers of overlapping calls are shown in the order of arrival: a refreshed code may be
  replaced on the screen by the one it revoked;
* a camera that is still starting when `ScanBoot.vue` is left is never stopped and goes on
  redeeming codes, whose results nobody sees; "scan again" cannot start it again, for its
  element is not rendered yet at that moment;
* a redraw pairs by the numbers of the previous draw, so its matches need not be
  within the new groups.

**Bounds.**  Three or four requests are the smallest number that shows each race
named above: two codes and two scans of them; a code, a scan, a renewal and an end;
a code, a scan and one interfering desk operation (for the lock orders: one request
per order).  One station and one user are enough because requests interfere only
through rows they share; two stations or users would separate them.  Two codes are
needed for revocation.  `MaxTime` bounds the clock: it runs past the expiry of a code
in `boot` and, in `hall_desk`, past the start of a walk-in session, which has nothing prepaid, so that
ending it costs something.  `Early = 0` and a slot that starts later
than the first minute put the arrival window inside the bound in `boot`.  Balances and packages of one minute each make charges split
between both and fail.  In `wallet` the first package holds 0.33 hours against a
charge of 20 minutes, so that a charge spans packages and the rounding of the column
shows, and the balance of 6.00 covers some charges and purchases and not others; the
clock passes both expiries.  `tournament` starts with two registrations and can reach
three, the odd case.  In `server` two requests against a limit of one fill a window and
overflow it, the clock passes the end of a window, and four snapshots fill a channel of
one with the publisher and the walk ahead of it.  In `hall_answers` two connections
are the fewest with which a transaction can do its reads outside and yet block others;
requests arrive in the order of their names, as they differ by nothing else.  There and
in `boot` the member may play and the station works at first (`MCInit`): those refusals
only end requests sooner, and `hall_desk` has them; in `boot` the station also starts idle,
since every check of a boot code takes a reserved station for an idle one.
In `startup` two stations make a start that dies between them, two faults let it die
twice or die after a miscounted start, and three requests suffice for one that reads a
user, one that deletes it and one that takes its name.  In `screens` one tab is enough, since
tabs meet at the server only and `Elsewhere` does there what others can; two calls make
answers overtake one another, two codes make one revoke the other.  `Bound` of
`MCScreens` leaves out states in which calls only fail, which they may do at any time:
the desk saves the reservation only after a visit and leaves it open only while a code is
left to be scanned for it, and not all codes come to nothing.  It also leaves one call at
most under way that the page on show does not hear; what a second one does at the server,
`Elsewhere` does too.  Symmetry is used for requests, codes, booked reservations and call slots in
runs without liveness.  `CHECK_DEADLOCK FALSE` stands in `hall_answers` (where the
pool may be exhausted, which its property admits), in `tournament` and in the refuting
runs, where the system ends when all requests are answered; the passing runs of
`MCBootCode`, `MCHall`, `MCWallet` and `MCStartup` add the step `Finished` for that state
only, and `server` and `screens` have no such state, so that any other state without a
successor is reported.

**Fairness.**  `PoolFairness` assumes that a request that has arrived runs its next
statement when it has its connection and its row (the Go scheduler and MySQL serve every
connection), that `database/sql` serves those who wait for a connection in turn, and that
a row wait ends (`innodb_lock_wait_timeout`).  `TournamentFairSpec` assumes that
statements run and that InnoDB breaks every deadlock (`innodb_deadlock_detect` is on by
default).  `Startup` assumes that the statements of a start run and that the container is
started again (`restart: unless-stopped` in `docker-compose.yml`).  Nothing is assumed of
arrivals, of failures or of the clock.  Weak fairness suffices: a waiting request becomes
able to lock when the holder returns, and nobody overtakes for ever, as each request is
served once.

## 4. What is proved

For every value of the constants that satisfies the assumptions of the modules, so for
any number of requests, users, stations, codes, packages, registrations, tabs and calls,
any limit, capacity, price and balance, any clock and any number of faults:

| Theorems | Say |
|---|---|
| `BootTypeOK`, `BootAtMostOneActiveCode`, `BootUsedCodesMatchSessions`, `BootOneSessionPerReservation`, `BootStationInUseIffOneSession`, `BootNoEarlyBoot`, `BootBooksBalance` | `BootSpec => []` of the invariant after `Boot` |
| `BootCodesAreFinal` | `BootSpec => CodesAreFinal` |
| `BootKeepsTicketPromise` | `BootSpec => Ticket!TicketSpec` |
| `HallTypeOK`, `HallAtMostOneActiveCode`, `HallUsedCodesKeepTheirSession`, `HallPrepaidIsPaid` | `HallSpec => []` of the invariant after `Hall` |
| `HallCodesAreFinal`, `HallSeatedOnlyWhenReady` | `HallSpec =>` the action property after `Hall` |
| `PoolImplementsHall` | `PoolSpec => HallSpec`: the theorems about `HallSpec` hold on any pool of connections |
| `PoolKeepsConnections` | `PoolSpec => []PoolInv`: never more connections out than the pool has; whoever has a row locked or a transaction open holds one; whoever is answered has returned all |
| `WalletTypeOK`, `WalletBalancesAddUp`, `WalletChargedHoursArePaid`, `WalletGrantsAreOrderedAndPaid` | `WalletSpec => []` of the invariant after `Wallet` |
| `WalletSoonestExpiryIsSpentFirst` | `WalletSpec => SoonestExpiryIsSpentFirst` |
| `TournamentTypeOK`, `TournamentDrawsDoNotMix` | `TournamentSpec => []` of the invariant after `Tournament` |
| `TournamentEveryDrawIsFair`, `TournamentDrawsLockWhatTheyWrite` | groups change only by whole, even draws, of registrations the draw has locked |
| `ServerTypeOK`, `ServerNoWindowAboveLimit`, `ServerRefusedOnlyWhenFull`, `ServerWindowsEnd`, `ServerFeedIsFresh`, `ServerAuditFollowsChain` | `ServerSpec => []` of the invariant after `Server` |
| `ServerNoSnapshotSkipped` | `ServerSpec => NoSnapshotSkipped` |
| `StartupTypeOK`, `StartupUsernamesAreUnique`, `StartupAdministratorFirst`, `StartupHallIsSeededOnce` | `Spec => []` of the invariant after `Startup` |
| `StartupSeedingKeepsAccounts` | `Spec => SeedingKeepsAccounts` |
| `ScreensTypeOK`, `ScreensPagesFitTheUser`, `ScreensCodesStayWithTheirMember`, `ScreensPanelTellsTheTruth`, `ScreensOneScanAtATime` | `ScreensSpec => []` of the invariant after `Screens` |

**Assumptions.**  Beside the types of the constants they say: requests, users and packages
are finitely many, since the properties sum over them (`FiniteAssumption`,
`WalletFiniteAssumption`, `TournamentNamesAssumption`); a row that is inserted gets an id that no row of the start
has (`KeysAssumption`, and the same for packages and registrations); and SQL NULL is not
the name of a row, window, page or call (`NilAssumption`, `NoWindow`,
`NothingAssumption`, ...).  TLC evaluates all of them in the runs.

**Boot codes** (`BootCodeProofs`).  The argument is the one a reader of the code would
give, in five layers.

1. *Types*: what a request has read at each program counter
   exists (`GeneratingComplete`, `ScanningComplete`), and rows never cease to exist.
2. *Locks*: a row is locked by one transaction at a time
   (`RowsLockedOnce`) and a transaction keeps what it locked (`LocksTaken`).  So what
   `Verify` has checked of the rows it holds is still so (`ScanIsFresh`), and between
   the revocation and the commit of `Generate` no other code of the reservation goes
   live (`RevocationComplete`).  This is why the invariant cannot be
   `AtMostOneActiveCode` alone: a state with one active code and two requests both
   about to insert satisfies it and the next steps break it.
3. *Seats*: a session belongs to a request that is over and has
   closed its reservation (`SessionsClose`), so a scan that still finds its
   reservation confirmed under lock opens the first session of it.
4. *Books*: a commit of a scan adds one session to the prepaid minutes of its member, and
   what left packages and balance is its price (`VerifyCommitPays`).
5. *Refinement*: with 2. and 3. the two commits and the expiry
   mark are the three operations of `BootTicket`, everything else is a stutter.

`BootInv == CodeInv /\ SeatInv` (module `BootCodeInvariant`) is the inductive invariant of
1., 2., 3. and 5., and `BooksBalance` is inductive with it.

**The hall** (`HallProofs`).  In `Hall` the seats of 3. are lost: walk-in sessions, ends and
station edits change stations and sessions with no code involved.  The layers 1. and 2.
hold all the same, and the proof says why although the desk saves rows it read long
ago.  `DeskStep(r)` is what every step of the desk is shown to be: it leaves the codes
alone; a reservation or a station changes only if nobody else holds its lock, for even an
autocommit update waits for it; only `r` inserts rows, under its own ids; and a session that is saved over keeps its reservation,
member and station, for those columns never change and the stale row has them too.  Whoever holds a lock therefore
still finds what it checked (`DeskKeepsCodes`).  `HallInv` adds to `CodeInv` what the desk itself
knows (`DeskInv`: its rows are inserted once, what it has read exists, which rows it has
locked) and `UsedCodesKeepTheirSession`, which is inductive only with it: a stale row of another
session would break it.

`PrepaidIsPaid` needs more, for a renewal pays first, in a
transaction of its own, and saves later.  `CreditInv` says that there are numbers `cap`,
the minutes ever credited to each session, such that no row, in the table or in the
hands of a request, has more prepaid minutes than its `cap`, and that the `cap`s together with what was paid
and not saved yet (`Credit`) cost no more than what has left packages and balances.  A lost update
leaves a row below its `cap`; that is why `PrepaidIsPaid` says "at most", and the run
`lost_renewal` shows that it is not always equal.

**The pool** (also in `HallProofs`).  A step of `HallPool` is a step of `Hall` or one that takes a
connection, which `Hall` does not see (`PoolImplementsHall`).  `PoolInv` says that the
connections out are at most `MaxOpenConns`, that a request has at most those its next statement
needs and, while its transaction is open or it has a row locked, at least one, and none once it is answered.  The
only statements that may end with more than they began with are those that begin a
transaction with nothing in hand, and they run only while the pool has one left.

**The wallet** (`WalletProofs`).  `WalletInv` has what a request remembers and has inserted
(`RequestsInv`) and, for each member, that the balance is off by half a cent for each
write so far (`BalancesInv`); requests write a balance once.  For a charge, `ChargedHoursArePaid` follows the loop of `ConsumeHoursTx`
from package to package: `UsesAreNeeded` says that together they give what is
needed, or all they have.  `SoonestExpiryIsSpentFirst` rests on the same loop.

**Tournaments** (`TournamentProofs`).  First arithmetic: over a shuffle of n registrations, n at least 2,
`GroupAt` gives each group one or two positions (`DrawsDivideEvenly`).  Then
`TournamentInv`: registrations never go (`RegistrationsInv`), and a draw
remembers a shuffle of a list of entered registrations and holds the
locks of those it has assigned (`DrawsInv`), so that its commit replaces all its groups at once.

**The server** (`ServerProofs`).  `LimiterInv` counts for each window those who were told a
number of it (`Told`), who are at most its count, and those who were counted in it
(`Who`), who are at least its count unless an INCR was repeated (`Counts`).  Whoever is let
through was told a number within the limit, and numbers differ; whoever is refused was
told one above it, so enough others are counted by then; in Redis they came before it, in
the process some may have come after it, for the count is read again after the unlock.  For the feed, `HubInv` says that what the clients
are being sent is the snapshots read, less the one that waits and those in the channel (`LastSent`).
`AuditInv` ties an audit row to the window that let its request through and to the chain
that came back.

**Coming up** (`StartupProofs`).  The invariant is `StartupInv`: types, unique
names, and two parts that tie the rows to the statement the process is at.  `AccountsInv`
says that while the table of users was found empty there are none, and that from then on
there is an administrator or one was deposed.  `RowsInv` says that during the loop over
the stations those before `next` are there at most once more often than counts have failed,
and those from `next` on no more often than that.  `HallIsSeededOnce` is not inductive
without it: with one row of a station that is still to come, the next step makes two.

**The browsers** (`ScreensProofs`).  `ScreensInv` says of every tab that where it is or goes fits the login in
its store (`RoutesInv`), and of every call under way what it brings when it is heard
(`CallsInv`): a code call that is still listened to belongs to the member logged in, a scan that
succeeded has used its code and given the visit, which stays so because tickets only
grow older (`TicketsGrow`), while the reservation itself may be opened again.  So late answers do no harm, and `ShownInv`, `PanelInv`, `ScansInv` follow.

**Sums** (`Sums`).  `SumFunctionOnSet` is a recursive function over subsets.  The library's
induction theorems take an operator, which the provers cannot instantiate; the module
argues instead about a least set for which a claim fails (`WFMin` over the strict subsets
of a finite set).

**Only model-checked.**  Liveness under fairness (`EveryRequestAnswered` of `HallPool` and of
`Tournament`, `ComesUp` of `Startup`), which is out of the provers' reach.  The four
refuting runs refute, so there is nothing to prove.

**Provers.**  Some leaves name their prover.  `ZenonT(30)` stands where the SMT encoding of a
disjunction of actions is slow or fails and first-order reasoning is enough, `SMTT(30)` where
only arithmetic or records are needed and Zenon would not do.  All proofs also pass with a
fifth of the usual time limits (`tlapm --stretch 0.2`).

## 5. Not modelled, and why

Binding, validation, rendering, logging and request ids are stateless or write-only;
authentication and role checks are stateless and appear by their outcomes.  Password
hashing, tokens and QR rendering are libraries.  Listings, the dashboard and the other
pages of the frontend only read, or submit one form and load their list again; the
dashboard makes separate reads, and nothing promises that its figures belong together.
Migration (`AutoMigrate`) changes no row.  Of the station, user and package rows the
columns that no service tests (names of stations, areas, phones, nicknames, remarks) are
left out.  Rounding of hours and money is modelled in `Wallet` only, and there without
the binary fractions of float64, whose error is far below the thresholds of the code.
An orphan session (`Start` dies between its two commits) has no property: the code makes
it, and a second session can then be started there.

## 6. Plan

What is left, in this order:

1. `Wallet` implements the charge of `Charging`, which knows only the sum of the packages:
   one step of `ConsumeHoursTx` takes from the sum what `FromPackages` says, but for rounding.
2. `Startup`: what may be said of `AdministratorFirst` when administrators edit one another.
