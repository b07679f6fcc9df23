# Verification of syncing

`syncing` copies a directory tree to another machine. `syncing [flags] SRC HOST:DEST` starts
itself over ssh as `syncing --server` and talks to that process through the pipes of the ssh
subprocess. Only the differing blocks of a file are sent, in the manner of rsync. This directory
holds TLA+ modules for it, the TLC runs that check them and TLAPS proofs.

## 1. The system

| part | source | state | operations |
|---|---|---|---|
| connection | `comm/conn.go`, `gproto/` | one `bufio` reader and writer per process, two byte counters | `Send` (header, payload, flush; no lock), `Recv` (one message) |
| sender session | `sender/sender.go` | goroutines, `waitGroup`, `goLimit`, `mutex`, `fidPathMap`, the subprocess | `Start`, `DoSync`, `ReadDirInfo`, `ProcessMsg` |
| receiver session | `receiver/receiver.go` | `initParam`, `fidPathMap`, `fidMtimeMap`, `pathMap`, `syncResult`, `taskWaitGroup`, `rebuildGoLimit`, the files on disk | `RunServer`, `ProcessMsg`, `FileListCheck`, `RebuildFile` |
| removal | `receiver/removefile.go` | a stack of directories; writes `syncResult`, reads `pathMap` | `RemoveFiles` |
| delta transfer | `receiver/sumlist.go`, `sender/patch.go`, `RebuildFile` | sum list, patch list, `bufA`/`bufB`, scan position | `MakeSumList`, `MakePatch`, the patch loop, `Alder32Sum`, `md5sum` |
| command line | `cmd/syncing.go` | flags | `main` |

One session, in messages (sender `->`, receiver `<-`):

    -> INITPARAM      base path, block size, delete flag
    -> DIR_INFO       the tree of the sender, files numbered by fid
    <- SUMLIST        the fids wanted, each with its block sums (FileListCheck)
    -> PATCHLIST ...  one per wanted file, in any order, from up to 5 goroutines
    -> END            after the last patch (waitGroup)
    <- B_END          the SyncResult, after the last task (taskWaitGroup)
    -> SHUTDOWN       the receiver exits, cmd.Run returns, Start ends

While this goes on the receiver runs one goroutine per file to be summed, up to four `RebuildFile`
goroutines and, with `-delete`, `RemoveFiles`. Any error in the sender's `DoSync` is dropped by
`Start`, which goes on to `SHUTDOWN`; the receiver's `ProcessMsg` ends on any error and takes the
running goroutines with it.

What is hard, and the property each part owes:

* *Goroutines and messages.* The result is sent only when all is done, on both sides; the frames
  of concurrent goroutines must not mix; tokens are neither lost nor duplicated; nobody waits for
  ever. (Session)
* *Failure.* Processes crash, files vanish, opens and writes fail, and files are overwritten in
  place: a torn file must be reported, or at least never look up to date. (Session)
* *Deltas.* The scan keeps pending bytes, merges copies and counts in int32; the receiver slices a
  file that may have changed since it was summed. (Delta)
* *Paths.* The file list carries names, not paths: the receiver must arrive at the path the sender
  numbered, or one file is rebuilt from another's patches. (TreeWalk)
* *Removal against rebuilding.* `RemoveFiles` deletes and prunes while `RebuildFile` goroutines make
  the same directories; neither locks anything. (ReceiverFS)
* *Sessions in sequence.* Nothing is kept between runs but the two disks: what a broken session
  leaves must not look up to date to the next. (Resync)
* *Framing.* Nothing marks where a frame begins: one byte off and the rest of the stream is noise.
  (Wire)

## 2. Modules

| module | what it is |
|---|---|
| `Connection` | the two message streams, who is inside `Send`, process status, message types |
| `Sender` | `Start`, `DoSync`, `ProcessMsg` of the main goroutine and the patch goroutines |
| `Receiver` | `ProcessMsg`, `FileListCheck`, `RebuildFile`, `RemoveFiles` and the files on disk |
| `Session` | `Sender` and `Receiver` over `Connection`; the properties; the refinement |
| `SyncPromise` | abstract specification: what the user who reads a result may rely on |
| `Delta` | one file's content from `MakeSumList` through `MakePatch` to `RebuildFile` |
| `TreeWalk` | `ReadDirInfo` and the path computation of `FileListCheck` over one tree |
| `ReceiverFS` | the directories under `RebuildFile` and `RemoveFiles`, system call by system call |
| `Resync` | one file over any number of sessions: the quick check, the stamp, two clocks |
| `Wire` | `Send` and `Recv` byte by byte |
| `Adler` | `Alder32Sum` and its unused incremental form |
| `MCSession`, `MCDelta`, `MCReceiverFS`, `MCResync`, `MCWire` | values and symmetry for TLC |
| `SessionProofs`, `PromiseProofs` | theorems on `Session` |
| `DeltaProofs`, `TreeWalkProofs`, `ReceiverFSProofs`, `ResyncProofs`, `WireProofs`, `AdlerProofs` | theorems on the modules of these names |

`Sender` and `Receiver` extend `Connection`, `Session` extends both. An action of `Sender` says what
it does to the connection and to the sender; `Session` conjoins that the receiver's variables stay,
and the other way round. The other modules each open up something that `Session` has as one step or
one choice:

* `Session`'s message is a frame of `Wire`: below 2 GiB and without a race, `InOrder` and
  `NothingHeldBack` are what `Connection` assumes of a pipe.
* `Session`'s `SendDirInfo` and `CheckFile` are the walks of `TreeWalk`: a fid is one file because
  of `PathsAgree`, and `Files` is all of them because of `ListingIsWhole`.
* `Session`'s `OpenFile` that fails, and its `RemoveFile`, are the races of `ReceiverFS`.
* `Session`'s `EndWrite` with or without the sender's bytes is a run of `Delta`.
* `Session`'s first state, any file stamped or not, is where the sessions of `Resync` leave the disk.

### Connection, Sender, Receiver, Session

A goroutine is a program counter and every statement that blocks or writes shared state is an
action. `sPc` and `rPc` are the main goroutines; `worker[f]` and `rebuild[f]` the goroutine of file
`f` on either side. Waiting on a `WaitGroup` or a full token channel is a guard. Deferred calls are
actions in their reverse order: `Unlock`, `ReleaseGoLimit`, `PatchDone` at the sender,
`ReleaseRebuildLimit`, `RebuildDone` at the receiver.

* `toR` and `toS` are the pipes: a writer blocks at `PipeCap` messages, a reader sees end of file
  when the writer's process is gone and the stream is empty. A write to a process that is gone is
  lost; it is an error only where `bufio` reports one.
* `Send` of the sender is two steps, `EnterSend` and `LeaveSend`, because its goroutines share one
  unlocked `bufio.Writer`. `raced` records an overlap. After one, any frame may arrive whole, not
  at all or as something the receiver cannot decode, and a patch may decode to other bytes. That
  is how the data race of `sender.go:99` is modelled.
* A file's content is `"absent"`, `"old"`, `"new"` (the bytes the sender hashed) or `"torn"`.
  `stamped` are the files whose mtime and size are the sender's. Initially any file may be in any
  state, except that a stamp is initially on equal content only: what the quick check misses
  *between* sessions is the subject of module Resync.
* `FileListCheck` is one action per file, with the three outcomes of its `Stat`. `RebuildFile` is
  `OpenFile`, `BeginWrite`, `EndWrite`, `Verify`, `Chtimes`, `CountSuccess` or `RecordFailure`: a
  file is torn between `BeginWrite` and `EndWrite`, and another goroutine, or the end of the
  process, may come in between any two.
* A fault is possible only when the constant `Faults` names it: `readdir`, `symlink`, `vanish`,
  `unreadable` (sender), `badpath`, `stat`, `open`, `shrunk`, `badwrite`, `chtimes`, `remove`
  (receiver), `badname`, `crash` (both). `badname` is a name that is not UTF-8, which cannot be
  marshalled: of the base path, and the sender ends before its first message (`SendInitParam`), or of
  a removed file, and the receiver ends without a reply (`ReplyFails`). `crash` is the end of a
  process; what it has written is on the disk. `badwrite` stands for
  everything that makes a rebuilt file other than
  the sender's: a short write, a base that changed, an equal checksum of different blocks.

### Delta

One action per turn of a loop: `MakeSumList`, then `WholeFile` or a scan of `MatchBlock`,
`DiffByte` and `FinishPatch`, then `ApplyPatch` per patch and `Verify`. `Int32` is the conversion
of an offset with its wrap at `PosLimit` (2^31 in the code). The two checksums are operator
constants: the model does not depend on what they compute, only on what they take for equal.
`starts` is a history variable with the offset in the sender's file where each patch begins.
An entry's `at` keeps its place in the bucket: `MakePatch` takes the first block of a bucket that
agrees in the strong hash. The base may be replaced by any file of at most `ChangeMax` bytes between
the sums and the rebuild.

### TreeWalk

One action per turn of a loop. `ReadDir(k, n)` pops a directory from the sender's stack, finds `k`
subdirectories and `n` files, whatever their number: the tree is not given but found, as it may
change under the walk. `ReadDirFails` ends the walk. `CheckDir` is a turn of the receiver's loop with
its `rStack` and `visitedMap`; `DropVisited` is the inner loop that takes directories off `pathStack`.
`path` is what the sender knows of a directory; the receiver uses `dirList` and `fileList` only.

### ReceiverFS

Every system call is a step and decides by what an earlier one saw. `fs` maps each path to `"none"`,
`"file"` or `"dir"` and starts as any tree; the list is any set of paths none of which lies below
another. A `RebuildFile` goroutine is `Lstat`, `MkdirAll` on its way up and down, `OpenFile` and
the rest (`WriteFile`). `RemoveFiles` is `NextDir` (one `ReadDir`), `VisitEntry` per entry in any
order, `HasFile` and `RemoveDir` of the prune loop. Mkdir, OpenFile, ReadDir and os.Remove may fail
where nothing stands in their way, and do fail where something does. A dropped error changes nothing
but where the goroutine goes on: after a failed `ReadDir` of the prune loop a directory looks as if it
had no file (`HasFile`), and after a failed `os.Remove` of a directory the loop goes on above it
(`RemoveOrLeave`). `basePath` exists. `before`, `dirsMade`, `dirsLeft` (the empty directories that could
not be removed) and `removeFailed` (the walk could not read a directory or remove a file) are history
variables for the properties.

### Resync

One file, as files do not depend on one another. `source` and `dest` are version, mtime in whole
seconds and size. `WriteSource`, `DeleteSource` and `Tick` may come between any two steps of a
session, which are `ReadDirInfo`, `Check`, `RemoveUnlisted`, `ReadFile`, `WriteSome`, `EndWrite` and
`Chtimes`; `Stop` ends a session anywhere. The receiver's clock differs by `skew`. `readAt`, `tornAt`
and `calm` are history variables.

### Wire

A byte is its place in the stream of all that was sent, so that a reader that is out of step has
bytes that make no header. `Send` is `Call`, `WriteHeader`, `WritePayload`, `Flush`; two goroutines
may be inside at once and then one write may lose the other's bytes; `Drain` is the flush of a full
`bufio.Writer`; `Exit` may come anywhere. `Recv` is `TakeBytes` (what is there, up to what is
missing), `DecodeHeader`, `Decode`, `EndOfFile`. `Int32` wraps the length at `LenLimit`.

### Adler

`AddByte` is a turn of `Alder32Sum`'s loop, `Summed` packs the two halves and computes
`Alder32SumBasedOnPrev` beside it, with every operation in the code's `uint32`.

## 3. Properties

| property | says | hazard |
|---|---|---|
| `ReportExact` | the printed result is the receiver's tally, and counts every patch once | lost update of a shared counter |
| `ReportFinal` | when it is printed no goroutine is at work, and what it does not list as failed holds the sender's bytes | END or B_END too early |
| `StampedIsVerified` | the sender's mtime is on verified bytes only, whichever writes fail and wherever a process ends | a rewrite in place with every write error ignored |
| `CleanReportMirrors` | a result without failures means an up-to-date tree, but for files that `Stat` could not look up and symlinks | an incomplete SUMLIST, a success that is none |
| `ConcurrencyBounded` | at most `SendMax` files in memory, at most `RebuildMax` rebuilds | token leaks |
| `SendsOverlapOnlyOnAbort` | two `Send`s overlap only in an aborted session, with SHUTDOWN | the missing lock in `Connection` |
| `DiskFrozenAfterReport` | no step after the result changes a file | a task that outlives B_END |
| `EndsUnlessRaced` | every session ends, unless two `Send`s overlapped | deadlock of pipes and tokens |
| `OnlyALostShutdownBlocks` | where nothing can move the session has ended, or its SHUTDOWN was lost in a race | pipes, tokens, counters and the mutex waiting in a circle |
| `EveryStepUsesUp` | every step takes something off a finite set of things to do | a retry or a second request that never ends |
| `KeepsPromise` | `Session` implements `SyncPromise` | all of the above |
| `NoPanic` | a base that has not shrunk since it was summed, under the int32 limit, is never sliced out of range | offsets of merged copies, a stale base |
| `Rebuilds` | the result is the sender's file if the copied blocks stayed and no checksum lied | pending bytes, merging, the tail |
| `GrowthSendsTail` | a file that only grew is not sent again | off-by-one in the block loop |
| `BigFileOkOrPanic` | from 2 to 4 GiB the receiver panics or gets the right bytes | int32 wrap |
| `PathsAgree` | the receiver's path of a fid is the one the sender numbered; no fid has two | the pop rule of `pathStack` |
| `ListingIsWhole` | a list the receiver has worked through has every file and no directory was left unread | a directory that vanishes during the walk |
| `ListedNeverRemoved` | no step takes a listed file away | removing by a name seen some steps before |
| `RemovedListExact` | the removed list names what is gone, no more and no less | a listing that is stale |
| `AbsentIsReported` | a listed file missing at the end was counted as failed, or skipped for one of two named reasons | pruning of a directory a rebuild has just made |
| `ExtrasRemoved` | unless the walk could not read a directory or remove a file, no file is left that the sender does not have | an early return of the walk |
| `EmptyDirsExplained` | an empty directory was empty before, or a rebuild made it, or its own removal failed | a prune that stops too early |
| `MissedOnlyInATie` | a differing file passes the quick check only in a tie of whole seconds | writes between walk and read, broken sessions |
| `CalmSessionRepairs` | one undisturbed session makes both sides equal, up to such a tie | what earlier sessions left |
| `CalmSessionSettles` | after it the file looks up to date | a stamp that is not the listed mtime |
| `InOrder` | frames arrive whole and in order, up to one of 2 GiB or a race | partial reads, int32 lengths |
| `NothingHeldBack` | a `Send` that has returned is not lost, even if its process exits | a frame left in the `bufio.Writer` |
| `SumIsAdler32` | reducing once behind the loop gives Adler-32 | the halves of the word running into one another |
| `RollsUntilBorrow` | the incremental form agrees while no half goes below zero | uint32 subtraction |

The two exceptions of `CleanReportMirrors` are real: a file whose `Stat` fails with anything but
not-exist (`receiver.go:308`) and a symlink of the sender (`sender.go:147`) are in no list of the
result, which then reads as a full success. `session_faults` has both; `session_mirror` leaves them out,
so that without an exception every file is up to date, with three of them being summed at once. A
failing `Chtimes` (`receiver.go:239`) is counted as a success: the bytes are right and the stamp is not,
and the next session sends the file again, as after a session that ended between the check of the
hash and `Chtimes` (`Stop` in Resync).

Without the premise of `EndsUnlessRaced` the sessions do not all end: when a requested file has
vanished, `ProcessMsg` returns (`sender.go:145`) with patch goroutines running and `Start` sends
SHUTDOWN beside them. If that frame is lost in the race the receiver waits in `Recv` and the sender
on `subProcessDone`.

The comment on the incremental checksum (`patch.go:167`) does not hold of the code: `prevB - step*d1
- 1` is computed in `uint32`, and 2^32 is not a multiple of 65521. The run `adler_rolling` shows a
window on which the two forms differ. The call in `MakePatch` is commented out, so no transfer is
affected.

## 4. Runs

| run | instance | shows |
|---|---|---|
| `session_faults` | 2 files, 1 extra file, limits 1 and 2, every fault but crash and vanish | `TypeOK`, `ReportExact`, `ReportFinal`, `StampedIsVerified`, `CleanReportMirrors`, `KeepsPromise` |
| `session_mirror` | 3 files, limits 2 and 1, failing opens | `ConcurrencyBounded`, `CleanReportMirrors` |
| `session_crash` | 2 files, limits 2 and 2, crash, vanish, badwrite | `SendsOverlapOnlyOnAbort`, `DiskFrozenAfterReport`, `EveryStepUsesUp` |
| `session_live` | 2 files, limits 2 and 1, crash, vanish, badname, unreadable, no symmetry | `OnlyALostShutdownBlocks`, `EndsUnlessRaced` |
| `receiver_fs` | every disk and list over d/a, d/s/b, d/s/c and their directories; any call may fail | `TypeOK`, `AbsentIsReported`, `RemovedListExact`, `ExtrasRemoved`, `EmptyDirsExplained`, `ListedNeverRemoved` |
| `tree_walk` | every tree of up to 6 directories with at most one file in each | `TypeOK`, `PathsAgree`, `ListingIsWhole` |
| `delta_scan` | all pairs of files of 0 to 7 bytes over {0,1}, blocks of 2; any base for files up to 4 bytes | `NoPanic`, `Rebuilds`, `GrowthSendsTail` |
| `delta_overflow` | all pairs of 0 to 6 bytes, int32 limit 3 | `TypeOK`, `BigFileOkOrPanic` |
| `resync` | 4 seconds, 3 writes, 2 sizes, clocks that differ by -1, 0 or 1 | `TypeOK`, `MissedOnlyInATie`, `CalmSessionRepairs`, `CalmSessionSettles` |
| `wire` | 3 frames of 2 goroutines, payloads of 0, 2 and 3, header of 2, int32 limit 3 | `TypeOK`, `InOrder`, `NothingHeldBack` |
| `adler` | every file of 5 bytes over {0,1,5,7}, windows of 3, modulus 13, halves of 4 bits | `SumIsAdler32`, `RollsUntilBorrow` |
| `adler_rolling` | the same; expected to fail | `RollsOn` is violated |

Bounds. Two files are enough for every interaction of two goroutines of one kind; three with a
limit of two make one wait for a token while two hold one. `PipeCap = 1` makes every writer block,
the case a larger pipe hides. The real limits, 5 and 4, are above the number of files here, so the
proofs cover them and not the runs. In Delta, seven bytes and blocks of two give three whole blocks
and a rest, unaligned matches and merged copies; the limit of `delta_scan` is one above the longest
file and so at its boundary. `MCAlder32Sum` knows the parity of a block only, so that buckets hold
different blocks, and `MCmd5sum` gives 01 and 10 one hash, so that the premise `NoCollision` is
false in part of the states. In ReceiverFS, two directories one in the other and two files in the
inner one are what it takes for a prune to climb past a directory that another goroutine is making.
Six directories give TreeWalk a branch that is two levels deeper than its sibling, so that one pop
of `pathStack` drops several directories. In Resync four seconds leave room for a write in the
second of the walk, of the read and after both, on either side of the receiver's clock; three
versions are one that is synced, one that is missed and one more. In Wire the limit is the largest
payload, so that one length wraps; three frames are one before, one in and one behind a race.

Deadlock is checked wherever the only states without a step are those that `Finished`, `Done` or
`ScanDone` name. It is off in the two runs of Session with `vanish`, where the hang above is real
behaviour, and in Wire, where a reader rightly waits for a frame that nobody sends.

Fairness is weak fairness of each process as a whole: as long as some goroutine of it can run, one
does. The Go scheduler promises more. It is sufficient because no goroutine here can run for ever:
`EveryStepUsesUp` bounds the steps of all of them together.
Crashes and the SIGPIPE of a receiver without a sender are not fair. The other modules state safety
only and need none.

## 5. Refinement

`KeepsPromise` is `SyncPromise` with `settled` mapped from the goroutines: a file is `"open"` from
the start of its patch goroutine until `RebuildFile` has recorded an outcome, then `"ok"` or
`"failed"`; `removed` is the receiver's list. Every step of either process is then a step of
`SyncPromise` or changes nothing a user can see. In the abstract specification `Publish` is possible
only when no file is open, and nothing happens after it: the two wait groups, the order of END after
the patches and of B_END after the tasks are what makes the code implement that. That
holds for every instance: `SessionKeepsPromise` (section 6).

## 6. Proofs

For any set of files, any limits and any faults (`ConnectionAssumption`, `SenderAssumption`,
`ReceiverAssumption`: finite sets of files, positive limits, the main goroutine is not a file):

* `StampsAreEarned`: `Spec => []StampedIsVerified`. The property alone is not inductive: `Chtimes`
  stamps whatever is there. `ReceiverInv` adds that a goroutine at `"chtimes"` has the right
  content, which `Verify` establishes and no other goroutine disturbs.
* `LimitsHold`: `Spec => []ConcurrencyBounded`. The invariants add that the tokens in a channel are
  never fewer than the goroutines that hold one; `CardinalityBounds` says how a set that gains or
  loses one goroutine changes.
* `OnlyAbortsRace`: `Spec => []SendsOverlapOnlyOnAbort`. `SenderInv` ties `inSend` to program
  counters and the mutex (`MutexInv`), says in which phases goroutines may be at work (`PhaseInv`),
  and bounds the active ones by `waitGroup` (`TokensInv`), so that `waitGroup.Wait()` implies there
  are none.

The theorems on the result (also in `SessionProofs`) rest on one invariant, `SessionInv`, which
follows the protocol by what is on its way in the two pipes:

* `AskingInv`: INITPARAM comes first, DIR_INFO once and before any patch; until the list of wanted
  files is read no patch goroutine exists and the other pipe is empty.
* `PatchInv`: a requested file has one goroutine, one PATCHLIST on its way or one `RebuildFile`. Its
  patch is not lost unless a process is gone or two `Send`s overlapped.
* `EndLast` and `EndingInv`: END is behind every patch (`waitGroup` is exact, `CountInv`), so a
  receiver that waits in END has started every rebuild; B_END and a printed result exist only when
  no rebuild is active, the removal is over (`taskWaitGroup` is exact) and every patch has arrived.
* `ResultInv`: `syncResult` is the tally of the files `RebuildFile` has recorded, and a file
  counted as a success holds the sender's bytes for good: no second goroutine writes to it.

From it: `SessionTypeCorrect` (`Spec => []TypeOK`), `ResultIsFinal` (`[]ReportFinal`),
`ResultIsExact` (`[]ReportExact`) and `NothingAfterResult` (`DiskFrozenAfterReport`, an action
property).

For any block size, alphabet, file length, int32 limit above the block size and any two checksum
functions (`DeltaAssumption`):

* `TypeCorrect`: `Spec => []TypeOK`; every offset and length sent is an int32, every slice the
  sender takes is in range. `ScanInv` says that pending bytes are behind a literal and end at the
  scan position.
* `RebuildNeverPanics`: `Spec => []NoPanic`. `SumsInv`: the sums are of whole blocks of the old
  file; `CopiesInv`: every copy lies inside it, and so inside any base that is as long. A merged copy
  ends where the found block ends, and no int32 wraps below the limit.
* `TransferRebuilds`: `Spec => []Rebuilds`. The patches tile the sender's file (`TilesInv`: each
  begins where the one before ends); a literal has the bytes of its tile, except that the last one
  of a running scan is still empty while its bytes are pending (`PendingInv`, `LiteralsInv`); a copy
  is as long as its tile and names equal bytes of the receiver's file (`CopiesSame`, where
  `NoCollision` comes in); and `RebuildFile` has put together the tiles so far (`BuiltInv`).
* `BigFilesPanicOrArrive`: `Spec => []BigFileOkOrPanic`. Past the limit, offsets and lengths are what
  `Int32` makes of them (`Wrapped`): an offset that wrapped is negative, and so is every copy from it
  or to an end that wrapped, and a slice with a negative bound panics (`Indexable`).
* `OnlyTheTailIsSent`: `Spec => []GrowthSendsTail`. In a file that grew the scan stands at a block
  boundary until it has left the old content (`AlignedInv`), every whole block of which has an entry
  (`SumsComplete`). The block at the scan position is then in its bucket, so some entry agrees and
  `MatchBlock` takes the first, whichever block that is. That there is a first, the least element of
  a nonempty set of numbers, is well-founded induction as a theorem on sets.

On `Session` once more (`PromiseProofs`):

* `SessionKeepsPromise`: `Spec => KeepsPromise`, a step simulation. Under `SessionInv` each action of
  the two processes is `Open`, `Rewrite`, `Settle`, `Remove` or `Publish` of `SyncPromise`, or leaves
  its four variables alone.
* `CleanReportIsMirror`: `Spec => []CleanReportMirrors`, for any faults. `MirrorInv` follows a file
  through the session: the check leaves it chosen or stamped, or `Stat` failed; the list that is sent
  is all that was chosen; the range loop starts a goroutine for all of the list before END but the
  symlinks; and `SessionInv` has the rest.
* `NothingElseBlocks`: `Spec => []OnlyALostShutdownBlocks`. `TurnInv` says whose turn it is: at most
  one goroutine of a side waits for a token, exactly while its main goroutine does, and whoever holds
  the mutex is in `Send` or about to unlock. `BallInv` says that somebody has the ball: while the
  sender reads, the request, its answer, END or the result is on its way, and while it waits for the
  subprocess, the SHUTDOWN, unless it raced. The counters are exact (`CountInv`), so a main goroutine
  that waits for one waits for a goroutine that can move. Then a receiver that cannot move waits for
  a message with an empty pipe, so no writer of the sender is blocked, so the sender waits for a
  message or for the subprocess, and `BallInv` says which.
* `SessionsRunOut`: `Spec => EveryStepUsesUp /\ [](Cardinality(Work) <= MostWork)`. `Work` has the
  stages of the conversation that are not behind (`Stages`), the files to be checked, summed, sent and
  removed, and for each goroutine the places of its way it has still to come to (`Way`). Every action
  of the two processes, crashes included, takes a member away and adds none (`SenderShrinks`,
  `ReceiverShrinks`). `MostWork` is 20 + 22 N + M for N files and M files to remove.

The last two are the two halves of `EndsUnlessRaced` for every instance: no session runs for ever,
and none stops short of its end but by a lost SHUTDOWN. That a step that can be taken is taken is
fairness, and stays with TLC.

On `TreeWalk`, for trees of any shape (`TreeWalkProofs`): `TypeCorrect`, `TheWalksAgree`
(`[]PathsAgree`) and `NothingIsForgotten` (`[]ListingIsWhole`). The pop rule looks at visited children
only. That `pathStack` is nevertheless the path of the next directory follows from the order of
`rStack`: its directories get no shallower towards the top, so the deepest directory of `pathStack`
with a child still to come is the parent of that top (`PendingInv` and `ChainInv`). Nothing is
forgotten because every directory that is not visited has itself or an ancestor on `rStack`
(`VisitInv`).

On `ReceiverFS`, for any tree of paths and any disk (`ReceiverFSProofs`): `TypeCorrect` (the disk
stays a tree), `RemovedListIsExact`, `AbsentFilesAreReported` and `ListedFilesStay`. The invariant
says why it is safe to act on a stale name: an unlisted file nobody else touches, so an entry that
was a file is one still; and the directory the prune loop has come to is still a directory, as only
`RemoveFiles` removes anything.

Of the same module, `ExtrasAreRemoved` (`[]ExtrasRemoved`) and `EmptyDirsAreExplained`
(`[]EmptyDirsExplained`) say that the walk and the prune are complete. The first has the premise that
the walk has read every directory and removed every file it meant to; the second has none: `EmptiedInv`
says that a directory which has lost all it had is the one the prune loop is at, or in `dirsLeft`, as a
`ReadDir` that fails only sends the loop to `os.Remove`, and either outcome of that sends it on to the
directory above. `AheadInv` has two sets that no variable of
the code holds: the directories listed so far, and paths that have been there since the walk began,
closed under their parents. What of the second lies in one of the first has been visited, or is in
the listing or on the stack. A directory on the stack stays there to be read, because the prune loop
only climbs through directories that were listed. At the end a missed file would have a missed
parent, and so on without end, which `TreeAssumption` (every path leads up to `basePath`) excludes.

On `Resync`, for any sizes, clocks and number of sessions (`ResyncProofs`): `TypeCorrect`,
`QuickCheckMissesTiesOnly`, `CalmSessionsRepair` and `CalmSessionsSettle`, from one invariant on what
the times say of the bytes (`DestInv`, `DataInv`, `CalmInv`). `MaxTime` and `MaxVersion` only bound
the runs: the theorems hold for every value.

On `Wire`, for any number of goroutines and frames, payloads of any length and any header
(`WireProofs`): `WireTypes`, `FramesInOrder` (`[]InOrder`) and `SendsArrive` (`[]NothingHeldBack`).
Neither property says anything of the bytes on their way, and so neither is inductive. `StreamInv`
does: as long as the reader is in step, every byte of `part`, `pipe` and `wBuf` that belongs to a
frame before the first race is where the frames, laid out one behind the other (`Layout`), have it;
what a finished `Send` has written is past the buffer (`SafeTo`); and without a race the buffer ends
exactly where the writer has come to (`Written`). A whole header is then that of the next frame and
of no other, as no two frames begin at one place.

On `Adler`, for any bytes, window and file length, and any modulus above 1 with halves wider than it
and than a byte (`AdlerAssumption`, `AdlerProofs`): `SumIsTheStandard` (`[]SumIsAdler32`), that reducing
once behind the loop gives the two sums of Adler-32, which reduce at every byte and are recursive
functions here; and `RollingIsExactUntilABorrow` (`[]RollsUntilBorrow`): the sums of one window and the
next differ as the incremental form says, up to a multiple of the modulus, and where no half borrows
the word adds nothing else.

What a recursive function computes is proved here by well-founded induction on a set of numbers,
the places where the claim fails, which has no least element: the library's induction theorems,
which take an operator, are not needed for that.

Only model-checked: liveness, `EndsUnlessRaced`, whose last step from the two theorems above needs
fairness and so ENABLED, which the prover does not have. Of `adler_rolling`, which fails, there is
nothing to prove.

## 7. Not modelled

Flags and profiling (`cmd/syncing.go`), generated code (`gproto.pb.go`), vendored packages (`pkg/`),
logging. Inside the modelled parts: file modes and owners (the code ignores them), the symlink
branch of `RebuildFile` (`receiver.go:177-188`, a failure before the write: fault `open`), and two
paths that are one file by a hard link. A machine that stops: nothing is fsynced before `Chtimes`
(`receiver.go:218-239`), so a file may come back with its stamp and without its bytes. A FIFO in the
source tree, on which `MakePatch` (`patch.go:34`) would wait for ever. A `basePath` that does not exist
(`ReceiverFS`), and a `Stat` that fails for want of permission there (`Session` has it as the fault
`stat`). A program that writes a file and puts back its mtime and size (`cp -p`, `mv`): in `Resync` a
write gives the present time. `DoSync`'s dropped error needs no model beyond `Aborted`.

Of the program's own code, some 900 lines in `comm`, `sender`, `receiver` and `gproto/msg.go`, what no
definition stands for is imports, type declarations, logging and the hexadecimal formatting of a hash.
By far the largest part of the repository, the protobuf library with its compiler and tests and the
profiler in `pkg/`, is other projects' code, which the program uses through `Marshal`, `Unmarshal` and
one call of `profile.Start`. To model it would say nothing about this program.

## 8. State of the plan

All modules of the plan are written: `Connection`, `Sender`, `Receiver`, `Session`, `SyncPromise`,
`Delta`, `ReceiverFS`, `TreeWalk`, `Wire`, `Resync`, `Adler`. Worth adding:

1. That `Wire` without a race implements the streams of `Connection`, as a refinement of a FIFO.
2. A composition of `Session` with `Resync`, so that what a session may leave is derived.
