# A TLA+ model of libupdate

libupdate is a C library and a helper program that replace a desktop
application by a newer version of itself.  This directory holds a TLA+ model of
its code, the TLC configurations that check the model on small instances, and
theorems about it proved with TLAPS.

Paths are relative to the root of the repository (`src/` in `PROJECT.json`).
The POSIX branches are modelled; the Windows ones differ in system calls, not
in the order of the steps, except where noted.

## 1. The system

The application links the library, asks it whether there is a newer version,
has it download and verify a package, and has it start the *updater*, a process
of its own, which waits for the application to exit, replaces the install
directory and starts the application again.

| component | code | state it keeps | operations |
|---|---|---|---|
| updater process | `updater/main.c`, `updater/update_state.c` | install, staging and backup directories, the state file and its `.part` | run from `--install` to exit; load, validate, save and remove the state file; resume |
| file operations | `libupdate/src/update_ops.c`, `platform_fs.c` | the file system | remove tree, move, copy tree, stage overlay, merge overlay, recreate, wait for parent, relaunch |
| archive extraction | `update_extract.c` | the staging directory | check entry names, write every entry beside its place and rename it there |
| library session | `update.c` | one context under one lock: options, callbacks, `initialized` | init, shutdown, set callbacks, check, download, verify, apply, perform |
| path rules | `update_path.c` | none | validate, make absolute, validate the install paths |
| HTTP transport | `http_transport_socket.c` (POSIX), `http_transport_winhttp.c` | one connection, the `.part` file of a download | fetch into memory, stream to a file; fixed, chunked and until-close bodies |
| manifest | `update_remote_check.c`, `json_mini.c` | none | extract strings, compare versions |
| release notes | `update_html.c` | output buffer, stack of open tags | sanitize HTML, escape plain text |
| process start | `platform_process.c` | a pipe per spawn | spawn, wait |
| SHA-256 | `sha256.c` | hash state | init, update, final |

How they interact: `update_perform` calls check (transport, manifest, release
notes), download (transport, SHA-256), the application's signature verifier and
the process start, and hands over to the updater by its command line alone:
package path, install directory, process id, application path.  The updater
shares no memory with the library; it calls the file operations and the
extraction.  What connects one run of the updater with the next is the disk:
three directories and the state file.

What is hard here:

- **Crashes.**  The updater may be killed between any two system calls, and the
  next run has to work out from a one-word phase and from which directories
  exist what is whole, what is partial and what is stale.
- **Partial failure.**  Every rename, removal and write may fail after its
  retries.  Some results are checked and lead into a recovery that can fail as
  well, some are ignored.
- **Interleaving.**  Nothing locks the install directory, and the library may be
  entered by several threads, with callbacks that enter it again.
- **Stale knowledge.**  The updater decides where to resume before it waits for
  the application, and the library reads its context, releases the lock, and
  acts on the copy.

`PROJECT.json` lists under "hazards" each place where this bites, with the
properties that would notice.

What makes each component correct:

- updater: the application is never lost or mixed, and changes in one step
  from a whole tree to a whole tree; a run ends; a run left alone succeeds
  whatever it finds; nothing is touched while the application runs;
- file operations: a removal or a move that fails leaves what the callers
  expect; the overlay keeps files the package does not list;
- extraction: a success has written every entry, inside the destination;
- session: an updater is started only for a package that was verified and
  approved, which stays where it is; no call leaves a working directory or
  memory behind; a call that runs while another one closes the session is safe;
- transport: a download is reported only for a complete body and only then
  appears under its name;
- manifest: each name gets its own value, and an update is offered exactly when
  it is newer;
- release notes: every call comes to an end, the output is balanced, nothing is
  lost but what is dropped on purpose, and no buffer is overrun;
- process start: the parent learns whether the program was executed, and learns
  it at all.

## 2. The modules

    AtomicInstall          what an installation promises (abstract)
    Updater                one updater process and its disk (detailed)
      UpdaterProperties    what is claimed of it; the refinement mapping
        FewKills           the same under a bound on kills between successes
      TwoUpdaters          two processes on one disk
    MCUpdater, MCFewKills, MCTwoUpdaters    small instances for TLC
    UpdaterProofs          theorems about Updater and FewKills; Updater implements
                           AtomicInstall
    Session                the library in the process of the application
    MCSession              small instances for TLC
    SessionProofs          theorems about Session
    Transfer               what a download promises (abstract)
    Http                   the transport over sockets (detailed)
    HttpProofs             theorems about Http; it implements Transfer
    Notes                  the sanitizer of release notes: tags and their stack
    Anchor                 its scan for the address of a link
    AnchorProofs           theorems about Anchor
    Escape                 plain notes, and the buffer all output goes through
    Trees                  the copies of directory trees
    TreesProofs            theorems about Trees
    Spawn                  the start of a program, from several threads
    SpawnProofs            theorems about Spawn
    Manifest               the reading of a manifest, the order of versions
    Texts                  strings on their way through JSON
    TextProofs             theorems about Notes, Escape, Manifest and Texts
    Extract                the extraction of an archive, and the rules on paths
    ExtractProofs          theorems about Extract
    MCAnchor, MCLibrary    small instances for TLC

### Updater

State.  `dirs` is the set of directories that exist and `tree[d]` what is in
them, as `<<file, version>>` pairs, so that a half-removed, half-extracted or
mixed tree can be told from a whole one.  `saved` and `part` are the state file
and the `.part` it is written to (`update_state.c:229-278`).  The rest is the
process: `pc` names the call it is about to make, `resume` the result of
`updater_determine_resume`, `todo` the entries still to be extracted, `parent`
whether the process named by `--pid` lives, and `status` how the last run ended.

Actions.  `main` (`updater/main.c:112-264`) is cut at its system calls: there is
an action for every call that changes a directory or the state file, and the
early returns are where the action continues.  `RemoveTree`, `MovePath`,
`WritePart`, `CommitPart` and `RemoveState` model the operations; each takes the
call it stands at and where it continues when it succeeds or fails, so the run
reads like `main` does.

| `main.c` | action |
|---|---|
| 51-149 | `Launch` (a new process: package, parent) |
| 151-162 | `Load`, `DropState`, `DetermineResume` |
| 164-170 | `WaitForParentExit` |
| 172-181 | `RollBack`, `RolledStaging`, `FinishState`, `Relaunch` |
| 183-190 | `DropBackup`, `FinishState`, `Relaunch` |
| 192-209 | `SwapIn`, `Undo`, `AbortStaging`, `AbortState`, `SaveInstalled`, `DropBackup`, ... |
| 212-219 | `ClearStaging`, `OpenArchive`, `ExtractEntry`, `AbortStaging`, `AbortState` |
| 221-263 | `SaveExtracted`, `ClearBackup`, `SwapOut`, `SaveBackedUp`, `SwapIn`, `SaveInstalled`, `DropBackup`, `FinishState`, `Relaunch` |

`main` repeats the tail "remove staging, remove state, return an error" four
times and "remove state, relaunch" three times; the model has each once.  The
removal of the staging directory in a rollback (`main.c:176`, `RolledStaging`) is
there, though a rollback is chosen only when there is no such directory.

Data left out: paths (a package path is a model value, so "another package" is
all the check of the five paths in the state file comes to), file contents (a
version), the retries of one call (their two outcomes; the number is the bound),
and permissions.  `parse_args`, the path limits and `join_install_app` are one
way to fail (`path`).

Granularity.  A recursive removal unlinks entry by entry, an extraction adds
entry by entry, a rename is atomic; a run may be killed between any two of
these.  An entry's temporary file and its rename are one step: a kill between
them leaves a `.extracting` file in a partial staging directory, which the model
has as the same directory without it.

What can go wrong is a constant, `Faults`: `crash` and one kind for each way an
operation fails (see `FaultKinds`).  A property names the faults it withstands
through its run or its theorem, and the violated runs show where it ends.

### AtomicInstall, FewKills, TwoUpdaters

`AtomicInstall` is what the user is promised: the application tree in use changes
in one step from a whole tree to the whole package, a run that does not get
there leaves it alone, and one that reports success has got there.
`UpdaterProperties!ImplementsAtomicInstall` is its specification under the mapping
that takes the tree in use to be the install directory or, while that is renamed
away, the backup.

`FewKills` counts the runs killed since the last success and bounds the count.
`TwoUpdaters` runs two instances of `Updater` over the same disk.

### Session

State.  `ctx` is `s_ctx`: the open configuration, which stands for the options,
and the signature verifier.  `loc[t]` is the call thread `t` is in: `pc` is the
point it has reached, the other fields are its local copies, and `pinned` and
`guard`, which the code does not have, remember what the session demanded when
the call began.  `made`, `part` and `zip` are the files: the working directories
that exist, the packages with a `.part` beside them, and what is in the package
under each path (its content stands for its digest).  `started` are the updaters
that were started, `leaked` and `exited` what their names say.

Steps.  Every access to `s_ctx` is between `ctx_lock` and `ctx_unlock`, and
nothing called there locks again or waits, so each such section is one step.
What a call does outside it does with its copies; those parts are steps of their
own, and any step of any other thread comes between them.

| code | action |
|---|---|
| `update.c` 250-337, 351-361 | `OpenSession`, `Shutdown`, `SetVerifier` |
| `update.c` 363-396, `update_remote_check.c` 193-232 | `Check`, `Manifest` (what the server answered is one outcome) |
| `update.c` 739-815 | `TempBase`, `MakeWorkdir`, `Names` |
| `update.c` 432-471 | `Download` |
| `http_transport_socket.c` 561-704 | `OpenPart`, `Receive`, `FailDownload` |
| `update.c` 203-248, 473-491, 827-832 | `VerifyDownload`, `VerifyPackage` |
| `update.c` 837-851 | `AskVerifier`, `CallVerifier` |
| `update.c` 517-557, 558-701 | `ReadContext`, `Spawn`, for `update_perform` and for `Apply` |

`Fail` is the removal of the working directory that each of the seven failures
after its creation makes; `Return` forgets the copies, and takes note when the
description of the manifest is among them.

What the application and its platform may do beyond the ordinary is the constant
`Habits`: close the session while calls run (`reopen`), call `update_perform`
twice in a second (`same_second`), run out of memory when the digest is copied
(`low_memory`).  Other failures are outcomes of the steps.

Data left out: the progress callback (copied and called without the lock, as the
verifier is), the channel, which nothing reads, the install directory that is
passed on, and the bytes of a `.part` file: a complete body is some content,
whoever else wrote to the file.  Removals, whose results the code ignores,
succeed.  `update_perform` does not look at `expected_sha256`; in the model, as
in the code, only `Download` does.

### Http, Transfer

The server is part of the model: it sends its page in the framing it announced
(chunked, with a length, until it closes), in pieces as it likes, and the
connection may break at any byte, in order or not.  `wire` is what was sent and
not read yet; `io_src`, which first hands out what came with the header, makes it
one stream.  Each reader of the code is one action per round of its loop, so a
break comes between any two of them.  The twin functions for a file and for
memory differ in where they write (`Written`) and in what a failure leaves; `kind`
says which one is running, and `part["file"]` outlives a killed process.  URL,
connection, TLS, and the text of header and status line are one way of failing
(`NoBody`) and one result, the framing.

`Transfer` promises that what the caller holds changes in one step, to the whole
page, and only when the download succeeds.  `Http!ImplementsTransfer` maps the
state directly.  Two things are not promised because the code cannot: the end
of a page the server does not announce, and a page above the limit of a fetch.

### Notes, Anchor, Escape

`Notes` reads one token, a stretch of text or a tag, in each step
(`update_html.c:668-809`).  `opened` is the stack, `html` the buffer, `skipping` the
dangerous tag whose end is looked for.  `Anchor` is the loop of `parse_anchor_href`
over the symbols of one tag, with the position as a variable, as that is what the
loop may fail to advance; a safe address that does not fit into `href_buf` with its
terminator is passed over (`IsTaken`).  `Escape` is `buf_ensure` and `buf_append` character by
character, with the limits small enough to be met at every stage of the doubling.

### Trees

`trees[d][f]` is what file `f` of directory `d` holds.  A copy opens its target,
which empties it, and fills it; each file is tried `FileTries` times and a tree
`TreeTries` times.  `plan` are the copies a call makes one after the other
(`update_merge_overlay_install` makes two), `asked` and `before` remember what the
call was to do.  Two failures go unnoticed, as the code ignores their results: that of
`fclose` for the last bytes of a file (`update_ops.c:117`), and that of `remove` for a
target that was not copied (lines 105, 113 and 130), which then stays, torn or old.
`neglected` holds the targets either has happened to since they were last opened or
removed, and `CopyResult` and `NoTornFile` say nothing of those: after an error, or a
success of a best-effort copy, they may hold anything.  A copy that is not best-effort
and succeeds has opened each of its targets again after a failed removal, so there
only `fclose` is left.  Nested directories are left out: `copy_tree_posix` calls itself
with the same arguments for each.  `KillCopy` leaves the tree as it is, and the next
call starts from there.

### Spawn

The state is that of the pipes: which process has which write end open.  `open`
are the ends open in the application, `inherited[c]` the ones open in child `c`:
`fork` copies all, `exec` closes the child's own.  `Lingers` says that the
started program runs until the application is gone, as the updater does.

### Manifest, Texts

The search for a name is not a parser, so the manifest is a sequence of tokens,
`MemberTokens` of each member after those of the last, and `FindString` takes the
first that fits.  `Texts` has what is between quotes,
character by character: `EmitString` is what the updater writes into its state file,
the rest is `parse_json_string_value` in its three uses.  `UintValues` is how many values
an `unsigned` has.

### Extract

A name is its words and its separators, since the rules of the code and the file
system disagree on what separates: a backslash does for the rules, and not for a
POSIX file system.  A word is the sequence of the pieces it is made of, as the code
makes new words by adding `.update_staging` and `.extracting` to old ones.  `Walk`
goes over the words of a name as the file system does, and `Resolve` is where it
arrives.  The steps are the calls of `update_extract` that change the disk, so a
kill leaves what it leaves there, and the next call meets it.  `Updater` has the
same extraction with one step per entry.

## 3. What TLC checks

| run | instance | shows |
|---|---|---|
| `atomic` | one package, at most 3 kills between successes, faults of extraction, path and start | `ImplementsAtomicInstall` |
| `recovery` | one package, at most 3 kills and no other fault, fairness | `InstallsUnlessKilled`: a run that ends without being killed has installed and cleaned up, whatever it found; `RecoversAndInstalls`: it does end |
| `safe` | one package, any number of kills, every fault but an unreadable state file | `AlwaysACopy`, `OnlyPromotion`, `WaitsForApp`, `Terminates` |
| `mixed` | two packages, any number of kills, every fault but failing removals | `TypeOK`, `NoMixedInstall`, `CleanExit` |
| `lost_tree` | two packages, one kill | `AlwaysACopy` is violated |
| `half_tree` | one package, four kills | `WholeInstall` is violated |
| `overlay` | no fault at all | `KeepsUnlistedFiles` is violated |
| `two_at_once` | two updaters, no fault | `AlwaysACopy` is violated |
| `session` | two threads, two configurations (one pins a digest), two packages (one approved), two working directories, no special habit | `TypeOK`, `PackageKept`, `ApprovedFirst`, `NothingLeft`, `PinHolds` |
| `library` | each part in turn, see below | the 25 properties of `Http`, `Notes`, `Anchor`, `Escape`, `Trees`, `Spawn`, `Manifest`, `Texts` and `Extract` |
| `hang` | the same links, and two kinds of attributes more | `AnchorEnds` is violated |
| `deadlock` | two callers, programs that wait for the application | `SpawnReturned` is violated |

The properties of `library`:

| part | properties |
|---|---|
| transport | `HttpTypeOK`; `InSync`: the readers never take framing for content; `NoPartLeft`; `FetchBounded`; `ImplementsTransfer`; `CallReturns` |
| release notes | `ShownBalanced`; `CleanUnchanged`: good notes stay as they are; `TextKept`; `FirstSafe` (that fits the buffer) and `AnchorEnds` for the scan of a link; `BufferFits` |
| tree copies | `CopyResult`: what a success means; `NoTornFile`; `OnlyNamed` and `UpdaterSpared`: what is never touched |
| process start | `SpawnTruth`, `SpawnReturned` |
| manifest | `ReadsMembers`, `OffersNewer`, `RoundTrip`, `SecondPassFits` |
| extraction | `StaysInside`, `NoPartialFile`, `WholeArchive` |

Bounds.  A package has two files: with two, a removal or an extraction can be
interrupted before, inside and after.  The old tree has a third file, which no
package has, so an overlay differs from a swap and a mixture of two packages
from a whole one.  Two packages suffice for a run to meet what a run of another
package left; a third would be met in the same way, since the code compares
package paths for equality only.  `safe` and `mixed` do not bound the number of
runs or kills: the state space is finite without it.  `MaxKills` is 3 in `atomic`
and `recovery` because 4 is the number at which the property fails (`half_tree`).
No symmetry is used; the instances are small enough without.

In `session` two threads give every pair of calls at every pair of points; each
has a directory of its own, and two suffice for one call to remove what is not
its.  Any number of calls follow each other.  A package that is approved and one
that is not, and a configuration with a pin and one without, are what the
properties tell apart.  Deadlock is not checked there because `update_apply` ends
the process (`exit(0)`, `update.c:710`), and with it every thread.

`MCLibrary` puts the parts side by side and moves one of them, chosen at the
start, while the others rest: the states are the sum of the parts' states, about
227,000, and not their product, which would show nothing more, as the parts share
no state.  Its bounds:

- transport: a buffer of 2 and lines of up to 3 symbols, so that a page fills
  more than one read and a line can be just too long; pages of up to 4 symbols,
  one of which looks like a chunk, and a fetch limit of 3; the server is at most one
  symbol ahead when it sends more (`MaxAhead`), which only bounds how much one
  break can lose;
- release notes: two tags that pass, two that do not, a stack of 2 and output of up
  to 6 tokens for notes of up to 4, so that both limits are met; three attributes
  in a link, for a safe address to come before, after and inside others, and room for
  an address of four symbols (`HrefCap`, 2048 bytes in the code), which one of them
  fills and another exceeds;
- buffers: a first capacity of 2 and limits up to 12 on both sides of the powers
  of two; strings of up to 3 characters written and 4 read, which has an escape in
  every place, the last one included;
- tree copies: two tries for a file and two for a tree, in place of the eight of the
  code (`UPDATE_OPS_RETRIES`), so that there is a try that is not the last; every
  fault at every file;
- process start: two callers; a third would inherit in the same way;
- manifest: up to four members, one more than is required, in any order; four values
  of an `unsigned`, so that a version can wrap and the greater one can stand behind;
- extraction: archives of two entries, called twice, killed anywhere: two entries
  can share a name, a directory or the name of a temporary file.

Deadlock is not checked in `library`, `hang` and `deadlock` since a call that has
ended takes no more steps.

Why the faults are divided so:

- *Unreadable state file* (`load`) defeats `AlwaysACopy` in the same way as
  another package does (`lost_tree`): the run takes the state for absent, starts
  over, and removes the backup.  `NoMixedInstall` and `CleanExit` hold all the same.
- *Failing removals* (`remove`) defeat `CleanExit` by definition and
  `NoMixedInstall` because results of removals are ignored: an extraction then
  goes over what an earlier package left in the staging directory.
- *Another package* defeats `AlwaysACopy` (`lost_tree`).
- *Failing renames* (`move`) and *failing saves* (`save`) defeat atomicity: a run
  that cleans up its staging directory under a state file that says "extracted"
  can be killed half-way (`main.c:230-231`), and the next run trusts what is left.

What each habit of the application defeats, found by giving `Session.cfg` that
habit:

- `same_second` defeats `PackageKept` and `ApprovedFirst`.  The name of the working
  directory is made from the time in seconds, the process id and the number of the
  attempt (`update.c:776-778`), and a directory that exists counts as created
  (`platform_fs.c:505-511`).  Two calls then share a directory, and the one that
  fails removes the package the other has started an updater for, or replaces it
  by one that the verifier refuses.
- `reopen` defeats `ApprovedFirst`.  `update_perform` looks at the verifier after the
  download, when the session may have been closed and opened again without one.
- `low_memory` defeats `PinHolds`.  `update_download` copies the digest with `dup_str`,
  whose NULL means both that none was set and that `malloc` failed; only the copy of
  the URL is checked (`update.c:462-468`).  A file nobody verified is then reported as
  good, though `update.h:135` says "Verifies SHA-256 if expected_sha256 was set in
  options".

And `NoLeak`, stated in `Session`, is violated by a single call of `update_perform` that
finds no newer version: it returns without `update_info_free` (`update.c:733`), and the
description of the manifest is lost.

Three more instances of `library` that fail, each by what the code does:

- An install directory with a trailing separator, `Named(<< <<>>, Opt, App, <<>> >>, <<"/", "/", "/">>)`,
  defeats `StaysInside`: the staging directory is made inside of it.
- Versions whose numbers do not fit wrap; `OffersNewer` leaves them out.
- `Lingers = TRUE` with two callers is the run `deadlock`.

Fairness.  `FairSpec` has weak fairness of `Step`, since the operating system
keeps running a started process, and of `ParentExit`, since `update_apply` calls
`exit(0)` (`update.c:703-711`) and `update_perform` asks its caller to exit
(`update.h`, `UPDATE_STARTED`).  There is none for `Launch` or `Crash`.
`KFairSpec` says the same of the counted steps.  `LibrarySpec` has weak fairness of
the steps of each part whose liveness is claimed: the transport's own steps and the
server's (the code sets no timeout, so a call ends only if the server goes on;
`Break`, `NoBody` and `Kill` get none), the loop of the scan, and in `Spawn` each
caller, each child and the exit of the application that has been told its updater
is running.  `Terminates` also needs the
steps of a removal to be finitely many, which they are: each one unlinks an entry.

### What the violated runs show

- `lost_tree`.  A run is killed between the two renames.  The next update comes
  with another package path, as `update_perform` makes a new one every time, so
  the state file is rejected and dropped, the run starts over, and its
  `update_remove_tree(backup)` removes the only copy of the application; then the
  install directory cannot be renamed and the staging directory is removed too.
- `half_tree`.  Nothing removes an old state file before a full run extracts.
  Four kills in a row are needed to meet one that says "extracted" beside a
  half-extracted staging directory: before the second record is committed, after
  the promotion but before the third, before the removal of the state file, and
  during the next extraction.  The run after that promotes half of the package.
- `overlay`.  The code swaps trees.  README.md and `tests/test_apply.c` describe
  an overlay, which `update_merge_overlay_install` implements and nothing calls.
- `two_at_once`.  Two updaters for one directory, one removing the backup while
  the other has the install directory away.
- `hang`.  In `<a href=http://host>` the value ends at the first slash; in `<a "x">` a
  quote stands where a name should.  The next round of the loop finds no name and no
  equals sign there and goes on where it is (`update_html.c:490-492`).  A manifest
  with such notes keeps `update_check` busy for ever; running the code shows the same.
- `deadlock`.  Each child is forked with the write end of the other caller's pipe open
  and marks only its own to be closed by `exec` (`platform_process.c:353`).  Both
  updaters wait for the application to exit, and both callers in it wait for the pipes.

## 4. What is proved

For every set of files and packages, any contents, and any number of runs
(`UpdaterAssumption` asks only that packages hold files, that there is a package,
and that the two special values are none of the ordinary ones):

| theorem | under | states |
|---|---|---|
| `TypeCorrect` | | `[]TypeOK` |
| `AppIsWaitedFor` | | `WaitsForApp` |
| `NeverMixed` | removals succeed | `[]NoMixedInstall` |
| `SuccessIsClean` | removals succeed | `[]CleanExit` |
| `NeverLost` | one package path, readable state files | `[]AlwaysACopy` |
| `OnlyPromoted` | the same | `OnlyPromotion` |
| `RunsOnlyForward` | | `RunsForward` |
| `AtomicWithFewKills` | one package path, at most 3 kills between successes, no failing load, save, move or removal | `KSpec => ImplementsAtomicInstall` |
| `InstallsWithFewKills` | one package path, at most 3 kills between successes, no other fault | `KSpec => []InstallsUnlessKilled` |

and, for any number of threads, configurations, packages, verifiers and
directories (`SessionAssumption` types the constants and keeps the working
directories apart from the paths given to `update_download`):

| theorem | under | states |
|---|---|---|
| `SessionTypeCorrect` | | `[]TypeOK` |
| `NoDirectoryLeft` | | `[]NothingLeft` |
| `StartedPackageKept` | not `same_second` | `[]PackageKept` |
| `StartedOnlyIfApproved` | neither `same_second` nor `reopen` | `[]ApprovedFirst` |
| `PinnedDownload` | not `low_memory` | `PinHolds` |

and, for the parts of the library.  The named assumption of each module types its
constants; `NotesAssumption` also keeps the two markers of the model apart from the
tags, `ManifestAssumption` has the numbers of every string that can be compared,
and `HttpAssumption` keeps line ends out of chunk extensions, where the protocol has
none.  A chunk of the model's server has fewer than ten symbols, as its size is
written with one digit; a page has any number.

| theorem | for any | states |
|---|---|---|
| `HttpTypeCorrect` | pages, trailers, sizes of the buffers | `[]HttpTypeOK` |
| `NoPartStays` | the same | `[]NoPartLeft` |
| `FetchKeepsLimit` | the same, and limit of a fetch | `[]FetchBounded` |
| `DownloadInSync` | the same | `[]InSync` |
| `HttpImplementsTransfer` | the same | `ImplementsTransfer` |
| `NothingTorn` | files, layout, numbers of tries | `[]NoTornFile` |
| `OnlyNamedChange` | the same | `OnlyNamed` |
| `OverlaySparesUpdater` | the same | `UpdaterSpared` |
| `CopiesArrive` | the same | `[]CopyResult` |
| `SpawnTellsTruth` | number of callers | `[]SpawnTruth` |
| `NoSelfWait` | the same | `[]WaitsForOthers` |
| `ExtractionStaysInside` | archive, names and separators; no install directory is given with a separator at its end (`NoneEndsWithSeparator`) | `StaysInside` |
| `PartialsAreTemporary` | archive and install directory | `[]NoPartialFile` |
| `SuccessIsWhole` | the same | `[]WholeArchive` |
| `NotesAreBalanced` | notes, lists of tags, depth of the stack, limit | `[]ShownBalanced` |
| `CleanNotesUnchanged` | the same | `[]CleanUnchanged` |
| `NoTextLost` | the same | `[]TextKept` |
| `FirstSafeIsFound` | readable attributes (`AllReadable`), number of them, room for the address | `[]FirstSafe` |
| `EveryRoundAdvances` | the same | `[]RoundsAdvance` |
| `BufferHoldsNotes` | text, first capacity, limit | `[]BufferFits` |
| `WrittenIsReadBack` | string, text, buffer | `[]RoundTrip` |
| `PassesAgree` | text | `[]SecondPassFits` |
| `MembersAreRead` | manifest | `[]ReadsMembers` |
| `GreaterIsOffered` | manifest, width of an `unsigned` | `[]OffersNewer` |

Each follows from an inductive invariant:

- `Waiting` (for `AppIsWaitedFor`): while the parent lives the run has not got past
  the wait.
- `MInv` (for `NeverMixed`).  That the installed tree has one version says nothing
  of the staging and backup directories it is renamed from and to; `MInv` has
  each of them unmixed, directories that do not exist empty, and the staging
  directory during an extraction filled from the package of the run.
- `CInv` (for `NeverLost`, `OnlyPromoted`).  The copy is safe only while a run at
  a call that clears the backup has the install directory, and whether it has
  was decided by an earlier run.  `CInv` ties each call to the directory it relies
  on, and says that where the install directory is away there is a state file
  and a backup, and hence a resumption that does not start over.
- `EInv` (for `SuccessIsClean`): what is gone by the time each of the last calls is
  made.
- `KInv` (for `AtomicWithFewKills`).  The files are followed through the calls; what
  makes it inductive is a count: a state file still saying "extracted" after the
  first rename has cost one kill, after the second two, and beside nothing but the
  install directory three.  The fourth does not happen, so no run trusts a partial
  staging directory.
- `RunsOnlyForward` needs no more than the types: `CallOrder` puts the calls of `main` in
  one line, `Precedes` is a strict order (`OrderIsStrict`), and each action goes on
  along it or takes one entry off a tree or off what is to be extracted.  Together with
  the finiteness of a package that bounds the steps of a run; the step from
  there to `Terminates` needs fairness.
- For `InstallsWithFewKills` it is `KInv` again, which has what each call needs when it is
  made, so that no rename finds its source away or its target in use and no record is
  missing; with kills as the only fault the calls that give up (`GivesUp`) are
  then never reached (`StepGoesOn`).

- `Shapes` (for all of `SessionProofs`): what each call holds at each of its points;
  without it nothing says that the place of a call that removes its directory is a
  working directory.
- `PInv` (for `StartedPackageKept`).  That the package of a started updater stays
  needs more than the package: every working directory has one owner, a call or
  an updater (`Exclusive`), it exists (`Present`), and a call past its verification
  has the package it verified (`Verified`); so another call's `Fail` or `Receive`
  is about another directory.
- `GInv` (for `StartedOnlyIfApproved`).  The verifier a call counts on is the
  registered one (`Guarded`), so the call cannot find none when it asks (`Asked`),
  and past the answer its package is an approved one (`Passed`, `Cleared`).
- `PinCopied` (for `PinnedDownload`): the digest a download compares is the pinned one.

- `HInv` (for `HttpProofs`): from the header on there is something to write to
  (`BodyOK`), which is what makes the lengths of what is written add up; no read
  hands out more than is still to come.
- `Bounded` (for `FetchKeepsLimit`): outside a fetch there is no buffer.
- `SInv` of `HttpProofs` (for `DownloadInSync`).  What is written says nothing of what will
  be read next, so the invariant is about the whole stream: what the server has left is
  the end of the page (`ServerOK`), what is written its beginning (`BodyKept`), and what
  is on the wire goes on where the writing stopped (`PlainStream`), in the chunked
  framing with sizes and line ends in between.  `ChunkStream` says that by *marks*: there
  is a partial function from places on the wire to numbers of symbols of the page,
  defined where a chunk begins, which starts at the reader's place and after each chunk
  goes on at the place behind it (`ChunkMarks`).  A read shifts the marks, and a send adds
  one.  As it quantifies over functions, this one was not given to TLC; `InSync` was.
- `TInv` (for `TreesProofs`): the sources hold whole files and no copy changes them;
  the file being copied is there in its source; and a torn file of the target was torn
  before the call, was left so by `fclose` or by a removal that failed, or is the one
  being written (`TornOK`).
- `RInv` (for `CopiesArrive`): with each file of the target a call has come as far as its
  current copy has (`Progress`): a file that is done holds what the copy brings, and one
  that the copy does not name holds what the copies before it left.
- `SInv` of `SpawnProofs` (for `SpawnTellsTruth`): a caller that is about to fork has its own
  end open, so its child has it open until it runs the program, fails or is killed
  (`HoldsEnd`); and a byte is in a pipe exactly when the `exec` of its child failed
  (`Said`).  The end of the stream without a byte therefore says that no `exec` failed,
  whoever else had the pipe open.
- `EndsHeld` (for `NoSelfWait`): children hold write ends only while they are on their way
  to `exec` or run, none holds its own when it runs, and a caller that reads has closed
  its own.
- `EInv` of `ExtractProofs` (for `PartialsAreTemporary` and `SuccessIsWhole`): each entry the
  loop is past is in its place or was replaced by a later one (`WholeSoFar`), whatever
  the disk held before; and a partial file lies where a call still comes to it, which
  removes or replaces it (`PartialsAhead`).
- `IInv` (for `ExtractionStaysInside`): moreover the staging directory is beside the install
  directory and has its ancestors.  That a checked name stays inside is a property of
  the recursive `Walk`: without dot segments it only appends.
- `TextInv`: the reader's place in the text is where the spelling of the next character
  of the value begins (`ValueSoFar`, with the marks of all characters), and while the second
  pass runs, its places are those the first one went through, in order
  (`FirstPass`, `SecondPass`).
- `NotesInv`: the sanitizer's stack is what a reader of its output has open (`HtmlRead`);
  as long as the notes are clean and fit, output and notes are the same (`CleanShown`);
  and the texts shown are as many as those read that no dangerous element encloses
  (`TextSoFar`).
- `BufferInv`: the length is the width of what was put out, the capacity between it and
  the limit.
- `ManifestInv`: what was taken is what the search finds in the manifest
  (`TakenFromIt`), the answer is the comparison (`Compared`), and an error has its
  reason (`WithReason`).  The rest are two facts about the operators: in a plain
  manifest each member takes four tokens and a name that is looked for stands at the
  first of them (`PlainTokens`), and the order of versions is that of the numbers they
  make to the base of `UintValues` (`NewerIsGreater`).
- `AnchorRead` (for `FirstSafeIsFound` and `EveryRoundAdvances`): the scan stands behind the
  first `k` attributes, if not for white space (`Reached`), and `href` is the first safe
  address of those that fits (`FoundOf`).  A round takes the next attribute (`TakesOne`), or two: one
  that has no value and a nameless one behind it, whose equals sign the round takes
  for its own.  It speaks of where the attributes stand in the tag (`Standing`), which
  TLC does not compute; TLC checked the two properties, also for all readable texts
  of up to five symbols, two in a tag.
  `Readable` is the hypothesis, and `MCAnchor` asserts it of the attributes `library` runs
  with: white space, then a name and nothing more, or a name, an equals sign and a value,
  in quotes or without any symbol that ends such a value.  The two kinds of attributes that
  `hang` adds are the ones it excludes.

The invariants of `TextProofs`, and the walk of a name in `ExtractProofs`, rest on recursive
functions (the reader of the markup, the width of a text, the spelling of a string).
What such a function computes is proved by induction over a *set* of numbers
(`NumberInduction`, from the well-foundedness of the numbers), after `Recursion` has
shown that a function with these values exists, so that the `CHOOSE` behind a
recursive definition has it.  Before they were proved, TLC checked `RInv` (and with
it `TInv`), `EInv` of `ExtractProofs`, `TextInv`, `NotesInv`, `BufferInv` and `ManifestInv` on
the instances of `library`.

The refinement proof maps every step to a step of `AtomicInstall` or to a stutter:
`SwapIn` is `Apply`, an exit is `Succeed` or `Fail`, and everything else leaves the
tree in use alone, the renaming of the install directory included.  In that of the
transport the step that stores what was read (the rename of the `.part` file, the
return of the buffer) is `Succeed`, which `SInv` shows to be with the page itself where its
end was announced; a return without it, and a kill, is `Fail`, and every other step
but the start of a call is a stutter.

Only model-checked are the liveness properties, which need fairness: `Terminates`,
`RecoversAndInstalls`, `CallReturns`, `AnchorEnds` and `SpawnReturned`.  What of four of them is
safety is proved: `InstallsUnlessKilled` for `RecoversAndInstalls`, `RunsForward` for `Terminates`,
`RoundsAdvance` for `AnchorEnds` and `WaitsForOthers` for `SpawnReturned` say that no step goes back
or stays where it is, and who may be waited for.  The last three are in no run, as the
theorems have them for every instance and the runs check the stronger liveness
properties; TLC found them to hold in `safe` and `library` before they were proved.  The
violations are runs of TLC.

## 5. Not modelled, and why

- Power failure.  `updater_state_save_atomic` does not sync the file or its
  directory, so a power failure may leave an empty or an old state file.  A kill
  of the process, which is what `Crash` is, loses no completed call.
- Process ids.  A reused id keeps the wait going (`update_ops.c:66`); the model's
  parent is the right process.
- Malformed answers.  A chunk size or a `Content-Length` that is no number reads as
  zero and ends the body (`http_transport_socket.c:422, 493`), and the header is
  searched beyond its end (`header_value_line`).  The servers of the model are
  well-behaved until they break off.
- The progress callback of the session, relative paths and the names Windows
  reserves, and the lengths of paths.
- The state file's buffer, which a file of exactly 4096 bytes fills to its end before it
  is terminated one byte behind (`update_state.c:92`): one addition, with nothing around
  it for a model to explore.
- SHA-256: bit arithmetic with published test vectors, no order or state.
- WinHTTP: what that file does lies in the Windows API.
- miniz: third-party code.

## 6. Plan

Proofs: all safety and action properties of the passing runs are proved.

Models: a disk with unsynced writes under `Updater`, for power failures; the URL and
header parsers of the transport; the progress callback in `Session`.
