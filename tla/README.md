# libbutl in TLA+

libbutl is the utility library of the build2 toolchain: file descriptor
streams, child processes, builtin commands, filesystem operations, paths,
manifests, versions and smaller things. This directory holds a TLA+ model of
its stateful core, the TLC configurations that check it and proofs that TLAPS
checks. `PROJECT.json` maps every definition that models code to its lines.

## 1. Inventory

The components, the state each keeps, and what makes it correct.

| component | state | operations | what is hard, what must hold |
|---|---|---|---|
| fdstream, output (`fdstreambuf`, `ofdstream`) | `fd_`, `buf_`, `off_`, `non_blocking_`, the state bits of the stream; the kernel's file and offset | put, write, flush, tellp, seekp, close, release, open, blocking | short and failing writes at every place, two implementations of `xsputn()`, `overflow()` writing past `epptr()`; no accepted byte is lost, repeated or misplaced and `close()` does not lose data silently |
| fdstream, input (`ifdstream`, `getline_non_blocking`, `fdselect`) | get area, `off_`, mode, skip flag | showmanyc, underflow, seekg, close with skip | non-blocking reads between the parts of a line, end of file, skipping; no line is lost or split |
| descriptors (`auto_fd`, `fdopen`, `fddup`, `fdopen_pipe`, `fdmode`) | the descriptor table and its close-on-exec flags | open, dup, pipe, close | descriptors leak into children that other threads create |
| process, creation | `process_spawn_mutex`, pipes, the child between fork and exec | the constructor: `posix_spawn()` and `fork()` forms, retries | several threads at once; no leak, no busy text, the mutex is released on every path |
| process, waiting | `handle`, `exit`, `out_fd`, `in_ofd`, `in_efd`; the child, its pipes, pending signals | wait, try_wait, timed_wait, kill, term, destructor, move | waiting for a child that waits for us, failing `waitpid()`, a handle that is stale, answers that agree |
| builtin, running and waiting | `result_`, `state_`: thread, mutex, condition variable, `finished` | run_async, run synchronously, wait, try_wait, timed_wait, destroy | lost wakeups, use after free, retries of thread creation |
| builtin, commands | files and streams | cat, cp, echo, mv, rm, sed, ... | others that change the same tree between two system calls, fallbacks, cleanup callbacks, the non-blocking echo |
| filesystem | the filesystem, shared with everybody | cpfile, mventry, mkdir_p, rmdir_r, dir_iterator, links, auto_rm | a failure or a crash between two system calls, other processes in between |
| path | none | normalize, relative | pure algorithms on strings |
| path-pattern, `path_search()` | open directories, the rest of the path of an entry | path_match, path_search | backtracking, recursive and self-matching wildcards, entries that come and go, callbacks that refuse; every match is found once for each way to match it |
| manifest parser, serializer, rewriter; char-scanner | position, the version of the manifest | next, comment, merge_comment, replace, insert | line breaking, escapes and multi-line values round-trip; an edit changes nothing else |
| json | parser and serializer stack, buffers, cached data | next, peek, next_expect, name, value | cutting strings where a buffer is full, data that a look ahead overtakes |
| lz4 | stream buffers | compress, decompress | block boundaries, end of stream |
| standard-version, semantic-version, timestamp, url, project-name, base64, utf8, uuid, sha, regex, string-parser, tab-parser | none | conversions | boundaries, order |
| containers | elements | | the small buffer that one allocation uses |
| command, curl, sendmail, openssl, git, pager, b | a process and streams | constructor, close, wait | the order of closing and waiting |
| default-options | lists of files | load, merge | the order of overriding |
| mingw-* | hand-written condition variable, shared mutex | wait, notify, lock | wakeups |
| vendored C (pdjson5, lz4, sha, xxhash, strptime) | | | third-party, left out |

How they interact: builtins and the wrappers use streams, streams own
descriptors, the process constructor opens pipes with the descriptor functions
and hands their ends to the caller, who moves them into streams. The process
constructor and the descriptor functions share `process_spawn_mutex`, the only
global lock. Callbacks exist only in the builtin commands.

## 2. Modules

```
OutputFile  <--refines--  FdOutBuf                      <- MCFdOutBuf
                          ^ FdOutBuf_proofs
Waitable    <--refines--  Builtin                       <- MCBuiltin
                          ^ Builtin_proofs
Waitable    <--refines--  Process                       <- MCProcess
                          ^ Process_proofs
                          ProcessSpawn                  <- MCProcessSpawn
                          ^ ProcessSpawn_proofs
LineSource  <--refines--  Pipes  (on FdInBuf)           <- MCPipes
                          ^ Pipes_proofs
                          FileCopy                      <- MCFileCopy
                          ^ FileCopy_proofs
                          Commands                      <- MCCommands
                          ^ Commands_proofs, CommandsShared_proofs
                          Manifest  (on ManifestText)   <- MCManifest
                          Json  (on JsonSerializer)     <- MCJson
                          PathSearch  (on PathPattern)  <- MCPathSearch
```

**OutputFile** is the promise of an output stream: a file each accepted write
changes at once. **FdOutBuf** is the output half of `fdstreambuf` with the
`ofdstream` calls that reach it. `buf` is `[pbase(), pptr())`, `off` is `off_`,
`open` is `fd_ >= 0`, `rdstate` the state bits (badbit subsumes failbit),
`file` and `pos` belong to the kernel. `want`, `wpos`, `torn`, `closed` are
history variables: the file as the accepted operations should leave it, the
position of the next character, whether a short `save()` has happened, whether
`close()` returned. Every action is one call of the stream, including
`Put` = `ostream::put()` with `overflow()`, `PutString` = `ostream::write()`
with `xsputn()`, of which `WriteThrough` is the POSIX and `FillAndFlush` the
Windows implementation. Kernel writes may be short by any amount or fail. The
part of an operation that belongs to the standard library (the sentry, which
bit is set) is as the C++ standard has it; in particular `flush()` of a stream
that is not good does nothing. The stream's `open` in the model opens a new,
empty file; the position argument is not modelled.

**Waitable** is the promise that `builtin` and `process` share: one completion,
one result, `wait()` answers it, `try_wait()` and `timed_wait()` answer it if
the completion came before the call and may answer "not yet" otherwise.
**Builtin** has the starting thread (`phase`, `attempt`), the builtin's thread
(`worker`, one action per statement of `async_state::execute()`) and any number
of waiting threads (`pc`), with the mutex and the condition variable; the
notification, spurious wakeups and timeouts are separate steps. The captured
descriptors are one unit `fnFds`, because the code moves them together.
**Process** is the process object with its child (`child`, `status`, the output
it has `left` to write, `needEof`), the two pipes and a pending signal. A call
is split at its system calls: `waitpid()`, sleeping, polling `sigpending()`.

**ProcessSpawn** is the constructor and `fdopen_pipe()`, `fddup()`, `fdopen()`
run by any number of threads: `table` is the parent's descriptor table with
close-on-exec flags, `ctable` that of each child, `shared` and `excl` are the
holders of `process_spawn_mutex`. Each thread first writes a script and then
runs it, with both standard streams on pipes. The variable `fork`, which never changes,
tells the build.

**FileCopy** is `cpfile()` and `mventry()`, one action per system call, by
processes that share paths. `dir` and `inode` are the file systems: an entry is
a file or a symlink, several entries can be links to one file, `Device` says
which paths are on the same file system. `perm`, `ifs`, `ofs` and `rm` are the
locals of `cpfile()`, `pos` is what the copying loop has done; `before` is a
history variable, the file system at the beginning. `Error` is an exception at
any system call, because the guard of the call's action is false (no such
file, the exclusive open finds a file) or because it just fails; `Cleanup` is
the destructor of the `auto_rmfile`, which removes by path and is assumed to
succeed; `Crash` can come anywhere. Content is a sequence of buffers. Newly
created files lose the bits of `Umask`, times the digits that `timeval` does
not have.

**FdInBuf** is the input half of `fdstreambuf` with the `ifdstream` calls that
reach it: one operator per step of a call, each with at most one system call.
`area` is `[gptr(), egptr())`, `off` is `off_`, `pipe` and `writer` belong to
the kernel, `line` is the string `getline()` appends to, `took` what was
extracted; `Piece` is what one step of `getline()` takes out of the get area,
up to a delimiter or all of it. **Pipes** composes it with a child and with the code that reads its
output: `client` is `curl::version()`, `openssl::info()`, `b_info()`, the
`openssl` object as a filter, or the loop over `fdselect()` and two
non-blocking streams that `fdstream.hxx` recommends. `pc` is where the parent
is; a read can fail, the caller can throw between two lines (`CallerThrows`),
and then the streams are destroyed in the order `Unwind`, the last one skipping.
`lines` are the lines that were delivered and `said` is a history variable, the
text they make up with a delimiter after each.
The child writes, waits for its input, exits, crashes or gets SIGPIPE.
**LineSource** is the promise of line reading: whole lines, in order, once, and
the end only after the last.

**Commands** is `cp`, `ln`, `mkdir`, `mv`, `rm`, `rmdir` and `touch` of
`builtin.cxx` with the filesystem functions they call. A step is a system call
of one of the processes; `stack` holds the calls in progress as frames, since
`rm -r`, `cp -r` and `mkdir -p` are recursive. `node` is the file system as
inodes, so that hard links and directories that are removed while they are open
are what they are. `dir_iterator` reads a snapshot from which entries removed
since may be missing, with or without types (`fs.types`). `Meaning` says, for
each command, whether it succeeds and what it makes of a tree that nobody else
touches. `held` is a history variable: whether what the command is for has been
the case at a moment since it began. Errors are the ones the tree causes;
content, times and EXDEV are in `FileCopy`. `Down` is a lookup that crosses no
symlink, `LstatIn` and `DerefIn` one that does, in the inodes of the moment or
in those the commands began with. Its bounds: a symlink leads nowhere if it
leads to or through another one, or past a file, and `open()` creates nothing
through two of them (`DerefIn`, `Creatable`); there must be an inode left for a
new entry (`Make`). `rmdir()` tells a file on the way (`FileOnWay`, ENOTDIR,
which `try_rmdir()` throws) from a missing entry (ENOENT, which it returns).
`cp -r` takes the type that `readdir()` has told, and asks `lstat()` only if it
has told none and `stat()` for a symlink (`CpNext`, `CpEntry`). `rename()`
refuses to move a directory into itself by the paths without symlinks
(`RealPath`).

**ManifestText** has the text form of manifests: `write_value()`,
`merge_comment()` and `split_comment()`, and the parser's `parse_name()` and
`parse_value()`, on sequences of characters, with the widths as constants.
**Manifest** is the life of a file: a `manifest_serializer` is called with pairs,
comments and ends (`ser` is its state and version), or somebody has written the
file; a `manifest_parser` reads it (`par`), recording positions; a
`manifest_rewriter` replaces and inserts by these positions from the last pair
to the first (`at`), and the file is read again. `expected` is what the reader
is to get.

**JsonSerializer** is `buffer_serializer`: the events it accepts (`stack`,
`absent`, `values`) and `write()`, which cuts a string where the buffer is full
and escapes and validates it on the way; `buf` and `out` are the buffer and what
has left it. **Json** reads the text back: `par` is the parser with its cached
name, value and location and the data and position of pdjson, which is external.
The caller calls `next()`, `peek()`, `name()`, `value()` and the two
`next_expect` functions that skip. The properties define the text of a sequence
of events (`TextOf`) from their neighbours and nesting, not from the serializer.

**PathPattern** is `path_pattern_iterator` and `path_match()` of names, and
`Matches`, what a pattern matches by the documentation. **PathSearch** is
`path_search()`: the frames of `search()` over a directory tree
(`recursive_dir_iterator`, whose open directories are `iters`) or over the tree
of one entry (`path_iterator`), one step for each entry or call of the callback.
The callback refuses directories (`refuse`) or has had enough (`enough`); another
process removes an entry (`victim`). `Ways` says how a path can match the
components of a pattern, one after the other; `FindsAll` counts them. Some jobs
only filter names by one pattern.

Definitions whose comment starts with "Fault" are deliberately wrong variants
of the definition that follows, one per checked property. They are used
nowhere; putting one in place of the original makes TLC find the property
violated, which shows that the property can fail.

## 3. Runs

| run | configuration | properties | shows |
|---|---|---|---|
| fdoutbuf | MCFdOutBuf | BufferBound, Intact, CloseDurable, Implements | no byte lost, repeated or misplaced; refinement of OutputFile |
| builtin | MCBuiltin | TypeOK, NoUseAfterFree, WaitImplements, NoLostWakeup, DestroyEnds | the wait protocol; refinement of Waitable |
| builtin_retry | MCBuiltinRetry | RunsOnGiven (violated) | finding 1 |
| spawn | MCProcessSpawn | TypeOK, NoLeak, NeverBusy, EveryCallEnds | descriptors, the mutex and busy scripts, in the `posix_spawn()` and the `fork()` build |
| process | MCProcess | HandleMatchesChild, WaitImplements, CallEnds | waiting; refinement of Waitable |
| pipes | MCPipes | Delivered, SkipDrains, OutcomeTrue, LinesImplement, ParentEnds | clients of child processes; refinement of LineSource |
| filecopy | MCFileCopy | MoveKeeps, CopyOutcome, OldKept, WinnerKeeps | copies and moves that fail or crash anywhere |
| commands | MCCommands | TypeOK, AloneMeaning, SuccessHeld, PathsShared, CleanedUp, OnlyAdds | the builtins that change the file system, alone and against each other |
| commands_link | MCCommandsLink | LinkFallsBack (violated) | finding 2 |
| manifest | MCManifest | RoundTrip, CommentsKept, EditsKept | what is written is read back, edits keep the rest |
| json | MCJson | WritesText, ReadsBack | events through small buffers and back |
| search | MCPathSearch | FindsAll, RaceTolerated, DepthFirst, MatchRight | what path_search() and path_match() find |

The types of `FdOutBuf` and `Process` are proved (section 5) and not checked by a
run.

Bounds. `fdoutbuf`: two interchangeable characters, a put area of 2 and a
device of 3, strings of up to 5 characters: a string can be shorter than the
free space, equal to it, longer than it, longer than the buffer and longer than
twice the buffer, and the device can fill up inside each part of it. The
interesting comparisons in the code are against the free space, the buffer and
twice the buffer, so longer buffers repeat these cases. `builtin`: two waiters
(one can hold the mutex while the other is blocked, and one notification has
two receivers), two exit codes so that a stale result is visible, two retries
instead of 15. `spawn`: two threads, since every interaction is between one
that opens descriptors and one that creates a child; one retry of the creation
instead of 15 and two attempts of `exec()` instead of nine. `process`: a pipe of
one chunk and up to two chunks of output, so that the child can block, and
`timed_wait()` of up to two sleeps. `filecopy`: two sources, one on the file
system of the destination and one on another, a destination that is absent, a
file, a hard link of the source or of another file, or a symlink to either or
to nothing, sources that are files or symlinks, all flags, content of up to
three buffers (the old content is longer than the new, so that a missing
truncation would show), and two processes that copy to the same path: every
hazard is between two processes or a process and what is already there.

`pipes`: outputs of up to three and two characters, a buffer of two, pipes of
two and one: a line can span buffers, the pipe can be full while the parent
waits for the other stream, and the last line can lack its newline. `commands`:
every command alone with every path, or pair of paths, out of eleven: entries of
a small tree, a symlink to a directory, what is through it, below a file and
missing; in trees that are full and empty and on file systems with and without
links and types. Left out are only `cp -r`, `ln` and `ln -s` that would copy a
directory into itself (`s`, `d` or `d/l`, which leads to `s`, to `d/l/s`): the
code does not notice, and whether it ends depends on when `readdir()` sees what
it makes. Then two processes with the twelve commands that change the same
subtree; three that make or clean up overlapping paths, or create in the
directory that `cp -r` or `ln` is making. `manifest`: lines of four characters
instead of 77, with the other widths in proportion, values of up to seven characters over the
characters with a meaning, two pairs, two manifests, and five hand-written
manifests for the edits. `json`: six events, nesting of two, strings with every
kind of byte (plain, escaped, control, sequences of two and three, broken ones),
buffers smaller than the strings. Only the text written to a string is read
back (`ReadModes`): by `WritesText` the text is the same for all buffers.
`search`: patterns of one and two components of seven kinds, trees of two
levels; with symlinks and removals, three kinds. Two levels and two recursive
components are enough for a directory to be found in several ways, before and
after what is below it. Name patterns are all of up to four characters over
seven, and some with ranges, against all names of up to three characters over
four and of four characters over two. The definition they are compared with
(`Matches`) takes the terms of a pattern as `Terms` cuts it, as the matching
does: a mistake in the cutting would not show.

Deadlock is checked in all but two; a system that is over (`Over`, `AllDone`,
`Done`) stutters explicitly. A program that writes and reads manifests or JSON
may stop whenever it likes, and it has to when its stream has failed: `manifest`
and `json` do not check deadlock.

Fairness. `Builtin`: the function returns and threads keep running (weak
fairness of the worker's and the waiters' steps), and a thread that wants a
mutex that is released again and again gets it (strong fairness of the lock
steps, which `std::mutex` does not promise by the letter but every scheduler
provides). Neither calls nor spurious wakeups nor timeouts are fair, so that
`NoLostWakeup` does not hold by timing out. `ProcessSpawn`: the same for
threads and children; the success of `pipe()` or `fork()` is not assumed, but
the retries are bounded. `Process`: the child keeps running, a call that can go
on does, a pending signal is delivered; `waitpid()` need not fail, the caller
need do nothing. `Pipes`: the child and the parent keep running, and a read that
can succeed again and again does at last (strong fairness of `Fill` and
`GetEnd`: otherwise the alternative, being interrupted or finding nothing,
could be taken for ever).

## 4. What TLC found

Findings with a run:

1. `run_async()` retries the creation of a thread with `fn` after `fn` was moved
   into the failed attempt. The builtin then runs, on the standard streams of
   the process and not on the descriptors it was given, which are closed.
2. `ln` of a file where hard links are not supported (and `ln -s` where symlinks
   are not either) does not fall back to a copy: `mkhardlink()` tests the
   optional `dir` and not its value, calls `cpdir()`, which makes a directory at
   the link path and fails to iterate over the file. `AloneMeaning` leaves out
   this case (`CopiedInstead`).

Met while modelling; where a property would not hold, it leaves the case out by
the condition named:

- `fdstreambuf::tellp()` is too large after a `tellp()` on a device that is
  full. `save()` is short: it advances `off_` and leaves the put area unchanged;
  `seekoff()` returns -1, for which `ostream::tellp()` sets no bit; the stream is
  good, and a later `flush()` writes the same bytes again. All other callers of
  `save()` turn the short write into badbit or failbit. (`torn` in `Intact` and
  `CloseDurable`.)
- After a failed `waitpid()` in `wait(true)`, `try_wait()` answers nullopt for
  ever, `wait()` answers false, and `timed_wait()` sleeps all its time.
- `cpfile()` that fails while it overwrites a file through a symlink unlinks the
  symlink, since the `auto_rmfile` has the path it was given, and leaves the
  incomplete copy at the target. (`OldKept` is about moves and exclusive copies.)
- `cp f f`, or onto a symlink or hard link of `f`, truncates the file before it
  is read and succeeds; `cp -r` of a path that does not exist onto itself makes an
  empty directory and succeeds. (`Meaning` says so.)
- `openssl::info()` of a program that fails without a line of output throws the
  `ios_base::failure` of the stream and does not return nullopt.
- `manifest_rewriter::insert()` after a multi-line value that the end of the file
  terminates, and not a line with a backslash, writes the new pair as another
  line of that value. Such a file is legal for the parser; the hand-written
  manifests of MCManifest end their last value.
- `manifest_rewriter::insert()` tells `write_value()` where the value begins from
  the positions of the new pair, which has none (`colon_pos - start_pos` is 0),
  and so forgets the length of the name: a line of the value can become longer
  than the 78 code points of manifest-serializer.hxx:46 by nearly that much.
  The value reads back all the same, which is what `EditsKept` is about.
- `path_search()` of an entry that is a file, with a directory pattern that
  matches itself (`a` with `a***/`), calls the callback for `a/`, and
  `path_match()` of them is true: `path_filesystem::iterator()` only asks whether
  the path is below the directory it is to iterate over. filesystem.hxx:914 says
  that it behaves as if the tree contained only the entry, which is a file.
  (`FileTaken` in `FindsAll`.)
- `path_search()` with a self-matching pattern below a directory that does not
  exist reports the directory as found if the callback refuses to enter it:
  `open()` finds out about the absence only when it opens. (`MissingTaken`.)
- A symlink that another process removes between `readdir()` and `stat()` looks
  dangling to `dir_iterator`, so that `path_search()` throws ENOENT without a
  dangling callback; and where `readdir()` does not tell the types, an entry
  removed before its `lstat()` makes a search that does not follow symlinks
  throw, and a loop of `rmdir_r()` end. (`RaceTolerated`, `CleanedUp`, which
  also leaves out paths through a symlink.)

What the properties do not claim is also worth knowing. `CopyOutcome` says that
a new file has the permissions of the source without the umask: `cpfile()` with
`cpflags::none`, and with it `mventry()` between file systems, relies on
`open()` for them. It also says that a copied time is cut to microseconds. It
assumes different files: a file copied onto itself with `overwrite_content` is
empty afterwards and `cpfile()` returns. `MoveKeeps` and `OldKept` assume that
nobody else uses the paths; between file systems, and without
`overwrite_content`, `mventry()` is documented as not atomic. `PathsShared` is
about processes that make directories only: with one that removes them
`try_mkdir_p()` may fail. `DepthFirst` is about patterns with one recursive
component and no component left out.

## 5. Proofs

`FdOutBuf_proofs` proves, for every character set, buffer size, device size,
bound on the strings and both builds, that `Spec` implies `[]TypeOK`,
`[]BufferBound`, `[]Intact` and `[]CloseDurable`. The assumptions are those of
`FdOutBufAssumption`: `Cap` is positive, the device size a natural number,
`Hole` not a character.

The invariant `Inv` adds to the properties that a failed stream is torn (the
caller may clear failbit after a `seekp()` that failed, and go on: `Intact` and
`CloseDurable` would not be inductive without remembering that this was a torn
`save()`), and that a closed stream is not open. The argument rests on
`OverlayConcat`: two consecutive writes are one write of the concatenation, so
it does not matter where the kernel or the buffer splits what the caller wrote.
From it follow `BufferAccept` (a string that goes into the put area),
`WriteAccept` (one that goes through it, leaving a tail) and `SaveConsistent`.
There is one lemma per action; the one of `FillAndFlush` shows that the part
that fills the buffer, the flush and the tail are the string again.

`ProcessSpawn_proofs` proves `[]TypeOK`, `[]NoLeak` and `[]NeverBusy` for every
set of threads, both builds and any number of retries, from
`ProcessSpawnAssumption` (`NoThread` is not a thread, the limits are natural
numbers and `exec()` is tried at least once). Neither
property is inductive. `IInv` adds who holds `process_spawn_mutex` in which
step (`Mutex`), that a descriptor which is not close-on-exec is one that its
thread is marking at this moment (`Marked`), that only a child before `exec()`
has inherited descriptors, none of them unmarked (`Inherited`), and that such a
child was created after its thread had closed its script and, with
`posix_spawn()`, keeps its thread suspended and thereby the mutex locked
(`BeforeExec`). `NoLeak` is then the mutual exclusion of marking and creating.
`NeverBusy` is the lemma `NotBusy`: two children before `exec()` would be two
exclusive holders. Nothing of this needs a bound, so the runs with two threads
lose nothing.

`FdOutBuf_proofs` also has `Refinement`, which is `Implements` step by step: the
abstract file holds the file with the put area laid over it at `pos`, and is
broken when the stream is not good or torn. `Inv` is what the simulation needs,
and the lemmas about `Overlay` again: a `save()` moves characters from the put
area into the file, and so changes nothing the abstract file can see.

`Builtin_proofs` proves `[]TypeOK`, `[]NoUseAfterFree` and the refinement
`WaitImplements` for any set of waiters and codes and any number of attempts,
from `BuiltinAssumption` (the owners of the mutex are told apart, `NoCode` is
not a code). `IInv` adds who holds the mutex in which step (`Mutex`), that
without an `async_state` no call gets further than the unlocked read
(`Asynchronous`), that nobody is in a call before the builtin runs or once its
owner destroys it, and that the destruction ends after the thread has
(`Lifetime`), that the flag follows the result (`Stored`) and what a call can
have seen (`Waiting`). `Stored` is why the read of the result after the mutex
was released is no race: it is only reached when the flag is set, and nothing
is written after that. `early`, whether a call began before the completion, is
why "not yet" is a right answer of `timed_wait()` even when the builtin
completes between the timeout and the return.

`Process_proofs` proves `[]TypeOK`, `[]HandleMatchesChild` and `WaitImplements`
for pipes of any size, any amount of output and timeouts of any length, with a
`waitpid()` that can fail or not. `HandleMatchesChild` is not inductive:
`InWaitpid` adds that a call in `waitpid()` has a handle, that one waiting for a
pending signal has none any more, and that a failure gives it up for good;
`Fate` that the exit status is the child's and is known once there is no handle.
`Progress` and `Answered` are for the refinement: which call can be where, and
that the last answer is the outcome.

`FileCopy_proofs` proves all four properties of the run for any set of names,
inodes, chunks and processes, from `FileCopyAssumption` (calls and file systems
have the right form; hard links and symlinks may be anywhere). The part of `IInv` about one call, `CallOf`, says
for each step what has happened so far: nothing before the destination is
opened, then the first `pos` chunks are in a file that is not the source
(`Copied`), with the permissions the opening gave it and the time of the last
change, and the source and all other entries are as before (`SourceKept`) up to
the end of a move. `Links` is what makes the paths stable: no step turns an inode
into a symlink or back, so what a path leads to changes only with an entry. `MoveNeverLoses`,
`CopyDoneOrUndone` and `OldFilesKept` follow from it for the process that is
alone (`Alone`); the theorems need no bound on the others because those have
nothing to do. `WinnerKept` is about any number of processes that race (`Race`)
and has an invariant of its own, `RaceInv`: nothing that was there at the
beginning changes (`Preserved`), and whoever has got past its exclusive open, and
so may have an active `auto_rmfile`, has made the file that is at the path now
(`RaceOf`); there can be only one of them.

`Pipes_proofs` proves `[]Delivered`, `[]SkipDrains`, `[]OutcomeTrue` and the
refinement `LinesImplement` for every text the child may write, every size of
the get area and of the pipes, and all clients, from `PipesAssumption` and
`FdInBufAssumption` (sizes are positive). `Flow` is `Delivered` with the sum
associated to the right, which is how characters move; it is inductive by
itself with the types. `SkipDrains` needs `Skipped` (a skipping stream is open,
has failed or has no child) and `BitsInv` (the end of the file is only ever seen
when the child is gone and everything was taken), and `Control`, where the
parent can be. The history of the lines is `Lines`: what was extracted is what
was delivered and a part of a line without delimiter, or, after the end, one
delimiter less. It is needed for the streams the parent still reads (`LiveInv`);
for the others `AllInv` says that everything has been delivered. `OutcomeTrue`
follows with the order of closing and waiting. For the refinement each step of
`getline()` is a stutter until the line is delivered; then the line is the next
one of the text written so far, since it contains no delimiter (`Partial`) and is
followed by one or by the end, which `BitsInv` has seen. The lemmas about
sequences (`TextAssoc`, `TextCut`, ...) say how a text can be cut and put
together.

`Commands_proofs` and `CommandsShared_proofs` are about `Commands`: `[]TypeOK`,
`OnlyAdds`, `[]PathsShared`, `[]CleanedUp` and what is true of `SuccessHeld`, for
every set of processes, tree, command and path of any length, from
`CommandsAssumption` (a scene is a tree in which every inode in use has a name,
with what the file system supports and the commands of the processes).
A lookup is a function of the length of the path, so what a step does to it is
an induction: `PathInduction`, from the well-founded induction over sets of the
library, which has no operator as a parameter: what is to be shown of every path
is stated as a set of paths, and a shortest one outside of it would have a front
in it. With it come `DownIs` and `LstatIs` (what one more name does to a
lookup), `GrownLstat` (adding entries keeps what is found), `ShrunkDown` (taking
entries away), `NewLstat` (what is new is under a new directory), `StableLstat`
and `KeptLstat` (other changes). The
system calls are shown to be one of a few changes (`MakeAdds`, `PutGrown`,
`WriteKept`, `UnlinkRemoves`, `RenameKeepsTree`), the calls of the processes are sequences over a set of
frames (`CallsOf`), and `StackSteps` says once for all such sets what going on,
calling and returning do. `TypeOK` is inductive; that no entry names a released
inode rests on `Release` looking at the other names and at who has it open.

Each of the others has an invariant of its own, about all stacks:

- `CreatorsInv`, where only commands run that create: all calls are of kinds that
  demand a new entry, none ignores errors, what `readdir()` told of an entry of
  the source is still so (`Reads`), and the source of a copy is what it
  was when it was opened. So `cpfile()` never has anything to undo.
- `MakersInv`, for `mkdir -p` and `try_mkdir_p()`: what is new in the tree are
  directories; each call is about the parent of the one before; when `exists` is
  reached something is there; and a failure means that something was in the way
  at the beginning (`Blocked`), since a directory that is found later stays.
- `CleanersInv`, for `auto_rmdir` where `readdir()` tells the types: the tree is
  what is left of the one at the beginning, and for each call that iterates,
  every entry it has seen, or that was not there when it opened the directory, is
  gone, or is what the next call on the stack is about. `not_exist` and
  `not_empty` are ignored, and so nothing stops it.
- `SuccessInv`: the outermost call of a command says what has been seen. Where it
  can only return, the effect was there; where `cp -r` (or `ln`) fills a
  directory, it has made it, or the call that makes it is on top of the stack; and
  what `rm -r` takes for a directory is one, or was gone, unless something is
  moved.

`SuccessIsTrue` is `SuccessHeld` without `mv`, and without `rm -r` where somebody
runs `mv`; `SuccessUnmoved` is `SuccessHeld` where nobody does. These limits are
real. `rm -r l/s` looks at the path twice, by `lstat()` and by `opendir()`, and
reports success when the second finds nothing: `mv` can have replaced the
symlink `l` by another one in between, through which there is an `s` that is no
directory. And `mv a/l b/l/x`, where `b` leads to `a`, moves the symlink `l` that
its destination leads through: it succeeds, and nothing is at that path. The
scenes of the run have neither.

In all of these the theorems are about `Spec` with every constant free, so the
sizes of the runs (two waiters, pipes of one or two, contents of three chunks)
do not limit them. Fairness plays no part in them.

Only model-checked. Liveness (`NoLostWakeup`, `DestroyEnds`, `EveryCallEnds`,
`CallEnds`, `ParentEnds`) is out of the prover's reach, as is anything about
ENABLED. `ManifestText`, `Manifest`, `JsonSerializer`, `Json`, `PathPattern` and
`PathSearch` compute with RECURSIVE operators, for which the prover has no
backend, and their properties compare two recursive definitions, which needs
induction over the data: they are for TLC alone. `AloneMeaning`
of `Commands` compares whole trees, seen by paths, before and after a complete
run of a command, which is an induction over the entries that are left to copy or
remove; and its `Meaning` is written for the scenes (it knows symlinks to one
name, not chains of them), so it stays with the run, as
do `SuccessHeld` for `mv` and for `rm -r` with a `mv` beside it.

## 6. Plan

Theorems worth proving next: a `Meaning` that holds in every tree, and with it
`AloneMeaning` of the commands that are one system call; `CleanedUp` where
`readdir()` does not tell the types, under a condition on who else removes.

Models worth adding: the non-blocking loop of `echo` on a shared open file
description; descriptor numbers in the child between `fork()` and `exec()` (a
parent without standard descriptors); path normalization and the order of
versions against references; the order of default options files.

## 7. Not modelled

"components" of `PROJECT.json` has the reason for each. In short: the vendored C
code (pdjson, lz4, sha, xxhash, strptime) is third-party, and of pdjson only what
the parser relies on is modelled, as external; the parsers of builtin options are
generated; the containers and conversions are sequential and pure and within
reach of unit tests. The Windows halves are left out where the POSIX half has
the same control; the Windows `xsputn()`, which differs, is modelled. Of the
MinGW thread adapters only `condition_variable_any` has control of its own. By
inspection, its `wait()` for other locks takes the caller's lock back while it
holds `internal_mutex_`, which a second waiter may want that has the caller's
lock, and a notification between `lock.unlock()` and the wait is lost, since
`notify_one()` and `notify_all()` do not take `internal_mutex_`; nothing in the
library uses it.
