# Termony in TLA+

Termony is a terminal application for HarmonyOS (`entry/`) with a package
manager for it (`build-hnp/horpkg/`). This directory models its core logic,
checks the models with TLC on small instances and proves the most important
safety properties with TLAPS for every value of the constants.

Line numbers below are those of the files in the repository; `terminal.cpp`,
`terminal.h` and `napi_init.cpp` are in `entry/src/main/cpp/`, `Index.ets` in
`entry/src/main/ets/pages/`.

## The system

| Part | State | Operations | Talks to |
| --- | --- | --- | --- |
| Screen (`terminal_context`) | size, cursor, scroll margins, modes, tab stops, saved cursor, buffer, history | the control functions `Parse` and `HandleCSI` dispatch, `ResizeTo`, the notice at an exit | the parser calls it; `Draw` reads it |
| Parser | `escape_state`, `escape_buffer`, `utf8_state`, `current_utf8` | `Parse(byte)`, `HandleCSI` | screen, `WriteFull` (replies), `Copy`, `RequestPaste` |
| Styles | `current_style`, `save_style`, `reverse_video` | `CSI m`, DECSC, DECRC | cells of the screen |
| Pty session | `term.lock`, `term.fd`, one worker thread per child | `Start`, `SendData`, `Resize`, `ScrollBy`, `Worker`, `Fork`, `WriteFull` | the child program, the UI and render threads |
| Pasteboard | `copy_queue`, `paste_requests`, `paste_queue`, the page's timer and promises | `Copy`, `RequestPaste`, `GetPaste`, `CheckCopy`, `CheckPaste`, `PushPaste`, `onPageShow`, `onPageHide` | worker thread, JS thread, system pasteboard, `pbcopy`/`pbpaste` |
| Renderer | glyph table `characters`, `need_rebuild_atlas`, `codepoints_to_load`, the texture, `scroll_offset` | `CreateSurface`, `RenderWorker`, `Draw`, `BuildFontAtlas` | the screen, under the lock; other render threads, without one |
| horpkg init | `config.json`, `.p12`, `.csr`, `.cer`, `.p7b`, tokens | `cmd_init` and what it calls | the cloud (certificates, profiles), the device through hdc-lite, the login server |
| horpkg install | profiles of bundles, work directories, PIN | `cmd_install`, `signing_*`, `hnp_utils` | the cloud, the device, the user |
| horpkg core package | `core_state.json`, HNPs of the workspace, `org.horpkg.core.hap` | `core_install_hnp` | downloads, signing, the device |
| Login server | `g_received_token`, `g_server_should_stop`, two threads | `http_server_get_oauth_token` | the browser, standard input |

Threads of the application: the UI/JS thread (one callback at a time), a worker
thread for each child program, and a render thread for each surface (the thread
stays when the surface is destroyed). `term.lock` protects the
screen; `SendData`, `WriteFull` and the worker's `poll`/`read` use `term.fd`
without it. `pasteboard_lock` protects the three queues.

What is hard, and where the properties aim:

- the column `num_cols` (a wrap that is pending) is a legal cursor and no index;
- margins, saved cursor and tab stops outlive the size they were made for, since
  a resize may come between any two control functions;
- a descriptor that another thread closes, and whose number the next pty gets;
- a child that exits with output unread, a write to a child that has gone, short
  writes, a full pty;
- the page that is hidden while texts wait, promises that resolve in any order, a
  program that stops waiting before the answer comes;
- a sequence or a character that one program begins and another one continues;
- a glyph table that is rebuilt without a lock while other threads draw with it,
  and a texture that is full;
- horpkg: a failure, a lost answer or a crash between two steps that change
  different places (cloud, disk, device), and the next run, which starts from what
  is left; a login that nobody completes.

`PROJECT.json` lists every hazard at its line.

## Modules

**`Terminal`** models the screen. Its variables are the fields of
`terminal_context` with their names. There is one action per control function
(`CUU` for `CSI A`, `DECSTBM` for `CSI r`, ...), and `Resize`, `ProgramExit`,
`NoticePrint` and `NoticeEnd` for the calls from outside. `ClampCursor`,
`SetCursor`, `MoveCursor`, `InsertUtf8`, `NextLine` (`DropFirstRowIfOverflow` after
`row += 1`) are operators as they are functions in the code. A cell is what the
functions tell apart: blank, a narrow glyph, the head or the tail of a wide
character. A number in a CSI sequence is an `int` and may be negative, since the parser
collects `-` (`terminal.cpp:854`) and `sscanf("%d")` reads it; a missing one is `NoParam`: `sscanf`
leaves its target alone, `read_int_or_default` gives the default. Sums that are assigned to
an `int` keep its low bits (`Low`); a sum that is only compared may wrap or not,
as the compiler likes (`Compared`). `IntMax` is `INT_MAX`. A failed `assert` or an
index outside a vector sets `fault`, and the behaviour ends there, so that nothing
is claimed about what the program does afterwards. `Functions` selects the control
functions a program uses, so that a run can look at some of them closely;
`TrustMargins` restricts `DECSTBM` to margins that fit the screen.

**`PtySession`** models the threads around the pty. A step is what a thread does
between two accesses to what others see: `pc[t]` says where thread `t` is, and
actions have the name of the function, or of the part of it, that they model. The
screen is left out: the output of a child is a sequence of tokens, and a "query"
token makes the worker write a reply while it holds the lock. The kernel is
external: a pty has an input side of `Capacity` bytes, a write takes any part that
fits, fails when the pty is full (`O_NONBLOCK`), closed, or without a child; a read
returns the first `ReadSize` tokens or fewer of what was printed, and reports that the child
has gone when nothing is left (the buffer of the worker has 1023 bytes and tokens have any
length); `forkpty` returns the lowest free number, the one just closed, or fails. `fault` is
the failed assert of `WriteFull`, or of `Fork` (`ForkFails`).

**`Pasteboard`** models the queues and the page. A step is one locked access to the
queues or one callback of the JS thread; `CheckCopy` and `CheckPaste` are the two
halves of a tick, between which a worker may run. The system answers calls
(`asking`, `reading`, `setting`) in any order, may refuse `getData`, and lets other
applications change the pasteboard. A text that is not in `Encoded` makes `decodeSync` throw, which
ends the tick; what else an exception in a callback of the timer does to the application is
the framework's business and left out. `waiting` counts the programs that wait for an
answer, as `pbpaste` does for one second.

**`Fifo`** is what either queue promises: what goes in comes out, once, in order. `Pasteboard`
implements it twice, with `copied`/`taken` (taken from the queue by a tick) and with
`pushed`/`popped` as the refinement mapping (`CopiesInOrder`, `PastesInOrder`).

**`TermParser`** models `Parse` and `HandleCSI` byte by byte: `escape_state`, `escape_buffer` and
the UTF-8 decoder are variables, and there is an action per state (`ParseEsc`, `HandleCSI`,
`ParseOsc`, `ParseDcs`, `ParseInitial`, `ParseContinuation`). What a sequence asks of the screen,
the pty or the pasteboard is recorded in `did`; the screen's answer is the business of `Terminal`.
Programs write *items*, each the bytes of one thing with what its writer means by it. A program
may exit in the middle of an item; the parser keeps its state, as the code does, and the next
program writes on. Numbers have blanks and a sign in front as `sscanf` and `std::stoi` take them;
numbers beyond 64 bits are left out. `throws` of an item says that it asks for a colour with a
number that is missing or no `int`. `wanted` is the style the programs asked for. `printed`,
`read` and `lost` serve the properties only.

**`TextStyle`** is the parameter loop of `CSI m` (terminal.cpp:685-782) as a fold: each step
takes one parameter, and as many more as an extended colour (38, 48) has. `throws`
stands for `std::stoi` on a parameter that is not there or no `int`; `sscanf` keeps the low
bits of a number that is no `int` (`Scanned`).

**`FontAtlas`** models the render threads. A frame holds `term.lock` and is one step (`Draw`). A
rebuild holds nothing, so `BuildFontAtlas` is split: the reset of the flag, one glyph at a time
(`BuildLoad`), the next font, the upload, and the assignment `characters = newChars`, during which
another thread may find the `std::map` empty (`BuildClear`, `BuildSwap`). A glyph is its place in
the texture: row, left edge, width, and the height of its bitmap, which may be more than that of a
row (`terminal.cpp:1441`): then only the part that fits is copied.

**`HorpkgInit`** models `horpkg init`. A step ends where a file or the cloud has
changed or the cloud has answered; the process may die between any two steps, a
call may fail, the answer to a call that succeeded may be lost, the directory may be
removed, the session and a certificate may expire, and init may be run again at any time.
`config_save` writes in place, so it is two steps with a broken file between them.
`Survey` is the comparison of the local key with the certificates in the cloud
that leads to one of the four scenarios of `cmd_init`.

**`HorpkgInstall`** models `horpkg install` of a local HAP, run after run. A HAP is its
bundle, the permissions of module.json and config.json and the ABIs it has HNPs for;
an archive is the set of HAPs its files come from, which is what tells whether a
work directory was mixed with another one, and `lost` when an HNP of it could not be put
back. `Renew` is what init does to the
certificate between two runs, `attempt` the retry of the signing after the local
profile has been removed.

**`HorpkgCore`** models `core_install_hnp`. The bundle is module.json (`listed`) and the files
in it; the state file is the list of packages in the order they were added. A
crash inside `core_state_save` leaves it broken, a download that breaks off leaves part
of an HNP.

**`OAuthServer`** models the login: the main thread that waits for a flag or for pasted
input, the server thread that accepts connections until it has a token or five
minutes are over, and the two variables they share without a lock.

**`TerminalProofs`**, **`TermParserProofs`**, **`FontAtlasProofs`**, **`PtySessionProofs`**,
**`PasteboardProofs`**, **`HorpkgInitProofs`**, **`HorpkgInstallProofs`** and
**`HorpkgCoreProofs`** hold the theorems about the module they are named after. The `MC*` modules
only give constants their values.

The modules stand beside each other as the parts do: `TermParser` produces the control
functions that are the actions of `Terminal`; the query and the output tokens of
`PtySession` are its replies and its input; its "copy" and "paste" effects are the actions
`Copy` and `RequestPaste` of `Pasteboard`; `FontAtlas` draws any screen; `HorpkgInit` produces
what `HorpkgInstall` calls the certificate and the session; `sign_hap` of `HorpkgInstall` is one
step of `HorpkgCore`; the token `OAuthServer` returns is what `Authenticate` needs.

Operators named `X_Word` next to an operator `X` are defects of `X`: a run whose
specification used one would violate the property that is there to catch it.

## Runs

| Run | Configuration | Checks |
| --- | --- | --- |
| `geometry` | 3x3 screen, resizes to 2x2 and 3x4, DECCOLM 2/4 columns, tab stops every 2, `IntMax` 9, parameters -10, -1, 2, 9 and missing, programs whose margins fit | `MarginsOnScreen`, `CursorOnScreen`, `AssertsHold`, `WrapPendsAfterPrinting`, `CursorKeepsMargins`, `TabStopsStayClose` |
| `text` | 2x3 screen, narrow and wide characters, wrap and insert mode on and off, every erase and edit, `IntMax` 9, parameters -10, -1, 2, 9 and missing (1) | `OutOfRangeExplained`, `PrintedLeftOfCursor` |
| `scroll` | 3x1 screen, history of 2 lines, `IntMax` 4, margins and numbers of lines -5, -1, 0 to 4 and missing, exit notice | `TypeOK`, `OtherLinesKept`, `LineFeedLosesNothing` |
| `parser` | 44 items: every kind of sequence the code tells apart, with signed, blank-led and huge numbers, the first and last code points of each length of UTF-8, six malformed ones, three colours at which `stoi` throws; exits anywhere, up to 2 items before a new line, escape buffer of 14 bytes | `Understood`, `ShortestForm`, `ThrowsAsWritten`, `NewLineResyncs` |
| `atlas` | three fonts of two classes, one with an ideograph, a code point no font has, a texture of three rows of 7 pixels that may overflow, rows two pixels high and glyphs of height 0 to 3, two surfaces, two changes of the screen | `GlyphsPacked`, `NotdefIsThere`, `AtlasSettles` |
| `session` | two children, the first prints twice, two calls of `Start`, a key, a paste, short writes of 2 bytes, reads of one or two tokens | `OwnPty`, `MutualExclusion`, `NoOutputLost`, `WritesInOrder` |
| `session_live` | two children, the first prints twice, reads of one token, one `Start`, one key, scrolling | `LockReleased`, `ChildReplaced`, `OutputParsed` |
| `pasteboard` | two copies, one text that `decodeSync` refuses, two requests, a page hidden once, contents of two records, one of them empty | `OneReadPerRequest`, `CopiesInOrder`, `PastesInOrder`, `CopiesArrive`, `RequestsServed`, `PastesTaken` |
| `init` | any number of runs from a new or an old installation, three failures, crashes or lost answers, one lost directory, one certificate that expires | `OneCertificate`, `FilesAgree`, `InitConverges` |
| `install` | any number of runs with two releases of an app, a restricted app, the runtime and a HAP without a bundle; two process numbers, one failure or crash, two renewed certificates | `CleanRunsInstall`, `OwnFiles`, `AppsKept` |
| `core` | any number of runs with three packages in two versions, two of them with one file name; one failure or crash, one lost file | `DeviceConsistent`, `PackagesKept`, `RecordedArrives` |
| `oauth` | two tokens, two connections, a clock of two ticks; violated | `AuthenticationEnds` |

Why the bounds are enough. On the screen everything is decided by comparing rows and columns with
the margins, the last column and the saved cursor: three rows have a row above, between and below
margins, three columns a first, an inner and a last one, and the sizes shrink and grow in both
directions. A wide character needs two columns, a tab stop one column between stops, the history
one line more than its bound. `IntMax` is above every position on the screens; where
`OutOfRangeExplained` and `CursorKeepsMargins` tell ordinary counts from others (`Ordinary`), it
leaves the small parameters ordinary. The parameters hold the last int, the first one, whose
negation wraps, -1 and small ones. In the session two children show the hand-over that every later one repeats (the last
child never exits: its worker would do what the one before did), and the first prints twice so
that a read finds something behind a query and the hangup finds more than one read left. In the
pasteboard two copies and two requests are the least that can be reordered. The parser has no
counter: an item of each kind after an item of each kind, and after every beginning of one, shows
every pair of states and bytes; two unfinished items are the least that can meet, and the longest
sequence has 14 bytes of parameters. Two render threads are the least that share a table; three
rows of 7 pixels are filled by the glyphs of the last screen in some orders and not in others.
init has four scenarios and two places a certificate can be lost from; three faults are one more
than the longest chain that can leave a scenario for another. In install and core a fault and the
runs before and after it are what matters: the second run of every program starts from anything
the first has left, and the number of runs is not bounded.

One action looks beyond what the application does today: `Start` is called once by
the page (`Index.ets:12`), but a second call is modelled and leaves the lock locked
(`StartTwice`), so `session` shows that safety survives it and `session_live` allows
one call only. `CHECK_DEADLOCK` is off everywhere because a fault ends a behaviour,
and because a bounded user or program may have nothing more to do.

### Disagreements between the code and what it says

The run `oauth` has one property, `AuthenticationEnds`, and TLC finds it violated: after five
minutes the server thread says "Authentication timeout (5 minutes)" (`http_server.c:260`) and
ends, without setting `g_server_should_stop`; the main thread waits for this flag or for pasted
input for ever (`http_server.c:367`).

The following were found while modelling and are part of the models: the properties
are claimed up to them, as their comments say.

The screen and the session:

- `CSI 1;5r` on three rows is taken as it is (`terminal.cpp:826`); in origin mode the
  cursor can then leave the screen, which `ClampCursor` ("clamp cursor to valid range")
  permits. `TrustMargins` separates this from the rest.
- `MoveCursor` gives an absolute row to `SetCursor`, which adds the top margin to it in origin
  mode (`terminal.cpp:309`, `:297`): with margins 2;3 `CSI A` ("move cursor up # lines", `:349`)
  moves the cursor down. `CSI H` without parameters ignores origin mode (`terminal.cpp:409`). `CSI -5 A` moves the cursor
  down, and `CSI -5 B` up, also out of the margins: `CursorKeepsMargins` is about ordinary counts
  (`Ordinary`), and with origin mode on it says what the code still keeps.
- With a pending wrap `CSI 1 J` writes `buffer[row][num_cols]`, and `ESC H` and `CSI g` index
  `tab_stops` with it. With wrapping off printing goes back over halves of wide characters, also
  past the beginning of the line (`terminal.cpp:248`). A negative count makes `CSI P` read before
  the line (`terminal.cpp:506`), `CSI @` behind it (`:843`), and `CSI S`, `CSI M` and `CSI L`
  other rows than those between the margins, or none; next to `INT_MAX` the comparison overflows.
  `OutOfRangeExplained` says that with ordinary counts (`OrdinaryStep`) only a pending wrap or
  wrapping off leads out of range; of other counts it says nothing.
- A window of one row fails the assert of `DropFirstRowIfOverflow` at the first line feed
  (`terminal.cpp:210`).
- A key typed after a child exits and before the worker replaces it fails `assert(size >= 0)`, a
  `forkpty` that fails fails `assert(res == 0)` (`terminal.cpp:1269`). A second call of `Start`
  leaves the lock locked. What the UI thread writes around an exit may reach the next child, and
  short writes of two threads are mixed: `WritesInOrder` is about each thread's own.
- `Draw` compares `scroll_offset`, `SendData` resets it to follow the output, `Draw` assigns
  the old value.
- `pbpaste` waits one second for an answer; the user who needs longer to give the
  permission has the answer typed at the prompt. A request whose pasteboard is empty, or
  that is refused, is never answered (`Index.ets:151`, `terminal.cpp:1228`). A copied text that is not
  base64 is lost and ends its tick (`Index.ets:122`).

The parser:

- `OSC 11 ; ?` is answered by `10;` (`terminal.cpp:1000`), where the comment says "send OSI 11 ;
  r g b : f / f / f ST", and `CSI ? 25 l` sets `show_cursor` to true like its opposite
  (`terminal.cpp:673`), where the comment says "Hide cursor". `Understood` is not claimed of these two.
- `CSI 27 m` exchanges the colours again, also when they are not exchanged.
- `std::stoi` throws on a parameter of an extended colour that is missing or no `int`
  (`terminal.cpp:741`) and nothing catches it: `CSI 38;m`, `CSI 38;5;m` and
  `CSI 38;5;99999999999m` end the application, and so may two pieces of sequences of two programs.
  `ThrowsAsWritten` says that nothing else does.
- A byte that breaks off a UTF-8 character is lost with it, also an ESC.

The renderer:

- A glyph higher than its row is copied as far as it fits, but "location within the texture"
  (`terminal.cpp:1452`) is computed from all rows of its bitmap (`:1458`): it shows the top of the
  row below, or what is below the texture.
- When the texture is full, the fonts that are left write over the last row, and a
  glyph that is missing asks for a rebuild in every frame, for ever. `GlyphsPacked` allows the
  first in the last row only, and to a glyph higher than its row to show the rows below.
- `destroySurface` does nothing (`napi_init.cpp:147`), and the next surface starts another
  thread with the same `std::map`: `assert` in `Draw` (`terminal.cpp:1597`) may fail between the
  two halves of the assignment.

horpkg:

- init ends with "Horpkg initialization complete!" (`cmd_init.c:307`) though the .cer is missing
  or has no certificate in it; it is not downloaded again, nor is a profile made for a
  certificate that was replaced (`signing.c:597`).
- A list of certificates that fails is taken for an empty one (`signing.c:110`): init
  requests a second certificate. A second device that runs init deletes the
  certificate of the first. `persist_hdc_port_if_needed` (`main.c:49`) is never called.
- The first installation of the runtime always fails, since the uninstallation of a
  bundle that is not there does; a runtime whose reinstallation failed half way cannot be
  installed again (`cmd_install.c:31`). It is removed once tokens, an id and a file of a certificate
  and a profile have been found; that these fit each other is not checked before, and a
  failing call or a crash afterwards leaves the device without it.
- A profile made for fewer permissions is kept and the HAP not installed; the profile of
  the runtime is requested with no permissions at all.
- The work directory `hnp_repack_<pid>` is never removed (`hnp_utils.c:263`), HNPs are
  unpacked to a directory per package and not per ABI (`hnp_utils.c:148`), an HNP is removed before
  the new one is moved to its place (`hnp_utils.c:179`), and a file of the
  user called `x.signed.hap` is written over and deleted (`cmd_install.c:411`, `:441`).
- A line with "error" in it makes a success of hdc-lite a failure (`hdc.c:150`).
- `core_state.json` is saved in place before the bundle is rebuilt (`core_hnp_installer.c:562`); a
  crash while it is written stops every later run (`core_hnp_installer.c:841`). HNPs of two
  packages with one file name replace each other, `source_sha256` is never compared,
  an HNP that is missing and has no URL blocks all installations. `cmd_install` does
  not call `core_install_hnp`.
- Login: a token that is cut by the end of a second `recv` is accepted (`http_server.c:123`), and
  so is an empty pasted one; both threads write `g_received_token` without a lock; the end of
  standard input makes the main thread spin.

`CHECK_DEADLOCK` is off for `oauth` as for the others.

## Fairness

Safety runs of `Terminal` assume none. In `PtySession` every thread that can run does
(`WF`), and a thread that waits for `term.lock` gets it if it is free again and again
(`SF`): no critical section waits for anything, and the render thread sleeps between
two frames without the lock. Nothing makes the user act, or a program print, read its
input or exit. In `Pasteboard` the worker polls at least every 100 ms, the timer ticks
while the page is shown, a JS callback that is ready runs, and the system resolves or
rejects each promise. `CopiesArrive` and `RequestsServed` only promise something if the
page stays shown from some time on. Liveness in `PtySession` is claimed up to a failed
assert of `WriteFull` or `Fork`, which ends the process.

In `FontAtlas` every render thread goes on (its loop never waits for another thread) and
the screen changes `MaxPrints` times. `InitConverges` and `RecordedArrives` say what repeated runs
do, so they assume that the user runs the command again, logs in and connects the
device, and that the cloud answers once the faults are used up: `WF` of the steps of a run.
Nothing else makes a run begin. In `OAuthServer` both threads and the clock go on, and
neither the browser nor the user has to do anything, which is the case the five
minutes are there for.

## Proofs

`TerminalProofs` proves for every screen size, every parameter and every bound
allowed by `ConstantsAssumption`:

- `TypeSafety`: `Spec => []TypeOK`. The inductive invariant `TypeInv` adds to `TypeOK`
  that the history is a sequence of lines (of any width: lines that scrolled off keep
  the width they had).
- `ScreenSafety`: under `FittingProgram` (margins fit, windows have two rows)
  `Spec => [](MarginsOnScreen /\ CursorOnScreen /\ AssertsHold)`.
  None of the three is inductive alone: the cursor stays on the screen because the
  margins do, the margins because a resize resets them, the assert about the margins
  holds because there are two rows. `SafeInv` is `TypeInv` and the three.
  Those that runs check by name are also the theorems `MarginsStayOnScreen` and `AssertsNeverFail`.
- `OutOfRangeIsExplained`: under `FittingProgram` `Spec => OutOfRangeExplained`, for steps with
  ordinary counts, from `SafeInv`,
  with a lemma per group of actions: `PrintingExplained`, `EditingExplained` (and
  `MovedLinesExplained` for the functions that move lines) and `OthersExplained`.
- `CursorStaysInMargins`: under `FittingProgram` `Spec => CursorKeepsMargins`, from `SafeInv`. A move is
  limited to the margin and then by `ClampCursor` to the screen, which agree because the margins
  lie on the screen; the sums of an ordinary count are the ints they seem to be
  (`OrdinaryNumbers`), and in origin mode `ClampCursor` ends between the margins whatever the
  sum has become (`OriginMove`, `LowIsInt`).
- `WrapPendsOnlyAfterPrinting`: `Spec => WrapPendsAfterPrinting`. The column may be that after the
  last, but no further (`ColumnInv`), and a step that does not print leaves it where it was on a
  screen of the same size (`Leaves`) or puts it on the screen (`Replaces`).
- `PrintedIsLeftOfCursor`: `Spec => PrintedLeftOfCursor`, through the wrap, the scrolling it may
  cause and insert mode (`InsertedThere`).
- `OtherLinesAreKept`: `Spec => OtherLinesKept`: the lemmas say for every way to move lines which
  it leaves alone (`KeepsOthers`), for margins and numbers of lines of any value.
- `TabStopsAlwaysClose`: `Spec => TabStopsStayClose`. A wider screen gets its
  first new tab stop right after the old last column and then one every `tab_size` columns
  (`MultipleNearby`), so that the old ones and the new ones leave no gap.
- `LineFeedKeepsTheText`: `Spec => LineFeedLosesNothing`. `Log`, the history followed by the
  screen, grows at its end or is cut at its beginning, by one line: `ScrolledText`, `TrimmedText`
  and `TrimByOne`.

All but those that name `FittingProgram` hold whatever margins a program sets and whatever sizes
windows have. `FittingProgram` is necessary: the first disagreement about the screen is the
counterexample without it. `Params` may be any set of ints. Each proof has a lemma per group of
actions, and under it one step per action.

`PtySessionProofs` proves for any number of children, keys, pastes and calls of `Start`
(`PtyAssumption`):

- `LockExcludes`: `Spec => []MutualExclusion`, and `WorkersKeepToTheirPty`: `Spec => []OwnPty`.
  The invariant `Inv` says that whoever is between the ends of a critical section has the
  lock (`LockInv`), that at most one worker is in the service of a child and `term.fd` is
  what this worker has made of it (`ServiceInv`), and that children are numbered in order
  (`ChildrenInv`). `OwnPty` is not inductive: `Start` may fork only because `fd` is free
  while it holds the lock, and then no worker is in service, since the only one that
  leaves `fd` free holds the lock too. `Moves`, `Takes` and `Gives` cover the steps that
  leave the descriptor alone; the five steps that replace a child have lemmas of their own.

- `OutputReachesTheScreen`: `Spec => []NoOutputLost`. Nothing about the newest child says that the ones
  before it have been read to the end. `HistoryInv` does: a worker that has found its child gone has
  nothing left to read (`GoneAt`), what a worker has read it holds only up to the end of parsing
  (`BusyAt`), all children before the newest are replaced (`PastInv`), the open pty is the newest
  child's (`OpenInv`). `TokensInv` then cuts what each child has printed into what is parsed, what its
  worker holds and what is in its pty, in this order and with no gap.
- `WritesArriveInOrder`: `Spec => []WritesInOrder`. A write may find another child's pty than the one it
  began with. `WritesInv` says that what has arrived from a thread is numbered upwards over all
  ptys, and below the number it has sent; a child that is still to come has got nothing
  (`FreshInv`), so that what is written to it comes after everything before.

`PasteboardProofs` proves for any texts and any number of copies, requests and hidden pages
(`PasteboardAssumption`):

- `RequestsReadOnce`: `Spec => []OneReadPerRequest`, inductive with the types.
- `CopyQueueIsFifo`: `Spec => CopiesInOrder`, and `PasteQueueIsFifo`: `Spec => PastesInOrder`, the
  two refinements of `Fifo`. The invariant they need is that all that went in is what came
  out followed by what is still in the queue (`Splits`).

`TermParserProofs` proves, for whatever the programs write:

- `OnlyShortestForms`: `Spec => []ShortestForm`. The invariant must know what the decoder has read
  when it is in the middle of a character: `DecoderInv` says for each state which bytes
  those are and that `current_utf8` is the number their bits make, with the restrictions on
  the second byte after 0xe0, 0xf0 and 0xf4. The last byte then completes the digits to the
  base 64 of which `Encode` takes quotients and rests (`Above64`, `Encode2`, `Encode3`, `Encode4`).
- `NewLineEndsAll`: `Spec => NewLineResyncs`, from `ModesInv`: a control function is read between two
  characters only.
- `ItemsAreUnderstood`: `Spec => []Understood`, and `CompleteItemsThrowAsWritten`:
  `Spec => []ThrowsAsWritten`, both if `ItemsAreComplete`: each item taken alone is plain text,
  the encoding of a code point, bytes that are no UTF-8, or one ESC, CSI, OSC or DCS sequence from
  its introducer to its end. It says of no state of the parser. The meaning of text, characters,
  malformed bytes and ESC sequences is spelled out; that of a CSI or an OSC is what `Effects`,
  `Sgr`, `Clipboard` and `ColorReport` read from its whole content, and an SGR has `throws` if,
  and only if, it makes `stoi` throw; the two sequences whose comment says something else than the
  code (`CSI ? 25 l`, `OSC 11 ; ?`) are not among them. The theorems say that reading byte
  by byte comes to the same, after any items and any exits: the invariant `CompleteInv` knows
  after each byte of an item what is in `escape_buffer` or `current_utf8`, that nothing is done
  yet, or what of a text is, and that the style is still the one before. It is inductive with
  `DecoderInv`, and with `NewLineEndsAll` for the item that ends what an exit left unfinished. All
  44 items of the run `parser` are complete, as TLC finds when it evaluates `Complete` on them,
  with styles that occur in the run for those an SGR starts from. That two parameters are split
  and numbers read as a writer expects, `Understood` shows for these items: there `does` and
  `style` are written by hand.

`FontAtlasProofs` proves, for any fonts, sizes of glyphs, texture and screens (`AtlasAssumption`):

- `NoGlyphOverlaps`: `Spec => []GlyphsPacked`. `BuildInv` says of the table under construction
  that its glyphs are apart in the rows they were copied to, lie left of the pen and in the rows
  begun (in the last row only until the texture is full), and that the texture has those rows;
  `TableInv` carries it over to the shared table.
- `OneThreadHasNotdef`: `Spec => []NotdefIsThere`. A build that has looked at a font has its .notdef and
  blank, unless the texture was full; with one surface nobody sees the table empty.

`HorpkgInitProofs` proves, for any number of faults, losses and expired certificates:

- `OnlyOneCertificate`: `Spec => []OneCertificate`. `Inv` says that a certificate is requested
  only when there is none (`Bare`) and that what is to be deleted is the one there is (`Doomed`).
- `FilesAreOfOneGeneration`: `Spec => []FilesAgree`, from `Inv` and `FilesInv`, which says for
  every place in a run what the files may belong to.

`HorpkgInstallProofs` proves, for any HAPs, process numbers and bounds (`InstallAssumption`):

- `TypeOkInv`; `NoAppIsLost`: `Spec => AppsKept` (`RuntimeInv`: the runtime is removed only after
  the PIN and with tokens, a certificate, its id and a profile); `PackagesArePure`:
  `Spec => []OwnFiles` (`DirsInv`: what is in a work directory belongs to the run, unless it was
  there before); `CleanRunsSucceed`: `Spec => CleanRunsInstall` (`CleanInv`: what a run in which
  nothing failed has established at each place).

`HorpkgCoreProofs` proves, for any packages, versions and file names (`CoreAssumption`):

- `CoreIsConsistent`: `Spec => []DeviceConsistent` and `NoPackageIsLost`: `Spec => PackagesKept`.
  `HapInv` says that while the bundle is rebuilt it has exactly the entries before `i`,
  `DeviceInv` that what is installed has been such a bundle, and that the state file names all its
  packages or is broken.

Only model-checked:

- liveness, which is out of the prover's reach: `AtlasSettles`, `LockReleased`, `ChildReplaced`,
  `OutputParsed`, `CopiesArrive`, `RequestsServed`, `PastesTaken`, `InitConverges`,
  `RecordedArrives`;
- what the functions on parameters compute (`SplitString`, `Number`, `Sgr`) compared with what a
  writer means: they fold over sequences of any length, and a proof would be an induction over
  data;
- everything about `OAuthServer`, whose one property is violated.

Every invariant and every action property of the passing runs is a theorem.

## Plan

Done: the screen, the session, the pasteboard, the parser and its styles, the glyph table,
horpkg init, install, the core package and the login; the safety of all but the last is
proved. What would add most from here:

1. `PtySession` with the parser of `TermParser` instead of tokens, to see replies that are
   cut by a full pty;
2. the safety of `OAuthServer`: which token is the result when a login and a paste come
   together, and that it is final once the server thread has been joined.

## Not modelled

OpenGL, shaders, rasterising and layout of glyphs; wording of messages and logging;
the input method and key tables of the page; HTTP, JSON, zip and the tools horpkg executes
(external, by what they return); the shim (environment and `execv`); the ability and its
standalone window (calls of the framework without state); build recipes, packaging and
vendored code. Undefined behaviour of two threads in one `std::map` is modelled only as
entries that are not found. `PROJECT.json` names every part with its reason.
