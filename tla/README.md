# A formal model of orbment

orbment is a tiling Wayland compositor whose functionality comes from plugins.
The compositor itself (`src/`) registers plugins found on disk, loads them in
dependency order, and dispatches wlc's callbacks to the hooks they register.
The plugins (`plugins/`) register keybinds, layouts, compressors and
configuration backends with each other.  These TLA+ modules model that
machinery; TLC checks them on small instances, and TLAPS checks proofs about all
of them for instances of every size.

## Inventory

| component | state | operations | talks to |
|---|---|---|---|
| plugin loader, `src/plugin.c` | pool of plugins, hash tables names and groups; per plugin `dl`, `loaded`, `needed` | register, load all (recursive), deload (recursive, forced or not), import | dlopen, each plugin's init and deinit, callbacks of hooks.c |
| start and stop, `src/orbment.c`, `src/signals.c` | none | scan directories, load, run, terminate | plugin loader, wlc |
| hook table, `src/hooks.c` | one list of hooks per type | add, remove, remove for a plugin, dispatch of 25 callbacks | plugin loader, wlc, every plugin |
| keybind | pool of keybinds, hash table combination to index, prefix | add, remove, remove for a plugin, pass a key | configuration, hooks |
| layout | list of layouts, hash table output to index | add, remove, remove for a plugin, next layout, cycle, relayout, view requests | keybind, hooks, wlc |
| core-functionality | active view, interactive action | focus of views, spaces and outputs, move, resize, create and destroy views | keybind, layout, hooks, wlc |
| core-dpms | timer, delay, `force` | timer, activity, forced sleep | keybind, hooks, wlc |
| core-layouts | nothing but two parameters of nmaster | tilings nmaster, grid, monocle | layout, keybind |
| configuration, configuration-ini | table of values, one backend | get, add backend, load | hooks |
| compressor, -png, -ppm | list of compressors by type | add, remove, remove for a plugin, list | hooks |
| core-screenshot | pending request, worker thread | key, after render, compress in a thread | keybind, compressor, wlc |
| core-input, autostart, crappy-borders, log | next to none | apply values, run commands, draw, write | configuration, wlc |

What is hard, and what makes each component right:

* **Loader.**  `load_plugin` and `deload_plugin` recurse over arrays of names
  that mean plugins or groups, while the tables that give these names their
  meaning change: inits fail half way, registration fails after some groups
  were entered, slots are used again.  Right means: tables never lead to
  unmapped code, a running plugin has what it requires, no plugin is entered
  twice, nothing that failed leaves a trace, teardown takes dependents first.
* **Hooks and registries.**  Function pointers into plugin objects are held by
  the core and by other plugins.  Right means: no pointer outlives its object,
  at no step of loading, failing or teardown, and none is lost before.
* **Keybinds.**  Removal leaves the table as it is; slots are used again.
  Right means: no key runs what is gone, and a combination does not change
  hands while its keybind is there.
* **Layouts.**  Outputs remember indices into a list that shrinks.  Right
  means: each output has a layout as long as there is one, and keeps its own.
  Placement is up to the handlers: right means that whoever changes a view's
  state, space, output or place in the list lays out each output concerned.
* **Dispatch.**  Loops over hooks go by index over a list that the hooks called
  may change.  Right means: no hook is called twice.
* **Screenshot.**  A worker thread runs code of core-screenshot and of the
  compressor's plugin, while the main thread may unload plugins; keys hold
  indices into the list of compressors.  Right means: code stays mapped until
  the worker is through, the teardown ends, indices keep their meaning.
* **Configuration.**  One backend after another may fill the table, from lines
  that convert to the same key or to none.  Right means: the table is one file's.
* **Focus, dpms.**  The focus follows views that come and go on several
  outputs; the idle timer races activity and the forced sleep.

Nothing is persistent, there is no network protocol, and all code but
core-screenshot's worker runs on one thread: the interleavings that matter are
those of nested calls and of the order of events.

## Modules

| module | models | state and actions |
|---|---|---|
| `PluginLoader` | `src/plugin.c`, the phases of `main` | `slot`, `names`, `groups` are the pool and the two tables; `mapped` and `loaded` the flags; `needed` the lists; `stack` the C calls of load_plugin or deload_plugin with their loop variables |
| `PluginLifecycle` | what the loader promises (abstract) | plugins that run, those that are gone, and who uses whom; Start, Stop, GiveUp |
| `MCPluginLoader` | catalogues of third-party plugins for TLC | |
| `PluginLoaderProofs` | theorems about `PluginLoader`, the refinement of `PluginLifecycle` among them | |
| `Hooks` | `src/hooks.c`, and the registries of keybind and compressor, composed with `PluginLoader` | `hooks` and `registry` hold the owners of the entries; each step is a loader step together with what the callback plugin_deloaded, init and deinit do to the tables; while the compositor runs, `running` is the dispatch of one event, with its index |
| `HooksProofs` | theorems about `Hooks`, on top of the loader's | |
| `MCHooks` | six plugins and what their inits register | |
| `Screenshot` | `plugins/core-screenshot/core-screenshot.c`, composed with `Hooks` | `action` is the plugin's request, `bound` the compressors its keys stand for, `tasks` and `busy` the task queue and its worker thread |
| `ScreenshotProofs` | theorems about `Screenshot`, on top of those about `Hooks` | |
| `MCScreenshot` | the catalogue of the tree's plugins around core-screenshot | |
| `Configuration` | `plugins/configuration/configuration.c`, `configuration-ini.c` | `backend` and `values` as in the code; validation and conversion of keys as operators |
| `Keybind`, `MCKeybind` | `plugins/keybind/keybind.c`, on top of `Configuration` | `prefix`, `pool`, `table` as in the code; `shown` is what the log said, `called` the keybind that the last step ran |
| `KeybindProofs` | theorems about `Configuration` and `Keybind` | |
| `Lists` | parts of a list in the order of the list, which the registries keep, relayout picks and raising a view puts under it | operators |
| `ListProofs` | what these compute, and what a loop over an array computes, for lists of any length | |
| `Layout` | the registry of `plugins/layout/layout.c` | `layouts`, `active` as in the code |
| `Tilings` | the layout functions of `plugins/core-layouts/core-layouts.c` | operators from a region and a number of views to geometries |
| `Placement`, `MCLayout` | relayout, cycling and requests in `layout.c`, and the handlers of core-functionality and core-layouts that have to call relayout; composes `Layout` and `Tilings` | `views`, `parent`, `full`, `mask`, `space`, `size`, `geometry` are wlc's, `cut` is nmaster's; `settled` marks the outputs laid out by the layout they still have |
| `PlacementProofs` | theorems about `Tilings`, `Layout` and `Placement` | |
| `Focus`, `MCFocus` | `plugins/core-functionality/core-functionality.c`, and of `layout.c` the cycle key and the clients' requests for fullscreen, which change the same lists and bits | `active` and `action` are the plugin's; lists of views, masks, parents, state bits and the focused output are wlc's, kept in step with each call the code makes |
| `FocusProofs` | theorems about `Focus` | |
| `Dpms` | `plugins/core-dpms/core-dpms.c` | `delay` and `force` are the plugin's, `milliseconds` what it makes of the delay in 32 bits, `armed` and `left` the timer, the rest wlc's; `quiet` remembers for the properties how long nothing has happened |
| `DpmsProofs` | theorems about `Dpms` | |

In `Focus` a handler reads and writes wlc's state call after call, and later
calls see what earlier ones did.  So each C function is an operator from one
`Desk`, a record of the whole state, to the next, and an action composes them
in the order of the code.  The plugin's views are few and the handlers run to
their end, hence one handler is one step.  `Placement` sees the same handlers
from the other side: which of them lays out which output, after what change;
the order in which they raise views is any there, and is `Focus`'s matter.

An operation of a module has the name of the C function wherever one function
is one step.  `load_plugin` is not one step: it calls itself and inits, so its
body is cut at the points where it reads what a nested call may have changed
(`FinishArray`, `EnterGroup`, `SkipMember`, `MissingDependency`,
`CircularDependency`, `DependOnReady`, `LoadDependency`, `DependencyReturned`,
`InitSucceeds`, `InitFails`).  `deload_plugin` is cut the same way for the
teardown (`DeloadDependent`, `Deload`); the call on the error path of
`load_plugin` does not recurse and is part of that step (`LoadFails`).

Operators that begin with the comment "Mutant of" are deliberate mistakes.
Each takes the place of the definition it names in a mutation test, in which
TLC must find the property of that test violated; no specification uses them.

What is nondeterministic is what the code does not decide: the order in which
readdir lists the objects, which of them dlopen or the checks on a plugin's
info reject, whether an init returns false, which slot chck_pool_add picks
(`Keybind`; the loader takes the lowest, because the order of the listing
already produces every arrangement), what the user and wlc do.  Memory
allocation succeeds.

## What the runs show

| run | instance | checks |
|---|---|---|
| `loader_tree` | the core and five in-tree plugins with their real names, requires, after and groups, hooks and registrations; six slots; one output, a queue of two tasks | names lead to mapped code, tasks never outlive the code they need, keys keep their compressor, refinement of `PluginLifecycle`, the teardown ends |
| `loader_odd` | eight objects using two plugins of one name, a provided name that is a group, conflicts, a group listed twice, pairs that name each other, a group behind a requirement | types, groups, requirements, no re-entry, load order, loading ends |
| `hooks` | six plugins, real registrations, one that registers a hook twice, one whose hooks add and remove hooks | no hook or registry entry outlives its object or is lost early; no hook is called twice in a dispatch; apis are ready when used |
| `keybind` | four requests of two plugins, overlapping combinations, two slots, two configuration backends, one with lines that are not valid or convert to one key, the other with a prefix | what the log listed runs, nothing of a gone plugin runs, the configuration is that of one file |
| `layout` | three layouts of two plugins, two outputs, three views, sizes that do not divide | indices stay in range and on their layout; tiled views fit, fullscreen windows cover; cycling rotates exactly the tiled views |
| `dpms` | two outputs; delays of 0, of 1 and 3 seconds, and of three numbers of milliseconds that do not fit | forced sleep stays due and comes, sleep is earned, idle outputs come to sleep and sleep on |
| `focus_windows` | three plain windows, one of them dragged, two outputs, two spaces | a shown window has the focus; which views look activated follows the focus, and fullscreen views stay under the active one, but for the steps that reorder the list without it |
| `focus_family` | three windows that may be dialogs of each other, two bemenus, one output, follow-focus | the active view is open, a dialog with the focus stays over its parent, who may take the focus and who gets it back, a bemenu keeps it |
| `loader_group_first`, `keybind_stale`, `focus_previous`, `focus_siblings` | the smallest instances with the case | disagreements of the code with its documentation, see below |

Bounds.  Each catalogue is finite, so the loader runs explore all listings,
all rejections and all failing inits of it; nothing else is bounded there.
The catalogues contain each construct the code distinguishes: a plain
requirement, an optional one, a missing one, a group with and without the
plugin itself, stale group members, circular pairs, failed registration after
groups were made.  `MaxShifts` bounds the hooks that one dispatch removes from
under its index: with two, a loop can pass over two hooks in a row.
`QueueSize` is two where the code has four: one task runs, one waits, and the
queue can be full.  Two slots are enough for a keybind to be removed, its slot
used again by one whose combinations collide with the other's; with two
backends the first may fail and make room, before or after the keybinds are
added.  Two outputs and three layouts give an index in front of, at and behind
a removed one.  In `layout`, `Room` has three views on the first output, enough
for a rotation with an untiled view between others, and one on the second, to
move there; `CutStep` is 50 hundredths, so that the cut reaches both ends.
`Oddities` bounds how much differs from the start at once: three open views and
one more difference, or two with three, or one with five; a property about one
output and its neighbour needs no more.  `Strays` is off: a dialog and its
parent stay on one output (see below).  `Dpms`
counts time in seconds, as the delay does, and computes `1000 * delay` in 32
bits with `Millis` and `Wrap` for 1000 and 2^32: with 4 and 64 a delay of 1 or 3
is exact and leaves room for activity at every point of the countdown, one of 8
is negative as an int, so that plugin_init fails, one of 16 wraps to 0, which
disarms the timer, and one of 17 to a single second.  `quiet` stops at the
delay, behind which nothing reads it.  In `Focus`, three windows give a list with an active, a fullscreen
and one more view; two of ten spaces give a space that is shown and one that
is not.  A mask has one bit, as every mask the plugin sets has.  The
cycle key, drags and the clients' requests for fullscreen change what the
stacking properties are about without moving the focus.  All three are in
`focus_windows`, `LooksKept` and `PeekLasts` naming the steps that they do not
hold of; `focus_family` has no drags, to stay small.

Fairness.  `PluginLoader` assumes `WF_vars(Work)`: `main` runs its phases to
their end, and the terminate callback runs to its end once called.  Nothing
is assumed about the user: `compositor_terminate` may never happen.  Weak
fairness of the whole is enough, as one thread runs all of it.  `Screenshot`
adds the worker: `WF_svars(SWork)` for the main thread, which waits only for
the worker, and `WF_svars(Worker)`, as compressing an image ends; no event has
to come.  `Dpms` assumes
that time passes and that wlc's event loop calls the timer's callback once it
has run down; activity is not assumed to stop, the liveness properties name it
where they depend on it.  `PreviousKeySpec`, for `focus_previous`, assumes a
user who presses mod-k again and again once the windows are open.  The other
specifications state safety only.

Deadlock is not checked where the system really stops: after the teardown in
the loader, hook and screenshot runs, and in the keybind runs once every plugin
is gone and no combination runs anything.

### Where the code and its words differ

* A group in `requires` ends the walk (`plugin.c:217`): what is listed behind
  it is not loaded first, against `plugin.h:79`.  Run `loader_group_first`.
* A removed keybind's combinations come to run whatever gets its slot, which
  the log never listed (`keybind.c:241`, `orbment.1.in:30`).  Run
  `keybind_stale`.
* "Rotates focus through clients" (README.rst on mod-j and mod-k): mod-k takes
  the view below the active one, and focusing raises it, so the key goes back
  and forth between two (`core-functionality.c:240`).  Run `focus_previous`.
* "Raise view and all related views to top" (`core-functionality.c:149`): the
  loop goes by index over the list that it reorders, so a sibling may be left
  behind another window.  Run `focus_siblings`.

Each of the following has a configuration of its own that is not among the
runs; TLC finds the property violated.

| configuration | module | property | what |
|---|---|---|---|
| `LoaderRing.cfg` | `MCPluginLoader` | `NoReentry` | circular dependencies are recognised in pairs only (`plugin.c:225`); a ring of three recurses without end |
| `LoaderNamesake.cfg` | `MCPluginLoader` | `GroupConflictChecked` | `plugin.c:356` says it checks that the plugin a group is named after belongs to the group; it checks that the group exists |
| `KeybindDefaults.cfg` | `MCKeybind` | `DefaultsTried` | a configured mapping that is taken suppresses the defaults too (`keybind.c:212`, comment at 217) |
| `FocusPeek.cfg` | `MCFocus` | `PeekKept` | "the active view is always over fullscreen view" (`core-functionality.c:204`): the cycle key moves the active view under one (`layout.c:272`); a client's request for fullscreen (`layout.c:339`) and a drag put one over it too |
| `FocusCycle.cfg` | `MCFocus` | `OneActivated` | one view per output looks activated: view_focus (`:362`) takes the look only from a view on the focused output; when the active one of two windows has been cycled to the bottom and the focus leaves the output and comes back, to the other, both have it.  No document promises otherwise |
| `DpmsWrap.cfg` | `Dpms` | `SleepsAfterDelay` | "Sleep delay in seconds" (`core-dpms.c:18`): `1000 * delay` overflows 32 bits from 4294968 seconds on, and outputs sleep after what is left, 704 ms |
| `FocusTwoMenus.cfg` | `MCFocus` | `OneBemenu` | "Do not allow more than one bemenu instance" (`:370`): only the active view is compared, a bemenu on another output is let in beside it |
| `FocusMenuElsewhere.cfg` | `MCFocus` | `BemenuHasFocus` | "Bemenu should always have focus when open" (`:176`): one that opens on an output without the focus does not get it |
| `LayoutDialog.cfg` | `MCLayout` | `DialogsToo` | "Toggles fullscreen." (README.rst on mod-f): a fullscreen dialog gets the size of the output and, in the same relayout, that of a dialog (`layout.c:222`, `:231`) |
| `LayoutStrays.cfg` | `MCLayout` | `TilesFit` | a parent may be moved to another output than its dialog; when it closes, the dialog becomes a window and only the parent's output is laid out again (`core-functionality.c:390`) |
| `ScreenshotStray.cfg` | `MCScreenshot` | `WorkerRunsMapped` | a compressor that does not join the group `compressor` is unmapped while the worker runs it: core-screenshot requires the group, and nothing else ties it to the compressor (`core-screenshot.c:67`) |
| `FocusTooltip.cfg` | `MCFocus` | `PassedOn` | "Otherwise focus previous one" (`:403`): when the topmost view left is a tooltip, no view gets the focus |

`validate_key` accepts the slash
alone, which the documentation of keys rules out; otherwise keys are accepted
as documented, which `MCKeybind` assumes and TLC evaluates for all keys of up
to six characters of three kinds (`KeysAsDocumented`).  `MCLayout` assumes in
the same way that nmaster fills a region for any number of views and that grid
does not overlap, on small regions (`TilingsCover`); grid leaves a row or a
column over when the region does not divide evenly.  The default key for space
9 is spelled `<P-F0>` where the documentation has mod-F10; which spellings
plugins ask for is an input.

The positive runs state the same properties under what the tree's plugins
respect: catalogues whose names can be ranked by their dependencies (`Ranks`),
so that there is no undetected cycle, with no requirement behind a group
(`GroupsLast`), and with nothing in an array "after" behind a group or behind a
plugin that names this one in turn (`AfterLast`).  `MCScreenshot`, `MCHooks` and
`MCPluginLoader` have the three as an assumption about their catalogues that TLC
evaluates (`CatalogueInOrder`).  `LoadOrder` excepts what the loader reports as
circular.

## What is proved

Each theorem is about every value of the constants: catalogues of any number
of plugins, files, lists and keys of any length, regions and views of any
size and number.  The MC modules state the theorems' hypotheses about their own
constants as assumptions, so that TLC shows them to be met by what it checks.

**Loader** (`PluginLoaderProofs`).  `TypeCorrect` and
`GroupsStayResolved` have no hypotheses: `TypeOK` is inductive, and
`GroupsResolve` becomes so with `MembersHaveSlots`.  The others take a rank of
the names that falls along each dependency (`Ranks`): without it the recursion
of `load_plugin` need not end, which `LoaderRing.cfg` shows.  Their invariant is
`LoaderInv`: which slots are taken, that what is mapped was read and what is
loaded is mapped, what each phase of `main` leaves, and what the stack says of
the plugin of each frame.  None of `NamesResolve`, `NoReentry` or the end of
the teardown is inductive alone: that a name leads to a mapped plugin depends
on who is being loaded, and that no plugin is entered twice on the frames
falling in rank.

* `NamesStayResolved`, `NeverReentered`, `NothingLeftBehind` follow from it.
* `LoaderImplementsLifecycle`: each step of the loader is a step of
  `PluginLifecycle` or leaves it alone, under the mapping of that instance.
* `RequirementsRun` adds `ServedInv`, what an unfinished walk over `requires`
  has already seen to, and `GroupsLast`: behind a requirement that names a
  group nothing is loaded, which `loader_group_first` shows.
* `StartsInOrder` is `LoadOrder`.  A plugin that an array "after" names is
  settled once it runs or is given up; `OrderInv` says that all that a running
  plugin follows is settled, and how far an unfinished walk over "after" has
  come, group members included.  Nothing settled becomes unsettled while the
  loader loads (`Keeps`), and a plugin that starts is not settled just before;
  so nothing that runs follows it, unless the two name each other.  The groups of
  a plugin list it (`InItsGroups`), also when another registration fails half
  way.  The theorem needs `AfterLast`: load_deps_from_array returns at a group
  and at a circular name, and a plugin with `after` = g, lib starts before lib
  when the listing has it first.

**Hooks and registries** (`HooksProofs`).  Each step is a loader step, so the
loader's invariant is taken over; `HooksInv` says that each owner in the
table is mapped and how far the init on top of the stack has come.
`HooksTypeCorrect`, `HooksStayAlive` and `HooksCalledOnce` follow; the last one
needs the loop's own invariant, which says where in the list, shifted by
removals, the hooks called so far may still be.  For `EntriesStayAlive`,
`RegistrationsStay` and `ApisAreReady` a plugin must require the api it uses
(`ApisRequired`) and the api hook `plugin.deloaded` (`ApisListen`), as every
plugin of the tree does; the teardown then reaches the api last.

**Screenshot** (`ScreenshotProofs`).  `WorkerCodeStays` and
`KeysKeepTheirCompressor`, in the presence of the second thread.  `ShotInv` says
that what is queued or running, and what keys are bound to, belongs to a
plugin of the group that core-screenshot requires (`CompressorsGrouped`), which
therefore goes after core-screenshot, whose deinit waits for the worker.
`ScreenshotStray.cfg` shows what happens to a compressor outside that group.

**Configuration and keybinds** (`KeybindProofs`).  `KeysAreAsDocumented`, for keys
of any length; `TableStaysFile`, for files of any size; `KeybindTypeCorrect`
and `ShownKeybindsRun`.  `KeybindInv` adds what `ShownRun` alone does not say:
that a shown combination is still its slot's though the table keeps entries of
keybinds that are gone, and that owners of slots are alive.

**Layouts** (`PlacementProofs`).  `TilingsFit` proves for every region, number of
views and cut what `TilingsCover` checks on small ones.  The registry's
invariant `RegistryInv` says that an index is 0 or in range, hence
`OutputsKeepALayout` and `LayoutsStay`.  `CycleTurns` is the invariant of the
loop in `cycle_output`.  `FullscreenStays` and `TilesStay` are about all
handlers: `StepOrderly` sorts them into those that lay out each output that
they change and those that change nothing an output has to show;
`RelayoutFresh` says what relayout leaves behind.  The invariant `PlaceInv`
gives to each tiled view of a settled output a tile of its own, in whatever
order, and by whatever cut was in force then: focusing reorders the list
without relayout, so `TilesFit` with tiles in order would not be inductive.
Both assume `~Strays`, that a dialog stays on the output of its parent:
`LayoutStrays.cfg` shows that they fail otherwise.  `Families` is what
follows from it, and `DeskInv` that each view is on one list, once.

**Idle timer** (`DpmsProofs`).  `TypeCorrect`, `ForceStaysDue` and `SleepEarned`,
for every set of outputs and of delays of 32 bits (`DpmsConstants`).  The
inductive invariant adds `Countdown` to the types and `ForceIsDue`: a timer that
is armed and not forced was armed with some milliseconds, and `quiet + left` is
at least the seconds of these.  Without it nothing says that a timer that has
run down was set so long ago.  `SleepEarned` is this at `left = 0`: for a delay
whose milliseconds fit in 32 bits (`Fits`) the seconds are the delay, for another
they are what the multiplication left of it.

**Focus** (`FocusProofs`).  A handler composes a dozen changes of wlc's state, so
the proofs follow the operators on a `Desk`: `FrontOrder` says what raising one
view does to the order of its list, `Shuffled` and `Restacked` what raises leave
alone, `Taken` and `Refocused` what `focus_view` may have done.  The recursion
of raise_all and of focus_view goes up and down the dialogs and ends because
the parents can be ranked (`Families`); the loops of raise_siblings and of
focus_next_or_previous_view are folds, taken apart by `ListProofs`.  The
invariant `FocusInv` is about any families, menus, tooltips and drags, with one
part for each property and the hypothesis under which it holds:

| theorem | property | hypothesis | without it |
|---|---|---|---|
| `FocusTypeCorrect`, `ActiveStaysOpen`, `OpeningStealsNothing` | `TypeOK`, `ActiveIsOpen`, `NoStealing` | none | |
| `BemenuKeepsFocus`, `OneBemenuOpen` | `BemenuHasFocus`, `OneBemenu` | `MenusFirst`: a bemenu opens on the focused output, and as nobody's dialog | `FocusMenuElsewhere.cfg`, `FocusTwoMenus.cfg` |
| `PeekStays` | `PeekLasts` | `MenusFirst` | a bemenu without the focus that is fullscreen is raised over the view that has just got it |
| `DialogOverParent` | `OverParentLasts` | `MenusFirst` | a bemenu that is a parent is raised over its dialog |
| `DialogGivesBack` | `BackToParent` | `NoTooltips` | a tooltip, as the parent or on top of its dialogs, takes no focus |
| `ClosingPassesOn` | `PassedOn` | `NoTooltips`, one output | `FocusTooltip.cfg`; a dialog may have its parent on another output, and when that parent closes with the focus, the views of the focused output are not asked |
| `ShownKeepsFocus` | `ShownHasFocus` | `Plain`: no dialogs, menus or tooltips; the focus does not follow the pointer | following the pointer over the background leaves the focus with nobody |
| `OneLooksActive` | `LooksKept` | `Plain` | another window's dialog opens on top without the focus |

`PeekLasts` and `OverParentLasts` are about steps, since the state they end in
can be lost: the cycle key and a drag reorder the list, and a client makes its
view fullscreen, while the active view stays what it is.  So `FocusInv` takes a
second argument, `pre`: which view was active before the handler, and which of
the two properties is kept.  Each is due (`Due`) behind a handler that has moved
the focus, whatever held before, and behind one that has not if it is kept.  The
lemma of a handler says for which of them it keeps what holds before; those of
`cycle_output`, of `start_interactive_action` and of the request keep less.
`MenusFirst` enters because a menu that is raised last must not be what covers
the view that has just got the focus.

`PlainInv` is for plain windows, on any outputs and spaces.  `LooksActive` is
stronger than that one view per output looks activated: on an output without
the focus it is the one on top of those its space shows, so that focus_topmost
of that output, when the focus returns, takes the very view that still looks
active.  `pre` tells whether it is kept, as with the stacking properties.  The
cycle key, of which `PlacesCycled` says where each view of the list goes, and a
drag do not keep it; `FocusCycle.cfg` shows what comes of that.  `focus_windows`
and `focus_family` meet the hypotheses of what they check.

**Lists** (`ListProofs`).  The models write a loop over an array as a fold of the
community modules, and a list without some elements as `Only` or `Without` of
`Lists`, which are defined by the places of the elements rather than by
recursion; the MC modules compare them with the library's.  `Induction` states
induction over the numbers as a fact about sets, `FoldUnrolled` says that a
fold is the last of a sequence of intermediate values, each made from the one
before, and the other lemmas what the parts of a list contain and in which
order.  A module of proofs instantiates `ListProofs` for the operator it folds.

Left to TLC: that loading and teardown end (`LoadEnds`, `RemoveEnds`) and that
sleep comes (`SleepComes`), as the prover does not reach liveness.

## What the models take from wlc and chck

Their sources are not in the repository.  The models rely on this: pools give
any free slot, tables keep the last value set; a loop over an iter pool looks up
the element and the number of elements each time round; releasing a task queue
waits for the task that runs and drops the others; inih hands over the lines in
the order of the file; `wlc_output_get_views` returns
the live list, so that raising a view moves the entries a loop walks over; a
new view is on top of its output's list; the view that is destroyed is out of
the list when the hook runs; only the plugin moves the keyboard focus; the
outputs are fixed in `Focus` and parents form no cycle; a timer fires once
after it was set, setting it to 0 disarms it, and setting it to a negative number
fails; an unsigned int has 32 bits.  The modal and popup types of a view, which
`is_tiled` looks at, are not told apart from a window.  Where core-functionality
sets the space of the focused output for the view that a key acts on,
`Placement` takes the output of that view: it has the keyboard, and is shown
there (`ShownHasFocus` in `Focus`).

## Not modelled

* Rendering (crappy-borders, the pixels of a screenshot), the encoders of
  compressor-png and -ppm, log files and the command line: output without state
  that anything reads back.
* core-input and autostart: each applies configuration values once, through
  libinput or fork and exec, and keeps nothing.
* The numbers of `layout_parent` and of an interactive move, splash screens,
  popups, and the place of bemenu: arithmetic on sizes that a client chooses,
  with no promise to check.  A dialog's geometry is one value, `Own`.
* The backward branches of next_layout and cycle_output, which no key takes;
  the keys that spawn, close or exit; outputs that come and go in `Focus`.
* Parsing of ini files, which belongs to inih; `get` for numbers and booleans,
  which converts the text that `get` for strings returns; saving, which the
  code does not implement.
* remove_compressor, which no plugin calls; import_method and has_methods,
  which only search and compare signatures.
* wlc and chck themselves appear as far as the code relies on them.  When wlc
  calls the terminate callback is not known from here; the models take it that
  it is not from inside a hook.
* What C leaves undefined when a caller breaks a function's contract: a null
  `value_out` of configuration's get, which its comment allows and type 's'
  writes through, and `gmtime` in the worker thread.

## Plan

What the runs check without liveness is proved, under the hypotheses named
above.  What could be added:

1. In `Focus`, outputs that come and go, and the geometry of an interactive move,
   which `pointer_motion` takes from `action.view` after the view is destroyed.
2. In `Hooks`, a key callback that terminates the compositor from inside the
   dispatch, once it is known when wlc calls the terminate callback.
3. If load_deps_from_array is changed to go on behind a group and a circular name,
   `GroupsLast` and `AfterLast` can be dropped from the theorems, and
   `loader_group_first` becomes a positive run.
