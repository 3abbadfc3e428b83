----------------------------- MODULE Screenshot -----------------------------
(***************************************************************************)
(* src/plugins/core-screenshot/core-screenshot.c on top of Hooks: a key    *)
(* asks for a screenshot with a compressor, by its index; the next frame   *)
(* of the output reads the pixels and queues a task; a worker thread runs  *)
(* it, with code of core-screenshot and of the compressor's plugin, while  *)
(* the main thread goes on, if need be to unload the plugins.              *)
(*                                                                         *)
(* The queue is chck_tqueue, which is not part of the repository: its      *)
(* release is taken to wait for the task that runs and to drop the others. *)
(***************************************************************************)
EXTENDS Hooks

CONSTANTS
    Shot,       \* the plugin core-screenshot
    Outputs,
    QueueSize   \* tasks that the queue takes, 4 in the code

ASSUME ScreenshotConstants ==
    /\ Shot \in Objects
    /\ {"keybind", "compressor"} \subseteq APIs
    /\ {"keyboard.key", "output.post_render"} \subseteq HookTypes
    /\ QueueSize \in Nat \ {0}

VARIABLES
    action,     \* plugin.action: [output |-> .., compressor |-> ..], or NULL
    bound,      \* the compressors for which keybinds were added, by owner
    tasks,      \* queued tasks, each the owner of its compressor
    busy        \* the task that the worker runs, or NULL

shot == <<action, bound, tasks, busy>>
svars == <<hvars, shot>>

SInit ==
    /\ HInit
    /\ action = NULL
    /\ bound = <<>>
    /\ tasks = <<>>
    /\ busy = NULL

compressors == registry["compressor"]

-----------------------------------------------------------------------------
(* plugin_init and plugin_deinit *)

\* add_keybind for each compressor that list_compressors returns.
AddKeybinds ==
    /\ InitCallSucceeds
    /\ bound' = IF Top.plugin = Shot /\ NextCall.table = "registry" THEN compressors ELSE bound
    /\ UNCHANGED <<action, tasks, busy>>

\* An init that fails leaves no task behind, only a plugin that goes.
InitFailed ==
    /\ InitReturnsFalse
    /\ bound' = IF Top.plugin = Shot THEN <<>> ELSE bound
    /\ UNCHANGED <<action, tasks, busy>>

\* Mutant of plugin_deinit: the worker is not waited for.
deinit_at_once ==
    /\ DeloadPlugin
    /\ IF Top.plugin # Shot THEN UNCHANGED shot
       ELSE action' = NULL /\ bound' = <<>> /\ tasks' = <<>> /\ UNCHANGED busy

\* chck_tqueue_release, which plugin_deinit calls before the object is closed.
plugin_deinit ==
    /\ DeloadPlugin
    /\ IF Top.plugin # Shot THEN UNCHANGED shot
       ELSE busy = NULL /\ action' = NULL /\ bound' = <<>> /\ tasks' = <<>> /\ UNCHANGED busy

-----------------------------------------------------------------------------
(* The hooks *)

Running(p) == running.owner' # NULL /\ slot[running.owner'] = p

\* Keybind's hook finds a combination of core-screenshot's.
key_cb_screenshot ==
    /\ CallHook
    /\ running.type = "keyboard.key" /\ get("keybind") # NULL /\ Running(get("keybind"))
    /\ Shot \in loaded /\ handle(Shot) \in Range(registry["keybind"])
    /\ \E o \in Outputs, i \in DOMAIN bound : action' = [output |-> o, compressor |-> i - 1]
    /\ UNCHANGED <<bound, tasks, busy>>

\* The list is asked again; a full queue refuses, and the pixels are freed.
output_post_render(o) ==
    /\ CallHook
    /\ running.type = "output.post_render" /\ Running(Shot)
    /\ action # NULL /\ action.output = o
    /\ action' = NULL
    /\ tasks' = IF action.compressor < Len(compressors) /\ Len(tasks) < QueueSize
                THEN Append(tasks, compressors[action.compressor + 1]) ELSE tasks
    /\ UNCHANGED <<bound, busy>>

\* Another hook, a key that is not bound to it, or another output's frame.
OtherHook == CallHook /\ UNCHANGED shot

-----------------------------------------------------------------------------
(* The worker thread: cb_compress *)

TakeTask ==
    /\ busy = NULL /\ tasks # <<>>
    /\ busy' = Head(tasks) /\ tasks' = Tail(tasks)
    /\ UNCHANGED <<hvars, action, bound>>

TaskDone ==
    /\ busy # NULL
    /\ busy' = NULL
    /\ UNCHANGED <<hvars, action, bound, tasks>>

-----------------------------------------------------------------------------
SWork ==
    \/ AddKeybinds \/ InitFailed \/ plugin_deinit
    \/ (InitReturnsTrue \/ DependencyFails \/ Terminated) /\ UNCHANGED shot
    \/ LoaderOnly /\ phase # "run" /\ UNCHANGED shot
    \/ key_cb_screenshot \/ OtherHook \/ \E o \in Outputs : output_post_render(o)
    \/ DispatchReturns /\ UNCHANGED shot

\* What wlc may call: a callback, one at a time.
Event == ((\E t \in HookTypes : Dispatch(t)) \/ (LoaderOnly /\ phase = "run")) /\ UNCHANGED shot

Worker == TakeTask \/ TaskDone

SNext == SWork \/ Event \/ Worker

\* The main thread runs on but where it waits, and so does the worker:
\* compressing an image takes its time, but ends.  No event has to come.
SSpec == SInit /\ [][SNext]_svars /\ WF_svars(SWork) /\ WF_svars(Worker)

-----------------------------------------------------------------------------
(* Properties *)

\* What the plugins of the tree keep to: core-screenshot requires the group of
\* the compressors, and all that have to do with them are in it.
CompressorsGrouped ==
    /\ "compressor" \in Range(Info[Shot].requires) \ Range(Info[Shot].groups)
    /\ \A p \in Objects :
         \/ Info[p].name = "compressor"
         \/ \E i \in DOMAIN InitCalls[p] :
              InitCalls[p][i].table = "registry" /\ InitCalls[p][i].key = "compressor"
         => "compressor" \in Range(Info[p].groups)

\* The worker calls a function of another plugin that core-screenshot does
\* not know by name: as long as a task waits or runs, both are mapped.
WorkerRunsMapped ==
    \A h \in Range(tasks) \cup ({busy} \ {NULL}) :
        Shot \in mapped /\ slot[h] \in mapped

\* The keys were bound to indices when core-screenshot was initialised: what
\* they stand for stays at its index as long as core-screenshot runs.
BoundStays == Shot \in loaded => IsPrefix(bound, compressors)
=============================================================================
