---------------------------- MODULE PluginLoader ----------------------------
(***************************************************************************)
(* The plugin loader of orbment, src/plugin.c: registration of the shared  *)
(* objects found in the plugin directories, plugin_load_all with its       *)
(* recursive, dependency-driven load_plugin, and plugin_remove_all with    *)
(* its recursive, dependents-first deload_plugin.                          *)
(*                                                                         *)
(* The compositor is single threaded here, so a step is the code between   *)
(* two points at which the loader reads what another frame may have        *)
(* changed.  The C call stack is the variable stack; ret is the value the  *)
(* call that was just left returned.  What is nondeterministic is what     *)
(* the program does not control: the order in which readdir lists the      *)
(* files, which of them dlopen accepts, and what each plugin's init        *)
(* returns.  Memory allocation is taken to succeed.                        *)
(***************************************************************************)
EXTENDS Naturals, Sequences, Functions

CONSTANTS
    Objects,    \* the compositor itself and the shared objects on disk
    Core,       \* the built-in plugin "orbment", registered by hooks_setup
    Names,      \* the strings used as plugin and group names
    Info,       \* what plugin_register() of each object returns
    PoolSize,   \* how many slots the pool of plugins has room for
    NULL        \* no plugin, no group, NOTINDEX

Handles == 1..PoolSize

\* struct plugin_info, without the texts and the methods.
PluginInfo ==
    [ name      : Names,
      provides  : Seq(Names),
      conflicts : Seq(Names),
      requires  : Seq(Names),
      after     : Seq(Names),
      groups    : Seq(Names) ]

\* The built-in plugin depends on nothing; one slot is there for it.
ASSUME LoaderConstants ==
    /\ Core \in Objects
    /\ PoolSize \in Nat \ {0}
    /\ Info \in [Objects -> PluginInfo]
    /\ Info[Core].requires = <<>> /\ Info[Core].after = <<>>
    /\ Info[Core].groups = <<>>

ASSUME NullIsFresh ==
    NULL \notin Objects /\ NULL \notin Handles /\ NULL \notin Seq(Handles)

VARIABLES
    phase,      \* where main() is
    unread,     \* files the directory scan has not reached
    slot,       \* the pool: the object registered under each handle
    names,      \* hash table name -> handle
    groups,     \* hash table group -> handles of its members
    mapped,     \* objects whose dl is not NULL
    loaded,     \* objects whose loaded flag is set
    needed,     \* p.needed: names of the plugins that depend on p
    stack,      \* active calls of load_plugin or deload_plugin
    ret,        \* result of the call that returned last
    cursor      \* the loop variable of plugin_load_all / plugin_remove_all

vars == <<phase, unread, slot, names, groups, mapped, loaded, needed,
          stack, ret, cursor>>
pool_tables == <<slot, names, groups>>

(***************************************************************************)
(* A frame is an active call on plugin: its program counter pc, the index  *)
(* i into the array it walks, the index g into the group it walks (0: it   *)
(* is not inside a group) and dep, the local d of load_dep while load_dep  *)
(* waits for load_plugin(d).                                               *)
(***************************************************************************)
Frame ==
    [ plugin : Objects,
      pc     : {"requires", "after", "init", "needed"},
      i      : Nat \ {0},
      g      : Nat,
      dep    : Objects \cup {NULL} ]

\* Mutant of Call: the loops skip nothing but start one too low.
CallFromZero(p, pc) == [plugin |-> p, pc |-> pc, i |-> 0, g |-> 0, dep |-> NULL]

Call(p, pc) == [plugin |-> p, pc |-> pc, i |-> 1, g |-> 0, dep |-> NULL]

Top == stack[Len(stack)]
Under == SubSeq(stack, 1, Len(stack) - 1)
Become(f) == [stack EXCEPT ![Len(stack)] = f]

get_handle(n) == names[n]
get(n) == IF get_handle(n) = NULL THEN NULL ELSE slot[get_handle(n)]
get_group(n) == groups[n] # NULL
belongs_to_pool(array, n) == n \in Range(array)

\* load_plugin's first test: a plugin that came from a file needs its dl.
Usable(p) == p = Core \/ p \in mapped

-----------------------------------------------------------------------------
(* Registration *)

Init ==
    /\ phase = "register"
    /\ unread = Objects \ {Core}
    /\ slot = [h \in Handles |-> IF h = 1 THEN Core ELSE NULL]
    /\ names = [n \in Names |-> IF n = Info[Core].name THEN 1 ELSE NULL]
    /\ groups = [n \in Names |-> NULL]
    /\ mapped = {} /\ loaded = {}
    /\ needed = [p \in Objects |-> <<>>]
    /\ stack = <<>> /\ ret = "none" /\ cursor = 1

\* The indices at which exists_in_info_array stops to look closer.
Hits(array, check_group) ==
    {i \in DOMAIN array : get(array[i]) # NULL \/ (check_group /\ get_group(array[i]))}

\* enum conflict_msg: registered and conflict.
exists_in_info_array(array) == Hits(array, TRUE) # {}

\* enum conflict_msg: group.  Only the first hit is looked at.
group_conflict(array) ==
    \E i \in Hits(array, FALSE) :
        /\ \A j \in Hits(array, FALSE) : i <= j
        /\ ~get_group(array[i])

Rejected(p) ==
    \/ get(Info[p].name) # NULL
    \/ exists_in_info_array(Info[p].provides)
    \/ exists_in_info_array(Info[p].conflicts)
    \/ group_conflict(Info[p].groups)

\* chck_pool_add takes the lowest free slot; as the order of the files is
\* arbitrary, so is which plugin gets which.
FreeSlot(h) == slot[h] = NULL /\ \A k \in Handles : k < h => slot[k] # NULL

members(n) == IF get_group(n) THEN groups[n] ELSE <<>>

\* add_to_group fails for p's i-th group: the handle is in it already.
AddFails(p, h, i) ==
    LET n == Info[p].groups[i] IN
        h \in Range(members(n)) \/ \E j \in 1..(i - 1) : Info[p].groups[j] = n

add_to_groups(p, h) ==
    [n \in Names |-> IF belongs_to_pool(Info[p].groups, n)
                     THEN Append(members(n), h) ELSE groups[n]]

\* A group has a handle once at most.
remove_from_group(s, h) ==
    IF h \in Range(s)
    THEN LET i == CHOOSE i \in DOMAIN s : s[i] = h
         IN  SubSeq(s, 1, i - 1) \o SubSeq(s, i + 1, Len(s))
    ELSE s

\* Mutant of groups_after_error: the groups keep the handle.
groups_keep_handle(p, h) ==
    [n \in Names |-> IF belongs_to_pool(Info[p].groups, n) THEN Append(members(n), h)
                                                           ELSE groups[n]]

\* Group n was added to before add_to_group failed.
Joined(p, h, n) ==
    \E i \in DOMAIN Info[p].groups :
        Info[p].groups[i] = n /\ \A j \in 1..i : ~AddFails(p, h, j)

\* error2: the groups made before the failure stay, the handle leaves them.
groups_after_error(p, h) ==
    [n \in Names |->
        IF belongs_to_pool(Info[p].groups, n) /\ (get_group(n) \/ Joined(p, h, n))
        THEN remove_from_group(IF Joined(p, h, n) THEN Append(members(n), h)
                                                  ELSE members(n), h)
        ELSE groups[n]]

\* plugin_register_from_path: dlopen or the symbol lookup fails, or
\* plugin_register leaves at error0, before anything is stored.
RegisterRejects(p) ==
    /\ phase = "register" /\ p \in unread
    /\ unread' = unread \ {p}
    /\ UNCHANGED <<phase, pool_tables, mapped, loaded, needed, stack, ret, cursor>>

plugin_register(p) ==
    /\ phase = "register" /\ p \in unread
    /\ ~Rejected(p)
    /\ unread' = unread \ {p}
    /\ \E h \in Handles :
         /\ FreeSlot(h)
         /\ IF \E i \in DOMAIN Info[p].groups : AddFails(p, h, i)
            THEN /\ groups' = groups_after_error(p, h)
                 /\ names' = [names EXCEPT ![Info[p].name] = NULL]
                 /\ UNCHANGED <<slot, mapped>>
            ELSE /\ groups' = add_to_groups(p, h)
                 /\ names' = [names EXCEPT ![Info[p].name] = h]
                 /\ slot' = [slot EXCEPT ![h] = p]
                 /\ mapped' = mapped \cup {p}
    /\ UNCHANGED <<phase, loaded, needed, stack, ret, cursor>>

\* register_plugins_from_path is through; plugin_load_all starts.
RegistrationDone ==
    /\ phase = "register" /\ unread = {}
    /\ phase' = "load" /\ cursor' = 1
    /\ UNCHANGED <<unread, pool_tables, mapped, loaded, needed, stack, ret>>

-----------------------------------------------------------------------------
(* deload_plugin and the error path of load_plugin *)

\* Mutants of deload: no unlink_name; no dlclose.
deload_keeps_name(p) ==
    /\ needed' = [needed EXCEPT ![p] = <<>>]
    /\ mapped' = mapped \ {p}
    /\ loaded' = loaded \ {p}
    /\ UNCHANGED names

deload_keeps_object(p) ==
    /\ needed' = [needed EXCEPT ![p] = <<>>]
    /\ names' = [names EXCEPT ![Info[p].name] = NULL]
    /\ loaded' = loaded \ {p}
    /\ UNCHANGED mapped

\* The part of deload_plugin behind the loop over p.needed.
deload(p) ==
    /\ needed' = [needed EXCEPT ![p] = <<>>]
    /\ names' = [names EXCEPT ![Info[p].name] = NULL]
    /\ mapped' = mapped \ {p}
    /\ loaded' = loaded \ {p}

NeededBy(p) == \E n \in Range(needed[p]) : get(n) \in loaded

\* error0 of load_plugin: deload_plugin(p, false), then return false.
LoadFails(p) ==
    /\ IF NeededBy(p) \/ (p \notin mapped /\ p \notin loaded)
       THEN UNCHANGED <<needed, names, mapped, loaded>>
       ELSE deload(p)
    /\ stack' = Under /\ ret' = "fail"
    /\ UNCHANGED <<phase, unread, slot, groups, cursor>>

-----------------------------------------------------------------------------
(* load_plugin *)

array(f) == IF f.pc = "requires" THEN Info[f.plugin].requires ELSE Info[f.plugin].after
\* Mutant of hard: requirements are treated as optional.
never_hard(f) == FALSE

hard(f) == f.pc = "requires"
entry(f) == array(f)[f.i]

Walking == /\ phase = "load" /\ stack # <<>> /\ Top.pc \in {"requires", "after"}
\* Mutant of InArray: the last element is not looked at.
InArrayButLast(f) == f.g = 0 /\ f.i < Len(array(f))

InArray(f) == f.g = 0 /\ f.i <= Len(array(f))
InGroup(f) == f.g > 0 /\ f.g <= Len(groups[entry(f)])
IsGroup(f) == ~belongs_to_pool(Info[f.plugin].groups, entry(f)) /\ get_group(entry(f))

\* Mutant of Circular: no such test.
NeverCircular(p, d) == FALSE

\* load_deps_from_array compares both of d's arrays with p's name.
Circular(p, d) ==
    \/ belongs_to_pool(Info[d].requires, Info[p].name)
    \/ belongs_to_pool(Info[d].after, Info[p].name)

\* d is the plugin that load_deps_from_array or load_deps_from_group
\* hands to load_dep next.
Candidate(f, d) ==
    \/ InArray(f) /\ ~IsGroup(f) /\ d = get(entry(f)) /\ ~Circular(f.plugin, d)
    \/ InGroup(f) /\ d = slot[groups[entry(f)][f.g]]

\* One element further: a group that was entered is not left again.
Advance(f) ==
    IF f.g > 0 THEN [f EXCEPT !.g = @ + 1, !.dep = NULL]
               ELSE [f EXCEPT !.i = @ + 1, !.dep = NULL]

\* Mutant of ArrayDone: "after" is not walked.
ArrayDoneSkipsAfter(f) ==
    /\ stack' = Become(Call(f.plugin, "init")) /\ loaded' = loaded \cup {f.plugin}
    /\ UNCHANGED <<phase, unread, pool_tables, mapped, needed, ret, cursor>>

\* load_deps_from_array has returned: on to "after", or to init with
\* p.loaded set before it is called.
ArrayDone(f) ==
    /\ IF f.pc = "requires"
       THEN stack' = Become(Call(f.plugin, "after")) /\ UNCHANGED loaded
       ELSE stack' = Become(Call(f.plugin, "init")) /\ loaded' = loaded \cup {f.plugin}
    /\ UNCHANGED <<phase, unread, pool_tables, mapped, needed, ret, cursor>>

FinishArray ==
    /\ Walking /\ ret = "none"
    /\ ~InArray(Top) /\ ~InGroup(Top)
    /\ ArrayDone(Top)

Step(f) ==
    /\ stack' = Become(f)
    /\ UNCHANGED <<phase, unread, pool_tables, mapped, loaded, needed, ret, cursor>>

EnterGroup ==
    /\ Walking /\ ret = "none" /\ InArray(Top) /\ IsGroup(Top)
    /\ Step([Top EXCEPT !.g = 1])

\* Mutant of SkipMember: the loop variable stays.
SkipMemberStays ==
    /\ Walking /\ ret = "none" /\ InGroup(Top)
    /\ slot[groups[entry(Top)][Top.g]] = NULL
    /\ Step(Top)

\* The member's plugin failed to load and its slot was given up.
SkipMember ==
    /\ Walking /\ ret = "none" /\ InGroup(Top)
    /\ slot[groups[entry(Top)][Top.g]] = NULL
    /\ Step(Advance(Top))

MissingDependency ==
    /\ Walking /\ ret = "none" /\ InArray(Top) /\ ~IsGroup(Top)
    /\ get(entry(Top)) = NULL
    /\ IF hard(Top) THEN LoadFails(Top.plugin) ELSE Step(Advance(Top))

CircularDependency ==
    /\ Walking /\ ret = "none" /\ InArray(Top) /\ ~IsGroup(Top)
    /\ get(entry(Top)) # NULL /\ Circular(Top.plugin, get(entry(Top)))
    /\ IF hard(Top) THEN LoadFails(Top.plugin) ELSE ArrayDone(Top)

\* load_dep behind load_plugin(d): p's name goes to d.needed, also when an
\* optional d failed.
Depend(f, d) ==
    /\ needed' = [needed EXCEPT ![d] = Append(@, Info[f.plugin].name)]
    /\ stack' = Become(Advance(f))
    /\ ret' = "none"
    /\ UNCHANGED <<phase, unread, pool_tables, mapped, loaded, cursor>>

\* load_dep(p, d) when load_plugin(d) is not called or returns at once.
DependOnReady(d) ==
    /\ Walking /\ ret = "none" /\ Candidate(Top, d)
    /\ d \in loaded \/ ~Usable(d)
    /\ IF d \notin loaded /\ hard(Top) THEN LoadFails(Top.plugin) ELSE Depend(Top, d)

LoadDependency(d) ==
    /\ Walking /\ ret = "none" /\ Candidate(Top, d)
    /\ d \notin loaded /\ Usable(d)
    /\ stack' = Append(Become([Top EXCEPT !.dep = d]), Call(d, "requires"))
    /\ UNCHANGED <<phase, unread, pool_tables, mapped, loaded, needed, ret, cursor>>

\* load_plugin(d) returned to load_dep.
DependencyReturned ==
    /\ Walking /\ ret # "none"
    /\ IF ret = "fail" /\ hard(Top)
       THEN LoadFails(Top.plugin) ELSE Depend(Top, Top.dep)

Initialising == phase = "load" /\ stack # <<>> /\ Top.pc = "init"

InitSucceeds ==
    /\ Initialising
    /\ stack' = Under /\ ret' = "ok"
    /\ UNCHANGED <<phase, unread, pool_tables, mapped, loaded, needed, cursor>>

\* The built-in plugin has no init that could fail.
InitFails ==
    /\ Initialising /\ Top.plugin # Core
    /\ LoadFails(Top.plugin)

-----------------------------------------------------------------------------
(* plugin_load_all *)

LoadNext ==
    /\ phase = "load" /\ stack = <<>> /\ ret = "none" /\ cursor \in Handles
    /\ LET p == slot[cursor] IN
         IF p # NULL /\ p \notin loaded /\ Usable(p)
         THEN stack' = <<Call(p, "requires")>> /\ UNCHANGED <<slot, cursor>>
         ELSE /\ slot' = IF p \in loaded THEN slot ELSE [slot EXCEPT ![cursor] = NULL]
              /\ cursor' = cursor + 1
              /\ UNCHANGED stack
    /\ UNCHANGED <<phase, unread, names, groups, mapped, loaded, needed, ret>>

LoadReturned ==
    /\ phase = "load" /\ stack = <<>> /\ ret # "none"
    /\ slot' = IF ret = "fail" THEN [slot EXCEPT ![cursor] = NULL] ELSE slot
    /\ cursor' = cursor + 1 /\ ret' = "none"
    /\ UNCHANGED <<phase, unread, names, groups, mapped, loaded, needed, stack>>

LoadAllDone ==
    /\ phase = "load" /\ stack = <<>> /\ ret = "none" /\ cursor \notin Handles
    /\ phase' = "run"
    /\ UNCHANGED <<unread, pool_tables, mapped, loaded, needed, stack, ret, cursor>>

-----------------------------------------------------------------------------
(* plugin_remove_all *)

compositor_terminate ==
    /\ phase = "run"
    /\ phase' = "remove" /\ cursor' = 1
    /\ UNCHANGED <<unread, pool_tables, mapped, loaded, needed, stack, ret>>

Removable(p) == p \in mapped \/ p \in loaded

\* plugin_release of the next plugin: deload_plugin(p, true).
RemoveNext ==
    /\ phase = "remove" /\ stack = <<>> /\ cursor \in Handles
    /\ IF Removable(slot[cursor])
       THEN stack' = <<Call(slot[cursor], "needed")>> /\ UNCHANGED cursor
       ELSE cursor' = cursor + 1 /\ UNCHANGED stack
    /\ UNCHANGED <<phase, unread, pool_tables, mapped, loaded, needed, ret>>

Removing == phase = "remove" /\ stack # <<>>

\* Mutant of DeloadDependent: dependents are left for later.
DeloadDependentNever ==
    /\ Removing /\ Top.i <= Len(needed[Top.plugin])
    /\ stack' = Become(Advance(Top))
    /\ UNCHANGED <<phase, unread, pool_tables, mapped, loaded, needed, ret, cursor>>

\* The loop over p.needed.  A dependent is deloaded by a recursive call;
\* forced, that call always leaves it deloaded, and the loop goes on.
DeloadDependent ==
    /\ Removing /\ Top.i <= Len(needed[Top.plugin])
    /\ LET d == get(needed[Top.plugin][Top.i]) IN
         IF d \in loaded
         THEN stack' = Append(stack, Call(d, "needed"))
         ELSE stack' = Become(Advance(Top))
    /\ UNCHANGED <<phase, unread, pool_tables, mapped, loaded, needed, ret, cursor>>

Deload ==
    /\ Removing /\ Top.i > Len(needed[Top.plugin])
    /\ deload(Top.plugin)
    /\ stack' = Under
    /\ UNCHANGED <<phase, unread, slot, groups, ret, cursor>>

\* The pool and the name table are released, the group table is not.
RemoveAllDone ==
    /\ phase = "remove" /\ stack = <<>> /\ cursor \notin Handles
    /\ phase' = "gone"
    /\ slot' = [h \in Handles |-> NULL]
    /\ names' = [n \in Names |-> NULL]
    /\ UNCHANGED <<unread, groups, mapped, loaded, needed, stack, ret, cursor>>

-----------------------------------------------------------------------------
Register == \E p \in Objects : RegisterRejects(p) \/ plugin_register(p)

ResolveDependency ==
    \/ EnterGroup \/ SkipMember \/ MissingDependency \/ CircularDependency
    \/ \E d \in Objects : DependOnReady(d) \/ LoadDependency(d)
    \/ DependencyReturned

plugin_load_all ==
    \/ LoadNext \/ LoadReturned \/ LoadAllDone
    \/ ResolveDependency \/ FinishArray
    \/ InitSucceeds \/ InitFails

plugin_remove_all == RemoveNext \/ DeloadDependent \/ Deload \/ RemoveAllDone

Work == Register \/ RegistrationDone \/ plugin_load_all \/ plugin_remove_all

Next == Work \/ compositor_terminate

\* One thread runs main() to wlc_run, and the terminate callback to its end;
\* whether the user ever terminates the compositor is not assumed.
Spec == Init /\ [][Next]_vars /\ WF_vars(Work)

-----------------------------------------------------------------------------
(* Properties *)

TypeOK ==
    /\ phase \in {"register", "load", "run", "remove", "gone"}
    /\ unread \subseteq Objects \ {Core}
    /\ slot \in [Handles -> Objects \cup {NULL}]
    /\ names \in [Names -> Handles \cup {NULL}]
    /\ groups \in [Names -> Seq(Handles) \cup {NULL}]
    /\ mapped \subseteq Objects
    /\ loaded \subseteq Objects
    /\ needed \in [Objects -> Seq(Names)]
    /\ stack \in Seq(Frame)
    /\ ret \in {"none", "ok", "fail"}
    /\ cursor \in Nat \ {0}

\* What import_plugin and the dependency resolution find under a name is the
\* plugin of that name, and its code is mapped: unlink_name and the slot are
\* kept in step with dlclose although they are three separate updates.
NamesResolve ==
    \A n \in Names : names[n] # NULL =>
        /\ get(n) \in Objects
        /\ Info[get(n)].name = n
        /\ Usable(get(n))

\* A handle that a group still lists never denotes a plugin outside that
\* group: slots are used again after a failed registration, and the group
\* table is not told when a plugin that failed to load gives up its slot.
GroupsResolve ==
    \A n \in Names : get_group(n) =>
        \A h \in Range(groups[n]) : slot[h] # NULL => n \in Range(Info[slot[h]].groups)

\* The hard dependency r of p is met.
Met(p, r) ==
    IF get_group(r) /\ ~belongs_to_pool(Info[p].groups, r)
    THEN \A h \in Range(groups[r]) : slot[h] # NULL => slot[h] \in loaded
    ELSE get(r) \in loaded

\* While a plugin runs, each plugin it requires runs: through the recursive
\* loading, through failing inits, and through the teardown, which has to
\* take dependents first whatever the order of the slots.
RequiredLoaded ==
    \A p \in loaded : \A r \in Range(Info[p].requires) : Met(p, r)

\* load_plugin and deload_plugin are never entered again for a plugin that
\* an outer call is still working on.
NoReentry ==
    \A i, j \in DOMAIN stack : stack[i].plugin = stack[j].plugin => i = j

\* p asks to be loaded after d.
Follows(p, d) ==
    \E n \in Range(Info[p].after) :
        IF get_group(n) /\ ~belongs_to_pool(Info[p].groups, n)
        THEN n \in Range(Info[d].groups) ELSE n = Info[d].name

\* No plugin is started when one that asked to come after it runs already,
\* whatever the order of the directory listing and whichever inits fail;
\* unless the two name each other, which the loader takes for circular.
LoadOrder ==
    [][\A d \in loaded' \ loaded : \A p \in loaded :
          Follows(p, d) => Circular(p, d)]_vars

\* Loading comes to an end.
LoadEnds == <>(phase = "run")

\* Once the compositor terminates, every plugin is deinitialised and
\* unmapped.
RemoveEnds ==
    phase = "remove" ~> (phase = "gone" /\ mapped = {} /\ loaded = {})

\* The catalogue has no cycle of dependencies but those the loader detects:
\* rank goes down from a plugin to each plugin that it makes load_dep load.
MayLoad(p, d) ==
    \E n \in Range(Info[p].requires) \cup Range(Info[p].after) :
        \/ /\ n = Info[d].name
           /\ Info[p].name \notin Range(Info[d].requires) \cup Range(Info[d].after)
        \/ n \in Range(Info[d].groups) /\ ~belongs_to_pool(Info[p].groups, n)

Ranks(rank) ==
    \A p, d \in Objects : MayLoad(p, d) => rank[Info[d].name] < rank[Info[p].name]

\* No plugin requires anything behind a group: load_deps_from_array returns
\* with the group.
GroupsLast ==
    \A p, o \in Objects : \A i \in DOMAIN Info[p].requires :
        /\ i < Len(Info[p].requires)
        /\ Info[p].requires[i] \in Range(Info[o].groups)
        => belongs_to_pool(Info[p].groups, Info[p].requires[i])

\* No plugin asks to come after anything behind a group, or behind a plugin
\* that names it in turn: load_deps_from_array returns there, too.
AfterLast ==
    \A p, o \in Objects : \A i \in DOMAIN Info[p].after :
        i < Len(Info[p].after) =>
          /\ Info[p].after[i] = Info[o].name => ~Circular(p, o)
          /\ Info[p].after[i] \in Range(Info[o].groups)
               => belongs_to_pool(Info[p].groups, Info[p].after[i])

\* What the loader has given up or taken down for good.
Down == {p \in Objects \ unread :
            /\ p \notin mapped /\ p \notin loaded
            /\ p = Core => phase \in {"remove", "gone"}}

Uses == {u \in loaded \X loaded : Info[u[1]].name \in Range(needed[u[2]])}

\* The lists p.needed, filled in while the recursion resolves dependencies,
\* are what orders the teardown: the loader implements PluginLifecycle.
Lifecycle == INSTANCE PluginLifecycle
                WITH Plugins <- Objects, up <- loaded, down <- Down, uses <- Uses

ImplementsLifecycle == Lifecycle!Spec

\* The comment in exists_in_info_array: a group may have the name of a
\* plugin when that plugin belongs to the group.
GroupConflictChecked ==
    [][\A p \in mapped' \ mapped : \A n \in Range(Info[p].groups) :
          get(n) # NULL => n \in Range(Info[get(n)].groups)]_vars

=============================================================================
