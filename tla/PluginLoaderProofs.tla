------------------------- MODULE PluginLoaderProofs -------------------------
(***************************************************************************)
(* Proofs about PluginLoader, for every catalogue of plugins and every     *)
(* size of the pool: type correctness, and the inductive invariant of the  *)
(* loader with what follows from it for the name table, the group table    *)
(* and the call stack; then the order in which plugins start and stop: the *)
(* loader implements PluginLifecycle, what a plugin requires runs as long  *)
(* as it does, and what it asked to come after is started before it.  The  *)
(* invariant is for a catalogue without undetected cycles, which a rank of *)
(* the names shows.                                                        *)
(***************************************************************************)
EXTENDS PluginLoader, SequenceTheorems, TLAPS

-----------------------------------------------------------------------------
(* The call stack *)

\* Returning from a call leaves the frames below it as they are.
LEMMA Popped ==
    ASSUME NEW S, NEW s \in Seq(S), s # <<>>
    PROVE  /\ SubSeq(s, 1, Len(s) - 1) \in Seq(S)
           /\ Len(SubSeq(s, 1, Len(s) - 1)) = Len(s) - 1
           /\ \A i \in 1..(Len(s) - 1) : SubSeq(s, 1, Len(s) - 1)[i] = s[i]
<1>1. Len(s) \in Nat /\ Len(s) # 0 /\ \A i \in 1..Len(s) : s[i] \in S
  BY EmptySeq, ElementOfSeq
<1>2. \A i \in 1..(Len(s) - 1) : s[i] \in S
  BY <1>1
<1> DEFINE n == Len(s) - 1
<1>3. n \in Int /\ \A i \in 1..n : s[i] \in S
  BY <1>1, <1>2
<1>4. /\ SubSeq(s, 1, n) \in Seq(S)
      /\ Len(SubSeq(s, 1, n)) = IF 1 <= n THEN n - 1 + 1 ELSE 0
      /\ \A i \in 1..(n - 1 + 1) : SubSeq(s, 1, n)[i] = s[1 + i - 1]
  <2> HIDE DEF n
  <2> QED BY <1>3, SubSeqProperties
<1>5. n - 1 + 1 = n /\ n \in Nat /\ \A i \in 1..n : 1 + i - 1 = i
  BY <1>1
<1>6. /\ SubSeq(s, 1, n) \in Seq(S)
      /\ Len(SubSeq(s, 1, n)) = n
      /\ \A i \in 1..n : SubSeq(s, 1, n)[i] = s[i]
  <2> HIDE DEF n
  <2> QED BY <1>4, <1>5
<1> QED
  BY <1>6

\* The top frame of a stack that is not empty.
LEMMA TopFrame ==
    ASSUME stack \in Seq(Frame), stack # <<>>
    PROVE  /\ Len(stack) \in Nat \ {0}
           /\ Len(stack) \in 1..Len(stack)
           /\ Top \in Frame
           /\ Top.plugin \in Objects
<1>1. Len(stack) \in Nat \ {0}
  BY EmptySeq
<1>2. Len(stack) \in 1..Len(stack)
  BY <1>1
<1>3. Top \in Frame
  BY <1>2, ElementOfSeq DEF Top
<1>4. Top.plugin \in Objects
  BY <1>3 DEF Frame
<1> QED
  BY <1>1, <1>2, <1>3, <1>4

\* The arrays in a plugin's info.
LEMMA InfoArrays ==
    ASSUME NEW p \in Objects
    PROVE  /\ Info[p].name \in Names
           /\ Info[p].requires \in Seq(Names)
           /\ Info[p].after \in Seq(Names)
           /\ Info[p].groups \in Seq(Names)
BY LoaderConstants DEF PluginInfo

\* Frames stay frames when the loop variables move on.
LEMMA NewFrames ==
    ASSUME NEW f \in Frame, NEW p \in Objects, NEW d \in Objects
    PROVE  /\ \A pc \in {"requires", "after", "init", "needed"} : Call(p, pc) \in Frame
           /\ Advance(f) \in Frame
           /\ [f EXCEPT !.g = 1] \in Frame
           /\ [f EXCEPT !.dep = d] \in Frame
           /\ f.plugin \in Objects
<1>1. \A pc \in {"requires", "after", "init", "needed"} : Call(p, pc) \in Frame
  BY DEF Frame, Call
<1>2. f = [plugin |-> f.plugin, pc |-> f.pc, i |-> f.i, g |-> f.g, dep |-> f.dep]
  BY DEF Frame
<1>3. /\ f.plugin \in Objects /\ f.i \in Nat \ {0} /\ f.g \in Nat
      /\ f.pc \in {"requires", "after", "init", "needed"}
      /\ f.dep \in Objects \cup {NULL}
  BY DEF Frame
<1>4. Advance(f) \in Frame
  <2>1. CASE f.g > 0
    BY <2>1, <1>3, f.g + 1 \in Nat DEF Advance, Frame
  <2>2. CASE ~(f.g > 0)
    BY <2>2, <1>3, f.i + 1 \in Nat \ {0} DEF Advance, Frame
  <2> QED BY <2>1, <2>2
<1>5. [f EXCEPT !.g = 1] \in Frame /\ [f EXCEPT !.dep = d] \in Frame
  BY DEF Frame
<1> QED
  BY <1>1, <1>3, <1>4, <1>5

LEMMA Becomes ==
    ASSUME stack \in Seq(Frame), stack # <<>>, NEW f \in Frame
    PROVE  /\ Become(f) \in Seq(Frame)
           /\ Len(Become(f)) = Len(stack)
           /\ \A i \in 1..Len(stack) :
                 Become(f)[i] = IF i = Len(stack) THEN f ELSE stack[i]
BY TopFrame, ExceptSeq DEF Become
LEMMA Returns ==
    ASSUME stack \in Seq(Frame), stack # <<>>
    PROVE  /\ Under \in Seq(Frame)
           /\ Len(Under) = Len(stack) - 1
           /\ \A i \in 1..(Len(stack) - 1) : Under[i] = stack[i]
BY Popped DEF Under

LEMMA Pushes ==
    ASSUME NEW s \in Seq(Frame), NEW f \in Frame
    PROVE  /\ Append(s, f) \in Seq(Frame)
           /\ Len(Append(s, f)) = Len(s) + 1
           /\ Len(s) \in Nat
           /\ \A i \in 1..Len(s) : Append(s, f)[i] = s[i]
           /\ Append(s, f)[Len(s) + 1] = f
BY AppendProperties, LenProperties

-----------------------------------------------------------------------------
(* Type correctness *)

\* Taking a handle out of a group leaves a list of handles.
LEMMA RemovedType ==
    ASSUME NEW s \in Seq(Handles), NEW h \in Handles
    PROVE  remove_from_group(s, h) \in Seq(Handles)
<1>1. CASE h \in Range(s)
  <2> DEFINE i == CHOOSE i \in DOMAIN s : s[i] = h
             a == SubSeq(s, 1, i - 1)
             b == SubSeq(s, i + 1, Len(s))
  <2>1. \E j \in DOMAIN s : s[j] = h
    BY <1>1 DEF Range
  <2>2. i \in DOMAIN s
    BY <2>1
  <2>3. Len(s) \in Nat /\ DOMAIN s = 1..Len(s) /\ \A j \in 1..Len(s) : s[j] \in Handles
    BY LenProperties, ElementOfSeq
  <2>4. i \in 1..Len(s)
    BY <2>2, <2>3
  <2>5. a \in Seq(Handles) /\ b \in Seq(Handles)
    <3> HIDE DEF i
    <3>1. /\ i - 1 \in Int /\ i + 1 \in Int /\ Len(s) \in Int /\ 1 \in Int
          /\ \A j \in 1..(i - 1) : s[j] \in Handles
          /\ \A j \in (i + 1)..Len(s) : s[j] \in Handles
      BY <2>3, <2>4
    <3> QED BY <3>1, SubSeqProperties
  <2>6. a \o b \in Seq(Handles)
    <3> HIDE DEF a, b
    <3> QED BY <2>5, ConcatProperties
  <2>7. remove_from_group(s, h) = a \o b
    BY <1>1 DEF remove_from_group
  <2> QED BY <2>6, <2>7
<1>2. CASE h \notin Range(s)
  BY <1>2 DEF remove_from_group
<1> QED BY <1>1, <1>2

\* Registration: what the group table becomes.
LEMMA GroupTypes ==
    ASSUME TypeOK, NEW p \in Objects, NEW h \in Handles
    PROVE  /\ \A n \in Names : members(n) \in Seq(Handles)
           /\ add_to_groups(p, h) \in [Names -> Seq(Handles) \cup {NULL}]
           /\ groups_after_error(p, h) \in [Names -> Seq(Handles) \cup {NULL}]
<1>1. \A n \in Names : members(n) \in Seq(Handles)
  BY EmptySeq DEF TypeOK, members, get_group
<1>2. add_to_groups(p, h) \in [Names -> Seq(Handles) \cup {NULL}]
  BY <1>1, AppendProperties DEF TypeOK, add_to_groups
<1>3. \A s \in Seq(Handles) : remove_from_group(s, h) \in Seq(Handles)
  BY RemovedType
<1>4. groups_after_error(p, h) \in [Names -> Seq(Handles) \cup {NULL}]
  <2>1. \A n \in Names : Append(members(n), h) \in Seq(Handles)
    BY <1>1, AppendProperties
  <2> QED BY <1>1, <1>3, <2>1 DEF TypeOK, groups_after_error
<1> QED BY <1>1, <1>2, <1>4

\* The error path of load_plugin.
LEMMA LoadFailsType ==
    ASSUME TypeOK, stack # <<>>, LoadFails(Top.plugin)
    PROVE  TypeOK'
<1>1. Top \in Frame /\ Top.plugin \in Objects
  BY TopFrame DEF TypeOK
<1>2. stack' \in Seq(Frame)
  BY Returns DEF LoadFails, TypeOK
<1>3. needed' \in [Objects -> Seq(Names)]
  <2>1. needed' = needed \/ needed' = [needed EXCEPT ![Top.plugin] = <<>>]
    BY DEF LoadFails, deload
  <2>2. CASE needed' = needed
    BY <2>2 DEF TypeOK
  <2>3. CASE needed' = [needed EXCEPT ![Top.plugin] = <<>>]
    <3>1. <<>> \in Seq(Names)
      BY EmptySeq
    <3> QED BY <2>3, <3>1 DEF TypeOK
  <2> QED BY <2>1, <2>2, <2>3
<1>4. names' \in [Names -> Handles \cup {NULL}]
  BY DEF LoadFails, deload, TypeOK
<1>5. mapped' \subseteq Objects /\ loaded' \subseteq Objects
  BY DEF LoadFails, deload, TypeOK
<1> QED
  BY <1>2, <1>3, <1>4, <1>5 DEF LoadFails, TypeOK

\* The steps that only move the top frame.
LEMMA StepType ==
    ASSUME TypeOK, stack # <<>>, NEW f \in Frame, Step(f)
    PROVE  TypeOK'
<1>1. stack' \in Seq(Frame)
  BY Becomes DEF Step, TypeOK
<1> QED
  BY <1>1 DEF Step, TypeOK, pool_tables

LEMMA ArrayDoneType ==
    ASSUME TypeOK, stack # <<>>, ArrayDone(Top)
    PROVE  TypeOK'
<1>1. Top \in Frame /\ Top.plugin \in Objects
  BY TopFrame DEF TypeOK
<1>2. Call(Top.plugin, "after") \in Frame /\ Call(Top.plugin, "init") \in Frame
  BY <1>1, NewFrames
<1>3. stack' \in Seq(Frame)
  BY <1>2, Becomes DEF ArrayDone, TypeOK
<1>4. loaded' \subseteq Objects
  BY <1>1 DEF ArrayDone, TypeOK
<1>5. UNCHANGED <<phase, unread, slot, names, groups, mapped, needed, ret, cursor>>
  BY DEF ArrayDone, pool_tables
<1> QED
  BY <1>3, <1>4, <1>5 DEF TypeOK

LEMMA DependType ==
    ASSUME TypeOK, stack # <<>>, NEW d, Depend(Top, d)
    PROVE  TypeOK'
<1>1. Top \in Frame /\ Top.plugin \in Objects /\ Core \in Objects
  BY TopFrame, LoaderConstants DEF TypeOK
<1>2. Advance(Top) \in Frame
  BY <1>1, NewFrames
<1>3. stack' \in Seq(Frame)
  BY <1>2, Becomes DEF Depend, TypeOK
<1>4. \A q \in Objects : Append(needed[q], Info[Top.plugin].name) \in Seq(Names)
  BY <1>1, InfoArrays, AppendProperties DEF TypeOK
<1>5. needed' \in [Objects -> Seq(Names)]
  BY <1>4 DEF Depend, TypeOK
<1>6. ret' = "none" /\ UNCHANGED <<phase, unread, slot, names, groups, mapped, loaded, cursor>>
  BY DEF Depend, pool_tables
<1> QED
  BY <1>3, <1>5, <1>6 DEF TypeOK

\* The frames of the calls made by load_dep and by deload_plugin.
LEMMA CallType ==
    ASSUME TypeOK, stack # <<>>, NEW d \in Objects
    PROVE  /\ Append(Become([Top EXCEPT !.dep = d]), Call(d, "requires")) \in Seq(Frame)
           /\ Append(stack, Call(d, "needed")) \in Seq(Frame)
<1>1. Top \in Frame
  BY TopFrame DEF TypeOK
<1>2. /\ [Top EXCEPT !.dep = d] \in Frame
      /\ Call(d, "requires") \in Frame /\ Call(d, "needed") \in Frame
  BY <1>1, NewFrames
<1>3. Become([Top EXCEPT !.dep = d]) \in Seq(Frame)
  BY <1>2, Becomes DEF TypeOK
<1> QED
  BY <1>2, <1>3, Pushes DEF TypeOK

\* The steps of load_deps_from_array, load_deps_from_group and load_dep.
LEMMA ResolveType ==
    ASSUME TypeOK, ResolveDependency
    PROVE  TypeOK'
<1>0. stack # <<>>
  BY DEF ResolveDependency, EnterGroup, SkipMember, MissingDependency,
         CircularDependency, DependOnReady, LoadDependency, DependencyReturned, Walking
<1>1. Top \in Frame /\ Core \in Objects
  BY <1>0, TopFrame, LoaderConstants DEF TypeOK
<1>2. Advance(Top) \in Frame /\ [Top EXCEPT !.g = 1] \in Frame
  BY <1>1, NewFrames
<1>3. CASE EnterGroup
  BY <1>0, <1>2, <1>3, StepType DEF EnterGroup
<1>4. CASE SkipMember
  BY <1>0, <1>2, <1>4, StepType DEF SkipMember
<1>5. CASE MissingDependency
  BY <1>0, <1>2, <1>5, StepType, LoadFailsType DEF MissingDependency
<1>6. CASE CircularDependency
  BY <1>0, <1>6, ArrayDoneType, LoadFailsType DEF CircularDependency
<1>7. ASSUME NEW d \in Objects, DependOnReady(d) PROVE TypeOK'
  BY <1>0, <1>7, DependType, LoadFailsType DEF DependOnReady
<1>8. ASSUME NEW d \in Objects, LoadDependency(d) PROVE TypeOK'
  <2>1. stack' \in Seq(Frame)
    BY <1>0, <1>8, CallType DEF LoadDependency
  <2> QED
    BY <1>8, <2>1 DEF LoadDependency, TypeOK, pool_tables
<1>9. CASE DependencyReturned
  BY <1>0, <1>9, DependType, LoadFailsType DEF DependencyReturned
<1> QED
  BY <1>3, <1>4, <1>5, <1>6, <1>7, <1>8, <1>9 DEF ResolveDependency

\* Registration of an object.
LEMMA RegisterType ==
    ASSUME TypeOK, NEW p \in Objects, plugin_register(p)
    PROVE  TypeOK'
<1>1. PICK h \in Handles :
        IF \E i \in DOMAIN Info[p].groups : AddFails(p, h, i)
        THEN /\ groups' = groups_after_error(p, h)
             /\ names' = [names EXCEPT ![Info[p].name] = NULL]
             /\ UNCHANGED <<slot, mapped>>
        ELSE /\ groups' = add_to_groups(p, h)
             /\ names' = [names EXCEPT ![Info[p].name] = h]
             /\ slot' = [slot EXCEPT ![h] = p]
             /\ mapped' = mapped \cup {p}
  BY DEF plugin_register
<1>2. groups' \in [Names -> Seq(Handles) \cup {NULL}]
  BY <1>1, GroupTypes
<1>3. /\ names' \in [Names -> Handles \cup {NULL}]
      /\ slot' \in [Handles -> Objects \cup {NULL}]
      /\ mapped' \subseteq Objects
  BY <1>1, InfoArrays DEF TypeOK
<1>4. /\ unread' = unread \ {p}
      /\ UNCHANGED <<phase, loaded, needed, stack, ret, cursor>>
  BY DEF plugin_register
<1> QED
  BY <1>2, <1>3, <1>4 DEF TypeOK

\* plugin_load_all, apart from the resolution of dependencies.
LEMMA LoadAllType ==
    ASSUME TypeOK, plugin_load_all
    PROVE  TypeOK'
<1>1. CASE LoadNext
  <2>1. CASE stack' = stack
    <3>1. slot' \in [Handles -> Objects \cup {NULL}]
      BY <1>1 DEF LoadNext, TypeOK
    <3>2. cursor' \in Nat \ {0}
      BY <1>1 DEF LoadNext, TypeOK
    <3> QED BY <1>1, <2>1, <3>1, <3>2 DEF LoadNext, TypeOK
  <2>2. CASE stack' # stack
    <3>1. /\ slot[cursor] \in Objects
          /\ stack' = <<Call(slot[cursor], "requires")>>
          /\ UNCHANGED <<slot, cursor>>
      BY <1>1, <2>2 DEF LoadNext, TypeOK
    <3>2. Call(slot[cursor], "requires") \in Frame
      BY <3>1 DEF Call, Frame
    <3>3. stack' \in Seq(Frame)
      BY <3>1, <3>2
    <3> QED BY <1>1, <3>1, <3>3 DEF LoadNext, TypeOK
  <2> QED BY <2>1, <2>2
<1>2. CASE LoadReturned
  <2>1. slot' \in [Handles -> Objects \cup {NULL}]
    BY <1>2 DEF LoadReturned, TypeOK
  <2> QED BY <1>2, <2>1 DEF LoadReturned, TypeOK
<1>3. CASE LoadAllDone
  BY <1>3 DEF LoadAllDone, TypeOK, pool_tables
<1>4. CASE FinishArray
  BY <1>4, ArrayDoneType DEF FinishArray, Walking
<1>5. CASE InitSucceeds
  <2>1. stack' \in Seq(Frame)
    BY <1>5, Returns DEF InitSucceeds, Initialising, TypeOK
  <2> QED BY <1>5, <2>1 DEF InitSucceeds, TypeOK, pool_tables
<1>6. CASE InitFails
  BY <1>6, LoadFailsType DEF InitFails, Initialising
<1> QED
  BY <1>1, <1>2, <1>3, <1>4, <1>5, <1>6, ResolveType DEF plugin_load_all

LEMMA RemoveAllType ==
    ASSUME TypeOK, plugin_remove_all
    PROVE  TypeOK'
<1>1. CASE RemoveNext
  <2>1. CASE Removable(slot[cursor])
    <3>1. slot[cursor] \in Objects
      BY <2>1 DEF Removable, TypeOK
    <3>2. Call(slot[cursor], "needed") \in Frame
      BY <3>1 DEF Call, Frame
    <3>3. stack' = <<Call(slot[cursor], "needed")>> /\ UNCHANGED cursor
      BY <1>1, <2>1 DEF RemoveNext
    <3>4. stack' \in Seq(Frame)
      BY <3>2, <3>3
    <3> QED BY <1>1, <3>3, <3>4 DEF RemoveNext, TypeOK, pool_tables
  <2>2. CASE ~Removable(slot[cursor])
    BY <1>1, <2>2 DEF RemoveNext, TypeOK, pool_tables
  <2> QED BY <2>1, <2>2
<1>2. CASE DeloadDependent
  <2>0. stack # <<>> /\ Core \in Objects
    BY <1>2, LoaderConstants DEF DeloadDependent, Removing
  <2>1. Advance(Top) \in Frame
    BY <2>0, TopFrame, NewFrames DEF TypeOK
  <2>2. Become(Advance(Top)) \in Seq(Frame)
    BY <2>0, <2>1, Becomes DEF TypeOK
  <2>3. \A d \in Objects : Append(stack, Call(d, "needed")) \in Seq(Frame)
    BY <2>0, CallType
  <2>4. \/ stack' = Become(Advance(Top))
        \/ \E d \in loaded : stack' = Append(stack, Call(d, "needed"))
    BY <1>2 DEF DeloadDependent
  <2>5. stack' \in Seq(Frame)
    BY <2>2, <2>3, <2>4 DEF TypeOK
  <2> QED BY <1>2, <2>5 DEF DeloadDependent, TypeOK, pool_tables
<1>3. CASE Deload
  <2>1. stack' \in Seq(Frame)
    BY <1>3, Returns DEF Deload, Removing, TypeOK
  <2>2. needed' \in [Objects -> Seq(Names)]
    BY <1>3, EmptySeq DEF Deload, deload, TypeOK
  <2>3. names' \in [Names -> Handles \cup {NULL}]
    BY <1>3 DEF Deload, deload, TypeOK
  <2>4. mapped' \subseteq Objects /\ loaded' \subseteq Objects
    BY <1>3 DEF Deload, deload, TypeOK
  <2> QED BY <1>3, <2>1, <2>2, <2>3, <2>4 DEF Deload, TypeOK
<1>4. CASE RemoveAllDone
  BY <1>4 DEF RemoveAllDone, TypeOK
<1> QED
  BY <1>1, <1>2, <1>3, <1>4 DEF plugin_remove_all

\* Every step of the loader keeps the types.
LEMMA NextType ==
    ASSUME TypeOK, [Next]_vars
    PROVE  TypeOK'
<1>1. ASSUME NEW p \in Objects, RegisterRejects(p) PROVE TypeOK'
  BY <1>1 DEF RegisterRejects, TypeOK, pool_tables
<1>2. CASE RegistrationDone
  BY <1>2 DEF RegistrationDone, TypeOK, pool_tables
<1>3. CASE compositor_terminate
  BY <1>3 DEF compositor_terminate, TypeOK, pool_tables
<1>4. CASE UNCHANGED vars
  BY <1>4 DEF vars, TypeOK
<1> QED
  BY <1>1, <1>2, <1>3, <1>4, RegisterType, LoadAllType, RemoveAllType
  DEF Next, Work, Register

LEMMA InitType ==
    ASSUME Init
    PROVE  TypeOK
<1>1. 1 \in Handles /\ Core \in Objects
  BY LoaderConstants DEF Handles
<1>2. names \in [Names -> Handles \cup {NULL}]
  BY <1>1 DEF Init
<1>3. slot \in [Handles -> Objects \cup {NULL}]
  BY <1>1 DEF Init
<1>4. needed \in [Objects -> Seq(Names)] /\ stack \in Seq(Frame)
  BY EmptySeq DEF Init
<1> QED
  BY <1>2, <1>3, <1>4 DEF Init, TypeOK

\* The variables of the loader keep their types, for every catalogue of
\* plugins, every directory listing and every size of the pool.
THEOREM TypeCorrect == Spec => []TypeOK
BY InitType, NextType, PTL DEF Spec

-----------------------------------------------------------------------------
(* The inductive invariant *)

\* What the phases of main() have done, and not done yet.
Phases ==
    /\ phase = "register" =>
         loaded = {} /\ stack = <<>> /\ \A p \in Objects : needed[p] = <<>>
    /\ phase # "register" => unread = {}
    /\ phase \in {"run", "gone"} => stack = <<>>
    /\ phase # "load" => ret = "none"

\* Only what has a dl, or is built in, is loaded.
Pool ==
    /\ Core \notin mapped
    /\ mapped \cap unread = {}
    /\ loaded \subseteq mapped \cup {Core}

\* The loader still owes p a deload_plugin.
Present(p) ==
    p \in mapped \cup loaded \/ (p = Core /\ phase \in {"register", "load", "run"})

\* Each plugin that is there is the one its name resolves to.
NamesUnique ==
    phase # "gone" => \A p \in Objects : Present(p) => get(Info[p].name) = p

\* During registration a member of a group has its slot.
MembersHaveSlots ==
    phase = "register" =>
        \A n \in Names : get_group(n) => \A h \in Range(groups[n]) : slot[h] # NULL

\* Nobody depends on a plugin that may still be loaded, and those who
\* depend on one rank above it.
NeededOnceLoaded(rank) ==
    \A p \in Objects :
        /\ needed[p] # <<>> => p \in loaded \/ ~Usable(p)
        /\ \A n \in Range(needed[p]) : rank[Info[p].name] < rank[n]

\* An active load_plugin.
LoadFrame(f) ==
    /\ f.pc \in {"requires", "after", "init"}
    /\ Usable(f.plugin)
    /\ f.plugin \in loaded <=> f.pc = "init"
    /\ needed[f.plugin] = <<>>
    /\ f.g > 0 => f.pc # "init" /\ f.i <= Len(array(f)) /\ IsGroup(f)

\* load_plugin waits in load_dep for the call above it.
Waits(f, d) == f.pc # "init" /\ f.dep = d /\ MayLoad(f.plugin, d)

LoadStack(rank) ==
    phase = "load" =>
        /\ \A f \in Range(stack) : LoadFrame(f)
        /\ \A i \in 1..(Len(stack) - 1) : Waits(stack[i], stack[i + 1].plugin)
        /\ \A i, j \in 1..Len(stack) :
             i < j => rank[Info[stack[j].plugin].name] < rank[Info[stack[i].plugin].name]
        /\ stack # <<>> => cursor \in Handles /\ slot[cursor] = stack[1].plugin

\* What a call that returned says of its plugin.
Answer(d) == IF ret = "ok" THEN d \in loaded ELSE ~Usable(d)

Returned ==
    ret # "none" =>
        IF stack = <<>> THEN cursor \in Handles /\ slot[cursor] \in Objects /\ Answer(slot[cursor])
                        ELSE Top.dep \in Objects /\ Waits(Top, Top.dep) /\ Answer(Top.dep)

\* An active deload_plugin: the dependents it is through with are gone.
RemoveFrame(f) ==
    /\ f.pc = "needed"
    /\ Removable(f.plugin)
    /\ \A j \in 1..Len(needed[f.plugin]) : j < f.i => get(needed[f.plugin][j]) \notin loaded

RemoveStack(rank) ==
    phase = "remove" =>
        /\ \A f \in Range(stack) : RemoveFrame(f)
        /\ \A i, j \in 1..Len(stack) :
             i < j => rank[Info[stack[i].plugin].name] < rank[Info[stack[j].plugin].name]

\* plugin_remove_all is through with the slots before cursor.
Removed ==
    /\ phase = "remove" => \A h \in Handles : h < cursor => ~Removable(slot[h])
    /\ phase = "gone" => mapped = {} /\ loaded = {}

Bookkeeping(rank) ==
    /\ Phases /\ Pool
    /\ NamesResolve /\ NamesUnique
    /\ NeededOnceLoaded(rank)
    /\ LoadStack(rank) /\ Returned
    /\ RemoveStack(rank) /\ Removed

LoaderInv(rank) == TypeOK /\ GroupsResolve /\ MembersHaveSlots /\ Bookkeeping(rank)

-----------------------------------------------------------------------------
(* Registration: the group table *)

\* What is left of a group when a handle that it has once is taken out.
LEMMA RemovedMembers ==
    ASSUME NEW s \in Seq(Handles), NEW h \in Handles,
           \A i, j \in 1..Len(s) : s[i] = h /\ s[j] = h => i = j
    PROVE  Range(remove_from_group(s, h)) = Range(s) \ {h}
<1>1. CASE h \in Range(s)
  <2> DEFINE i == CHOOSE i \in DOMAIN s : s[i] = h
             a == SubSeq(s, 1, i - 1)
             b == SubSeq(s, i + 1, Len(s))
  <2>1. Len(s) \in Nat /\ DOMAIN s = 1..Len(s) /\ \A j \in 1..Len(s) : s[j] \in Handles
    BY LenProperties, ElementOfSeq
  <2>2. \E j \in DOMAIN s : s[j] = h
    BY <1>1 DEF Range
  <2>3. i \in 1..Len(s) /\ s[i] = h
    BY <2>1, <2>2
  <2>4. /\ a \in Seq(Handles) /\ b \in Seq(Handles)
        /\ Len(a) = i - 1 /\ Len(b) = Len(s) - i
        /\ \A j \in 1..Len(a) : a[j] = s[j]
        /\ \A j \in 1..Len(b) : b[j] = s[i + j]
    <3> HIDE DEF i
    <3>1. /\ i - 1 \in Int /\ i + 1 \in Int /\ Len(s) \in Int
          /\ \A j \in 1..(i - 1) : s[j] \in Handles
          /\ \A j \in (i + 1)..Len(s) : s[j] \in Handles
      BY <2>1, <2>3
    <3>2. /\ a \in Seq(Handles)
          /\ Len(a) = IF 1 <= i - 1 THEN i - 1 - 1 + 1 ELSE 0
          /\ \A j \in 1..(i - 1 - 1 + 1) : a[j] = s[1 + j - 1]
      BY <3>1, SubSeqProperties
    <3>3. /\ b \in Seq(Handles)
          /\ Len(b) = IF i + 1 <= Len(s) THEN Len(s) - (i + 1) + 1 ELSE 0
          /\ \A j \in 1..(Len(s) - (i + 1) + 1) : b[j] = s[i + 1 + j - 1]
      BY <3>1, SubSeqProperties
    <3>4. /\ i - 1 - 1 + 1 = i - 1 /\ Len(s) - (i + 1) + 1 = Len(s) - i
          /\ i - 1 \in Nat /\ Len(s) - i \in Nat
          /\ \A j \in 1..(i - 1) : 1 + j - 1 = j
          /\ \A j \in 1..(Len(s) - i) : i + 1 + j - 1 = i + j
      BY <2>1, <2>3
    <3>5. Len(a) = i - 1 /\ \A j \in 1..(i - 1) : a[j] = s[j]
      <4> HIDE DEF a
      <4> QED  BY <3>2, <3>4
    <3>6. Len(b) = Len(s) - i /\ \A j \in 1..(Len(s) - i) : b[j] = s[i + j]
      <4>1. Len(b) = IF i + 1 <= Len(s) THEN Len(s) - i ELSE 0
        <5> HIDE DEF b
        <5> QED  BY <3>3, <3>4
      <4>2. (IF i + 1 <= Len(s) THEN Len(s) - i ELSE 0) = Len(s) - i
        <5>1. i \in Nat /\ Len(s) \in Nat /\ i <= Len(s)
          BY <2>1, <2>3
        <5> QED  BY <5>1
      <4> HIDE DEF b
      <4> QED  BY <3>3, <3>4, <4>1, <4>2
    <3> HIDE DEF a, b
    <3> QED  BY <3>2, <3>3, <3>5, <3>6
  <2>5. ASSUME NEW k \in 1..Len(a \o b)
        PROVE  \E j \in 1..Len(s) : j # i /\ (a \o b)[k] = s[j]
    <3> HIDE DEF i, a, b
    <3>1. /\ Len(a \o b) = Len(a) + Len(b)
          /\ (a \o b)[k] = IF k <= Len(a) THEN a[k] ELSE b[k - Len(a)]
      <4>1. /\ Len(a \o b) = Len(a) + Len(b)
            /\ \A j \in 1..(Len(a) + Len(b)) :
                 (a \o b)[j] = IF j <= Len(a) THEN a[j] ELSE b[j - Len(a)]
        BY <2>4, ConcatProperties
      <4> QED  BY <2>5, <4>1
    <3>2. CASE k <= Len(a)
      <4>1. k \in 1..Len(a) /\ k \in 1..Len(s) /\ k # i
        BY <2>1, <2>3, <2>4, <2>5, <3>1, <3>2
      <4> QED  BY <2>4, <3>1, <3>2, <4>1
    <3>3. CASE ~(k <= Len(a))
      <4>1. /\ k - Len(a) \in 1..Len(b) /\ i + (k - Len(a)) \in 1..Len(s)
            /\ i + (k - Len(a)) # i
        BY <2>1, <2>3, <2>4, <2>5, <3>1, <3>3
      <4> QED  BY <2>4, <3>1, <3>3, <4>1
    <3> QED  BY <3>2, <3>3
  <2>6. a \o b \in Seq(Handles)
    <3> HIDE DEF a, b
    <3> QED  BY <2>4, ConcatProperties
  <2>7. DOMAIN (a \o b) = 1..Len(a \o b)
    <3> HIDE DEF a, b
    <3> QED  BY <2>6, LenProperties
  <2>8. remove_from_group(s, h) = a \o b
    BY <1>1 DEF remove_from_group
  <2>9. Range(a \o b) \subseteq Range(s) \ {h}
    <3> HIDE DEF i, a, b
    <3> QED  BY <2>1, <2>3, <2>5, <2>7 DEF Range
  <2>10. ASSUME NEW j \in 1..Len(s), j # i
         PROVE  \E k \in 1..Len(a \o b) : (a \o b)[k] = s[j]
    <3> HIDE DEF i, a, b
    <3>1. /\ Len(a \o b) = Len(a) + Len(b)
          /\ \A k \in 1..(Len(a) + Len(b)) :
               (a \o b)[k] = IF k <= Len(a) THEN a[k] ELSE b[k - Len(a)]
      BY <2>4, ConcatProperties
    <3>2. CASE j < i
      <4>1. j \in 1..Len(a) /\ j \in 1..(Len(a) + Len(b)) /\ j <= Len(a)
        BY <2>1, <2>3, <2>4, <2>10, <3>2
      <4> QED  BY <2>4, <3>1, <4>1
    <3>3. CASE ~(j < i)
      <4>1. /\ j - 1 \in 1..(Len(a) + Len(b)) /\ ~(j - 1 <= Len(a))
            /\ j - 1 - Len(a) \in 1..Len(b) /\ i + (j - 1 - Len(a)) = j
        BY <2>1, <2>3, <2>4, <2>10, <3>3
      <4>2. (a \o b)[j - 1] = b[j - 1 - Len(a)]
        BY <3>1, <4>1
      <4>3. b[j - 1 - Len(a)] = s[j]
        BY <2>4, <4>1
      <4> QED  BY <3>1, <4>1, <4>2, <4>3
    <3> QED  BY <3>2, <3>3
  <2>11. Range(s) \ {h} \subseteq Range(a \o b)
    <3> HIDE DEF i, a, b
    <3> QED  BY <2>1, <2>3, <2>7, <2>10 DEF Range
  <2> QED  BY <2>8, <2>9, <2>11
<1>2. CASE h \notin Range(s)
  BY <1>2 DEF remove_from_group
<1> QED  BY <1>1, <1>2

\* Appending to a group adds one handle, behind those it has.
LEMMA AppendedMembers ==
    ASSUME NEW s \in Seq(Handles), NEW h \in Handles
    PROVE  /\ Append(s, h) \in Seq(Handles)
           /\ Range(Append(s, h)) = Range(s) \cup {h}
           /\ h \notin Range(s) =>
                \A i, j \in 1..Len(Append(s, h)) :
                   Append(s, h)[i] = h /\ Append(s, h)[j] = h => i = j
<1>1. /\ Append(s, h) \in Seq(Handles)
      /\ Len(Append(s, h)) = Len(s) + 1
      /\ \A i \in 1..Len(s) : Append(s, h)[i] = s[i]
      /\ Append(s, h)[Len(s) + 1] = h
  BY AppendProperties
<1>2. /\ Len(s) \in Nat /\ DOMAIN s = 1..Len(s)
      /\ DOMAIN Append(s, h) = 1..(Len(s) + 1)
  BY <1>1, LenProperties
<1>3. \A i \in 1..(Len(s) + 1) : i = Len(s) + 1 \/ i \in 1..Len(s)
  BY <1>2
<1>4. Len(s) + 1 \in 1..(Len(s) + 1) /\ 1..Len(s) \subseteq 1..(Len(s) + 1)
  BY <1>2
<1> DEFINE t == Append(s, h)
           m == Len(s) + 1
<1>5. Range(t) = Range(s) \cup {h}
  <2> HIDE DEF t, m
  <2> QED  BY <1>1, <1>2, <1>3, <1>4 DEF Range, t, m
<1>6. ASSUME h \notin Range(s), NEW i \in 1..Len(t), t[i] = h PROVE i = m
  BY <1>1, <1>2, <1>3, <1>6 DEF Range
<1> QED  BY <1>1, <1>5, <1>6

\* plugin_register of p under the handle h, past its early returns.
Registers(p, h) ==
    /\ FreeSlot(h)
    /\ IF \E i \in DOMAIN Info[p].groups : AddFails(p, h, i)
       THEN /\ groups' = groups_after_error(p, h)
            /\ names' = [names EXCEPT ![Info[p].name] = NULL]
            /\ UNCHANGED <<slot, mapped>>
       ELSE /\ groups' = add_to_groups(p, h)
            /\ names' = [names EXCEPT ![Info[p].name] = h]
            /\ slot' = [slot EXCEPT ![h] = p]
            /\ mapped' = mapped \cup {p}

\* The slot a registration takes is in no group yet, and a registration that
\* fails takes the slot's handle out of the groups again.
LEMMA RegisterGroups ==
    ASSUME TypeOK, GroupsResolve, MembersHaveSlots, phase = "register",
           NEW p \in Objects, NEW h \in Handles, Registers(p, h),
           NEW n \in Names, groups'[n] # NULL, NEW k \in Range(groups'[n])
    PROVE  slot'[k] # NULL /\ n \in Range(Info[slot'[k]].groups)
<1>1. /\ members(n) \in Seq(Handles)
      /\ Range(members(n)) \subseteq Handles
      /\ \A j \in Range(members(n)) : slot[j] # NULL /\ n \in Range(Info[slot[j]].groups)
      /\ Range(<<>>) = {}
  <2>1. members(n) \in Seq(Handles)
    BY GroupTypes
  <2>2. Range(members(n)) \subseteq Handles
    BY <2>1, LenProperties, ElementOfSeq DEF Range
  <2>3. Range(<<>>) = {}
    BY DEF Range
  <2>4. ASSUME NEW j \in Range(members(n))
        PROVE  slot[j] # NULL /\ n \in Range(Info[slot[j]].groups)
    <3>1. get_group(n) /\ members(n) = groups[n]
      BY <2>3, <2>4 DEF members
    <3> QED  BY <2>4, <3>1 DEF GroupsResolve, MembersHaveSlots
  <2> QED  BY <2>1, <2>2, <2>3, <2>4
<1>2. slot[h] = NULL /\ h \notin Range(members(n))
  BY <1>1 DEF Registers, FreeSlot
<1>3. groups[n] # NULL => Range(groups[n]) = Range(members(n))
  BY DEF members, get_group
<1> DEFINE joined == Append(members(n), h)
           failed == \E i \in DOMAIN Info[p].groups : AddFails(p, h, i)
<1>4. /\ joined \in Seq(Handles) /\ Range(joined) = Range(members(n)) \cup {h}
      /\ \A i, j \in 1..Len(joined) : joined[i] = h /\ joined[j] = h => i = j
  BY <1>1, <1>2, AppendedMembers
<1>5. CASE failed
  <2>1. slot' = slot /\ groups'[n] = groups_after_error(p, h)[n]
    BY <1>5 DEF Registers
  <2>2. Range(remove_from_group(joined, h)) \subseteq Range(members(n))
    <3>1. Range(remove_from_group(joined, h)) \subseteq Range(joined) \ {h}
      <4> HIDE DEF joined
      <4> QED  BY <1>4, RemovedMembers
    <3> QED  BY <1>4, <3>1
  <2>3. remove_from_group(members(n), h) = members(n)
    BY <1>2 DEF remove_from_group
  <2>4. \/ groups'[n] = remove_from_group(joined, h)
        \/ groups'[n] = members(n)
        \/ groups'[n] = groups[n]
    BY <2>1, <2>3 DEF groups_after_error
  <2>5. k \in Range(members(n))
    BY <1>3, <2>2, <2>4
  <2> QED  BY <1>1, <2>1, <2>5
<1>6. CASE ~failed
  <2>1. slot' = [slot EXCEPT ![h] = p] /\ groups'[n] = add_to_groups(p, h)[n]
    BY <1>6 DEF Registers
  <2>2. CASE n \in Range(Info[p].groups)
    <3>1. k \in Range(members(n)) \cup {h}
      BY <1>4, <2>1, <2>2 DEF add_to_groups, belongs_to_pool
    <3>2. CASE k = h
      <4>1. slot'[k] = p
        BY <2>1, <3>2 DEF TypeOK
      <4>2. p # NULL
        BY NullIsFresh
      <4> QED  BY <2>2, <4>1, <4>2
    <3>3. CASE k # h
      <4>1. slot'[k] = slot[k]
        BY <1>1, <2>1, <3>1, <3>3 DEF TypeOK
      <4> QED  BY <1>1, <3>1, <3>3, <4>1
    <3> QED  BY <3>2, <3>3
  <2>3. CASE n \notin Range(Info[p].groups)
    <3>1. groups'[n] = groups[n]
      BY <2>1, <2>3 DEF add_to_groups, belongs_to_pool
    <3>2. k \in Range(members(n)) /\ k # h
      BY <1>2, <1>3, <3>1
    <3>3. slot'[k] = slot[k]
      BY <1>1, <2>1, <3>2 DEF TypeOK
    <3> QED  BY <1>1, <3>2, <3>3
  <2> QED  BY <2>2, <2>3
<1> QED  BY <1>5, <1>6

\* Behind registration the groups are what they are, and slots are only
\* given up.
LEMMA NextGroups ==
    ASSUME TypeOK, [Next]_vars, phase # "register"
    PROVE  /\ groups' = groups
           /\ phase' # "register"
           /\ \A h \in Handles : slot'[h] = slot[h] \/ slot'[h] = NULL
<1> USE DEF pool_tables
<1>1. ASSUME NEW f, Step(f) PROVE UNCHANGED <<groups, slot, phase>>
  BY <1>1 DEF Step
<1>2. ASSUME NEW p, LoadFails(p) PROVE UNCHANGED <<groups, slot, phase>>
  BY <1>2 DEF LoadFails
<1>3. ASSUME NEW f, NEW d, Depend(f, d) PROVE UNCHANGED <<groups, slot, phase>>
  BY <1>3 DEF Depend
<1>4. ASSUME NEW f, ArrayDone(f) PROVE UNCHANGED <<groups, slot, phase>>
  BY <1>4 DEF ArrayDone
<1>5. CASE ResolveDependency
  BY <1>1, <1>2, <1>3, <1>4, <1>5
  DEF ResolveDependency, EnterGroup, SkipMember, MissingDependency, CircularDependency,
      DependOnReady, LoadDependency, DependencyReturned
<1>6. CASE FinishArray \/ InitSucceeds \/ InitFails
  BY <1>2, <1>4, <1>6 DEF FinishArray, InitSucceeds, InitFails
<1>7. CASE LoadNext
  BY <1>7 DEF LoadNext, TypeOK
<1>8. CASE LoadReturned
  BY <1>8 DEF LoadReturned, TypeOK
<1>9. CASE LoadAllDone \/ compositor_terminate \/ UNCHANGED vars
  BY <1>9 DEF LoadAllDone, compositor_terminate, vars
<1>10. CASE RemoveNext \/ DeloadDependent \/ Deload
  BY <1>10 DEF RemoveNext, DeloadDependent, Deload, Removing
<1>11. CASE RemoveAllDone
  BY <1>11 DEF RemoveAllDone
<1>12. ~Register /\ ~RegistrationDone
  BY DEF Register, RegisterRejects, plugin_register, RegistrationDone
<1> QED  BY <1>5, <1>6, <1>7, <1>8, <1>9, <1>10, <1>11, <1>12
         DEF Next, Work, plugin_load_all, plugin_remove_all

LEMMA NextGroupsResolve ==
    ASSUME TypeOK, GroupsResolve, MembersHaveSlots, [Next]_vars
    PROVE  GroupsResolve' /\ MembersHaveSlots'
<1>1. CASE phase # "register"
  <2>1. /\ groups' = groups /\ phase' # "register"
        /\ \A h \in Handles : slot'[h] = slot[h] \/ slot'[h] = NULL
    BY <1>1, NextGroups
  <2>2. \A n \in Names : get_group(n) => Range(groups[n]) \subseteq Handles
    BY LenProperties, ElementOfSeq DEF TypeOK, Range, get_group
  <2> QED  BY <2>1, <2>2 DEF GroupsResolve, MembersHaveSlots, get_group
<1>2. ASSUME NEW p \in Objects, phase = "register", plugin_register(p)
      PROVE  GroupsResolve' /\ MembersHaveSlots'
  <2>1. PICK h \in Handles : Registers(p, h)
    BY <1>2 DEF plugin_register, Registers
  <2>2. ASSUME NEW n \in Names, groups'[n] # NULL, NEW k \in Range(groups'[n])
        PROVE  slot'[k] # NULL /\ n \in Range(Info[slot'[k]].groups)
    BY <1>2, <2>1, <2>2, RegisterGroups
  <2> QED  BY <2>2 DEF GroupsResolve, MembersHaveSlots, get_group
<1>3. CASE phase = "register" /\ ~\E p \in Objects : plugin_register(p)
  <2>1. UNCHANGED <<groups, slot>>
    BY <1>3
    DEF Next, Work, Register, RegisterRejects, RegistrationDone, plugin_load_all,
        LoadNext, LoadReturned, LoadAllDone, ResolveDependency, EnterGroup, SkipMember,
        MissingDependency, CircularDependency, DependOnReady, LoadDependency,
        DependencyReturned, Walking, FinishArray, InitSucceeds, InitFails, Initialising,
        plugin_remove_all, RemoveNext, DeloadDependent, Deload, Removing, RemoveAllDone,
        compositor_terminate, vars, pool_tables
  <2> QED  BY <1>3, <2>1 DEF GroupsResolve, MembersHaveSlots, get_group
<1> QED  BY <1>1, <1>2, <1>3

\* However the slots are taken and given up while plugins are registered,
\* loaded and removed, a handle that a group lists denotes a plugin of that
\* group or nobody (plugin_register, error2, plugin_release).
THEOREM GroupsStayResolved == Spec => []GroupsResolve
<1>1. Init => GroupsResolve /\ MembersHaveSlots
  BY DEF Init, GroupsResolve, MembersHaveSlots, get_group
<1> QED  BY <1>1, TypeCorrect, NextGroupsResolve, PTL DEF Spec

-----------------------------------------------------------------------------
(* The name table *)

\* What a name resolves to is a plugin of that name.
LEMMA Resolves ==
    ASSUME TypeOK, NamesResolve, NEW n \in Names, get(n) # NULL
    PROVE  get(n) \in Objects /\ Info[get(n)].name = n /\ Usable(get(n))
BY DEF NamesResolve, get, get_handle

\* deload_plugin takes p's name out of the table with p, and leaves the
\* other plugins as they are.
LEMMA DeloadNames ==
    ASSUME TypeOK, Pool, NamesResolve, NamesUnique, phase # "gone",
           NEW p \in Objects, Present(p), p = Core => phase = "remove",
           deload(p), UNCHANGED <<phase, unread, slot>>
    PROVE  /\ Pool' /\ NamesResolve' /\ NamesUnique'
           /\ \A n \in Names : get(n)' = IF n = Info[p].name THEN NULL ELSE get(n)
<1>1. \A q \in Objects : Info[q].name \in Names
  BY InfoArrays
<1>2. names' = [n \in Names |-> IF n = Info[p].name THEN NULL ELSE names[n]]
  BY DEF deload, TypeOK
<1>3. mapped' = mapped \ {p} /\ loaded' = loaded \ {p}
  BY DEF deload
<1>4. \A n \in Names : get(n)' = IF n = Info[p].name THEN NULL ELSE get(n)
  BY <1>2 DEF get, get_handle
<1>5. Pool'
  BY <1>3 DEF Pool
<1>6. get(Info[p].name) = p
  BY DEF NamesUnique
<1>7. NamesResolve'
  <2>1. SUFFICES ASSUME NEW n \in Names, names'[n] # NULL
        PROVE  get(n)' \in Objects /\ Info[get(n)'].name = n
               /\ (get(n)' = Core \/ get(n)' \in mapped')
    BY DEF NamesResolve, Usable
  <2>2. n # Info[p].name /\ names[n] # NULL /\ get(n)' = get(n)
    BY <1>2, <1>4, <2>1
  <2>3. get(n) \in Objects /\ Info[get(n)].name = n /\ Usable(get(n))
    BY <2>2 DEF NamesResolve
  <2> QED  BY <1>3, <2>2, <2>3 DEF Usable
<1>8. NamesUnique'
  <2>1. SUFFICES ASSUME NEW q \in Objects, Present(q)' PROVE get(Info[q].name)' = q
    BY DEF NamesUnique
  <2>2. q # p /\ Present(q)
    BY <1>3, <2>1 DEF Present
  <2>3. get(Info[q].name) = q
    BY <2>2 DEF NamesUnique
  <2>4. Info[q].name # Info[p].name
    BY <1>6, <2>2, <2>3
  <2> QED  BY <1>1, <1>4, <2>3, <2>4
<1> QED  BY <1>4, <1>5, <1>7, <1>8

\* plugin_load_all gives up the slot of a plugin that is not mapped: no name
\* leads to it any more.
LEMMA SlotGivenUp ==
    ASSUME TypeOK, NamesResolve, NamesUnique, cursor \in Handles,
           slot[cursor] = NULL \/ ~Usable(slot[cursor]),
           slot' = [slot EXCEPT ![cursor] = NULL],
           UNCHANGED <<phase, names, mapped, loaded>>
    PROVE  /\ NamesResolve' /\ NamesUnique'
           /\ \A n \in Names : get(n)' = get(n)
<1>1. ASSUME NEW n \in Names, names[n] # NULL PROVE names[n] \in Handles /\ names[n] # cursor
  <2>1. get(n) \in Objects /\ Usable(get(n)) /\ get(n) = slot[names[n]]
    BY <1>1 DEF NamesResolve, get, get_handle
  <2>2. names[n] \in Handles
    BY <1>1 DEF TypeOK
  <2> QED  BY <2>1, <2>2, NullIsFresh
<1>2. \A n \in Names : get(n)' = get(n)
  BY <1>1 DEF get, get_handle, TypeOK
<1>3. NamesResolve'
  BY <1>2 DEF NamesResolve, Usable
<1>4. NamesUnique'
  BY <1>2, InfoArrays DEF NamesUnique, Present
<1> QED  BY <1>2, <1>3, <1>4

\* plugin_register refuses a name that is taken.
LEMMA RegisterNames ==
    ASSUME TypeOK, Pool, NamesResolve, NamesUnique, phase = "register",
           NEW p \in unread, NEW h \in Handles, Registers(p, h), ~Rejected(p),
           UNCHANGED <<phase, loaded>>, unread' = unread \ {p}
    PROVE  Pool' /\ NamesResolve' /\ NamesUnique'
<1>1. /\ p \in Objects /\ p # Core /\ p \notin mapped
      /\ Info[p].name \in Names /\ get(Info[p].name) = NULL
  BY InfoArrays DEF TypeOK, Pool, Rejected
<1>2. \A n \in Names : names[n] # NULL =>
         names[n] \in Handles /\ names[n] # h /\ slot[names[n]] # NULL
  BY NullIsFresh DEF Registers, FreeSlot, NamesResolve, TypeOK, get, get_handle
<1>3. names[Info[p].name] = NULL
  BY <1>1, <1>2 DEF get, get_handle
<1>4. ASSUME NEW q \in Objects, Present(q)
      PROVE  Info[q].name \in Names /\ Info[q].name # Info[p].name /\ get(Info[q].name) = q
  BY <1>1, <1>4, InfoArrays, NullIsFresh DEF NamesUnique
<1>5. CASE names' = [names EXCEPT ![Info[p].name] = NULL] /\ UNCHANGED <<slot, mapped>>
  <2>1. names' = names
    BY <1>3, <1>5 DEF TypeOK
  <2>2. \A n \in Names : get(n)' = get(n)
    BY <1>5, <2>1 DEF get, get_handle
  <2>3. NamesResolve'
    BY <1>5, <2>1, <2>2 DEF NamesResolve, Usable
  <2>4. NamesUnique'
    BY <1>4, <1>5, <2>2 DEF NamesUnique, Present
  <2> QED  BY <1>5, <2>3, <2>4 DEF Pool
<1>6. CASE /\ names' = [names EXCEPT ![Info[p].name] = h]
           /\ slot' = [slot EXCEPT ![h] = p]
           /\ mapped' = mapped \cup {p}
  <2>1. get(Info[p].name)' = p /\ names'[Info[p].name] = h
    BY <1>1, <1>6, NullIsFresh DEF get, get_handle, TypeOK
  <2>2. \A n \in Names \ {Info[p].name} : get(n)' = get(n) /\ names'[n] = names[n]
    BY <1>2, <1>6 DEF get, get_handle, TypeOK
  <2>3. NamesResolve'
    <3>1. SUFFICES ASSUME NEW n \in Names, names'[n] # NULL
          PROVE  get(n)' \in Objects /\ Info[get(n)'].name = n
                 /\ (get(n)' = Core \/ get(n)' \in mapped')
      BY DEF NamesResolve, Usable
    <3>2. CASE n = Info[p].name
      BY <1>1, <1>6, <2>1, <3>2
    <3>3. CASE n # Info[p].name
      BY <1>6, <2>2, <3>1, <3>3 DEF NamesResolve, Usable
    <3> QED  BY <3>2, <3>3
  <2>4. NamesUnique'
    <3>1. SUFFICES ASSUME NEW q \in Objects, Present(q)' PROVE get(Info[q].name)' = q
      BY DEF NamesUnique
    <3>2. CASE q = p
      BY <2>1, <3>2
    <3>3. CASE q # p
      <4>1. Present(q)
        BY <1>6, <3>1, <3>3 DEF Present
      <4> QED  BY <1>4, <2>2, <4>1
    <3> QED  BY <3>2, <3>3
  <2> QED  BY <1>1, <1>6, <2>3, <2>4 DEF Pool
<1> QED  BY <1>5, <1>6 DEF Registers

-----------------------------------------------------------------------------
(* The stack of load_plugin *)

\* rank maps each name to a number that goes down along MayLoad.
Ranking(rank) == rank \in [Names -> Nat] /\ Ranks(rank)

\* Appending adds one element.
LEMMA AppendedRange ==
    ASSUME NEW S, NEW s \in Seq(S), NEW x \in S
    PROVE  Range(Append(s, x)) = Range(s) \cup {x}
<1>1. /\ DOMAIN Append(s, x) = 1..(Len(s) + 1) /\ DOMAIN s = 1..Len(s) /\ Len(s) \in Nat
      /\ \A i \in 1..Len(s) : Append(s, x)[i] = s[i]
      /\ Append(s, x)[Len(s) + 1] = x
  BY AppendProperties, LenProperties
<1>2. /\ \A i \in 1..(Len(s) + 1) : i = Len(s) + 1 \/ i \in 1..Len(s)
      /\ \A i \in 1..Len(s) : i \in 1..(Len(s) + 1)
      /\ Len(s) + 1 \in 1..(Len(s) + 1)
  BY <1>1
<1> QED  BY <1>1, <1>2 DEF Range

\* The active calls before and after a call, a return, a step of the top.
LEMMA Frames ==
    ASSUME stack \in Seq(Frame), stack # <<>>
    PROVE  /\ Len(stack) \in Nat \ {0} /\ Len(stack) \in 1..Len(stack)
           /\ Range(stack) = Range(Under) \cup {Top}
           /\ Range(stack) \subseteq Frame
           /\ \A f \in Range(Under) : \E i \in 1..(Len(stack) - 1) : f = stack[i]
           /\ \A f \in Frame : Range(Become(f)) = Range(Under) \cup {f}
           /\ \A f, c \in Frame : Range(Append(Become(f), c)) = Range(Under) \cup {f, c}
           /\ \A c \in Frame : Range(Append(stack, c)) = Range(stack) \cup {c}
<1>1. /\ Len(stack) \in Nat \ {0} /\ Len(stack) \in 1..Len(stack)
      /\ DOMAIN stack = 1..Len(stack)
      /\ \A i \in 1..Len(stack) : stack[i] \in Frame
  BY TopFrame, LenProperties, ElementOfSeq
<1>2. /\ Under \in Seq(Frame) /\ DOMAIN Under = 1..(Len(stack) - 1)
      /\ \A i \in 1..(Len(stack) - 1) : Under[i] = stack[i]
  BY Returns, LenProperties
<1>0. Len(stack) \in Nat \ {0}
  BY <1>1
<1>3. \A i \in 1..Len(stack) : i = Len(stack) \/ i \in 1..(Len(stack) - 1)
  BY <1>0
<1>4. \A i \in 1..(Len(stack) - 1) : i \in 1..Len(stack) /\ i # Len(stack)
  BY <1>0
<1>5. Range(stack) = Range(Under) \cup {Top}
  BY <1>1, <1>2, <1>3, <1>4 DEF Range, Top
<1>6. ASSUME NEW f \in Frame PROVE Range(Become(f)) = Range(Under) \cup {f}
  <2>1. /\ DOMAIN Become(f) = 1..Len(stack)
        /\ \A i \in 1..Len(stack) : Become(f)[i] = IF i = Len(stack) THEN f ELSE stack[i]
    BY Becomes, LenProperties
  <2> QED  BY <1>1, <1>2, <1>3, <1>4, <2>1 DEF Range
<1>7. \A s \in Seq(Frame) : \A c \in Frame : Range(Append(s, c)) = Range(s) \cup {c}
  BY AppendedRange
<1>8. \A f, c \in Frame : Range(Append(Become(f), c)) = Range(Under) \cup {f, c}
  <2>1. \A f \in Frame : Become(f) \in Seq(Frame)
    BY Becomes
  <2> QED  BY <1>6, <1>7, <2>1
<1>9. \A f \in Range(Under) : \E i \in 1..(Len(stack) - 1) : f = stack[i]
  BY <1>2 DEF Range
<1>10. Range(stack) \subseteq Frame
  BY <1>1 DEF Range
<1> QED  BY <1>1, <1>5, <1>6, <1>7, <1>8, <1>9, <1>10

\* The calls below the one on top are for other plugins.
LEMMA OtherPlugins ==
    ASSUME TypeOK, NEW rank, Ranking(rank), LoadStack(rank), phase = "load",
           stack # <<>>, NEW f \in Range(Under)
    PROVE  /\ f \in Frame /\ f.plugin # Top.plugin
           /\ LoadFrame(f) /\ f.pc # "init"
<1>1. PICK i \in 1..(Len(stack) - 1) : f = stack[i]
  BY Frames DEF TypeOK
<1>2. i \in 1..Len(stack) /\ Len(stack) \in 1..Len(stack) /\ i < Len(stack)
  BY Frames DEF TypeOK
<1>3. f \in Frame /\ Top \in Frame /\ f \in Range(stack)
  BY Frames DEF TypeOK
<1>4. f.plugin \in Objects /\ Top.plugin \in Objects
  BY <1>3 DEF Frame
<1>5. rank[Info[Top.plugin].name] < rank[Info[f.plugin].name]
  BY <1>1, <1>2 DEF LoadStack, Top
<1>6. rank[Info[Top.plugin].name] \in Nat
  BY <1>4, InfoArrays DEF Ranking
<1>7. f.plugin # Top.plugin
  BY <1>5, <1>6
<1> QED  BY <1>1, <1>3, <1>7 DEF LoadStack, Waits

\* The call on top.
LEMMA TopCall ==
    ASSUME TypeOK, NEW rank, LoadStack(rank), phase = "load", stack # <<>>
    PROVE  /\ Top \in Frame /\ Top.plugin \in Objects
           /\ LoadFrame(Top)
           /\ cursor \in Handles /\ slot[cursor] = stack[1].plugin
<1>1. Top \in Frame /\ Top.plugin \in Objects
  BY TopFrame DEF TypeOK
<1>2. LoadFrame(Top)
  BY Frames DEF TypeOK, LoadStack
<1> QED  BY <1>1, <1>2 DEF LoadStack

\* A frame is not disturbed by what happens to other plugins.
LEMMA FrameKept ==
    ASSUME NEW f \in Frame, LoadFrame(f),
           groups' = groups, needed'[f.plugin] = needed[f.plugin],
           f.plugin \in mapped => f.plugin \in mapped',
           f.plugin \in loaded' <=> f.plugin \in loaded
    PROVE  LoadFrame(f)'
BY DEF LoadFrame, Usable, IsGroup, get_group, entry, array

\* The call on top moves on.
LEMMA LoadBecome ==
    ASSUME TypeOK, NEW rank, LoadStack(rank), phase = "load", stack # <<>>,
           NEW f \in Frame, f.plugin = Top.plugin, stack' = Become(f),
           UNCHANGED <<phase, slot, cursor>>,
           LoadFrame(f)', \A b \in Range(Under) : LoadFrame(b)'
    PROVE  LoadStack(rank)'
<1>1. /\ Len(stack) \in Nat \ {0} /\ Len(stack') = Len(stack)
      /\ \A i \in 1..Len(stack) : stack'[i] = IF i = Len(stack) THEN f ELSE stack[i]
  BY Becomes, TopFrame DEF TypeOK
<1>2. \A i \in 1..Len(stack) : stack'[i].plugin = stack[i].plugin
  BY <1>1 DEF Top
<1>3. \A i \in 1..(Len(stack) - 1) :
        i \in 1..Len(stack) /\ i # Len(stack) /\ i + 1 \in 1..Len(stack)
  BY <1>1
<1>4. \A b \in Range(stack') : LoadFrame(b)'
  BY Frames DEF TypeOK
<1>5. \A i \in 1..(Len(stack) - 1) : Waits(stack'[i], stack'[i + 1].plugin)
  BY <1>1, <1>2, <1>3 DEF LoadStack
<1>6. \A i, j \in 1..Len(stack) :
        i < j => rank[Info[stack'[j].plugin].name] < rank[Info[stack'[i].plugin].name]
  BY <1>2 DEF LoadStack
<1>7. slot'[cursor'] = stack'[1].plugin /\ cursor' \in Handles
  BY <1>1, <1>2 DEF LoadStack
<1> QED  BY <1>1, <1>4, <1>5, <1>6, <1>7 DEF LoadStack, Waits, MayLoad

\* The call on top returns.
LEMMA LoadUnder ==
    ASSUME TypeOK, NEW rank, LoadStack(rank), phase = "load", stack # <<>>,
           stack' = Under, UNCHANGED <<phase, slot, cursor>>,
           \A b \in Range(Under) : LoadFrame(b)'
    PROVE  LoadStack(rank)'
<1>1. /\ Len(stack) \in Nat \ {0} /\ Len(stack') = Len(stack) - 1
      /\ \A i \in 1..(Len(stack) - 1) : stack'[i] = stack[i]
  BY Returns, TopFrame DEF TypeOK
<1>2. /\ \A i \in 1..Len(stack') : i \in 1..Len(stack) /\ stack'[i] = stack[i]
      /\ \A i \in 1..(Len(stack') - 1) :
           i \in 1..(Len(stack) - 1) /\ i \in 1..Len(stack') /\ i + 1 \in 1..Len(stack')
  BY <1>1
<1>3. \A i \in 1..(Len(stack') - 1) : Waits(stack'[i], stack'[i + 1].plugin)
  BY <1>2 DEF LoadStack
<1>4. \A i, j \in 1..Len(stack') :
        i < j => rank[Info[stack'[j].plugin].name] < rank[Info[stack'[i].plugin].name]
  BY <1>2 DEF LoadStack
<1>5. ASSUME stack' # <<>> PROVE slot'[cursor'] = stack'[1].plugin /\ cursor' \in Handles
  <2>1. stack' \in Seq(Frame)
    BY Returns DEF TypeOK
  <2>2. Len(stack') # 0
    BY <1>5, <2>1, EmptySeq
  <2>3. 1 \in 1..(Len(stack) - 1)
    BY <1>1, <2>2
  <2> QED  BY <1>1, <2>3 DEF LoadStack
<1> QED  BY <1>3, <1>4, <1>5 DEF LoadStack, Waits, MayLoad

\* load_dep calls load_plugin(d).
LEMMA LoadPush ==
    ASSUME TypeOK, NEW rank, Ranking(rank), LoadStack(rank), phase = "load", stack # <<>>,
           NEW d \in Objects, MayLoad(Top.plugin, d), Top.pc # "init",
           stack' = Append(Become([Top EXCEPT !.dep = d]), Call(d, "requires")),
           UNCHANGED <<phase, slot, groups, mapped, loaded, needed, cursor>>,
           Usable(d), d \notin loaded, needed[d] = <<>>
    PROVE  LoadStack(rank)'
<1>1. /\ Len(stack) \in Nat \ {0} /\ Top \in Frame /\ Top.plugin \in Objects /\ LoadFrame(Top)
      /\ Len(stack) \in 1..Len(stack) /\ cursor \in Handles /\ slot[cursor] = stack[1].plugin
  BY TopCall, TopFrame DEF TypeOK
<1>2. PICK f \in Frame, c \in Frame :
        /\ f = [Top EXCEPT !.dep = d] /\ c = Call(d, "requires")
        /\ f.plugin = Top.plugin /\ f.dep = d /\ f.pc = Top.pc
        /\ f.i = Top.i /\ f.g = Top.g
        /\ c.plugin = d /\ c.pc = "requires" /\ c.g = 0
  <2> DEFINE f == [Top EXCEPT !.dep = d]
             c == Call(d, "requires")
  <2>1. f \in Frame /\ c \in Frame
    BY <1>1, NewFrames
  <2>2. /\ f.plugin = Top.plugin /\ f.dep = d /\ f.pc = Top.pc /\ f.i = Top.i /\ f.g = Top.g
    BY <1>1 DEF Frame
  <2>3. c.plugin = d /\ c.pc = "requires" /\ c.g = 0
    BY DEF Call
  <2> HIDE DEF f, c
  <2>4. \E ff \in Frame, cc \in Frame : ff = f /\ cc = c
    BY <2>1
  <2> QED  BY <2>2, <2>3, <2>4 DEF f, c
<1>3. /\ Become(f) \in Seq(Frame) /\ Len(Become(f)) = Len(stack)
      /\ \A i \in 1..Len(stack) : Become(f)[i] = IF i = Len(stack) THEN f ELSE stack[i]
  BY Becomes DEF TypeOK
<1>4. /\ Len(stack') = Len(stack) + 1
      /\ \A i \in 1..Len(stack) : stack'[i] = IF i = Len(stack) THEN f ELSE stack[i]
      /\ stack'[Len(stack) + 1] = c
  <2>1. stack' = Append(Become(f), c)
    BY <1>2
  <2>2. /\ Len(Append(Become(f), c)) = Len(stack) + 1
        /\ \A i \in 1..Len(stack) : Append(Become(f), c)[i] = Become(f)[i]
        /\ Append(Become(f), c)[Len(stack) + 1] = c
    BY <1>3, Pushes
  <2> QED  BY <1>3, <2>1, <2>2
<1>5. \A i \in 1..Len(stack) : stack'[i].plugin = stack[i].plugin /\ stack'[i].pc = stack[i].pc
  BY <1>2, <1>4 DEF Top
<1>6. LoadFrame(c)'
  BY <1>2 DEF LoadFrame, Usable
<1>7. LoadFrame(f)'
  <2>1. LoadFrame(f)
    BY <1>1, <1>2 DEF LoadFrame, IsGroup, get_group, entry, array
  <2> QED  BY <2>1, FrameKept
<1>8. ASSUME NEW b \in Range(stack') PROVE LoadFrame(b)'
  <2>1. b \in Range(Under) \cup {f, c}
    BY <1>2, Frames DEF TypeOK
  <2>2. ASSUME b \in Range(Under) PROVE LoadFrame(b)'
    BY <2>2, OtherPlugins, FrameKept
  <2> QED  BY <1>6, <1>7, <2>1, <2>2
<1>9. ASSUME NEW i \in 1..Len(stack) PROVE Waits(stack'[i], stack'[i + 1].plugin)
  <2>1. CASE i = Len(stack)
    BY <1>2, <1>4, <2>1 DEF Waits
  <2>2. CASE i # Len(stack)
    <3>1. i \in 1..(Len(stack) - 1) /\ i + 1 \in 1..Len(stack)
      BY <1>1, <2>2
    <3>2. Waits(stack[i], stack[i + 1].plugin) /\ stack'[i] = stack[i]
      BY <1>4, <2>2, <3>1 DEF LoadStack
    <3> QED  BY <1>5, <3>1, <3>2
  <2> QED  BY <2>1, <2>2
<1>10. ASSUME NEW i \in 1..(Len(stack) + 1), NEW j \in 1..(Len(stack) + 1), i < j
       PROVE  rank[Info[stack'[j].plugin].name] < rank[Info[stack'[i].plugin].name]
  <2>1. CASE j \in 1..Len(stack)
    <3>1. i \in 1..Len(stack)
      BY <1>1, <1>10, <2>1
    <3> QED  BY <1>5, <1>10, <2>1, <3>1 DEF LoadStack
  <2>2. CASE j = Len(stack) + 1
    <3>0. i \in 1..Len(stack)
      BY <1>1, <1>10, <2>2
    <3>1. stack'[j].plugin = d /\ stack'[i].plugin = stack[i].plugin
      BY <1>2, <1>4, <1>5, <2>2, <3>0
    <3>2. rank[Info[d].name] < rank[Info[Top.plugin].name]
      BY <1>1 DEF Ranking, Ranks
    <3>3. rank[Info[d].name] < rank[Info[stack[i].plugin].name]
      <4>1. CASE i = Len(stack)
        BY <3>2, <4>1 DEF Top
      <4>2. CASE i # Len(stack)
        <5>1. i < Len(stack)
          BY <1>1, <3>0, <4>2
        <5>2. rank[Info[Top.plugin].name] < rank[Info[stack[i].plugin].name]
          BY <1>1, <3>0, <5>1 DEF LoadStack, Top
        <5>3. stack[i].plugin \in Objects
          <6>1. stack[i] \in Frame
            BY <3>0, ElementOfSeq DEF TypeOK
          <6> QED  BY <6>1 DEF Frame
        <5>4. /\ rank[Info[d].name] \in Nat /\ rank[Info[Top.plugin].name] \in Nat
              /\ rank[Info[stack[i].plugin].name] \in Nat
          BY <1>1, <5>3, InfoArrays DEF Ranking
        <5> QED  BY <3>2, <5>2, <5>4
      <4> QED  BY <4>1, <4>2
    <3> QED  BY <3>1, <3>3
  <2>3. j \in 1..Len(stack) \/ j = Len(stack) + 1
    BY <1>1
  <2> QED  BY <2>1, <2>2, <2>3
<1>11. slot'[cursor'] = stack'[1].plugin /\ cursor' \in Handles
  <2>1. 1 \in 1..Len(stack)
    BY <1>1
  <2> QED  BY <1>1, <1>5, <2>1
<1>12. Len(stack') = Len(stack) + 1 /\ Len(stack') - 1 = Len(stack)
  BY <1>1, <1>4
<1> QED  BY <1>8, <1>9, <1>10, <1>11, <1>12 DEF LoadStack, Waits, MayLoad

-----------------------------------------------------------------------------
(* Steps of load_plugin *)

\* The tables of names and slots stay: so does what they say.
LEMMA NamesKept ==
    ASSUME NamesResolve, NamesUnique, phase' = phase,
           UNCHANGED <<slot, names, mapped>>,
           \A p \in Objects : Present(p)' => Present(p)
    PROVE  /\ NamesResolve' /\ NamesUnique'
           /\ \A n \in Names : get(n)' = get(n)
<1>1. \A n : get(n)' = get(n)
  BY DEF get, get_handle
<1>2. NamesResolve'
  BY <1>1 DEF NamesResolve, Usable
<1>3. NamesUnique'
  BY <1>1 DEF NamesUnique
<1> QED  BY <1>1, <1>2, <1>3

\* What is left to show of a step inside plugin_load_all.
LEMMA WithinLoad ==
    ASSUME NEW rank, phase = "load", UNCHANGED <<phase, unread>>, Phases,
           Pool', NamesResolve', NamesUnique', NeededOnceLoaded(rank)',
           LoadStack(rank)', Returned'
    PROVE  Bookkeeping(rank)'
BY DEF Phases, Bookkeeping, RemoveStack, Removed

\* The built-in plugin loads nothing.
LEMMA CoreLoadsNothing ==
    /\ Range(Info[Core].requires) = {} /\ Range(Info[Core].after) = {}
    /\ Len(Info[Core].requires) = 0 /\ Len(Info[Core].after) = 0
    /\ \A d : ~MayLoad(Core, d)
<1>1. Range(<<>>) = {} /\ Len(<<>>) = 0
  BY DEF Range
<1> QED  BY <1>1, LoaderConstants DEF MayLoad

\* What load_dep is handed ranks below the plugin it works for.
LEMMA CandidateMayLoad ==
    ASSUME NEW rank, LoaderInv(rank), Walking, NEW d \in Objects, Candidate(Top, d)
    PROVE  MayLoad(Top.plugin, d)
<1>1. /\ Top \in Frame /\ Top.plugin \in Objects /\ LoadFrame(Top) /\ Top.i \in Nat \ {0}
  BY TopCall DEF LoaderInv, Bookkeeping, Walking, Frame
<1>2. /\ Info[Top.plugin].requires \in Seq(Names) /\ Info[Top.plugin].after \in Seq(Names)
  BY <1>1, InfoArrays
<1>3. ASSUME Top.i <= Len(array(Top))
      PROVE  /\ entry(Top) \in Names
             /\ entry(Top) \in Range(Info[Top.plugin].requires)
                                 \cup Range(Info[Top.plugin].after)
  <2>1. array(Top) \in Seq(Names)
    BY <1>2 DEF array
  <2>2. Top.i \in 1..Len(array(Top)) /\ DOMAIN array(Top) = 1..Len(array(Top))
    BY <1>1, <1>3, <2>1, LenProperties
  <2>3. entry(Top) \in Range(array(Top)) /\ entry(Top) \in Names
    BY <2>1, <2>2, ElementOfSeq DEF entry, Range
  <2> QED  BY <2>3 DEF array
<1>4. CASE /\ InArray(Top) /\ ~IsGroup(Top)
           /\ d = get(entry(Top)) /\ ~Circular(Top.plugin, d)
  <2>1. entry(Top) \in Names /\ d # NULL
    BY <1>3, <1>4, NullIsFresh DEF InArray
  <2>2. Info[d].name = entry(Top)
    BY <1>4, <2>1, Resolves DEF LoaderInv, Bookkeeping
  <2> QED  BY <1>3, <1>4, <2>2 DEF InArray, Circular, belongs_to_pool, MayLoad
<1>5. CASE InGroup(Top) /\ d = slot[groups[entry(Top)][Top.g]]
  <2>1. /\ Top.g > 0 /\ Top.i <= Len(array(Top)) /\ IsGroup(Top)
    BY <1>1, <1>5 DEF LoadFrame, InGroup
  <2>2. entry(Top) \in Names /\ get_group(entry(Top))
    BY <1>3, <2>1 DEF IsGroup
  <2>3. groups[entry(Top)] \in Seq(Handles)
    BY <2>2 DEF LoaderInv, TypeOK, get_group
  <2>4. Top.g \in 1..Len(groups[entry(Top)])
    BY <1>1, <1>5, <2>1, <2>3, LenProperties DEF InGroup, Frame
  <2>5. groups[entry(Top)][Top.g] \in Range(groups[entry(Top)])
    BY <2>3, <2>4, LenProperties DEF Range
  <2>6. entry(Top) \in Range(Info[d].groups)
    BY <1>5, <2>2, <2>5, NullIsFresh DEF LoaderInv, GroupsResolve
  <2> QED  BY <1>3, <2>1, <2>6 DEF IsGroup, MayLoad
<1> QED  BY <1>4, <1>5 DEF Candidate

\* The call below the one that returns waits for its plugin.
LEMMA Awaited ==
    ASSUME TypeOK, NEW rank, LoadStack(rank), phase = "load", stack # <<>>,
           stack' = Under, UNCHANGED <<slot, cursor>>
    PROVE  IF stack' = <<>> THEN cursor' \in Handles /\ slot'[cursor'] = Top.plugin
                            ELSE Waits(stack'[Len(stack')], Top.plugin)
<1>1. /\ Len(stack) \in Nat \ {0} /\ Len(stack') = Len(stack) - 1 /\ stack' \in Seq(Frame)
      /\ \A i \in 1..(Len(stack) - 1) : stack'[i] = stack[i]
  BY Returns, TopFrame DEF TypeOK
<1>2. CASE stack' = <<>>
  <2>1. Len(stack) = 1
    BY <1>1, <1>2, EmptySeq
  <2> QED  BY <1>2, <2>1, TopCall DEF Top
<1>3. CASE stack' # <<>>
  <2>1. Len(stack') # 0
    BY <1>1, <1>3, EmptySeq
  <2>2. /\ Len(stack) - 1 \in 1..(Len(stack) - 1) /\ Len(stack) - 1 + 1 = Len(stack)
    BY <1>1, <2>1
  <2>3. Waits(stack[Len(stack) - 1], stack[Len(stack)].plugin)
    BY <2>2 DEF LoadStack
  <2> QED  BY <1>1, <1>3, <2>2, <2>3 DEF Top
<1> QED  BY <1>2, <1>3

LEMMA StepInv ==
    ASSUME NEW rank, Ranking(rank), LoaderInv(rank), phase = "load", stack # <<>>, ret = "none",
           NEW f \in Frame, f.plugin = Top.plugin, LoadFrame(f), Step(f)
    PROVE  Bookkeeping(rank)'
<1>1. /\ stack' = Become(f) /\ f.plugin \in Objects
      /\ UNCHANGED <<phase, unread, slot, names, groups, mapped, loaded, needed, ret, cursor>>
  BY DEF Step, pool_tables, Frame
<1> USE DEF LoaderInv, Bookkeeping
<1>2. LoadFrame(f)' /\ \A b \in Range(Under) : LoadFrame(b)'
  BY <1>1, FrameKept, OtherPlugins
<1>3. LoadStack(rank)'
  BY <1>1, <1>2, LoadBecome
<1>4. NamesResolve' /\ NamesUnique'
  BY <1>1, NamesKept DEF Present
<1>5. Pool' /\ NeededOnceLoaded(rank)' /\ Returned'
  BY <1>1 DEF Pool, NeededOnceLoaded, Usable, Returned
<1> QED  BY <1>1, <1>3, <1>4, <1>5, WithinLoad

LEMMA ArrayDoneInv ==
    ASSUME NEW rank, Ranking(rank), LoaderInv(rank), phase = "load", stack # <<>>, ret = "none",
           Top.pc \in {"requires", "after"}, ArrayDone(Top)
    PROVE  Bookkeeping(rank)'
<1> USE DEF LoaderInv, Bookkeeping
<1>1. /\ Top \in Frame /\ Top.plugin \in Objects /\ LoadFrame(Top)
      /\ UNCHANGED <<phase, unread, slot, names, groups, mapped, needed, ret, cursor>>
      /\ loaded' = loaded \/ loaded' = loaded \cup {Top.plugin}
  BY TopCall DEF ArrayDone, pool_tables
<1>2. PICK f \in Frame :
        /\ stack' = Become(f) /\ f.plugin = Top.plugin /\ f.g = 0
        /\ f.pc \in {"after", "init"}
        /\ loaded' = IF f.pc = "init" THEN loaded \cup {f.plugin} ELSE loaded
  <2>1. \E pc \in {"after", "init"} :
          /\ stack' = Become(Call(Top.plugin, pc))
          /\ loaded' = IF pc = "init" THEN loaded \cup {Top.plugin} ELSE loaded
    BY DEF ArrayDone
  <2>2. \A pc \in {"after", "init"} :
          /\ Call(Top.plugin, pc) \in Frame
          /\ Call(Top.plugin, pc).plugin = Top.plugin
          /\ Call(Top.plugin, pc).pc = pc /\ Call(Top.plugin, pc).g = 0
    BY <1>1, NewFrames DEF Call
  <2> QED  BY <2>1, <2>2
<1>3. LoadFrame(f)'
  BY <1>1, <1>2 DEF LoadFrame, Usable
<1>4. \A b \in Range(Under) : LoadFrame(b)'
  BY <1>1, <1>2, OtherPlugins, FrameKept
<1>5. LoadStack(rank)'
  BY <1>1, <1>2, <1>3, <1>4, LoadBecome
<1>6. Top.plugin = Core \/ Top.plugin \in mapped
  BY <1>1 DEF LoadFrame, Usable
<1>7. NamesResolve' /\ NamesUnique'
  BY <1>1, <1>6, NamesKept DEF Present
<1>8. Pool' /\ NeededOnceLoaded(rank)' /\ Returned'
  BY <1>1, <1>6 DEF Pool, NeededOnceLoaded, Usable, Returned
<1> QED  BY <1>1, <1>5, <1>7, <1>8, WithinLoad

\* Nobody depends on the plugin that fails, so it is deloaded: the mapping,
\* the name and the answer to the waiting call agree.
LEMMA LoadFailsInv ==
    ASSUME NEW rank, Ranking(rank), LoaderInv(rank), phase = "load", stack # <<>>,
           Top.plugin # Core, LoadFails(Top.plugin)
    PROVE  Bookkeeping(rank)'
<1> DEFINE p == Top.plugin
<1> USE DEF LoaderInv, Bookkeeping
<1>1. Top \in Frame /\ p \in Objects /\ LoadFrame(Top)
  BY TopCall
<1>2. p \in mapped /\ needed[p] = <<>>
  BY <1>1 DEF LoadFrame, Usable
<1>3. ~NeededBy(p)
  BY <1>2 DEF NeededBy, Range
<1>4. /\ deload(p) /\ stack' = Under /\ ret' = "fail"
      /\ UNCHANGED <<phase, unread, slot, groups, cursor>>
  BY <1>2, <1>3 DEF LoadFails
<1>5. /\ needed' = [needed EXCEPT ![p] = <<>>] /\ needed' = needed
      /\ mapped' = mapped \ {p} /\ loaded' = loaded \ {p}
  BY <1>2, <1>4 DEF deload, TypeOK
<1>6. Pool' /\ NamesResolve' /\ NamesUnique'
  BY <1>1, <1>2, <1>4, DeloadNames DEF Present
<1>7. LoadStack(rank)'
  <2>1. \A b \in Range(Under) : LoadFrame(b)'
    BY <1>4, <1>5, OtherPlugins, FrameKept
  <2> QED  BY <1>4, <2>1, LoadUnder
<1>8. NeededOnceLoaded(rank)'
  BY <1>2, <1>5 DEF NeededOnceLoaded, Usable
<1>9. Returned'
  <2>1. IF stack' = <<>> THEN cursor' \in Handles /\ slot'[cursor'] = p
                         ELSE Waits(stack'[Len(stack')], p)
    BY <1>4, Awaited
  <2>2. p \notin mapped' /\ p # Core
    BY <1>5
  <2>3. stack' # <<>> => stack'[Len(stack')].dep = p
    BY <2>1 DEF Waits
  <2> HIDE DEF p
  <2> QED  BY <1>1, <1>4, <2>1, <2>2, <2>3 DEF Returned, Answer, Usable, Top, Waits, MayLoad
<1> QED  BY <1>4, <1>6, <1>7, <1>8, <1>9, WithinLoad

LEMMA DependInv ==
    ASSUME NEW rank, Ranking(rank), LoaderInv(rank), phase = "load", stack # <<>>,
           NEW d \in Objects, MayLoad(Top.plugin, d), Top.pc # "init",
           d \in loaded \/ ~Usable(d), Depend(Top, d)
    PROVE  Bookkeeping(rank)'
<1> USE DEF LoaderInv, Bookkeeping
<1>1. /\ Top \in Frame /\ Top.plugin \in Objects /\ LoadFrame(Top)
      /\ ret' = "none" /\ stack' = Become(Advance(Top))
      /\ needed' = [needed EXCEPT ![d] = Append(@, Info[Top.plugin].name)]
      /\ UNCHANGED <<phase, unread, slot, names, groups, mapped, loaded, cursor>>
  BY TopCall DEF Depend, pool_tables
<1>2. /\ Info[Top.plugin].name \in Names
      /\ needed[d] \in Seq(Names)
      /\ needed'[d] = Append(needed[d], Info[Top.plugin].name)
      /\ \A q \in Objects : q # d => needed'[q] = needed[q]
  BY <1>1, InfoArrays DEF TypeOK
<1>3. d # Top.plugin
  BY <1>1 DEF LoadFrame
<1>4. PICK f \in Frame : /\ f = Advance(Top) /\ f.plugin = Top.plugin /\ f.pc = Top.pc
                         /\ f.g > 0 => Top.g > 0 /\ f.i = Top.i
  <2>1. Advance(Top) \in Frame
    BY <1>1, NewFrames
  <2>2. /\ Advance(Top).plugin = Top.plugin /\ Advance(Top).pc = Top.pc
        /\ Advance(Top).g > 0 => Top.g > 0 /\ Advance(Top).i = Top.i
    BY <1>1 DEF Advance, Frame
  <2> QED  BY <2>1, <2>2
<1>5. LoadFrame(f)'
  <2>1. LoadFrame(f)
    BY <1>1, <1>4 DEF LoadFrame, IsGroup, entry, array
  <2> QED  BY <1>1, <1>2, <1>3, <1>4, <2>1, FrameKept DEF Frame
<1>6. ASSUME NEW b \in Range(Under) PROVE LoadFrame(b)'
  <2>1. b \in Frame /\ LoadFrame(b) /\ b.pc # "init"
    BY OtherPlugins
  <2>2. b.plugin # d /\ b.plugin \in Objects
    BY <2>1 DEF LoadFrame, Frame
  <2> QED  BY <1>1, <1>2, <2>1, <2>2, FrameKept
<1>7. LoadStack(rank)'
  BY <1>1, <1>4, <1>5, <1>6, LoadBecome
<1>8. NamesResolve' /\ NamesUnique'
  BY <1>1, NamesKept DEF Present
<1>9. NeededOnceLoaded(rank)'
  <2>1. rank[Info[d].name] < rank[Info[Top.plugin].name]
    BY <1>1 DEF Ranking, Ranks
  <2>2. Range(needed'[d]) = Range(needed[d]) \cup {Info[Top.plugin].name}
    BY <1>2, AppendedRange
  <2>3. \A n \in Range(needed'[d]) : rank[Info[d].name] < rank[n]
    BY <2>1, <2>2 DEF NeededOnceLoaded
  <2> QED  BY <1>1, <1>2, <2>3 DEF NeededOnceLoaded, Usable
<1>10. Pool' /\ Returned'
  BY <1>1 DEF Pool, Returned
<1> QED  BY <1>1, <1>7, <1>8, <1>9, <1>10, WithinLoad

LEMMA LoadDependencyInv ==
    ASSUME NEW rank, Ranking(rank), LoaderInv(rank), NEW d \in Objects, LoadDependency(d)
    PROVE  Bookkeeping(rank)'
<1> USE DEF LoaderInv, Bookkeeping
<1>1. /\ phase = "load" /\ stack # <<>> /\ Top.pc # "init" /\ ret = "none"
      /\ d \notin loaded /\ Usable(d)
      /\ stack' = Append(Become([Top EXCEPT !.dep = d]), Call(d, "requires"))
      /\ UNCHANGED <<phase, unread, slot, names, groups, mapped, loaded, needed, ret, cursor>>
  BY DEF LoadDependency, Walking, pool_tables
<1>2. MayLoad(Top.plugin, d)
  BY CandidateMayLoad DEF LoadDependency
<1>3. needed[d] = <<>>
  BY <1>1 DEF NeededOnceLoaded
<1>4. LoadStack(rank)'
  BY <1>1, <1>2, <1>3, LoadPush
<1>5. NamesResolve' /\ NamesUnique'
  BY <1>1, NamesKept DEF Present
<1>6. Pool' /\ NeededOnceLoaded(rank)' /\ Returned'
  BY <1>1 DEF Pool, NeededOnceLoaded, Usable, Returned
<1> QED  BY <1>1, <1>4, <1>5, <1>6, WithinLoad

\* Everything between a load_plugin and the load_dep that called it.
LEMMA ResolveInv ==
    ASSUME NEW rank, Ranking(rank), LoaderInv(rank), ResolveDependency
    PROVE  Bookkeeping(rank)'
<1> USE DEF LoaderInv, Bookkeeping
<1>1. /\ phase = "load" /\ stack # <<>> /\ Top.pc \in {"requires", "after"}
      /\ Walking /\ Top.pc # "init"
  BY DEF ResolveDependency, EnterGroup, SkipMember, MissingDependency,
         CircularDependency, DependOnReady, LoadDependency, DependencyReturned, Walking
<1>2. Top \in Frame /\ Top.plugin \in Objects /\ LoadFrame(Top) /\ Top.i \in Nat \ {0}
  BY <1>1, TopCall DEF Frame
<1>3. ASSUME Top.g > 0 \/ InArray(Top)
      PROVE  /\ Advance(Top) \in Frame /\ Advance(Top).plugin = Top.plugin
             /\ LoadFrame(Advance(Top))
  <2>1. /\ Advance(Top) \in Frame /\ Advance(Top).plugin = Top.plugin /\ Advance(Top).pc = Top.pc
        /\ Advance(Top).g > 0 => Top.g > 0 /\ Advance(Top).i = Top.i
    BY <1>2, NewFrames DEF Advance, Frame
  <2> QED  BY <1>2, <2>1 DEF LoadFrame, IsGroup, entry, array
<1>4. ASSUME InArray(Top), hard(Top) PROVE Top.plugin # Core
  BY <1>2, <1>4, CoreLoadsNothing DEF InArray, hard, array
<1>5. CASE EnterGroup
  <2> DEFINE f == [Top EXCEPT !.g = 1]
  <2>1. f \in Frame /\ f.plugin = Top.plugin /\ f.pc = Top.pc /\ f.i = Top.i
    BY <1>2, NewFrames DEF Frame
  <2>2. LoadFrame(f)
    BY <1>1, <1>2, <1>5, <2>1 DEF EnterGroup, InArray, LoadFrame, IsGroup, entry, array
  <2>3. Step(f) /\ ret = "none"
    BY <1>5 DEF EnterGroup
  <2> HIDE DEF f
  <2> QED  BY <1>1, <2>1, <2>2, <2>3, StepInv
<1>6. CASE SkipMember
  BY <1>1, <1>3, <1>6, StepInv DEF SkipMember, InGroup
<1>7. CASE MissingDependency
  BY <1>1, <1>3, <1>4, <1>7, StepInv, LoadFailsInv DEF MissingDependency
<1>8. CASE CircularDependency
  BY <1>1, <1>4, <1>8, ArrayDoneInv, LoadFailsInv DEF CircularDependency
<1>9. ASSUME NEW d \in Objects, DependOnReady(d) PROVE Bookkeeping(rank)'
  <2>1. MayLoad(Top.plugin, d)
    BY <1>1, <1>9, CandidateMayLoad DEF DependOnReady
  <2>2. Top.plugin # Core
    BY <2>1, CoreLoadsNothing
  <2> QED  BY <1>1, <1>9, <2>1, <2>2, LoadFailsInv, DependInv DEF DependOnReady
<1>10. CASE DependencyReturned
  <2>1. Top.dep \in Objects /\ MayLoad(Top.plugin, Top.dep) /\ Answer(Top.dep)
    BY <1>1, <1>10 DEF DependencyReturned, Returned, Waits
  <2>2. Top.plugin # Core
    BY <2>1, CoreLoadsNothing
  <2> QED  BY <1>1, <1>10, <2>1, <2>2, LoadFailsInv, DependInv DEF DependencyReturned, Answer
<1> QED  BY <1>5, <1>6, <1>7, <1>8, <1>9, <1>10, LoadDependencyInv DEF ResolveDependency

LEMMA LoadAllInv ==
    ASSUME NEW rank, Ranking(rank), LoaderInv(rank), plugin_load_all
    PROVE  Bookkeeping(rank)'
<1> USE DEF LoaderInv, Bookkeeping
<1>0. phase = "load"
  BY DEF plugin_load_all, LoadNext, LoadReturned, LoadAllDone, ResolveDependency,
         EnterGroup, SkipMember, MissingDependency, CircularDependency, DependOnReady,
         LoadDependency, DependencyReturned, Walking, FinishArray, InitSucceeds,
         InitFails, Initialising
<1>1. /\ Range(<<>>) = {} /\ Len(<<>>) = 0
      /\ \A c : Range(<<c>>) = {c} /\ Len(<<c>>) = 1 /\ <<c>>[1] = c /\ <<c>> # <<>>
  BY DEF Range
<1>2. CASE LoadNext
  <2>1. /\ stack = <<>> /\ ret = "none" /\ cursor \in Handles /\ phase' = "load" /\ ret' = "none"
        /\ UNCHANGED <<phase, unread, names, groups, mapped, loaded, needed, ret>>
    BY <1>2 DEF LoadNext
  <2>2. CASE slot[cursor] # NULL /\ slot[cursor] \notin loaded /\ Usable(slot[cursor])
    <3>1. stack' = <<Call(slot[cursor], "requires")>> /\ UNCHANGED <<slot, cursor>>
      BY <1>2, <2>2 DEF LoadNext
    <3>2. slot[cursor] \in Objects
      BY <2>1, <2>2 DEF TypeOK
    <3>3. PICK c \in Frame : /\ stack' = <<c>> /\ c.plugin = slot[cursor]
                             /\ c.pc = "requires" /\ c.g = 0
      BY <3>1, <3>2 DEF Call, Frame
    <3>4. needed[slot[cursor]] = <<>>
      BY <2>2, <3>2 DEF NeededOnceLoaded
    <3>5. LoadFrame(c)'
      BY <2>1, <2>2, <3>3, <3>4 DEF LoadFrame, Usable
    <3>6. LoadStack(rank)'
      <4>1. Range(stack') = {c} /\ Len(stack') = 1 /\ stack'[1] = c
        BY <1>1, <3>3
      <4>2. \A b \in Range(stack') : LoadFrame(b)'
        BY <3>5, <4>1
      <4>3. \A i \in 1..(1 - 1) : FALSE
        OBVIOUS
      <4>4. \A i, j \in 1..1 : ~(i < j)
        OBVIOUS
      <4> QED  BY <2>1, <3>1, <3>3, <4>1, <4>2, <4>3, <4>4 DEF LoadStack
    <3>7. NamesResolve' /\ NamesUnique'
      BY <2>1, <3>1, NamesKept DEF Present
    <3>8. Pool' /\ NeededOnceLoaded(rank)' /\ Returned'
      BY <2>1 DEF Pool, NeededOnceLoaded, Usable, Returned
    <3> QED  BY <1>0, <2>1, <3>6, <3>7, <3>8, WithinLoad
  <2>3. CASE ~(slot[cursor] # NULL /\ slot[cursor] \notin loaded /\ Usable(slot[cursor]))
    <3>1. /\ stack' = <<>>
          /\ slot' = IF slot[cursor] \in loaded THEN slot ELSE [slot EXCEPT ![cursor] = NULL]
      BY <1>2, <2>1, <2>3 DEF LoadNext
    <3>2. NamesResolve' /\ NamesUnique'
      <4>1. CASE slot[cursor] \in loaded
        BY <2>1, <3>1, <4>1, NamesKept DEF Present
      <4>2. CASE slot[cursor] \notin loaded
        BY <2>1, <2>3, <3>1, <4>2, SlotGivenUp
      <4> QED  BY <4>1, <4>2
    <3>3. LoadStack(rank)'
      <4>1. \A i \in 1..0 : FALSE
        OBVIOUS
      <4>2. \A i \in 1..(0 - 1) : FALSE
        OBVIOUS
      <4> QED  BY <1>1, <3>1, <4>1, <4>2 DEF LoadStack
    <3>4. Pool' /\ NeededOnceLoaded(rank)' /\ Returned'
      BY <2>1 DEF Pool, NeededOnceLoaded, Usable, Returned
    <3> QED  BY <1>0, <2>1, <3>2, <3>3, <3>4, WithinLoad
  <2> QED  BY <2>2, <2>3
<1>3. CASE LoadReturned
  <2>1. /\ stack = <<>> /\ ret # "none" /\ ret' = "none" /\ stack' = <<>>
        /\ slot' = IF ret = "fail" THEN [slot EXCEPT ![cursor] = NULL] ELSE slot
        /\ UNCHANGED <<phase, unread, names, groups, mapped, loaded, needed>>
    BY <1>3 DEF LoadReturned
  <2>2. cursor \in Handles /\ Answer(slot[cursor])
    BY <2>1 DEF Returned
  <2>3. NamesResolve' /\ NamesUnique'
    <3>1. CASE ret = "fail"
      BY <2>1, <2>2, <3>1, SlotGivenUp DEF Answer
    <3>2. CASE ret # "fail"
      BY <2>1, <3>2, NamesKept DEF Present
    <3> QED  BY <3>1, <3>2
  <2>4. LoadStack(rank)'
    <3>1. \A i \in 1..0 : FALSE
      OBVIOUS
    <3>2. \A i \in 1..(0 - 1) : FALSE
      OBVIOUS
    <3> QED  BY <1>1, <2>1, <3>1, <3>2 DEF LoadStack
  <2>5. Pool' /\ NeededOnceLoaded(rank)' /\ Returned'
    BY <2>1 DEF Pool, NeededOnceLoaded, Usable, Returned
  <2> QED  BY <1>0, <2>1, <2>3, <2>4, <2>5, WithinLoad
<1>4. CASE LoadAllDone
  <2>1. /\ stack = <<>> /\ ret = "none" /\ phase' = "run"
        /\ UNCHANGED <<unread, slot, names, groups, mapped, loaded, needed, stack, ret, cursor>>
    BY <1>4 DEF LoadAllDone, pool_tables
  <2>2. \A n : get(n)' = get(n)
    BY <2>1 DEF get, get_handle
  <2>3. NamesResolve' /\ NamesUnique'
    BY <1>0, <2>1, <2>2 DEF NamesResolve, Usable, NamesUnique, Present
  <2> QED  BY <1>0, <2>1, <2>3 DEF Phases, Pool, NeededOnceLoaded, Usable, LoadStack,
                                    Returned, RemoveStack, Removed
<1>5. CASE FinishArray
  BY <1>0, <1>5, ArrayDoneInv DEF FinishArray, Walking
<1>6. CASE InitSucceeds
  <2>1. /\ stack # <<>> /\ Top.pc = "init" /\ stack' = Under /\ ret' = "ok"
        /\ UNCHANGED <<phase, unread, slot, names, groups, mapped, loaded, needed, cursor>>
    BY <1>6 DEF InitSucceeds, Initialising, pool_tables
  <2>2. Top.plugin \in loaded /\ Top.plugin \in Objects
    BY <1>0, <2>1, TopCall DEF LoadFrame
  <2>3. LoadStack(rank)'
    <3>1. \A b \in Range(Under) : LoadFrame(b)'
      BY <1>0, <2>1, OtherPlugins, FrameKept
    <3> QED  BY <1>0, <2>1, <3>1, LoadUnder
  <2>4. Returned'
    <3>1. IF stack' = <<>> THEN cursor' \in Handles /\ slot'[cursor'] = Top.plugin
                           ELSE Waits(stack'[Len(stack')], Top.plugin)
      BY <1>0, <2>1, Awaited
    <3>2. CASE stack' = <<>>
      BY <2>1, <2>2, <3>1, <3>2 DEF Returned, Answer
    <3>3. CASE stack' # <<>>
      <4>1. PICK d \in Objects : d = Top.plugin /\ d \in loaded'
        BY <2>1, <2>2
      <4>2. Waits(stack'[Len(stack')], d) /\ stack'[Len(stack')].dep = d
        BY <3>1, <3>3, <4>1 DEF Waits
      <4> QED  BY <2>1, <3>3, <4>1, <4>2 DEF Returned, Answer, Top, Waits, MayLoad
    <3> QED  BY <3>2, <3>3
  <2>5. NamesResolve' /\ NamesUnique'
    BY <2>1, NamesKept DEF Present
  <2>6. Pool' /\ NeededOnceLoaded(rank)'
    BY <2>1 DEF Pool, NeededOnceLoaded, Usable
  <2> QED  BY <1>0, <2>1, <2>3, <2>4, <2>5, <2>6, WithinLoad
<1>7. CASE InitFails
  BY <1>0, <1>7, LoadFailsInv DEF InitFails, Initialising
<1> QED  BY <1>2, <1>3, <1>4, <1>5, <1>6, <1>7, ResolveInv DEF plugin_load_all

-----------------------------------------------------------------------------
(* Registration, and the end of the program *)

LEMMA RegisterInv ==
    ASSUME NEW rank, LoaderInv(rank), Register
    PROVE  Bookkeeping(rank)'
<1> USE DEF LoaderInv, Bookkeeping
<1>1. /\ phase = "register" /\ phase' = "register"
      /\ loaded' = {} /\ stack' = <<>> /\ ret' = "none" /\ needed' = needed
      /\ \A p \in Objects : needed[p] = <<>>
      /\ UNCHANGED loaded
  BY DEF Register, RegisterRejects, plugin_register, Phases
<1>2. Phases' /\ LoadStack(rank)' /\ Returned' /\ RemoveStack(rank)' /\ Removed'
  BY <1>1 DEF Phases, LoadStack, Returned, RemoveStack, Removed
<1>3. NeededOnceLoaded(rank)'
  <2>1. Range(<<>>) = {}
    BY DEF Range
  <2> QED  BY <1>1, <2>1 DEF NeededOnceLoaded
<1>4. ASSUME NEW p \in Objects, RegisterRejects(p) PROVE Pool' /\ NamesResolve' /\ NamesUnique'
  <2>1. UNCHANGED <<phase, slot, names, mapped, loaded>> /\ unread' = unread \ {p}
    BY <1>4 DEF RegisterRejects, pool_tables
  <2> QED  BY <2>1, NamesKept DEF Pool, Present
<1>5. ASSUME NEW p \in Objects, plugin_register(p) PROVE Pool' /\ NamesResolve' /\ NamesUnique'
  <2>1. PICK h \in Handles : Registers(p, h)
    BY <1>5 DEF plugin_register, Registers
  <2>2. p \in unread /\ ~Rejected(p) /\ unread' = unread \ {p}
    BY <1>5 DEF plugin_register
  <2> QED  BY <1>1, <2>1, <2>2, RegisterNames
<1> QED  BY <1>2, <1>3, <1>4, <1>5 DEF Register

LEMMA RegistrationDoneInv ==
    ASSUME NEW rank, LoaderInv(rank), RegistrationDone
    PROVE  Bookkeeping(rank)'
<1> USE DEF LoaderInv, Bookkeeping
<1>1. /\ phase = "register" /\ phase' = "load" /\ unread = {}
      /\ loaded' = {} /\ stack' = <<>> /\ ret' = "none"
      /\ UNCHANGED <<unread, slot, names, groups, mapped, loaded, needed>>
  BY DEF RegistrationDone, Phases, pool_tables
<1>2. LoadStack(rank)'
  <2>1. Range(<<>>) = {} /\ Len(<<>>) = 0
    BY DEF Range
  <2>2. \A i \in 1..0 : FALSE
    OBVIOUS
  <2>3. \A i \in 1..(0 - 1) : FALSE
    OBVIOUS
  <2> QED  BY <1>1, <2>1, <2>2, <2>3 DEF LoadStack
<1>3. \A n : get(n)' = get(n)
  BY <1>1 DEF get, get_handle
<1>4. NamesResolve' /\ NamesUnique'
  BY <1>1, <1>3 DEF NamesResolve, Usable, NamesUnique, Present
<1> QED  BY <1>1, <1>2, <1>4 DEF Phases, Pool, NeededOnceLoaded, Usable, Returned,
                                  RemoveStack, Removed

LEMMA TerminateInv ==
    ASSUME NEW rank, LoaderInv(rank), compositor_terminate
    PROVE  Bookkeeping(rank)'
<1> USE DEF LoaderInv, Bookkeeping
<1>1. /\ phase = "run" /\ phase' = "remove" /\ cursor' = 1 /\ unread = {}
      /\ stack' = <<>> /\ ret' = "none"
      /\ UNCHANGED <<unread, slot, names, groups, mapped, loaded, needed>>
  BY DEF compositor_terminate, Phases, pool_tables
<1>2. RemoveStack(rank)'
  <2>1. Range(<<>>) = {} /\ Len(<<>>) = 0
    BY DEF Range
  <2>2. \A i \in 1..0 : FALSE
    OBVIOUS
  <2> QED  BY <1>1, <2>1, <2>2 DEF RemoveStack
<1>3. Removed'
  <2>1. \A h \in Handles : ~(h < 1)
    BY LoaderConstants DEF Handles
  <2> QED  BY <1>1, <2>1 DEF Removed
<1>4. \A n : get(n)' = get(n)
  BY <1>1 DEF get, get_handle
<1>5. NamesResolve' /\ NamesUnique'
  BY <1>1, <1>4 DEF NamesResolve, Usable, NamesUnique, Present
<1> QED  BY <1>1, <1>2, <1>3, <1>5 DEF Phases, Pool, NeededOnceLoaded, Usable, LoadStack,
                                        Returned

-----------------------------------------------------------------------------
(* Steps of deload_plugin under plugin_remove_all *)

\* The calls below the one on top are for other plugins.
LEMMA OtherRemoved ==
    ASSUME TypeOK, NEW rank, Ranking(rank), RemoveStack(rank), phase = "remove",
           stack # <<>>, NEW f \in Range(Under)
    PROVE  f \in Frame /\ f.plugin \in Objects /\ f.plugin # Top.plugin /\ RemoveFrame(f)
<1>1. PICK i \in 1..(Len(stack) - 1) : f = stack[i]
  BY Frames DEF TypeOK
<1>2. i \in 1..Len(stack) /\ Len(stack) \in 1..Len(stack) /\ i < Len(stack)
  BY Frames DEF TypeOK
<1>3. f \in Frame /\ Top \in Frame /\ f \in Range(stack)
  BY Frames DEF TypeOK
<1>4. f.plugin \in Objects /\ Top.plugin \in Objects
  BY <1>3 DEF Frame
<1>5. rank[Info[f.plugin].name] < rank[Info[Top.plugin].name]
  BY <1>1, <1>2 DEF RemoveStack, Top
<1>6. rank[Info[Top.plugin].name] \in Nat
  BY <1>4, InfoArrays DEF Ranking
<1>7. f.plugin # Top.plugin
  BY <1>5, <1>6
<1> QED  BY <1>3, <1>4, <1>7 DEF RemoveStack

\* What is deloaded elsewhere does not bring a dependent back.
LEMMA RemoveFrameKept ==
    ASSUME TypeOK, NEW f \in Frame, RemoveFrame(f),
           needed'[f.plugin] = needed[f.plugin],
           \A n \in Names : get(n)' = get(n) \/ get(n)' = NULL,
           NULL \notin loaded', loaded' \subseteq loaded,
           Removable(f.plugin) => f.plugin \in mapped' \/ f.plugin \in loaded'
    PROVE  RemoveFrame(f)'
<1>1. needed[f.plugin] \in Seq(Names)
  BY DEF TypeOK, Frame
<1>2. \A j \in 1..Len(needed[f.plugin]) : needed[f.plugin][j] \in Names
  BY <1>1, ElementOfSeq
<1>3. ASSUME NEW j \in 1..Len(needed[f.plugin]), j < f.i
      PROVE  get(needed[f.plugin][j])' \notin loaded'
  <2>1. PICK n \in Names : n = needed[f.plugin][j] /\ n = needed'[f.plugin][j]
    BY <1>2
  <2>2. get(n) \notin loaded
    BY <1>3, <2>1 DEF RemoveFrame
  <2>3. get(n)' \notin loaded'
    BY <2>2
  <2> QED  BY <2>1, <2>3 DEF get, get_handle
<1> QED  BY <1>3 DEF RemoveFrame, Removable, get, get_handle

\* What is left to show of a step inside plugin_remove_all.
LEMMA WithinRemove ==
    ASSUME NEW rank, phase = "remove", UNCHANGED <<phase, unread, ret>>, Phases,
           Pool', NamesResolve', NamesUnique', NeededOnceLoaded(rank)',
           RemoveStack(rank)', Removed'
    PROVE  Bookkeeping(rank)'
BY DEF Phases, Bookkeeping, LoadStack, Returned

LEMMA DeloadDependentInv ==
    ASSUME NEW rank, Ranking(rank), LoaderInv(rank), DeloadDependent
    PROVE  Bookkeeping(rank)'
<1> USE DEF LoaderInv, Bookkeeping
<1> DEFINE n == needed[Top.plugin][Top.i]
<1>1. /\ phase = "remove" /\ stack # <<>> /\ Top.i <= Len(needed[Top.plugin])
      /\ UNCHANGED <<phase, unread, slot, names, groups, mapped, loaded, needed, ret, cursor>>
      /\ IF get(n) \in loaded THEN stack' = Append(stack, Call(get(n), "needed"))
                              ELSE stack' = Become(Advance(Top))
  BY DEF DeloadDependent, Removing, pool_tables
<1>2. /\ Top \in Frame /\ Top.plugin \in Objects /\ RemoveFrame(Top) /\ Top.i \in Nat \ {0}
      /\ Len(stack) \in Nat \ {0} /\ Len(stack) \in 1..Len(stack)
  BY <1>1, TopFrame, Frames DEF TypeOK, RemoveStack, Frame
<1>3. /\ needed[Top.plugin] \in Seq(Names) /\ Len(needed[Top.plugin]) \in Nat
      /\ Top.i \in 1..Len(needed[Top.plugin])
  BY <1>1, <1>2, LenProperties DEF TypeOK
<1>4. n \in Names /\ n \in Range(needed[Top.plugin])
  BY <1>3, ElementOfSeq, LenProperties DEF Range
<1>5. NULL \notin loaded
  BY NullIsFresh DEF TypeOK
<1>6. ASSUME NEW f \in Frame, RemoveFrame(f) PROVE RemoveFrame(f)'
  BY <1>1, <1>6 DEF RemoveFrame, Removable, get, get_handle
<1>7. RemoveStack(rank)'
  <2>1. CASE get(n) \in loaded
    <3>1. PICK d \in Objects : d = get(n) /\ d \in loaded /\ Info[d].name = n
      <4>1. get(n) \in Objects /\ Info[get(n)].name = n
        BY <1>4, <1>5, <2>1, Resolves
      <4> QED  BY <2>1, <4>1
    <3>2. PICK c \in Frame : c = Call(d, "needed") /\ c.plugin = d /\ c.pc = "needed" /\ c.i = 1
      <4>1. /\ Call(d, "needed") \in Frame /\ Call(d, "needed").plugin = d
            /\ Call(d, "needed").pc = "needed" /\ Call(d, "needed").i = 1
        BY <1>2, NewFrames DEF Call
      <4> QED  BY <4>1
    <3>3. stack' = Append(stack, c)
      BY <1>1, <2>1, <3>1, <3>2
    <3>4. RemoveFrame(c)'
      <4>1. \A j \in 1..Len(needed[d]) : ~(j < 1)
        OBVIOUS
      <4> QED  BY <1>1, <3>1, <3>2, <4>1 DEF RemoveFrame, Removable
    <3>5. /\ Len(stack') = Len(stack) + 1
          /\ \A i \in 1..Len(stack) : stack'[i] = stack[i]
          /\ stack'[Len(stack) + 1] = c
      BY <3>3, Pushes DEF TypeOK
    <3>6. ASSUME NEW b \in Range(stack') PROVE RemoveFrame(b)'
      <4>1. b \in Range(stack) \/ b = c
        BY <1>1, <3>3, Frames DEF TypeOK
      <4>2. ASSUME b \in Range(stack) PROVE RemoveFrame(b)'
        BY <1>1, <1>6, <4>2, Frames DEF TypeOK, RemoveStack
      <4> QED  BY <3>4, <4>1, <4>2
    <3>7. rank[Info[Top.plugin].name] < rank[Info[d].name]
      BY <1>2, <1>4, <3>1 DEF NeededOnceLoaded
    <3>8. ASSUME NEW i \in 1..(Len(stack) + 1), NEW j \in 1..(Len(stack) + 1), i < j
          PROVE  rank[Info[stack'[i].plugin].name] < rank[Info[stack'[j].plugin].name]
      <4>1. CASE j \in 1..Len(stack)
        <5>1. i \in 1..Len(stack)
          BY <1>2, <3>8, <4>1
        <5> QED  BY <1>1, <3>5, <3>8, <4>1, <5>1 DEF RemoveStack
      <4>2. CASE j = Len(stack) + 1
        <5>1. i \in 1..Len(stack)
          BY <1>2, <3>8, <4>2
        <5>2. stack'[i].plugin = stack[i].plugin /\ stack'[j].plugin = d
          BY <3>2, <3>5, <4>2, <5>1
        <5>3. rank[Info[stack[i].plugin].name] < rank[Info[d].name]
          <6>1. CASE i = Len(stack)
            BY <3>7, <6>1 DEF Top
          <6>2. CASE i # Len(stack)
            <7>1. i < Len(stack)
              BY <1>2, <5>1, <6>2
            <7>2. rank[Info[stack[i].plugin].name] < rank[Info[Top.plugin].name]
              BY <1>1, <1>2, <5>1, <7>1 DEF RemoveStack, Top
            <7>3. stack[i].plugin \in Objects
              <8>1. stack[i] \in Frame
                BY <5>1, ElementOfSeq DEF TypeOK
              <8> QED  BY <8>1 DEF Frame
            <7>4. /\ rank[Info[d].name] \in Nat /\ rank[Info[Top.plugin].name] \in Nat
                  /\ rank[Info[stack[i].plugin].name] \in Nat
              BY <1>2, <7>3, InfoArrays DEF Ranking
            <7> QED  BY <3>7, <7>2, <7>4
          <6> QED  BY <6>1, <6>2
        <5> QED  BY <5>2, <5>3
      <4>3. j \in 1..Len(stack) \/ j = Len(stack) + 1
        BY <1>2
      <4> QED  BY <4>1, <4>2, <4>3
    <3> HIDE DEF n
    <3> QED  BY <1>1, <3>5, <3>6, <3>8 DEF RemoveStack
  <2>2. CASE get(n) \notin loaded
    <3>1. PICK f \in Frame : /\ f = Advance(Top) /\ f.plugin = Top.plugin /\ f.pc = Top.pc
                             /\ f.i = Top.i \/ f.i = Top.i + 1
      <4>1. Advance(Top) \in Frame
        BY <1>2, NewFrames
      <4>2. /\ Advance(Top).plugin = Top.plugin /\ Advance(Top).pc = Top.pc
            /\ Advance(Top).i = Top.i \/ Advance(Top).i = Top.i + 1
        BY <1>2 DEF Advance, Frame
      <4> QED  BY <4>1, <4>2
    <3>2. RemoveFrame(f)
      <4>1. ASSUME NEW j \in 1..Len(needed[Top.plugin]), j < f.i
            PROVE  get(needed[Top.plugin][j]) \notin loaded
        <5>1. j < Top.i \/ j = Top.i
          BY <1>2, <3>1, <4>1
        <5> QED  BY <1>2, <2>2, <5>1 DEF RemoveFrame
      <4> QED  BY <1>2, <3>1, <4>1 DEF RemoveFrame
    <3>3. stack' = Become(f)
      BY <1>1, <2>2, <3>1
    <3>4. /\ Len(stack') = Len(stack)
          /\ \A i \in 1..Len(stack) : stack'[i].plugin = stack[i].plugin
      BY <1>1, <3>1, <3>3, Becomes DEF TypeOK, Top
    <3>5. ASSUME NEW b \in Range(stack') PROVE RemoveFrame(b)'
      <4>1. b \in Range(Under) \/ b = f
        BY <1>1, <3>3, Frames DEF TypeOK
      <4>2. ASSUME b \in Range(Under) PROVE RemoveFrame(b)'
        BY <1>1, <1>6, <4>2, OtherRemoved
      <4> QED  BY <1>6, <3>2, <4>1, <4>2
    <3> HIDE DEF n
    <3> QED  BY <1>1, <3>4, <3>5 DEF RemoveStack
  <2> QED  BY <2>1, <2>2
<1>8. NamesResolve' /\ NamesUnique'
  BY <1>1, NamesKept DEF Present
<1>9. Pool' /\ NeededOnceLoaded(rank)' /\ Removed'
  BY <1>1 DEF Pool, NeededOnceLoaded, Usable, Removed, Removable
<1> HIDE DEF n
<1> QED  BY <1>1, <1>7, <1>8, <1>9, WithinRemove

LEMMA DeloadInv ==
    ASSUME NEW rank, Ranking(rank), LoaderInv(rank), Deload
    PROVE  Bookkeeping(rank)'
<1> USE DEF LoaderInv, Bookkeeping
<1> DEFINE p == Top.plugin
<1>1. /\ phase = "remove" /\ stack # <<>> /\ deload(p) /\ stack' = Under
      /\ UNCHANGED <<phase, unread, slot, groups, ret, cursor>>
      /\ mapped' = mapped \ {p} /\ loaded' = loaded \ {p}
      /\ needed' = [needed EXCEPT ![p] = <<>>]
  BY DEF Deload, Removing, deload
<1>2. Top \in Frame /\ p \in Objects /\ RemoveFrame(Top)
  BY <1>1, TopFrame, Frames DEF TypeOK, RemoveStack
<1>3. /\ Pool' /\ NamesResolve' /\ NamesUnique'
      /\ \A m \in Names : get(m)' = IF m = Info[p].name THEN NULL ELSE get(m)
  BY <1>1, <1>2, DeloadNames DEF RemoveFrame, Removable, Present
<1>4. NULL \notin loaded'
  BY <1>1, NullIsFresh DEF TypeOK
<1>5. ASSUME NEW b \in Range(Under) PROVE RemoveFrame(b)'
  <2>1. b \in Frame /\ b.plugin \in Objects /\ b.plugin # p /\ RemoveFrame(b)
    BY <1>1, OtherRemoved
  <2>2. /\ needed'[b.plugin] = needed[b.plugin]
        /\ Removable(b.plugin) => b.plugin \in mapped' \/ b.plugin \in loaded'
    BY <1>1, <2>1 DEF TypeOK, Removable
  <2> QED  BY <1>1, <1>3, <1>4, <2>1, <2>2, RemoveFrameKept
<1>6. RemoveStack(rank)'
  <2>1. /\ Len(stack) \in Nat \ {0} /\ Len(stack') = Len(stack) - 1
        /\ \A i \in 1..(Len(stack) - 1) : stack'[i] = stack[i]
    BY <1>1, Returns, TopFrame DEF TypeOK
  <2>2. \A i \in 1..Len(stack') : i \in 1..Len(stack) /\ stack'[i] = stack[i]
    BY <2>1
  <2>3. \A i, j \in 1..Len(stack') :
          i < j => rank[Info[stack'[i].plugin].name] < rank[Info[stack'[j].plugin].name]
    BY <1>1, <2>2 DEF RemoveStack
  <2>4. \A b \in Range(stack') : RemoveFrame(b)'
    BY <1>1, <1>5
  <2> QED  BY <2>3, <2>4 DEF RemoveStack
<1>7. NeededOnceLoaded(rank)'
  <2>1. Range(<<>>) = {}
    BY DEF Range
  <2> HIDE DEF p
  <2> QED  BY <1>1, <1>2, <2>1 DEF NeededOnceLoaded, Usable, TypeOK
<1>8. Removed'
  <2> HIDE DEF p
  <2> QED  BY <1>1 DEF Removed, Removable
<1> QED  BY <1>1, <1>3, <1>6, <1>7, <1>8, WithinRemove

LEMMA RemoveAllInv ==
    ASSUME NEW rank, Ranking(rank), LoaderInv(rank), plugin_remove_all
    PROVE  Bookkeeping(rank)'
<1> USE DEF LoaderInv, Bookkeeping
<1>1. CASE RemoveNext
  <2>1. /\ phase = "remove" /\ stack = <<>> /\ cursor \in Handles
        /\ IF Removable(slot[cursor])
           THEN stack' = <<Call(slot[cursor], "needed")>> /\ UNCHANGED cursor
           ELSE cursor' = cursor + 1 /\ UNCHANGED stack
        /\ UNCHANGED <<phase, unread, slot, names, groups, mapped, loaded, needed, ret>>
    BY <1>1 DEF RemoveNext, pool_tables
  <2>2. NamesResolve' /\ NamesUnique'
    BY <2>1, NamesKept DEF Present
  <2>3. Pool' /\ NeededOnceLoaded(rank)'
    BY <2>1 DEF Pool, NeededOnceLoaded, Usable
  <2>4. CASE Removable(slot[cursor])
    <3>1. slot[cursor] \in Objects
      BY <2>4 DEF Removable, TypeOK
    <3>2. PICK c \in Frame : /\ stack' = <<c>> /\ c.plugin = slot[cursor]
                             /\ c.pc = "needed" /\ c.i = 1
      BY <2>1, <2>4, <3>1 DEF Call, Frame
    <3>3. RemoveFrame(c)'
      <4>1. \A j \in 1..Len(needed[slot[cursor]]) : ~(j < 1)
        OBVIOUS
      <4> QED  BY <2>1, <2>4, <3>2, <4>1 DEF RemoveFrame, Removable
    <3>4. RemoveStack(rank)'
      <4>1. Range(stack') = {c} /\ Len(stack') = 1
        BY <3>2 DEF Range
      <4>2. \A b \in Range(stack') : RemoveFrame(b)'
        BY <3>3, <4>1
      <4>3. \A i, j \in 1..1 : ~(i < j)
        OBVIOUS
      <4> QED  BY <4>1, <4>2, <4>3 DEF RemoveStack
    <3>5. Removed'
      BY <2>1, <2>4 DEF Removed, Removable
    <3> QED  BY <2>1, <2>2, <2>3, <3>4, <3>5, WithinRemove
  <2>5. CASE ~Removable(slot[cursor])
    <3>1. cursor' = cursor + 1 /\ stack' = stack
      BY <2>1, <2>5
    <3>2. RemoveStack(rank)'
      <4>1. Range(<<>>) = {} /\ Len(<<>>) = 0
        BY DEF Range
      <4>2. \A i \in 1..0 : FALSE
        OBVIOUS
      <4> QED  BY <2>1, <3>1, <4>1, <4>2 DEF RemoveStack
    <3>3. Removed'
      <4>1. \A h \in Handles : h < cursor + 1 => h < cursor \/ h = cursor
        BY <2>1 DEF Handles
      <4> QED  BY <2>1, <2>5, <3>1, <4>1 DEF Removed, Removable
    <3> QED  BY <2>1, <2>2, <2>3, <3>2, <3>3, WithinRemove
  <2> QED  BY <2>4, <2>5
<1>2. CASE RemoveAllDone
  <2>1. /\ phase = "remove" /\ phase' = "gone" /\ stack = <<>> /\ cursor \notin Handles
        /\ names' = [n \in Names |-> NULL]
        /\ UNCHANGED <<unread, groups, mapped, loaded, needed, stack, ret, cursor>>
    BY <1>2 DEF RemoveAllDone
  <2>2. ASSUME NEW p \in Objects, Removable(p) PROVE FALSE
    <3>1. get(Info[p].name) = p /\ Info[p].name \in Names
      BY <2>1, <2>2, InfoArrays DEF Removable, NamesUnique, Present
    <3>2. names[Info[p].name] \in Handles /\ slot[names[Info[p].name]] = p
      BY <3>1, NullIsFresh DEF get, get_handle, TypeOK
    <3>3. \A h \in Handles : h < cursor
      <4>1. cursor \in Nat \ {0} /\ PoolSize \in Nat
        BY LoaderConstants DEF TypeOK
      <4> QED  BY <2>1, <4>1 DEF Handles
    <3> QED  BY <2>1, <2>2, <3>2, <3>3 DEF Removed
  <2>3. mapped = {} /\ loaded = {}
    BY <2>2 DEF Removable, TypeOK
  <2>4. NamesResolve' /\ NamesUnique'
    BY <2>1 DEF NamesResolve, NamesUnique
  <2>5. NeededOnceLoaded(rank)'
    BY <2>1 DEF NeededOnceLoaded, Usable
  <2> QED  BY <2>1, <2>3, <2>4, <2>5
           DEF Phases, Pool, LoadStack, Returned, RemoveStack, Removed
<1> QED  BY <1>1, <1>2, DeloadDependentInv, DeloadInv DEF plugin_remove_all

-----------------------------------------------------------------------------
(* The invariant, and what it says *)

LEMMA InitLoaderInv ==
    ASSUME NEW rank, Init
    PROVE  LoaderInv(rank)
<1>1. TypeOK
  BY InitType
<1>2. GroupsResolve /\ MembersHaveSlots
  BY DEF Init, GroupsResolve, MembersHaveSlots, get_group
<1>3. /\ Info[Core].name \in Names /\ 1 \in Handles /\ Core # NULL /\ Core \in Objects
      /\ \A h \in Handles : h # NULL
  BY LoaderConstants, InfoArrays, NullIsFresh DEF Handles
<1>4. \A n \in Names : get(n) = IF n = Info[Core].name THEN Core ELSE NULL
  BY <1>3 DEF Init, get, get_handle
<1>5. NamesResolve /\ NamesUnique
  BY <1>3, <1>4 DEF Init, NamesResolve, Usable, NamesUnique, Present
<1>6. NeededOnceLoaded(rank)
  <2>1. Range(<<>>) = {}
    BY DEF Range
  <2> QED  BY <2>1 DEF Init, NeededOnceLoaded
<1>7. Phases /\ Pool /\ LoadStack(rank) /\ Returned /\ RemoveStack(rank) /\ Removed
  BY DEF Init, Phases, Pool, LoadStack, Returned, RemoveStack, Removed
<1> QED  BY <1>1, <1>2, <1>5, <1>6, <1>7 DEF LoaderInv, Bookkeeping

LEMMA NextLoaderInv ==
    ASSUME NEW rank, Ranking(rank), LoaderInv(rank), [Next]_vars
    PROVE  LoaderInv(rank)'
<1>1. TypeOK' /\ GroupsResolve' /\ MembersHaveSlots'
  BY NextType, NextGroupsResolve DEF LoaderInv
<1>2. CASE UNCHANGED vars
  <2>1. \A n : get(n)' = get(n)
    BY <1>2 DEF vars, get, get_handle
  <2>2. NamesResolve' /\ NamesUnique'
    BY <1>2, NamesKept DEF vars, LoaderInv, Bookkeeping, Present
  <2>3. \A f : LoadFrame(f) => LoadFrame(f)'
    BY <1>2 DEF vars, LoadFrame, Usable, IsGroup, get_group, entry, array
  <2>4. \A f : RemoveFrame(f) => RemoveFrame(f)'
    BY <1>2 DEF vars, RemoveFrame, Removable, get, get_handle
  <2>5. LoadStack(rank)'
    BY <1>2, <2>3 DEF vars, LoaderInv, Bookkeeping, LoadStack, Waits, MayLoad
  <2>6. RemoveStack(rank)'
    BY <1>2, <2>4 DEF vars, LoaderInv, Bookkeeping, RemoveStack
  <2>7. Phases' /\ Pool' /\ NeededOnceLoaded(rank)' /\ Removed'
    BY <1>2 DEF vars, LoaderInv, Bookkeeping, Phases, Pool, NeededOnceLoaded, Usable,
                Removed, Removable
  <2>8. Returned'
    BY <1>2 DEF vars, LoaderInv, Bookkeeping, Returned, Answer, Usable, Waits, MayLoad, Top
  <2> QED  BY <1>1, <2>2, <2>5, <2>6, <2>7, <2>8 DEF Bookkeeping, LoaderInv
<1>3. CASE Next
  <2>1. Bookkeeping(rank)'
    BY <1>3, RegisterInv, RegistrationDoneInv, LoadAllInv, RemoveAllInv, TerminateInv
    DEF Next, Work
  <2> QED  BY <1>1, <2>1 DEF LoaderInv
<1> QED  BY <1>2, <1>3

\* The invariant holds of every catalogue that a rank puts in order.
THEOREM LoaderInvariant ==
    ASSUME NEW rank \in [Names -> Nat], Ranks(rank)
    PROVE  Spec => []LoaderInv(rank)
<1>1. Ranking(rank)
  BY DEF Ranking
<1>2. Init => LoaderInv(rank)
  BY InitLoaderInv
<1>3. LoaderInv(rank) /\ [Next]_vars => LoaderInv(rank)'
  BY <1>1, NextLoaderInv
<1> QED  BY <1>2, <1>3, PTL DEF Spec

\* Whatever is registered, loaded, failed and removed in whatever order, a
\* name leads to the plugin of that name, and that one is mapped: names,
\* slots and dlclose are updated by three functions, one after the other.
THEOREM NamesStayResolved ==
    ASSUME NEW rank \in [Names -> Nat], Ranks(rank)
    PROVE  Spec => []NamesResolve
<1>1. LoaderInv(rank) => NamesResolve
  BY DEF LoaderInv, Bookkeeping
<1> QED  BY <1>1, LoaderInvariant, PTL

\* Neither load_plugin nor deload_plugin is entered for a plugin that an
\* outer call is still working on, however deep the dependencies are.
THEOREM NeverReentered ==
    ASSUME NEW rank \in [Names -> Nat], Ranks(rank)
    PROVE  Spec => []NoReentry
<1>1. ASSUME LoaderInv(rank) PROVE NoReentry
  <2> USE DEF LoaderInv, Bookkeeping
  <2>1. SUFFICES ASSUME NEW i \in DOMAIN stack, NEW j \in DOMAIN stack,
                        stack[i].plugin = stack[j].plugin
                 PROVE  i = j
    BY DEF NoReentry
  <2>2. i \in 1..Len(stack) /\ j \in 1..Len(stack) /\ Len(stack) \in Nat /\ stack # <<>>
    BY <1>1, <2>1, LenProperties DEF TypeOK
  <2>3. stack[i].plugin \in Objects
    <3>1. stack[i] \in Frame
      BY <1>1, <2>2, ElementOfSeq DEF TypeOK
    <3> QED  BY <3>1 DEF Frame
  <2>4. rank[Info[stack[i].plugin].name] \in Nat
    BY <2>3, InfoArrays
  <2>5. ~(rank[Info[stack[i].plugin].name] < rank[Info[stack[j].plugin].name])
        /\ ~(rank[Info[stack[j].plugin].name] < rank[Info[stack[i].plugin].name])
    BY <2>1, <2>4
  <2>6. phase \in {"load", "remove"}
    BY <1>1, <2>2 DEF TypeOK, Phases
  <2>7. ~(i < j) /\ ~(j < i)
    BY <1>1, <2>2, <2>5, <2>6 DEF LoadStack, RemoveStack
  <2> QED  BY <2>2, <2>7
<1> QED  BY <1>1, LoaderInvariant, PTL

\* When main() is through, every plugin was deinitialised and unmapped:
\* plugin_remove_all misses none, whatever the dependents-first recursion
\* took before its turn.
AllGone == phase = "gone" => mapped = {} /\ loaded = {}

THEOREM NothingLeftBehind ==
    ASSUME NEW rank \in [Names -> Nat], Ranks(rank)
    PROVE  Spec => []AllGone
<1>1. LoaderInv(rank) => AllGone
  BY DEF LoaderInv, Bookkeeping, Removed, AllGone
<1> QED  BY <1>1, LoaderInvariant, PTL

-----------------------------------------------------------------------------
(***************************************************************************)
(* The refinement: every step of the loader starts, stops or gives up one  *)
(* plugin, in the order PluginLifecycle asks for, or leaves what runs,     *)
(* what is down and who depends on whom as it is.                          *)
(***************************************************************************)

\* Two plugins that are there have two names.
LEMMA OneName ==
    ASSUME NEW rank, LoaderInv(rank), phase # "gone",
           NEW p \in Objects, NEW q \in Objects, Present(p), Present(q),
           Info[p].name = Info[q].name
    PROVE  p = q
BY DEF LoaderInv, Bookkeeping, NamesUnique

\* Steps that do not show.
LEMMA Stutters ==
    ASSUME loaded' = loaded, needed' = needed, Down' = Down
    PROVE  UNCHANGED Lifecycle!vars
<1>1. Uses' = Uses
  BY DEF Uses
<1> QED  BY <1>1 DEF Lifecycle!vars

LEMMA SameDown ==
    ASSUME UNCHANGED <<unread, mapped, loaded>>,
           Core \notin mapped /\ Core \notin loaded
             => (phase \in {"remove", "gone"} <=> phase' \in {"remove", "gone"})
    PROVE  Down' = Down
BY DEF Down

\* A plugin that is not loaded is given up.
LEMMA GivesUp ==
    ASSUME NEW p \in Objects, p \notin loaded, p \notin Down,
           loaded' = loaded, Uses' = Uses, Down' = Down \cup {p}
    PROVE  Lifecycle!Next
BY DEF Lifecycle!Next, Lifecycle!GiveUp

\* A loaded plugin that no loaded plugin depends on is stopped.
LEMMA Stops ==
    ASSUME NEW p \in loaded, p \in Objects, \A q \in loaded : <<q, p>> \notin Uses,
           loaded' = loaded \ {p}, Down' = Down \cup {p},
           needed' = [needed EXCEPT ![p] = <<>>], TypeOK
    PROVE  Lifecycle!Next
<1>1. Range(<<>>) = {}
  BY DEF Range
<1>2. \A q \in Objects : needed'[q] = IF q = p THEN <<>> ELSE needed[q]
  BY DEF TypeOK
<1>3. ASSUME NEW u \in loaded \X loaded
      PROVE  u \in Uses' <=> (u \in Uses /\ u[1] # p)
  <2>1. u = <<u[1], u[2]>> /\ u[1] \in loaded /\ u[2] \in loaded /\ u[2] \in Objects
    BY DEF TypeOK
  <2>2. CASE u[2] = p
    <3>1. u \notin Uses
      BY <2>1, <2>2
    <3>2. u \notin Uses'
      BY <1>1, <1>2, <2>2 DEF Uses
    <3> QED  BY <3>1, <3>2
  <2>3. CASE u[2] # p
    <3>1. needed'[u[2]] = needed[u[2]]
      BY <1>2, <2>1, <2>3
    <3>2. u \in loaded' \X loaded' <=> u[1] # p
      BY <2>1, <2>3
    <3> QED  BY <3>1, <3>2 DEF Uses
  <2> QED  BY <2>2, <2>3
<1>4. Uses \subseteq loaded \X loaded /\ Uses' \subseteq loaded \X loaded
  BY DEF Uses
<1>5. Uses' = {u \in Uses : u[1] # p}
  BY <1>3, <1>4
<1> QED  BY <1>5 DEF Lifecycle!Next, Lifecycle!Stop

-----------------------------------------------------------------------------
(* Loading *)

\* init is called with everything that p depends on running already.
LEMMA ArrayDoneMaps ==
    ASSUME NEW rank, Ranking(rank), LoaderInv(rank), phase = "load", stack # <<>>,
           Top.pc \in {"requires", "after"}, ArrayDone(Top)
    PROVE  [Lifecycle!Next]_Lifecycle!vars
<1> USE DEF LoaderInv, Bookkeeping
<1> DEFINE p == Top.plugin
<1>1. /\ Top \in Frame /\ p \in Objects /\ LoadFrame(Top)
      /\ UNCHANGED <<phase, unread, slot, names, groups, mapped, needed>>
      /\ loaded' = loaded \/ loaded' = loaded \cup {p}
  BY TopCall DEF ArrayDone, pool_tables
<1>2. CASE loaded' = loaded
  BY <1>1, <1>2, SameDown, Stutters
<1>3. CASE loaded' = loaded \cup {p}
  <2> DEFINE ds == {d \in loaded : Info[p].name \in Range(needed[d])}
  <2>1. p \notin loaded /\ needed[p] = <<>> /\ (p = Core \/ p \in mapped)
    BY <1>1 DEF LoadFrame, Usable
  <2>2. p \notin Down
    BY <2>1 DEF Down
  <2>3. Down' = Down
    BY <1>1, <1>3, <2>1 DEF Down
  <2>4. p \notin Range(needed[p]) /\ Range(needed[p]) = {}
    BY <2>1 DEF Range
  <2>5. Uses' = Uses \cup ({p} \X ds)
    <3>1. ASSUME NEW u PROVE u \in Uses' <=> u \in Uses \/ u \in {p} \X ds
      <4>1. needed' = needed
        BY <1>1
      <4>2. u \in Uses' <=> /\ u \in (loaded \cup {p}) \X (loaded \cup {p})
                            /\ Info[u[1]].name \in Range(needed[u[2]])
        BY <1>3, <4>1 DEF Uses
      <4>3. CASE u \in (loaded \cup {p}) \X (loaded \cup {p})
        <5>1. u = <<u[1], u[2]>> /\ u[1] \in loaded \cup {p} /\ u[2] \in loaded \cup {p}
          BY <4>3
        <5>2. CASE u[2] = p
          BY <2>1, <2>4, <4>2, <5>1, <5>2 DEF Uses
        <5>3. CASE u[2] # p /\ u[1] = p
          BY <2>1, <4>2, <5>1, <5>3 DEF Uses
        <5>4. CASE u[2] # p /\ u[1] # p
          BY <4>2, <5>1, <5>4 DEF Uses
        <5> QED  BY <5>2, <5>3, <5>4
      <4>4. CASE u \notin (loaded \cup {p}) \X (loaded \cup {p})
        BY <4>2, <4>4 DEF Uses
      <4> QED  BY <4>3, <4>4
    <3> QED  BY <3>1
  <2>6. \E s \in SUBSET loaded : Uses' = Uses \cup ({p} \X s)
    <3>1. ds \in SUBSET loaded
      OBVIOUS
    <3> HIDE DEF ds
    <3> QED  BY <2>5, <3>1
  <2>7. Lifecycle!Start(p)
    <3> HIDE DEF p
    <3> QED  BY <1>3, <2>1, <2>2, <2>3, <2>6 DEF Lifecycle!Start
  <2> QED  BY <1>1, <2>7 DEF Lifecycle!Next
<1> QED  BY <1>1, <1>2, <1>3

\* A plugin that fails is given up before its init, or stopped after it:
\* nobody depends on it yet.
LEMMA LoadFailsMaps ==
    ASSUME NEW rank, Ranking(rank), LoaderInv(rank), phase = "load", stack # <<>>,
           Top.plugin # Core, LoadFails(Top.plugin)
    PROVE  Lifecycle!Next
<1> USE DEF LoaderInv, Bookkeeping
<1> DEFINE p == Top.plugin
<1>1. Top \in Frame /\ p \in Objects /\ LoadFrame(Top)
  BY TopCall
<1>2. p \in mapped /\ needed[p] = <<>> /\ p # Core /\ p \notin unread
  BY <1>1 DEF LoadFrame, Usable, Pool
<1>3. ~NeededBy(p)
  BY <1>2 DEF NeededBy, Range
<1>4. /\ needed' = [needed EXCEPT ![p] = <<>>] /\ needed' = needed
      /\ mapped' = mapped \ {p} /\ loaded' = loaded \ {p}
      /\ UNCHANGED <<phase, unread>>
  BY <1>2, <1>3 DEF LoadFails, deload, TypeOK
<1>5. Down' = Down \cup {p} /\ p \notin Down
  <2> HIDE DEF p
  <2> QED  BY <1>1, <1>2, <1>4 DEF Down
<1>6. CASE p \in loaded
  <2>1. \A q \in loaded : <<q, p>> \notin Uses
    BY <1>2 DEF Uses, Range
  <2> HIDE DEF p
  <2> QED  BY <1>1, <1>4, <1>5, <1>6, <2>1, Stops
<1>7. CASE p \notin loaded
  <2>1. loaded' = loaded
    BY <1>4, <1>7
  <2>2. Uses' = Uses
    BY <1>4, <2>1 DEF Uses
  <2> HIDE DEF p
  <2> QED  BY <1>1, <1>5, <1>7, <2>1, <2>2, GivesUp
<1> QED  BY <1>6, <1>7

\* The dependency is noted for a plugin that does not run yet.
LEMMA DependMaps ==
    ASSUME NEW rank, Ranking(rank), LoaderInv(rank), phase = "load", stack # <<>>,
           Top.pc # "init", NEW d \in Objects, Depend(Top, d)
    PROVE  UNCHANGED Lifecycle!vars
<1> USE DEF LoaderInv, Bookkeeping
<1> DEFINE p == Top.plugin
<1>1. /\ Top \in Frame /\ p \in Objects /\ LoadFrame(Top) /\ Info[p].name \in Names
      /\ needed' = [needed EXCEPT ![d] = Append(@, Info[p].name)]
      /\ UNCHANGED <<phase, unread, mapped, loaded>>
  BY TopCall, InfoArrays DEF Depend
<1>2. p \notin loaded /\ Present(p)
  BY <1>1 DEF LoadFrame, Usable, Present
<1>3. \A q \in loaded : q \in Objects /\ Info[q].name # Info[p].name
  BY <1>1, <1>2, OneName DEF TypeOK, Present
<1>4. /\ needed[d] \in Seq(Names) /\ needed'[d] = Append(needed[d], Info[p].name)
      /\ \A q \in Objects : q # d => needed'[q] = needed[q]
  BY <1>1 DEF TypeOK
<1>5. Range(needed'[d]) = Range(needed[d]) \cup {Info[p].name}
  <2> HIDE DEF p
  <2> QED  BY <1>1, <1>4, AppendedRange
<1>6. \A q \in loaded : \A r \in loaded :
        Info[q].name \in Range(needed'[r]) <=> Info[q].name \in Range(needed[r])
  <2> HIDE DEF p
  <2> QED  BY <1>3, <1>4, <1>5
<1>7. Uses' = Uses
  <2>1. \A u \in loaded \X loaded : u[1] \in loaded /\ u[2] \in loaded
    OBVIOUS
  <2> QED  BY <1>1, <1>6, <2>1 DEF Uses
<1>8. Down' = Down
  BY <1>1, SameDown
<1> QED  BY <1>1, <1>7, <1>8 DEF Lifecycle!vars

LEMMA ResolveMaps ==
    ASSUME NEW rank, Ranking(rank), LoaderInv(rank), ResolveDependency
    PROVE  [Lifecycle!Next]_Lifecycle!vars
<1> USE DEF LoaderInv, Bookkeeping
<1>1. /\ phase = "load" /\ stack # <<>> /\ Top.pc \in {"requires", "after"}
      /\ Walking /\ Top.pc # "init"
  BY DEF ResolveDependency, EnterGroup, SkipMember, MissingDependency,
         CircularDependency, DependOnReady, LoadDependency, DependencyReturned, Walking
<1>2. Top.plugin \in Objects
  BY <1>1, TopCall
<1>3. ASSUME InArray(Top), hard(Top) PROVE Top.plugin # Core
  BY <1>1, <1>3, TopCall, CoreLoadsNothing DEF InArray, hard, array, Frame
<1>4. ASSUME NEW f, Step(f) PROVE UNCHANGED Lifecycle!vars
  BY <1>4, SameDown, Stutters DEF Step, pool_tables
<1>5. CASE EnterGroup \/ SkipMember
  BY <1>4, <1>5 DEF EnterGroup, SkipMember
<1>6. CASE MissingDependency
  BY <1>1, <1>3, <1>4, <1>6, LoadFailsMaps DEF MissingDependency
<1>7. CASE CircularDependency
  BY <1>1, <1>3, <1>7, ArrayDoneMaps, LoadFailsMaps DEF CircularDependency
<1>8. ASSUME NEW d \in Objects, DependOnReady(d) PROVE [Lifecycle!Next]_Lifecycle!vars
  <2>1. Top.plugin # Core
    BY <1>1, <1>8, CandidateMayLoad, CoreLoadsNothing DEF DependOnReady
  <2> QED  BY <1>1, <1>8, <2>1, LoadFailsMaps, DependMaps DEF DependOnReady
<1>9. ASSUME NEW d \in Objects, LoadDependency(d) PROVE UNCHANGED Lifecycle!vars
  BY <1>9, SameDown, Stutters DEF LoadDependency, pool_tables
<1>10. CASE DependencyReturned
  <2>1. Top.dep \in Objects /\ MayLoad(Top.plugin, Top.dep)
    BY <1>1, <1>10 DEF DependencyReturned, Returned, Waits
  <2>2. Top.plugin # Core
    BY <2>1, CoreLoadsNothing
  <2> QED  BY <1>1, <1>10, <2>1, <2>2, LoadFailsMaps, DependMaps DEF DependencyReturned
<1> QED  BY <1>5, <1>6, <1>7, <1>8, <1>9, <1>10 DEF ResolveDependency

LEMMA LoadAllMaps ==
    ASSUME NEW rank, Ranking(rank), LoaderInv(rank), plugin_load_all
    PROVE  [Lifecycle!Next]_Lifecycle!vars
<1>1. CASE LoadNext \/ LoadReturned
  BY <1>1, SameDown, Stutters DEF LoadNext, LoadReturned
<1>2. CASE LoadAllDone
  BY <1>2, SameDown, Stutters DEF LoadAllDone
<1>3. CASE FinishArray
  BY <1>3, ArrayDoneMaps DEF FinishArray, Walking
<1>4. CASE InitSucceeds
  BY <1>4, SameDown, Stutters DEF InitSucceeds
<1>5. CASE InitFails
  BY <1>5, LoadFailsMaps DEF InitFails, Initialising
<1> QED  BY <1>1, <1>2, <1>3, <1>4, <1>5, ResolveMaps DEF plugin_load_all

-----------------------------------------------------------------------------
(* Registration and removal *)

LEMMA RegisterMaps ==
    ASSUME NEW rank, LoaderInv(rank), Register
    PROVE  [Lifecycle!Next]_Lifecycle!vars
<1> USE DEF LoaderInv, Bookkeeping
<1>1. PICK p \in Objects : RegisterRejects(p) \/ plugin_register(p)
  BY DEF Register
<1>2. /\ phase = "register" /\ p \in unread /\ p # Core /\ p \notin mapped /\ loaded = {}
      /\ UNCHANGED <<phase, loaded, needed>> /\ unread' = unread \ {p}
      /\ mapped' = mapped \/ mapped' = mapped \cup {p}
  BY <1>1 DEF RegisterRejects, plugin_register, TypeOK, Pool, Phases
<1>3. p \notin Down /\ p \notin loaded
  BY <1>2 DEF Down
<1>4. Uses' = Uses
  BY <1>2 DEF Uses
<1>5. CASE mapped' = mapped
  <2>1. Down' = Down \cup {p}
    BY <1>2, <1>5 DEF Down
  <2> QED  BY <1>2, <1>3, <1>4, <2>1, GivesUp
<1>6. CASE mapped' = mapped \cup {p}
  <2>1. Down' = Down
    BY <1>2, <1>6 DEF Down
  <2> QED  BY <1>2, <2>1, Stutters
<1> QED  BY <1>2, <1>5, <1>6

\* At the end the built-in plugin, too, is down; it was given up if it
\* never came to run.
LEMMA TerminateMaps ==
    ASSUME NEW rank, LoaderInv(rank), compositor_terminate
    PROVE  [Lifecycle!Next]_Lifecycle!vars
<1> USE DEF LoaderInv, Bookkeeping
<1>1. /\ phase = "run" /\ phase' = "remove" /\ unread = {} /\ Core \notin mapped /\ Core \in Objects
      /\ UNCHANGED <<unread, mapped, loaded, needed>>
  BY LoaderConstants DEF compositor_terminate, pool_tables, Pool, Phases
<1>2. CASE Core \in loaded
  BY <1>1, <1>2, SameDown, Stutters
<1>3. CASE Core \notin loaded
  <2>1. Core \notin Down /\ Down' = Down \cup {Core}
    BY <1>1, <1>3 DEF Down
  <2>2. Uses' = Uses
    BY <1>1 DEF Uses
  <2> QED  BY <1>1, <1>3, <2>1, <2>2, GivesUp
<1> QED  BY <1>2, <1>3

\* deload_plugin gets past its loop when no dependent runs any more.
LEMMA DeloadMaps ==
    ASSUME NEW rank, LoaderInv(rank), Deload
    PROVE  Lifecycle!Next
<1> USE DEF LoaderInv, Bookkeeping
<1> DEFINE p == Top.plugin
<1>1. /\ phase = "remove" /\ stack # <<>> /\ Top.i > Len(needed[p]) /\ unread = {}
      /\ UNCHANGED <<phase, unread>>
      /\ mapped' = mapped \ {p} /\ loaded' = loaded \ {p}
      /\ needed' = [needed EXCEPT ![p] = <<>>]
  BY DEF Deload, Removing, deload, Phases
<1>2. Top \in Frame /\ p \in Objects /\ RemoveFrame(Top) /\ Removable(p)
  BY <1>1, TopFrame, Frames DEF TypeOK, RemoveStack, RemoveFrame
<1>3. p \notin Down /\ Down' = Down \cup {p}
  <2> HIDE DEF p
  <2> QED  BY <1>1, <1>2 DEF Down, Removable
<1>4. needed[p] \in Seq(Names) /\ Len(needed[p]) \in Nat /\ Top.i \in Nat
  BY <1>2, LenProperties DEF TypeOK, Frame
<1>5. \A n \in Range(needed[p]) : get(n) \notin loaded
  <2>1. \A j \in 1..Len(needed[p]) : j < Top.i
    <3> HIDE DEF p
    <3> QED  BY <1>1, <1>4
  <2> QED  BY <1>2, <1>4, <2>1, LenProperties DEF RemoveFrame, Range
<1>6. \A q \in loaded : q \in Objects /\ Info[q].name \notin Range(needed[p])
  BY <1>1, <1>5 DEF NamesUnique, Present, TypeOK
<1>7. \A q \in loaded : <<q, p>> \notin Uses
  BY <1>6 DEF Uses
<1>8. CASE p \in loaded
  <2> HIDE DEF p
  <2> QED  BY <1>1, <1>2, <1>3, <1>7, <1>8, Stops
<1>9. CASE p \notin loaded
  <2>1. loaded' = loaded
    BY <1>1, <1>9
  <2>2. Uses' = Uses
    <3>1. \A u \in loaded \X loaded : u[2] \in loaded /\ u[2] \in Objects
      BY DEF TypeOK
    <3>2. \A q \in loaded : needed'[q] = needed[q]
      <4> HIDE DEF p
      <4> QED  BY <1>1, <1>9 DEF TypeOK
    <3> QED  BY <2>1, <3>1, <3>2 DEF Uses
  <2> HIDE DEF p
  <2> QED  BY <1>2, <1>3, <1>9, <2>1, <2>2, GivesUp
<1> QED  BY <1>8, <1>9

LEMMA RemoveAllMaps ==
    ASSUME NEW rank, LoaderInv(rank), plugin_remove_all
    PROVE  [Lifecycle!Next]_Lifecycle!vars
<1>1. CASE RemoveNext \/ DeloadDependent
  BY <1>1, SameDown, Stutters DEF RemoveNext, DeloadDependent, pool_tables
<1>2. CASE RemoveAllDone
  BY <1>2, SameDown, Stutters DEF RemoveAllDone
<1> QED  BY <1>1, <1>2, DeloadMaps DEF plugin_remove_all

LEMMA NextMaps ==
    ASSUME NEW rank, Ranking(rank), LoaderInv(rank), [Next]_vars
    PROVE  [Lifecycle!Next]_Lifecycle!vars
<1>1. CASE RegistrationDone
  BY <1>1, SameDown, Stutters DEF RegistrationDone
<1>2. CASE UNCHANGED vars
  BY <1>2, SameDown, Stutters DEF vars
<1> QED  BY <1>1, <1>2, RegisterMaps, LoadAllMaps, TerminateMaps, RemoveAllMaps
         DEF Next, Work

\* What the loader does to plugins is what PluginLifecycle allows: the lists
\* needed, written while dependencies are resolved, keep a plugin running for
\* as long as one that depends on it does, and none comes back.
THEOREM LoaderImplementsLifecycle ==
    ASSUME NEW rank \in [Names -> Nat], Ranks(rank)
    PROVE  Spec => ImplementsLifecycle
<1>1. Init => Lifecycle!Init
  BY DEF Init, Lifecycle!Init, Down, Uses
<1>2. Ranking(rank)
  BY DEF Ranking
<1>3. LoaderInv(rank) /\ [Next]_vars => [Lifecycle!Next]_Lifecycle!vars
  BY <1>2, NextMaps
<1> QED  BY <1>1, <1>3, LoaderInvariant, PTL DEF Spec, ImplementsLifecycle, Lifecycle!Spec

-----------------------------------------------------------------------------
(***************************************************************************)
(* RequiredLoaded, for every catalogue without undetected cycles in which  *)
(* no requirement follows one that names a group.                          *)
(***************************************************************************)

\* Loaded, and not still inside its init.
Ready == loaded \ {f.plugin : f \in {c \in Range(stack) : c.pc = "init"}}

\* d runs, and will not be deloaded before p.
Serves(d, p) == d \in Ready /\ Info[p].name \in Range(needed[d])

\* The hard dependency r of p is met by plugins that know that p needs them.
Served(p, r) ==
    IF get_group(r) /\ ~belongs_to_pool(Info[p].groups, r)
    THEN \A h \in Range(groups[r]) : slot[h] # NULL => Serves(slot[h], p)
    ELSE Serves(get(r), p)

AllServed(p) == \A r \in Range(Info[p].requires) : Served(p, r)

\* What load_deps_from_array has done for the plugin of f so far.
FrameServed(f) ==
    IF f.pc = "requires"
    THEN /\ \A j \in 1..Len(Info[f.plugin].requires) :
              j < f.i => Served(f.plugin, Info[f.plugin].requires[j])
         /\ f.g > 0 => \A k \in 1..Len(groups[entry(f)]) :
              k < f.g /\ slot[groups[entry(f)][k]] # NULL
                => Serves(slot[groups[entry(f)][k]], f.plugin)
    ELSE AllServed(f.plugin)

\* load_dep was handed d for the element that f has come to.
Asked(f, d) ==
    IF f.g = 0 THEN f.i <= Len(array(f)) /\ ~IsGroup(f) /\ entry(f) = Info[d].name
               ELSE f.g <= Len(groups[entry(f)]) /\ slot[groups[entry(f)][f.g]] = d

\* A group is there because a plugin is to be in it.
GroupsNamed ==
    \A n \in Names : get_group(n) => \E o \in Objects : n \in Range(Info[o].groups)

ServedInv ==
    /\ GroupsNamed
    /\ \A p \in loaded : AllServed(p)
    /\ phase = "load" =>
         /\ \A f \in Range(stack) : FrameServed(f)
         /\ \A i \in 1..(Len(stack) - 1) : Asked(stack[i], stack[i + 1].plugin)
         /\ ret # "none" /\ stack # <<>> => Asked(Top, Top.dep)

RequiresInv(rank) == LoaderInv(rank) /\ ServedInv

-----------------------------------------------------------------------------
(* What keeps a dependency served *)

\* A step that takes nothing back: this is each step of plugin_load_all.
Grows ==
    /\ groups' = groups
    /\ \A h \in Handles : slot'[h] = slot[h] \/ slot'[h] = NULL
    /\ Ready \subseteq Ready'
    /\ \A d \in Ready : Range(needed[d]) \subseteq Range(needed'[d])
    /\ \A n \in Names : get(n) \in Ready => get(n)' = get(n)

LEMMA ServedGrows ==
    ASSUME TypeOK, Grows, NEW p \in Objects, NEW r \in Names, Served(p, r)
    PROVE  Served(p, r)'
<1>1. ASSUME NEW d, Serves(d, p) PROVE Serves(d, p)'
  BY <1>1 DEF Grows, Serves
<1>2. CASE get_group(r) /\ ~belongs_to_pool(Info[p].groups, r)
  <2>1. \A h \in Range(groups[r]) : h \in Handles
    BY <1>2, LenProperties, ElementOfSeq DEF TypeOK, Range, get_group
  <2>2. ASSUME NEW h \in Range(groups[r]), slot'[h] # NULL
        PROVE  Serves(slot[h], p)' /\ slot'[h] = slot[h]
    <3>1. slot'[h] = slot[h] /\ slot[h] # NULL
      BY <2>1, <2>2 DEF Grows
    <3>2. PICK d : d = slot[h] /\ d = slot'[h]
      BY <3>1
    <3>3. Serves(d, p)
      BY <1>2, <2>2, <3>1, <3>2 DEF Served
    <3>4. Serves(d, p)'
      BY <1>1, <3>3
    <3> QED  BY <3>2, <3>4 DEF Serves
  <2> QED  BY <1>2, <2>2 DEF Served, Grows, get_group
<1>3. CASE ~(get_group(r) /\ ~belongs_to_pool(Info[p].groups, r))
  <2>1. PICK d : d = get(r)
    OBVIOUS
  <2>2. Serves(d, p) /\ d \in Ready
    BY <1>3, <2>1 DEF Served, Serves
  <2>3. Serves(d, p)' /\ get(r)' = d
    BY <1>1, <2>1, <2>2 DEF Grows
  <2> QED  BY <1>3, <2>3 DEF Served, Serves, Grows, get_group
<1> QED  BY <1>2, <1>3

LEMMA AllServedGrows ==
    ASSUME TypeOK, Grows, NEW p \in Objects, AllServed(p)
    PROVE  AllServed(p)'
<1>1. \A r \in Range(Info[p].requires) : r \in Names
  BY InfoArrays, LenProperties, ElementOfSeq DEF Range
<1> QED  BY <1>1, ServedGrows DEF AllServed

LEMMA FrameServedGrows ==
    ASSUME TypeOK, Grows, NEW f \in Frame, LoadFrame(f), FrameServed(f)
    PROVE  FrameServed(f)'
<1>1. f.plugin \in Objects /\ Info[f.plugin].requires \in Seq(Names) /\ f.i \in Nat \ {0}
  BY InfoArrays DEF Frame
<1>2. CASE f.pc # "requires"
  BY <1>1, <1>2, AllServedGrows DEF FrameServed
<1>3. CASE f.pc = "requires"
  <2>1. ASSUME NEW j \in 1..Len(Info[f.plugin].requires), j < f.i
        PROVE  Served(f.plugin, Info[f.plugin].requires[j])'
    <3>1. Info[f.plugin].requires[j] \in Names
      BY <1>1, ElementOfSeq
    <3> QED  BY <1>1, <1>3, <2>1, <3>1, ServedGrows DEF FrameServed
  <2>2. ASSUME f.g > 0
        PROVE  /\ entry(f)' = entry(f) /\ groups'[entry(f)] = groups[entry(f)]
               /\ \A k \in 1..Len(groups[entry(f)]) : groups[entry(f)][k] \in Handles
    <3>1. f.i <= Len(array(f)) /\ IsGroup(f) /\ array(f) = Info[f.plugin].requires
      BY <1>3, <2>2 DEF LoadFrame, array
    <3>2. f.i \in 1..Len(array(f))
      BY <1>1, <3>1, LenProperties
    <3>3. entry(f) \in Names
      BY <1>1, <3>1, <3>2, ElementOfSeq DEF entry
    <3>4. groups[entry(f)] \in Seq(Handles)
      BY <3>1, <3>3 DEF TypeOK, IsGroup, get_group
    <3> QED  BY <3>4, ElementOfSeq DEF Grows, entry, array
  <2>3. ASSUME f.g > 0, NEW k \in 1..Len(groups[entry(f)]), k < f.g,
               slot'[groups[entry(f)][k]] # NULL
        PROVE  Serves(slot[groups[entry(f)][k]], f.plugin)'
    <3>1. PICK d : d = slot[groups[entry(f)][k]] /\ d = slot'[groups[entry(f)][k]] /\ d # NULL
      BY <2>2, <2>3 DEF Grows
    <3>2. Serves(d, f.plugin)
      BY <1>3, <2>3, <3>1 DEF FrameServed
    <3>3. Serves(d, f.plugin)'
      BY <3>2 DEF Grows, Serves
    <3>4. d = slot[groups[entry(f)][k]]'
      BY <2>2, <2>3, <3>1 DEF Grows
    <3> QED  BY <3>3, <3>4 DEF Serves
  <2>4. f.g > 0 => groups'[entry(f)'] = groups[entry(f)]
    BY <2>2
  <2> QED  BY <1>3, <2>1, <2>2, <2>3, <2>4 DEF FrameServed, Grows
<1> QED  BY <1>2, <1>3

\* Who is ready, before and after a step of plugin_load_all that replaces the
\* call on top by the calls new.
LEMMA ReadyInLoad ==
    ASSUME NEW rank, Ranking(rank), LoaderInv(rank), phase = "load", stack # <<>>
    PROVE  /\ Ready = IF Top.pc = "init" THEN loaded \ {Top.plugin} ELSE loaded
           /\ \A new \in SUBSET Frame :
                Range(stack') = Range(Under) \cup new
                  => Ready' = loaded' \ {f.plugin : f \in {c \in new : c.pc = "init"}}
<1> USE DEF LoaderInv, Bookkeeping
<1>1. Range(stack) = Range(Under) \cup {Top} /\ \A f \in Range(Under) : f.pc # "init"
  BY Frames, OtherPlugins DEF TypeOK
<1>2. \A f : f \in Range(stack) /\ f.pc = "init" => f = Top
  BY <1>1
<1> QED  BY <1>1, <1>2 DEF Ready

\* Nothing is at the start of its init unless it is on top.
LEMMA ReadyIdle ==
    ASSUME NEW rank, LoaderInv(rank), stack = <<>> \/ phase # "load"
    PROVE  Ready = loaded
<1> USE DEF LoaderInv, Bookkeeping
<1>1. Range(<<>>) = {}
  BY DEF Range
<1>2. \A f \in Range(stack) : f.pc # "init"
  <2>1. CASE stack = <<>>
    BY <1>1, <2>1
  <2>2. CASE stack # <<>>
    BY <2>2 DEF TypeOK, Phases, RemoveStack, RemoveFrame
  <2> QED  BY <2>1, <2>2
<1> QED  BY <1>2 DEF Ready

\* What a plugin was asked for does not depend on what is loaded meanwhile.
LEMMA AskedKept ==
    ASSUME NEW f, NEW d, Asked(f, d), UNCHANGED <<slot, groups>>
    PROVE  Asked(f, d)'
BY DEF Asked, array, entry, IsGroup, get_group

\* The call on top goes on.
LEMMA BecomeServed ==
    ASSUME NEW rank, Ranking(rank), RequiresInv(rank), phase = "load", stack # <<>>,
           NEW f \in Frame, f.plugin = Top.plugin, stack' = Become(f),
           UNCHANGED <<phase, slot>>, Grows, ret' = "none",
           FrameServed(f)', \A p \in loaded' \ loaded : p \in Objects /\ AllServed(p)'
    PROVE  ServedInv'
<1> USE DEF RequiresInv, LoaderInv, Bookkeeping
<1>1. \A p \in loaded' : AllServed(p)'
  BY AllServedGrows DEF ServedInv, TypeOK
<1>2. \A b \in Range(stack') : FrameServed(b)'
  <2>1. \A b \in Range(Under) : b \in Frame /\ LoadFrame(b) /\ FrameServed(b)
    BY Frames, OtherPlugins DEF TypeOK, ServedInv
  <2>2. \A b \in Range(Under) : FrameServed(b)'
    BY <2>1, FrameServedGrows
  <2> QED  BY <2>2, Frames DEF TypeOK
<1>3. /\ Len(stack') = Len(stack) /\ Len(stack) \in Nat \ {0}
      /\ \A i \in 1..Len(stack) : stack'[i] = IF i = Len(stack) THEN f ELSE stack[i]
  BY Becomes, TopFrame DEF TypeOK
<1>4. \A i \in 1..Len(stack) : stack'[i].plugin = stack[i].plugin
  BY <1>3 DEF Top
<1>5. ASSUME NEW i \in 1..(Len(stack') - 1) PROVE Asked(stack[i], stack[i + 1].plugin)'
  <2>1. /\ i \in 1..(Len(stack) - 1) /\ i \in 1..Len(stack)
        /\ i # Len(stack) /\ i + 1 \in 1..Len(stack)
    BY <1>3
  <2>2. PICK g, d : g = stack[i] /\ d = stack[i + 1].plugin
    OBVIOUS
  <2>3. g = stack'[i] /\ d = stack'[i + 1].plugin
    BY <1>3, <1>4, <2>1, <2>2
  <2>4. Asked(g, d)
    BY <2>1, <2>2 DEF ServedInv
  <2>5. Asked(g, d)'
    BY <2>4, AskedKept DEF Grows
  <2> QED  BY <2>3, <2>5
<1>6. GroupsNamed'
  BY DEF Grows, ServedInv, GroupsNamed, get_group
<1> QED  BY <1>1, <1>2, <1>5, <1>6 DEF ServedInv

\* The call on top returns.
LEMMA UnderServed ==
    ASSUME NEW rank, Ranking(rank), RequiresInv(rank), phase = "load", stack # <<>>,
           stack' = Under, UNCHANGED <<phase, slot, cursor>>, Grows, loaded' \subseteq loaded
    PROVE  ServedInv'
<1> USE DEF RequiresInv, LoaderInv, Bookkeeping
<1>1. \A p \in loaded' : AllServed(p)'
  BY AllServedGrows DEF ServedInv, TypeOK
<1>2. \A b \in Range(stack') : FrameServed(b)'
  <2>1. \A b \in Range(Under) : b \in Frame /\ LoadFrame(b) /\ FrameServed(b)
    BY Frames, OtherPlugins DEF TypeOK, ServedInv
  <2> QED  BY <2>1, FrameServedGrows
<1>3. /\ Len(stack') = Len(stack) - 1 /\ Len(stack) \in Nat \ {0} /\ stack' \in Seq(Frame)
      /\ \A i \in 1..(Len(stack) - 1) : stack'[i] = stack[i]
  BY Returns, TopFrame DEF TypeOK
<1>4. ASSUME NEW i \in 1..(Len(stack) - 1), NEW g, NEW d, g = stack[i], d = stack[i + 1].plugin
      PROVE  Asked(g, d)'
  <2>1. Asked(g, d)
    BY <1>4 DEF ServedInv
  <2> QED  BY <2>1, AskedKept DEF Grows
<1>5. ASSUME NEW i \in 1..(Len(stack') - 1) PROVE Asked(stack[i], stack[i + 1].plugin)'
  <2>1. i \in 1..(Len(stack) - 1) /\ i + 1 \in 1..(Len(stack) - 1)
    BY <1>3
  <2>2. PICK g, d : g = stack[i] /\ d = stack[i + 1].plugin
    OBVIOUS
  <2>3. g = stack'[i] /\ d = stack'[i + 1].plugin
    BY <1>3, <2>1, <2>2
  <2> QED  BY <1>4, <2>1, <2>2, <2>3
<1>6. ASSUME stack' # <<>> PROVE Asked(Top, Top.dep)'
  <2>1. Len(stack') # 0
    BY <1>3, <1>6, EmptySeq
  <2>2. /\ Len(stack) - 1 \in 1..(Len(stack) - 1) /\ Len(stack) - 1 + 1 = Len(stack)
    BY <1>3, <2>1
  <2>3. PICK g, d : g = stack[Len(stack) - 1] /\ d = Top.plugin
    OBVIOUS
  <2>4. Asked(g, d)'
    BY <1>4, <2>2, <2>3 DEF Top
  <2>5. g = stack'[Len(stack')] /\ g.dep = d
    <3>1. Waits(stack'[Len(stack')], Top.plugin)
      BY <1>6, Awaited
    <3> QED  BY <1>3, <2>2, <2>3, <3>1 DEF Waits
  <2> QED  BY <2>4, <2>5 DEF Top
<1>7. GroupsNamed'
  BY DEF Grows, ServedInv, GroupsNamed, get_group
<1> QED  BY <1>1, <1>2, <1>5, <1>6, <1>7 DEF ServedInv

\* plugin_load_all itself goes on: nobody waits.
LEMMA IdleServed ==
    ASSUME NEW rank, RequiresInv(rank), Grows, loaded' = loaded,
           stack' = <<>> \/ phase' # "load"
    PROVE  ServedInv'
<1> USE DEF RequiresInv, LoaderInv, Bookkeeping
<1>1. \A p \in loaded' : AllServed(p)'
  BY AllServedGrows DEF ServedInv, TypeOK
<1>2. GroupsNamed'
  BY DEF Grows, ServedInv, GroupsNamed, get_group
<1>3. Range(<<>>) = {} /\ Len(<<>>) = 0 /\ \A i \in 1..(0 - 1) : FALSE
  BY DEF Range
<1> QED  BY <1>1, <1>2, <1>3 DEF ServedInv

-----------------------------------------------------------------------------
(* Steps of load_plugin *)

LEMMA StepServed ==
    ASSUME NEW rank, Ranking(rank), RequiresInv(rank), phase = "load", stack # <<>>,
           Top.pc # "init", ret = "none",
           NEW f \in Frame, f.plugin = Top.plugin, f.pc = Top.pc, Step(f), FrameServed(f)
    PROVE  ServedInv'
<1> USE DEF RequiresInv, LoaderInv, Bookkeeping
<1>1. /\ stack' = Become(f) /\ ret' = "none" /\ Top \in Frame
      /\ UNCHANGED <<phase, unread, slot, names, groups, mapped, loaded, needed, ret, cursor>>
  BY TopCall DEF Step, pool_tables
<1>2. Ready' = Ready
  <2>1. Range(stack') = Range(Under) \cup {f}
    BY <1>1, Frames DEF TypeOK
  <2>2. Ready' = loaded' \ {g.plugin : g \in {c \in {f} : c.pc = "init"}}
    BY <2>1, ReadyInLoad
  <2>3. Ready = loaded
    BY ReadyInLoad
  <2> QED  BY <1>1, <2>2, <2>3
<1>3. Grows
  BY <1>1, <1>2 DEF Grows, get, get_handle
<1>4. FrameServed(f)'
  BY <1>1, <1>2 DEF FrameServed, AllServed, Served, Serves, entry, array, get, get_handle,
                    get_group
<1> QED  BY <1>1, <1>3, <1>4, BecomeServed

\* The plugin goes to its init with all that it requires being ready.
LEMMA ArrayDoneServed ==
    ASSUME NEW rank, Ranking(rank), RequiresInv(rank), phase = "load", stack # <<>>,
           Top.pc \in {"requires", "after"}, ret = "none", ArrayDone(Top),
           AllServed(Top.plugin)
    PROVE  ServedInv'
<1> USE DEF RequiresInv, LoaderInv, Bookkeeping
<1>1. /\ Top \in Frame /\ Top.plugin \in Objects /\ LoadFrame(Top)
      /\ UNCHANGED <<phase, unread, slot, names, groups, mapped, needed, ret, cursor>>
  BY TopCall DEF ArrayDone, pool_tables
<1>2. PICK f \in Frame :
        /\ stack' = Become(f) /\ f.plugin = Top.plugin /\ f.pc \in {"after", "init"}
        /\ loaded' = IF f.pc = "init" THEN loaded \cup {f.plugin} ELSE loaded
  <2>1. \E pc \in {"after", "init"} :
          /\ stack' = Become(Call(Top.plugin, pc))
          /\ loaded' = IF pc = "init" THEN loaded \cup {Top.plugin} ELSE loaded
    BY DEF ArrayDone
  <2>2. \A pc \in {"after", "init"} :
          /\ Call(Top.plugin, pc) \in Frame
          /\ Call(Top.plugin, pc).plugin = Top.plugin /\ Call(Top.plugin, pc).pc = pc
    BY <1>1, NewFrames DEF Call
  <2> QED  BY <2>1, <2>2
<1>3. Top.plugin \notin loaded
  BY <1>1 DEF LoadFrame
<1>4. Ready' = Ready
  <2>1. Range(stack') = Range(Under) \cup {f}
    BY <1>2, Frames DEF TypeOK
  <2>2. Ready' = loaded' \ {g.plugin : g \in {c \in {f} : c.pc = "init"}}
    BY <2>1, ReadyInLoad
  <2>3. Ready = loaded
    BY ReadyInLoad
  <2> QED  BY <1>2, <1>3, <2>2, <2>3
<1>5. Grows
  BY <1>1, <1>4 DEF Grows, get, get_handle
<1>6. AllServed(f.plugin)'
  <2>1. PICK p \in Objects : p = Top.plugin /\ p = f.plugin
    BY <1>1, <1>2
  <2>2. AllServed(p)'
    BY <1>5, <2>1, AllServedGrows
  <2> QED  BY <2>1, <2>2
<1>7. FrameServed(f)'
  BY <1>2, <1>6 DEF FrameServed
<1>8. \A p \in loaded' \ loaded : p \in Objects /\ AllServed(p)'
  <2>1. \A p \in loaded' \ loaded : p = f.plugin
    BY <1>2
  <2> QED  BY <1>1, <1>2, <1>6, <2>1
<1> QED  BY <1>1, <1>2, <1>5, <1>7, <1>8, BecomeServed

LEMMA LoadFailsServed ==
    ASSUME NEW rank, Ranking(rank), RequiresInv(rank), phase = "load", stack # <<>>,
           Top.plugin # Core, LoadFails(Top.plugin)
    PROVE  ServedInv'
<1> USE DEF RequiresInv, LoaderInv, Bookkeeping
<1> DEFINE p == Top.plugin
<1>1. Top \in Frame /\ p \in Objects /\ LoadFrame(Top)
  BY TopCall
<1>2. p \in mapped /\ needed[p] = <<>>
  BY <1>1 DEF LoadFrame, Usable
<1>3. ~NeededBy(p)
  BY <1>2 DEF NeededBy, Range
<1>4. /\ deload(p) /\ stack' = Under
      /\ UNCHANGED <<phase, unread, slot, groups, cursor>>
  BY <1>2, <1>3 DEF LoadFails
<1>5. /\ needed' = needed /\ loaded' = loaded \ {p}
  BY <1>2, <1>4 DEF deload, TypeOK
<1>6. \A n \in Names : get(n)' = IF n = Info[p].name THEN NULL ELSE get(n)
  BY <1>1, <1>2, <1>4, DeloadNames DEF Present
<1>7. Ready' = Ready /\ p \notin Ready
  <2>1. Ready' = loaded'
    <3>1. Range(stack') = Range(Under) \cup {} /\ {} \in SUBSET Frame
      BY <1>4
    <3>2. Ready' = loaded' \ {f.plugin : f \in {c \in {} : c.pc = "init"}}
      BY <3>1, ReadyInLoad
    <3> QED  BY <3>2
  <2>2. Ready = IF Top.pc = "init" THEN loaded \ {p} ELSE loaded
    BY ReadyInLoad
  <2> QED  BY <1>1, <1>5, <2>1, <2>2 DEF LoadFrame
<1>8. get(Info[p].name) = p
  BY <1>1, <1>2 DEF NamesUnique, Present
<1>9. Grows
  <2> HIDE DEF p
  <2> QED  BY <1>4, <1>5, <1>6, <1>7, <1>8 DEF Grows
<1> QED  BY <1>4, <1>5, <1>9, UnderServed

\* load_dep is through with the element the call on top has come to.
LEMMA DependServed ==
    ASSUME NEW rank, Ranking(rank), RequiresInv(rank), phase = "load", stack # <<>>,
           Top.pc \in {"requires", "after"}, NEW d \in Objects, Asked(Top, d), Depend(Top, d),
           d \in loaded \/ ~hard(Top)
    PROVE  ServedInv'
<1> USE DEF RequiresInv, LoaderInv, Bookkeeping
<1>1. /\ Top \in Frame /\ Top.plugin \in Objects /\ LoadFrame(Top) /\ FrameServed(Top)
      /\ Top.i \in Nat \ {0} /\ Top.g \in Nat
      /\ ret' = "none" /\ stack' = Become(Advance(Top))
      /\ needed' = [needed EXCEPT ![d] = Append(@, Info[Top.plugin].name)]
      /\ UNCHANGED <<phase, unread, slot, names, groups, mapped, loaded, cursor>>
  BY TopCall, Frames DEF Depend, pool_tables, Frame, ServedInv, TypeOK
<1>2. /\ Info[Top.plugin].name \in Names /\ Info[Top.plugin].requires \in Seq(Names)
      /\ needed[d] \in Seq(Names)
      /\ needed'[d] = Append(needed[d], Info[Top.plugin].name)
      /\ \A q \in Objects : q # d => needed'[q] = needed[q]
  BY <1>1, InfoArrays DEF TypeOK
<1>3. Range(needed'[d]) = Range(needed[d]) \cup {Info[Top.plugin].name}
  BY <1>2, AppendedRange
<1>4. PICK f \in Frame :
        /\ f = Advance(Top) /\ f.plugin = Top.plugin /\ f.pc = Top.pc
        /\ IF Top.g > 0 THEN f.i = Top.i /\ f.g = Top.g + 1 ELSE f.i = Top.i + 1 /\ f.g = Top.g
  <2>1. Advance(Top) \in Frame
    BY <1>1, NewFrames
  <2>2. /\ Advance(Top).plugin = Top.plugin /\ Advance(Top).pc = Top.pc
        /\ IF Top.g > 0 THEN Advance(Top).i = Top.i /\ Advance(Top).g = Top.g + 1
                        ELSE Advance(Top).i = Top.i + 1 /\ Advance(Top).g = Top.g
    BY <1>1 DEF Advance, Frame
  <2> QED  BY <2>1, <2>2
<1>5. Ready' = Ready /\ Ready = loaded
  <2>1. Range(stack') = Range(Under) \cup {f}
    BY <1>1, <1>4, Frames DEF TypeOK
  <2>2. Ready' = loaded' \ {g.plugin : g \in {c \in {f} : c.pc = "init"}}
    BY <2>1, ReadyInLoad
  <2>3. Ready = loaded
    BY ReadyInLoad
  <2> QED  BY <1>1, <1>4, <2>2, <2>3
<1>6. Grows
  <2>1. \A q \in Ready : q \in Objects
    BY <1>5 DEF TypeOK
  <2>2. \A q \in Ready : Range(needed[q]) \subseteq Range(needed'[q])
    BY <1>2, <1>3, <2>1
  <2> QED  BY <1>1, <1>5, <2>2 DEF Grows, get, get_handle
<1>7. PICK t \in Frame : t = Top
  BY <1>1
<1>8. FrameServed(t)' /\ LoadFrame(t) /\ Asked(t, d) /\ Asked(t, d)'
  BY <1>1, <1>6, <1>7, FrameServedGrows, AskedKept
<1>9. d \in loaded => Serves(d, t.plugin)'
  BY <1>1, <1>3, <1>5, <1>7 DEF Serves
<1>10. FrameServed(f)'
  <2>1. CASE t.pc # "requires"
    BY <1>4, <1>7, <1>8, <2>1 DEF FrameServed
  <2>2. CASE t.pc = "requires"
    <3>1. /\ Serves(d, t.plugin)' /\ d \in loaded
          /\ f.plugin = t.plugin /\ f.pc = t.pc
          /\ array(t) = Info[t.plugin].requires
          /\ IF t.g > 0 THEN f.i = t.i /\ f.g = t.g + 1 ELSE f.i = t.i + 1 /\ f.g = t.g
      BY <1>4, <1>7, <1>9, <2>2 DEF hard, array
    <3>2. t.i \in Nat \ {0} /\ t.g \in Nat
      BY <1>1, <1>7
    <3>3. CASE t.g > 0
      <4>1. entry(f)' = entry(t)' /\ entry(t)' = entry(t) /\ f.g = t.g + 1 /\ f.i = t.i
        BY <3>1, <3>3 DEF entry, array
      <4>2. slot'[groups'[entry(t)'][t.g]] = d
        BY <1>8, <3>2, <3>3 DEF Asked
      <4>3. \A k \in 1..Len(groups'[entry(t)']) : k < t.g + 1 => k < t.g \/ k = t.g
        BY <3>2
      <4>4. ASSUME NEW k \in 1..Len(groups'[entry(t)']), k < t.g + 1,
                   NEW q, q = slot'[groups'[entry(t)'][k]], q # NULL
            PROVE  Serves(q, t.plugin)'
        <5>1. CASE k < t.g
          BY <1>8, <2>2, <3>3, <4>4, <5>1 DEF FrameServed, Serves
        <5>2. CASE k = t.g
          BY <3>1, <4>2, <4>4, <5>2
        <5> QED  BY <4>3, <4>4, <5>1, <5>2
      <4>5. \A j \in 1..Len(Info[t.plugin].requires) :
              j < t.i => Served(t.plugin, Info[t.plugin].requires[j])'
        BY <1>8, <2>2 DEF FrameServed
      <4> QED  BY <2>2, <3>1, <4>1, <4>4, <4>5 DEF FrameServed, Serves
    <3>4. CASE ~(t.g > 0)
      <4>1. t.g = 0 /\ f.g = 0 /\ f.i = t.i + 1
        BY <3>1, <3>2, <3>4
      <4>2. ~IsGroup(t) /\ entry(t) = Info[d].name /\ t.i <= Len(array(t))
        BY <1>8, <4>1 DEF Asked
      <4>3. get(Info[d].name) = d
        BY <3>1 DEF NamesUnique, Present
      <4>4. Served(t.plugin, entry(t))'
        BY <1>1, <3>1, <4>2, <4>3 DEF Served, Serves, IsGroup, get_group, get, get_handle,
                                      entry, array
      <4>5. \A j \in 1..Len(Info[t.plugin].requires) :
              j < t.i => Served(t.plugin, Info[t.plugin].requires[j])'
        BY <1>8, <2>2 DEF FrameServed
      <4>6. \A j \in 1..Len(Info[t.plugin].requires) : j < t.i + 1 => j < t.i \/ j = t.i
        BY <3>2
      <4>7. Served(t.plugin, Info[t.plugin].requires[t.i])'
        BY <3>1, <4>4 DEF entry, array
      <4>8. ASSUME NEW j \in 1..Len(Info[t.plugin].requires), j < t.i + 1
            PROVE  Served(t.plugin, Info[t.plugin].requires[j])'
        BY <4>5, <4>6, <4>7, <4>8
      <4>9. ~(f.g > 0)
        BY <4>1
      <4> QED  BY <2>2, <3>1, <4>1, <4>8, <4>9 DEF FrameServed
    <3> QED  BY <3>3, <3>4
  <2> QED  BY <2>1, <2>2
<1> QED  BY <1>1, <1>4, <1>6, <1>10, BecomeServed

\* The group or the plugin that load_dep is called for.
LEMMA CandidateAsked ==
    ASSUME NEW rank, LoaderInv(rank), Walking, NEW d \in Objects, Candidate(Top, d)
    PROVE  Asked(Top, d)
<1> USE DEF LoaderInv, Bookkeeping
<1>1. /\ Top \in Frame /\ Top.plugin \in Objects /\ Top.i \in Nat \ {0} /\ Top.g \in Nat
  BY TopCall DEF Walking, Frame
<1>2. CASE InArray(Top) /\ ~IsGroup(Top) /\ d = get(entry(Top))
  <2>1. array(Top) \in Seq(Names)
    BY <1>1, InfoArrays DEF array
  <2>2. Top.i \in 1..Len(array(Top))
    BY <1>1, <1>2, <2>1, LenProperties DEF InArray
  <2>3. entry(Top) \in Names
    BY <2>1, <2>2, ElementOfSeq DEF entry
  <2>4. Info[d].name = entry(Top)
    BY <1>2, <2>3, Resolves, NullIsFresh
  <2> QED  BY <1>2, <2>4 DEF InArray, Asked
<1>3. CASE InGroup(Top) /\ d = slot[groups[entry(Top)][Top.g]]
  BY <1>1, <1>3 DEF InGroup, Asked
<1> QED  BY <1>2, <1>3 DEF Candidate

LEMMA PushServed ==
    ASSUME NEW rank, Ranking(rank), RequiresInv(rank), NEW d \in Objects, LoadDependency(d)
    PROVE  ServedInv'
<1> USE DEF RequiresInv, LoaderInv, Bookkeeping
<1>1. /\ phase = "load" /\ stack # <<>> /\ Top.pc # "init" /\ ret = "none" /\ Walking
      /\ Candidate(Top, d)
      /\ stack' = Append(Become([Top EXCEPT !.dep = d]), Call(d, "requires"))
      /\ UNCHANGED <<phase, unread, slot, names, groups, mapped, loaded, needed, ret, cursor>>
  BY DEF LoadDependency, Walking, pool_tables
<1>2. /\ Len(stack) \in Nat \ {0} /\ Top \in Frame /\ Top.plugin \in Objects
      /\ FrameServed(Top) /\ Asked(Top, d)
  BY <1>1, TopCall, TopFrame, Frames, CandidateAsked DEF TypeOK, ServedInv
<1>3. PICK f \in Frame, c \in Frame :
        /\ f = [Top EXCEPT !.dep = d] /\ c = Call(d, "requires")
        /\ f.plugin = Top.plugin /\ f.pc = Top.pc /\ f.i = Top.i /\ f.g = Top.g
        /\ c.plugin = d /\ c.pc = "requires" /\ c.g = 0 /\ c.i = 1
  <2> DEFINE f == [Top EXCEPT !.dep = d]
             c == Call(d, "requires")
  <2>1. f \in Frame /\ c \in Frame
    BY <1>2, NewFrames
  <2>2. f.plugin = Top.plugin /\ f.pc = Top.pc /\ f.i = Top.i /\ f.g = Top.g
    BY <1>2 DEF Frame
  <2>3. c.plugin = d /\ c.pc = "requires" /\ c.g = 0 /\ c.i = 1
    BY DEF Call
  <2> HIDE DEF f, c
  <2>4. \E ff \in Frame, cc \in Frame : ff = f /\ cc = c
    BY <2>1
  <2> QED  BY <2>2, <2>3, <2>4 DEF f, c
<1>4. /\ stack' = Append(Become(f), c)
      /\ Range(stack') = Range(Under) \cup {f, c}
  BY <1>1, <1>3, Frames DEF TypeOK
<1>5. /\ Len(stack') = Len(stack) + 1
      /\ \A i \in 1..Len(stack) : stack'[i] = IF i = Len(stack) THEN f ELSE stack[i]
      /\ stack'[Len(stack) + 1] = c
  <2>1. /\ Become(f) \in Seq(Frame) /\ Len(Become(f)) = Len(stack)
        /\ \A i \in 1..Len(stack) : Become(f)[i] = IF i = Len(stack) THEN f ELSE stack[i]
    BY <1>1, Becomes DEF TypeOK
  <2>2. /\ Len(Append(Become(f), c)) = Len(stack) + 1
        /\ \A i \in 1..Len(stack) : Append(Become(f), c)[i] = Become(f)[i]
        /\ Append(Become(f), c)[Len(stack) + 1] = c
    BY <2>1, Pushes
  <2> QED  BY <1>4, <2>1, <2>2
<1>6. Ready' = Ready
  <2>1. Ready' = loaded' \ {g.plugin : g \in {b \in {f, c} : b.pc = "init"}}
    BY <1>1, <1>4, ReadyInLoad
  <2>2. Ready = loaded
    BY <1>1, ReadyInLoad
  <2> QED  BY <1>1, <1>3, <2>1, <2>2
<1>7. Grows
  BY <1>1, <1>6 DEF Grows, get, get_handle
<1>8. \A p \in loaded' : AllServed(p)'
  BY <1>1, <1>7, AllServedGrows DEF ServedInv, TypeOK
<1>9. FrameServed(f)'
  <2>1. FrameServed(f)
    BY <1>2, <1>3 DEF FrameServed, entry, array
  <2> QED  BY <1>1, <1>6, <2>1 DEF FrameServed, AllServed, Served, Serves, entry, array, get,
                                    get_handle, get_group
<1>10. FrameServed(c)'
  <2>1. \A j \in 1..Len(Info[c.plugin].requires) : ~(j < 1)
    OBVIOUS
  <2> QED  BY <1>3, <2>1 DEF FrameServed
<1>11. ASSUME NEW b \in Range(stack') PROVE FrameServed(b)'
  <2>1. ASSUME b \in Range(Under) PROVE FrameServed(b)'
    <3>1. b \in Frame /\ LoadFrame(b) /\ FrameServed(b)
      BY <1>1, <2>1, Frames, OtherPlugins DEF TypeOK, ServedInv
    <3> QED  BY <1>7, <3>1, FrameServedGrows
  <2> QED  BY <1>4, <1>9, <1>10, <2>1
<1>12. ASSUME NEW i \in 1..(Len(stack') - 1) PROVE Asked(stack[i], stack[i + 1].plugin)'
  <2>1. /\ i \in 1..Len(stack)
        /\ i # Len(stack) => i \in 1..(Len(stack) - 1) /\ i + 1 \in 1..Len(stack)
    BY <1>2, <1>5
  <2>2. CASE i = Len(stack)
    <3>1. Asked(f, d)
      BY <1>2, <1>3 DEF Asked, array, entry, IsGroup
    <3>2. Asked(f, d)'
      BY <1>1, <3>1, AskedKept
    <3>3. f = stack'[i] /\ d = stack'[i + 1].plugin
      BY <1>3, <1>5, <2>1, <2>2
    <3> QED  BY <3>2, <3>3
  <2>3. CASE i # Len(stack)
    <3>1. PICK g, e : g = stack[i] /\ e = stack[i + 1].plugin
      OBVIOUS
    <3>2. Asked(g, e)
      BY <1>1, <2>1, <2>3, <3>1 DEF ServedInv
    <3>3. Asked(g, e)'
      BY <1>1, <3>2, AskedKept
    <3>4. stack'[i + 1].plugin = stack[i + 1].plugin
      BY <1>3, <1>5, <2>1, <2>3 DEF Top
    <3>5. g = stack'[i] /\ e = stack'[i + 1].plugin
      BY <1>5, <2>1, <2>3, <3>1, <3>4
    <3> QED  BY <3>3, <3>5
  <2> QED  BY <2>2, <2>3
<1>13. GroupsNamed'
  BY <1>1 DEF ServedInv, GroupsNamed, get_group
<1> QED  BY <1>1, <1>8, <1>11, <1>12, <1>13 DEF ServedInv

\* At the end of "requires", or of the group that ends it, everything that
\* the plugin requires is ready.
LEMMA FinishedServed ==
    ASSUME NEW rank, Ranking(rank), RequiresInv(rank), GroupsLast, FinishArray
    PROVE  AllServed(Top.plugin)
<1> USE DEF RequiresInv, LoaderInv, Bookkeeping
<1> DEFINE p == Top.plugin
           requires == Info[p].requires
<1>1. /\ phase = "load" /\ stack # <<>> /\ ~InArray(Top) /\ ~InGroup(Top)
      /\ Top.pc \in {"requires", "after"}
  BY DEF FinishArray, Walking
<1>2. /\ Top \in Frame /\ p \in Objects /\ LoadFrame(Top) /\ FrameServed(Top)
      /\ Top.i \in Nat \ {0} /\ Top.g \in Nat /\ requires \in Seq(Names)
  BY <1>1, TopCall, Frames, InfoArrays DEF TypeOK, ServedInv, Frame
<1>3. Len(requires) \in Nat /\ DOMAIN requires = 1..Len(requires)
  BY <1>2, LenProperties
<1>4. CASE Top.pc = "after"
  BY <1>2, <1>4 DEF FrameServed
<1>5. CASE Top.pc = "requires"
  <2>1. array(Top) = requires /\ entry(Top) = requires[Top.i]
    BY <1>5 DEF array, entry
  <2>2. \A j \in 1..Len(requires) : j < Top.i => Served(p, requires[j])
    BY <1>2, <1>5 DEF FrameServed
  <2>3. \A j \in 1..Len(requires) : Served(p, requires[j])
    <3>1. CASE Top.g = 0
      <4>1. Top.i > Len(requires)
        <5> HIDE DEF requires
        <5> QED  BY <1>1, <1>2, <1>3, <2>1, <3>1 DEF InArray
      <4>2. \A j \in 1..Len(requires) : j < Top.i
        <5> HIDE DEF requires
        <5> QED  BY <1>2, <1>3, <4>1
      <4> QED  BY <2>2, <4>2
    <3>2. CASE Top.g > 0
      <4>1. Top.i <= Len(requires) /\ IsGroup(Top)
        BY <1>2, <2>1, <3>2 DEF LoadFrame
      <4>2. Top.i \in 1..Len(requires) /\ requires[Top.i] \in Names
        <5>1. Top.i \in 1..Len(requires)
          <6> HIDE DEF requires
          <6> QED  BY <1>2, <1>3, <4>1
        <5> HIDE DEF requires
        <5> QED  BY <1>2, <5>1, ElementOfSeq
      <4>3. PICK o \in Objects : requires[Top.i] \in Range(Info[o].groups)
        BY <2>1, <4>1, <4>2 DEF ServedInv, GroupsNamed, IsGroup
      <4>4. ~(Top.i < Len(requires))
        BY <1>2, <1>3, <2>1, <4>1, <4>2, <4>3 DEF GroupsLast, IsGroup
      <4>5. \A j \in 1..Len(requires) : j < Top.i \/ j = Top.i
        <5> HIDE DEF requires
        <5> QED  BY <1>2, <1>3, <4>1, <4>4
      <4>6. groups[entry(Top)] \in Seq(Handles)
        BY <2>1, <4>1, <4>2 DEF TypeOK, IsGroup, get_group
      <4>7. \A k \in 1..Len(groups[entry(Top)]) : k < Top.g
        BY <1>1, <1>2, <3>2, <4>6, LenProperties DEF InGroup
      <4>8. \A h \in Range(groups[entry(Top)]) : slot[h] # NULL => Serves(slot[h], p)
        BY <1>2, <1>5, <3>2, <4>6, <4>7, LenProperties DEF FrameServed, Range
      <4>9. Served(p, requires[Top.i])
        BY <2>1, <4>1, <4>8 DEF Served, IsGroup
      <4> QED  BY <2>2, <4>5, <4>9
    <3> QED  BY <1>2, <3>1, <3>2
  <2> QED  BY <1>3, <2>3 DEF AllServed, Range
<1> QED  BY <1>1, <1>4, <1>5

LEMMA ResolveServed ==
    ASSUME NEW rank, Ranking(rank), RequiresInv(rank), ResolveDependency
    PROVE  ServedInv'
<1> USE DEF RequiresInv, LoaderInv, Bookkeeping
<1>1. /\ phase = "load" /\ stack # <<>> /\ Top.pc \in {"requires", "after"}
      /\ Walking /\ Top.pc # "init"
  BY DEF ResolveDependency, EnterGroup, SkipMember, MissingDependency,
         CircularDependency, DependOnReady, LoadDependency, DependencyReturned, Walking
<1>2. /\ Top \in Frame /\ Top.plugin \in Objects /\ LoadFrame(Top) /\ FrameServed(Top)
      /\ Top.i \in Nat \ {0} /\ Top.g \in Nat
  BY <1>1, TopCall, Frames DEF TypeOK, ServedInv, Frame
<1>3. ASSUME InArray(Top), hard(Top) PROVE Top.plugin # Core
  BY <1>2, <1>3, CoreLoadsNothing DEF InArray, hard, array
<1>4. /\ Advance(Top) \in Frame /\ Advance(Top).plugin = Top.plugin /\ Advance(Top).pc = Top.pc
      /\ IF Top.g > 0 THEN Advance(Top).i = Top.i /\ Advance(Top).g = Top.g + 1
                      ELSE Advance(Top).i = Top.i + 1 /\ Advance(Top).g = Top.g
  BY <1>2, NewFrames DEF Advance, Frame
<1>5. CASE EnterGroup
  <2>1. PICK f \in Frame : /\ f = [Top EXCEPT !.g = 1] /\ f.plugin = Top.plugin
                           /\ f.pc = Top.pc /\ f.i = Top.i /\ f.g = 1
    <3> DEFINE f == [Top EXCEPT !.g = 1]
    <3>1. f \in Frame /\ f.plugin = Top.plugin /\ f.pc = Top.pc /\ f.i = Top.i /\ f.g = 1
      BY <1>2, NewFrames DEF Frame
    <3> HIDE DEF f
    <3>2. \E ff \in Frame : ff = f
      BY <3>1
    <3> QED  BY <3>1, <3>2 DEF f
  <2>2. FrameServed(f)
    <3>1. \A k \in 1..Len(groups[entry(f)]) : ~(k < 1)
      OBVIOUS
    <3> QED  BY <1>2, <2>1, <3>1 DEF FrameServed
  <2>3. Step(f) /\ ret = "none"
    BY <1>5, <2>1 DEF EnterGroup
  <2> QED  BY <1>1, <2>1, <2>2, <2>3, StepServed
<1>6. CASE SkipMember
  <2>1. PICK f \in Frame : /\ f = Advance(Top) /\ f.plugin = Top.plugin /\ f.pc = Top.pc
                           /\ f.i = Top.i /\ f.g = Top.g + 1
    BY <1>4, <1>6 DEF SkipMember, InGroup
  <2>2. FrameServed(f)
    <3>1. entry(f) = entry(Top) /\ slot[groups[entry(f)][Top.g]] = NULL /\ Top.g > 0
      BY <1>6, <2>1 DEF SkipMember, InGroup, entry, array
    <3>2. \A k \in 1..Len(groups[entry(f)]) : k < Top.g + 1 => k < Top.g \/ k = Top.g
      BY <1>2
    <3> QED  BY <1>2, <2>1, <3>1, <3>2 DEF FrameServed
  <2> QED  BY <1>1, <1>6, <2>1, <2>2, StepServed DEF SkipMember
<1>7. CASE MissingDependency
  <2>1. CASE hard(Top)
    BY <1>1, <1>3, <1>7, <2>1, LoadFailsServed DEF MissingDependency
  <2>2. CASE ~hard(Top)
    <3>1. PICK f \in Frame : f = Advance(Top) /\ f.plugin = Top.plugin /\ f.pc = Top.pc
      BY <1>4
    <3>2. FrameServed(f)
      BY <1>2, <2>2, <3>1 DEF FrameServed, hard
    <3> QED  BY <1>1, <1>7, <2>2, <3>1, <3>2, StepServed DEF MissingDependency
  <2> QED  BY <2>1, <2>2
<1>8. CASE CircularDependency
  <2>1. CASE hard(Top)
    BY <1>1, <1>3, <1>8, <2>1, LoadFailsServed DEF CircularDependency
  <2>2. CASE ~hard(Top)
    <3>1. AllServed(Top.plugin)
      BY <1>2, <2>2 DEF FrameServed, hard
    <3> QED  BY <1>1, <1>8, <2>2, <3>1, ArrayDoneServed DEF CircularDependency
  <2> QED  BY <2>1, <2>2
<1>9. ASSUME NEW d \in Objects, DependOnReady(d) PROVE ServedInv'
  <2>1. Top.plugin # Core /\ Asked(Top, d)
    BY <1>1, <1>9, CandidateMayLoad, CandidateAsked, CoreLoadsNothing DEF DependOnReady
  <2> QED  BY <1>1, <1>9, <2>1, LoadFailsServed, DependServed DEF DependOnReady
<1>10. CASE DependencyReturned
  <2>1. /\ Top.dep \in Objects /\ MayLoad(Top.plugin, Top.dep) /\ Answer(Top.dep)
        /\ Asked(Top, Top.dep) /\ ret \in {"ok", "fail"}
    BY <1>1, <1>10 DEF DependencyReturned, Returned, Waits, ServedInv, TypeOK
  <2>2. Top.plugin # Core
    BY <2>1, CoreLoadsNothing
  <2> QED  BY <1>1, <1>10, <2>1, <2>2, LoadFailsServed, DependServed
           DEF DependencyReturned, Answer
<1> QED  BY <1>5, <1>6, <1>7, <1>8, <1>9, <1>10, PushServed DEF ResolveDependency

\* plugin_load_all and each load_plugin it starts.
LEMMA LoadAllServed ==
    ASSUME NEW rank, Ranking(rank), RequiresInv(rank), GroupsLast, plugin_load_all
    PROVE  ServedInv'
<1> USE DEF RequiresInv, LoaderInv, Bookkeeping
<1>1. /\ Range(<<>>) = {} /\ Len(<<>>) = 0
      /\ \A c : Range(<<c>>) = {c} /\ Len(<<c>>) = 1 /\ <<c>> # <<>>
  BY DEF Range
<1>2. CASE LoadNext
  <2>1. /\ phase = "load" /\ stack = <<>> /\ ret' = "none" /\ cursor \in Handles
        /\ UNCHANGED <<phase, unread, names, groups, mapped, loaded, needed, ret>>
    BY <1>2 DEF LoadNext
  <2>2. Ready = loaded
    BY <2>1, ReadyIdle
  <2>3. CASE slot[cursor] # NULL /\ slot[cursor] \notin loaded /\ Usable(slot[cursor])
    <3>1. stack' = <<Call(slot[cursor], "requires")>> /\ slot' = slot
      BY <1>2, <2>3 DEF LoadNext
    <3>2. PICK c : stack' = <<c>> /\ c.pc = "requires" /\ c.g = 0 /\ c.i = 1
      BY <3>1 DEF Call
    <3>3. Range(stack') = {c} /\ Len(stack') = 1
      BY <1>1, <3>2
    <3>4. Ready' = Ready
      BY <2>1, <2>2, <3>2, <3>3 DEF Ready
    <3>5. Grows
      BY <2>1, <3>1, <3>4 DEF Grows, get, get_handle
    <3>6. \A p \in loaded' : AllServed(p)'
      BY <2>1, <3>5, AllServedGrows DEF ServedInv, TypeOK
    <3>7. FrameServed(c)'
      <4>1. \A j \in 1..Len(Info[c.plugin].requires) : ~(j < 1)
        OBVIOUS
      <4> QED  BY <3>2, <4>1 DEF FrameServed
    <3>8. \A i \in 1..(1 - 1) : FALSE
      OBVIOUS
    <3>9. GroupsNamed'
      BY <2>1 DEF ServedInv, GroupsNamed, get_group
    <3> QED  BY <2>1, <3>3, <3>6, <3>7, <3>8, <3>9 DEF ServedInv
  <2>4. CASE ~(slot[cursor] # NULL /\ slot[cursor] \notin loaded /\ Usable(slot[cursor]))
    <3>1. /\ stack' = <<>>
          /\ slot' = IF slot[cursor] \in loaded THEN slot ELSE [slot EXCEPT ![cursor] = NULL]
      BY <1>2, <2>1, <2>4 DEF LoadNext
    <3>2. \A n \in Names : get(n)' = get(n)
      <4>1. CASE slot[cursor] \in loaded
        BY <2>1, <3>1, <4>1 DEF get, get_handle
      <4>2. CASE slot[cursor] \notin loaded
        BY <2>1, <2>4, <3>1, <4>2, SlotGivenUp
      <4> QED  BY <4>1, <4>2
    <3>3. Grows
      BY <1>1, <2>1, <2>2, <3>1, <3>2 DEF Grows, Ready, TypeOK
    <3> QED  BY <2>1, <3>1, <3>3, IdleServed
  <2> QED  BY <2>3, <2>4
<1>3. CASE LoadReturned
  <2>1. /\ stack = <<>> /\ ret # "none" /\ stack' = <<>>
        /\ slot' = IF ret = "fail" THEN [slot EXCEPT ![cursor] = NULL] ELSE slot
        /\ UNCHANGED <<phase, unread, names, groups, mapped, loaded, needed>>
    BY <1>3 DEF LoadReturned
  <2>2. cursor \in Handles /\ Answer(slot[cursor])
    BY <2>1 DEF Returned
  <2>3. \A n \in Names : get(n)' = get(n)
    <3>1. CASE ret = "fail"
      BY <2>1, <2>2, <3>1, SlotGivenUp DEF Answer
    <3>2. CASE ret # "fail"
      BY <2>1, <3>2 DEF get, get_handle
    <3> QED  BY <3>1, <3>2
  <2>4. Grows
    BY <1>1, <2>1, <2>2, <2>3 DEF Grows, Ready, TypeOK
  <2> QED  BY <2>1, <2>4, IdleServed
<1>4. CASE LoadAllDone
  <2>1. /\ phase' = "run"
        /\ UNCHANGED <<unread, slot, names, groups, mapped, loaded, needed, stack, ret, cursor>>
    BY <1>4 DEF LoadAllDone, pool_tables
  <2>2. Grows
    BY <2>1 DEF Grows, Ready, get, get_handle
  <2> QED  BY <2>1, <2>2, IdleServed
<1>5. CASE FinishArray
  <2>1. /\ phase = "load" /\ stack # <<>> /\ Top.pc \in {"requires", "after"} /\ ret = "none"
        /\ ArrayDone(Top)
    BY <1>5 DEF FinishArray, Walking
  <2>2. AllServed(Top.plugin)
    BY <1>5, FinishedServed
  <2> QED  BY <2>1, <2>2, ArrayDoneServed
<1>6. CASE InitSucceeds
  <2>1. /\ phase = "load" /\ stack # <<>> /\ Top.pc = "init" /\ stack' = Under
        /\ UNCHANGED <<phase, unread, slot, names, groups, mapped, loaded, needed, cursor>>
    BY <1>6 DEF InitSucceeds, Initialising, pool_tables
  <2>2. Ready \subseteq Ready'
    <3>1. Range(stack') = Range(Under) \cup {} /\ {} \in SUBSET Frame
      BY <2>1
    <3>2. Ready' = loaded' \ {f.plugin : f \in {c \in {} : c.pc = "init"}}
      BY <2>1, <3>1, ReadyInLoad
    <3> QED  BY <2>1, <3>2 DEF Ready
  <2>3. Grows
    BY <2>1, <2>2 DEF Grows, get, get_handle
  <2> QED  BY <2>1, <2>3, UnderServed
<1>7. CASE InitFails
  BY <1>7, LoadFailsServed DEF InitFails, Initialising
<1> QED  BY <1>2, <1>3, <1>4, <1>5, <1>6, <1>7, ResolveServed DEF plugin_load_all

-----------------------------------------------------------------------------
(* Registration and removal *)

\* A registration only makes groups that its plugin names.
LEMMA RegisterServed ==
    ASSUME NEW rank, RequiresInv(rank), Register
    PROVE  ServedInv'
<1> USE DEF RequiresInv, LoaderInv, Bookkeeping
<1>1. phase' = "register" /\ loaded' = {}
  BY DEF Register, RegisterRejects, plugin_register, Phases
<1>2. ASSUME NEW p \in Objects, NEW n \in Names, n \notin Range(Info[p].groups),
             plugin_register(p)
      PROVE  groups'[n] = groups[n]
  BY <1>2 DEF plugin_register, add_to_groups, groups_after_error, belongs_to_pool
<1>3. ASSUME NEW p \in Objects, RegisterRejects(p) PROVE groups' = groups
  BY <1>3 DEF RegisterRejects, pool_tables
<1>4. GroupsNamed'
  BY <1>2, <1>3 DEF Register, ServedInv, GroupsNamed, get_group
<1> QED  BY <1>1, <1>4 DEF ServedInv

\* Those who need a plugin are gone when its deload_plugin goes on behind
\* the loop over p.needed.
LEMMA DeloadServed ==
    ASSUME NEW rank, Ranking(rank), RequiresInv(rank), Deload, Ready' = loaded'
    PROVE  ServedInv'
<1> USE DEF RequiresInv, LoaderInv, Bookkeeping
<1>1. /\ phase = "remove" /\ stack # <<>> /\ deload(Top.plugin)
      /\ Top.i > Len(needed[Top.plugin])
      /\ UNCHANGED <<phase, unread, slot, groups>>
  BY DEF Deload, Removing
<1>2. PICK t \in Frame, q \in Objects : t = Top /\ q = Top.plugin
  BY <1>1, TopFrame DEF TypeOK
<1>3. RemoveFrame(t) /\ t.plugin = q /\ t.i \in Nat \ {0} /\ t.i > Len(needed[q])
  BY <1>1, <1>2, Frames DEF TypeOK, RemoveStack, Frame
<1>4. /\ needed' = [needed EXCEPT ![q] = <<>>] /\ loaded' = loaded \ {q}
      /\ \A n \in Names : get(n)' = IF n = Info[q].name THEN NULL ELSE get(n)
  <2>1. Present(q) /\ deload(q)
    BY <1>1, <1>2, <1>3 DEF RemoveFrame, Removable, Present
  <2> QED  BY <1>1, <2>1, DeloadNames DEF deload
<1>5. get(Info[q].name) = q /\ Ready = loaded
  <2>1. Present(q)
    BY <1>3 DEF RemoveFrame, Removable, Present
  <2> QED  BY <1>1, <2>1, ReadyIdle DEF NamesUnique
<1>6. ASSUME NEW d, NEW p \in loaded', Serves(d, p) PROVE d # q /\ Serves(d, p)'
  <2>1. get(Info[p].name) = p /\ p \in loaded
    BY <1>1, <1>4, <1>6 DEF NamesUnique, Present, TypeOK
  <2>2. d # q
    <3>1. SUFFICES ASSUME d = q PROVE FALSE
      OBVIOUS
    <3>2. PICK j \in 1..Len(needed[q]) : needed[q][j] = Info[p].name
      BY <1>6, <3>1, LenProperties DEF Serves, Range, TypeOK
    <3>3. j < t.i
      <4>1. Len(needed[q]) \in Nat
        BY LenProperties DEF TypeOK
      <4> QED  BY <1>3, <3>2, <4>1
    <3> QED  BY <1>3, <2>1, <3>2, <3>3 DEF RemoveFrame
  <2>3. d \in loaded' /\ needed'[d] = needed[d]
    BY <1>4, <1>5, <1>6, <2>2 DEF Serves, TypeOK
  <2> QED  BY <1>6, <2>2, <2>3 DEF Serves
<1>7. ASSUME NEW p \in loaded', NEW r \in Names, Served(p, r) PROVE Served(p, r)'
  <2>1. CASE get_group(r) /\ ~belongs_to_pool(Info[p].groups, r)
    <3>1. ASSUME NEW h \in Range(groups[r]), slot[h] # NULL PROVE Serves(slot[h], p)'
      <4>1. PICK d : d = slot[h] /\ d = slot'[h]
        BY <1>1
      <4>2. Serves(d, p)'
        BY <1>6, <2>1, <3>1, <4>1, <1>7 DEF Served
      <4> QED  BY <4>1, <4>2 DEF Serves
    <3> QED  BY <1>1, <2>1, <3>1 DEF Served, get_group
  <2>2. CASE ~(get_group(r) /\ ~belongs_to_pool(Info[p].groups, r))
    <3>1. PICK d : d = get(r)
      OBVIOUS
    <3>2. d # q /\ Serves(d, p)'
      BY <1>6, <1>7, <2>2, <3>1 DEF Served
    <3>3. d = get(r)'
      BY <1>4, <1>5, <3>1, <3>2
    <3> QED  BY <1>1, <2>2, <3>2, <3>3 DEF Served, Serves, get_group
  <2> QED  BY <2>1, <2>2
<1>8. \A p \in loaded' : AllServed(p)'
  <2>1. \A p \in loaded' : p \in Objects /\ AllServed(p)
    BY <1>4 DEF ServedInv, TypeOK
  <2>2. \A p \in Objects : \A r \in Range(Info[p].requires) : r \in Names
    BY InfoArrays, LenProperties, ElementOfSeq DEF Range
  <2> QED  BY <1>7, <2>1, <2>2 DEF AllServed
<1>9. GroupsNamed'
  BY <1>1 DEF ServedInv, GroupsNamed, get_group
<1> QED  BY <1>1, <1>8, <1>9 DEF ServedInv

LEMMA RemoveAllServed ==
    ASSUME NEW rank, Ranking(rank), RequiresInv(rank), plugin_remove_all
    PROVE  ServedInv'
<1> USE DEF RequiresInv
<1>1. LoaderInv(rank)' /\ phase = "remove" /\ phase' # "load"
  BY NextLoaderInv DEF Next, Work, plugin_remove_all, RemoveNext, DeloadDependent, Deload,
                       RemoveAllDone, Removing
<1>2. Ready = loaded
  BY <1>1, ReadyIdle
<1>3. Ready' = loaded'
  <2>1. \A f \in Range(stack') : f.pc # "init"
    <3>1. CASE phase' = "remove"
      BY <1>1, <3>1 DEF LoaderInv, Bookkeeping, RemoveStack, RemoveFrame
    <3>2. CASE phase' # "remove"
      <4>1. stack' = <<>>
        BY <1>1, <3>2 DEF LoaderInv, Bookkeeping, Phases, TypeOK
      <4> QED  BY <4>1 DEF Range
    <3> QED  BY <3>1, <3>2
  <2> QED  BY <2>1 DEF Ready
<1>4. CASE RemoveNext \/ DeloadDependent
  <2>1. UNCHANGED <<phase, unread, slot, names, groups, mapped, loaded, needed, ret>>
    BY <1>4 DEF RemoveNext, DeloadDependent, pool_tables
  <2>2. Grows
    BY <1>2, <1>3, <2>1 DEF Grows, get, get_handle
  <2> QED  BY <1>1, <2>1, <2>2, IdleServed
<1>5. CASE RemoveAllDone
  <2>1. phase' = "gone" /\ groups' = groups /\ loaded' = {}
    BY <1>1, <1>5 DEF RemoveAllDone, LoaderInv, Bookkeeping, Removed
  <2> QED  BY <2>1 DEF ServedInv, GroupsNamed, get_group
<1> QED  BY <1>3, <1>4, <1>5, DeloadServed DEF plugin_remove_all

-----------------------------------------------------------------------------
LEMMA NextServed ==
    ASSUME NEW rank, Ranking(rank), RequiresInv(rank), GroupsLast, [Next]_vars
    PROVE  RequiresInv(rank)'
<1>1. LoaderInv(rank)'
  BY NextLoaderInv DEF RequiresInv
<1>2. CASE RegistrationDone
  <2>1. /\ stack' = <<>>
        /\ UNCHANGED <<unread, slot, names, groups, mapped, loaded, needed, stack>>
    BY <1>2 DEF RegistrationDone, pool_tables, RequiresInv, LoaderInv, Bookkeeping, Phases
  <2>2. Grows
    BY <2>1 DEF Grows, Ready, get, get_handle
  <2> QED  BY <1>1, <2>1, <2>2, IdleServed DEF RequiresInv
<1>3. CASE compositor_terminate
  <2>1. /\ phase' = "remove"
        /\ UNCHANGED <<unread, slot, names, groups, mapped, loaded, needed, stack>>
    BY <1>3 DEF compositor_terminate, pool_tables
  <2>2. Grows
    BY <2>1 DEF Grows, Ready, get, get_handle
  <2> QED  BY <1>1, <2>1, <2>2, IdleServed DEF RequiresInv
<1>4. CASE UNCHANGED vars
  <2>1. Ready' = Ready
    BY <1>4 DEF vars, Ready
  <2>2. \A p : AllServed(p)' = AllServed(p)
    BY <1>4, <2>1 DEF vars, AllServed, Served, Serves, get, get_handle, get_group
  <2>3. \A f : FrameServed(f)' = FrameServed(f)
    BY <1>4, <2>1, <2>2 DEF vars, FrameServed, AllServed, Served, Serves, get, get_handle,
                            get_group, entry, array
  <2>4. GroupsNamed'
    BY <1>4 DEF vars, RequiresInv, ServedInv, GroupsNamed, get_group
  <2>5. \A f, d : Asked(f, d)' = Asked(f, d)
    BY <1>4 DEF vars, Asked, array, entry, IsGroup, get_group
  <2> QED  BY <1>1, <1>4, <2>2, <2>3, <2>4, <2>5 DEF vars, RequiresInv, ServedInv, Top
<1> QED  BY <1>1, <1>2, <1>3, <1>4, RegisterServed, LoadAllServed, RemoveAllServed
         DEF Next, Work, RequiresInv

\* While a plugin runs, each plugin it requires runs, and will not be
\* deloaded before it: through the recursive loading, through inits that
\* fail half way up, and through the teardown.
THEOREM RequirementsRun ==
    ASSUME NEW rank \in [Names -> Nat], Ranks(rank), GroupsLast
    PROVE  Spec => []RequiredLoaded
<1>1. Ranking(rank)
  BY DEF Ranking
<1>2. Init => RequiresInv(rank)
  BY InitLoaderInv DEF Init, RequiresInv, ServedInv, GroupsNamed, get_group
<1>3. RequiresInv(rank) /\ [Next]_vars => RequiresInv(rank)'
  BY <1>1, NextServed
<1>4. RequiresInv(rank) => RequiredLoaded
  BY DEF RequiresInv, ServedInv, AllServed, Served, Serves, Ready, RequiredLoaded, Met
<1> QED  BY <1>2, <1>3, <1>4, PTL DEF Spec

-----------------------------------------------------------------------------
(***************************************************************************)
(* LoadOrder, for every catalogue as before in which nothing follows, in   *)
(* an array "after", a group or a plugin that names its plugin in turn.    *)
(***************************************************************************)

\* A load_plugin(d) from now on starts nothing: d runs, or is given up.
Settled(d) == d \in loaded \/ ~Usable(d)

\* p need not wait for what n names any more.
Placed(p, n) ==
    IF get_group(n) /\ ~belongs_to_pool(Info[p].groups, n)
    THEN \A h \in Range(groups[n]) : Settled(slot[h])
    ELSE Settled(get(n)) \/ Circular(p, get(n))

AllPlaced(p) == \A n \in Range(Info[p].after) : Placed(p, n)

\* What load_deps_from_array has done with "after" for the plugin of f; while
\* it waits in load_dep, the entry still leads to the plugin it waits for.
FramePlaced(f) ==
    f.pc = "after" =>
      /\ \A j \in 1..Len(Info[f.plugin].after) :
           j < f.i => Placed(f.plugin, Info[f.plugin].after[j])
      /\ f.g > 0 => \A k \in 1..Len(groups[entry(f)]) :
           k < f.g => Settled(slot[groups[entry(f)][k]])
      /\ f.g = 0 /\ f.dep # NULL =>
           f.i <= Len(Info[f.plugin].after) /\ get(entry(f)) \in {f.dep, NULL}

\* The groups of a registered plugin list it.
InItsGroups ==
    \A h \in Handles : slot[h] # NULL =>
        \A n \in Range(Info[slot[h]].groups) : get_group(n) /\ h \in Range(groups[n])

Ordered ==
    phase = "load" =>
        /\ \A p \in loaded : AllPlaced(p)
        /\ \A f \in Range(stack) : FramePlaced(f)

OrderInv(rank) == RequiresInv(rank) /\ InItsGroups /\ Ordered

-----------------------------------------------------------------------------
(* What keeps a plugin placed *)

\* A step that lets nothing start again: this is each step of plugin_load_all.
Keeps ==
    /\ groups' = groups
    /\ \A h \in Handles : slot'[h] \in {slot[h], NULL}
    /\ \A n \in Names : names'[n] \in {names[n], NULL}
    /\ \A d : Settled(d) => Settled(d)'

LEMMA NullSettled == TypeOK => Settled(NULL)
BY NullIsFresh, LoaderConstants DEF TypeOK, Settled, Usable

LEMMA GetKept ==
    ASSUME TypeOK, Keeps, NEW n \in Names
    PROVE  get(n)' \in {get(n), NULL}
<1>1. names'[n] \in {names[n], NULL}
  BY DEF Keeps
<1>2. CASE names'[n] = NULL
  BY <1>2 DEF get, get_handle
<1>3. CASE names'[n] # NULL
  <2>1. PICK h \in Handles : h = names[n] /\ h = names'[n]
    BY <1>1, <1>3 DEF TypeOK
  <2>2. slot'[h] \in {slot[h], NULL}
    BY DEF Keeps
  <2> QED  BY <1>3, <2>1, <2>2 DEF get, get_handle
<1> QED  BY <1>2, <1>3

LEMMA SettledKept ==
    ASSUME TypeOK, Keeps, NEW d, NEW e, Settled(d), e \in {d, NULL}
    PROVE  Settled(e)'
BY NullSettled DEF Keeps

LEMMA MembersKept ==
    ASSUME TypeOK, Keeps, NEW h \in Handles, Settled(slot[h])
    PROVE  Settled(slot[h])'
<1>1. PICK d, e : d = slot[h] /\ e = slot'[h]
  OBVIOUS
<1>2. Settled(d) /\ e \in {d, NULL}
  BY <1>1 DEF Keeps
<1>3. Settled(e)'
  BY <1>2, SettledKept
<1> QED  BY <1>1, <1>3 DEF Settled, Usable

LEMMA PlacedKept ==
    ASSUME TypeOK, Keeps, NEW p \in Objects, NEW n \in Names, Placed(p, n)
    PROVE  Placed(p, n)'
<1>1. groups' = groups
  BY DEF Keeps
<1>2. CASE get_group(n) /\ ~belongs_to_pool(Info[p].groups, n)
  <2>1. \A h \in Range(groups[n]) : h \in Handles
    BY <1>2, LenProperties, ElementOfSeq DEF TypeOK, Range, get_group
  <2>2. \A h \in Range(groups[n]) : Settled(slot[h])'
    BY <1>2, <2>1, MembersKept DEF Placed
  <2> QED  BY <1>1, <1>2, <2>2 DEF Placed, get_group
<1>3. CASE ~(get_group(n) /\ ~belongs_to_pool(Info[p].groups, n))
  <2>1. PICK d, e : d = get(n) /\ e = get(n)'
    OBVIOUS
  <2>2. e \in {d, NULL} /\ (Settled(d) \/ Circular(p, d))
    BY <1>3, <2>1, GetKept DEF Placed
  <2>3. Settled(e)' \/ (e = d /\ Circular(p, d))
    BY <2>2, SettledKept, NullSettled
  <2>4. Settled(get(n))' \/ Circular(p, get(n))'
    BY <2>1, <2>3 DEF Settled, Usable, Circular
  <2> QED  BY <1>1, <1>3, <2>4 DEF Placed, get_group
<1> QED  BY <1>2, <1>3

LEMMA AllPlacedKept ==
    ASSUME TypeOK, Keeps, NEW p \in Objects, AllPlaced(p)
    PROVE  AllPlaced(p)'
<1>1. \A n \in Range(Info[p].after) : n \in Names
  BY InfoArrays, LenProperties, ElementOfSeq DEF Range
<1> QED  BY <1>1, PlacedKept DEF AllPlaced

LEMMA FramePlacedKept ==
    ASSUME TypeOK, Keeps, NEW f \in Frame, f.g > 0 => f.i <= Len(array(f)) /\ IsGroup(f),
           FramePlaced(f)
    PROVE  FramePlaced(f)'
<1>1. /\ f.plugin \in Objects /\ Info[f.plugin].after \in Seq(Names)
      /\ f.i \in Nat \ {0} /\ f.g \in Nat
  BY InfoArrays DEF Frame
<1>2. SUFFICES ASSUME f.pc = "after" PROVE FramePlaced(f)'
  BY DEF FramePlaced
<1>3. array(f) = Info[f.plugin].after /\ entry(f) = Info[f.plugin].after[f.i]
  BY <1>2 DEF array, entry
<1>4. f.i <= Len(Info[f.plugin].after) => entry(f) \in Names
  <2>1. f.i <= Len(Info[f.plugin].after) => f.i \in 1..Len(Info[f.plugin].after)
    BY <1>1, LenProperties
  <2> QED  BY <1>1, <1>3, <2>1, ElementOfSeq
<1>5. \A j \in 1..Len(Info[f.plugin].after) : Info[f.plugin].after[j] \in Names
  BY <1>1, ElementOfSeq
<1>6. ASSUME NEW j \in 1..Len(Info[f.plugin].after), j < f.i
      PROVE  Placed(f.plugin, Info[f.plugin].after[j])'
  BY <1>1, <1>2, <1>5, <1>6, PlacedKept DEF FramePlaced
<1>7. PICK e : e = entry(f)
  OBVIOUS
<1>8. e = entry(f)' /\ groups' = groups
  BY <1>7 DEF entry, array, Keeps
<1>9. ASSUME f.g > 0, NEW k \in 1..Len(groups[e]), k < f.g
      PROVE  Settled(slot[groups[e][k]])'
  <2>1. e \in Names /\ get_group(e)
    BY <1>3, <1>4, <1>7, <1>9 DEF IsGroup
  <2>2. groups[e] \in Seq(Handles)
    BY <2>1 DEF TypeOK, get_group
  <2>3. PICK h \in Handles : h = groups[e][k]
    BY <2>2, ElementOfSeq
  <2>4. Settled(slot[h])
    BY <1>2, <1>7, <1>9, <2>3 DEF FramePlaced
  <2>5. Settled(slot[h])'
    BY <2>4, MembersKept
  <2> QED  BY <1>8, <2>3, <2>5
<1>10. ASSUME f.g = 0, f.dep # NULL
       PROVE  f.i <= Len(Info[f.plugin].after) /\ get(e)' \in {f.dep, NULL}
  <2>1. f.i <= Len(Info[f.plugin].after) /\ get(e) \in {f.dep, NULL}
    BY <1>2, <1>7, <1>10 DEF FramePlaced
  <2>2. get(e)' \in {get(e), NULL}
    BY <1>4, <1>7, <2>1, GetKept
  <2> QED  BY <2>1, <2>2
<1>11. f.g > 0 => \A k \in 1..Len(groups'[e]) : k < f.g => Settled(slot[groups[e][k]])'
  BY <1>8, <1>9
<1>12. entry(f)' = e /\ e = array(f)[f.i]
  BY <1>7, <1>8 DEF entry
<1> QED  BY <1>6, <1>10, <1>11, <1>12
         DEF FramePlaced, Settled, Usable, get, get_handle, entry, array

\* Nothing but a failure of a plugin from a file takes something back.
LEMMA LoadFailsKeeps ==
    ASSUME TypeOK, NEW p \in Objects, p # Core, LoadFails(p)
    PROVE  Keeps
<1>1. groups' = groups /\ slot' = slot
  BY DEF LoadFails
<1>2. \A n \in Names : names'[n] \in {names[n], NULL}
  BY DEF LoadFails, deload, TypeOK
<1>3. \A d : Settled(d) => Settled(d)'
  BY DEF LoadFails, deload, Settled, Usable
<1> QED  BY <1>1, <1>2, <1>3 DEF Keeps

\* The others start plugins, give up slots, or only note something.
LEMMA OthersKeep ==
    ASSUME TypeOK, UNCHANGED <<names, groups, mapped>>, loaded \subseteq loaded',
           \A h \in Handles : slot'[h] \in {slot[h], NULL}
    PROVE  Keeps
BY DEF Keeps, Settled, Usable

\* What a step of load_deps_from_array comes down to.
LEMMA Resolution ==
    ASSUME NEW rank, Ranking(rank), RequiresInv(rank), ResolveDependency
    PROVE  \/ EnterGroup \/ SkipMember
           \/ MissingDependency /\ ~hard(Top) /\ Step(Advance(Top))
           \/ CircularDependency /\ ~hard(Top) /\ ArrayDone(Top)
           \/ Top.plugin # Core /\ LoadFails(Top.plugin)
           \/ \E d \in Objects :
                /\ Depend(Top, d) /\ Asked(Top, d) /\ (d \notin loaded => ~Usable(d))
                /\ Candidate(Top, d) \/ d = Top.dep
           \/ \E d \in Objects : LoadDependency(d)
<1> USE DEF RequiresInv, LoaderInv, Bookkeeping
<1>1. /\ phase = "load" /\ stack # <<>> /\ Walking
  BY DEF ResolveDependency, EnterGroup, SkipMember, MissingDependency,
         CircularDependency, DependOnReady, LoadDependency, DependencyReturned, Walking
<1>2. ASSUME InArray(Top), hard(Top) PROVE Top.plugin # Core
  BY <1>1, <1>2, TopCall, CoreLoadsNothing DEF InArray, hard, array, Frame
<1>3. CASE MissingDependency
  BY <1>2, <1>3 DEF MissingDependency
<1>4. CASE CircularDependency
  BY <1>2, <1>4 DEF CircularDependency
<1>5. ASSUME NEW d \in Objects, DependOnReady(d)
      PROVE  \/ Top.plugin # Core /\ LoadFails(Top.plugin)
             \/ /\ Depend(Top, d) /\ Asked(Top, d) /\ Candidate(Top, d)
                /\ d \notin loaded => ~Usable(d)
  <2>1. Top.plugin # Core /\ Asked(Top, d) /\ Candidate(Top, d)
    BY <1>1, <1>5, CandidateMayLoad, CandidateAsked, CoreLoadsNothing DEF DependOnReady
  <2> QED  BY <1>5, <2>1 DEF DependOnReady
<1>6. CASE DependencyReturned
  <2>1. /\ Top.dep \in Objects /\ MayLoad(Top.plugin, Top.dep) /\ Answer(Top.dep)
        /\ Asked(Top, Top.dep)
    BY <1>1, <1>6 DEF DependencyReturned, Returned, Waits, ServedInv
  <2>2. Top.plugin # Core
    BY <2>1, CoreLoadsNothing
  <2> QED  BY <1>6, <2>1, <2>2 DEF DependencyReturned, Answer
<1> QED  BY <1>3, <1>4, <1>5, <1>6 DEF ResolveDependency

LEMMA LoadKeeps ==
    ASSUME NEW rank, Ranking(rank), RequiresInv(rank), plugin_load_all
    PROVE  Keeps
<1> USE DEF RequiresInv, LoaderInv, Bookkeeping
<1>1. ASSUME phase = "load", stack # <<>> PROVE Top.plugin \in Objects
  BY <1>1, TopCall
<1>2. CASE LoadNext
  BY <1>2, OthersKeep DEF LoadNext, TypeOK
<1>3. CASE LoadReturned
  BY <1>3, OthersKeep DEF LoadReturned, TypeOK
<1>4. CASE LoadAllDone \/ InitSucceeds
  BY <1>4, OthersKeep DEF LoadAllDone, InitSucceeds, pool_tables
<1>5. CASE InitFails
  BY <1>1, <1>5, LoadFailsKeeps DEF InitFails, Initialising
<1>6. ASSUME ArrayDone(Top) PROVE Keeps
  BY <1>6, OthersKeep DEF ArrayDone, pool_tables
<1>7. ASSUME NEW f, Step(f) PROVE Keeps
  BY <1>7, OthersKeep DEF Step, pool_tables
<1>8. ASSUME NEW d, Depend(Top, d) \/ LoadDependency(d) PROVE Keeps
  BY <1>8, OthersKeep DEF Depend, LoadDependency, pool_tables
<1>9. CASE FinishArray
  BY <1>6, <1>9 DEF FinishArray
<1>10. CASE ResolveDependency
  <2>1. phase = "load" /\ stack # <<>>
    BY <1>10 DEF ResolveDependency, EnterGroup, SkipMember, MissingDependency,
       CircularDependency, DependOnReady, LoadDependency, DependencyReturned, Walking
  <2>2. CASE EnterGroup \/ SkipMember
    BY <1>7, <2>2 DEF EnterGroup, SkipMember
  <2> QED  BY <1>1, <1>6, <1>7, <1>8, <1>10, <2>1, <2>2, Resolution, LoadFailsKeeps
<1> QED  BY <1>2, <1>3, <1>4, <1>5, <1>9, <1>10 DEF plugin_load_all

-----------------------------------------------------------------------------
(* The walk over "after" *)

LEMMA AdvancePlaced ==
    ASSUME NEW rank, OrderInv(rank), phase = "load", stack # <<>>,
           Top.pc = "after" => IF Top.g > 0 THEN Settled(slot[groups[entry(Top)][Top.g]])
                                            ELSE Placed(Top.plugin, entry(Top))
    PROVE  FramePlaced(Advance(Top)) /\ Advance(Top) \in Frame
<1> USE DEF OrderInv, RequiresInv, LoaderInv, Bookkeeping
<1>1. PICK t \in Frame : t = Top
  BY TopCall
<1>2. t.i \in Nat \ {0} /\ t.g \in Nat /\ FramePlaced(t)
  BY <1>1, Frames DEF Ordered, TypeOK, Frame
<1>3. PICK f \in Frame :
        /\ f = Advance(t) /\ f.plugin = t.plugin /\ f.pc = t.pc /\ f.dep = NULL
        /\ IF t.g > 0 THEN f.i = t.i /\ f.g = t.g + 1 ELSE f.i = t.i + 1 /\ f.g = t.g
  <2>1. Advance(t) \in Frame
    BY <1>1, TopCall, NewFrames
  <2>2. /\ Advance(t).plugin = t.plugin /\ Advance(t).pc = t.pc /\ Advance(t).dep = NULL
        /\ IF t.g > 0 THEN Advance(t).i = t.i /\ Advance(t).g = t.g + 1
                      ELSE Advance(t).i = t.i + 1 /\ Advance(t).g = t.g
    BY DEF Advance, Frame
  <2> QED  BY <2>1, <2>2
<1>4. SUFFICES ASSUME t.pc = "after" PROVE FramePlaced(f)
  BY <1>1, <1>3 DEF FramePlaced
<1>5. \A j \in 1..Len(Info[t.plugin].after) :
        j < t.i => Placed(t.plugin, Info[t.plugin].after[j])
  BY <1>2, <1>4 DEF FramePlaced
<1>6. CASE t.g > 0
  <2>1. entry(f) = entry(t) /\ f.g = t.g + 1 /\ f.i = t.i
    BY <1>3, <1>6 DEF entry, array
  <2>2. \A k \in 1..Len(groups[entry(t)]) : k < t.g + 1 => k < t.g \/ k = t.g
    BY <1>2
  <2>3. \A k \in 1..Len(groups[entry(t)]) : k < t.g => Settled(slot[groups[entry(t)][k]])
    BY <1>2, <1>4, <1>6 DEF FramePlaced
  <2>4. Settled(slot[groups[entry(t)][t.g]])
    BY <1>1, <1>4, <1>6
  <2>5. \A k \in 1..Len(groups[entry(f)]) : k < f.g => Settled(slot[groups[entry(f)][k]])
    BY <2>1, <2>2, <2>3, <2>4
  <2> QED  BY <1>3, <1>5, <2>1, <2>5 DEF FramePlaced
<1>7. CASE ~(t.g > 0)
  <2>1. f.g = 0 /\ f.i = t.i + 1
    BY <1>2, <1>3, <1>7
  <2>2. \A j \in 1..Len(Info[t.plugin].after) : j < t.i + 1 => j < t.i \/ j = t.i
    BY <1>2
  <2>3. Placed(t.plugin, Info[t.plugin].after[t.i])
    BY <1>1, <1>4, <1>7 DEF entry, array
  <2>4. \A j \in 1..Len(Info[t.plugin].after) :
          j < f.i => Placed(f.plugin, Info[f.plugin].after[j])
    BY <1>3, <1>5, <2>1, <2>2, <2>3
  <2> QED  BY <1>3, <2>1, <2>4 DEF FramePlaced
<1> QED  BY <1>6, <1>7

\* The walk ends at the end of the array, at a group or at a plugin that
\* names p in turn; behind these two p asks for nothing.
LEMMA ArrayPlaced ==
    ASSUME NEW rank, OrderInv(rank), AfterLast, Top.pc = "after",
           FinishArray \/ CircularDependency
    PROVE  AllPlaced(Top.plugin)
<1> USE DEF OrderInv, RequiresInv, LoaderInv, Bookkeeping
<1>1. phase = "load" /\ stack # <<>>
  BY DEF FinishArray, CircularDependency, Walking
<1>2. PICK t \in Frame, p \in Objects : t = Top /\ p = t.plugin
  BY <1>1, TopCall DEF Frame
<1>3. PICK after \in Seq(Names) : after = Info[p].after
  BY <1>1, <1>2, TopCall, InfoArrays
<1>4. /\ p \in Objects /\ t.i \in Nat \ {0} /\ t.g \in Nat /\ FramePlaced(t) /\ LoadFrame(t)
      /\ array(t) = after /\ entry(t) = after[t.i] /\ t.pc = "after"
  BY <1>1, <1>2, <1>3, TopCall, Frames DEF Ordered, TypeOK, Frame, array, entry
<1>5. PICK m \in Nat, x \in Nat \ {0} :
        m = Len(after) /\ DOMAIN after = 1..m /\ x = t.i
  BY <1>3, <1>4, LenProperties
<1>6. \A j \in 1..m : j < x => Placed(p, after[j])
  BY <1>2, <1>3, <1>4, <1>5 DEF FramePlaced
<1>7. ASSUME t.i <= Len(after)
      PROVE  /\ t.i \in 1..Len(after) /\ after[t.i] \in Names /\ t.i \in DOMAIN Info[p].after
             /\ Info[p].after[t.i] = after[t.i]
             /\ t.i < Len(Info[p].after) \/ t.i = Len(after)
  <2>1. t.i \in 1..Len(after)
    BY <1>4, <1>5, <1>7
  <2> QED  BY <1>3, <1>5, <2>1, ElementOfSeq
<1> SUFFICES ASSUME NEW j \in 1..m PROVE Placed(p, after[j])
  BY <1>2, <1>3, <1>5 DEF AllPlaced, Range
<1>8. CASE t.g = 0 /\ t.i > Len(after)
  <2>1. j < x
    BY <1>5, <1>8
  <2> QED  BY <1>6, <2>1
<1>9. CASE t.g > 0 /\ ~InGroup(t)
  <2>1. /\ t.i <= Len(after) /\ IsGroup(t) /\ get_group(after[t.i])
        /\ ~belongs_to_pool(Info[p].groups, after[t.i])
    BY <1>2, <1>4, <1>9 DEF LoadFrame, IsGroup
  <2>2. PICK o \in Objects : after[t.i] \in Range(Info[o].groups)
    BY <1>7, <2>1 DEF ServedInv, GroupsNamed
  <2>3. ~(t.i < Len(Info[p].after))
    BY <1>4, <1>7, <2>1, <2>2 DEF AfterLast
  <2>4. groups[after[t.i]] \in Seq(Handles)
    BY <1>7, <2>1 DEF TypeOK, get_group
  <2>5. \A k \in 1..Len(groups[after[t.i]]) : k < t.g
    BY <1>4, <1>9, <2>4, LenProperties DEF InGroup
  <2>6. \A k \in 1..Len(groups[after[t.i]]) : k < t.g => Settled(slot[groups[after[t.i]][k]])
    BY <1>4, <1>9 DEF FramePlaced
  <2>7. \A h \in Range(groups[after[t.i]]) : Settled(slot[h])
    BY <2>4, <2>5, <2>6, LenProperties DEF Range
  <2>8. Placed(p, after[t.i])
    BY <2>1, <2>7 DEF Placed
  <2>9. t.i = Len(after)
    BY <1>7, <2>1, <2>3
  <2>10. j < x \/ j = x
    BY <1>5, <2>9
  <2> QED  BY <1>5, <1>6, <2>8, <2>10
<1>10. CASE InArray(t) /\ ~IsGroup(t) /\ get(entry(t)) # NULL /\ Circular(p, get(entry(t)))
  <2>1. t.i <= Len(after)
    BY <1>4, <1>10 DEF InArray
  <2>2. PICK o : o = get(after[t.i])
    OBVIOUS
  <2>3. o \in Objects /\ Info[o].name = after[t.i] /\ Circular(p, o)
    BY <1>4, <1>7, <1>10, <2>1, <2>2, Resolves
  <2>4. ~(t.i < Len(Info[p].after))
    BY <1>4, <1>7, <2>1, <2>3 DEF AfterLast
  <2>5. Placed(p, after[t.i])
    BY <1>2, <1>4, <1>10, <2>2, <2>3 DEF Placed, IsGroup
  <2>6. t.i = Len(after)
    BY <1>7, <2>1, <2>4
  <2>7. j < x \/ j = x
    BY <1>5, <2>6
  <2> QED  BY <1>5, <1>6, <2>5, <2>7
<1>11. CASE FinishArray
  <2>1. ~InArray(t) /\ ~InGroup(t)
    BY <1>2, <1>11 DEF FinishArray
  <2>2. t.g = 0 => t.i > Len(after)
    BY <1>4, <1>5, <2>1 DEF InArray
  <2> QED  BY <1>4, <1>8, <1>9, <2>1, <2>2
<1>12. CASE CircularDependency
  BY <1>2, <1>10, <1>12 DEF CircularDependency
<1> QED  BY <1>11, <1>12

-----------------------------------------------------------------------------
(* What a step of plugin_load_all leaves placed *)

\* new are the calls that the step puts in the place of others.
LEMMA OrderedKept ==
    ASSUME NEW rank, Ranking(rank), OrderInv(rank), LoaderInv(rank)', plugin_load_all,
           phase = "load", NEW new \in SUBSET Frame,
           phase' = "load" => Range(stack') \subseteq Range(stack) \cup new,
           \A f \in new : FramePlaced(f),
           \A p \in loaded' \ loaded : AllPlaced(p)
    PROVE  Ordered'
<1> USE DEF OrderInv, RequiresInv, LoaderInv, Bookkeeping
<1>1. Keeps
  BY LoadKeeps
<1>2. ASSUME NEW p \in loaded' PROVE AllPlaced(p)'
  <2>1. p \in Objects /\ AllPlaced(p)
    BY DEF Ordered, TypeOK
  <2> QED  BY <1>1, <2>1, AllPlacedKept
<1>3. ASSUME phase' = "load", NEW f \in Range(stack') PROVE FramePlaced(f)'
  <2>1. f \in Frame /\ FramePlaced(f)
    <3>1. stack' \in Seq(Frame)
      BY DEF TypeOK
    <3>2. f \in Frame
      BY <1>3, <3>1, LenProperties, ElementOfSeq DEF Range
    <3>3. FramePlaced(f)
      BY <1>3 DEF Ordered
    <3> QED  BY <3>2, <3>3
  <2>2. f.g > 0 => f.i <= Len(array(f)) /\ IsGroup(f)
    BY <1>1, <1>3 DEF LoadStack, LoadFrame, Keeps, IsGroup, get_group, entry, array
  <2> QED  BY <1>1, <2>1, <2>2, FramePlacedKept
<1> QED  BY <1>2, <1>3 DEF Ordered

\* A call that begins has placed nothing yet.
LEMMA CallPlaced ==
    ASSUME NEW p \in Objects, NEW pc \in {"requires", "after", "init"}
    PROVE  FramePlaced(Call(p, pc)) /\ Call(p, pc) \in Frame
<1>1. Call(p, pc) \in Frame
  BY DEF Frame, Call
<1>2. /\ Call(p, pc).plugin = p /\ Call(p, pc).i = 1 /\ Call(p, pc).g = 0
      /\ Call(p, pc).dep = NULL
  BY DEF Call
<1>3. \A j \in 1..Len(Info[p].after) : ~(j < 1)
  BY InfoArrays, LenProperties
<1> QED  BY <1>1, <1>2, <1>3 DEF FramePlaced

\* The call on top is replaced by f, and perhaps calls c.
LEMMA TopPlaced ==
    ASSUME NEW rank, Ranking(rank), OrderInv(rank), LoaderInv(rank)', plugin_load_all,
           phase = "load", stack # <<>>, loaded' = loaded,
           NEW f \in Frame, FramePlaced(f), NEW c \in Frame, FramePlaced(c),
           stack' = Become(f) \/ stack' = Append(Become(f), c)
    PROVE  Ordered'
<1>1. stack \in Seq(Frame)
  BY DEF OrderInv, RequiresInv, LoaderInv, TypeOK
<1>2. PICK new \in SUBSET Frame : new = {f, c}
  OBVIOUS
<1>3. Range(stack') \subseteq Range(Under) \cup new /\ Range(Under) \subseteq Range(stack)
  <2>1. /\ Range(stack) = Range(Under) \cup {Top}
        /\ Range(Become(f)) = Range(Under) \cup {f}
        /\ Range(Append(Become(f), c)) = Range(Under) \cup {f, c}
    BY <1>1, Frames
  <2>2. CASE stack' = Become(f)
    BY <1>2, <2>1, <2>2
  <2>3. CASE stack' = Append(Become(f), c)
    BY <1>2, <2>1, <2>3
  <2> QED  BY <2>2, <2>3
<1>4. Range(stack') \subseteq Range(stack) \cup new
  BY <1>3
<1>5. (\A g \in new : FramePlaced(g)) /\ \A p \in loaded' \ loaded : AllPlaced(p)
  BY <1>2
<1> QED  BY <1>4, <1>5, OrderedKept

LEMMA ReturnPlaced ==
    ASSUME NEW rank, Ranking(rank), OrderInv(rank), LoaderInv(rank)', plugin_load_all,
           phase = "load", stack # <<>>, loaded' \subseteq loaded, stack' = Under
    PROVE  Ordered'
<1>1. Range(stack') \subseteq Range(stack) \cup {}
  BY Frames DEF OrderInv, RequiresInv, LoaderInv, TypeOK
<1>2. {} \in SUBSET Frame /\ \A p \in loaded' \ loaded : AllPlaced(p)
  OBVIOUS
<1> QED  BY <1>1, <1>2, OrderedKept

\* load_dep is handed d for the element that the call on top has come to.
LEMMA EntryPlaced ==
    ASSUME NEW rank, Ranking(rank), OrderInv(rank), phase = "load", stack # <<>>,
           NEW d \in Objects, Asked(Top, d), Settled(d), Candidate(Top, d) \/ d = Top.dep,
           Top.pc = "after"
    PROVE  IF Top.g > 0 THEN Settled(slot[groups[entry(Top)][Top.g]])
                        ELSE Placed(Top.plugin, entry(Top))
<1> USE DEF OrderInv, RequiresInv, LoaderInv, Bookkeeping
<1>1. Top \in Frame /\ Top.g \in Nat /\ FramePlaced(Top)
  BY TopCall, Frames DEF Ordered, TypeOK, Frame
<1>2. CASE Top.g > 0
  BY <1>1, <1>2 DEF Asked
<1>3. CASE Top.g = 0
  <2>1. ~IsGroup(Top)
    BY <1>3 DEF Asked
  <2>2. PICK e : e = get(entry(Top))
    OBVIOUS
  <2>3. e \in {d, NULL}
    BY <1>1, <1>3, <2>2, NullIsFresh DEF FramePlaced, Candidate, InGroup
  <2>4. Settled(e)
    BY <2>3, NullSettled
  <2> QED  BY <1>3, <2>1, <2>2, <2>4 DEF Placed, IsGroup
<1> QED  BY <1>1, <1>2, <1>3

LEMMA ArrayDonePlaced ==
    ASSUME NEW rank, Ranking(rank), OrderInv(rank), LoaderInv(rank)', AfterLast,
           FinishArray \/ CircularDependency, ArrayDone(Top), plugin_load_all
    PROVE  Ordered'
<1> USE DEF OrderInv, RequiresInv, LoaderInv, Bookkeeping
<1>1. phase = "load" /\ stack # <<>> /\ Top.pc \in {"requires", "after"}
  BY DEF FinishArray, CircularDependency, Walking
<1>2. Top.plugin \in Objects /\ stack \in Seq(Frame)
  BY <1>1, TopCall DEF TypeOK
<1>3. PICK c \in Frame : stack' = Become(c) /\ FramePlaced(c)
  BY <1>2, CallPlaced DEF ArrayDone
<1>4. \A p \in loaded' \ loaded : AllPlaced(p)
  BY <1>1, ArrayPlaced DEF ArrayDone
<1>5. PICK new \in SUBSET Frame : new = {c}
  OBVIOUS
<1>6. Range(stack') \subseteq Range(stack) \cup new
  BY <1>1, <1>2, <1>3, <1>5, Frames
<1> QED  BY <1>1, <1>3, <1>4, <1>5, <1>6, OrderedKept

LEMMA ResolvePlaced ==
    ASSUME NEW rank, Ranking(rank), OrderInv(rank), LoaderInv(rank)', AfterLast,
           ResolveDependency
    PROVE  Ordered'
<1> USE DEF OrderInv, RequiresInv, LoaderInv, Bookkeeping
<1>1. /\ phase = "load" /\ stack # <<>> /\ Top.pc \in {"requires", "after"}
      /\ plugin_load_all
  BY DEF ResolveDependency, EnterGroup, SkipMember, MissingDependency, plugin_load_all,
         CircularDependency, DependOnReady, LoadDependency, DependencyReturned, Walking
<1>2. Top \in Frame /\ Top.plugin \in Objects /\ FramePlaced(Top) /\ Top.g \in Nat
  BY <1>1, TopCall, Frames DEF TypeOK, Ordered, Frame
<1>3. CASE EnterGroup
  <2>1. PICK f \in Frame : f = [Top EXCEPT !.g = 1]
    BY <1>2, NewFrames
  <2>2. f.plugin = Top.plugin /\ f.pc = Top.pc /\ f.i = Top.i /\ f.g = 1
    BY <1>2, <2>1 DEF Frame
  <2>3. FramePlaced(f)
    <3>1. \A j \in 1..Len(groups[entry(f)]) : ~(j < 1)
      OBVIOUS
    <3> QED  BY <1>2, <2>2, <3>1 DEF FramePlaced
  <2> QED  BY <1>1, <1>3, <2>1, <2>3, TopPlaced DEF EnterGroup, Step
<1>4. ASSUME Top.pc = "after" => IF Top.g > 0 THEN Settled(slot[groups[entry(Top)][Top.g]])
                                              ELSE Placed(Top.plugin, entry(Top)),
             stack' = Become(Advance(Top)), loaded' = loaded
      PROVE  Ordered'
  <2>1. FramePlaced(Advance(Top)) /\ Advance(Top) \in Frame
    BY <1>1, <1>4, AdvancePlaced
  <2> QED  BY <1>1, <1>4, <2>1, TopPlaced
<1>5. CASE SkipMember
  BY <1>4, <1>5, NullSettled DEF SkipMember, InGroup, Step
<1>6. CASE MissingDependency /\ ~hard(Top) /\ Step(Advance(Top))
  BY <1>4, <1>6, NullSettled DEF MissingDependency, InArray, IsGroup, Placed, Step
<1>7. CASE CircularDependency /\ ~hard(Top) /\ ArrayDone(Top)
  BY <1>1, <1>7, ArrayDonePlaced
<1>8. CASE LoadFails(Top.plugin)
  <2>1. loaded' \subseteq loaded
    BY <1>8 DEF LoadFails, deload
  <2> QED  BY <1>1, <1>8, <2>1, ReturnPlaced DEF LoadFails
<1>9. ASSUME NEW d \in Objects, Depend(Top, d), Asked(Top, d), d \notin loaded => ~Usable(d),
             Candidate(Top, d) \/ d = Top.dep
      PROVE  Ordered'
  <2>1. Settled(d)
    BY <1>9 DEF Settled
  <2>2. Top.pc = "after" => IF Top.g > 0 THEN Settled(slot[groups[entry(Top)][Top.g]])
                                         ELSE Placed(Top.plugin, entry(Top))
    BY <1>1, <1>9, <2>1, EntryPlaced
  <2> QED  BY <1>4, <1>9, <2>2 DEF Depend, pool_tables
<1>10. ASSUME NEW d \in Objects, LoadDependency(d) PROVE Ordered'
  <2>1. PICK f \in Frame : f = [Top EXCEPT !.dep = d]
    BY <1>2, NewFrames
  <2>2. f.plugin = Top.plugin /\ f.pc = Top.pc /\ f.i = Top.i /\ f.g = Top.g /\ f.dep = d
    BY <1>2, <2>1 DEF Frame
  <2>3. array(f) = array(Top) /\ entry(f) = entry(Top)
    BY <2>2 DEF array, entry
  <2>4. Top.g = 0 => Top.i <= Len(array(Top)) /\ get(entry(Top)) = d
    BY <1>10 DEF LoadDependency, Candidate, InArray, InGroup
  <2>5. FramePlaced(f)
    BY <1>2, <2>2, <2>3, <2>4 DEF FramePlaced, array
  <2>6. FramePlaced(Call(d, "requires")) /\ Call(d, "requires") \in Frame
    BY CallPlaced
  <2> QED  BY <1>1, <1>10, <2>1, <2>5, <2>6, TopPlaced DEF LoadDependency
<1> QED  BY <1>3, <1>5, <1>6, <1>7, <1>8, <1>9, <1>10, Resolution

LEMMA LoadAllPlaced ==
    ASSUME NEW rank, Ranking(rank), OrderInv(rank), LoaderInv(rank)', AfterLast,
           plugin_load_all
    PROVE  Ordered'
<1> USE DEF OrderInv, RequiresInv, LoaderInv, Bookkeeping
<1>1. CASE LoadNext
  <2>1. phase = "load" /\ loaded' = loaded /\ Range(<<>>) = {}
    BY <1>1 DEF LoadNext, Range
  <2>2. CASE stack' = stack
    <3>1. {} \in SUBSET Frame /\ Range(stack') \subseteq Range(stack) \cup {}
      BY <2>2
    <3> QED  BY <1>1, <2>1, <3>1, OrderedKept
  <2>3. CASE stack' # stack
    <3>1. PICK p \in Objects : stack' = <<Call(p, "requires")>>
      BY <1>1, <2>3 DEF LoadNext, TypeOK
    <3>2. PICK c \in Frame : c = Call(p, "requires") /\ FramePlaced(c)
      BY CallPlaced
    <3>3. PICK new \in SUBSET Frame : new = {c}
      OBVIOUS
    <3>4. Range(stack') = new
      <4>1. DOMAIN <<c>> = {1} /\ <<c>>[1] = c
        OBVIOUS
      <4> QED  BY <3>1, <3>2, <3>3, <4>1 DEF Range
    <3> QED  BY <2>1, <3>2, <3>3, <3>4, OrderedKept
  <2> QED  BY <2>2, <2>3
<1>2. CASE LoadReturned \/ LoadAllDone
  <2>1. phase = "load" /\ loaded' = loaded /\ stack' = stack
    BY <1>2 DEF LoadReturned, LoadAllDone
  <2>2. {} \in SUBSET Frame /\ Range(stack') \subseteq Range(stack) \cup {}
    BY <2>1
  <2> QED  BY <2>1, <2>2, OrderedKept
<1>3. CASE FinishArray
  BY <1>3, ArrayDonePlaced DEF FinishArray
<1>4. CASE InitSucceeds
  BY <1>4, ReturnPlaced DEF InitSucceeds, Initialising
<1>5. CASE InitFails
  <2>1. phase = "load" /\ stack # <<>> /\ stack' = Under /\ loaded' \subseteq loaded
    BY <1>5 DEF InitFails, Initialising, LoadFails, deload
  <2> QED  BY <2>1, ReturnPlaced
<1> QED  BY <1>1, <1>2, <1>3, <1>4, <1>5, ResolvePlaced DEF plugin_load_all

-----------------------------------------------------------------------------
(* The groups list their members *)

\* A registration puts the handle in each group of its plugin; one that fails
\* takes it out of them, and no other handle.
LEMMA RegisterListed ==
    ASSUME TypeOK, MembersHaveSlots, InItsGroups, phase = "register",
           NEW p \in Objects, NEW h \in Handles, Registers(p, h)
    PROVE  InItsGroups'
<1>1. SUFFICES ASSUME NEW k \in Handles, slot'[k] # NULL, NEW n \in Range(Info[slot'[k]].groups)
               PROVE  groups'[n] # NULL /\ k \in Range(groups'[n])
  BY DEF InItsGroups, get_group
<1> DEFINE joined == Append(members(n), h)
           failed == \E i \in DOMAIN Info[p].groups : AddFails(p, h, i)
<1>2. slot[h] = NULL /\ slot' \in {slot, [slot EXCEPT ![h] = p]}
  BY DEF Registers, FreeSlot
<1>3. slot'[k] \in Objects
  BY <1>1, <1>2 DEF TypeOK
<1>4. n \in Names
  <2>1. Info[slot'[k]].groups \in Seq(Names)
    BY <1>3, InfoArrays
  <2> QED  BY <1>1, <2>1, LenProperties, ElementOfSeq DEF Range
<1>5. members(n) \in Seq(Handles) /\ h \notin Range(members(n))
  <2>1. members(n) \in Seq(Handles)
    BY <1>4, GroupTypes
  <2>2. Range(<<>>) = {}
    BY DEF Range
  <2> QED  BY <1>2, <1>4, <2>1, <2>2 DEF members, get_group, MembersHaveSlots
<1>6. /\ joined \in Seq(Handles) /\ Range(joined) = Range(members(n)) \cup {h}
      /\ \A i, j \in 1..Len(joined) : joined[i] = h /\ joined[j] = h => i = j
  BY <1>5, AppendedMembers
<1>7. k # h => /\ slot[k] = slot'[k] /\ get_group(n)
               /\ k \in Range(members(n)) /\ groups[n] = members(n)
  BY <1>1, <1>2 DEF InItsGroups, members, TypeOK
<1>8. CASE failed
  <2>1. slot' = slot /\ groups' = groups_after_error(p, h)
    BY <1>8 DEF Registers
  <2>2. k # h
    BY <1>1, <1>2, <2>1
  <2>3. \/ groups'[n] = remove_from_group(joined, h)
        \/ groups'[n] = remove_from_group(members(n), h)
        \/ groups'[n] = groups[n]
    BY <1>4, <2>1 DEF groups_after_error
  <2>4. /\ remove_from_group(joined, h) \in Seq(Handles)
        /\ Range(remove_from_group(joined, h)) = Range(joined) \ {h}
    <3> HIDE DEF joined
    <3> QED  BY <1>6, RemovedMembers, RemovedType
  <2>5. remove_from_group(members(n), h) = members(n)
    BY <1>5 DEF remove_from_group
  <2>6. groups'[n] \in Seq(Handles) /\ k \in Range(groups'[n])
    BY <1>5, <1>6, <1>7, <2>2, <2>3, <2>4, <2>5
  <2> QED  BY <2>6, NullIsFresh
<1>9. CASE ~failed
  <2>1. slot' = [slot EXCEPT ![h] = p] /\ groups' = add_to_groups(p, h)
    BY <1>9 DEF Registers
  <2>2. CASE n \in Range(Info[p].groups)
    <3>1. groups'[n] = joined
      BY <1>4, <2>1, <2>2 DEF add_to_groups, belongs_to_pool
    <3> QED  BY <1>6, <1>7, <3>1, NullIsFresh
  <2>3. CASE n \notin Range(Info[p].groups)
    <3>1. groups'[n] = groups[n]
      BY <1>4, <2>1, <2>3 DEF add_to_groups, belongs_to_pool
    <3>2. k # h
      BY <1>1, <2>1, <2>3 DEF TypeOK
    <3> QED  BY <1>7, <3>1, <3>2 DEF get_group
  <2> QED  BY <2>2, <2>3
<1> QED  BY <1>8, <1>9

LEMMA NextListed ==
    ASSUME TypeOK, MembersHaveSlots, InItsGroups, [Next]_vars
    PROVE  InItsGroups'
<1>1. CASE phase # "register"
  <2>1. /\ groups' = groups
        /\ \A h \in Handles : slot'[h] = slot[h] \/ slot'[h] = NULL
    BY <1>1, NextGroups
  <2> QED  BY <2>1 DEF InItsGroups, get_group
<1>2. ASSUME NEW p \in Objects, plugin_register(p) PROVE InItsGroups'
  <2>1. PICK h \in Handles : Registers(p, h)
    BY <1>2 DEF plugin_register, Registers
  <2> QED  BY <1>2, <2>1, RegisterListed DEF plugin_register
<1>3. CASE phase = "register" /\ ~\E p \in Objects : plugin_register(p)
  <2>1. UNCHANGED <<groups, slot>>
    BY <1>3
    DEF Next, Work, Register, RegisterRejects, RegistrationDone, plugin_load_all,
        LoadNext, LoadReturned, LoadAllDone, ResolveDependency, EnterGroup, SkipMember,
        MissingDependency, CircularDependency, DependOnReady, LoadDependency,
        DependencyReturned, Walking, FinishArray, InitSucceeds, InitFails, Initialising,
        plugin_remove_all, RemoveNext, DeloadDependent, Deload, Removing, RemoveAllDone,
        compositor_terminate, vars, pool_tables
  <2> QED  BY <2>1 DEF InItsGroups, get_group
<1> QED  BY <1>1, <1>2, <1>3

-----------------------------------------------------------------------------
(* The order of the starts *)

LEMMA NextOrder ==
    ASSUME NEW rank, Ranking(rank), OrderInv(rank), GroupsLast, AfterLast, [Next]_vars
    PROVE  OrderInv(rank)'
<1> USE DEF OrderInv
<1>1. RequiresInv(rank)' /\ LoaderInv(rank)'
  BY NextServed DEF RequiresInv
<1>2. InItsGroups'
  BY NextListed DEF RequiresInv, LoaderInv
<1> SUFFICES Ordered'
  BY <1>1, <1>2
<1>3. CASE plugin_load_all
  BY <1>1, <1>3, LoadAllPlaced
<1>4. CASE RegistrationDone
  <2>1. stack' = <<>> /\ loaded' = {} /\ Range(<<>>) = {}
    BY <1>4 DEF RegistrationDone, pool_tables, RequiresInv, LoaderInv, Bookkeeping, Phases, Range
  <2> QED  BY <2>1 DEF Ordered
<1>5. CASE UNCHANGED vars
  <2>1. \A p : AllPlaced(p)' = AllPlaced(p)
    BY <1>5 DEF vars, AllPlaced, Placed, Settled, Usable, get, get_handle, get_group
  <2>2. \A f : FramePlaced(f)' = FramePlaced(f)
    BY <1>5 DEF vars, FramePlaced, Placed, Settled, Usable, get, get_handle, get_group,
                entry, array
  <2> QED  BY <1>5, <2>1, <2>2 DEF vars, Ordered
<1>6. CASE Register \/ compositor_terminate \/ plugin_remove_all
  <2>1. phase' # "load"
    BY <1>6 DEF Register, RegisterRejects, plugin_register, compositor_terminate,
                plugin_remove_all, RemoveNext, DeloadDependent, Deload, Removing, RemoveAllDone
  <2> QED  BY <2>1 DEF Ordered
<1> QED  BY <1>3, <1>4, <1>5, <1>6 DEF Next, Work

\* Only the end of a walk over "after" starts a plugin.
LEMMA Starts ==
    ASSUME NEW rank, Ranking(rank), RequiresInv(rank), [Next]_vars, NEW d \in loaded' \ loaded
    PROVE  /\ phase = "load" /\ stack # <<>> /\ d = Top.plugin /\ Top.pc = "after"
           /\ FinishArray \/ CircularDependency
<1>1. ASSUME FinishArray \/ CircularDependency, ArrayDone(Top)
      PROVE  phase = "load" /\ stack # <<>> /\ d = Top.plugin /\ Top.pc = "after"
  BY <1>1 DEF FinishArray, CircularDependency, Walking, ArrayDone
<1>2. \A p : LoadFails(p) => loaded' \subseteq loaded
  BY DEF LoadFails, deload
<1>3. CASE ResolveDependency
  BY <1>1, <1>2, <1>3, Resolution
  DEF EnterGroup, SkipMember, Step, Depend, LoadDependency, pool_tables
<1>4. CASE FinishArray
  BY <1>1, <1>4 DEF FinishArray
<1>5. ~InitFails /\ ~InitSucceeds
  BY <1>2 DEF InitFails, InitSucceeds
<1>6. ~LoadNext /\ ~LoadReturned /\ ~LoadAllDone
  BY DEF LoadNext, LoadReturned, LoadAllDone
<1>7. ~(Register \/ RegistrationDone \/ compositor_terminate \/ plugin_remove_all \/ UNCHANGED vars)
  BY DEF Register, RegisterRejects, plugin_register, RegistrationDone, compositor_terminate,
         plugin_remove_all, RemoveNext, DeloadDependent, Deload, deload, RemoveAllDone, vars
<1> QED  BY <1>3, <1>4, <1>5, <1>6, <1>7 DEF Next, Work, plugin_load_all

LEMMA StartsLate ==
    ASSUME NEW rank, Ranking(rank), OrderInv(rank), [Next]_vars,
           NEW d \in loaded' \ loaded, NEW p \in loaded, Follows(p, d)
    PROVE  Circular(p, d)
<1> USE DEF OrderInv, RequiresInv, LoaderInv, Bookkeeping
<1>1. phase = "load" /\ stack # <<>> /\ d = Top.plugin
  BY Starts
<1>2. d \in Objects /\ Usable(d) /\ ~Settled(d)
  BY <1>1, TopCall DEF LoadFrame, Settled
<1>3. get(Info[d].name) = d
  BY <1>1, <1>2 DEF NamesUnique, Present, Usable
<1>4. AllPlaced(p)
  BY <1>1 DEF Ordered
<1>5. PICK n \in Range(Info[p].after) :
        IF get_group(n) /\ ~belongs_to_pool(Info[p].groups, n)
        THEN n \in Range(Info[d].groups) ELSE n = Info[d].name
  BY DEF Follows
<1>6. Placed(p, n)
  BY <1>4 DEF AllPlaced
<1>7. CASE get_group(n) /\ ~belongs_to_pool(Info[p].groups, n)
  <2>1. PICK h \in Handles : slot[h] = d
    <3>1. Info[d].name \in Names /\ d # NULL
      BY <1>2, InfoArrays, NullIsFresh
    <3>2. names[Info[d].name] \in Handles
      BY <1>3, <3>1 DEF get, get_handle, TypeOK
    <3> QED  BY <1>3, <3>1, <3>2 DEF get, get_handle
  <2>2. h \in Range(groups[n])
    BY <1>2, <1>5, <1>7, <2>1, NullIsFresh DEF InItsGroups
  <2> QED  BY <1>2, <1>6, <1>7, <2>1, <2>2 DEF Placed
<1>8. CASE ~(get_group(n) /\ ~belongs_to_pool(Info[p].groups, n))
  BY <1>2, <1>3, <1>5, <1>6, <1>8 DEF Placed
<1> QED  BY <1>7, <1>8

\* No plugin starts when one that asked to come after it runs already, in
\* whatever order the directory lists the files, however the loading recurses
\* and whichever inits fail; but for two that name each other.
THEOREM StartsInOrder ==
    ASSUME NEW rank \in [Names -> Nat], Ranks(rank), GroupsLast, AfterLast
    PROVE  Spec => LoadOrder
<1>1. Ranking(rank)
  BY DEF Ranking
<1>2. Init => OrderInv(rank)
  <2>1. Init => RequiresInv(rank)
    BY InitLoaderInv DEF Init, RequiresInv, ServedInv, GroupsNamed, get_group
  <2>2. Init => InItsGroups
    BY LoaderConstants DEF Init, InItsGroups, Range
  <2>3. Init => Ordered
    BY DEF Init, Ordered
  <2> QED  BY <2>1, <2>2, <2>3 DEF OrderInv
<1>3. OrderInv(rank) /\ [Next]_vars => OrderInv(rank)'
  BY <1>1, NextOrder
<1>4. OrderInv(rank) /\ [Next]_vars =>
        \A d \in loaded' \ loaded : \A p \in loaded : Follows(p, d) => Circular(p, d)
  BY <1>1, StartsLate
<1> QED  BY <1>2, <1>3, <1>4, PTL DEF Spec, LoadOrder
=============================================================================
