-------------------------- MODULE ScreenshotProofs --------------------------
(***************************************************************************)
(* core-screenshot and its worker: the plugins whose code a task needs are *)
(* required by core-screenshot through their group, so the loader takes    *)
(* core-screenshot down first, and that waits for the worker.              *)
(***************************************************************************)
EXTENDS Screenshot, HooksProofs

\* The group table knows every plugin that has a slot.
MembersListed ==
    \A h \in Handles : slot[h] # NULL =>
        \A n \in Range(Info[slot[h]].groups) : get_group(n) /\ h \in Range(groups[n])

\* What the worker has to do, or is doing.
Pending == Range(tasks) \cup ({busy} \ {NULL})

ShotInv ==
    /\ MembersListed
    /\ tasks \in Seq(Handles) /\ busy \in Handles \cup {NULL} /\ bound \in Seq(Handles)
    /\ action # NULL => action.compressor \in Nat
    /\ \A h \in Pending :
         /\ phase \in {"run", "remove"} /\ Shot \in loaded
         /\ slot[h] \in loaded /\ Enters(slot[h], "compressor")
    /\ IF Shot \in loaded THEN IsPrefix(bound, compressors) ELSE bound = <<>>

-----------------------------------------------------------------------------
(* Lists *)

\* What is taken out of a group is one handle.
LEMMA OthersStay ==
    ASSUME NEW s \in Seq(Handles), NEW h \in Handles
    PROVE  /\ remove_from_group(s, h) \in Seq(Handles)
           /\ Range(s) \ {h} \subseteq Range(remove_from_group(s, h))
<1>1. DOMAIN s = 1..Len(s) /\ Len(s) \in Nat /\ \A i \in 1..Len(s) : s[i] \in Handles
  BY LenProperties, ElementOfSeq
<1>2. CASE h \notin Range(s)
  BY <1>2 DEF remove_from_group
<1>3. CASE h \in Range(s)
  <2> DEFINE i == CHOOSE i \in DOMAIN s : s[i] = h
             a == SubSeq(s, 1, i - 1)
             b == SubSeq(s, i + 1, Len(s))
  <2>1. i \in 1..Len(s) /\ s[i] = h
    BY <1>1, <1>3 DEF Range
  <2>2. PICK k \in 1..Len(s) : k = i
    BY <2>1
  <2>3. remove_from_group(s, h) = SubSeq(s, 1, k - 1) \o SubSeq(s, k + 1, Len(s))
    BY <1>3, <2>2 DEF remove_from_group
  <2>4. RemoveAt(s, k) = remove_from_group(s, h)
    BY <2>3 DEF RemoveAt
  <2>5. PICK r : r = RemoveAt(s, k)
    OBVIOUS
  <2>6. /\ r \in Seq(Handles) /\ Len(r) = Len(s) - 1
        /\ \A j \in 1..(Len(s) - 1) : r[j] = IF j < k THEN s[j] ELSE s[j + 1]
    BY <2>5, ElementRemoved
  <2>7. DOMAIN r = 1..(Len(s) - 1)
    BY <2>6, LenProperties
  <2>8. ASSUME NEW x \in Range(s) \ {h} PROVE x \in Range(r)
    <3>1. PICK j \in 1..Len(s) : s[j] = x /\ j # k
      BY <1>1, <2>1, <2>2, <2>8 DEF Range
    <3>2. CASE j < k
      <4>1. j \in 1..(Len(s) - 1)
        BY <1>1, <3>2
      <4> QED  BY <2>6, <2>7, <3>1, <3>2, <4>1 DEF Range
    <3>3. CASE ~(j < k)
      <4>1. j - 1 \in 1..(Len(s) - 1) /\ ~(j - 1 < k) /\ j - 1 + 1 = j
        BY <1>1, <3>1, <3>3
      <4> QED  BY <2>6, <2>7, <3>1, <4>1 DEF Range
    <3> QED  BY <3>2, <3>3
  <2> QED  BY <2>4, <2>5, <2>6, <2>8
<1> QED  BY <1>2, <1>3

\* Where p has no entry, nothing changes when p goes.
LEMMA NothingOf ==
    ASSUME NEW S, NEW s \in Seq(S), NEW h, h \notin Range(s)
    PROVE  Without(s, {h}) = s
<1>1. Without(s, {h}) = Lists!Only(s, Range(s))
  BY SameOnly DEF Without
<1>2. Lists!Range(s) = Range(s)
  BY DEF Lists!Range, Range
<1> QED  BY <1>1, <1>2, Lists!AllStay

LEMMA PrefixElements ==
    ASSUME NEW S, NEW b \in Seq(S), NEW s \in Seq(S)
    PROVE  IsPrefix(b, s) <=> Len(b) <= Len(s) /\ \A i \in 1..Len(b) : b[i] = s[i]
<1>1. Len(b) \in Nat /\ Len(s) \in Nat
  BY LenProperties
<1>2. ASSUME NEW r \in Seq(S), Len(b) <= Len(r)
      PROVE  /\ SubSeq(r, 1, Len(b)) \in Seq(S) /\ Len(SubSeq(r, 1, Len(b))) = Len(b)
             /\ \A i \in 1..Len(b) : SubSeq(r, 1, Len(b))[i] = r[i]
  <2>1. PICK n \in Nat : n = Len(b) /\ n <= Len(r) /\ Len(r) \in Nat
    BY <1>1, <1>2, LenProperties
  <2>2. \A i \in 1..n : r[i] \in S
    BY <2>1, ElementOfSeq
  <2>3. /\ SubSeq(r, 1, n) \in Seq(S) /\ Len(SubSeq(r, 1, n)) = IF 1 <= n THEN n - 1 + 1 ELSE 0
        /\ \A i \in 1..(n - 1 + 1) : SubSeq(r, 1, n)[i] = r[1 + i - 1]
    BY <2>1, <2>2, SubSeqProperties
  <2>4. n - 1 + 1 = n /\ (IF 1 <= n THEN n - 1 + 1 ELSE 0) = n /\ \A i \in 1..n : 1 + i - 1 = i
    BY <2>1
  <2> QED  BY <2>1, <2>3, <2>4
<1>3. CASE Len(b) <= Len(s)
  <2>1. SubSeq(b, 1, Len(b)) = b
    BY <1>1, <1>2, SeqEqual
  <2>2. /\ SubSeq(s, 1, Len(b)) \in Seq(S) /\ Len(SubSeq(s, 1, Len(b))) = Len(b)
        /\ \A i \in 1..Len(b) : SubSeq(s, 1, Len(b))[i] = s[i]
    BY <1>2, <1>3
  <2>3. SubSeq(s, 1, Len(b)) = b <=> \A i \in 1..Len(b) : b[i] = s[i]
    BY <2>2, SeqEqual
  <2> QED  BY <1>3, <2>1, <2>3 DEF IsPrefix
<1>4. CASE ~(Len(b) <= Len(s))
  BY <1>4 DEF IsPrefix
<1> QED  BY <1>3, <1>4

\* A list is at the start of itself, and still is when it grows.
LEMMA OwnPrefix ==
    ASSUME NEW S, NEW s \in Seq(S)
    PROVE  IsPrefix(s, s) /\ IsPrefix(<<>>, s)
<1>1. Len(s) \in Nat /\ <<>> \in Seq(S) /\ Len(<<>>) = 0
  BY LenProperties, EmptySeq
<1>2. IsPrefix(s, s)
  BY <1>1, PrefixElements
<1>3. PICK e \in Seq(S) : e = <<>> /\ Len(e) = 0
  BY <1>1
<1>4. IsPrefix(e, s)
  <2>1. Len(e) <= Len(s) /\ \A i \in 1..Len(e) : e[i] = s[i]
    BY <1>1, <1>3
  <2> QED  BY <2>1, PrefixElements
<1> QED  BY <1>2, <1>3, <1>4

LEMMA PrefixGrows ==
    ASSUME NEW S, NEW s \in Seq(S), NEW b \in Seq(S), NEW x \in S, IsPrefix(b, s)
    PROVE  IsPrefix(b, Append(s, x))
<1>1. Len(s) \in Nat /\ Len(b) \in Nat
  BY LenProperties
<1>2. /\ Append(s, x) \in Seq(S) /\ Len(Append(s, x)) = Len(s) + 1
      /\ \A i \in 1..Len(s) : Append(s, x)[i] = s[i]
  BY AppendProperties
<1>3. Len(b) <= Len(s) /\ \A i \in 1..Len(b) : b[i] = s[i]
  BY PrefixElements
<1>4. \A i \in 1..Len(b) : i \in 1..Len(s)
  BY <1>1, <1>3
<1>5. PICK r \in Seq(S) : r = Append(s, x)
  BY <1>2
<1>6. Len(b) <= Len(r) /\ \A i \in 1..Len(b) : b[i] = r[i]
  BY <1>1, <1>2, <1>3, <1>4, <1>5
<1>7. IsPrefix(b, r)
  BY <1>6, PrefixElements
<1> QED  BY <1>5, <1>7

-----------------------------------------------------------------------------
(* The group table *)

LEMMA MembersStayListed ==
    ASSUME NEW rank, Ranking(rank), LoaderInv(rank), MembersListed, [Next]_vars
    PROVE  MembersListed'
<1> USE DEF LoaderInv
<1>1. CASE phase # "register"
  BY <1>1, NextGroups DEF MembersListed, get_group
<1>2. ASSUME NEW p \in Objects, plugin_register(p) PROVE MembersListed'
  <2>1. PICK h \in Handles : Registers(p, h)
    BY <1>2 DEF plugin_register, Registers
  <2>2. slot[h] = NULL /\ slot \in [Handles -> Objects \cup {NULL}]
    BY <2>1 DEF Registers, FreeSlot, TypeOK
  <2>3. ASSUME NEW n \in Names
        PROVE  /\ members(n) \in Seq(Handles) /\ Append(members(n), h) \in Seq(Handles)
               /\ Range(Append(members(n), h)) = Range(members(n)) \cup {h}
               /\ \A s \in Seq(Handles) : remove_from_group(s, h) \in Seq(Handles)
                    /\ Range(s) \ {h} \subseteq Range(remove_from_group(s, h))
    <3>1. members(n) \in Seq(Handles)
      BY GroupTypes
    <3> QED  BY <3>1, AppendedMembers, OthersStay
  <2>4. ASSUME NEW k \in Handles, k # h, slot[k] # NULL, NEW n \in Range(Info[slot[k]].groups)
        PROVE  groups'[n] # NULL /\ k \in Range(groups'[n])
    <3>1. n \in Names /\ slot[k] \in Objects
      BY <2>2, <2>4, InfoArrays, LenProperties, ElementOfSeq DEF Range
    <3>2. groups[n] # NULL /\ k \in Range(groups[n]) /\ members(n) = groups[n]
      BY <2>4 DEF MembersListed, members, get_group
    <3>3. PICK s \in Seq(Handles), r \in Seq(Handles) :
            /\ s = members(n) /\ r = Append(s, h) /\ k \in Range(s) /\ k \in Range(r)
            /\ \A q \in {s, r} : remove_from_group(q, h) \in Seq(Handles)
                                 /\ k \in Range(remove_from_group(q, h))
      BY <2>3, <2>4, <3>1, <3>2
    <3>4. groups'[n] \in {s, r, remove_from_group(s, h), remove_from_group(r, h)}
      <4>1. CASE groups' = add_to_groups(p, h)
        BY <3>1, <3>2, <3>3, <4>1 DEF add_to_groups
      <4>2. CASE groups' = groups_after_error(p, h)
        BY <3>1, <3>2, <3>3, <4>2 DEF groups_after_error
      <4> QED  BY <2>1, <4>1, <4>2 DEF Registers
    <3> QED  BY <3>3, <3>4, NullIsFresh
  <2>5. CASE slot' = slot
    BY <2>2, <2>4, <2>5 DEF MembersListed, get_group
  <2>6. CASE slot' # slot
    <3>1. slot' = [slot EXCEPT ![h] = p] /\ groups' = add_to_groups(p, h)
      BY <2>1, <2>6 DEF Registers
    <3>2. ASSUME NEW n \in Range(Info[p].groups) PROVE groups'[n] # NULL /\ h \in Range(groups'[n])
      <4>1. n \in Names
        BY InfoArrays, LenProperties, ElementOfSeq DEF Range
      <4> QED  BY <2>3, <3>1, <3>2, <4>1, NullIsFresh DEF add_to_groups, belongs_to_pool
    <3> QED  BY <2>2, <2>4, <3>1, <3>2 DEF MembersListed, get_group
  <2> QED  BY <2>5, <2>6
<1>3. CASE UNCHANGED <<slot, groups>>
  BY <1>3 DEF MembersListed, get_group
<1>4. CASE UNCHANGED vars
  BY <1>3, <1>4 DEF vars
<1> QED  BY <1>1, <1>2, <1>3, <1>4, Whereabouts
         DEF Next, Work, Register, RegisterRejects, RegistrationDone, pool_tables

-----------------------------------------------------------------------------
(* core-screenshot and the compressors *)

LEMMA SStep ==
    ASSUME [SNext]_svars
    PROVE  [HNext]_hvars
<1>1. CASE UNCHANGED svars
  BY <1>1 DEF svars
<1>2. CASE SWork
  BY <1>2 DEF SWork, AddKeybinds, InitFailed, plugin_deinit, key_cb_screenshot, OtherHook,
              output_post_render, HNext
<1>3. CASE Event
  BY <1>3 DEF Event, HNext
<1>4. CASE Worker
  BY <1>4 DEF Worker, TakeTask, TaskDone, hvars
<1> QED  BY <1>1, <1>2, <1>3, <1>4 DEF SNext

\* As long as core-screenshot runs, whoever has to do with compressors is
\* through its init, and is not deloaded before core-screenshot.
LEMMA CompressorsServe ==
    ASSUME NEW rank, RegistriesInv(rank), MembersListed, CompressorsGrouped, Shot \in loaded,
           NEW p \in Objects, Present(p), Info[p].name = "compressor" \/ Enters(p, "compressor")
    PROVE  Serves(p, Shot)
<1> USE DEF RegistriesInv, RequiresInv, LoaderInv, Bookkeeping
<1>1. phase # "gone"
  BY DEF Removed
<1>2. PICK h \in Handles : slot[h] = p
  BY <1>1, HandleOf DEF HooksInv
<1>3. "compressor" \in Range(Info[p].groups)
  BY DEF CompressorsGrouped, Enters
<1>4. get_group("compressor") /\ h \in Range(groups["compressor"]) /\ p # NULL
  BY <1>2, <1>3, NullIsFresh DEF MembersListed
<1>5. Served(Shot, "compressor")
  BY DEF ServedInv, AllServed, CompressorsGrouped
<1> QED  BY <1>2, <1>4, <1>5 DEF Served, belongs_to_pool, CompressorsGrouped

\* So a plugin that goes before core-screenshot does takes no compressor along.
LEMMA CompressorsStay ==
    ASSUME NEW rank, RegistriesInv(rank), MembersListed, CompressorsGrouped, Shot \in loaded,
           NEW p \in Objects, Present(p), ~Serves(p, Shot), plugin_deloaded(p)
    PROVE  compressors' = compressors
<1> USE DEF RegistriesInv, RequiresInv, LoaderInv, Bookkeeping
<1>1. Info[p].name # "compressor" /\ ~Enters(p, "compressor")
  BY CompressorsServe
<1>2. PICK h : h = handle(p) /\ slot[h] = p
  BY HandleOf DEF HooksInv, Removed
<1>3. "compressor" \in APIs
  BY ScreenshotConstants
<1>4. PICK s \in Seq(Handles) : s = registry["compressor"]
  BY <1>3 DEF HooksInv, HooksTypeOK
<1>5. h \notin Range(s)
  BY <1>1, <1>2, <1>3, <1>4 DEF RegistryInv
<1>6. Without(s, {h}) = s
  BY <1>5, NothingOf
<1>7. registry'["compressor"] = IF Notified("compressor") THEN Without(s, {h}) ELSE s
  BY <1>1, <1>2, <1>3, <1>4 DEF plugin_deloaded, remove_compressors_for_plugin
<1> QED  BY <1>4, <1>6, <1>7 DEF compressors

LEMMA CompressorTypes ==
    ASSUME HooksInv
    PROVE  compressors \in Seq(Handles)
BY ScreenshotConstants DEF HooksInv, HooksTypeOK, compressors

\* The loader goes on, or wlc calls, and no plugin goes.
LEMMA QuietSteps ==
    ASSUME NEW rank, Ranking(rank), RegistriesInv(rank), ShotInv, [Next]_vars,
           UNCHANGED shot, compressors' = compressors, loaded \subseteq loaded',
           phase \in {"run", "remove"} /\ Shot \in loaded => phase' \in {"run", "remove"}
    PROVE  ShotInv'
<1> USE DEF RegistriesInv, RequiresInv, LoaderInv
<1>1. MembersListed'
  BY MembersStayListed DEF ShotInv
<1>2. tasks' = tasks /\ busy' = busy /\ bound' = bound /\ action' = action /\ Pending' = Pending
  BY DEF shot, Pending
<1>3. ASSUME NEW h \in Pending
      PROVE  /\ phase' \in {"run", "remove"} /\ Shot \in loaded'
             /\ slot'[h] \in loaded' /\ Enters(slot'[h], "compressor")
  <2>1. /\ phase \in {"run", "remove"} /\ Shot \in loaded
        /\ slot[h] \in loaded /\ Enters(slot[h], "compressor")
    BY <1>3 DEF ShotInv
  <2>2. h \in Handles
    BY <1>3, LenProperties, ElementOfSeq DEF Pending, ShotInv, Range
  <2>3. slot'[h] = slot[h]
    BY <2>1, <2>2, OwnersKept
  <2> QED  BY <2>1, <2>3
<1>4. IF Shot \in loaded' THEN IsPrefix(bound, compressors) ELSE bound = <<>>
  <2>1. CASE Shot \in loaded
    BY <2>1 DEF ShotInv
  <2>2. CASE Shot \notin loaded
    <3>1. bound = <<>>
      BY <2>2 DEF ShotInv
    <3> QED  BY <3>1, CompressorTypes, OwnPrefix
  <2> QED  BY <2>1, <2>2
<1> QED  BY <1>1, <1>2, <1>3, <1>4 DEF ShotInv, Enters

-----------------------------------------------------------------------------
(* plugin_init and plugin_deinit *)

\* No task waits and none runs.
LEMMA IdleShot ==
    ASSUME MembersListed, tasks \in Seq(Handles), busy \in Handles \cup {NULL},
           bound \in Seq(Handles), action # NULL => action.compressor \in Nat, Pending = {},
           IF Shot \in loaded THEN IsPrefix(bound, compressors) ELSE bound = <<>>
    PROVE  ShotInv
BY DEF ShotInv

LEMMA AddKeybindsShot ==
    ASSUME NEW rank, Ranking(rank), RegistriesInv(rank), ShotInv, AddKeybinds
    PROVE  ShotInv'
<1> USE DEF RegistriesInv, RequiresInv, LoaderInv
<1>1. /\ UNCHANGED <<vars, action, tasks, busy>>
      /\ bound' \in {bound, compressors}
      /\ bound' = compressors => Top.plugin = Shot \/ bound = compressors
  BY DEF AddKeybinds, InitCallSucceeds
<1>2. /\ phase = "load" /\ stack # <<>> /\ Top.pc = "init"
  BY DEF AddKeybinds, InitCallSucceeds, Initialising
<1>3. Pending = {}
  BY <1>2 DEF ShotInv
<1>4. PICK s \in Seq(Handles), b \in Seq(Handles) : s = compressors /\ b = bound
  BY CompressorTypes DEF ShotInv
<1>5. Top.plugin \in loaded /\ Top.plugin \in Objects
  BY <1>2, TopCall DEF Bookkeeping, LoadFrame
<1>6. HooksInv'
  BY HNextHooks DEF AddKeybinds, HNext
<1>7. compressors' = s \/ \E h \in Handles : compressors' = Append(s, h)
  <2>1. handle(Top.plugin) \in Handles
    BY <1>2, <1>5, HandleOf DEF HooksInv, Present
  <2>2. "compressor" \in APIs /\ registry \in [APIs -> Seq(Handles)]
    BY ScreenshotConstants DEF HooksInv, HooksTypeOK
  <2> QED  BY <1>4, <2>1, <2>2 DEF AddKeybinds, InitCallSucceeds, add_hook, add_entry, compressors
<1>8. IsPrefix(s, s) /\ IsPrefix(s, compressors')
  BY <1>7, OwnPrefix, PrefixGrows
<1>9. CASE Shot \in loaded
  <2>1. IsPrefix(b, s)
    BY <1>4, <1>9 DEF ShotInv
  <2>2. IsPrefix(b, compressors')
    BY <1>7, <2>1, PrefixGrows
  <2>3. IsPrefix(bound', compressors')
    BY <1>1, <1>4, <1>8, <2>2
  <2>4. bound' \in Seq(Handles)
    BY <1>1, <1>4
  <2> QED  BY <1>1, <1>3, <1>9, <2>3, <2>4
           DEF ShotInv, MembersListed, Pending, vars, get_group
<1>10. CASE Shot \notin loaded
  <2>1. bound' = bound
    BY <1>1, <1>5, <1>10
  <2> QED  BY <1>1, <1>3, <1>10, <2>1 DEF ShotInv, MembersListed, Pending, vars, get_group
<1> QED  BY <1>9, <1>10

LEMMA InitFailedShot ==
    ASSUME NEW rank, Ranking(rank), RegistriesInv(rank), ShotInv, CompressorsGrouped, InitFailed
    PROVE  ShotInv'
<1> USE DEF RegistriesInv, RequiresInv, LoaderInv, Bookkeeping
<1>1. /\ phase = "load" /\ stack # <<>> /\ Top.pc = "init" /\ InitFails
      /\ CleanUp(Top.plugin) /\ UNCHANGED <<action, tasks, busy>>
      /\ bound' = IF Top.plugin = Shot THEN <<>> ELSE bound
  BY DEF InitFailed, InitReturnsFalse, InitFails, Initialising
<1>2. [Next]_vars
  BY <1>1 DEF Next, Work, plugin_load_all
<1>3. MembersListed'
  BY <1>2, MembersStayListed DEF ShotInv
<1>4. Pending = {} /\ Pending' = {}
  BY <1>1 DEF ShotInv, Pending
<1>5. LoadFrame(Top) /\ Top.plugin \in loaded /\ Top.plugin \in Objects /\ Top \in Range(stack)
  BY <1>1, TopCall, Frames DEF LoadFrame, TypeOK
<1>6. ~NeededBy(Top.plugin) /\ plugin_deloaded(Top.plugin)
  BY <1>1, <1>5 DEF LoadFrame, NeededBy, Range, CleanUp
<1>7. loaded' = loaded \ {Top.plugin}
  BY <1>1, <1>2, LoadedKept
<1>8. IF Shot \in loaded' THEN IsPrefix(bound', compressors') ELSE bound' = <<>>
  <2>1. CASE Shot \in loaded'
    <3>1. ~Serves(Top.plugin, Shot)
      BY <1>1, <1>5 DEF Serves, Ready
    <3>2. compressors' = compressors
      BY <1>5, <1>6, <1>7, <2>1, <3>1, CompressorsStay DEF ShotInv, Present
    <3> QED  BY <1>1, <1>7, <2>1, <3>2 DEF ShotInv
  <2>2. CASE Shot \notin loaded'
    BY <1>1, <1>7, <2>2 DEF ShotInv
  <2> QED  BY <2>1, <2>2
<1>9. bound' \in Seq(Handles)
  BY <1>1, EmptySeq DEF ShotInv
<1> QED  BY <1>1, <1>3, <1>4, <1>8, <1>9 DEF ShotInv

\* A plugin that loads no further has no entry yet.
LEMMA DependencyFailsShot ==
    ASSUME NEW rank, Ranking(rank), RegistriesInv(rank), ShotInv, CompressorsGrouped,
           DependencyFails, UNCHANGED shot
    PROVE  ShotInv'
<1> USE DEF RegistriesInv, RequiresInv, LoaderInv, Bookkeeping
<1>1. [Next]_vars
  BY LoaderStep DEF HNext
<1>2. phase = "load" /\ stack # <<>> /\ Top.pc # "init" /\ CleanUp(Top.plugin)
  BY Whereabouts DEF DependencyFails
<1>3. loaded \subseteq loaded'
  BY <1>1, <1>2, LoadedKept DEF InitFails, Initialising, Deload, Removing
<1>4. LoadFrame(Top) /\ Top.plugin \notin loaded /\ Top.plugin \in Objects
  BY <1>2, TopCall DEF LoadFrame
<1>5. Pending = {} /\ Pending' = {}
  BY <1>2 DEF ShotInv, Pending, shot
<1>6. MembersListed'
  BY <1>1, MembersStayListed DEF ShotInv
<1>7. IF Shot \in loaded' THEN IsPrefix(bound, compressors') ELSE bound = <<>>
  <2>1. CASE Shot \in loaded
    <3>1. CASE UNCHANGED tables
      BY <1>3, <2>1, <3>1 DEF tables, compressors, ShotInv
    <3>2. CASE ~(UNCHANGED tables)
      <4>1. plugin_deloaded(Top.plugin) /\ Top.plugin \in mapped
        BY <1>2, <1>4, <3>2 DEF CleanUp
      <4>2. ~Serves(Top.plugin, Shot)
        BY <1>4 DEF Serves, Ready
      <4>3. compressors' = compressors
        BY <1>4, <2>1, <4>1, <4>2, CompressorsStay DEF Present, ShotInv
      <4> QED  BY <1>3, <2>1, <4>3 DEF ShotInv
    <3> QED  BY <3>1, <3>2
  <2>2. CASE Shot \notin loaded
    <3>1. bound = <<>> /\ HooksInv'
      BY <2>2, HNextHooks DEF ShotInv, HNext
    <3>2. compressors' \in Seq(Handles)
      BY <3>1, ScreenshotConstants DEF HooksInv, HooksTypeOK, compressors
    <3> QED  BY <3>1, <3>2, OwnPrefix
  <2> QED  BY <2>1, <2>2
<1> QED  BY <1>5, <1>6, <1>7 DEF ShotInv, shot

\* chck_tqueue_release waits: when core-screenshot is gone, no task is left.
LEMMA DeinitShot ==
    ASSUME NEW rank, Ranking(rank), RegistriesInv(rank), ShotInv, CompressorsGrouped, plugin_deinit
    PROVE  ShotInv'
<1> USE DEF RegistriesInv, RequiresInv, LoaderInv, Bookkeeping
<1>1. [Next]_vars
  BY LoaderStep DEF HNext, plugin_deinit
<1>2. /\ phase = "remove" /\ phase' = phase /\ stack # <<>> /\ slot' = slot /\ Deload
      /\ Top.i > Len(needed[Top.plugin]) /\ plugin_deloaded(Top.plugin)
  BY DEF plugin_deinit, DeloadPlugin, Deload, Removing
<1>3. Top \in Frame /\ Top.plugin \in Objects
  BY <1>2, TopFrame DEF TypeOK
<1>4. RemoveFrame(Top) /\ Top.plugin \in loaded \cup mapped
  BY <1>2, <1>3, Frames DEF RemoveStack, RemoveFrame, Removable, TypeOK
<1>5. ~NeededBy(Top.plugin)
  BY <1>2, <1>3, <1>4, NotNeeded
<1>6. loaded' = loaded \ {Top.plugin}
  BY <1>1, <1>2, LoadedKept
<1>7. MembersListed'
  BY <1>1, MembersStayListed DEF ShotInv
<1>8. CASE Top.plugin = Shot
  <2>1. busy' = NULL /\ action' = NULL /\ bound' = <<>> /\ tasks' = <<>> /\ Shot \notin loaded'
    BY <1>6, <1>8 DEF plugin_deinit
  <2>2. Pending' = {} /\ <<>> \in Seq(Handles)
    BY <2>1, EmptySeq DEF Pending, Range
  <2> QED  BY <1>7, <2>1, <2>2 DEF ShotInv
<1>9. CASE Top.plugin # Shot
  <2>1. UNCHANGED shot /\ Pending' = Pending
    BY <1>9 DEF plugin_deinit, shot, Pending
  <2>2. CASE Shot \in loaded
    <3>1. ~Serves(Top.plugin, Shot)
      <4>1. get(Info[Shot].name) = Shot
        BY <2>2 DEF NamesUnique, Present, TypeOK, Removed
      <4> QED  BY <1>5, <2>2, <4>1 DEF NeededBy, Serves
    <3>2. compressors' = compressors
      BY <1>2, <1>3, <1>4, <2>2, <3>1, CompressorsStay DEF Present, ShotInv
    <3>3. ASSUME NEW h \in Pending PROVE slot[h] # Top.plugin
      <4>1. slot[h] \in loaded /\ Enters(slot[h], "compressor")
        BY <3>3 DEF ShotInv
      <4> QED  BY <1>3, <2>2, <3>1, <4>1, CompressorsServe DEF Present, ShotInv
    <3> QED  BY <1>2, <1>6, <1>7, <1>9, <2>1, <2>2, <3>2, <3>3 DEF ShotInv, shot, Enters
  <2>3. CASE Shot \notin loaded
    BY <1>6, <1>7, <2>1, <2>3 DEF ShotInv, shot
  <2> QED  BY <2>2, <2>3
<1> QED  BY <1>8, <1>9

-----------------------------------------------------------------------------
(* The hooks and the worker *)

\* Nothing but the variables of core-screenshot changes.
LEMMA ShotStep ==
    ASSUME ShotInv, UNCHANGED <<vars, registry, bound>>,
           tasks' \in Seq(Handles), busy' \in Handles \cup {NULL},
           action' # NULL => action'.compressor \in Nat,
           \A h \in Pending' :
              /\ phase \in {"run", "remove"} /\ Shot \in loaded
              /\ slot[h] \in loaded /\ Enters(slot[h], "compressor")
    PROVE  ShotInv'
<1>1. /\ UNCHANGED <<phase, slot, groups, loaded, bound>> /\ compressors' = compressors
  BY DEF vars, compressors
<1>2. MembersListed'
  BY <1>1 DEF ShotInv, MembersListed, get_group
<1> QED  BY <1>1, <1>2 DEF ShotInv, Enters

LEMMA KeyShot ==
    ASSUME ShotInv, key_cb_screenshot
    PROVE  ShotInv'
<1>1. UNCHANGED <<vars, registry, bound, tasks, busy>> /\ Pending' = Pending
  BY DEF key_cb_screenshot, CallHook, tables, Pending
<1>2. PICK o \in Outputs, i \in DOMAIN bound : action' = [output |-> o, compressor |-> i - 1]
  BY DEF key_cb_screenshot
<1>3. i \in 1..Len(bound) /\ Len(bound) \in Nat
  BY LenProperties DEF ShotInv
<1>4. i - 1 \in Nat
  BY <1>3
<1>5. action'.compressor \in Nat
  BY <1>2, <1>4
<1> QED  BY <1>1, <1>5, ShotStep DEF ShotInv

LEMMA RenderShot ==
    ASSUME NEW rank, RegistriesInv(rank), ShotInv, NEW o \in Outputs, output_post_render(o)
    PROVE  ShotInv'
<1> USE DEF RegistriesInv
<1>1. /\ UNCHANGED <<vars, registry, bound, busy>> /\ action' = NULL /\ action # NULL
      /\ running # NULL /\ running.at < Len(hooks[running.type])
      /\ running'.owner = hooks[running.type][running.at + 1]
  <2>1. CallHook /\ running # NULL /\ running.at < Len(hooks[running.type])
    BY DEF output_post_render, CallHook, Looping
  <2>2. running' = [running EXCEPT !.at = @ + 1, !.owner = hooks[running.type][running.at + 1],
                                   !.due = @ \ {hooks[running.type][running.at + 1]}]
    BY <2>1 DEF CallHook
  <2>3. running'.owner = hooks[running.type][running.at + 1]
    BY <2>1, <2>2, Dispatched
  <2> QED  BY <2>1, <2>3 DEF output_post_render, CallHook, tables
<1>2. PICK t \in HookTypes, at \in Nat, s \in Seq(Handles) :
        t = running.type /\ at = running.at /\ s = hooks[t]
  BY <1>1, Dispatched
<1>3. s[at + 1] \in Range(s) /\ running'.owner = s[at + 1]
  <2>1. DOMAIN s = 1..Len(s) /\ Len(s) \in Nat /\ at < Len(s)
    BY <1>1, <1>2, LenProperties
  <2>2. at + 1 \in 1..Len(s)
    BY <2>1
  <2> QED  BY <1>1, <1>2, <2>1, <2>2 DEF Range
<1>4. Shot \in loaded /\ phase = "run"
  <2>1. slot[s[at + 1]] = Shot
    BY <1>3 DEF output_post_render, Running
  <2>2. slot[s[at + 1]] \in loaded
    BY <1>2, <1>3 DEF HooksInv, HooksAlive
  <2> QED  BY <1>1, <2>1, <2>2 DEF HooksInv, DispatchOK
<1>5. ASSUME action.compressor < Len(compressors)
      PROVE  LET h == compressors[action.compressor + 1]
             IN  h \in Handles /\ slot[h] \in loaded /\ Enters(slot[h], "compressor")
  <2>1. PICK c \in Seq(Handles), k \in Nat : c = compressors /\ k = action.compressor
    BY <1>1, CompressorTypes DEF ShotInv
  <2>2. DOMAIN c = 1..Len(c) /\ Len(c) \in Nat /\ k < Len(c)
    BY <1>5, <2>1, LenProperties
  <2>3. k + 1 \in 1..Len(c)
    BY <2>2
  <2>4. c[k + 1] \in Handles /\ c[k + 1] \in Range(registry["compressor"])
    BY <2>1, <2>2, <2>3, ElementOfSeq DEF Range, compressors
  <2>5. slot[c[k + 1]] \in loaded /\ Enters(slot[c[k + 1]], "compressor")
    BY <2>4, ScreenshotConstants DEF RegistryInv
  <2> QED  BY <2>1, <2>4, <2>5
<1>6. CASE action.compressor < Len(compressors) /\ Len(tasks) < QueueSize
  <2>1. PICK h : h = compressors[action.compressor + 1]
    OBVIOUS
  <2>2. h \in Handles /\ slot[h] \in loaded /\ Enters(slot[h], "compressor")
    BY <1>5, <1>6, <2>1
  <2>3. tasks' = Append(tasks, h)
    BY <1>6, <2>1 DEF output_post_render
  <2>4. tasks' \in Seq(Handles) /\ Range(tasks') = Range(tasks) \cup {h}
    BY <2>2, <2>3, AppendedRange, AppendProperties DEF ShotInv
  <2>5. Pending' = Pending \cup {h} \/ Pending' = Pending
    BY <1>1, <2>4 DEF Pending
  <2> QED  BY <1>1, <1>4, <2>2, <2>4, <2>5, ShotStep DEF ShotInv
<1>7. CASE ~(action.compressor < Len(compressors) /\ Len(tasks) < QueueSize)
  <2>1. tasks' = tasks
    BY <1>7 DEF output_post_render
  <2>2. Pending' = Pending
    BY <1>1, <2>1 DEF Pending
  <2> QED  BY <1>1, <2>1, <2>2, ShotStep DEF ShotInv
<1> QED  BY <1>6, <1>7

LEMMA WorkerShot ==
    ASSUME ShotInv, Worker
    PROVE  ShotInv'
<1>1. UNCHANGED <<vars, registry, bound, action>>
  BY DEF Worker, TakeTask, TaskDone, hvars
<1>2. CASE TakeTask
  <2>1. PICK s \in Seq(Handles) : s = tasks /\ s # <<>> /\ busy' = Head(s) /\ tasks' = Tail(s)
    BY <1>2 DEF TakeTask, ShotInv
  <2>2. Len(s) \in Nat /\ Len(s) # 0 /\ DOMAIN s = 1..Len(s)
    BY <2>1, LenProperties, EmptySeq
  <2>3. /\ Tail(s) \in Seq(Handles) /\ Len(Tail(s)) = Len(s) - 1 /\ Head(s) = s[1]
        /\ \A i \in 1..(Len(s) - 1) : Tail(s)[i] = s[i + 1]
    BY <2>1, <2>2, HeadTailProperties
  <2>4. Range(Tail(s)) \subseteq Range(s)
    <3>1. DOMAIN Tail(s) = 1..(Len(s) - 1)
      BY <2>3, LenProperties
    <3>2. \A i \in 1..(Len(s) - 1) : i + 1 \in 1..Len(s)
      BY <2>2
    <3> QED  BY <2>2, <2>3, <3>1, <3>2 DEF Range
  <2>5. Head(s) \in Range(s) /\ Head(s) \in Handles
    <3>1. 1 \in 1..Len(s)
      BY <2>2
    <3> QED  BY <2>2, <2>3, <3>1, ElementOfSeq DEF Range
  <2>6. Pending' \subseteq Pending
    BY <2>1, <2>4, <2>5 DEF Pending
  <2> QED  BY <1>1, <2>1, <2>3, <2>5, <2>6, ShotStep DEF ShotInv
<1>3. CASE TaskDone
  <2>1. busy' = NULL /\ tasks' = tasks
    BY <1>3 DEF TaskDone
  <2>2. Pending' \subseteq Pending
    BY <2>1 DEF Pending
  <2> QED  BY <1>1, <2>1, <2>2, ShotStep DEF ShotInv
<1> QED  BY <1>2, <1>3 DEF Worker

-----------------------------------------------------------------------------
(* The invariant *)

\* The invariant behind the theorems on core-screenshot.
ScreenshotInv(rank) == RegistriesInv(rank) /\ ShotInv

LEMMA SInitShot ==
    ASSUME NEW rank, Ranking(rank), SInit
    PROVE  ScreenshotInv(rank)
<1>1. RegistriesInv(rank)
  BY HInitRegistries DEF SInit
<1>2. loaded = {} /\ Pending = {} /\ <<>> \in Seq(Handles)
  BY EmptySeq DEF SInit, HInit, Init, Pending, Range
<1>3. MembersListed
  <2> SUFFICES ASSUME NEW h \in Handles, slot[h] # NULL, NEW n \in Range(Info[slot[h]].groups)
               PROVE  FALSE
    BY DEF MembersListed
  <2>1. slot[h] = Core
    BY DEF SInit, HInit, Init
  <2> QED  BY <2>1, LoaderConstants DEF Range
<1> QED  BY <1>1, <1>2, <1>3 DEF ScreenshotInv, ShotInv, SInit

LEMMA SNextShot ==
    ASSUME NEW rank, Ranking(rank), GroupsLast, ApisRequired, ApisListen, CompressorsGrouped,
           ScreenshotInv(rank), [SNext]_svars
    PROVE  ScreenshotInv(rank)'
<1> USE DEF ScreenshotInv
<1>1. [HNext]_hvars /\ [Next]_vars
  BY SStep, LoaderStep
<1>2. RegistriesInv(rank)'
  BY <1>1, HNextRegistries
<1> SUFFICES ShotInv'
  BY <1>2
<1>3. CASE AddKeybinds \/ InitFailed \/ plugin_deinit
  BY <1>3, AddKeybindsShot, InitFailedShot, DeinitShot
<1>4. CASE (InitReturnsTrue \/ DependencyFails \/ Terminated) /\ UNCHANGED shot
  <2>1. CASE InitReturnsTrue
    <3>1. UNCHANGED <<phase, loaded, registry, shot>>
      BY <1>4, <2>1 DEF InitReturnsTrue, InitSucceeds, tables
    <3> QED  BY <1>1, <3>1, QuietSteps DEF compressors
  <2>2. CASE Terminated
    <3>1. /\ phase = "remove" /\ phase' = "gone" /\ UNCHANGED <<loaded, registry, shot>>
      BY <1>4, <2>2 DEF Terminated, RemoveAllDone
    <3>2. loaded = {}
      BY <1>2, <3>1 DEF RegistriesInv, RequiresInv, LoaderInv, Bookkeeping, Removed
    <3> QED  BY <1>1, <3>1, <3>2, QuietSteps DEF compressors
  <2> QED  BY <1>4, <2>1, <2>2, DependencyFailsShot
<1>5. CASE LoaderOnly /\ UNCHANGED shot
  <2>1. loaded \subseteq loaded' /\ registry' = registry
    BY <1>5, LoaderOnlyKeeps DEF RegistriesInv, RequiresInv, LoaderOnly, tables
  <2>2. phase \in {"run", "remove"} => phase' \in {"run", "remove"}
    BY <1>5, Whereabouts
       DEF LoaderOnly, compositor_terminate, RemoveNext, DeloadDependent, Removing,
           plugin_load_all
  <2> QED  BY <1>1, <1>5, <2>1, <2>2, QuietSteps DEF compressors
<1>6. CASE key_cb_screenshot \/ \E o \in Outputs : output_post_render(o)
  BY <1>6, KeyShot, RenderShot
<1>7. CASE (OtherHook \/ DispatchReturns \/ \E t \in HookTypes : Dispatch(t)) /\ UNCHANGED shot
  <2>1. UNCHANGED <<vars, registry, shot>>
    BY <1>7 DEF OtherHook, CallHook, DispatchReturns, Dispatch, tables
  <2> QED  BY <1>1, <2>1, QuietSteps DEF vars, compressors
<1>8. CASE Worker
  BY <1>8, WorkerShot
<1>9. CASE UNCHANGED svars
  <2>1. UNCHANGED <<vars, registry, shot>>
    BY <1>9 DEF svars, hvars
  <2> QED  BY <1>1, <2>1, QuietSteps DEF vars, compressors
<1> QED  BY <1>3, <1>4, <1>5, <1>6, <1>7, <1>8, <1>9 DEF SNext, SWork, Event, OtherHook

LEMMA ScreenshotInvariant ==
    ASSUME NEW rank, Ranking(rank), GroupsLast, ApisRequired, ApisListen, CompressorsGrouped
    PROVE  SSpec => []ScreenshotInv(rank)
<1>1. SInit => ScreenshotInv(rank)
  BY SInitShot
<1>2. ScreenshotInv(rank) /\ [SNext]_svars => ScreenshotInv(rank)'
  BY SNextShot
<1> QED  BY <1>1, <1>2, PTL DEF SSpec

\* The worker thread runs code of core-screenshot and of the compressor that
\* the task names: both shared objects are mapped until it is done, although
\* only the main thread knows of the unloading.
THEOREM WorkerCodeStays ==
    ASSUME NEW rank \in [Names -> Nat], Ranks(rank), GroupsLast, ApisRequired, ApisListen,
           CompressorsGrouped
    PROVE  SSpec => []WorkerRunsMapped
<1>1. SSpec => []ScreenshotInv(rank)
  BY ScreenshotInvariant DEF Ranking
<1>2. ScreenshotInv(rank) => WorkerRunsMapped
  <2> SUFFICES ASSUME ScreenshotInv(rank), NEW h \in Pending
               PROVE  Shot \in mapped /\ slot[h] \in mapped
    BY DEF WorkerRunsMapped, Pending
  <2>1. Shot \in loaded /\ slot[h] \in loaded /\ Enters(slot[h], "compressor")
    BY DEF ScreenshotInv, ShotInv
  <2>2. loaded \subseteq mapped \cup {Core}
    BY DEF ScreenshotInv, RegistriesInv, RequiresInv, LoaderInv, Bookkeeping, Pool
  <2>3. Shot # Core
    BY LoaderConstants DEF CompressorsGrouped, Range
  <2>4. ~Enters(Core, "compressor")
    BY HookConstants DEF Enters
  <2> QED  BY <2>1, <2>2, <2>3, <2>4
<1> QED  BY <1>1, <1>2, PTL

\* A key goes on standing for the compressor that it was bound to: no plugin
\* with a compressor comes or goes before the keys of core-screenshot do,
\* except behind the indices that were bound.
THEOREM KeysKeepTheirCompressor ==
    ASSUME NEW rank \in [Names -> Nat], Ranks(rank), GroupsLast, ApisRequired, ApisListen,
           CompressorsGrouped
    PROVE  SSpec => []BoundStays
<1>1. SSpec => []ScreenshotInv(rank)
  BY ScreenshotInvariant DEF Ranking
<1>2. ScreenshotInv(rank) => BoundStays
  BY DEF ScreenshotInv, ShotInv, BoundStays
<1> QED  BY <1>1, <1>2, PTL

=============================================================================
