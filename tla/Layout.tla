------------------------------- MODULE Layout -------------------------------
(***************************************************************************)
(* The registry of the layout plugin, src/plugins/layout/layout.c: the     *)
(* list of layouts that other plugins add, and the layout each output has  *)
(* chosen, as an index into that list.  Module Placement adds what the     *)
(* layouts are for.                                                        *)
(***************************************************************************)
EXTENDS Naturals, Sequences, Lists

CONSTANTS
    Plugins,    \* plugins that add layouts
    Layouts,    \* the layouts they add: [name |-> .., owner |-> ..]
    Startup,    \* the lists that the inits of the plugins may have made
    Late,       \* bound: layouts that their plugins add and remove later on
    Outputs,    \* outputs, by name
    NULL

ASSUME LayoutConstants ==
    /\ \A l \in Layouts : l.owner \in Plugins
    /\ NULL \notin Layouts
    /\ Startup \subseteq Seq(Layouts)
    /\ Late \subseteq Layouts

VARIABLES
    alive,      \* plugins that have not been deloaded
    layouts,    \* the pool of layouts
    active      \* hash table output -> index of its layout, from 0

registry == <<alive, layouts, active>>

RegistryInit ==
    /\ alive = Plugins
    /\ layouts \in Startup
    /\ active = [o \in Outputs |-> 0]

\* layout_for_output: the element of the pool, or NULL.
LayoutAt(ls, i) == IF i < Len(ls) THEN ls[i + 1] ELSE NULL
layout_for_output(o) == LayoutAt(layouts, active[o])

layout_exists(n) == \E l \in Range(layouts) : l.name = n

add_layout(l) ==
    /\ l \in Late /\ l.owner \in alive
    /\ ~layout_exists(l.name)
    /\ layouts' = Append(layouts, l)
    /\ UNCHANGED <<alive, active>>

\* Mutants of Drop: the indices stay; all of them start over.
DropKeepsIndices(gone) ==
    /\ layouts' = Without(layouts, gone)
    /\ UNCHANGED active

DropResetsAll(gone) ==
    /\ layouts' = Without(layouts, gone)
    /\ active' = [o \in Outputs |-> 0]

\* remove_layout_ptr for each layout in gone, first to last: an index at or
\* behind a removed one starts over at 0.
Drop(gone) ==
    /\ layouts' = Without(layouts, gone)
    /\ active' = [o \in Outputs |->
                    IF \E i \in DOMAIN layouts : layouts[i] \in gone /\ i - 1 <= active[o]
                    THEN 0 ELSE active[o]]

remove_layout(l) ==
    /\ l \in Late /\ l.owner \in alive /\ l \in Range(layouts)
    /\ Drop({l})
    /\ UNCHANGED alive

\* The hook on plugin.deloaded: remove_layouts_for_plugin.
plugin_deloaded(p) ==
    /\ p \in alive
    /\ alive' = alive \ {p}
    /\ Drop({l \in Range(layouts) : l.owner = p})

next_index(o) == (active[o] + 1) % (IF layouts = <<>> THEN 1 ELSE Len(layouts))

next_layout(o) ==
    /\ active' = [active EXCEPT ![o] = next_index(o)]
    /\ UNCHANGED <<alive, layouts>>

RegistryNext ==
    \/ \E l \in Layouts : add_layout(l) \/ remove_layout(l)
    \/ \E p \in Plugins : plugin_deloaded(p)

-----------------------------------------------------------------------------
(* Properties *)

RegistryTypeOK ==
    /\ alive \subseteq Plugins
    /\ layouts \in Seq(Layouts)
    /\ active \in [Outputs -> Nat]

\* As long as there are layouts, each output has one: indices are kept in
\* range through removals that shift the list.
EveryOutputHasLayout == layouts # <<>> => \A o \in Outputs : layout_for_output(o) # NULL

\* An output keeps its layout while others behind it come and go, and while
\* another output changes its own.
LayoutKept ==
    [][\A o \in Outputs :
         \/ layout_for_output(o) = NULL
         \/ layout_for_output(o)' = layout_for_output(o)
         \/ \E i \in 1..(active[o] + 1) : layouts[i] \notin Range(layouts')
         \/ /\ active' = [active EXCEPT ![o] = active'[o]]
            /\ layout_for_output(o)' = LayoutAt(layouts, next_index(o))]_registry
=============================================================================
