------------------------------ MODULE MCHooks ------------------------------
(***************************************************************************)
(* The hook table and the registries with plugins of the tree and the      *)
(* registrations that their plugin_init functions make.  Of third parties: *)
(* "twice" registers the same hook twice, and the hooks of "fickle" add    *)
(* and remove hooks.                                                       *)
(***************************************************************************)
EXTENDS Hooks, TLC

None == [provides |-> <<>>, conflicts |-> <<>>, requires |-> <<>>,
         after |-> <<>>, groups |-> <<>>]
P(name, over) == ("name" :> name) @@ over @@ None

TreeInfo ==
    "orbment" :> P("orbment", None)
    @@ "keybind" :> P("keybind", [after |-> <<"configuration">>])
    @@ "compressor" :> P("compressor", [groups |-> <<"compressor">>])
    @@ "compressor-png" :> P("compressor-png",
            [requires |-> <<"compressor">>, groups |-> <<"compressor">>])
    @@ "twice" :> P("twice", [requires |-> <<"compressor">>])
    @@ "fickle" :> P("fickle", [requires |-> <<"keybind">>])

Hook(t) == [table |-> "hooks", key |-> t]
Entry(a) == [table |-> "registry", key |-> a]

TreeCalls ==
    "orbment" :> <<>>
    @@ "keybind" :> <<Hook("plugin.deloaded"), Hook("keyboard.key"), Hook("pointer.button")>>
    @@ "compressor" :> <<Hook("plugin.deloaded")>>
    @@ "compressor-png" :> <<Entry("compressor")>>
    @@ "twice" :> <<Hook("keyboard.key"), Hook("keyboard.key")>>
    @@ "fickle" :> <<Hook("pointer.button"), Entry("keybind"), Hook("keyboard.key")>>

TreeObjects == DOMAIN TreeInfo
TreeNames == TreeObjects \cup {"configuration"}
TreeHookTypes == {"plugin.deloaded", "keyboard.key", "pointer.button"}
TreeAPIs == {"keybind", "compressor"}

\* The catalogue is free of undetected cycles, names groups last, and the apis
\* are used as the theorems ask.
TreeRank == [n \in TreeNames |->
    CASE n = "twice" -> 2 [] n \in {"fickle", "compressor-png"} -> 1 [] OTHER -> 0]

ASSUME CatalogueInOrder == Ranks(TreeRank) /\ GroupsLast /\ AfterLast
ASSUME CallsInOrder == ApisRequired /\ ApisListen

\* Without is the library's Remove, put so that it can be reasoned about.
ASSUME WithoutRemoves ==
    \A s \in UNION {[1..n -> 1..3] : n \in 0..4} : Without(s, {1}) = Remove(s, 1)
=============================================================================
