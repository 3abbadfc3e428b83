---------------------------- MODULE MCScreenshot ----------------------------
(***************************************************************************)
(* core-screenshot and the plugins of the tree that it depends on.         *)
(***************************************************************************)
EXTENDS Screenshot, TLC

None == [provides |-> <<>>, conflicts |-> <<>>, requires |-> <<>>,
         after |-> <<>>, groups |-> <<>>]
P(name, over) == ("name" :> name) @@ over @@ None
Compressor(name) == P(name, [requires |-> <<"compressor">>, groups |-> <<"compressor">>])

TreeInfo ==
    "orbment" :> P("orbment", None)
    @@ "keybind" :> P("keybind", [after |-> <<"configuration">>])
    @@ "compressor" :> P("compressor", [groups |-> <<"compressor">>])
    @@ "compressor-png" :> Compressor("compressor-png")
    @@ "compressor-ppm" :> Compressor("compressor-ppm")
    @@ "core-screenshot" :> P("core-screenshot", [requires |-> <<"keybind", "compressor">>])

\* The same with a compressor that does not join the group.
StrayInfo ==
    "compressor-ppm" :> P("compressor-ppm", [requires |-> <<"compressor">>]) @@ TreeInfo

Hook(t) == [table |-> "hooks", key |-> t]
Entry(a) == [table |-> "registry", key |-> a]

\* One entry stands for all keybinds of core-screenshot.
TreeCalls ==
    "orbment" :> <<>>
    @@ "keybind" :> <<Hook("plugin.deloaded"), Hook("keyboard.key")>>
    @@ "compressor" :> <<Hook("plugin.deloaded")>>
    @@ "compressor-png" :> <<Entry("compressor")>>
    @@ "compressor-ppm" :> <<Entry("compressor")>>
    @@ "core-screenshot" :> <<Hook("output.post_render"), Entry("keybind")>>

TreeObjects == DOMAIN TreeInfo
TreeNames == TreeObjects \cup {"configuration"}
TreeHookTypes == {"plugin.deloaded", "keyboard.key", "output.post_render"}

\* The catalogue has no undetected cycle and names groups last, and its plugins
\* use the apis as the theorems ask.
TreeRank == [n \in TreeNames |->
    CASE n = "core-screenshot" -> 2
      [] n \in {"keybind", "compressor-png", "compressor-ppm"} -> 1
      [] OTHER -> 0]

ASSUME CatalogueInOrder == Info = TreeInfo => Ranks(TreeRank) /\ GroupsLast /\ AfterLast
ASSUME CallsInOrder ==
    Info = TreeInfo => ApisRequired /\ ApisListen /\ CompressorsGrouped
=============================================================================
