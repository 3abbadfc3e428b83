-------------------------- MODULE MCPluginLoader --------------------------
(***************************************************************************)
(* Catalogues of third-party plugins for model checking the loader.                    *)
(***************************************************************************)
EXTENDS PluginLoader, TLC

None == [provides |-> <<>>, conflicts |-> <<>>, requires |-> <<>>,
         after |-> <<>>, groups |-> <<>>]
P(name, over) == ("name" :> name) @@ over @@ None

\* Third-party plugins that use what the tree's do not: a second plugin of a
\* name, a name provided twice, conflicts, a group listed twice, plugins that
\* name each other, a requirement on a plugin that may be absent.
OddInfo ==
    "orbment" :> P("orbment", None)
    @@ "a" :> P("a", [requires |-> <<"b">>, groups |-> <<"g">>])
    @@ "b" :> P("b", [after |-> <<"c">>])
    @@ "b2" :> P("b", [provides |-> <<"g">>])
    @@ "c" :> P("c", [after |-> <<"b">>])
    @@ "d" :> P("d", [requires |-> <<"b", "g">>, after |-> <<"t", "e">>, conflicts |-> <<"c">>])
    @@ "e" :> P("e", [requires |-> <<"d">>, after |-> <<"g">>])
    @@ "t" :> P("t", [groups |-> <<"f", "g", "f">>])

OddObjects == DOMAIN OddInfo

\* A requirement that names a group, followed by another one.
GroupFirstInfo ==
    "orbment" :> P("orbment", None)
    @@ "user" :> P("user", [requires |-> <<"g", "lib">>])
    @@ "member" :> P("member", [groups |-> <<"g">>])
    @@ "lib" :> P("lib", None)

\* Three plugins that require each other in a ring.
RingInfo ==
    "orbment" :> P("orbment", None)
    @@ "a" :> P("a", [requires |-> <<"b">>])
    @@ "b" :> P("b", [requires |-> <<"c">>])
    @@ "c" :> P("c", [requires |-> <<"a">>])

\* A plugin whose name is the name of a group it does not belong to.
NamesakeInfo ==
    "orbment" :> P("orbment", None)
    @@ "member" :> P("member", [groups |-> <<"g">>])
    @@ "namesake" :> P("g", None)
    @@ "late" :> P("late", [groups |-> <<"g">>])

AllNames == {"t", "orbment", "a", "b", "c", "d", "e", "f", "g", "user", "member", "lib", "late"}

\* The first catalogue is free of undetected cycles, and names groups last:
\* without the one NoReentry fails, without the other RequiredLoaded and
\* LoadOrder.
OddRank == [n \in AllNames |->
    CASE n \in {"d", "e"} -> 2 [] n \in {"a", "c"} -> 1 [] OTHER -> 0]

ASSUME CatalogueInOrder == Info = OddInfo => Ranks(OddRank) /\ GroupsLast /\ AfterLast

GroupFirstObjects == DOMAIN GroupFirstInfo
RingObjects == DOMAIN RingInfo
NamesakeObjects == DOMAIN NamesakeInfo
=============================================================================
