----------------------------- MODULE MCKeybind -----------------------------
(***************************************************************************)
(* Two plugins with two keybinds each, whose combinations overlap, and two *)
(* configuration backends, of which one may fail and the other follow.     *)
(***************************************************************************)
EXTENDS Keybind, TLC

R(n, p, ds) == [bind |-> [name |-> n, owner |-> p], defaults |-> ds]

MCRequests ==
    { R("sleep", "other", <<<<"P", "d">>>>),
      R("exit", "core", <<<<"P", "Escape">>, <<"P", "d">>>>),
      R("focus next", "core", <<<<"B0">>, <<"B0">>>>),
      R("exit", "other", <<<<"P", "B0">>, <<"P", "d">>>>) }

MCSpelling ==
    "sleep" :> <<"sleep">> @@ "exit" :> <<"exit">> @@ "focus next" :> <<"focus", " ", "next">>

Line(path, value) == [path |-> path, value |-> value]

\* A key given twice, in either spelling; an empty value; keys that are not
\* valid; a path of one character.
MCFiles ==
    "ini" :> << Line(<<"keybindings", "/", "exit", "/", "mappings">>, <<"P", "B0">>),
                Line(<<"keybindings", ".", "exit", ".", "mappings">>, <<"L", "d">>),
                Line(<<"keybindings", "/", "sleep", "/", "mappings">>, <<>>),
                Line(<<"keybindings", " ", "/", "mappings">>, <<"B0">>),
                Line(<<"core", "/", "/", "delay">>, <<"B0">>),
                Line(<<"core", "/">>, <<"B0">>),
                Line(<<"x">>, <<"B0">>) >>
    @@ "json" :> << Line(<<"keybindings", "/", "focus", "_", "next", "/", "mappings">>, <<"P", "d">>),
                  Line(<<"keybindings", "/", "prefix">>, <<"alt">>) >>

MCWords == {"keybindings", "mappings", "sleep", "exit", "focus", "next", "core", "delay",
            "prefix", "_", "x"}

\* Evaluated once, before the run.
ASSUME KeysAsDocumented(6)

MCKeyEvents ==
    { [mods |-> {"logo"}, key |-> "d"], [mods |-> {"alt"}, key |-> "d"],
      [mods |-> {"alt"}, key |-> "B0"], [mods |-> {}, key |-> "B0"],
      [mods |-> {"logo", "shift"}, key |-> "Escape"] }

MCCombos ==
    {<<"P", "d">>, <<"P", "Escape">>, <<"B0">>, <<"P", "B0">>, <<"L", "d">>, <<"alt">>}

MCValues == {<<"P", "B0">>, <<"P", "d">>, <<"L", "d">>, <<"B0">>, <<"alt">>, <<>>}
=============================================================================
