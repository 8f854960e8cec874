----------------------------- MODULE MCSettings -----------------------------
(***************************************************************************)
(* Settings for TLC: the configurations a machine starts with and the      *)
(* documents its user saves.                                                *)
(***************************************************************************)
EXTENDS Settings

MCStarts ==
    {Empty,
     Toml(NoRows, "off", <<"clash", "ours">>),
     Toml(RowsOf("user", 1), "unset", <<"half">>),
     Toml(RowsOf("user", 2), "odd", <<>>)}

MCSaves == {Broken, Toml(RowsOf("user", 1), "off", <<"clash">>)}
=============================================================================
