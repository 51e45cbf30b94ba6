------------------------------ MODULE MCShell ------------------------------
(***************************************************************************)
(* Lines for TLC: each command alone, with one and two pipes, with three   *)
(* (more than the README of Project2 allows), with every way a redirection *)
(* can go (both, one, the file missing, no name, the name twice), and the  *)
(* words that the shell treats on its own.                                 *)
(***************************************************************************)
EXTENDS Shell

MCFiles == {"f", "g"}

Pipelines == {
    <<"gen", "|", "filter">>,
    <<"gen", "|", "head">>,
    <<"gen", "|", "filter", "|", "filter">>,
    <<"gen", "|", "gen", "|", "head">>,
    <<"nix", "|", "filter">>,
    <<"gen", "|">>,
    <<"gen", "|", "filter", "|", "filter", "|", "filter">>,
    <<"gen", "|", "gen", "|", "gen", "|", "gen">> }

Redirections == {
    <<"gen", ">", "f">>,
    <<"filter", "<", "f">>,
    <<"filter", "<", "f", ">", "g">>,
    <<"filter", ">", "g", "a", "<", "f">>,
    <<"filter", "<", "f", ">", "f">>,
    <<"filter", "g", ">", "g">>,
    <<"gen", "|", "filter", ">", "f">>,
    <<"gen", ">">> }

Others == { <<"gen">>, <<"filter">>, <<"nix">>, <<"mypwd", ">", "f">>, <<"mypwd", "|", "filter">>, <<"mycd">>, <<"myexit">> }

MCLines == Pipelines \union Redirections \union Others
============================================================================
