---------------------------- MODULE MCWebCommands ----------------------------
(* Small instances of WebCommands for TLC.                                 *)
EXTENDS WebCommands

CONSTANTS a1, a2, a3, x, y

Form(page, typed, files) == [page |-> page, agents |-> <<a1, a2>>, typed |-> typed, files |-> files]

\* Two files selected, one typed and one selected, one typed and no list at all; two
\* operations; the old pages.  All select the first two agents, the third comes and goes.
MCForms == {
    Form("nfile", {}, <<x, y>>),
    Form("nfile", {x}, <<y>>),
    Form("nfile", {x}, NoList),
    Form("noperation", {x}, NoList),
    Form("noperation", {y}, NoList),
    Form("operation", {y}, NoList),
    Form("file", {x}, NoList)}

=============================================================================
