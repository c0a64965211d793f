----------------------------- MODULE MCRunCommand -----------------------------
(***************************************************************************)
(* Values for model checking RunCommand: two projects, "a" first in the    *)
(* configuration, and runs of all of them or of one; or one project alone. *)
(***************************************************************************)
EXTENDS RunCommand

MCOrder == <<"a", "b">>
OnlyA == <<"a">>
AllOrOne == {{"a", "b"}, {"a"}, {"b"}}
All == {{"a", "b"}}
JustA == {{"a"}}

=============================================================================
