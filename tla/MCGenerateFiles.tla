---------------------------- MODULE MCGenerateFiles ----------------------------
(* Two commands that write up to two files: each at a place of its own,    *)
(* both at one, or one where the configuration is; by names that links,    *)
(* another case or another form of letters make different, of files that   *)
(* are there or not, and with case folded in the comparison or not.        *)
EXTENDS GenerateFiles

Layout(place, spelling, earlier, foldsCase) ==
  [place |-> place, spelling |-> spelling, earlier |-> earlier, foldsCase |-> foldsCase]

Apart    == <<"first", "second">>
Together == <<"first", "first">>

MCLayouts ==
  {Layout(Apart, <<"plain", "plain">>, {}, FALSE),
   Layout(Apart, <<"plain", "plain">>, {"first"}, FALSE),
   Layout(Together, <<"plain", "plain">>, {}, FALSE),
   Layout(Together, <<"plain", "case">>, {}, TRUE),
   Layout(Together, <<"plain", "case">>, {}, FALSE),
   Layout(Together, <<"plain", "case">>, {"first"}, FALSE),
   Layout(Together, <<"case", "form">>, {}, TRUE),
   Layout(<<"first", "config">>, <<"plain", "plain">>, {}, FALSE),
   Layout(<<"config", "first">>, <<"case", "plain">>, {}, FALSE)}

MCCasts ==
  {[c1 |-> "init", c2 |-> "install"], [c1 |-> "install", c2 |-> "run"],
   [c1 |-> "launchd", c2 |-> "single"]}

=============================================================================
