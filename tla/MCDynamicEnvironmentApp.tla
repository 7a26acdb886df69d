----------------------- MODULE MCDynamicEnvironmentApp -----------------------
(* Small road networks for model checking the application. *)
EXTENDS DynamicEnvironmentApp, TLC

UnsteadySteps == {-2, 1, 3}

\* A ring that goes round, a ring with a dead end, and one of whose phases one
\* has no bulb states.
MixedNextPhases ==
  "main" :> ("go" :> <<"wait">> @@ "wait" :> <<"go">>)
  @@ "lamp" :> ("blink" :> <<"dark">> @@ "dark" :> <<>>)
  @@ "side" :> ("on" :> <<"off">> @@ "off" :> <<"on">>)

SideOffBulbless == {<<"side", "off">>}

\* A static rule and one that is not, which has no state yet.
TwoRules == "limit" :> 1 @@ "right_of_way" :> 2
MissingStates == {{"right_of_way"}, {"limit", "right_of_way"}}
=============================================================================
