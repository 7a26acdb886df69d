-------------------- MODULE MCFixedPhaseIterationHandler --------------------
(* Small road networks for model checking the handler. *)
EXTENDS FixedPhaseIterationHandler, TLC

SteadySteps == {1, 3}
UnsteadySteps == {-2, 1, 3}

\* A cycle with a choice, a cycle of two, and a ring whose transitions end:
\* loaded in "dark" it stays there, loaded in "blink" it runs into the end.
EndingNextPhases ==
  "main" :> ("go" :> <<"wait", "stop">> @@ "wait" :> <<"stop">> @@ "stop" :> <<"go">>)
  @@ "side" :> ("on" :> <<"off">> @@ "off" :> <<"on">>)
  @@ "lamp" :> ("blink" :> <<"dark">> @@ "dark" :> <<>>)

\* Two rings that go round, and one declared without transitions.
CyclicNextPhases ==
  "main" :> ("go" :> <<"wait">> @@ "wait" :> <<"stop">> @@ "stop" :> <<"go">>)
  @@ "side" :> ("on" :> <<"off">> @@ "off" :> <<"on">>)
  @@ "still" :> ("dark" :> <<>>)
=============================================================================
