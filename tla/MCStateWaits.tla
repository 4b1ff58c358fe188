---------------------------- MODULE MCStateWaits ----------------------------
(* StateWaits on the transition table of tests/test_state.py. *)
EXTENDS StateWaits, TLC

MCState == {"UNINITIALIZED", "EXCEPTION", "FOO", "BAR", "BAZ"}

MCTransitions ==
    ("UNINITIALIZED" :> {"FOO", "BAR"}) @@
    ("EXCEPTION" :> {}) @@
    ("FOO" :> {"BAR"}) @@
    ("BAR" :> {"BAZ"}) @@
    ("BAZ" :> {"FOO"})

MCWaitArgs == {<<"FOO">>, <<"BAR", "FOO">>}
=============================================================================
