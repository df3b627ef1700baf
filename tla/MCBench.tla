------------------------------ MODULE MCBench -------------------------------
EXTENDS Bench
MCPlans == {<<"acc", "unknown">>, <<"mag", "level">>, <<"unknown", "gyr">>}
MCStates == {"INIT", "STANDBY", "ARMED", "FAILSAFE"}
=============================================================================
