------------------------------ MODULE MC_Startup ------------------------------
(* Values for the constants of Startup.                                      *)
EXTENDS Startup
\* mSupportedBaudRates.
BaudRates == <<2400, 9600, 19200, 38400, 115200>>

\* Safety on or off; both modes right, the home mode wrong, or both wrong.
SomeDevices == {d \in ConfigMaps : d.autoMode = AutoMode \/ d.homeMode # HomeMode}

Nothing == {<<>>}
LateAnswers == {<<>>, <<OfKind("ProcessStatus"), OfKind("Engaged"),
                       OfKind("ProcessInvalid"), OfKind("Invalid")>>}
===============================================================================
