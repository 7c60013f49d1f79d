------------------------- MODULE MC_ServiceMonitor -------------------------
EXTENDS ServiceMonitor

MC_Device == <<"d">>
MC_DefaultTypes == {<<>>, <<"x">>}

=============================================================================
