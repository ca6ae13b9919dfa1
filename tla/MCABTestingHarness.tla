------------------------- MODULE MCABTestingHarness -------------------------
\* Four requests, two of which share a prefix, two at a time, both strategies.
EXTENDS ABTestingHarness

Four == 1 .. 4
Prompts == <<3, 1, 2, 1>>
Sharing == {1, 2}
BothStrategies == <<"STANDARD_KV_CACHE", "NEXUS_PAGED_CACHE">>
Reaches == <<1, 2>>
=============================================================================
