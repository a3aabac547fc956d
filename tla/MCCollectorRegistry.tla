------------------------ MODULE MCCollectorRegistry ------------------------
EXTENDS CollectorRegistry

CONSTANTS cpu, os, ntp, unknown

SomeFilters == {<<>>, <<cpu>>, <<os, cpu>>, <<ntp>>, <<unknown>>}
=============================================================================
