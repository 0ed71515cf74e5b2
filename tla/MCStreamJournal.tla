-------------------------- MODULE MCStreamJournal --------------------------
EXTENDS StreamJournal

HostAndChat == <<"host", "chat">>
=============================================================================
