------------------------------- MODULE MCNtp --------------------------------
EXTENDS Ntp
=============================================================================
