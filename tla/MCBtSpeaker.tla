------------------------------- MODULE MCBtSpeaker -------------------------------
EXTENDS BtSpeaker
=============================================================================
