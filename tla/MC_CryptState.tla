---------------------------- MODULE MC_CryptState ----------------------------
EXTENDS CryptState
=============================================================================
