-------------------------- MODULE MC_IdentityStore --------------------------
EXTENDS IdentityStore
=============================================================================
