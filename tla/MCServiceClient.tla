---------------------------- MODULE MCServiceClient ----------------------------
EXTENDS ServiceClient
=============================================================================
