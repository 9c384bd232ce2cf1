------------------------------- MODULE MCPhone -------------------------------
EXTENDS PhoneTransport
=============================================================================
