----------------------------- MODULE MCDevices -----------------------------
EXTENDS DeviceStore
=============================================================================
