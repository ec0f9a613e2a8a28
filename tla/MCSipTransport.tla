---------------------------- MODULE MCSipTransport ----------------------------
\* The sizes of the pools and queues are constants of the configuration.
EXTENDS SipTransport
===============================================================================
