---------------------------- MODULE MCReceiver ----------------------------
\* Receiver with two watched slots.
EXTENDS Receiver

WatchedBoth == <<1, 2>>
=============================================================================
