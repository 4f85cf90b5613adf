--------------------------- MODULE MCRetryConnect ----------------------------
\* TLC's instance: hh chooses the recording, gg and kk have it too or fail the check.
EXTENDS RetryConnectProps
CONSTANTS hh, gg, kk
=============================================================================
