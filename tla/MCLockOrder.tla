---------------------------- MODULE MCLockOrder ----------------------------
EXTENDS LockOrder
=============================================================================
