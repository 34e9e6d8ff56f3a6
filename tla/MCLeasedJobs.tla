---------------------------- MODULE MCLeasedJobs ----------------------------
EXTENDS LeasedJobs

CONSTANTS j1, w1, w2, p1
=============================================================================
