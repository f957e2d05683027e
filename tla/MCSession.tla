------------------------------ MODULE MCSession ------------------------------
\* Three connections over one pool element and one heap block, so that the pool
\* is exhausted, memory of either kind is reused while another session is alive,
\* and a script may hold a pointer to it.
EXTENDS Session

MCStypes == {1}
MCUids == {7}
=============================================================================
