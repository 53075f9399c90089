-------------------------- MODULE MCClientLifecycle --------------------------
EXTENDS ClientLifecycle

CONSTANTS h1, h2, o1, o2, o3

MCThreads == {h1, h2}
MCOps     == {o1, o2, o3}
=============================================================================
