-------------------------- MODULE MCENIStateMachine --------------------------
EXTENDS ENIStateMachine

\* Two writes of other clients make every attempt of Update's retry loop
\* conflict at least once.
MCMaxOtherWrites == 2
=============================================================================
