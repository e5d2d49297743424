------------------------------- MODULE MCStartup -------------------------------
\* Three processes, a DDL of five objects of which two are core tables, two accounts: a
\* process can be between any two statements while the others check, create, stamp, crash
\* or start under another account.
EXTENDS Startup

CONSTANTS p1, p2, p3

CoreObjects == {1, 3}

=============================================================================
