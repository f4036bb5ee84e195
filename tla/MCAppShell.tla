----------------------------- MODULE MCAppShell -----------------------------
EXTENDS AppShell
=============================================================================
