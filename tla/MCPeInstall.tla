---------------------------- MODULE MCPeInstall -----------------------------
EXTENDS PeInstall

AllTasks == Task

=============================================================================
