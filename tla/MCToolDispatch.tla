---------------------------- MODULE MCToolDispatch ----------------------------
EXTENDS ToolDispatch
=============================================================================
