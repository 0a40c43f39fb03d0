---------------------------- MODULE MCFileTransfer ----------------------------
EXTENDS FileTransfer, TLC

CONSTANTS c1, b1, b2

MCSource == <<1, 2, 3, 4>>
=============================================================================
