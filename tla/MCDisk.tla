------------------------------- MODULE MCDisk ------------------------------
(* Disk for TLC: a block is logged and installed by two processes, while a *)
(* third one reads; blocks outnumber the buffers.                          *)
EXTENDS Disk

CONSTANTS p1, p2, p3, b1, b2, b3, b4

SomeUses ==
  {<<p1, b1, "log">>, <<p1, b4, "read">>, <<p2, b2, "write">>, <<p3, b3, "read">>, <<p3, b1, "install">>}
============================================================================
