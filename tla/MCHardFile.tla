----------------------------- MODULE MCHardFile -----------------------------
(* Small instances of the hardfile device.  MCHardFile.cfg has room for one *)
(* reply, so that a thread may find the pipe full: while 68k code runs, and *)
(* while the main thread is inside the device and waits for the thread.     *)
EXTENDS HardFile

CONSTANTS r1, r2, r3
=============================================================================
