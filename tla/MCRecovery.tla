------------------------------ MODULE MCRecovery -------------------------------
(***************************************************************************)
(* Crashes of the process or of the machine, two of them or three writes;  *)
(* a failed manifest write and an iterator with a crash of the process;    *)
(* and logs that are used on, with memtables of two records.               *)
(***************************************************************************)
EXTENDS Recovery

Setting(n, c, m, f, p, size, reuse) ==
  [writes |-> n, crashes |-> c, machine |-> m, faults |-> f, pins |-> p,
   write_buffer_size |-> size, reuse_logs |-> reuse]

SomeSettings == {Setting(2, 2, TRUE, 0, 0, 0, FALSE), Setting(3, 1, TRUE, 0, 0, 0, FALSE),
                 Setting(2, 1, FALSE, 1, 1, 0, FALSE), Setting(3, 2, FALSE, 1, 0, 1, TRUE)}
=============================================================================
