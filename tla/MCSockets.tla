------------------------------- MODULE MCSockets -------------------------------
(* Three tasks on one table: one reads, one writes, one opens sockets,      *)
(* joins groups and closes.                                                 *)
EXTENDS Sockets

CONSTANTS reader, writer, manager, c1, c2

ReadWriteClose ==
    [t \in Task |-> IF t = reader THEN {"recv"}
                    ELSE IF t = writer THEN {"send"}
                    ELSE {"socket", "setsockopt", "close"}]
===============================================================================
