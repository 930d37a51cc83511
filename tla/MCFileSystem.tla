----------------------------- MODULE MCFileSystem -----------------------------
(* Two processes, one of them a run of file "a", which it opens denying      *)
(* writes, the other of a file that no call names; and a name that is too    *)
(* long.  One direct entry and index blocks of one entry make a file of      *)
(* three sectors use all three kinds of index; the device has room for one   *)
(* such file.  The directory starts empty and grows with its first entry.    *)
EXTENDS FileSystem

MCExecutable == [p |-> "a", q |-> "sh"]
MCFds == {-1, 2}
MCPositions == {-1, 3, 9}

\* Bound: after a shutdown one process calls on, near the beginning of its file.
MCAfterHalt ==
    halts > 0 => /\ status = [o \in Procs |-> "run"] /\ file_list["p"] = <<>>
                 /\ \A i \in DOMAIN file_list["q"] : file_list["q"][i].file.pos <= 3
=============================================================================
