------------------------------- MODULE MCUnTar -------------------------------
(***************************************************************************)
(* Archives for UnTar: files whose sizes are around the size of a block,   *)
(* and members of all other types.                                         *)
(***************************************************************************)
EXTENDS UnTar

CONSTANT MaxMembers     \* bound of the model: members of an archive

Member(type, size, fork, zeros) ==
    [type |-> type, size |-> size, fork |-> fork, zeros |-> zeros]

MCMembers ==
    { Member("file", size, FALSE, zeros) :
        size \in {1, 511, 512, 513, 1024}, zeros \in BOOLEAN }
      \cup { Member("file", 0, FALSE, FALSE), Member("file", 82, TRUE, FALSE),
             Member("longname", 120, FALSE, FALSE),
             Member("other", 30, FALSE, FALSE), Member("other", 600, FALSE, TRUE) }
      \cup { Member(type, 0, FALSE, FALSE) :
                type \in {"directory", "link", "fifo", "other"} }

MCArchives == UNION { [1..n -> MCMembers] : n \in 0..MaxMembers }
=============================================================================
