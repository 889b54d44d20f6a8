----------------------------- MODULE ListViewMC -----------------------------
(***************************************************************************)
(* A small instance of ListView: archives with a pak of two members and a  *)
(* pak of one, equal names for ties, and a folder; files and paks are      *)
(* added.                                                                  *)
(***************************************************************************)
EXTENDS ListView

File(n, size) == [name |-> n, type |-> "file", pak |-> 0, real |-> size]
Folder(n) == [name |-> n, type |-> "folder", pak |-> 0, real |-> 0]
Pak(n, members) == [name |-> n, type |-> "pak", pak |-> members, real |-> 2]
Member(n, k, size) == [name |-> n, type |-> "member", pak |-> k, real |-> size]

MCArchives ==
  { <<File(<<1, 1>>, 1), Pak(<<0, 1>>, 2), Member(<<1, 1>>, 1, 1), Member(<<0, 0>>, 2, 2)>>,
    <<Pak(<<0, 0>>, 1), Member(<<0, 1>>, 1, 1), Pak(<<0, 1>>, 1), Member(<<0, 1>>, 1, 2)>>,
    <<Folder(<<1, 0>>), Pak(<<0, 1>>, 1), Member(<<0, 1>>, 1, 1)>> }

MCNames == { <<0, 1>> }

MCAdditions ==
  { <<File(<<0, 1>>, 2)>>,
    <<Pak(<<1, 1>>, 1), Member(<<0, 0>>, 1, 1)>> }
=============================================================================
