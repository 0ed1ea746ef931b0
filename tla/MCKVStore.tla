------------------------------ MODULE MCKVStore -----------------------------
(* Clients that send every command, and one that is none.                   *)
EXTENDS KVStore

AllCommands == Sets \cup Mods \cup Gets \cup Dels \cup Counts \cup {"unknown"}

Symmetric == Permutations(Key)

=============================================================================
