---------------------- MODULE MCFolderSyncReplication ----------------------
(* The instances of MCFolderSync whose folder has a single author. *)
EXTENDS MCFolderSync, FolderSyncReplication

(* Every other device gets the folder from the author itself. *)
FromAuthor == [d \in Device |-> Author]

ASSUME AuthorAssumption == OneAuthor

=============================================================================
