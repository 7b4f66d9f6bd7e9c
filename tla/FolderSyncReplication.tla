----------------------- MODULE FolderSyncReplication -----------------------
(***************************************************************************)
(* FolderSync with a single author implements Replication, path by path.   *)
(***************************************************************************)
EXTENDS FolderSync

CONSTANTS
    Author,     \* the device whose user edits the folder
    Upstream    \* Upstream[d]: the device from which d gets the folder

(* One user edits, and every other device is linked to the device it gets  *)
(* the folder from and to those that get it from itself: a pair, a chain,  *)
(* a star or a tree.                                                       *)
OneAuthor ==
    /\ Author \in Device
    /\ Writer \subseteq {Author} /\ Deleter \subseteq {Author} /\ Existing \subseteq {Author}
    /\ Upstream \in [Device -> Device]
    /\ Link \subseteq {{d, Upstream[d]} : d \in Device \ {Author}}

(* The author's counter stamps an entry; deletion is a value like any other. *)
Register(entry) ==
    [stamp |-> entry.version[Author], value |-> <<entry.deleted, entry.content>>]

Register0(entry) == IF entry = NoEntry THEN [stamp |-> 0, value |-> 0] ELSE Register(entry)

(* The entries of a path that an index, a receive or a message carries.    *)
Pended(d, e, p) == IF pend[d][e][p] = NoPending THEN NoEntry ELSE pend[d][e][p].entry
Announced(d, e, p) == {m.entries[p] : m \in {n \in Range(chan[d][e]) : n.type = "index"}}

Entries(p) ==
    {file[d][p].index : d \in Device}
        \cup {Pended(d, e, p) : d, e \in Device}
        \cup UNION {Announced(d, e, p) : d, e \in Device}

Copies(p) == [d \in Device |-> Register0(file[d][p].index)]
Afloat(p) == {Register(entry) : entry \in Entries(p) \ {NoEntry}}

Promise(p) == INSTANCE Replication WITH
    Replica <- Device, Value <- BOOLEAN \X Content, copy <- Copies(p), afloat <- Afloat(p)

(* With one author every path is a replicated register: no device invents  *)
(* a state of the path, goes back to one it has left, or gives two         *)
(* contents to one version, whatever is lost, superseded or sent twice.    *)
ImplementsReplication ==
    /\ \A p \in Path : Promise(p)!Init
    /\ [][\A p \in Path : Promise(p)!Next \/ UNCHANGED Promise(p)!vars]_vars

=============================================================================
