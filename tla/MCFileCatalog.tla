---------------------------- MODULE MCFileCatalog ----------------------------
EXTENDS FileCatalog
MCRootOf == [p \in Paths |-> "left"]
=============================================================================
