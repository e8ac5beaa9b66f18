--------------------------- MODULE MCStorageEngine ---------------------------
\* One client and two items, of any stores, over two lives.
EXTENDS StorageEngine
=============================================================================
