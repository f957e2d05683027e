--------------------------- MODULE MCMysqlWrapper ---------------------------
\* Two workers, two connections and two queries: a query waits behind another on
\* one mutex, a close overtakes one, both workers block.
EXTENDS MysqlWrapper
=============================================================================
