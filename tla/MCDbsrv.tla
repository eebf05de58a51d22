------------------------------- MODULE MCDbsrv -------------------------------
(* Instances of Dbsrv for TLC. *)
EXTENDS Dbsrv
CONSTANTS g1, g2, u1, t1, t2

\* Loads of one table or of both: partial misses of the cache.
SomeTables == {{t1}, {t2}, {t1, t2}}

\* The repository's configuration, in which no table's name has a descriptor, and
\* both settings of delay_write with descriptors for all tables.
SomeConfigs == {<<FALSE, {}>>, <<FALSE, {t1, t2}>>, <<TRUE, {t1, t2}>>}
=============================================================================
