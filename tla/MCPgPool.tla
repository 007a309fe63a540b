------------------------------ MODULE MCPgPool ------------------------------
(* PgPool with four worker threads and two connections: threads have to      *)
(* wait, several can wait at once, and both connections can die.             *)
EXTENDS PgPool

MCThreads == {"t1", "t2", "t3", "t4"}
=============================================================================
