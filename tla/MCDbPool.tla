------------------------------ MODULE MCDbPool ------------------------------
(* TLC instances of DbPool: a server with a write database and a backup file  *)
(* (mysql mode), and one with a single sqlite file (sqlite mode).             *)
EXTENDS DbPool

MysqlMode == <<"addWrite", "addBackup">>
SqliteMode == <<"addRead", "addWrite">>
BothModes == {MysqlMode, SqliteMode}

=============================================================================
