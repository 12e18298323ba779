------------------------------ MODULE MCMysql ------------------------------
(***************************************************************************)
(* MysqlMgr with more workers than connections, so that two ids share a    *)
(* connection that one of them would not use on the worker of its own.     *)
(***************************************************************************)
EXTENDS MysqlMgr
=============================================================================
