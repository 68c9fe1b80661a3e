------------------------------ MODULE MC_HttpService ------------------------------
EXTENDS HttpService

(* Two tables, flushed in the order t1, t2.                                *)
MCTableOrder == <<"t1", "t2">>
====
