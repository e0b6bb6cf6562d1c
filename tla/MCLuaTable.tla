------------------------------ MODULE MCLuaTable ------------------------------
(* Two keys that collide and are collected, one that names an event, and   *)
(* indices beyond the array.                                               *)
EXTENDS LuaTableUse

MCHash(key) == CASE IsNumber(key) -> key[2] [] IsString(key) -> 1 [] OTHER -> 4
MCStringLess(s, t) == FALSE
MCFields == {Num(1), Num(2), Num(4), Event("index")}
MCValues == {Bool(TRUE)}
MCNoKey == <<"none">>
================================================================================
