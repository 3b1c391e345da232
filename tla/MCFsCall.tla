------------------------------ MODULE MCFsCall ------------------------------
(* Model-checking instance of FsCall: users a and b with routed sessions, the  *)
(* login service as the direct session of user 0.                              *)
EXTENDS FsCall

MCUid == [s \in {"a", "b", "login"} |->
            CASE s = "a" -> 1 [] s = "b" -> 2 [] s = "login" -> 0]
MCCalls == [s \in {"a", "b", "login"} |->
            CASE s = "a" -> 3 [] s = "b" -> 1 [] s = "login" -> 2]
MCLives == [s \in {"a", "b"} |-> IF s = "a" THEN 1 ELSE 2]
Abs(parts) == [abs |-> TRUE, parts |-> parts]
MCOpens == [s \in {"a", "b"} |->
            IF s = "a" THEN {[raw |-> Abs(<<"home", "a", "f">>), creat |-> TRUE]} ELSE {}]
MCMkdirs == [s \in {"a", "b"} |-> IF s = "b" THEN {Abs(<<"home", "a", "d">>)} ELSE {}]
MCFirstSid == [s \in {"a", "b"} |-> IF s = "a" THEN 1 ELSE 2]
MCRequests == {[kind |-> "register", who |-> 1, user |-> [name |-> "a", admin |-> FALSE]]}
=============================================================================
