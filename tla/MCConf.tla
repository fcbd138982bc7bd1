------------------------------- MODULE MCConf -------------------------------
(* Instances of Conf for TLC.  Channels hold one event instead of ten, so  *)
(* that they fill up.                                                      *)
EXTENDS Conf

CONSTANTS mysql, dot, c1, c2, s1, s2

(* Two readers of mysql.toml; dot stands for an editor backup beside it.   *)
AllMysql   == [c \in {c1, c2} |-> mysql]
OneMysql   == [c \in {c1} |-> mysql]
=============================================================================
