----------------------------- MODULE MCNotices ------------------------------
(* Values of the constants of Notices for TLC. *)
EXTENDS NoticePages, TLC

CONSTANTS team, login, absence, receipt, task

Kinds      == {team, login, absence, receipt, task}
AllOrLogin == {Kinds, {login}}
=============================================================================
