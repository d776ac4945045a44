------------------------------ MODULE MCWebStat ------------------------------
(* WebStat for TLC: all tables without a page, or two pages with few rows. *)
EXTENDS WebStat, TLC

CONSTANTS user, j1, j2, j3, p1, p2

MCOne == {1}
MCTwo == 1..2
MCThree == 1..3
MCNone == {}
MCPoolInfos == {user}
MCJobs == {j1, j2, j3}
MCPages == {p1, p2}
MCJobSymmetry == Permutations(MCJobs)
MCPageSymmetry == Permutations(MCPages)

=============================================================================
