------------------------------ MODULE MCUpdater ------------------------------
(***************************************************************************)
(* Updater with five releases and a build: two releases that work, one     *)
(* that starts and never answers, one that does not start, the build made  *)
(* to mend it, and a last release that works.                              *)
(***************************************************************************)
EXTENDS Updater

MCVersions == 1..6
MCBuilds   == {5}
MCGood     == {1, 2, 5, 6}
MCBroken   == {4}

MCTag == <<
    << <<0>>, <<9>>, <<9>> >>,                              \* v0.9.9
    << <<0>>, <<1, 0>>, <<0>> >>,                           \* v0.10.0
    << <<0>>, <<1, 0>>, <<1>> >>,                           \* v0.10.1
    << <<0>>, <<1, 0>>, <<2>> >>,                           \* v0.10.2
    << <<0>>, <<1, 0>>, <<2, -1, 1, -1, 16, 10>> >>,        \* v0.10.2-1-ga
    << <<0>>, <<1, 0>>, <<3>> >> >>                         \* v0.10.3

=============================================================================
