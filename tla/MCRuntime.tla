----------------------------- MODULE MCRuntime -----------------------------
(***************************************************************************)
(* A small card for Runtime, with files that the profile does not know,    *)
(* applications with and without files, and beside it, small files for     *)
(* FileAccess: a transparent EF that takes two commands, and a record.     *)
(* The two share no state, so the run looks at one or the other.           *)
(***************************************************************************)
EXTENDS Runtime, FileAccess, TLC

f(ids) == <<"3f00">> \o ids
Dfs(s) == [x \in s |-> "df"]
Efs(s) == [x \in s |-> "ef"]

\* DF.A with an EF that the profile knows and one that it does not, DF.B that
\* the profile does not know, EF.9 that the card has not; an application
\* with a file of the same FID as one of DF.A, and one without files.
MCProfile ==
  Dfs({f(<<>>), f(<<"A">>), f(<<"usim">>), f(<<"isd">>)})
  @@ Efs({f(<<"9">>), f(<<"A", "1">>), f(<<"usim", "1">>)})
MCCard ==
  Dfs({f(<<>>), f(<<"A">>), f(<<"B">>), f(<<"usim">>), f(<<"isd">>)})
  @@ Efs({f(<<"A", "1">>), f(<<"A", "2">>), f(<<"usim", "1">>)})
MCNames == {"3f00", "A", "B", "1", "2", "9", "new", "usim", "isd"}
MCNamePaths == {<<"A", "1">>, <<"3f00", "A", "9">>, <<"usim", "1">>, <<"isd", "1">>, <<"B", "A">>}
MCRefusable == {f(<<"A">>), f(<<"B">>), f(<<"A", "1">>), f(<<"usim">>), f(<<"isd">>)}
MCCreateIn == {f(<<"A">>)}

\* The properties say nothing after a way back has failed at its first SELECT.
OnCourse == ~astray

\* A third channel may be opened while nothing but the channels has been used
\* on the basic one.
Few ==
  2 \in DOMAIN lchan => files = Card /\ tree = Profile /\ refused = {} /\ lchan[0].sel = MF

MCData == {<<>>, <<0>>, <<0, 1>>, <<1, 0, 0>>, <<1, 0, 1, 1>>}

Zeroes == [file \in Files |-> [i \in 0 .. FileLength(file) - 1 |-> 0]]

MCInit == RuntimeInit /\ Init

MCNext ==
  \/ Init /\ content = Zeroes /\ RuntimeNext /\ UNCHANGED vars
  \/ RuntimeInit /\ Next /\ UNCHANGED runtime

MCSpec == MCInit /\ [][MCNext]_<<runtime, vars>>

\* The properties need it.
ASSUME AppsAssured
=============================================================================
